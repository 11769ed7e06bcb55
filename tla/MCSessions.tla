------------------------------ MODULE MCSessions ------------------------------
(* Instances of Sessions and SessionScreens for TLC. *)
EXTENDS SessionScreens, TLC

DeviceSymmetry == Permutations(Devices)
===============================================================================
