------------------------------ MODULE MCRequests ------------------------------
(* Instances of Requests for TLC. *)
EXTENDS Requests, TLC

CONSTANTS w1

MCHireDay == [w \in Workers |-> 1]
MCAccrued == [w \in Workers |-> 2]

NoDates == {NoDate}
AnyDates == Days \cup {NoDate}

RowSymmetry == Permutations(Ids)
===============================================================================
