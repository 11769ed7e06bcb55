--------------------------- MODULE RequestLifecycle ---------------------------
(***************************************************************************)
(* What the request service promises about the status of one employee      *)
(* request, as its error messages and its reviewers' screens state it: a   *)
(* request is submitted as pending, a reviewer decides it while it is open *)
(* (pending or observed), the worker cancels it only while it is pending   *)
(* and resubmits it only while it is observed.  Approved, rejected and     *)
(* cancelled are final.  Every operation is one atomic step here; module   *)
(* Requests has the real operations, which read and write in separate      *)
(* queries.                                                                *)
(***************************************************************************)

CONSTANT Ids                \* identifiers a row of employee_requests may get

VARIABLE status             \* status of each request, "none" when no row exists

Open  == {"pending", "observed"}
Final == {"approved", "rejected", "cancelled"}

Init == status = [id \in Ids |-> "none"]

Becomes(id, s) == status' = [status EXCEPT ![id] = s]

Submit(id) == status[id] = "none" /\ Becomes(id, "pending")

Decide(id) == /\ status[id] \in Open
              /\ \E d \in {"approved", "rejected", "observed"} : Becomes(id, d)

Cancel(id) == status[id] = "pending" /\ Becomes(id, "cancelled")

Resubmit(id) == status[id] = "observed" /\ Becomes(id, "pending")

Next == \E id \in Ids : Submit(id) \/ Decide(id) \/ Cancel(id) \/ Resubmit(id)

Spec == Init /\ [][Next]_status

===============================================================================
