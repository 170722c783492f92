------------------------------ MODULE MCOutbox ------------------------------
(***************************************************************************)
(* Instances of Outbox for TLC: the job's lease is twice its interval, as  *)
(* 120 seconds are of 60.                                                  *)
(***************************************************************************)
EXTENDS Outbox

CONSTANT dispatch

OneJob == << dispatch >>
EveryUnit == [j \in Jobs |-> 1]
TwoUnits == [j \in Jobs |-> 2]
=============================================================================
