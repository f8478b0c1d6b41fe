--------------------------- MODULE MCVIDispatcher ---------------------------
(* Values for the constants of VIDispatcher that a .cfg cannot write.      *)
EXTENDS VIDispatcher
MiddleTwice == [l \in Lines |-> IF l = 1 THEN 2 ELSE 1]
OneEach == [l \in Lines |-> 1]
NoWorker == {}
FirstWorker == {1}
Ok == {"ok"}
OkOrTrap == {"ok", "trap"}
Never == {}

(* A bound for the run in which timing is free: a behaviour has two events *)
(* from outside, two triggers or one and the main function's return.       *)
MainReturned == pc[Main] \in {"sigAdd", "sigXchg", "sigStore", "sigKill", "end", "ended"}
TwoEvents == MainReturned => \E l \in Lines : accepted[l] = 0
RacesSpec == Init /\ [][Next /\ TwoEvents']_vars
=============================================================================
