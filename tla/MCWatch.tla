------------------------------ MODULE MCWatch ------------------------------
(* Instances of Watch for TLC.                                             *)
EXTENDS Watch

CONSTANTS e1, e2, t1

\* One thread with all the events.
OneThread == [e \in Event |-> t1]

\* The events of one thread are alike, and so are the processes.
Alike == Permutations(Event) \cup Permutations(Sidecar)
=============================================================================
