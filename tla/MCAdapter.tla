------------------------------ MODULE MCAdapter ------------------------------
(* Instances of Adapter for TLC.                                           *)
EXTENDS Adapter

CONSTANTS e1, e2, t1, old, new

\* One thread only.
OneThread == (e1 :> t1) @@ (e2 :> t1)

\* Every instance authorises every event.
AllowAll == (old :> Event) @@ (new :> Event)

\* The replacement comes with an allow list that lacks e1's sender.
NewAllowsLess == (old :> Event) @@ (new :> Event \ {e1})
=============================================================================
