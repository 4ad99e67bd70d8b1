------------------------ MODULE CredentialRefreshProofs ------------------------
(***************************************************************************)
(* Proofs about CredentialRefresh, for any number of processes and any     *)
(* bounds.  The argument: between taking and leaving the lock nobody else  *)
(* writes the file, so the token presented is the one stored (Presented);  *)
(* as long as no refresh is cut short, the stored pair is the newest one   *)
(* or the newest one is on its way to the file (Current).                  *)
(***************************************************************************)
EXTENDS CredentialRefresh, TLAPS

\* A token that is worth a refresh: it has come of age, or it is not the newest.
Worth(n) == Due(n) \/ n < issued

\* Whoever wants a refresh, or has asked for one, has a reason for it.
Reason ==
  /\ \A p \in Process : proc[p].at \in {"locking", "locked"} => Worth(proc[p].token)
  /\ \A p \in Process : proc[p].at = "asking" => Worth(proc[p].refresh)
  /\ \A n \in adrift : Worth(n)

Presented == \A p \in Process : proc[p].at = "asking" => proc[p].refresh = stored

Current ==
  cuts = 0 => /\ adrift = {}
              /\ \/ stored = issued
                 \/ \E p \in Process : proc[p].at = "granted"
              /\ \A p \in Process : proc[p].at = "granted" => proc[p].refresh = issued

IInv == TypeOK /\ Reason /\ Presented /\ Current

-----------------------------------------------------------------------------

\* The initial state satisfies the inductive invariant.
LEMMA InitEstablishesIInv == Init => IInv
  BY ConstantsAssumption
  DEF Init, IInv, TypeOK, Reason, Presented, Current, Worth, Due, Off, Pair, Inside

\* Each step of a process and of the server preserves the inductive invariant.
LEMMA StepPreservesIInv == IInv /\ [Next]_vars => IInv'
  <1> SUFFICES ASSUME IInv, [Next]_vars PROVE IInv'
    OBVIOUS
  <1> USE ConstantsAssumption
  <1> USE DEF IInv, TypeOK, Reason, Presented, Current, Worth, Due, Off, Pair, Inside
  <1>1. ASSUME NEW p \in Process, Begin(p) PROVE IInv'
    BY <1>1 DEF Begin
  <1>2. ASSUME NEW p \in Process, AccessToken(p) PROVE IInv'
    BY <1>2 DEF AccessToken
  <1>3. ASSUME NEW p \in Process, Reload(p) PROVE IInv'
    BY <1>3 DEF Reload
  <1>4. ASSUME NEW p \in Process, Answered(p) PROVE IInv'
    BY <1>4 DEF Answered
  <1>5. ASSUME NEW p \in Process, Refused(p) PROVE IInv'
    BY <1>5, ZenonT(30) DEF Refused
  <1>6. ASSUME NEW p \in Process, Lock(p) PROVE IInv'
    BY <1>6 DEF Lock
  <1>7. ASSUME NEW p \in Process, FoundRefreshed(p) PROVE IInv'
    BY <1>7 DEF FoundRefreshed
  <1>8. ASSUME NEW p \in Process, Ask(p) PROVE IInv'
    <2>0. proc' = [proc EXCEPT ![p] = [proc[p] EXCEPT !.at = "asking", !.refresh = stored]]
      BY <1>8 DEF Ask
    <2>1. TypeOK'
      <3>1. proc' \in [Process -> [at : {"off", "ready", "reload", "using", "locking"} \cup Inside,
                                   token : Pair, refresh : Pair, back : {"ready", "reload"}]]
        BY <2>0, ZenonT(30)
      <3>2. \A q \in Process : proc'[q].at \in Inside <=> proc[q].at \in Inside
        BY <1>8, <2>0 DEF Ask
      <3> QED
        BY <1>8, <3>1, <3>2 DEF Ask
    <2>2. /\ proc'[p].at = "asking" /\ proc'[p].refresh = stored
          /\ stored = proc[p].token
          /\ \A q \in Process \ {p} : proc'[q] = proc[q]
          /\ UNCHANGED <<issued, aged, stored, adrift, cuts>>
      BY <1>8 DEF Ask
    <2>3. Reason' /\ Presented'
      BY <1>8, <2>2 DEF Ask
    <2>4. Current'
      BY <1>8, <2>2 DEF Ask
    <2> QED
      BY <2>1, <2>3, <2>4
  <1>9. ASSUME NEW p \in Process, Save(p) PROVE IInv'
    BY <1>9 DEF Save
  <1>10. ASSUME NEW p \in Process, Ends(p) PROVE IInv'
    <2>1. /\ proc[p].at # "off" /\ proc' = [proc EXCEPT ![p] = Off]
          /\ lock' = IF lock = p THEN NoProcess ELSE lock
          /\ UNCHANGED <<issued, aged, stored>>
      BY <1>10 DEF Ends
    <2>2. CASE proc[p].at \in {"asking", "granted"}
      <3>1. cuts' = cuts + 1 /\ cuts < MaxCuts
        BY <1>10, <2>2 DEF Ends
      <3>2. adrift' \subseteq adrift \cup {proc[p].refresh}
        BY <1>10 DEF Ends
      <3>3. proc[p].at # "asking" => adrift' = adrift
        BY <1>10 DEF Ends
      <3> QED
        BY <2>1, <2>2, <3>1, <3>2, <3>3
    <2>3. CASE proc[p].at \notin {"asking", "granted"}
      <3>1. cuts' = cuts /\ adrift' = adrift
        BY <1>10, <2>3 DEF Ends
      <3> QED
        BY <2>1, <2>3, <3>1
    <2> QED
      BY <2>2, <2>3
  <1>11. ASSUME Ages PROVE IInv'
    BY <1>11 DEF Ages
  <1>12. ASSUME NEW p \in Process, Grants(p) PROVE IInv'
    BY <1>12 DEF Grants
  <1>13. ASSUME NEW p \in Process, Denies(p) PROVE IInv'
    BY <1>13 DEF Denies
  <1>14. ASSUME HandleAdrift PROVE IInv'
    BY <1>14 DEF HandleAdrift
  <1>15. CASE UNCHANGED vars
    BY <1>15 DEF vars
  <1> QED
    BY <1>1, <1>2, <1>3, <1>4, <1>5, <1>6, <1>7, <1>8, <1>9, <1>10, <1>11, <1>12,
       <1>13, <1>14, <1>15
    DEF Next, Sidecar, Server

-----------------------------------------------------------------------------

\* The inductive invariant holds in every reachable state.
THEOREM RefreshInvariant == Spec => []IInv
  BY InitEstablishesIInv, StepPreservesIInv, PTL DEF Spec

\* Every variable keeps its type, and the lock belongs to the process inside.
THEOREM TypeCorrect == Spec => []TypeOK
  <1>1. IInv => TypeOK
    BY DEF IInv
  <1> QED
    BY <1>1, RefreshInvariant, PTL

\* No process presents a refresh token that the server has replaced, unless a
\* refresh was cut short.
THEOREM NobodyPresentsReplaced == Spec => []NoReplacedTokenPresented
  <1>1. IInv => NoReplacedTokenPresented
    <2> SUFFICES ASSUME IInv, cuts = 0, NEW p \in Process, proc[p].at = "asking"
                 PROVE  proc[p].refresh = issued
      BY DEF NoReplacedTokenPresented
    <2>1. proc[p].refresh = stored
      BY DEF IInv, Presented
    <2>2. ~ \E q \in Process : proc[q].at = "granted"
      BY ConstantsAssumption DEF IInv, TypeOK, Inside
    <2> QED
      BY <2>1, <2>2 DEF IInv, Current
  <1> QED
    BY <1>1, RefreshInvariant, PTL

\* The file holds the pair the server accepts whenever nobody is refreshing,
\* unless a refresh was cut short.
THEOREM StoreStaysCurrent == Spec => []StoreIsCurrent
  <1>1. IInv => StoreIsCurrent
    BY ConstantsAssumption DEF IInv, TypeOK, Inside, Current, StoreIsCurrent
  <1> QED
    BY <1>1, RefreshInvariant, PTL

\* The server replaces a pair only when its access token has come of age, whatever
\* was cut short: one refresh for each expiry.
THEOREM OneRefreshPerExpiry == Spec => SpentOnlyWhenDue
  <1>1. IInv /\ [Next]_vars => [issued' # issued => Due(issued)]_vars
    <2> SUFFICES ASSUME IInv, Next, issued' # issued PROVE Due(issued)
      BY DEF vars
    <2>1. CASE \E p \in Process : Grants(p)
      BY <2>1 DEF IInv, TypeOK, Reason, Worth, Grants, Pair
    <2>2. CASE HandleAdrift
      BY <2>2 DEF IInv, TypeOK, Reason, Worth, HandleAdrift, Pair
    <2> QED
      BY <2>1, <2>2
      DEF Next, Sidecar, Server, Begin, AccessToken, Reload, Answered, Refused, Lock,
          FoundRefreshed, Ask, Save, Ends, Ages, Denies
  <1> QED
    BY <1>1, RefreshInvariant, PTL DEF Spec, SpentOnlyWhenDue
=============================================================================
