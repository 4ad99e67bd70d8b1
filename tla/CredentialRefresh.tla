--------------------------- MODULE CredentialRefresh ---------------------------
(***************************************************************************)
(* The OAuth credentials that all sidecar processes of a profile share     *)
(* (credentialManager, auth.go): the token each request is made with, and  *)
(* the refresh of the credentials under a lock on a file.                  *)
(*                                                                         *)
(* A refresh is paid for with the refresh token, and the server replaces   *)
(* that token when it grants one.  Whoever presents a replaced token gets  *)
(* nothing, and a new pair that does not reach the file is gone.           *)
(*                                                                         *)
(* The pairs of access and refresh token are numbered in the order of      *)
(* their issue.  An error of the credential manager ends the process it    *)
(* happens in, so errors are Fails.  Left out: the checks of the file, the *)
(* directory and the endpoint (errors, too), other origins in the file,    *)
(* servers that keep the refresh token, and the login of the HEY CLI.      *)
(***************************************************************************)
EXTENDS Naturals

CONSTANTS
  Process,       \* sidecar processes: a watch, replies, comments
  NoProcess,
  MaxPairs,      \* bound: pairs the server issues after the first
  MaxCuts        \* bound: refreshes cut short, see cuts

ASSUME ConstantsAssumption ==
  /\ NoProcess \notin Process
  /\ MaxPairs \in Nat /\ MaxCuts \in Nat

VARIABLES
  issued,   \* server: the newest pair, the only one whose refresh token is good
  aged,     \* access tokens with a lower number are about to expire or expired
  stored,   \* the pair in credentials.json
  lock,     \* who holds the lock on credentials.lock
  proc,     \* the processes: the token last used (lastToken), the refresh token
            \* presented and then the one received, and where to go on after it
  adrift,   \* refresh requests whose process does not wait any more, by the
            \* number of the token they present
  cuts      \* history: processes that ended between request and save

vars == <<issued, aged, stored, lock, proc, adrift, cuts>>

Pair  == 0..MaxPairs
Inside == {"locked", "asking", "granted"}

Off == [at |-> "off", token |-> 0, refresh |-> 0, back |-> "ready"]

\* The lock is held exactly by the process that is between taking and leaving it.
TypeOK ==
  /\ issued \in Pair /\ aged \in 0..(MaxPairs + 1) /\ stored \in Pair
  /\ lock \in Process \cup {NoProcess}
  /\ proc \in [Process -> [at : {"off", "ready", "reload", "using", "locking"} \cup Inside,
                           token : Pair, refresh : Pair, back : {"ready", "reload"}]]
  /\ \A p \in Process : lock = p <=> proc[p].at \in Inside
  /\ adrift \subseteq Pair
  /\ cuts \in 0..MaxCuts

\* The access token of pair n has come of age.
Due(n) == n < aged

Init ==
  /\ issued = 0 /\ aged = 0 /\ stored = 0
  /\ lock = NoProcess
  /\ proc = [p \in Process |-> Off]
  /\ adrift = {} /\ cuts = 0

-----------------------------------------------------------------------------
(* Requests.                                                               *)

Begin(p) ==
  /\ proc[p].at = "off"
  /\ proc' = [proc EXCEPT ![p] = [Off EXCEPT !.at = "ready"]]
  /\ UNCHANGED <<issued, aged, stored, lock, adrift, cuts>>

\* AccessToken: the stored token is used, or refreshed first when the clock says
\* that it is about to expire.  (The clock may say so late.)
AccessToken(p) ==
  /\ proc[p].at = "ready"
  /\ \/ proc' = [proc EXCEPT ![p].token = stored, ![p].at = "using"]
     \/ /\ Due(stored)
        /\ proc' = [proc EXCEPT ![p].token = stored, ![p].at = "locking",
                                ![p].back = "reload"]
  /\ UNCHANGED <<issued, aged, stored, lock, adrift, cuts>>

\* AccessToken after its refresh: the file is read once more.
Reload(p) ==
  /\ proc[p].at = "reload"
  /\ proc' = [proc EXCEPT ![p].token = stored, ![p].at = "using"]
  /\ UNCHANGED <<issued, aged, stored, lock, adrift, cuts>>

\* HEY answers the request.
Answered(p) ==
  /\ proc[p].at = "using"
  /\ proc' = [proc EXCEPT ![p].at = "ready"]
  /\ UNCHANGED <<issued, aged, stored, lock, adrift, cuts>>

\* HEY refuses the token (it expired, or went with its pair): the SDK calls
\* Refresh and will ask for a token again.
Refused(p) ==
  /\ proc[p].at = "using"
  /\ Due(proc[p].token) \/ proc[p].token < issued
  /\ proc' = [proc EXCEPT ![p].at = "locking", ![p].back = "ready"]
  /\ UNCHANGED <<issued, aged, stored, lock, adrift, cuts>>

-----------------------------------------------------------------------------
(* refreshLocked.                                                          *)

\* Fault variant: the lock does not exclude.
LockAnyway(p) ==
  /\ proc[p].at = "locking"
  /\ lock' = p
  /\ proc' = [proc EXCEPT ![p].at = "locked"]
  /\ UNCHANGED <<issued, aged, stored, adrift, cuts>>

Lock(p) ==
  /\ proc[p].at = "locking"
  /\ lock = NoProcess
  /\ lock' = p
  /\ proc' = [proc EXCEPT ![p].at = "locked"]
  /\ UNCHANGED <<issued, aged, stored, adrift, cuts>>

\* The file holds another token than the one observed before the lock was there:
\* some other process has refreshed it.
FoundRefreshed(p) ==
  /\ proc[p].at = "locked"
  /\ stored # proc[p].token
  /\ lock' = NoProcess
  /\ proc' = [proc EXCEPT ![p].token = stored, ![p].at = proc[p].back]
  /\ UNCHANGED <<issued, aged, stored, adrift, cuts>>

\* Fault variant: the token observed is not compared with the file's.
AskUncompared(p) ==
  /\ proc[p].at = "locked"
  /\ proc' = [proc EXCEPT ![p].at = "asking", ![p].refresh = stored]
  /\ UNCHANGED <<issued, aged, stored, lock, adrift, cuts>>

\* Fault variant: the refresh token is the one read before the lock was there.
AskWithOldRead(p) ==
  /\ proc[p].at = "locked"
  /\ proc' = [proc EXCEPT ![p].at = "asking", ![p].refresh = proc[p].token]
  /\ UNCHANGED <<issued, aged, stored, lock, adrift, cuts>>

\* The refresh token read under the lock is presented.
Ask(p) ==
  /\ proc[p].at = "locked"
  /\ stored = proc[p].token
  /\ proc' = [proc EXCEPT ![p].at = "asking", ![p].refresh = stored]
  /\ UNCHANGED <<issued, aged, stored, lock, adrift, cuts>>

\* Fault variant: the new refresh token is not written.
SaveAccessTokenOnly(p) ==
  /\ proc[p].at = "granted"
  /\ lock' = NoProcess
  /\ proc' = [proc EXCEPT ![p].token = proc[p].refresh, ![p].refresh = 0,
                          ![p].at = proc[p].back]
  /\ UNCHANGED <<issued, aged, stored, adrift, cuts>>

\* The new pair is in the file and the lock is left.
Save(p) ==
  /\ proc[p].at = "granted"
  /\ stored' = proc[p].refresh
  /\ lock' = NoProcess
  /\ proc' = [proc EXCEPT ![p].token = proc[p].refresh, ![p].refresh = 0,
                          ![p].at = proc[p].back]
  /\ UNCHANGED <<issued, aged, adrift, cuts>>

\* The process ends, in an error, killed or with its work done; the kernel frees
\* its lock.  A refresh request that is out goes on without it.
Ends(p) ==
  /\ proc[p].at # "off"
  /\ proc' = [proc EXCEPT ![p] = Off]
  /\ lock' = IF lock = p THEN NoProcess ELSE lock
  /\ adrift' = IF proc[p].at = "asking" THEN adrift \cup {proc[p].refresh} ELSE adrift
  /\ IF proc[p].at \in {"asking", "granted"}
       THEN cuts < MaxCuts /\ cuts' = cuts + 1
       ELSE UNCHANGED cuts
  /\ UNCHANGED <<issued, aged, stored>>

-----------------------------------------------------------------------------
(* The authorization server.                                               *)

\* Time passes: the newest access token comes of age.
Ages ==
  /\ aged < issued + 1
  /\ aged' = issued + 1
  /\ UNCHANGED <<issued, stored, lock, proc, adrift, cuts>>

Grants(p) ==
  /\ proc[p].at = "asking" /\ proc[p].refresh = issued
  /\ issued < MaxPairs
  /\ issued' = issued + 1
  /\ proc' = [proc EXCEPT ![p].at = "granted", ![p].refresh = issued + 1]
  /\ UNCHANGED <<aged, stored, lock, adrift, cuts>>

\* The request is refused, or fails without effect: the process ends.
Denies(p) ==
  /\ proc[p].at = "asking"
  /\ proc' = [proc EXCEPT ![p] = Off]
  /\ lock' = NoProcess
  /\ UNCHANGED <<issued, aged, stored, adrift, cuts>>

\* A request nobody waits for is handled: a pair may be issued to no one.
HandleAdrift ==
  \E n \in adrift :
    /\ adrift' = adrift \ {n}
    /\ issued' \in IF n = issued /\ issued < MaxPairs THEN {issued, issued + 1}
                                                      ELSE {issued}
    /\ UNCHANGED <<aged, stored, lock, proc, cuts>>

Sidecar(p) ==
  \/ Begin(p) \/ AccessToken(p) \/ Reload(p) \/ Answered(p) \/ Refused(p)
  \/ Lock(p) \/ FoundRefreshed(p) \/ Ask(p) \/ Save(p) \/ Ends(p)

Server == Ages \/ HandleAdrift \/ \E p \in Process : Grants(p) \/ Denies(p)

Next == (\E p \in Process : Sidecar(p)) \/ Server

Spec == Init /\ [][Next]_vars

-----------------------------------------------------------------------------

\* However requests, refusals and expiry interleave in however many processes,
\* no process presents a refresh token that the server has replaced - unless a
\* process was cut off between request and save.
NoReplacedTokenPresented ==
  cuts = 0 => \A p \in Process : proc[p].at = "asking" => proc[p].refresh = issued

\* Whenever nobody is refreshing, the file holds the pair the server accepts, so
\* that no later process is locked out - unless a process was cut off.
StoreIsCurrent ==
  cuts = 0 /\ lock = NoProcess => stored = issued

\* A pair is replaced only when its access token has come of age: processes that
\* meet the same expired token spend one refresh between them.
SpentOnlyWhenDue == [][issued' # issued => Due(issued)]_vars
=============================================================================
