-------------------------- MODULE BootstrapService --------------------------
(***************************************************************************)
(* What the GBA server promises its clients (GbaUtility.h): a session has  *)
(* one bootstrap under way at most; it is answered with good credentials,  *)
(* refused or cancelled, once; a request that is not well-formed is        *)
(* rejected at once; a second request in the meantime, or before a         *)
(* cancelled one has come to its end, gets KErrInUse.                      *)
(*                                                                         *)
(* Credentials are good when B-TID and key come from one challenge of the  *)
(* bootstrapping server, and are used with the identity it was made for.   *)
(***************************************************************************)
CONSTANTS Sessions, Impi, Runs, NoImpi, NoRun

VARIABLES
    phase,      \* of each session
    answer,     \* the last answer to its client
    owner       \* the identity a challenge was answered for

vars == <<phase, answer, owner>>

NoCredentials(code) ==
    [code |-> code, btid |-> NoRun, key |-> NoRun, identity |-> NoImpi]

Init ==
    /\ phase = [s \in Sessions |-> "closed"]
    /\ answer = [s \in Sessions |-> NoCredentials("none")]
    /\ owner = [k \in Runs |-> NoImpi]

Moves(s, from, to) == phase[s] \in from /\ phase' = [phase EXCEPT ![s] = to]
Answers(s, a) == answer' = [answer EXCEPT ![s] = a]

Open(s) == Moves(s, {"closed"}, "idle") /\ Answers(s, NoCredentials("none"))
Close(s) == Moves(s, {"idle", "busy", "cancelled"}, "closed")
            /\ Answers(s, NoCredentials("none"))
Request(s) == Moves(s, {"idle"}, "busy") /\ UNCHANGED answer
InUse(s) == /\ phase[s] \in {"busy", "cancelled"} /\ UNCHANGED phase
            /\ Answers(s, NoCredentials("KErrInUse"))
Reject(s) == phase[s] = "idle" /\ UNCHANGED phase /\ Answers(s, NoCredentials("failed"))
Grant(s) == /\ Moves(s, {"busy"}, "idle")
            /\ \E k \in Runs :
                 /\ owner[k] \in Impi
                 /\ Answers(s, [code |-> "KErrNone", btid |-> k, key |-> k,
                                identity |-> owner[k]])
Refuse(s) == Moves(s, {"busy"}, "idle") /\ Answers(s, NoCredentials("failed"))
Cancel(s) == Moves(s, {"busy"}, "cancelled") /\ Answers(s, NoCredentials("KErrCancel"))
Ends(s) == Moves(s, {"cancelled"}, "idle") /\ UNCHANGED answer

Authenticate(k) ==
    /\ owner[k] = NoImpi
    /\ \E i \in Impi : owner' = [owner EXCEPT ![k] = i]
    /\ UNCHANGED <<phase, answer>>

Session(s) == \/ Open(s) \/ Close(s) \/ Request(s) \/ InUse(s) \/ Reject(s)
              \/ Grant(s) \/ Refuse(s) \/ Cancel(s) \/ Ends(s)

Next == \/ \E s \in Sessions : Session(s) /\ UNCHANGED owner
        \/ \E k \in Runs : Authenticate(k)

Spec == Init /\ [][Next]_vars
=============================================================================
