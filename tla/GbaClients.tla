----------------------------- MODULE GbaClients -----------------------------
(***************************************************************************)
(* The GBA server with its clients: what its users rely on, and the        *)
(* conditions on clients, network and card under which it holds.           *)
(*                                                                         *)
(* GbaServer!Spec lets everything happen at any time.  OrderlySpec names   *)
(* the conditions; the README says what happens without each of them.     *)
(***************************************************************************)
EXTENDS GbaServer

(***************************************************************************)
(* A client forces a bootstrap only in a session that is new or whose last *)
(* bootstrap has succeeded.                                                *)
(***************************************************************************)
OrderlyRequest(s, f) == f => answer[s].code \in {"none", "KErrNone"}

\* It cancels a bootstrap once, and not when its failure is known already.
OrderlyCancel(s) == message[s] = "waiting" /\ machine[s].status # "failed"

\* It does not ask for GBA_U while its own bootstrap is under way.
OrderlyQuery(s) == message[s] # "waiting"

\* The bootstrapping server challenges a request once.
OrderlyChallenge(s) == fetch[s].run = NoRun

\* The card is changed only while no session is open.
OrderlyChange == \A s \in Sessions : message[s] = "closed"

\* A GBA_U card has a new key whose B-TID the server does not know yet.
AwaitsBTID(s) == interface[s] /\ fetch[s].run # NoRun

\* Then the next thing to happen is that it gets the B-TID, and saves it.
Undisturbed ==
    (\E s \in Sessions : AwaitsBTID(s)) =>
        \E s \in Sessions : AwaitsBTID(s) /\ store'.btid = fetch[s].run

\* Whenever a session is opened there is a plug-in and a card it can read: no
\* OpenFails.  Whenever a bootstrap begins there is a connection: no RunConnectFails.
OrderlySession(s) ==
    \/ OpenSession(s) \/ BadRequest(s) \/ CloseSession(s)
    \/ OrderlyCancel(s) /\ CancelRequest(s)
    \/ OrderlyQuery(s) /\ IsGBAUSupported(s)
    \/ \E f \in BOOLEAN : OrderlyRequest(s, f) /\ RequestBootstrap(s, f)
    \/ RunCached(s) \/ RunFetch(s) \/ RunLeaves(s)
    \/ RunDone(s) \/ RunFailed(s) \/ RunCancelled(s) \/ RunIgnored(s)
    \/ \E k \in Runs : OrderlyChallenge(s) /\ Challenge(s, k)
    \/ Succeeded(s) \/ HttpFails(s)

OrderlyStep ==
    \/ \E s \in Sessions : OrderlySession(s)
    \/ \E i \in Impi : OrderlyChange /\ ChangeCard(i)
    \/ \E k \in Runs : Expire(k)
    \/ Stop

OrderlyNext == OrderlyStep /\ Undisturbed

OrderlySpec == Init /\ [][OrderlyNext]_vars

-----------------------------------------------------------------------------
\* Every variable keeps its type.
TypeOK ==
    /\ message \in [Sessions -> {"closed", "none", "waiting"}]
    /\ answer \in [Sessions -> Answers]
    /\ force \in [Sessions -> BOOLEAN]
    /\ machine \in [Sessions -> Machines]
    /\ fetch \in [Sessions -> Fetches]
    /\ memory \in [Sessions -> Memories]
    /\ output \in [Sessions -> Outputs]
    /\ interface \in [Sessions -> BOOLEAN]
    /\ store \in Stores
    /\ card \in Impi
    /\ cardKs \in [Impi -> RunOrNone]
    /\ owner \in [Runs -> Identity]
    /\ expired \subseteq Runs
    /\ shutdown \in {"off", "running", "stopped"}
    /\ fault \in {"none", "stale message", "overflow", "hang", "no server"}

\* The retriever has a request only while a state machine waits for it in EBusy,
\* for a client that waits too: the pointers it was given (iCallerRequestStatus)
\* are never used when the bootstrap is over.
RetrieverOwned ==
    \A s \in Sessions : fetch[s].called =>
        /\ machine[s] = [state |-> "EBusy", active |-> TRUE, status |-> "pending"]
        /\ message[s] = "waiting"

\* A state machine that waits has somebody who will complete it
\* (bootstrap.cpp, "event should come from bootstrapper").
EventWillCome ==
    \A s \in Sessions : machine[s].active /\ machine[s].status = "pending" =>
        fetch[s].called

\* The server is never panicked by a second completion or by a buffer that
\* overflows, and never waits for ever in the destructor of a session.
AliveForever == fault = "none"

\* A client waits exactly when the state machine of its session works for it:
\* no lost wake-up, and nothing completed behind its back.
WaitingIsServed ==
    \A s \in Sessions :
        message[s] = "waiting" <=> /\ machine[s].active
                                   /\ machine[s].state \in {"EInitialize", "EBusy"}

\* A client that gets credentials gets B-TID and Ks_NAF of one and the same
\* authentication, and for the identity that was authenticated.
GoodCredentials ==
    \A s \in Sessions : answer[s].code = "KErrNone" =>
        /\ answer[s].btid \in Runs
        /\ answer[s].key = answer[s].btid
        /\ answer[s].identity = owner[answer[s].btid]

\* Credentials from the file are those of the card in the phone (bootstrap.cpp:
\* "If IMPI is different or key expires, then return EFalse").
CachedAreTheCards ==
    [][\A s \in Sessions :
          /\ machine[s].state = "EInitialize" /\ machine'[s].state = "EBusy"
          /\ output'[s] # output[s]
          => \E k \in Runs : output'[s].btid = k /\ owner[k] = card]_vars

\* The file holds the credentials of one run, or none; with GBA_U its key is
\* the one on the card, unless the card has answered a later challenge.
StoreOfOneRun ==
    store.btid # NoRun =>
        /\ store.lifetime = store.btid
        /\ store.impi \in Impi /\ owner[store.btid] = store.impi
        /\ store.gbau = (store.impi \in GbaU)
        /\ IF store.gbau
           THEN \/ cardKs[store.impi] = store.btid
                \/ \E s \in Sessions : AwaitsBTID(s)
           ELSE store.ks = store.btid

\* The server only stops when it has no session.
StopsWithoutSessions ==
    shutdown # "off" => \A s \in Sessions : message[s] = "closed"

-----------------------------------------------------------------------------
\* The server implements BootstrapService.
Phase(s) ==
    CASE message[s] = "closed" -> "closed"
      [] message[s] = "waiting" -> "busy"
      [] OTHER -> IF machine[s].state = "EIdle" THEN "idle" ELSE "cancelled"

Service == INSTANCE BootstrapService WITH phase <- [s \in Sessions |-> Phase(s)]

\* Every step of the server is a step of the service it promises, or none.
ServiceSpec == Service!Spec

-----------------------------------------------------------------------------
(***************************************************************************)
(* The active scheduler runs what is ready, and HTTP comes to an end: the  *)
(* framework has its own time-outs.                                        *)
(***************************************************************************)
Fairness == \A s \in Sessions : WF_vars(RunL(s)) /\ WF_vars(Succeeded(s) \/ HttpFails(s))

OrderlyFairSpec == OrderlySpec /\ Fairness

\* Every request for a bootstrap is answered, unless its session is closed.
Answered == \A s \in Sessions : message[s] = "waiting" ~> message[s] # "waiting"

\* A cancelled bootstrap comes to its end, after which the session takes the
\* next request (GbaUtility.h: KErrInUse only while one is outstanding).
CancelEnds ==
    \A s \in Sessions : machine[s].state = "ECancel" ~> machine[s].state # "ECancel"

\* It does when the retriever has heard of the cancel (CDataRetriever::CancelRequest).
HeardCancelEnds ==
    \A s \in Sessions :
        machine[s].state = "ECancel" /\ machine[s].status = "KErrCancel"
            ~> machine[s].state # "ECancel"
=============================================================================
