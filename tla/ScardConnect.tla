---------------------------- MODULE ScardConnect ----------------------------
(***************************************************************************)
(* Connections to the card reader in the smart-card server: a connector    *)
(* (CScardConnector) for every attempt, the registry of connectors, the    *)
(* opening of the reader by the access controller, the card events, and    *)
(* the connection timers.  ScardAccess starts where this module ends: when *)
(* the reader is open.                                                     *)
(*                                                                         *)
(* All is one thread.  Its active objects have the same priority, so of    *)
(* those that are ready the scheduler runs the one that was added first:   *)
(* the server's notifier, then the timer of the connector for which the    *)
(* controller was made, then the controller, then everything else.         *)
(*                                                                         *)
(* Handlers call each other deeply, and a connector destroys itself in the *)
(* middle of it.  The operators below take the server's objects as they    *)
(* are at a point of such a call (a record w) to what they are after it.   *)
(***************************************************************************)
EXTENDS ScardMessageStack, Functions

CONSTANTS
  Sessions,       \* client session objects (CScardSession)
  Limits,         \* what connection attempts may ask for, a set of limit records
  MaxSessionID    \* bound on iNextSessionID

\* scope: only new readers, or a limit no reader meets (a name that is not known,
\* the only reader excluded, an ATR or an application).
LimitType == [named : BOOLEAN, newCard : BOOLEAN, timed : BOOLEAN,
              scope : {"any", "newReader", "none"}]

ASSUME LimitsAssumption == Limits \subseteq LimitType

VARIABLES
  srv,      \* the objects of the server: a record, see SrvType
  notice    \* what has completed the server's notifier, or "none"

vars == <<srv, notice>>

\* A TConnection with its handle in the registry; first: its timer was added to the
\* scheduler before the controller was.
ConnectorType == [client : Sessions, sid : Nat, newCard : BOOLEAN, timed : BOOLEAN,
                  first : BOOLEAN]
AttachedType == [sid : Nat, client : Sessions, connector : BOOLEAN]
EntryType == [msg : Sessions, sid : Nat, opens : BOOLEAN, cancelled : BOOLEAN, timer : {FALSE}]
SessionState == {"idle", "waiting", "connected", "refused", "failed", "timeout", "gone"}
FaultType == {"no", "no connector", "no session", "stale session", "message stack fault"}

SrvType ==
  [connectors : Seq(ConnectorType),     \* iConnectors
   made : BOOLEAN,                      \* the controller is in its registry
   loaded : BOOLEAN,                    \* iIsCreated
   isOpen : BOOLEAN,                    \* iIsOpen
   active : BOOLEAN,                    \* iReaderActive
   status : {"idle", "pending", "ok", "error", "cancel"},   \* iStatus of the controller
   nextID : Nat,                        \* iNextSessionID
   attached : Seq(AttachedType),        \* iSessionRegistry
   stack : Seq(EntryType),              \* iMessages
   reader : {"idle", "open", "command"},   \* what the reader interface works on
   sessions : [Sessions -> SessionState],
   commands : SUBSET Sessions,          \* who has sent a command and waits
   panicked : FaultType]

\* Every variable has its type.
TypeOK == srv \in SrvType /\ notice \in {"none", "inserted", "removed"}

Init ==
  /\ srv = [connectors |-> << >>, made |-> FALSE, loaded |-> FALSE, isOpen |-> FALSE,
            active |-> FALSE, status |-> "idle", nextID |-> 1, attached |-> << >>,
            stack |-> << >>, reader |-> "idle", sessions |-> [s \in Sessions |-> "idle"],
            commands |-> {}, panicked |-> "no"]
  /\ notice = "none"
-----------------------------------------------------------------------------
\* An array of the server without the object that has the ID sid.
Without(objects, sid) == Keep(objects, {i \in DOMAIN objects : objects[i].sid # sid})

Has(w, sid) == \E i \in DOMAIN w.attached : w.attached[i].sid = sid

\* The commands among the entries a cancel completes; a connection attempt is
\* completed by its connector.
CommandsAt(stack, hits) ==
  CompletedByCancel(stack, {i \in hits : ~stack[i].opens})

\* AttachSessionToReaderL, the session's ID being nextID.
Attach(w, s, isConnector) ==
  [w EXCEPT !.attached = Append(@, [sid |-> w.nextID, client |-> s, connector |-> isConnector]),
            !.nextID = @ + 1]

\* InitiateCommunication and the call of the reader, for entry e.  A call that
\* fails at once is one the reader answers with an error next.
Initiate(w, e) ==
  [w EXCEPT !.stack = <<e>> \o @, !.active = TRUE, !.status = "pending",
            !.reader = IF e.opens THEN "open" ELSE "command"]

(***************************************************************************)
(* HandleNextMessageL of the first message that waits: its session's       *)
(* ServiceL gives it to the reader, or queues it when the reader is active *)
(* after all.  A connector does not serve messages.                        *)
(***************************************************************************)
ServeNext(w) ==
  IF w.stack = << >> THEN w
  ELSE LET e == Head(w.stack)
           rest == [w EXCEPT !.stack = Tail(@)]
       IN  IF ~Has(w, e.sid) \/ e.opens \/ e.cancelled
             THEN [rest EXCEPT !.panicked = "message stack fault"]
           ELSE IF ~w.active THEN Initiate(rest, e)
           ELSE [rest EXCEPT !.stack = Append(@, e)]

\* CancelTransmissionsL of one session: its entries, and what the reader does if the
\* first entry is one of them.
CancelTransmissions(w, sid) ==
  LET hits == OfSession(w.stack, sid)
      atReader == 1 \in hits /\ w.reader # "idle"
  IN  [w EXCEPT !.stack = AfterCancel(@, hits),
                !.commands = @ \ CommandsAt(w.stack, hits),
                !.status = IF atReader THEN "cancel" ELSE @,
                !.reader = IF atReader THEN "idle" ELSE @]

\* Mutant: the controller is left alone.
LeaveController(w) == w

\* Cancel of the controller when it is active: CancelTransmissionsL of the access
\* master, whoever the sessions are.  The first entry is not put back.
CancelController(w) ==
  IF w.status = "idle" THEN w
  ELSE [w EXCEPT !.stack = << >>, !.commands = @ \ CommandsAt(w.stack, DOMAIN w.stack),
                 !.active = FALSE, !.status = "idle", !.reader = "idle"]

\* DetachSessionFromReader
Detach(w, sid) ==
  LET hits == OfSession(w.stack, sid)
      off == [w EXCEPT !.attached = Without(@, sid),
                       !.stack = AfterCancel(@, hits),
                       !.commands = @ \ CommandsAt(w.stack, hits)]
  IN  IF ~Has(w, sid) THEN w
      ELSE IF w.active THEN off
      ELSE ServeNext(off)

\* Mutant: the connector stays attached.
DestroyHalf(w, sid) == CancelTransmissions(w, sid)

\* The destructor of a connector
Destroy(w, sid) == Detach(CancelTransmissions(w, sid), sid)

(***************************************************************************)
(* ConnectionDone of connector c with result why: the client's session is  *)
(* told (it attaches if all is well) and its message completed, then the   *)
(* connector leaves the registry and deletes itself.                       *)
(***************************************************************************)
ConnectionDone(w, c, why) ==
  LET told == [w EXCEPT !.sessions[c.client] = why]
      done == IF why = "connected" THEN Attach(told, c.client, FALSE) ELSE told
      left == [done EXCEPT !.connectors = Without(@, c.sid)]
  IN  IF w.sessions[c.client] = "gone"
        THEN [w EXCEPT !.panicked = "stale session"]
        ELSE Destroy(left, c.sid)

ConnectorOf(w, sid) == w.connectors[CHOOSE i \in DOMAIN w.connectors : w.connectors[i].sid = sid]
-----------------------------------------------------------------------------
\* A request that no reader can meet is answered at once.  A named reader that is
\* known is always tried; an unnamed one is not tried when it is open and a new
\* card is wanted.
Hopeless(q) == q.scope = "none" \/ (q.scope = "newReader" /\ srv.made)

\* Mutant: the reader is opened whoever uses it.
InitialiseAlways(w, s, sid) ==
  IF w.isOpen THEN w
  ELSE Initiate(w, [msg |-> s, sid |-> sid, opens |-> TRUE, cancelled |-> FALSE,
                    timer |-> FALSE])

\* InitialiseReader for the session sid of client s, if the reader is not open yet and
\* nobody uses it.
InitialiseReader(w, s, sid) ==
  IF w.isOpen \/ w.active THEN w
  ELSE Initiate(w, [msg |-> s, sid |-> sid, opens |-> TRUE, cancelled |-> FALSE,
                    timer |-> FALSE])

(***************************************************************************)
(* EScardServerConnectToReader: a connector attaches (NewConnectionL makes *)
(* the controller, and loads the reader, which may fail) and tries.  When  *)
(* the reader is open it is done at once, unless a new card is wanted:     *)
(* then it waits if it has named the reader, and else gives up.            *)
(***************************************************************************)
Connect(s, q) ==
  LET sid == srv.nextID
      c == [client |-> s, sid |-> sid, newCard |-> q.newCard, timed |-> q.timed,
            first |-> ~srv.made]
      new == Attach([srv EXCEPT !.made = TRUE, !.sessions[s] = "waiting",
                                !.connectors = Append(@, c)], s, TRUE)
      ready == [new EXCEPT !.loaded = TRUE]
  IN  /\ srv.sessions[s] \notin {"waiting", "connected", "gone"}
      /\ sid + Len(srv.connectors) + 1 <= MaxSessionID
      /\ \/ Hopeless(q) /\ srv' = [srv EXCEPT !.sessions[s] = "refused"]
         \/ /\ ~Hopeless(q) /\ ~srv.loaded
            /\ srv' = ConnectionDone(new, c, "failed")
         \/ /\ ~Hopeless(q)
            /\ srv' = IF srv.isOpen /\ ~q.newCard THEN ConnectionDone(ready, c, "connected")
                      ELSE IF srv.isOpen /\ ~q.named THEN ConnectionDone(ready, c, "refused")
                      ELSE InitialiseReader(ready, s, sid)
      /\ UNCHANGED notice

\* Mutant: a timer ends an attempt only when the reader is being opened.
TimerIsNextWhenOpening(c) == srv.reader = "open"

\* What stands before the timer in the scheduler is not ready.
TimerIsNext(c) == c.first \/ srv.status \notin {"ok", "error", "cancel"}

(***************************************************************************)
(* CScardConnectionTimer::RunL.  The whole controller is cancelled, then   *)
(* the attempt ends.                                                       *)
(***************************************************************************)
TimeOut(s) ==
  /\ notice = "none"
  /\ \E i \in DOMAIN srv.connectors :
       LET c == srv.connectors[i] IN
       /\ c.client = s
       /\ c.timed
       /\ TimerIsNext(c)
       /\ srv' = ConnectionDone(CancelController(srv), c, "timeout")
  /\ UNCHANGED notice

\* EScardServerTransmitToCard of a connected session on channel 0.
Transmit(s) ==
  LET i == CHOOSE j \in DOMAIN srv.attached :
             srv.attached[j].client = s /\ ~srv.attached[j].connector
      e == [msg |-> s, sid |-> srv.attached[i].sid, opens |-> FALSE, cancelled |-> FALSE,
            timer |-> FALSE]
      asked == [srv EXCEPT !.commands = @ \cup {s}]
  IN  /\ srv.sessions[s] = "connected"
      /\ s \notin srv.commands
      /\ srv' = IF srv.active THEN [asked EXCEPT !.stack = Append(@, e)]
                ELSE Initiate(asked, e)
      /\ UNCHANGED notice

\* EScardServerDisconnectFromReader
Disconnect(s) ==
  /\ srv.sessions[s] = "connected"
  /\ \E i \in DOMAIN srv.attached :
       /\ srv.attached[i].client = s
       /\ srv' = Detach([srv EXCEPT !.sessions[s] = "idle"], srv.attached[i].sid)
  /\ UNCHANGED notice

(***************************************************************************)
(* EScardServerCancelTransmit: a connection attempt of the session is      *)
(* cancelled, and so are its commands.                                     *)
(***************************************************************************)
CancelTransmit(s) ==
  /\ \/ \E i \in DOMAIN srv.connectors :
          /\ srv.connectors[i].client = s
          /\ srv' = ConnectionDone(srv, srv.connectors[i], "failed")
     \/ /\ srv.sessions[s] = "connected"
        /\ \E i \in DOMAIN srv.attached :
             /\ srv.attached[i].client = s
             /\ srv' = CancelTransmissions(srv, srv.attached[i].sid)
  /\ UNCHANGED notice

\* EScardServerCloseSession: a connector of the session is not told.
CloseSession(s) ==
  /\ srv.sessions[s] # "gone"
  /\ LET gone == [srv EXCEPT !.sessions[s] = "gone"] IN
     srv' = IF srv.sessions[s] = "connected"
              THEN LET i == CHOOSE j \in DOMAIN srv.attached : srv.attached[j].client = s
                   IN  Detach(gone, srv.attached[i].sid)
              ELSE gone
  /\ UNCHANGED notice
-----------------------------------------------------------------------------
\* Mutants: the end of an opening is always announced as a card; the error code itself
\* is announced.
AnnouncedAlways(ok) == "inserted"
AnnouncedError(ok) == IF ok THEN "inserted" ELSE "error"

Announced(ok) == IF ok THEN "inserted" ELSE "removed"

(***************************************************************************)
(* CSwimReaderIF::RunL: the controller's request is completed; the end of  *)
(* an opening is a card event as well, unless the opening failed at once.  *)
(***************************************************************************)
ReaderAnswers ==
  /\ notice = "none"
  /\ srv.reader # "idle"
  /\ \E ok \in BOOLEAN :
       /\ srv' = [srv EXCEPT !.reader = "idle", !.status = IF ok THEN "ok" ELSE "error"]
       /\ notice' = IF srv.reader = "command" THEN "none" ELSE Announced(ok)

\* CSwimSysAgentObserver::RunL: the SIM card cannot be used any more.
CardRemoved ==
  /\ notice = "none"
  /\ srv.loaded
  /\ notice' = "removed"
  /\ UNCHANGED srv

\* CardEvent of the controller comes to the i-th of its sessions, which must be there
\* (At panics otherwise): a connector is done.
Tell(w, i) ==
  IF i \notin DOMAIN w.attached THEN [w EXCEPT !.panicked = "no session"]
  ELSE IF w.attached[i].connector
         THEN ConnectionDone(w, ConnectorOf(w, w.attached[i].sid), "connected")
  ELSE w

\* CardEvent for an inserted card: the sessions attached at the start are counted
\* once, but a connector that is done leaves and its client comes in at the end.
CardInserted ==
  LET n == Len(srv.attached)
      Told[i \in 0 .. n] == IF i = 0 THEN srv ELSE Tell(Told[i - 1], i)
  IN  Told[n]

\* CardRemoved of the channel manager: every message but an opening is cancelled.
Purged ==
  LET hits == {i \in DOMAIN srv.stack : ~srv.stack[i].opens}
  IN  [srv EXCEPT !.stack = AfterCancel(@, hits),
                  !.commands = @ \ CommandsAt(srv.stack, hits)]

\* CScardNotifier::RunL of the server's notifier.
NotifierRunL ==
  /\ notice # "none"
  /\ srv' = IF notice = "inserted" THEN CardInserted ELSE Purged
  /\ notice' = "none"

(***************************************************************************)
(* CScardAccessControl::RunL.  An opening that has failed ends the first   *)
(* attempt in the registry, whosever it is; one that has succeeded has     *)
(* been announced by the notifier before.                                  *)
(***************************************************************************)
Completed(w, e) ==
  IF e.opens
    THEN IF srv.status = "ok" THEN [w EXCEPT !.isOpen = TRUE]
         ELSE IF w.connectors = << >> THEN [w EXCEPT !.panicked = "no connector"]
         ELSE ConnectionDone(w, Head(w.connectors), "failed")
    ELSE IF e.cancelled THEN w
         ELSE IF Has(w, e.sid) THEN [w EXCEPT !.commands = @ \ {e.msg}]
         ELSE [w EXCEPT !.panicked = "message stack fault"]

\* The notifier was added to the scheduler before the controller.
ControllerIsNext == notice = "none"

ControllerRunL ==
  /\ ControllerIsNext
  /\ srv.status \in {"ok", "error", "cancel"}
  /\ srv' = LET w == [srv EXCEPT !.active = FALSE, !.status = "idle"] IN
            IF w.stack = << >> THEN [w EXCEPT !.panicked = "message stack fault"]
            ELSE LET d == Completed([w EXCEPT !.stack = Tail(@)], Head(w.stack))
                 IN  IF d.panicked = "no" THEN ServeNext(d) ELSE d
  /\ UNCHANGED notice
-----------------------------------------------------------------------------
ServerStep == NotifierRunL \/ ControllerRunL \/ \E s \in Sessions : TimeOut(s)
CardStep == ReaderAnswers \/ CardRemoved
ClientStep(s) == Transmit(s) \/ Disconnect(s) \/ \E q \in Limits : Connect(s, q)

Next ==
  /\ srv.panicked = "no"
  /\ \/ ServerStep \/ CardStep
     \/ \E s \in Sessions : ClientStep(s) \/ CancelTransmit(s) \/ CloseSession(s)

Spec == Init /\ [][Next]_vars

(***************************************************************************)
(* A client cancels its commands but neither cancels a connection attempt  *)
(* nor closes its session during one.                                      *)
(***************************************************************************)
OrderlyNext ==
  /\ srv.panicked = "no"
  /\ \/ ServerStep \/ CardStep
     \/ \E s \in Sessions :
          \/ ClientStep(s)
          \/ srv.sessions[s] # "waiting" /\ (CancelTransmit(s) \/ CloseSession(s))

OrderlySpec == Init /\ [][OrderlyNext]_vars
-----------------------------------------------------------------------------
\* The server thread never panics: the controller finds a connector to blame for a
\* failed opening, and a connector finds the session it works for.
ServerAlive == srv.panicked = "no"

(***************************************************************************)
(* The three registries agree: a session waits exactly when the connection *)
(* registry has one connector for it, that connector is attached to the    *)
(* controller under an ID of its own, and besides them the sessions that   *)
(* are connected are attached, once each.                                  *)
(***************************************************************************)
Registered ==
  /\ \A s \in Sessions :
       /\ srv.sessions[s] = "waiting" <=> \E c \in Range(srv.connectors) : c.client = s
       /\ srv.sessions[s] = "connected" <=>
            \E a \in Range(srv.attached) : a.client = s /\ ~a.connector
  /\ \A i, j \in DOMAIN srv.attached :
       i # j => /\ srv.attached[i].sid # srv.attached[j].sid
                /\ srv.attached[i].client # srv.attached[j].client
  /\ {[client |-> c.client, sid |-> c.sid] : c \in Range(srv.connectors)} =
     {[client |-> a.client, sid |-> a.sid] : a \in {b \in Range(srv.attached) : b.connector}}

(***************************************************************************)
(* The controller is active exactly when somebody waits for the reader,    *)
(* and the reader is opened by the first entry only: nobody waits behind a *)
(* reader that nobody uses, and nothing is sent to one that is opening.    *)
(***************************************************************************)
OneAtReader ==
  /\ srv.active <=> srv.stack # << >>
  /\ srv.active <=> srv.status # "idle"
  /\ \A i \in DOMAIN srv.stack : srv.stack[i].opens => i = 1
  /\ srv.reader # "idle" =>
       srv.status = "pending" /\ (srv.reader = "open" <=> Head(srv.stack).opens)

(***************************************************************************)
(* A client is connected only to a reader that is open, or whose opening   *)
(* has succeeded and is about to be noted: nobody relies on an opening     *)
(* that has failed or has been taken back.                                 *)
(***************************************************************************)
ConnectedMeansOpen ==
  (\E s \in Sessions : srv.sessions[s] = "connected") =>
     srv.isOpen \/ (srv.status = "ok" /\ Head(srv.stack).opens)
-----------------------------------------------------------------------------
(***************************************************************************)
(* The scheduler runs what is ready.  What stands behind another active    *)
(* object, the controller behind the notifier and a timer behind both, has *)
(* its turn whenever the others are not ready: they may be again and       *)
(* again, but not always (strong fairness).                                *)
(***************************************************************************)
SchedulerFair == WF_vars(ServerAlive /\ NotifierRunL) /\ SF_vars(ServerAlive /\ ControllerRunL)
TimerFair == \A s \in Sessions : SF_vars(ServerAlive /\ TimeOut(s))
ReaderFair == SF_vars(ServerAlive /\ ReaderAnswers)

TimedSpec == OrderlySpec /\ SchedulerFair /\ TimerFair
FairSpec == TimedSpec /\ ReaderFair

Timed(s) == \E c \in Range(srv.connectors) : c.client = s /\ c.timed
Waits(s) == srv.sessions[s] = "waiting"

\* An attempt with a time-out ends, even when the reader never answers and no card
\* is ever inserted.
TimedConnectEnds == \A s \in Sessions : Timed(s) ~> ~Waits(s)

(***************************************************************************)
(* An attempt that accepts the card that is there waits until the reader   *)
(* has been opened or a time-out occurs (the comment of ConnectToReaderL). *)
(* When the reader answers, an attempt without a time-out ends too.        *)
(***************************************************************************)
ConnectAnswered == \A s \in Sessions : Waits(s) ~> ~Waits(s)
=============================================================================
