---------------------------- MODULE ScardAccess ----------------------------
(***************************************************************************)
(* Access to the card reader in the smart-card server (wim/Scard): the     *)
(* access controller (CScardAccessControl) with its channel manager and    *)
(* message stack, the service handlers of the client sessions              *)
(* (CScardSession), the command timers (CScardCommandTimer) and the        *)
(* reader (CSwimReaderIF).                                                 *)
(*                                                                         *)
(* The server is one thread with an active scheduler, so every RunL and    *)
(* every ServiceL runs to its end before another starts: one action here   *)
(* is one such handler with everything it calls.  What interleaves is the  *)
(* order of the handlers: requests of several clients, answers of the      *)
(* reader, expiring timers, cancellations, card events, and sessions that  *)
(* come and go.  The reader is open already (opening it is the matter of   *)
(* the connectors), and there is one reader, as in CScardReaderRegistry.   *)
(***************************************************************************)
EXTENDS ScardMessageStack

CONSTANTS
  Sessions,       \* client session objects (CScardSession)
  Messages,       \* messages (RMessage2) the clients may send, each sent once
  Requests,       \* what clients may ask for, a set of request records
  MaxSessionID    \* bound on iNextSessionID

Channels == 0 .. 3              \* KMaxChannels logical channels
LogicalChannels == 1 .. 3       \* the ones MANAGE CHANNEL opens and closes

\* TransmitToCard (also of a command whose INS is MANAGE CHANNEL, and with a
\* response descriptor of length 0), GetCapabilities (also with such a
\* descriptor) and ManageChannel.
TransmitOps == {"transmit", "rawManage", "noBuffer"}
CapsOps == {"caps", "capsNoBuffer"}
Operations == TransmitOps \cup CapsOps \cup {"open", "close", "status"}

\* One request; chan: the channel argument; timed: with a time-out; negative:
\* with a time-out below 0, of which no command timer can be made.
RequestType == [op : Operations, chan : Channels, timed : BOOLEAN, negative : BOOLEAN]

ASSUME RequestsAssumption == Requests \subseteq RequestType

VARIABLES
  registry,      \* iSessionRegistry: the session's ID, 0 when not attached
  nextID,        \* iNextSessionID
  channels,      \* iChannels: the IDs on each channel ({} when not allocated)
  stack,         \* iMessages of the message stack
  readerActive,  \* iReaderActive
  status,        \* iStatus of the controller: "idle" when it is not active
  command,       \* what the reader is working on, or NoCommand; watched: the
                 \* controller is active for it; freed: its buffers are deleted
  reply,         \* the channel number in the reader's answer, 0 for none
  cardChannels,  \* the logical channels that are open in the card itself
  result,        \* what has become of each message
  panicked       \* why the server thread has panicked, or "no"

vars == <<registry, nextID, channels, stack, readerActive, status, command,
          reply, cardChannels, result, panicked>>

NoCommand == [busy |-> FALSE]
CommandType == {NoCommand} \cup
               [msg : Messages, req : Requests, owner : Sessions, watched : BOOLEAN,
                freed : BOOLEAN]
EntryType == [msg : Messages, req : Requests, sid : Nat, chan : Channels,
              cancelled : BOOLEAN, timer : BOOLEAN]
ResultType == {"unsent", "waiting", "ok", "wrong", "error", "refused",
               "cancelled", "timeout", "nocard"}
PanicType == {"no", "message stack fault", "no session", "push failed",
              "stale message", "freed buffer", "no timer", "stray signal"}

\* Every variable has its type (the fields of TMessageHandle and TReaderSession).
TypeOK ==
  /\ registry \in [Sessions -> Nat]
  /\ nextID \in Nat
  /\ channels \in [Channels -> SUBSET Nat]
  /\ stack \in Seq(EntryType)
  /\ readerActive \in BOOLEAN
  /\ status \in {"idle", "pending", "ok", "error", "cancel"}
  /\ command \in CommandType
  /\ reply \in Channels
  /\ cardChannels \in SUBSET LogicalChannels
  /\ result \in [Messages -> ResultType]
  /\ panicked \in PanicType

Init ==
  /\ registry = [s \in Sessions |-> 0]
  /\ nextID = 1
  /\ channels = [c \in Channels |-> {}]
  /\ stack = << >>
  /\ readerActive = FALSE
  /\ status = "idle"
  /\ command = NoCommand
  /\ reply = 0
  /\ cardChannels = {}
  /\ result = [m \in Messages |-> "unsent"]
  /\ panicked = "no"
-----------------------------------------------------------------------------
\* The server thread panics: what it was doing no longer matters.
Dies(why) ==
  /\ panicked' = why
  /\ UNCHANGED <<channels, stack, readerActive, status, command, reply, result>>

\* Complete the messages in ms with the reason why.
Completed(res, ms, why) == [m \in Messages |-> IF m \in ms THEN why ELSE res[m]]

\* The client of a message that is completed already is no longer there: the
\* kernel ends a server that completes it again.
Again(ms) == \E m \in ms : result[m] # "waiting"
CompletesAgain(ms, why) ==
  /\ Again(ms)
  /\ panicked' = "stale message"
  /\ result' = Completed(result, ms, why)
  /\ UNCHANGED <<channels, stack, readerActive, status, command, reply>>

Attached(reg, id) == \E s \in Sessions : reg[s] = id /\ id # 0

\* The channel a request is sent on; MANAGE CHANNEL goes on channel 0.
ChannelOf(q) == IF q.op \in TransmitOps THEN q.chan ELSE 0

(***************************************************************************)
(* The checks a handler makes before it looks at the reader.  An open is   *)
(* refused when the session has every logical channel, and also when every *)
(* channel is allocated: UnreservedLogicalChannel answers 0 then, and the  *)
(* channel operation queued instead is on channel -1, which                *)
(* PushMessageToBottomL rejects.                                           *)
(***************************************************************************)
NoRoom(ch) == \A c \in LogicalChannels : ch[c] # {}
Refused(q, id, ch) ==
  \/ q.op \in TransmitOps /\ id \notin ch[q.chan]
  \/ q.op = "open" /\ NoRoom(ch)

(***************************************************************************)
(* A message that is queued with a negative time-out ends the server: the  *)
(* timer is not made, the message is completed with the error, and the     *)
(* timer is started.  It is queued when the reader is busy, and when it    *)
(* opens a channel while other sessions have them all.                     *)
(***************************************************************************)
QueuedInVain(q, id, ch) ==
  q.negative /\ q.op = "open" /\ NoRoom(ch) /\ \E c \in LogicalChannels : id \notin ch[c]
QueuedBusy(q, id, ch) ==
  q.negative /\ q.op # "close" /\ (Refused(q, id, ch) => QueuedInVain(q, id, ch))

\* Mutant: closing leaves the table alone.
TableUnchanged(q, id, ch) == ch

\* Closing takes the session off the channel at once, whatever comes later.
Table(q, id, ch) == IF q.op = "close" THEN [ch EXCEPT ![q.chan] = @ \ {id}] ELSE ch

\* Mutant: the handle of a channel operation names the channel it is about to open,
\* one beyond the last that there is.
EntryBeyond(m, q, id, timed) ==
  [msg |-> m, req |-> q, sid |-> id, chan |-> IF q.op = "open" THEN 4 ELSE ChannelOf(q),
   cancelled |-> FALSE, timer |-> timed]

\* Mutant: the timer is never started.
UntimedEntry(m, q, id, timed) ==
  [msg |-> m, req |-> q, sid |-> id, chan |-> ChannelOf(q),
   cancelled |-> FALSE, timer |-> FALSE]

\* A new TMessageHandle; timed: a command timer has been started for it.
NewEntry(m, q, id, timed) ==
  [msg |-> m, req |-> q, sid |-> id, chan |-> ChannelOf(q),
   cancelled |-> FALSE, timer |-> timed]

\* The reader is left alone: it is idle and st are the messages that wait.
StaysIdle(st, ch, res) ==
  /\ stack' = st
  /\ channels' = ch
  /\ result' = res
  /\ readerActive' = FALSE
  /\ status' = "idle"
  /\ command' = NoCommand
  /\ reply' = 0
  /\ UNCHANGED panicked

\* The command of m, which is watched when its entry could be made.
CommandOf(m, q, s) ==
  [msg |-> m, req |-> q, owner |-> s, watched |-> ~q.negative, freed |-> FALSE]

\* Mutant: the message that goes to the reader is put at the bottom.
StartsAtBottom(m, q, id, s, st, ch, res) ==
  /\ stack' = st \o <<NewEntry(m, q, id, q.timed)>>
  /\ channels' = ch
  /\ result' = res
  /\ readerActive' = TRUE
  /\ command' = CommandOf(m, q, s)
  /\ status' \in IF q.op \in CapsOps THEN {"ok", "error"} ELSE {"pending", "error"}
  /\ reply' = 0
  /\ UNCHANGED panicked

(***************************************************************************)
(* InitiateCommunication and the call of the reader: the entry goes to the *)
(* top, the controller becomes active.  APDUReqL may fail at once; the     *)
(* reader answers GetCapabilities at once.  With a negative time-out       *)
(* InitiateCommunication returns before the entry is made and before the   *)
(* controller is active, and the reader is called all the same.            *)
(***************************************************************************)
Starts(m, q, id, s, st, ch, res) ==
  /\ stack' = IF q.negative THEN st ELSE <<NewEntry(m, q, id, q.timed)>> \o st
  /\ channels' = ch
  /\ result' = res
  /\ readerActive' = TRUE
  /\ command' = CommandOf(m, q, s)
  /\ status' \in IF q.op \in CapsOps THEN {"ok", "error"} ELSE {"pending", "error"}
  /\ reply' = 0
  /\ UNCHANGED panicked

(***************************************************************************)
(* GetCapabilities looks at the response descriptor only after             *)
(* InitiateCommunication: it completes the message and calls no reader,    *)
(* but the entry stays, and the controller, active with status KErrNone,   *)
(* will run.                                                               *)
(***************************************************************************)
LeavesEntry(m, q, id, s, st, ch, res) ==
  /\ stack' = IF q.negative THEN st ELSE <<NewEntry(m, q, id, q.timed)>> \o st
  /\ channels' = ch
  /\ result' = Completed(res, {m}, "refused")
  /\ readerActive' = TRUE
  /\ command' = CommandOf(m, q, s)
  /\ status' = IF q.negative THEN "idle" ELSE "ok"
  /\ reply' = 0
  /\ UNCHANGED panicked

(***************************************************************************)
(* ServiceL of session s for message m when the reader is ready: refuse    *)
(* it, lose it (AllocateResponse fails and the handler just returns), or   *)
(* start it.  A message that was completed before is fatal: the kernel     *)
(* panics a server that uses it again.  So is a failing push in            *)
(* InitiateCommunication (__ASSERT_MEMORY), and when there was none for    *)
(* want of a timer, the assertion looks at an earlier command's status.    *)
(***************************************************************************)
Serve(m, q, s, id, st, ch, res) ==
  LET table == Table(q, id, ch)
      refused == Refused(q, id, ch) \/ q.op = "rawManage"
      starts == res[m] = "waiting" /\ ~refused /\ q.op # "noBuffer"
      pushes == ~q.negative => id \in table[ChannelOf(q)]
  IN  \/ res[m] # "waiting" /\ Dies("stale message")
      \/ res[m] = "waiting" /\ QueuedInVain(q, id, ch) /\ Dies("no timer")
      \/ /\ res[m] = "waiting" /\ refused /\ ~QueuedInVain(q, id, ch)
         /\ StaysIdle(st, table, Completed(res, {m}, "refused"))
      \/ /\ res[m] = "waiting" /\ ~refused /\ q.op = "noBuffer"
         /\ StaysIdle(st, table, res)
      \/ starts /\ (~pushes \/ q.negative) /\ Dies("push failed")
      \/ starts /\ pushes /\ q.op = "capsNoBuffer" /\ LeavesEntry(m, q, id, s, st, table, res)
      \/ starts /\ pushes /\ q.op # "capsNoBuffer" /\ Starts(m, q, id, s, st, table, res)

\* Mutant: the waiting messages are left where they are.
HandleNone(st, ch, res, reg) == StaysIdle(st, ch, res)

(***************************************************************************)
(* HandleNextMessageL: take the first message that waits, if any, and let  *)
(* its session serve it.  SessionBase is used without a check.             *)
(***************************************************************************)
HandleNext(st, ch, res, reg) ==
  \/ st = << >> /\ StaysIdle(st, ch, res)
  \/ /\ st # << >>
     /\ LET e == Head(st) IN
        \/ ~Attached(reg, e.sid) /\ Dies("no session")
        \/ \E s \in Sessions : /\ reg[s] = e.sid /\ e.sid # 0
                               /\ Serve(e.msg, e.req, s, e.sid, Tail(st), ch, res)

\* The controller looks for work only when the reader is not active.
HandleNextIfReady(st, ch, res, reg) ==
  IF readerActive
    THEN /\ stack' = st /\ channels' = ch /\ result' = res
         /\ UNCHANGED <<readerActive, status, command, reply, panicked>>
    ELSE HandleNext(st, ch, res, reg)

\* What executing request q can do to the card: <<open channels, answered channel>>.
CardEffects(q) ==
  {<<IF q.op = "close" THEN cardChannels \ {q.chan} ELSE cardChannels, 0>>} \cup
  IF q.op = "open" THEN {<<cardChannels \cup {c}, c>> : c \in LogicalChannels \ cardChannels}
                   ELSE {}

\* iReader->CancelTransmit: the command may or may not have reached the card.
CancelReader(applies) ==
  IF applies /\ status = "pending"
    THEN /\ status' = "cancel"
         /\ \E x \in CardEffects(command.req) : cardChannels' \in {cardChannels, x[1]}
    ELSE UNCHANGED <<status, cardChannels>>

\* Mutants: the entry is not pushed back, or is pushed to the bottom.
NotPutBack(st, ch) == IF st # << >> THEN Tail(st) ELSE st
PutAtBottom(st, ch) == IF st # << >> THEN Append(Tail(st), Head(st)) ELSE st

(***************************************************************************)
(* CancelTransmissionsL takes the first message off the stack and pushes   *)
(* it back with PushMessageToTopL, which leaves (and so loses the entry)   *)
(* when the session of that message is no longer on its channel.           *)
(***************************************************************************)
PutBack(st, ch) ==
  IF st # << >> /\ Head(st).sid \notin ch[Head(st).chan] THEN Tail(st) ELSE st
-----------------------------------------------------------------------------
(***************************************************************************)
(* ConnectToReader while the reader is open.  The connector attaches, gets *)
(* the connection at once, attaches the client's session, and is deleted;  *)
(* its destructor cancels its transmissions (it has none) and detaches it, *)
(* which makes the controller look for the next message.                   *)
(***************************************************************************)
Connect(s) ==
  LET reg == [registry EXCEPT ![s] = nextID + 1]
      ch == [channels EXCEPT ![0] = @ \cup {nextID, nextID + 1}]
  IN  /\ registry[s] = 0
      /\ nextID + 1 <= MaxSessionID
      /\ registry' = reg
      /\ nextID' = nextID + 2
      /\ HandleNextIfReady(PutBack(stack, ch), ch, result, reg)
      /\ UNCHANGED cardChannels

(***************************************************************************)
(* A request of an attached session: EChannelStatus is answered at once,   *)
(* the others are served when the reader is ready and else checked and     *)
(* queued (QueueExecution completes the message if it cannot be pushed).   *)
(* A close is queued with time-out 0, whatever the client has asked for.   *)
(***************************************************************************)
Submit(s, m, q) ==
  LET id == registry[s]
      table == Table(q, id, channels)
      res == [result EXCEPT ![m] = "waiting"]
  IN  /\ id # 0
      /\ result[m] = "unsent"
      /\ IF q.op = "status"
           THEN /\ result' = [result EXCEPT ![m] = "ok"]
                /\ UNCHANGED <<channels, stack, readerActive, status, command, reply, panicked>>
         ELSE IF ~readerActive
           THEN Serve(m, q, s, id, stack, channels, res)
         ELSE IF QueuedBusy(q, id, channels)
           THEN Dies("no timer")
         ELSE /\ channels' = table
              /\ IF Refused(q, id, channels) \/ id \notin table[ChannelOf(q)]
                   THEN /\ result' = [result EXCEPT ![m] = "refused"]
                        /\ UNCHANGED stack
                   ELSE /\ result' = res
                        /\ stack' = Append(stack, NewEntry(m, q, id, q.timed /\ q.op # "close"))
              /\ UNCHANGED <<readerActive, status, command, reply, panicked>>
      /\ UNCHANGED <<registry, nextID, cardChannels>>

\* EScardServerCancelTransmit of an attached session.
CancelTransmit(s) ==
  LET id == registry[s]
      hits == OfSession(stack, id)
      done == CompletedByCancel(stack, hits)
      st == AfterCancel(stack, hits)
  IN  /\ id # 0
      /\ UNCHANGED <<registry, nextID>>
      /\ \/ CompletesAgain(done, "cancelled") /\ UNCHANGED cardChannels
         \/ /\ ~Again(done)
            /\ result' = Completed(result, done, "cancelled")
            /\ CancelReader(st # << >> /\ Head(st).sid = id)
            /\ stack' = PutBack(st, channels)
            /\ UNCHANGED <<channels, readerActive, command, reply, panicked>>

\* DetachSessionFromReader: the reader itself is not told.
Detach(s) ==
  LET id == registry[s]
      hits == OfSession(stack, id)
      done == CompletedByCancel(stack, hits)
      reg == [registry EXCEPT ![s] = 0]
  IN  /\ registry' = reg
      /\ \/ CompletesAgain(done, "cancelled")
         \/ /\ ~Again(done)
            /\ HandleNextIfReady(AfterCancel(stack, hits), channels,
                                 Completed(result, done, "cancelled"), reg)
      /\ UNCHANGED <<nextID, cardChannels>>

\* EScardServerDisconnectFromReader: the session object lives on.
Disconnect(s) == registry[s] # 0 /\ Detach(s)

(***************************************************************************)
(* EScardServerCloseSession, after which the session object is deleted     *)
(* with the command and response buffers it has given to the reader: also  *)
(* when the session has disconnected before, and is attached no more.      *)
(***************************************************************************)
CloseSession(s) ==
  LET hits == OfSession(stack, registry[s])
      done == CompletedByCancel(stack, hits)
      owns == command # NoCommand /\ command.owner = s /\ readerActive
      free == command' = [command EXCEPT !.freed = TRUE]
  IN  \/ registry[s] # 0 /\ ~owns /\ Detach(s)
      \/ /\ registry[s] # 0 /\ owns
         /\ registry' = [registry EXCEPT ![s] = 0]
         /\ \/ CompletesAgain(done, "cancelled")
            \/ /\ ~Again(done)
               /\ stack' = AfterCancel(stack, hits)
               /\ result' = Completed(result, done, "cancelled")
               /\ free
               /\ UNCHANGED <<channels, readerActive, status, reply, panicked>>
         /\ UNCHANGED <<nextID, cardChannels>>
      \/ /\ registry[s] = 0 /\ owns
         /\ free
         /\ UNCHANGED <<registry, nextID, channels, stack, readerActive, status, reply,
                        cardChannels, result, panicked>>

\* CScardCommandTimer::RunL: the timer of the entry for m expires.
TimeOut(m) ==
  LET hits == WithTimerOf(stack, m)
      done == CompletedByCancel(stack, hits)
  IN  /\ hits # {}
      /\ \/ CompletesAgain(done, "timeout")
         \/ /\ ~Again(done)
            /\ stack' = AfterCancel(stack, hits)
            /\ result' = Completed(result, done, "timeout")
            /\ UNCHANGED <<channels, readerActive, status, command, reply, panicked>>
      /\ UNCHANGED <<registry, nextID, cardChannels>>

\* CardEvent( EScardRemoved ): channels 1..3 are gone, in the card as well.
CardRemoved ==
  LET done == CompletedByCancel(stack, DOMAIN stack)
  IN  /\ cardChannels' = {}
      /\ \/ CompletesAgain(done, "nocard")
         \/ /\ ~Again(done)
            /\ stack' = AfterCancel(stack, DOMAIN stack)
            /\ result' = Completed(result, done, "nocard")
            /\ channels' = [c \in Channels |-> IF c = 0 THEN channels[0] ELSE {}]
            /\ UNCHANGED <<readerActive, status, command, reply, panicked>>
      /\ UNCHANGED <<registry, nextID>>

(***************************************************************************)
(* CSwimReaderIF::RunL: the card's answer, or an error, completes the      *)
(* controller's request.  The answer is written through pointers into the  *)
(* session's response buffer: fatal if that has been deleted.              *)
(***************************************************************************)
ReaderAnswers ==
  /\ status = "pending"
  /\ \/ /\ command.freed
        /\ Dies("freed buffer")
        /\ UNCHANGED cardChannels
     \/ /\ \E x \in CardEffects(command.req) :
             \/ status' = "ok" /\ cardChannels' = x[1] /\ reply' = x[2]
             \/ status' = "error" /\ cardChannels' \in {cardChannels, x[1]} /\ reply' = 0
        /\ UNCHANGED <<channels, stack, readerActive, command, result, panicked>>
  /\ UNCHANGED <<registry, nextID>>

\* What AsynchronousServiceComplete tells the client of entry e.
Answer(e) == IF e.msg # command.msg THEN "wrong" ELSE IF status = "ok" THEN "ok" ELSE "error"

\* An answered open puts the session on the channel the card has opened.
WithOpened(e) ==
  IF status = "ok" /\ e.req.op = "open" /\ reply # 0
    THEN [channels EXCEPT ![reply] = @ \cup {e.sid}] ELSE channels

(***************************************************************************)
(* CScardAccessControl::RunL: complete the first message, start the next.  *)
(* The completion of a controller that is not active is a stray signal,    *)
(* for which the active scheduler panics the thread.                       *)
(***************************************************************************)
RunL ==
  /\ status \in {"ok", "error", "cancel"}
  /\ \/ ~command.watched /\ Dies("stray signal")
     \/ command.watched /\ stack = << >> /\ Dies("message stack fault")
     \/ /\ command.watched /\ stack # << >>
        /\ LET e == Head(stack) IN
           \/ e.cancelled /\ HandleNext(Tail(stack), channels, result, registry)
           \/ ~e.cancelled /\ ~Attached(registry, e.sid) /\ Dies("message stack fault")
           \/ ~e.cancelled /\ Attached(registry, e.sid) /\ CompletesAgain({e.msg}, Answer(e))
           \/ /\ ~e.cancelled /\ Attached(registry, e.sid) /\ ~Again({e.msg})
              /\ HandleNext(Tail(stack), WithOpened(e),
                            Completed(result, {e.msg}, Answer(e)), registry)
  /\ UNCHANGED <<registry, nextID, cardChannels>>
-----------------------------------------------------------------------------
\* What the server does with the reader, and what clients and the card may do.
ServerStep == ReaderAnswers \/ RunL \/ \E m \in Messages : TimeOut(m)

Next ==
  /\ panicked = "no"
  /\ \/ ServerStep
     \/ CardRemoved
     \/ \E s \in Sessions : Connect(s) \/ CancelTransmit(s) \/ Disconnect(s) \/ CloseSession(s)
     \/ \E s \in Sessions, m \in Messages, q \in Requests : Submit(s, m, q)

Spec == Init /\ [][Next]_vars
=============================================================================
