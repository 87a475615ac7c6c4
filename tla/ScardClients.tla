---------------------------- MODULE ScardClients ----------------------------
(***************************************************************************)
(* The smart-card server with its clients: the properties its users rely   *)
(* on, and the conditions on clients and card under which they hold.       *)
(*                                                                         *)
(* ScardAccess!Spec lets clients do anything.  The controller assumes that *)
(* entry 1 of its stack is the message at the reader, and that every       *)
(* message it takes from the stack keeps the reader busy.  Neither is so   *)
(* for every client; OrderlySpec names the conditions under which both     *)
(* are.  The README says what happens without each condition.              *)
(***************************************************************************)
EXTENDS ScardAccess

Waiting(e) == ~e.cancelled

(***************************************************************************)
(* Clients that give every GetCapabilities a response descriptor with      *)
(* room, and else do anything: the one condition under which a message is  *)
(* completed once, whatever else goes wrong.                               *)
(***************************************************************************)
Buffered(q) == q.op # "capsNoBuffer"

BufferedNext ==
  /\ panicked = "no"
  /\ \/ ServerStep
     \/ CardRemoved
     \/ \E s \in Sessions : Connect(s) \/ CancelTransmit(s) \/ Disconnect(s) \/ CloseSession(s)
     \/ \E s \in Sessions, m \in Messages, q \in Requests : Buffered(q) /\ Submit(s, m, q)

BufferedSpec == Init /\ [][BufferedNext]_vars

(***************************************************************************)
(* A session asks only for well-formed commands, with room for the answer  *)
(* and without a negative time-out; it closes only a logical channel it is *)
(* on, when none of its commands on that channel is on the stack; and a    *)
(* channel is opened only when no other open is under way (two opens may   *)
(* race for the last channel).                                             *)
(***************************************************************************)
OrderlyRequest(s, q) ==
  /\ q.op \notin {"rawManage", "noBuffer", "capsNoBuffer"}
  /\ ~q.negative
  /\ q.op = "close" =>
       /\ q.chan \in LogicalChannels
       /\ registry[s] \in channels[q.chan]
       /\ \A i \in DOMAIN stack : ~(stack[i].sid = registry[s] /\ stack[i].chan = q.chan)
  /\ q.op = "open" =>
       \A i \in DOMAIN stack : ~(Waiting(stack[i]) /\ stack[i].req.op = "open")

\* The card is not pulled out while a command on a logical channel is under way.
OrderlyRemoval == stack # << >> => Head(stack).chan = 0

\* A client cancels its command, or waits for it, before it closes its session.
OrderlyClose(s) == ~(status = "pending" /\ command.owner = s)

OrderlyNext ==
  /\ panicked = "no"
  /\ \/ ServerStep
     \/ OrderlyRemoval /\ CardRemoved
     \/ \E s \in Sessions : \/ Connect(s) \/ CancelTransmit(s) \/ Disconnect(s)
                            \/ OrderlyClose(s) /\ CloseSession(s)
     \/ \E s \in Sessions, m \in Messages, q \in Requests :
          OrderlyRequest(s, q) /\ Submit(s, m, q)

OrderlySpec == Init /\ [][OrderlyNext]_vars
-----------------------------------------------------------------------------
\* The server thread never panics: no "Message stack fault", no session looked
\* up in vain, no message used after its completion, no deleted buffer written.
ServerAlive == panicked = "no"

\* No lost wake-up: whenever the reader is idle, no message waits for it
\* (CScardAccessControl::RunL and FreeChannelL take the next one).
NoStall == readerActive \/ stack = << >>

\* The first entry of the stack is the message the reader is working on, as
\* CancelAll, CancelByTimeOut and RunL of the controller take for granted.
FirstIsAtReader ==
  readerActive <=> /\ status # "idle" /\ command # NoCommand /\ stack # << >>
                   /\ Head(stack).msg = command.msg

\* Exactly the messages a client still waits for have an entry on the stack
\* that is not cancelled, and no message has two of them.
NoMessageLost ==
  /\ \A m \in Messages :
       result[m] = "waiting" <=> \E i \in DOMAIN stack : stack[i].msg = m /\ Waiting(stack[i])
  /\ \A i, j \in DOMAIN stack : stack[i].msg = stack[j].msg => i = j

\* No client gets the answer to another message than the one it has sent.
OwnAnswer == \A m \in Messages : result[m] # "wrong"

\* A logical channel has one session at most, and is open in the card: the
\* table of the channel manager never runs ahead of the card.
ChannelOwned ==
  \A c \in LogicalChannels : /\ \A x, y \in channels[c] : x = y
                             /\ channels[c] # {} => c \in cardChannels

\* A message is completed once: late answers, time-outs and cancellations of
\* a completed message change nothing for the client.
Final(r) == r \notin {"unsent", "waiting"}
CompletedOnce == [][\A m \in Messages : Final(result[m]) => result'[m] = result[m]]_result
-----------------------------------------------------------------------------
\* Timers expire and the scheduler runs RunL; nothing is assumed of the reader.
TimerFair == /\ \A m \in Messages : WF_vars(panicked = "no" /\ TimeOut(m))
             /\ WF_vars(panicked = "no" /\ RunL)

OrderlyTimedSpec == OrderlySpec /\ TimerFair

\* When the reader never stays busy with one command for ever, every message is
\* completed in the end, with a time-out or without.
ReaderAnswersAll == []<>(status # "pending")
EveryMessageAnswered ==
  ReaderAnswersAll => \A m \in Messages : result[m] = "waiting" ~> result[m] # "waiting"

\* A message with a time-out is completed even when the reader never answers,
\* unless it is a close that waits behind another command: that one is queued
\* without a timer.
Timed(m) ==
  \E i \in DOMAIN stack : /\ stack[i].msg = m /\ Waiting(stack[i])
                          /\ stack[i].req.timed /\ (stack[i].req.op = "close" => i = 1)
TimedMessageAnswered == \A m \in Messages : Timed(m) ~> result[m] # "waiting"
-----------------------------------------------------------------------------
\* The messages that wait, in the order of the stack, for the abstract line.
WaitingLine ==
  LET kept == Keep(stack, {i \in DOMAIN stack : Waiting(stack[i])})
  IN  [k \in DOMAIN kept |-> kept[k].msg]

Line == INSTANCE CommandLine WITH line <- WaitingLine
LineSpec == Line!Spec
=============================================================================
