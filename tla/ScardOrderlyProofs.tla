------------------------- MODULE ScardOrderlyProofs -------------------------
(***************************************************************************)
(* Theorems about OrderlySpec: with orderly clients the server never       *)
(* panics, never stalls, and always gives each message its own answer.     *)
(* They follow from Inductive of ScardInvariant.  One lemma per action     *)
(* shows that it preserves Inductive; actions that cancel share one.  The  *)
(* last section shows that such a server implements CommandLine.           *)
(***************************************************************************)
EXTENDS ScardClientsProofs

\* The parts of Inductive that are left when TypeOK and StackAccounted are known.
Rest ==
  /\ ServerAlive
  /\ ReaderBusy
  /\ RestWaits
  /\ NoneForgotten
  /\ OnItsChannel
  /\ OnBasicChannel
  /\ RoomToOpen
  /\ ClosesPending
  /\ ReplyIsFree
  /\ ChannelOwned
  /\ OwnAnswer

LEMMA InductiveParts == Inductive <=> TypeOK /\ StackAccounted /\ Rest
BY DEF Inductive, Rest

\* What every position of the stack holds.
LEMMA StackFacts ==
  ASSUME TypeOK
  PROVE  /\ DOMAIN stack = 1 .. Len(stack) /\ Len(stack) \in Nat
         /\ stack # << >> <=> 1 \in DOMAIN stack
         /\ \A i \in DOMAIN stack :
              /\ i \in Nat /\ stack[i] \in EntryType
              /\ stack[i].msg \in Messages /\ stack[i].req \in Requests
              /\ stack[i].sid \in Nat /\ stack[i].chan \in Channels
<1>1. stack \in Seq(EntryType)
  BY DEF TypeOK
<1>2. /\ DOMAIN stack = 1 .. Len(stack) /\ Len(stack) \in Nat
      /\ stack # << >> <=> 1 \in DOMAIN stack
      /\ \A i \in DOMAIN stack : i \in Nat /\ stack[i] \in EntryType
  BY <1>1
<1> QED  BY <1>2 DEF EntryType

(***************************************************************************)
(* An action that cancels the messages at the positions hits.  The         *)
(* hypotheses say what else it may do: stop the reader, detach sessions    *)
(* of which no message waits, and give up channels nobody needs.           *)
(***************************************************************************)
LEMMA CancelStep ==
  ASSUME TypeOK, StackAccounted, Rest, NEW hits \in SUBSET DOMAIN stack,
         NEW why \in ResultType, Final(why), why # "wrong",
         stack' = AfterCancel(stack, hits),
         result' = Completed(result, CompletedByCancel(stack, hits), why),
         UNCHANGED <<readerActive, reply, panicked>>,
         status' = status \/ (status = "pending" /\ status' = "cancel"),
         \/ command' = command
         \/ command # NoCommand /\ command' = [command EXCEPT !.freed = TRUE] /\ status # "pending",
         \A i \in DOMAIN stack :
           /\ i \notin hits /\ Attached(registry, stack[i].sid) => Attached(registry', stack[i].sid)
           /\ i = 1 \/ i \notin hits => stack[i].sid \in channels'[stack[i].chan]
           /\ i # 1 /\ i \notin hits /\ stack[i].req.op = "close" => stack[i].req.chan \in cardChannels',
         1 \notin hits /\ reply # 0 /\ Waiting(stack[1]) => reply \in cardChannels',
         channels' \in [Channels -> SUBSET Nat],
         \A c \in LogicalChannels : channels'[c] \subseteq channels[c]
                                    /\ (channels'[c] # {} => c \in cardChannels'),
         \A s \in Sessions : registry'[s] # 0 => registry'[s] = registry[s],
         channels'[0] = channels[0]
  PROVE  Rest'
<1> DEFINE t == AfterCancel(stack, hits)
           f == Origin(stack, hits)
           done == CompletedByCancel(stack, hits)
<1>1. t = AfterCancel(stack, hits) /\ f = Origin(stack, hits)
  OBVIOUS
<1>2. \A m : m \in done <=> \E j \in hits : Waiting(stack[j]) /\ stack[j].msg = m
  BY DEF CompletedByCancel, Waiting
<1>3. \A m \in Messages : result'[m] = IF m \in done THEN why ELSE result[m]
  BY DEF Completed
<1>4. stack' = t
  OBVIOUS
<1> HIDE DEF t, f, done
<1>5. stack \in Seq(EntryType)
  BY DEF TypeOK
<1>6. /\ t \in Seq(EntryType)
      /\ t = << >> <=> stack = << >>
      /\ stack # << >> => 1 \in DOMAIN t /\ f[1] = 1
      /\ f \in [DOMAIN t -> DOMAIN stack]
      /\ \A j \in DOMAIN t :
           /\ t[j].msg = stack[f[j]].msg /\ t[j].req = stack[f[j]].req
           /\ t[j].sid = stack[f[j]].sid /\ t[j].chan = stack[f[j]].chan
           /\ Waiting(t[j]) <=> Waiting(stack[f[j]]) /\ f[j] \notin hits
           /\ j = 1 <=> f[j] = 1
      /\ \A j, k \in DOMAIN t : f[j] = f[k] => j = k
      /\ \A i \in DOMAIN stack : i \notin hits => \E j \in DOMAIN t : f[j] = i
  BY <1>1, <1>5, CancelShape
<1>7. \A j \in DOMAIN t : f[j] \in DOMAIN stack
  BY <1>6
<1>8. \A j \in DOMAIN t : j # 1 => f[j] \notin hits
  <2> SUFFICES ASSUME NEW j \in DOMAIN t, j # 1 PROVE f[j] \notin hits
    OBVIOUS
  <2>1. \A e \in EntryType : Marked(e) \in EntryType
    BY MarkedType
  <2> QED  BY <1>1, <1>5, <2>1, AfterCancelFacts
<1>9. ServerAlive'
  BY DEF Rest, ServerAlive
<1>10. ReaderBusy'
  <2>1. ReaderBusy
    BY DEF Rest
  <2>2. readerActive' <=> status' # "idle"
    BY <2>1 DEF ReaderBusy
  <2>3. ~readerActive => stack' = << >> /\ command' = NoCommand /\ reply' = 0
    BY <1>4, <1>6, <2>1 DEF ReaderBusy
  <2>4. ASSUME readerActive
        PROVE  /\ stack' # << >> /\ command' # NoCommand
               /\ command'.msg = stack'[1].msg /\ command'.req = stack'[1].req
               /\ command'.watched
    <3>1. /\ stack # << >> /\ command # NoCommand
          /\ command.msg = stack[1].msg /\ command.req = stack[1].req /\ command.watched
      BY <2>1, <2>4 DEF ReaderBusy
    <3>2. command' # NoCommand /\ command'.msg = command.msg /\ command'.req = command.req
      BY <3>1 DEF TypeOK, CommandType, NoCommand
    <3>3. command'.watched
      BY <3>1 DEF TypeOK, CommandType, NoCommand
    <3> QED  BY <1>4, <1>6, <3>1, <3>2, <3>3
  <2>5. status' = "pending" => ~command'.freed /\ reply' = 0
    BY <2>1 DEF ReaderBusy
  <2> QED  BY <2>2, <2>3, <2>4, <2>5 DEF ReaderBusy
<1>11. RestWaits'
  BY <1>4, <1>6, <1>7, <1>8 DEF Rest, RestWaits, Waiting
<1>12. NoneForgotten'
  <2> SUFFICES ASSUME NEW m \in Messages, result'[m] = "waiting"
               PROVE  \E j \in DOMAIN t : t[j].msg = m /\ Waiting(t[j])
    BY <1>4 DEF NoneForgotten, Waiting
  <2>1. m \notin done /\ result[m] = "waiting"
    BY <1>3 DEF Final
  <2>2. PICK i \in DOMAIN stack : stack[i].msg = m /\ Waiting(stack[i])
    BY <2>1 DEF Rest, NoneForgotten
  <2>3. i \notin hits
    BY <1>2, <2>1, <2>2
  <2>4. PICK j \in DOMAIN t : f[j] = i
    BY <1>6, <2>3
  <2> QED  BY <1>6, <2>2, <2>3, <2>4
<1>13. OnItsChannel'
  <2> SUFFICES ASSUME NEW j \in DOMAIN t
               PROVE  /\ WellFormed(t[j].req)
                      /\ t[j].chan = ChannelOf(t[j].req)
                      /\ t[j].sid \in channels'[t[j].chan]
                      /\ Waiting(t[j]) => Attached(registry', t[j].sid)
    BY <1>4 DEF OnItsChannel, Waiting, WellFormed, ChannelOf, Attached
  <2>1. /\ WellFormed(stack[f[j]].req)
        /\ stack[f[j]].chan = ChannelOf(stack[f[j]].req)
        /\ Waiting(stack[f[j]]) => Attached(registry, stack[f[j]].sid)
    BY <1>7 DEF Rest, OnItsChannel
  <2>2. f[j] = 1 \/ f[j] \notin hits
    BY <1>6, <1>8
  <2> QED  BY <1>6, <1>7, <2>1, <2>2
<1>14. OnBasicChannel'
  BY DEF Rest, OnBasicChannel
<1>15. RoomToOpen'
  <2>1. ASSUME NEW j \in DOMAIN t, Waiting(t[j]), t[j].req.op = "open"
        PROVE  \E c \in LogicalChannels : channels'[c] = {}
    <3>1. PICK c \in LogicalChannels : channels[c] = {}
      BY <1>6, <1>7, <2>1 DEF Rest, RoomToOpen
    <3> QED  BY <3>1
  <2>2. ASSUME NEW j \in DOMAIN t, Waiting(t[j]), t[j].req.op = "open",
               NEW k \in DOMAIN t, Waiting(t[k]), t[k].req.op = "open"
        PROVE  j = k
    <3>1. f[j] = f[k]
      BY <1>6, <1>7, <2>2 DEF Rest, RoomToOpen
    <3> QED  BY <1>6, <3>1
  <2> QED  BY <1>4, <2>1, <2>2 DEF RoomToOpen, Waiting
<1>16. ClosesPending'
  <2> DEFINE C(j) == t[j].req.op = "close" /\ (j # 1 \/ status' = "pending")
  <2>1. ASSUME NEW j \in DOMAIN t, C(j)
        PROVE  Closing(f[j]) /\ f[j] \in DOMAIN stack /\ t[j].req = stack[f[j]].req
    BY <1>6, <1>7, <2>1 DEF Closing
  <2>2. ASSUME NEW j \in DOMAIN t, C(j) PROVE channels'[t[j].req.chan] = {}
    <3>1. channels[t[j].req.chan] = {}
      BY <2>1, <2>2 DEF Rest, ClosesPending
    <3>2. t[j].req.chan \in LogicalChannels
      BY <2>1, <2>2 DEF Rest, OnItsChannel, WellFormed, Closing
    <3> QED  BY <3>1, <3>2
  <2>3. ASSUME NEW j \in DOMAIN t, C(j), j # 1 PROVE t[j].req.chan \in cardChannels'
    BY <1>6, <1>7, <1>8, <2>1, <2>3 DEF Closing
  <2>4. ASSUME NEW j \in DOMAIN t, NEW k \in DOMAIN t, C(j), C(k), t[j].req.chan = t[k].req.chan
        PROVE  j = k
    <3>1. f[j] = f[k]
      BY <2>1, <2>4 DEF Rest, ClosesPending
    <3> QED  BY <1>6, <3>1
  <2> QED  BY <1>4, <2>2, <2>3, <2>4 DEF ClosesPending, Closing
<1>17. ReplyIsFree'
  <2> SUFFICES ASSUME reply # 0, Waiting(t[1])
               PROVE  /\ channels'[reply] = {}
                      /\ reply \in cardChannels'
                      /\ \A j \in DOMAIN t : j # 1 /\ t[j].req.op = "close" => t[j].req.chan # reply
    BY <1>4 DEF ReplyIsFree, Waiting
  <2>1. stack # << >>
    BY DEF Rest, ReaderBusy
  <2>2. Waiting(stack[1]) /\ 1 \notin hits
    BY <1>6, <2>1
  <2>3. /\ channels[reply] = {}
        /\ \A i \in DOMAIN stack : i # 1 /\ stack[i].req.op = "close" => stack[i].req.chan # reply
    BY <2>2 DEF Rest, ReplyIsFree
  <2>4. reply \in LogicalChannels
    BY DEF TypeOK, Channels, LogicalChannels
  <2> QED  BY <1>6, <1>7, <2>2, <2>3, <2>4
<1>18. ChannelOwned'
  BY DEF Rest, ChannelOwned
<1>19. OwnAnswer'
  BY <1>3 DEF Rest, OwnAnswer
<1> QED  BY <1>9, <1>10, <1>11, <1>12, <1>13, <1>14, <1>15, <1>16, <1>17, <1>18, <1>19 DEF Rest
-----------------------------------------------------------------------------
\* Two of the hypotheses of CancelStep when channels, card and sessions stay.
LEMMA NothingGivenUp ==
  ASSUME TypeOK, Rest
  PROVE  /\ \A i \in DOMAIN stack :
              /\ stack[i].sid \in channels[stack[i].chan]
              /\ i # 1 /\ stack[i].req.op = "close" => stack[i].req.chan \in cardChannels
         /\ reply # 0 /\ Waiting(stack[1]) => reply \in cardChannels
         /\ channels \in [Channels -> SUBSET Nat]
         /\ \A c \in LogicalChannels : channels[c] # {} => c \in cardChannels
<1> USE DEF Rest
<1>1. \A i \in DOMAIN stack :
        /\ stack[i].sid \in channels[stack[i].chan]
        /\ i # 1 /\ stack[i].req.op = "close" => stack[i].req.chan \in cardChannels
  BY DEF OnItsChannel, ClosesPending, Closing
<1> QED  BY <1>1 DEF ReplyIsFree, ChannelOwned, TypeOK

LEMMA TimeOutStep ==
  ASSUME TypeOK, StackAccounted, Rest, NEW m \in Messages, TimeOut(m) PROVE Rest'
<1> DEFINE hits == WithTimerOf(stack, m)
<1>1. /\ hits \in SUBSET DOMAIN stack
      /\ stack' = AfterCancel(stack, hits)
      /\ result' = Completed(result, CompletedByCancel(stack, hits), "timeout")
      /\ UNCHANGED <<registry, channels, readerActive, status, command, reply,
                     cardChannels, panicked>>
  BY HitsAreInStack, CancelsWaiting DEF TimeOut
<1> HIDE DEF hits
<1>2. "timeout" \in ResultType /\ Final("timeout")
  BY DEF ResultType, Final
<1>3. \A id : Attached(registry, id) => Attached(registry', id)
  BY <1>1 DEF Attached
<1> QED  BY <1>1, <1>2, <1>3, NothingGivenUp, CancelStep

LEMMA CardRemovedStep ==
  ASSUME TypeOK, StackAccounted, Rest, OrderlyRemoval, CardRemoved PROVE Rest'
<1> DEFINE hits == DOMAIN stack
<1>1. /\ stack' = AfterCancel(stack, hits)
      /\ result' = Completed(result, CompletedByCancel(stack, hits), "nocard")
      /\ UNCHANGED <<registry, readerActive, status, command, reply, panicked>>
      /\ channels' = [c \in Channels |-> IF c = 0 THEN channels[0] ELSE {}]
  BY CancelsWaiting DEF CardRemoved
<1>2. /\ channels' \in [Channels -> SUBSET Nat]
      /\ channels'[0] = channels[0]
      /\ \A c \in LogicalChannels : channels'[c] = {}
  BY <1>1 DEF TypeOK, Channels, LogicalChannels
<1>3. "nocard" \in ResultType /\ Final("nocard")
  BY DEF ResultType, Final
<1>4. \A id : Attached(registry, id) => Attached(registry', id)
  BY <1>1 DEF Attached
<1>5. stack # << >> => 1 \in DOMAIN stack
  BY StackFacts
<1>6. reply # 0 => 1 \in DOMAIN stack
  BY <1>5 DEF Rest, ReaderBusy
<1>7. 1 \in DOMAIN stack => stack[1].sid \in channels'[stack[1].chan]
  <2> SUFFICES ASSUME 1 \in DOMAIN stack PROVE stack[1].sid \in channels'[stack[1].chan]
    OBVIOUS
  <2>1. stack # << >> /\ Head(stack) = stack[1]
    BY StackFacts
  <2>2. stack[1].chan = 0
    BY <2>1 DEF OrderlyRemoval
  <2> QED  BY <1>2, <2>2, NothingGivenUp
<1>8. /\ \A i \in DOMAIN stack :
           /\ i \notin hits /\ Attached(registry, stack[i].sid) => Attached(registry', stack[i].sid)
           /\ i = 1 \/ i \notin hits => stack[i].sid \in channels'[stack[i].chan]
           /\ i # 1 /\ i \notin hits /\ stack[i].req.op = "close" => stack[i].req.chan \in cardChannels'
      /\ 1 \notin hits /\ reply # 0 /\ Waiting(stack[1]) => reply \in cardChannels'
  BY <1>4, <1>6, <1>7
<1>9. hits \in SUBSET DOMAIN stack
  OBVIOUS
<1> HIDE DEF hits
<1> QED  BY <1>1, <1>2, <1>3, <1>8, <1>9, CancelStep

\* PushMessageToTopL never leaves: the session of entry 1 is on its channel.
LEMMA PutBackKeeps ==
  ASSUME TypeOK, Rest, NEW hits \in SUBSET DOMAIN stack,
         NEW ch, \A c \in Channels : channels[c] \subseteq ch[c]
  PROVE  /\ PutBack(stack, ch) = stack
         /\ PutBack(AfterCancel(stack, hits), ch) = AfterCancel(stack, hits)
<1> DEFINE t == AfterCancel(stack, hits)
           f == Origin(stack, hits)
<1>1. t = AfterCancel(stack, hits) /\ f = Origin(stack, hits)
  OBVIOUS
<1> HIDE DEF t, f
<1>2. stack \in Seq(EntryType)
  BY DEF TypeOK
<1>3. /\ t \in Seq(EntryType)
      /\ t = << >> <=> stack = << >>
      /\ stack # << >> => 1 \in DOMAIN t /\ f[1] = 1
      /\ \A j \in DOMAIN t : t[j].sid = stack[f[j]].sid /\ t[j].chan = stack[f[j]].chan
  BY <1>1, <1>2, CancelShape
<1>4. ASSUME stack # << >> PROVE stack[1].sid \in ch[stack[1].chan]
  <2>1. 1 \in DOMAIN stack /\ stack[1].chan \in Channels
    BY <1>4, StackFacts
  <2> QED  BY <2>1, NothingGivenUp
<1>5. stack # << >> => Head(stack) = stack[1]
  BY <1>2
<1>6. t # << >> => Head(t) = t[1] /\ t[1].sid = stack[1].sid /\ t[1].chan = stack[1].chan
  BY <1>3
<1>7. PutBack(stack, ch) = stack
  BY <1>4, <1>5 DEF PutBack
<1>8. PutBack(t, ch) = t
  BY <1>3, <1>4, <1>6 DEF PutBack
<1> QED  BY <1>1, <1>7, <1>8

LEMMA CancelTransmitStep ==
  ASSUME TypeOK, StackAccounted, Rest, NEW s \in Sessions, CancelTransmit(s) PROVE Rest'
<1> DEFINE hits == OfSession(stack, registry[s])
           applies == AfterCancel(stack, hits) # << >>
                      /\ Head(AfterCancel(stack, hits)).sid = registry[s]
<1>1. hits \in SUBSET DOMAIN stack
  BY HitsAreInStack
<1>2. /\ result' = Completed(result, CompletedByCancel(stack, hits), "cancelled")
      /\ stack' = PutBack(AfterCancel(stack, hits), channels)
      /\ CancelReader(applies)
      /\ UNCHANGED <<registry, channels, readerActive, command, reply, panicked>>
  BY <1>1, CancelsWaiting DEF CancelTransmit
<1> HIDE DEF hits, applies
<1>3. stack' = AfterCancel(stack, hits)
  BY <1>1, <1>2, PutBackKeeps
<1>4. "cancelled" \in ResultType /\ Final("cancelled")
  BY DEF ResultType, Final
<1>5. \A id : Attached(registry, id) => Attached(registry', id)
  BY <1>2 DEF Attached
<1>6. CASE UNCHANGED <<status, cardChannels>>
  BY <1>1, <1>2, <1>3, <1>4, <1>5, <1>6, NothingGivenUp, CancelStep
<1>7. ASSUME status = "pending", status' = "cancel", NEW x \in CardEffects(command.req),
             cardChannels' = x[1]
      PROVE  Rest'
  <2>1. /\ reply = 0 /\ 1 \in DOMAIN stack /\ command.req = stack[1].req
    BY <1>7, StackFacts DEF Rest, ReaderBusy
  <2>2. \A c \in cardChannels :
          c \in cardChannels' \/ (command.req.op = "close" /\ c = command.req.chan)
    BY <1>7 DEF CardEffects
  <2>3. command.req.op = "close" => Closing(1)
    BY <1>7, <2>1 DEF Closing
  <2>4. \A i \in DOMAIN stack :
          i # 1 /\ stack[i].req.op = "close" => stack[i].req.chan \in cardChannels'
    <3> SUFFICES ASSUME NEW i \in DOMAIN stack, i # 1, stack[i].req.op = "close"
                 PROVE  stack[i].req.chan \in cardChannels'
      OBVIOUS
    <3>1. Closing(i) /\ stack[i].req.chan \in cardChannels
      BY DEF Closing, Rest, ClosesPending
    <3>2. ~(command.req.op = "close" /\ stack[i].req.chan = command.req.chan)
      BY <2>1, <2>3, <3>1 DEF Rest, ClosesPending
    <3> QED  BY <2>2, <3>1, <3>2
  <2>5. \A c \in LogicalChannels : channels[c] # {} => c \in cardChannels'
    BY <2>1, <2>2, <2>3 DEF Rest, ClosesPending, ChannelOwned
  <2> QED  BY <1>1, <1>2, <1>3, <1>4, <1>5, <1>7, <2>1, <2>4, <2>5, NothingGivenUp, CancelStep
<1>8. CASE status = "pending" /\ status' = "cancel" /\ cardChannels' = cardChannels
  BY <1>1, <1>2, <1>3, <1>4, <1>5, <1>8, NothingGivenUp, CancelStep
<1> QED  BY <1>2, <1>6, <1>7, <1>8 DEF CancelReader

\* An idle controller has nothing to do.
LEMMA IdleStays ==
  ASSUME TypeOK, Rest, NEW ch, NEW res, NEW reg, NEW st,
         stack = << >> => st = << >>, HandleNextIfReady(st, ch, res, reg)
  PROVE  /\ stack' = st /\ channels' = ch /\ result' = res
         /\ UNCHANGED <<readerActive, status, command, reply, panicked>>
<1>1. CASE readerActive
  BY <1>1 DEF HandleNextIfReady
<1>2. CASE ~readerActive
  <2>1. stack = << >> /\ command = NoCommand /\ reply = 0 /\ status = "idle"
    BY <1>2 DEF Rest, ReaderBusy
  <2>2. StaysIdle(st, ch, res)
    BY <1>2, <2>1 DEF HandleNextIfReady, HandleNext
  <2>3. readerActive = FALSE
    BY <1>2 DEF TypeOK
  <2> QED  BY <2>1, <2>2, <2>3 DEF StaysIdle
<1> QED  BY <1>1, <1>2

LEMMA NothingToCancel ==
  ASSUME NEW st \in Seq(EntryType), NEW hits \in SUBSET DOMAIN st
  PROVE  st = << >> => AfterCancel(st, hits) = << >>
<1> DEFINE t == AfterCancel(st, hits)
           f == Origin(st, hits)
<1>1. t = AfterCancel(st, hits) /\ f = Origin(st, hits)
  OBVIOUS
<1> HIDE DEF t, f
<1>2. t = << >> <=> st = << >>
  BY <1>1, CancelShape
<1> QED  BY <1>1, <1>2

LEMMA DetachedStep ==
  ASSUME TypeOK, StackAccounted, Rest, NEW s \in Sessions,
         registry' = [registry EXCEPT ![s] = 0],
         stack' = AfterCancel(stack, OfSession(stack, registry[s])),
         result' = Completed(result, CompletedByCancel(stack, OfSession(stack, registry[s])),
                             "cancelled"),
         UNCHANGED <<channels, cardChannels, readerActive, status, reply, panicked>>,
         \/ command' = command
         \/ command # NoCommand /\ command' = [command EXCEPT !.freed = TRUE] /\ status # "pending"
  PROVE  Rest'
<1> DEFINE hits == OfSession(stack, registry[s])
<1>1. hits \in SUBSET DOMAIN stack
  BY HitsAreInStack
<1>2. \A i \in DOMAIN stack : i \notin hits => stack[i].sid # registry[s]
  BY DEF OfSession
<1>3. stack' = AfterCancel(stack, hits)
      /\ result' = Completed(result, CompletedByCancel(stack, hits), "cancelled")
  OBVIOUS
<1> HIDE DEF hits
<1>4. "cancelled" \in ResultType /\ Final("cancelled")
  BY DEF ResultType, Final
<1>5. \A r \in Sessions : registry'[r] = IF r = s THEN 0 ELSE registry[r]
  BY DEF TypeOK
<1>6. \A id : id # registry[s] /\ Attached(registry, id) => Attached(registry', id)
  BY <1>5 DEF Attached
<1>7. \A i \in DOMAIN stack :
        i \notin hits /\ Attached(registry, stack[i].sid) => Attached(registry', stack[i].sid)
  BY <1>2, <1>6
<1>8. \A r \in Sessions : registry'[r] # 0 => registry'[r] = registry[r]
  BY <1>5
<1> QED  BY <1>1, <1>3, <1>4, <1>7, <1>8, NothingGivenUp, CancelStep

LEMMA DetachStep ==
  ASSUME TypeOK, StackAccounted, Rest, NEW s \in Sessions, Detach(s) PROVE Rest'
<1> DEFINE hits == OfSession(stack, registry[s])
           st == AfterCancel(stack, hits)
           res == Completed(result, CompletedByCancel(stack, hits), "cancelled")
           reg == [registry EXCEPT ![s] = 0]
<1>1. /\ registry' = reg /\ UNCHANGED cardChannels
      /\ HandleNextIfReady(st, channels, res, reg)
  BY HitsAreInStack, CancelsWaiting DEF Detach
<1>2. stack = << >> => st = << >>
  <2>1. hits \in SUBSET DOMAIN stack /\ stack \in Seq(EntryType)
    BY HitsAreInStack DEF TypeOK
  <2> HIDE DEF hits
  <2> QED  BY <2>1, NothingToCancel
<1> HIDE DEF st, res, reg
<1>3. /\ stack' = st /\ channels' = channels /\ result' = res
      /\ UNCHANGED <<readerActive, status, command, reply, panicked>>
  BY <1>1, <1>2, IdleStays
<1> QED  BY <1>1, <1>3, DetachedStep DEF st, res, reg

\* The buffers of a command that was answered, or cancelled, are deleted.
LEMMA FreedStep ==
  ASSUME TypeOK, Rest, status # "pending",
         command # NoCommand, command' = [command EXCEPT !.freed = TRUE],
         UNCHANGED <<registry, channels, stack, readerActive, status, reply, cardChannels,
                     result, panicked>>
  PROVE  Rest'
<1>1. /\ command' # NoCommand /\ command'.msg = command.msg /\ command'.req = command.req
      /\ command'.watched = command.watched
  BY DEF TypeOK, CommandType, NoCommand
<1>2. ReaderBusy'
  BY <1>1 DEF Rest, ReaderBusy
<1>3. ServerAlive' /\ RestWaits' /\ NoneForgotten' /\ OwnAnswer'
  BY DEF Rest, ServerAlive, RestWaits, NoneForgotten, OwnAnswer, Waiting
<1>4. OnItsChannel' /\ OnBasicChannel' /\ RoomToOpen'
  BY DEF Rest, OnItsChannel, OnBasicChannel, RoomToOpen, WellFormed, ChannelOf, Attached, Waiting
<1>5. ClosesPending' /\ ReplyIsFree' /\ ChannelOwned'
  BY DEF Rest, ClosesPending, Closing, ReplyIsFree, ChannelOwned, Waiting
<1> QED  BY <1>2, <1>3, <1>4, <1>5 DEF Rest

LEMMA CloseSessionStep ==
  ASSUME TypeOK, StackAccounted, Rest, NEW s \in Sessions, OrderlyClose(s), CloseSession(s)
  PROVE  Rest'
<1>1. CASE Detach(s)
  BY <1>1, DetachStep
<1>3. CASE /\ command # NoCommand /\ command.owner = s
           /\ command' = [command EXCEPT !.freed = TRUE]
           /\ UNCHANGED <<registry, channels, stack, readerActive, status, reply, cardChannels,
                          result, panicked>>
  BY <1>3, FreedStep DEF OrderlyClose
<1>2. CASE ~Detach(s) /\ registry[s] # 0
  <2>1. /\ command # NoCommand /\ command.owner = s
        /\ registry' = [registry EXCEPT ![s] = 0]
        /\ stack' = AfterCancel(stack, OfSession(stack, registry[s]))
        /\ result' = Completed(result, CompletedByCancel(stack, OfSession(stack, registry[s])),
                               "cancelled")
        /\ command' = [command EXCEPT !.freed = TRUE]
        /\ UNCHANGED <<channels, readerActive, status, reply, cardChannels, panicked>>
    BY <1>2, HitsAreInStack, CancelsWaiting DEF CloseSession
  <2>2. status # "pending"
    BY <2>1 DEF OrderlyClose
  <2> QED  BY <2>1, <2>2, DetachedStep
<1> QED  BY <1>1, <1>2, <1>3 DEF CloseSession

LEMMA ConnectStep ==
  ASSUME TypeOK, StackAccounted, Rest, NEW s \in Sessions, Connect(s) PROVE Rest'
<1> DEFINE reg == [registry EXCEPT ![s] = nextID + 1]
           ch == [channels EXCEPT ![0] = @ \cup {nextID, nextID + 1}]
<1>1. /\ registry' = reg /\ registry[s] = 0 /\ UNCHANGED cardChannels
      /\ HandleNextIfReady(PutBack(stack, ch), ch, result, reg)
  BY DEF Connect
<1>2. /\ \A r \in Sessions : reg[r] = IF r = s THEN nextID + 1 ELSE registry[r]
      /\ \A c \in Channels : channels[c] \subseteq ch[c]
      /\ \A c \in LogicalChannels : ch[c] = channels[c]
      /\ nextID + 1 \in ch[0]
  BY DEF TypeOK, Channels, LogicalChannels
<1> HIDE DEF reg, ch
<1>3. PutBack(stack, ch) = stack
  BY <1>2, PutBackKeeps
<1>4. /\ channels' = ch
      /\ UNCHANGED <<stack, result, readerActive, status, command, reply, panicked>>
  BY <1>1, <1>3, IdleStays
<1>5. \A id : Attached(registry, id) => Attached(registry', id)
  BY <1>1, <1>2 DEF Attached
<1>6. \A i \in DOMAIN stack :
        stack[i].chan \in Channels /\ (WellFormed(stack[i].req) /\ stack[i].req.op = "close"
                                       => stack[i].req.chan \in LogicalChannels)
  BY StackFacts DEF WellFormed
<1>7. ServerAlive' /\ ReaderBusy' /\ RestWaits' /\ NoneForgotten' /\ OwnAnswer'
  BY <1>4 DEF Rest, ServerAlive, ReaderBusy, RestWaits, NoneForgotten, OwnAnswer, Waiting
<1>8. OnItsChannel'
  BY <1>2, <1>4, <1>5, <1>6 DEF Rest, OnItsChannel, WellFormed, ChannelOf, Waiting
<1>9. OnBasicChannel'
  BY <1>1, <1>2, <1>4 DEF Rest, OnBasicChannel, Channels
<1>10. RoomToOpen'
  BY <1>2, <1>4 DEF Rest, RoomToOpen, Waiting
<1>11. ClosesPending'
  <2>1. \A i \in DOMAIN stack : Closing(i) => stack[i].req.chan \in LogicalChannels
    BY DEF Rest, OnItsChannel, WellFormed, Closing
  <2> QED  BY <1>1, <1>2, <1>4, <2>1 DEF Rest, ClosesPending, Closing
<1>12. ReplyIsFree'
  <2>1. reply # 0 => reply \in LogicalChannels
    BY DEF TypeOK, Channels, LogicalChannels
  <2> QED  BY <1>1, <1>2, <1>4, <2>1 DEF Rest, ReplyIsFree, Waiting
<1>13. ChannelOwned'
  BY <1>1, <1>2, <1>4 DEF Rest, ChannelOwned
<1> QED  BY <1>7, <1>8, <1>9, <1>10, <1>11, <1>12, <1>13 DEF Rest

LEMMA ReaderAnswersStep ==
  ASSUME TypeOK, StackAccounted, Rest, ReaderAnswers PROVE Rest'
<1>1. /\ status = "pending" /\ ~command.freed /\ reply = 0
      /\ readerActive /\ 1 \in DOMAIN stack /\ command.req = stack[1].req
  BY StackFacts DEF ReaderAnswers, Rest, ReaderBusy
<1>2. PICK x \in CardEffects(command.req) :
        \/ status' = "ok" /\ cardChannels' = x[1] /\ reply' = x[2]
        \/ status' = "error" /\ cardChannels' \in {cardChannels, x[1]} /\ reply' = 0
  BY <1>1 DEF ReaderAnswers
<1>3. UNCHANGED <<channels, stack, readerActive, command, result, panicked, registry, nextID>>
  BY <1>1 DEF ReaderAnswers
<1>4. /\ \A c \in cardChannels :
           c \in cardChannels' \/ (command.req.op = "close" /\ c = command.req.chan)
      /\ reply' # 0 => /\ reply' \in LogicalChannels \ cardChannels
                       /\ reply' \in cardChannels'
                       /\ command.req.op = "open"
  <2>1. CASE x = <<IF command.req.op = "close" THEN cardChannels \ {command.req.chan}
                                               ELSE cardChannels, 0>>
    BY <1>2, <2>1
  <2>2. ASSUME command.req.op = "open", NEW c \in LogicalChannels \ cardChannels,
               x = <<cardChannels \cup {c}, c>>
        PROVE  <1>4!1 /\ <1>4!2
    BY <1>2, <2>2
  <2> QED  BY <2>1, <2>2 DEF CardEffects
<1>5. command.req.op = "close" => Closing(1)
  BY <1>1 DEF Closing
<1>6. \A i \in DOMAIN stack :
        i # 1 /\ stack[i].req.op = "close" =>
          stack[i].req.chan \in cardChannels /\ stack[i].req.chan \in cardChannels'
  <2> SUFFICES ASSUME NEW i \in DOMAIN stack, i # 1, stack[i].req.op = "close"
               PROVE  stack[i].req.chan \in cardChannels /\ stack[i].req.chan \in cardChannels'
    OBVIOUS
  <2>1. Closing(i) /\ stack[i].req.chan \in cardChannels
    BY DEF Closing, Rest, ClosesPending
  <2>2. ~(command.req.op = "close" /\ stack[i].req.chan = command.req.chan)
    BY <1>1, <1>5, <2>1 DEF Rest, ClosesPending
  <2> QED  BY <1>4, <2>1, <2>2
<1>7. ServerAlive' /\ RestWaits' /\ NoneForgotten' /\ OwnAnswer'
  BY <1>3 DEF Rest, ServerAlive, RestWaits, NoneForgotten, OwnAnswer, Waiting
<1>8. ReaderBusy'
  BY <1>1, <1>2, <1>3 DEF Rest, ReaderBusy
<1>9. OnItsChannel' /\ OnBasicChannel' /\ RoomToOpen'
  BY <1>3 DEF Rest, OnItsChannel, OnBasicChannel, RoomToOpen, WellFormed, ChannelOf,
              Attached, Waiting
<1>10. ClosesPending'
  <2>1. status' # "pending"
    BY <1>2
  <2> QED  BY <1>3, <1>6, <2>1 DEF Rest, ClosesPending, Closing
<1>11. ReplyIsFree'
  BY <1>3, <1>4, <1>6 DEF Rest, ReplyIsFree, ChannelOwned, Waiting
<1>12. ChannelOwned'
  <2>1. command.req.op = "close" => channels[command.req.chan] = {}
    BY <1>1, <1>5 DEF Rest, ClosesPending
  <2> QED  BY <1>3, <1>4, <2>1 DEF Rest, ChannelOwned
<1> QED  BY <1>7, <1>8, <1>9, <1>10, <1>11, <1>12 DEF Rest
-----------------------------------------------------------------------------
\* What an orderly request does to the channels.
LEMMA TableFacts ==
  ASSUME TypeOK, Rest, NEW s \in Sessions, NEW q \in Requests, registry[s] # 0,
         OrderlyRequest(s, q), q.op # "status",
         NEW table, table = Table(q, registry[s], channels)
  PROVE  /\ \A c \in Channels : table[c] \subseteq channels[c]
         /\ table[0] = channels[0]
         /\ q.op # "close" => table = channels
         /\ q.op = "close" => /\ q.chan \in LogicalChannels
                              /\ registry[s] \in channels[q.chan]
                              /\ q.chan \in cardChannels
                              /\ table[q.chan] = {}
                              /\ \A c \in Channels : c # q.chan => table[c] = channels[c]
         /\ \A i \in DOMAIN stack : stack[i].sid \in table[stack[i].chan]
         /\ ~Refused(q, registry[s], channels) => registry[s] \in table[ChannelOf(q)]
         /\ WellFormed(q)
<1> DEFINE id == registry[s]
<1>1. q \in RequestType /\ id \in Nat /\ channels \in [Channels -> SUBSET Nat]
  BY RequestsAssumption DEF TypeOK
<1>2. /\ id \in channels[0]
      /\ \A c \in LogicalChannels : /\ \A x, y \in channels[c] : x = y
                                    /\ channels[c] # {} => c \in cardChannels
      /\ \A i \in DOMAIN stack :
           stack[i].sid \in channels[stack[i].chan] /\ stack[i].chan \in Channels
  BY StackFacts DEF Rest, OnBasicChannel, ChannelOwned, OnItsChannel
<1>3. WellFormed(q)
  BY DEF OrderlyRequest, WellFormed
<1>4. \A c \in LogicalChannels : c \in Channels /\ c # 0
  BY DEF Channels, LogicalChannels
<1>5. 0 \in Channels
  BY DEF Channels
<1>6. CASE q.op = "close"
  <2>1. /\ q.chan \in LogicalChannels /\ id \in channels[q.chan]
        /\ \A i \in DOMAIN stack : ~(stack[i].sid = id /\ stack[i].chan = q.chan)
    BY <1>6 DEF OrderlyRequest
  <2>2. table = [channels EXCEPT ![q.chan] = @ \ {id}]
    BY <1>6 DEF Table
  <2>3. /\ q.chan \in Channels /\ q.chan # 0
        /\ table[q.chan] = channels[q.chan] \ {id}
        /\ \A c \in Channels : c # q.chan => table[c] = channels[c]
    BY <1>1, <1>4, <2>1, <2>2
  <2>4. table[q.chan] = {}
    BY <1>2, <2>1, <2>3
  <2>5. \A i \in DOMAIN stack : stack[i].sid \in table[stack[i].chan]
    BY <1>2, <2>1, <2>3
  <2>6. q.chan \in cardChannels
    BY <1>2, <2>1
  <2>7. ChannelOf(q) = 0
    BY <1>6 DEF ChannelOf, TransmitOps
  <2>8. table[0] = channels[0] /\ \A c \in Channels : table[c] \subseteq channels[c]
    BY <1>5, <2>3
  <2> QED  BY <1>2, <1>3, <1>6, <2>1, <2>3, <2>4, <2>5, <2>6, <2>7, <2>8
<1>7. CASE q.op # "close"
  <2>1. table = channels
    BY <1>7 DEF Table
  <2>2. ~Refused(q, id, channels) => id \in channels[ChannelOf(q)]
    BY <1>2 DEF Refused, ChannelOf
  <2> QED  BY <1>2, <1>3, <1>7, <2>1, <2>2
<1> QED  BY <1>6, <1>7

\* A message is answered at once, and nothing else changes.
LEMMA DismissStep ==
  ASSUME TypeOK, Rest, NEW m \in Messages, NEW r, r # "waiting", r # "wrong",
         result[m] = "unsent", result' = [result EXCEPT ![m] = r],
         UNCHANGED <<registry, channels, stack, readerActive, status, command, reply,
                     cardChannels, panicked>>
  PROVE  Rest'
<1>1. \A x \in Messages : result'[x] = IF x = m THEN r ELSE result[x]
  BY DEF TypeOK
<1>2. NoneForgotten' /\ OwnAnswer'
  BY <1>1 DEF Rest, NoneForgotten, OwnAnswer, Waiting
<1>3. ServerAlive' /\ ReaderBusy' /\ RestWaits' /\ OnItsChannel' /\ OnBasicChannel' /\ RoomToOpen'
  BY DEF Rest, ServerAlive, ReaderBusy, RestWaits, OnItsChannel, OnBasicChannel, RoomToOpen,
         WellFormed, ChannelOf, Attached, Waiting
<1>4. ClosesPending' /\ ReplyIsFree' /\ ChannelOwned'
  BY DEF Rest, ClosesPending, Closing, ReplyIsFree, ChannelOwned, Waiting
<1> QED  BY <1>2, <1>3, <1>4 DEF Rest

\* A message joins the stack at its end, and may go to the reader if it is alone.
LEMMA JoinStep ==
  ASSUME TypeOK, StackAccounted, Rest,
         NEW s \in Sessions, NEW m \in Messages, NEW q \in Requests,
         registry[s] # 0, OrderlyRequest(s, q), q.op # "status",
         ~Refused(q, registry[s], channels), result[m] = "unsent",
         NEW e \in EntryType, Waiting(e),
         e.msg = m, e.req = q, e.sid = registry[s], e.chan = ChannelOf(q),
         stack' = Append(stack, e),
         result' = [result EXCEPT ![m] = "waiting"],
         channels' = Table(q, registry[s], channels),
         UNCHANGED <<registry, cardChannels, panicked>>,
         \/ readerActive /\ UNCHANGED <<readerActive, status, command, reply>>
         \/ /\ stack = << >> /\ readerActive' /\ status' # "idle" /\ reply' = 0
            /\ command' # NoCommand /\ command'.msg = m /\ command'.req = q
            /\ command'.watched /\ ~command'.freed
  PROVE  Rest'
<1> DEFINE n == Len(stack) + 1
           v == Append(stack, e)
           id == registry[s]
<1>1. /\ DOMAIN v = 1 .. n /\ v[n] = e /\ n \in DOMAIN v
      /\ \A i \in DOMAIN v : i # n => i \in DOMAIN stack /\ v[i] = stack[i]
      /\ \A i \in DOMAIN stack : i # n /\ i \in DOMAIN v
      /\ stack = << >> => n = 1 /\ DOMAIN stack = {}
      /\ stack # << >> => n # 1 /\ 1 \in DOMAIN stack
      /\ v # << >>
  <2>1. stack \in Seq(EntryType)
    BY DEF TypeOK
  <2> QED  BY <2>1
<1>2. stack' = v
  OBVIOUS
<1> HIDE DEF n, v
<1>3. /\ \A c \in Channels : channels'[c] \subseteq channels[c]
      /\ channels'[0] = channels[0]
      /\ q.op # "close" => channels' = channels
      /\ q.op = "close" => /\ q.chan \in LogicalChannels
                           /\ id \in channels[q.chan]
                           /\ q.chan \in cardChannels
                           /\ channels'[q.chan] = {}
                           /\ \A c \in Channels : c # q.chan => channels'[c] = channels[c]
      /\ \A i \in DOMAIN stack : stack[i].sid \in channels'[stack[i].chan]
      /\ id \in channels'[ChannelOf(q)]
      /\ WellFormed(q)
  <2> DEFINE table == Table(q, id, channels)
  <2>1. table = Table(q, registry[s], channels) /\ channels' = table
    OBVIOUS
  <2> HIDE DEF table
  <2>2. /\ \A c \in Channels : table[c] \subseteq channels[c]
        /\ table[0] = channels[0]
        /\ q.op # "close" => table = channels
        /\ q.op = "close" => /\ q.chan \in LogicalChannels
                             /\ id \in channels[q.chan]
                             /\ q.chan \in cardChannels
                             /\ table[q.chan] = {}
                             /\ \A c \in Channels : c # q.chan => table[c] = channels[c]
        /\ \A i \in DOMAIN stack : stack[i].sid \in table[stack[i].chan]
        /\ id \in table[ChannelOf(q)]
        /\ WellFormed(q)
    BY <2>1, TableFacts
  <2> QED  BY <2>1, <2>2
<1>4. \A c \in LogicalChannels : channels'[c] \subseteq channels[c]
  BY <1>3 DEF Channels, LogicalChannels
<1>5. \A x \in Messages : result'[x] = IF x = m THEN "waiting" ELSE result[x]
  BY DEF TypeOK
<1>6. /\ readerActive => stack # << >> /\ UNCHANGED <<readerActive, status, command, reply>>
      /\ stack = << >> => /\ readerActive' /\ status' # "idle" /\ reply' = 0
                          /\ command' # NoCommand /\ command'.msg = m /\ command'.req = q
                          /\ command'.watched /\ ~command'.freed
      /\ stack # << >> => readerActive
  BY DEF Rest, ReaderBusy
<1>7. ServerAlive'
  BY DEF Rest, ServerAlive
<1>8. ReaderBusy'
  <2>1. CASE stack = << >>
    BY <1>1, <1>2, <1>6, <2>1 DEF ReaderBusy
  <2>2. CASE stack # << >>
    <3>1. v[1] = stack[1]
      BY <1>1, <2>2
    <3> QED  BY <1>1, <1>2, <1>6, <2>2, <3>1 DEF Rest, ReaderBusy
  <2> QED  BY <2>1, <2>2
<1>9. RestWaits'
  <2> SUFFICES ASSUME NEW i \in DOMAIN v, i # 1 PROVE Waiting(v[i])
    BY <1>2 DEF RestWaits, Waiting
  <2> QED  BY <1>1 DEF Rest, RestWaits
<1>10. NoneForgotten'
  <2> SUFFICES ASSUME NEW x \in Messages, result'[x] = "waiting"
               PROVE  \E i \in DOMAIN v : v[i].msg = x /\ Waiting(v[i])
    BY <1>2 DEF NoneForgotten, Waiting
  <2>1. CASE x = m
    BY <1>1, <2>1
  <2>2. CASE x # m
    <3>1. PICK i \in DOMAIN stack : stack[i].msg = x /\ Waiting(stack[i])
      BY <1>5, <2>2 DEF Rest, NoneForgotten
    <3> QED  BY <1>1, <3>1
  <2> QED  BY <2>1, <2>2
<1>11. OnItsChannel'
  <2> SUFFICES ASSUME NEW i \in DOMAIN v
               PROVE  /\ WellFormed(v[i].req)
                      /\ v[i].chan = ChannelOf(v[i].req)
                      /\ v[i].sid \in channels'[v[i].chan]
                      /\ Waiting(v[i]) => Attached(registry, v[i].sid)
    BY <1>2 DEF OnItsChannel, Waiting, WellFormed, ChannelOf, Attached
  <2>1. CASE i = n
    BY <1>1, <1>3, <2>1 DEF Attached
  <2>2. CASE i # n
    BY <1>1, <1>3, <2>2 DEF Rest, OnItsChannel
  <2> QED  BY <2>1, <2>2
<1>12. OnBasicChannel'
  BY <1>3 DEF Rest, OnBasicChannel
<1>13. RoomToOpen'
  <2>1. q.op = "open" => /\ \A i \in DOMAIN stack : ~(Waiting(stack[i]) /\ stack[i].req.op = "open")
                         /\ \E c \in LogicalChannels : channels'[c] = {}
    BY <1>3 DEF OrderlyRequest, Refused, NoRoom
  <2>2. ASSUME NEW i \in DOMAIN v, Waiting(v[i]), v[i].req.op = "open"
        PROVE  \E c \in LogicalChannels : channels'[c] = {}
    <3>1. CASE i = n
      BY <1>1, <2>1, <2>2, <3>1
    <3>2. CASE i # n
      <4>1. PICK c \in LogicalChannels : channels[c] = {}
        BY <1>1, <2>2, <3>2 DEF Rest, RoomToOpen
      <4> QED  BY <1>4, <4>1
    <3> QED  BY <3>1, <3>2
  <2>3. ASSUME NEW i \in DOMAIN v, Waiting(v[i]), v[i].req.op = "open",
               NEW j \in DOMAIN v, Waiting(v[j]), v[j].req.op = "open"
        PROVE  i = j
    BY <1>1, <2>1, <2>3 DEF Rest, RoomToOpen
  <2> QED  BY <1>2, <2>2, <2>3 DEF RoomToOpen, Waiting
<1>14. ClosesPending'
  <2> DEFINE C(i) == v[i].req.op = "close" /\ (i # 1 \/ status' = "pending")
  <2>1. ASSUME NEW i \in DOMAIN v, i # n, C(i)
        PROVE  /\ i \in DOMAIN stack /\ v[i] = stack[i] /\ Closing(i)
               /\ v[i].req.chan \in LogicalChannels /\ channels[v[i].req.chan] = {}
    <3>1. i \in DOMAIN stack /\ v[i] = stack[i]
      BY <1>1, <2>1
    <3>2. stack # << >> /\ status' = status
      BY <1>1, <1>6, <3>1
    <3>3. Closing(i)
      BY <2>1, <3>1, <3>2 DEF Closing
    <3> QED  BY <3>1, <3>3 DEF Rest, ClosesPending, OnItsChannel, WellFormed, Closing
  <2>2. ASSUME NEW i \in DOMAIN v, C(i) PROVE channels'[v[i].req.chan] = {}
    BY <1>1, <1>3, <1>4, <2>1, <2>2
  <2>3. ASSUME NEW i \in DOMAIN v, C(i), i # 1 PROVE v[i].req.chan \in cardChannels
    <3>1. CASE i = n
      BY <1>1, <1>3, <2>3, <3>1
    <3>2. CASE i # n
      BY <2>1, <2>3, <3>2 DEF Rest, ClosesPending
    <3> QED  BY <3>1, <3>2
  <2>4. ASSUME NEW i \in DOMAIN v, NEW j \in DOMAIN v, C(i), C(j), v[i].req.chan = v[j].req.chan
        PROVE  i = j
    <3>1. v[n].req.op = "close" => channels[v[n].req.chan] # {}
      BY <1>1, <1>3
    <3>2. CASE i = n /\ j # n
      BY <2>1, <2>4, <3>1, <3>2
    <3>3. CASE i # n /\ j = n
      BY <2>1, <2>4, <3>1, <3>3
    <3>4. CASE i # n /\ j # n
      BY <2>1, <2>4, <3>4 DEF Rest, ClosesPending
    <3> QED  BY <3>2, <3>3, <3>4
  <2> QED  BY <1>2, <2>2, <2>3, <2>4 DEF ClosesPending, Closing
<1>15. ReplyIsFree'
  <2> SUFFICES ASSUME reply' # 0, Waiting(v[1])
               PROVE  /\ channels'[reply'] = {}
                      /\ reply' \in cardChannels
                      /\ \A i \in DOMAIN v : i # 1 /\ v[i].req.op = "close" => v[i].req.chan # reply'
    BY <1>2 DEF ReplyIsFree, Waiting
  <2>1. stack # << >> /\ reply' = reply /\ v[1] = stack[1]
    BY <1>1, <1>6
  <2>2. /\ channels[reply] = {} /\ reply \in cardChannels
        /\ \A i \in DOMAIN stack : i # 1 /\ stack[i].req.op = "close" => stack[i].req.chan # reply
    BY <2>1 DEF Rest, ReplyIsFree
  <2>3. reply \in LogicalChannels
    BY <2>1 DEF TypeOK, Channels, LogicalChannels
  <2>4. channels'[reply] = {}
    BY <1>4, <2>2, <2>3
  <2>5. ASSUME NEW i \in DOMAIN v, i # 1, v[i].req.op = "close" PROVE v[i].req.chan # reply
    <3>1. CASE i = n
      BY <1>1, <1>3, <2>2, <2>5, <3>1
    <3>2. CASE i # n
      BY <1>1, <2>2, <2>5, <3>2
    <3> QED  BY <3>1, <3>2
  <2> QED  BY <2>1, <2>2, <2>4, <2>5
<1>16. ChannelOwned'
  BY <1>4 DEF Rest, ChannelOwned
<1>17. OwnAnswer'
  BY <1>5 DEF Rest, OwnAnswer
<1> QED  BY <1>7, <1>8, <1>9, <1>10, <1>11, <1>12, <1>13, <1>14, <1>15, <1>16, <1>17 DEF Rest

\* The message is answered at once, or joins the stack at its end.
Joins(m) ==
  \/ \E r \in {"ok", "refused"} : result' = [result EXCEPT ![m] = r] /\ UNCHANGED stack
  \/ /\ result' = [result EXCEPT ![m] = "waiting"]
     /\ \E e \in EntryType : Waiting(e) /\ e.msg = m /\ stack' = Append(stack, e)

\* The command of an orderly request.
LEMMA CommandFacts ==
  ASSUME NEW m, NEW q, ~q.negative, NEW s
  PROVE  /\ CommandOf(m, q, s) # NoCommand
         /\ CommandOf(m, q, s).msg = m /\ CommandOf(m, q, s).req = q
         /\ CommandOf(m, q, s).watched /\ ~CommandOf(m, q, s).freed
<1> DEFINE c == CommandOf(m, q, s)
<1>1. c.msg = m /\ c.req = q /\ c.watched = ~q.negative /\ c.freed = FALSE
  BY DEF CommandOf
<1>2. "msg" \in DOMAIN c /\ "msg" \notin DOMAIN NoCommand
  BY DEF CommandOf, NoCommand
<1> HIDE DEF c
<1>3. c # NoCommand /\ c.msg = m /\ c.req = q /\ c.watched /\ ~c.freed
  BY <1>1, <1>2
<1> QED  BY <1>3 DEF c

LEMMA SubmitStep ==
  ASSUME TypeOK, StackAccounted, Rest, NEW s \in Sessions, NEW m \in Messages,
         NEW q \in Requests, OrderlyRequest(s, q), Submit(s, m, q)
  PROVE  Rest' /\ result[m] = "unsent" /\ Joins(m)
<1> DEFINE id == registry[s]
           table == Table(q, id, channels)
           res == [result EXCEPT ![m] = "waiting"]
<1>1. /\ id # 0 /\ id \in Nat /\ result[m] = "unsent" /\ UNCHANGED <<registry, cardChannels>>
      /\ q.op # "rawManage" /\ q.op # "noBuffer" /\ q.op # "capsNoBuffer" /\ ~q.negative
      /\ q.timed \in BOOLEAN
      /\ stack \in Seq(EntryType)
  BY RequestsAssumption DEF Submit, OrderlyRequest, TypeOK, RequestType
<1>2. panicked = "no"
  BY DEF Rest, ServerAlive
<1>3. CASE q.op = "status"
  <2>1. /\ result' = [result EXCEPT ![m] = "ok"]
        /\ UNCHANGED <<channels, stack, readerActive, status, command, reply, panicked>>
    BY <1>3 DEF Submit
  <2> QED  BY <1>1, <2>1, DismissStep DEF Joins
<1>4. ASSUME q.op # "status"
      PROVE  /\ ~Refused(q, id, channels) => id \in table[ChannelOf(q)]
             /\ Refused(q, id, channels) => table = channels
  <2>1. Refused(q, id, channels) => q.op # "close"
    BY DEF Refused, TransmitOps
  <2>2. table = Table(q, registry[s], channels)
    OBVIOUS
  <2> HIDE DEF table
  <2> QED  BY <1>1, <1>4, <2>1, <2>2, TableFacts
<1>5. CASE q.op # "status" /\ readerActive
  <2>1. /\ channels' = table
        /\ UNCHANGED <<readerActive, status, command, reply, panicked>>
        /\ IF Refused(q, id, channels) \/ id \notin table[ChannelOf(q)]
             THEN result' = [result EXCEPT ![m] = "refused"] /\ UNCHANGED stack
             ELSE /\ result' = res
                  /\ stack' = Append(stack, NewEntry(m, q, id, q.timed /\ q.op # "close"))
    BY <1>1, <1>5 DEF Submit, QueuedBusy
  <2>2. CASE Refused(q, id, channels)
    BY <1>1, <1>4, <1>5, <2>1, <2>2, DismissStep DEF Joins
  <2>3. CASE ~Refused(q, id, channels)
    <3> DEFINE e == NewEntry(m, q, id, q.timed /\ q.op # "close")
    <3>1. stack' = Append(stack, e) /\ result' = res
      BY <1>4, <1>5, <2>1, <2>3
    <3>2. /\ e \in EntryType /\ Waiting(e)
          /\ e.msg = m /\ e.req = q /\ e.sid = id /\ e.chan = ChannelOf(q)
      BY <1>1, NewEntryType DEF NewEntry, Waiting
    <3> HIDE DEF e
    <3>3. Joins(m)
      BY <3>1, <3>2 DEF Joins
    <3> QED  BY <1>1, <1>5, <2>1, <2>3, <3>1, <3>2, <3>3, JoinStep
  <2> QED  BY <2>2, <2>3
<1>6. CASE q.op # "status" /\ ~readerActive
  <2>1. Serve(m, q, s, id, stack, channels, res)
    BY <1>6 DEF Submit
  <2>2. /\ stack = << >> /\ command = NoCommand /\ reply = 0 /\ status = "idle"
        /\ readerActive = FALSE
    BY <1>6 DEF Rest, ReaderBusy, TypeOK
  <2>3. res[m] = "waiting"
    BY DEF TypeOK
  <2>4. CASE Refused(q, id, channels)
    <3>1. StaysIdle(stack, table, Completed(res, {m}, "refused"))
      BY <1>1, <2>1, <2>3, <2>4 DEF Serve, QueuedInVain
    <3>2. Completed(res, {m}, "refused") = [result EXCEPT ![m] = "refused"]
      BY DEF Completed, TypeOK
    <3>3. /\ result' = [result EXCEPT ![m] = "refused"]
          /\ UNCHANGED <<channels, stack, readerActive, status, command, reply, panicked>>
      BY <1>4, <1>6, <2>2, <2>4, <3>1, <3>2 DEF StaysIdle
    <3> QED  BY <1>1, <3>3, DismissStep DEF Joins
  <2>5. CASE ~Refused(q, id, channels)
    <3>1. Starts(m, q, id, s, stack, table, res)
      BY <1>1, <1>4, <1>6, <2>1, <2>3, <2>5 DEF Serve, QueuedInVain
    <3> DEFINE e == NewEntry(m, q, id, q.timed)
    <3>2. /\ e \in EntryType /\ Waiting(e)
          /\ e.msg = m /\ e.req = q /\ e.sid = id /\ e.chan = ChannelOf(q)
      BY <1>1, NewEntryType DEF NewEntry, Waiting
    <3>3. stack' = <<e>> \o stack /\ channels' = table /\ result' = res /\ UNCHANGED panicked
      BY <1>1, <3>1 DEF Starts
    <3>4. readerActive' /\ status' # "idle" /\ reply' = 0 /\ command' = CommandOf(m, q, s)
      BY <3>1 DEF Starts
    <3>5. /\ command' # NoCommand /\ command'.msg = m /\ command'.req = q
          /\ command'.watched /\ ~command'.freed
      BY <1>1, <3>4, CommandFacts
    <3> HIDE DEF e
    <3>6. stack' = Append(stack, e)
      BY <2>2, <3>3
    <3>7. Joins(m)
      BY <3>2, <3>3, <3>6 DEF Joins
    <3> QED  BY <1>1, <1>6, <2>2, <2>5, <3>2, <3>3, <3>4, <3>5, <3>6, <3>7, JoinStep
  <2> QED  BY <2>4, <2>5
<1> QED  BY <1>3, <1>5, <1>6
-----------------------------------------------------------------------------
(***************************************************************************)
(* RunL: the first message leaves, and the one behind it, if any, goes to  *)
(* the reader: its session serves it without refusing it.  The channels    *)
(* and the results after the first message has been completed:             *)
(***************************************************************************)
ChannelsThen == IF Waiting(stack[1]) THEN WithOpened(stack[1]) ELSE channels
ResultsThen ==
  IF Waiting(stack[1]) THEN Completed(result, {stack[1].msg}, Answer(stack[1])) ELSE result

LEMMA CompletedTop ==
  ASSUME TypeOK, StackAccounted, Rest, RunL
  PROVE  /\ stack # << >>
         /\ UNCHANGED <<registry, cardChannels>>
         /\ HandleNext(Tail(stack), ChannelsThen, ResultsThen, registry)
<1>1. stack # << >> /\ 1 \in DOMAIN stack /\ Head(stack) = stack[1]
  <2>1. stack # << >>
    BY DEF RunL, Rest, ReaderBusy
  <2>2. stack \in Seq(EntryType)
    BY DEF TypeOK
  <2> QED  BY <2>1, <2>2
<1>2. Waiting(stack[1]) => Attached(registry, stack[1].sid)
  BY <1>1 DEF Rest, OnItsChannel
<1>3. command.watched
  BY <1>1 DEF Rest, ReaderBusy
<1>4. Waiting(stack[1]) => ~CompletesAgain({stack[1].msg}, Answer(stack[1]))
  BY <1>1 DEF StackAccounted, Accounted, CompletesAgain, Again
<1> QED  BY <1>1, <1>2, <1>3, <1>4 DEF RunL, Waiting, ChannelsThen, ResultsThen

\* The state the next message is handled from.
LEMMA AfterTop ==
  ASSUME TypeOK, StackAccounted, Rest, stack # << >>
  PROVE  /\ ChannelsThen \in [Channels -> SUBSET Nat]
         /\ \A c \in Channels : channels[c] \subseteq ChannelsThen[c]
         /\ \A c \in LogicalChannels : /\ \A x, y \in ChannelsThen[c] : x = y
                                       /\ ChannelsThen[c] # {} => c \in cardChannels
         /\ \A i \in DOMAIN stack :
              i # 1 /\ stack[i].req.op = "close" => ChannelsThen[stack[i].req.chan] = {}
         /\ \A i \in DOMAIN stack :
              i # 1 /\ stack[i].req.op = "open" => \E c \in LogicalChannels : ChannelsThen[c] = {}
         /\ \A m \in Messages : ResultsThen[m] # "wrong"
         /\ \A m \in Messages : m # stack[1].msg => ResultsThen[m] = result[m]
         /\ ResultsThen[stack[1].msg] # "waiting"
<1> DEFINE ch == ChannelsThen
           res == ResultsThen
<1>1. \/ ~Waiting(stack[1]) /\ ch = channels /\ res = result
      \/ /\ Waiting(stack[1]) /\ ch = WithOpened(stack[1])
         /\ res = Completed(result, {stack[1].msg}, Answer(stack[1]))
  BY DEF ChannelsThen, ResultsThen
<1> HIDE DEF ch, res
<1> DEFINE e == stack[1]
<1>2. 1 \in DOMAIN stack /\ e \in EntryType /\ e.msg \in Messages /\ e.sid \in Nat
  BY StackFacts
<1>3. result \in [Messages -> ResultType] /\ channels \in [Channels -> SUBSET Nat]
  BY DEF TypeOK
<1>4. Waiting(e) <=> result[e.msg] = "waiting"
  BY <1>2 DEF StackAccounted, Accounted
<1>5. \A i \in DOMAIN stack :
        i # 1 /\ stack[i].req.op = "close" =>
          channels[stack[i].req.chan] = {} /\ stack[i].req.chan \in LogicalChannels
  BY DEF Rest, ClosesPending, Closing, OnItsChannel, WellFormed
<1>6. \A i \in DOMAIN stack : i # 1 => Waiting(stack[i])
  BY DEF Rest, RestWaits
<1>7. \A i \in DOMAIN stack :
        i # 1 /\ stack[i].req.op = "open" => /\ ~(Waiting(e) /\ e.req.op = "open")
                                             /\ \E c \in LogicalChannels : channels[c] = {}
  BY <1>2, <1>6 DEF Rest, RoomToOpen
<1>8. command.msg = e.msg
  BY DEF Rest, ReaderBusy
<1>9. Answer(e) \in {"ok", "error"}
  BY <1>8 DEF Answer
<1>10. /\ \A m \in Messages : res[m] # "wrong"
       /\ \A m \in Messages : m # e.msg => res[m] = result[m]
       /\ res[e.msg] # "waiting"
  <2>1. CASE res = result /\ ~Waiting(e)
    BY <1>2, <1>4, <2>1 DEF Rest, OwnAnswer
  <2>2. CASE res = Completed(result, {e.msg}, Answer(e))
    <3>1. \A m \in Messages : res[m] = IF m = e.msg THEN Answer(e) ELSE result[m]
      BY <2>2 DEF Completed
    <3> QED  BY <1>2, <1>9, <3>1 DEF Rest, OwnAnswer
  <2> QED  BY <1>1, <2>1, <2>2
<1>11. CASE ch = channels
  <2>1. \A c \in LogicalChannels : /\ \A x, y \in ch[c] : x = y
                                   /\ ch[c] # {} => c \in cardChannels
    BY <1>11 DEF Rest, ChannelOwned
  <2>2. \A i \in DOMAIN stack :
          i # 1 /\ stack[i].req.op = "close" => ch[stack[i].req.chan] = {}
    BY <1>5, <1>11
  <2>3. \A i \in DOMAIN stack :
          i # 1 /\ stack[i].req.op = "open" => \E c \in LogicalChannels : ch[c] = {}
    BY <1>7, <1>11
  <2> QED  BY <1>3, <1>10, <1>11, <2>1, <2>2, <2>3 DEF ch, res
<1>12. CASE ch # channels
  <2>1. /\ Waiting(e) /\ e.req.op = "open" /\ reply # 0
        /\ ch = [channels EXCEPT ![reply] = @ \cup {e.sid}]
    BY <1>1, <1>12 DEF WithOpened
  <2>2. reply \in LogicalChannels /\ reply \in Channels
    BY <2>1 DEF TypeOK, Channels, LogicalChannels
  <2>3. /\ channels[reply] = {} /\ reply \in cardChannels
        /\ \A i \in DOMAIN stack : i # 1 /\ stack[i].req.op = "close" => stack[i].req.chan # reply
    BY <2>1 DEF Rest, ReplyIsFree
  <2>4. /\ ch \in [Channels -> SUBSET Nat]
        /\ \A c \in Channels : ch[c] = IF c = reply THEN {e.sid} ELSE channels[c]
    BY <1>2, <1>3, <2>1, <2>2, <2>3
  <2>5. \A c \in LogicalChannels : c \in Channels
    BY DEF Channels, LogicalChannels
  <2>6. \A c \in LogicalChannels : /\ \A x, y \in ch[c] : x = y
                                   /\ ch[c] # {} => c \in cardChannels
    BY <2>3, <2>4, <2>5 DEF Rest, ChannelOwned
  <2>7. \A i \in DOMAIN stack :
          i # 1 /\ stack[i].req.op = "close" => ch[stack[i].req.chan] = {}
    BY <1>5, <2>3, <2>4, <2>5
  <2>8. \A c \in Channels : channels[c] \subseteq ch[c]
    BY <2>3, <2>4
  <2>9. \A i \in DOMAIN stack : ~(i # 1 /\ stack[i].req.op = "open")
    BY <1>7, <2>1
  <2> QED  BY <1>10, <2>4, <2>6, <2>7, <2>8, <2>9 DEF ch, res
<1> QED  BY <1>11, <1>12 DEF ch, res

\* The first entry is replaced, the others stay.
Replaced(u, n) == <<n>> \o Tail(u)

LEMMA ReplacedHead ==
  ASSUME NEW u \in Seq(EntryType), u # << >>, NEW n \in EntryType
  PROVE  /\ DOMAIN Replaced(u, n) = DOMAIN u
         /\ Replaced(u, n)[1] = n
         /\ \A i \in DOMAIN u : i # 1 => Replaced(u, n)[i] = u[i]
<1> DEFINE t == Tail(u)
           w == Replaced(u, n)
<1>1. /\ t \in Seq(EntryType) /\ Len(t) = Len(u) - 1 /\ Len(u) \in Nat /\ DOMAIN u = 1 .. Len(u)
      /\ \A i \in 1 .. Len(t) : t[i] = u[i + 1]
      /\ w = <<n>> \o t
  BY DEF Replaced
<1> HIDE DEF t, w
<1>2. /\ DOMAIN w = 1 .. Len(t) + 1 /\ w[1] = n
      /\ \A i \in 2 .. Len(t) + 1 : w[i] = t[i - 1]
  BY <1>1
<1>3. \A i \in DOMAIN u : i # 1 => i \in 2 .. Len(t) + 1 /\ i - 1 \in 1 .. Len(t) /\ (i - 1) + 1 = i
  BY <1>1
<1>4. \A i \in DOMAIN u : i # 1 => w[i] = u[i]
  BY <1>1, <1>2, <1>3
<1>5. DOMAIN w = DOMAIN u
  BY <1>1, <1>2
<1> QED  BY <1>2, <1>4, <1>5 DEF w

\* The first message leaves with its result, the others move up.
MovesUp ==
  /\ stack # << >> /\ result' = ResultsThen
  /\ DOMAIN stack' = DOMAIN Tail(stack)
  /\ \A i \in DOMAIN Tail(stack) :
       stack'[i].msg = Tail(stack)[i].msg /\ Waiting(stack'[i])

LEMMA RunLStep == ASSUME TypeOK, StackAccounted, Rest, RunL PROVE Rest' /\ MovesUp
<1> DEFINE ch == ChannelsThen
           res == ResultsThen
<1>1. stack # << >> /\ UNCHANGED <<registry, cardChannels>> /\ panicked = "no"
  BY CompletedTop DEF Rest, ServerAlive
<1>2. /\ ch \in [Channels -> SUBSET Nat]
      /\ \A c \in Channels : channels[c] \subseteq ch[c]
      /\ \A c \in LogicalChannels : /\ \A x, y \in ch[c] : x = y
                                    /\ ch[c] # {} => c \in cardChannels
      /\ \A i \in DOMAIN stack :
           i # 1 /\ stack[i].req.op = "close" => ch[stack[i].req.chan] = {}
      /\ \A i \in DOMAIN stack :
           i # 1 /\ stack[i].req.op = "open" => \E c \in LogicalChannels : ch[c] = {}
      /\ \A m \in Messages : res[m] # "wrong"
      /\ \A m \in Messages : m # stack[1].msg => res[m] = result[m]
      /\ res[stack[1].msg] # "waiting"
  BY <1>1, AfterTop
<1> DEFINE u == Tail(stack)
<1>3. /\ u \in Seq(EntryType)
      /\ \A i \in DOMAIN u : /\ i \in Nat /\ i + 1 \in DOMAIN stack /\ i + 1 # 1
                             /\ u[i] = stack[i + 1] /\ u[i] \in EntryType
      /\ \A i \in DOMAIN stack : i \in Nat /\ (i # 1 => i - 1 \in DOMAIN u)
      /\ u # << >> => 1 \in DOMAIN u /\ Head(u) = u[1]
  <2>1. stack \in Seq(EntryType)
    BY DEF TypeOK
  <2> QED  BY <1>1, <2>1
<1>4. HandleNext(u, ch, res, registry)
  BY CompletedTop
<1> HIDE DEF u, ch, res
\* What the entries that stay have, seen from the new channels and results.
<1>5. ASSUME NEW i \in DOMAIN u
      PROVE  /\ Waiting(u[i]) /\ u[i].msg \in Messages /\ u[i].req \in Requests
             /\ WellFormed(u[i].req) /\ u[i].chan = ChannelOf(u[i].req)
             /\ u[i].chan \in Channels /\ u[i].sid \in Nat
             /\ u[i].sid \in ch[u[i].chan] /\ Attached(registry, u[i].sid)
             /\ u[i].req.op = "close" => /\ ch[u[i].req.chan] = {}
                                         /\ u[i].req.chan \in cardChannels
             /\ u[i].req.op = "open" => \E c \in LogicalChannels : ch[c] = {}
             /\ res[u[i].msg] = "waiting"
  <2>1. i + 1 \in DOMAIN stack /\ i + 1 # 1 /\ u[i] = stack[i + 1] /\ 1 \in DOMAIN stack
    BY <1>1, <1>3, StackFacts
  <2>2. Waiting(u[i])
    BY <2>1 DEF Rest, RestWaits
  <2>3. /\ u[i].msg \in Messages /\ u[i].req \in Requests
        /\ u[i].chan \in Channels /\ u[i].sid \in Nat
    BY <2>1, StackFacts
  <2>4. /\ WellFormed(u[i].req) /\ u[i].chan = ChannelOf(u[i].req)
        /\ u[i].sid \in channels[u[i].chan] /\ Attached(registry, u[i].sid)
    BY <2>1, <2>2 DEF Rest, OnItsChannel
  <2>5. u[i].req.op = "close" => u[i].req.chan \in cardChannels
    BY <2>1 DEF Rest, ClosesPending, Closing
  <2>6. u[i].msg # stack[1].msg /\ result[u[i].msg] = "waiting"
    BY <2>1, <2>2 DEF StackAccounted, Accounted
  <2> QED  BY <1>2, <2>1, <2>2, <2>3, <2>4, <2>5, <2>6
<1>6. ASSUME NEW i \in DOMAIN u, NEW j \in DOMAIN u
      PROVE  /\ u[i].req.op = "open" /\ u[j].req.op = "open" => i = j
             /\ u[i].req.op = "close" /\ u[j].req.op = "close" /\ u[i].req.chan = u[j].req.chan
                => i = j
  <2>1. /\ i + 1 \in DOMAIN stack /\ i + 1 # 1 /\ u[i] = stack[i + 1]
        /\ j + 1 \in DOMAIN stack /\ j + 1 # 1 /\ u[j] = stack[j + 1]
        /\ i \in Nat /\ j \in Nat
    BY <1>3
  <2>2. Waiting(u[i]) /\ Waiting(u[j])
    BY <1>5
  <2>3. u[i].req.op = "open" /\ u[j].req.op = "open" => i + 1 = j + 1
    BY <2>1, <2>2 DEF Rest, RoomToOpen
  <2>4. u[i].req.op = "close" /\ u[j].req.op = "close" /\ u[i].req.chan = u[j].req.chan
        => i + 1 = j + 1
    BY <2>1 DEF Rest, ClosesPending, Closing
  <2> QED  BY <2>1, <2>3, <2>4
<1>7. ASSUME NEW m \in Messages, res[m] = "waiting"
      PROVE  \E i \in DOMAIN u : u[i].msg = m
  <2>1. m # stack[1].msg /\ result[m] = "waiting"
    BY <1>2, <1>7
  <2>2. PICK i \in DOMAIN stack : stack[i].msg = m
    BY <2>1 DEF Rest, NoneForgotten
  <2>3. i - 1 \in DOMAIN u /\ i \in Nat /\ i # 1
    BY <1>3, <2>1, <2>2
  <2>4. u[i - 1] = stack[i]
    BY <1>3, <2>3
  <2> QED  BY <2>2, <2>3, <2>4
\* The parts that do not depend on which message is next.
<1>8. ASSUME channels' = ch, result' = res, panicked' = panicked PROVE
        /\ ServerAlive' /\ OnBasicChannel' /\ ChannelOwned' /\ OwnAnswer'
  <2>1. 0 \in Channels
    BY DEF Channels
  <2> QED  BY <1>1, <1>2, <1>8, <2>1
           DEF Rest, ServerAlive, OnBasicChannel, ChannelOwned, OwnAnswer
<1>9. CASE u = << >>
  <2>1. StaysIdle(u, ch, res)
    BY <1>4, <1>9 DEF HandleNext
  <2>2. /\ stack' = << >> /\ DOMAIN stack' = {} /\ channels' = ch /\ result' = res
        /\ readerActive' = FALSE /\ status' = "idle" /\ command' = NoCommand /\ reply' = 0
        /\ panicked' = panicked
    BY <1>9, <2>1 DEF StaysIdle
  <2>3. NoneForgotten'
    BY <1>7, <1>9, <2>2 DEF NoneForgotten
  <2>4. ReaderBusy' /\ RestWaits' /\ OnItsChannel' /\ RoomToOpen' /\ ClosesPending' /\ ReplyIsFree'
    BY <2>2 DEF ReaderBusy, RestWaits, OnItsChannel, RoomToOpen, ClosesPending, ReplyIsFree
  <2>5. MovesUp
    BY <1>1, <1>9, <2>2 DEF MovesUp, u, res
  <2> QED  BY <1>8, <2>2, <2>3, <2>4, <2>5 DEF Rest
<1>10. CASE u # << >>
  <2> DEFINE e == u[1]
             q == u[1].req
             n == NewEntry(e.msg, q, e.sid, q.timed)
  <2>1. 1 \in DOMAIN u /\ Head(u) = u[1]
    BY <1>3, <1>10
  <2>2. PICK s \in Sessions : Serve(e.msg, q, s, e.sid, Tail(u), ch, res)
    BY <1>4, <1>5, <1>10, <2>1 DEF HandleNext
  <2>3. Table(q, e.sid, ch) = ch
    <3>1. q.op = "close" => ch[q.chan] = {} /\ q.chan \in Channels
      BY <1>5, <2>1 DEF WellFormed, Channels, LogicalChannels
    <3> QED  BY <1>2, <3>1 DEF Table
  <2>4. /\ ~Refused(q, e.sid, ch) /\ ~q.negative
        /\ q.op \notin {"rawManage", "noBuffer", "capsNoBuffer", "status"}
    BY <1>5, <2>1 DEF Refused, NoRoom, ChannelOf, WellFormed, TransmitOps
  <2>5. Starts(e.msg, q, e.sid, s, Tail(u), ch, res)
    BY <1>5, <2>1, <2>2, <2>3, <2>4 DEF Serve, QueuedInVain
  <2>6. /\ stack' = <<n>> \o Tail(u) /\ channels' = ch /\ result' = res
        /\ readerActive' = TRUE /\ status' # "idle" /\ reply' = 0 /\ panicked' = panicked
        /\ command' = CommandOf(e.msg, q, s)
    BY <2>4, <2>5 DEF Starts
  <2>7. n \in EntryType
    <3>1. q.timed \in BOOLEAN /\ e.msg \in Messages /\ q \in Requests /\ e.sid \in Nat
      BY <1>5, <2>1, RequestsAssumption DEF RequestType
    <3> QED  BY <3>1, NewEntryType
  <2>8. n.msg = e.msg /\ n.req = e.req /\ n.sid = e.sid /\ n.chan = e.chan /\ Waiting(n)
    BY <1>5, <2>1 DEF NewEntry, Waiting
  <2> HIDE DEF n
  <2>9. /\ DOMAIN stack' = DOMAIN u
        /\ stack'[1] = n
        /\ \A i \in DOMAIN u : i # 1 => stack'[i] = u[i]
    <3>1. stack' = Replaced(u, n)
      BY <2>6 DEF Replaced
    <3> QED  BY <1>3, <1>10, <2>7, <3>1, ReplacedHead
  <2>10. \A i \in DOMAIN u :
          /\ stack'[i].msg = u[i].msg /\ stack'[i].req = u[i].req
          /\ stack'[i].sid = u[i].sid /\ stack'[i].chan = u[i].chan
          /\ Waiting(stack'[i])
    BY <1>5, <2>8, <2>9
  <2>11. ReaderBusy'
    <3>1. /\ command' # NoCommand /\ command'.msg = e.msg /\ command'.req = q
          /\ command'.watched /\ ~command'.freed
      BY <2>4, <2>6, CommandFacts
    <3>2. stack' # << >>
      BY <2>1, <2>9
    <3>3. command'.msg = stack'[1].msg /\ command'.req = stack'[1].req /\ ~command'.freed
      BY <2>8, <2>9, <3>1
    <3> QED  BY <2>6, <3>1, <3>2, <3>3 DEF ReaderBusy
  <2>12. RestWaits'
    BY <2>9, <2>10 DEF RestWaits, Waiting
  <2>13. NoneForgotten'
    <3> SUFFICES ASSUME NEW m \in Messages, res[m] = "waiting"
                 PROVE  \E i \in DOMAIN u : stack'[i].msg = m /\ Waiting(stack'[i])
      BY <2>6, <2>9 DEF NoneForgotten, Waiting
    <3> QED  BY <1>7, <2>10
  <2>14. OnItsChannel'
    <3> SUFFICES ASSUME NEW i \in DOMAIN u
                 PROVE  /\ WellFormed(stack'[i].req)
                        /\ stack'[i].chan = ChannelOf(stack'[i].req)
                        /\ stack'[i].sid \in channels'[stack'[i].chan]
                        /\ Waiting(stack'[i]) => Attached(registry', stack'[i].sid)
      BY <2>9 DEF OnItsChannel, Waiting, WellFormed, ChannelOf, Attached
    <3>1. Attached(registry, u[i].sid) => Attached(registry', u[i].sid)
      BY <1>1 DEF Attached
    <3>2. /\ stack'[i].req = u[i].req /\ stack'[i].sid = u[i].sid
          /\ stack'[i].chan = u[i].chan
      BY <2>10
    <3>3. channels' = ch
      BY <2>6
    <3>4. /\ WellFormed(u[i].req) /\ u[i].chan = ChannelOf(u[i].req)
          /\ u[i].sid \in ch[u[i].chan] /\ Attached(registry, u[i].sid)
      BY <1>5
    <3> QED  BY <3>1, <3>2, <3>3, <3>4
  <2>15. RoomToOpen'
    <3>1. \A i \in DOMAIN u :
            stack'[i].req.op = "open" => \E c \in LogicalChannels : channels'[c] = {}
      <4>1. channels' = ch /\ \A i \in DOMAIN u : stack'[i].req = u[i].req
        BY <2>6, <2>10
      <4>2. \A i \in DOMAIN u : u[i].req.op = "open" => \E c \in LogicalChannels : ch[c] = {}
        BY <1>5
      <4> QED  BY <4>1, <4>2
    <3>2. \A i, j \in DOMAIN u :
            stack'[i].req.op = "open" /\ stack'[j].req.op = "open" => i = j
      BY <1>6, <2>10
    <3> QED  BY <2>9, <3>1, <3>2 DEF RoomToOpen
  <2>16. ClosesPending'
    <3>1. \A i \in DOMAIN u :
            stack'[i].req.op = "close" => /\ channels'[stack'[i].req.chan] = {}
                                          /\ stack'[i].req.chan \in cardChannels'
      BY <1>1, <1>5, <2>6, <2>10
    <3>2. \A i, j \in DOMAIN u :
            /\ stack'[i].req.op = "close" /\ stack'[j].req.op = "close"
            /\ stack'[i].req.chan = stack'[j].req.chan
            => i = j
      BY <1>6, <2>10
    <3> QED  BY <2>9, <3>1, <3>2 DEF ClosesPending, Closing
  <2>17. ReplyIsFree'
    BY <2>6 DEF ReplyIsFree
  <2>18. MovesUp
    <3> HIDE DEF e, q
    <3> QED  BY <1>1, <2>6, <2>9, <2>10 DEF MovesUp, u, res
  <2> QED  BY <1>8, <2>6, <2>11, <2>12, <2>13, <2>14, <2>15, <2>16, <2>17, <2>18 DEF Rest
<1> QED  BY <1>9, <1>10
-----------------------------------------------------------------------------
LEMMA OrderlyIsLegal == ASSUME [OrderlyNext]_vars PROVE [Next]_vars /\ [BufferedNext]_vars
BY DEF OrderlyNext, OrderlyRequest, Buffered, BufferedNext, Next

LEMMA InductiveInit == Init => Inductive
<1> SUFFICES ASSUME Init PROVE Inductive
  OBVIOUS
<1>1. DOMAIN stack = {} /\ stack = << >>
  BY DEF Init
<1>2. TypeOK /\ StackAccounted
  BY DEF Init, TypeOK, Channels, CommandType, LogicalChannels, ResultType, PanicType,
         StackAccounted, Accounted
<1>3. ServerAlive /\ ReaderBusy /\ RestWaits /\ NoneForgotten /\ OwnAnswer
  BY <1>1 DEF Init, ServerAlive, ReaderBusy, RestWaits, NoneForgotten, OwnAnswer
<1>4. OnItsChannel /\ OnBasicChannel /\ RoomToOpen /\ ClosesPending /\ ReplyIsFree /\ ChannelOwned
  BY <1>1 DEF Init, OnItsChannel, OnBasicChannel, RoomToOpen, ClosesPending, ReplyIsFree,
              ChannelOwned, Channels, LogicalChannels
<1> QED  BY <1>2, <1>3, <1>4 DEF Inductive

LEMMA InductiveStep == ASSUME Inductive, [OrderlyNext]_vars PROVE Inductive'
<1>1. TypeOK /\ StackAccounted /\ Rest
  BY InductiveParts
<1>2. TypeOK' /\ StackAccounted'
  BY <1>1, OrderlyIsLegal, TypingStep, AccountedStep
<1> SUFFICES Rest'
  BY <1>2 DEF Inductive, Rest
<1>3. CASE UNCHANGED vars
  <2>1. UNCHANGED <<registry, channels, stack, readerActive, status, command, reply,
                    cardChannels, result, panicked>>
    BY <1>3 DEF vars
  <2>2. ServerAlive' /\ ReaderBusy' /\ RestWaits' /\ NoneForgotten' /\ OwnAnswer'
    BY <1>1, <2>1 DEF Rest, ServerAlive, ReaderBusy, RestWaits, NoneForgotten, OwnAnswer, Waiting
  <2>3. OnItsChannel' /\ OnBasicChannel' /\ RoomToOpen'
    BY <1>1, <2>1 DEF Rest, OnItsChannel, OnBasicChannel, RoomToOpen, WellFormed, ChannelOf,
                      Attached, Waiting
  <2>4. ClosesPending' /\ ReplyIsFree' /\ ChannelOwned'
    BY <1>1, <2>1 DEF Rest, ClosesPending, Closing, ReplyIsFree, ChannelOwned, Waiting
  <2> QED  BY <2>2, <2>3, <2>4 DEF Rest
<1>4. CASE ReaderAnswers
  BY <1>1, <1>4, ReaderAnswersStep
<1>5. CASE RunL
  BY <1>1, <1>5, RunLStep
<1>6. ASSUME NEW m \in Messages, TimeOut(m) PROVE Rest'
  BY <1>1, <1>6, TimeOutStep
<1>7. CASE OrderlyRemoval /\ CardRemoved
  BY <1>1, <1>7, CardRemovedStep
<1>8. ASSUME NEW s \in Sessions,
             \/ Connect(s) \/ CancelTransmit(s) \/ Disconnect(s)
             \/ OrderlyClose(s) /\ CloseSession(s)
      PROVE  Rest'
  BY <1>1, <1>8, ConnectStep, CancelTransmitStep, DetachStep, CloseSessionStep DEF Disconnect
<1>9. ASSUME NEW s \in Sessions, NEW m \in Messages, NEW q \in Requests,
             OrderlyRequest(s, q), Submit(s, m, q)
      PROVE  Rest'
  BY <1>1, <1>9, SubmitStep
<1> QED  BY <1>3, <1>4, <1>5, <1>6, <1>7, <1>8, <1>9 DEF OrderlyNext, ServerStep

(***************************************************************************)
(* With orderly clients every state has all the parts of Inductive: among  *)
(* them OwnAnswer (a client gets the answer to its own message) and        *)
(* ChannelOwned (the channel table never runs ahead of the card).          *)
(***************************************************************************)
THEOREM OrderlyInductive == OrderlySpec => []Inductive
BY InductiveInit, InductiveStep, PTL DEF OrderlySpec

\* No handler panics: RunL finds its entry and the session of it, the push in
\* InitiateCommunication succeeds, and no buffer of a command is gone too early.
THEOREM AliveForever == OrderlySpec => []ServerAlive
<1>1. Inductive => ServerAlive
  BY DEF Inductive
<1> QED  BY <1>1, OrderlyInductive, PTL

\* There is no lost wake-up: while a message waits the reader is at work.
THEOREM NeverStalls == OrderlySpec => []NoStall
<1>1. Inductive => NoStall
  BY DEF Inductive, ReaderBusy, NoStall
<1> QED  BY <1>1, OrderlyInductive, PTL

\* The cancel operations and RunL may take entry 1 for the message at the reader.
THEOREM ReaderHasFirst == OrderlySpec => []FirstIsAtReader
<1>1. Inductive => FirstIsAtReader
  <2> SUFFICES ASSUME Inductive PROVE FirstIsAtReader
    OBVIOUS
  <2>1. ReaderBusy /\ TypeOK
    BY DEF Inductive
  <2>2. stack # << >> => Head(stack) = stack[1]
    BY <2>1 DEF TypeOK
  <2> QED  BY <2>1, <2>2 DEF ReaderBusy, FirstIsAtReader
<1> QED  BY <1>1, OrderlyInductive, PTL

\* A message that a client waits for has exactly one entry, until it is completed.
THEOREM NothingLost == OrderlySpec => []NoMessageLost
<1>1. Inductive => NoMessageLost
  <2> SUFFICES ASSUME Inductive PROVE NoMessageLost
    OBVIOUS
  <2>1. TypeOK /\ StackAccounted /\ RestWaits /\ NoneForgotten
    BY DEF Inductive
  <2>2. \A m \in Messages :
          result[m] = "waiting" <=> \E i \in DOMAIN stack : stack[i].msg = m /\ Waiting(stack[i])
    BY <2>1 DEF StackAccounted, Accounted, NoneForgotten
  <2>3. ASSUME NEW i \in DOMAIN stack, NEW j \in DOMAIN stack, stack[i].msg = stack[j].msg
        PROVE  i = j
    <3>1. CASE Waiting(stack[i])
      BY <2>1, <2>3, <3>1 DEF StackAccounted, Accounted
    <3>2. CASE Waiting(stack[j])
      BY <2>1, <2>3, <3>2 DEF StackAccounted, Accounted
    <3>3. CASE ~Waiting(stack[i]) /\ ~Waiting(stack[j])
      BY <2>1, <3>3 DEF RestWaits
    <3> QED  BY <3>1, <3>2, <3>3
  <2> QED  BY <2>2, <2>3 DEF NoMessageLost
<1> QED  BY <1>1, OrderlyInductive, PTL

\* No client gets the answer to another's command: the entry at the top, whose
\* message RunL completes, is that of the command the reader has answered.
THEOREM AnswersAreOwn == OrderlySpec => []OwnAnswer
<1>1. Inductive => OwnAnswer
  BY DEF Inductive
<1> QED  BY <1>1, OrderlyInductive, PTL

\* No two sessions share a logical channel, and none is in the table that the
\* card has not open, although closes and opens reach the card later.
THEOREM ChannelsAreOwned == OrderlySpec => []ChannelOwned
<1>1. Inductive => ChannelOwned
  BY DEF Inductive
<1> QED  BY <1>1, OrderlyInductive, PTL
-----------------------------------------------------------------------------
(***************************************************************************)
(* The server implements CommandLine.  By RestWaits the line of a stack is *)
(* the stack without its first entry, or all of it: its k-th message is    *)
(* that of entry k + Skip.                                                 *)
(***************************************************************************)
LineOf(st) ==
  LET kept == Keep(st, {i \in DOMAIN st : Waiting(st[i])})
  IN  [k \in DOMAIN kept |-> kept[k].msg]

Skip(st) == IF st # << >> /\ ~Waiting(st[1]) THEN 1 ELSE 0

LEMMA LineShape ==
  ASSUME NEW st \in Seq(EntryType), \A i \in DOMAIN st : i # 1 => Waiting(st[i])
  PROVE  /\ Len(st) - Skip(st) \in Nat
         /\ LineOf(st) = [k \in 1 .. Len(st) - Skip(st) |-> st[k + Skip(st)].msg]
<1> DEFINE d == Skip(st)
           n == Len(st) - d
           K == {i \in DOMAIN st : Waiting(st[i])}
           g == [k \in 1 .. n |-> k + d]
<1>1. /\ DOMAIN st = 1 .. Len(st) /\ Len(st) \in Nat
      /\ st # << >> => 1 \in DOMAIN st
      /\ d \in {0, 1} /\ n \in Nat
      /\ d = 1 => 1 \in DOMAIN st /\ ~Waiting(st[1])
      /\ d = 0 /\ 1 \in DOMAIN st => Waiting(st[1])
  BY DEF Skip
<1> HIDE DEF d
<1>2. K \in SUBSET (1 .. Len(st))
  BY <1>1
<1>3. \A k \in 1 .. n : k \in Nat /\ k + d \in DOMAIN st /\ (k + d = 1 => d = 0)
  BY <1>1
<1>4. g \in [1 .. n -> K]
  <2>1. \A k \in 1 .. n : k + d \in K
    BY <1>1, <1>3
  <2> QED  BY <2>1
<1>5. \A i, j \in 1 .. n : i < j => g[i] < g[j]
  BY <1>1, <1>3
<1>6. ASSUME NEW x \in K PROVE \E i \in 1 .. n : g[i] = x
  <2>1. x \in 1 .. Len(st) /\ (x = 1 => d = 0)
    BY <1>1
  <2>2. x - d \in 1 .. n /\ (x - d) + d = x
    BY <1>1, <2>1
  <2> QED  BY <2>2
<1>7. Keep(st, K) = [k \in 1 .. n |-> st[g[k]]]
  <2> HIDE DEF K, n, g
  <2>1. Len(st) \in Nat /\ n \in Nat
    BY <1>1
  <2>2. Enumerates(g, n, K)
    BY <1>2, <1>4, <1>5, <1>6, <2>1 DEF Enumerates
  <2> QED  BY <2>2, KeepFollows
<1>8. LineOf(st) = [k \in 1 .. n |-> Keep(st, K)[k].msg]
  <2>1. DOMAIN Keep(st, K) = 1 .. n
    BY <1>7
  <2> QED  BY <2>1 DEF LineOf
<1>9. \A k \in 1 .. n : Keep(st, K)[k] = st[k + d]
  BY <1>7
<1>10. LineOf(st) = [k \in 1 .. n |-> st[k + d].msg]
  <2> HIDE DEF n, K
  <2> QED  BY <1>8, <1>9
<1> QED  BY <1>1, <1>10 DEF d

\* Cancelling entries takes their messages out of the line, and no others.
LEMMA CancelledLine ==
  ASSUME NEW st \in Seq(EntryType), \A i \in DOMAIN st : i # 1 => Waiting(st[i]),
         NEW hits \in SUBSET DOMAIN st
  PROVE  \E K \in SUBSET DOMAIN LineOf(st) :
           /\ CompletedByCancel(st, hits) = {LineOf(st)[k] : k \in K}
           /\ LineOf(AfterCancel(st, hits)) = Keep(LineOf(st), DOMAIN LineOf(st) \ K)
<1> DEFINE t == AfterCancel(st, hits)
           f == Origin(st, hits)
           d == Skip(st)
           e == Skip(t)
           N == Len(st) - d
           n == Len(t) - e
           l == LineOf(st)
           K == {k \in 1 .. N : k + d \in hits}
           g == [k \in 1 .. n |-> f[k + e] - d]
<1>1. /\ t \in Seq(EntryType) /\ (t = << >> <=> st = << >>)
      /\ st # << >> => t[1] = IF 1 \in hits THEN Marked(st[1]) ELSE st[1]
      /\ f \in [DOMAIN t -> DOMAIN st]
      /\ st # << >> => f[1] = 1
      /\ \A j \in DOMAIN t : j # 1 => f[j] # 1 /\ f[j] \notin hits /\ t[j] = st[f[j]]
      /\ \A j, k \in DOMAIN t : j < k => f[j] < f[k]
      /\ \A i \in DOMAIN st : i = 1 \/ i \notin hits => \E j \in DOMAIN t : f[j] = i
  <2>1. t = AfterCancel(st, hits) /\ f = Origin(st, hits)
    OBVIOUS
  <2> HIDE DEF t, f
  <2> QED  BY <2>1, MarkedType, AfterCancelFacts
<1> HIDE DEF t, f
<1>2. \A j \in DOMAIN t : j # 1 => Waiting(t[j])
  BY <1>1
<1>3. /\ DOMAIN st = 1 .. Len(st) /\ Len(st) \in Nat
      /\ DOMAIN t = 1 .. Len(t) /\ Len(t) \in Nat
      /\ st # << >> <=> 1 \in DOMAIN st
      /\ t # << >> <=> 1 \in DOMAIN t
  BY <1>1
<1>4. /\ d \in {0, 1} /\ e \in {0, 1}
      /\ d = 1 <=> 1 \in DOMAIN st /\ ~Waiting(st[1])
      /\ e = 1 <=> 1 \in DOMAIN t /\ ~Waiting(t[1])
  BY <1>3 DEF Skip
<1>5. /\ N \in Nat /\ l = [k \in 1 .. N |-> st[k + d].msg] /\ DOMAIN l = 1 .. N
      /\ n \in Nat /\ LineOf(t) = [k \in 1 .. n |-> t[k + e].msg]
  BY <1>1, <1>2, LineShape
<1> HIDE DEF d, e
<1>6. 1 \in DOMAIN st =>
        (e = 0 <=> d = 0 /\ 1 \notin hits) /\ 1 \in DOMAIN t /\ f[1] = 1
        /\ (e = 0 => t[1] = st[1])
  <2> SUFFICES ASSUME 1 \in DOMAIN st
               PROVE  (e = 0 <=> d = 0 /\ 1 \notin hits) /\ 1 \in DOMAIN t /\ f[1] = 1
                      /\ (e = 0 => t[1] = st[1])
    OBVIOUS
  <2>1. 1 \in DOMAIN t /\ f[1] = 1 /\ st[1] \in EntryType
    BY <1>1, <1>3
  <2>2. ~Waiting(Marked(st[1]))
    BY <2>1 DEF Waiting, Marked, EntryType
  <2>3. CASE 1 \in hits
    BY <1>1, <1>3, <1>4, <2>1, <2>2, <2>3
  <2>4. CASE 1 \notin hits
    BY <1>1, <1>3, <1>4, <2>1, <2>4
  <2> QED  BY <2>3, <2>4
\* The k-th message of the new line is that of entry g[k] + d, which was no hit.
<1>7. ASSUME NEW k \in 1 .. n
      PROVE  /\ k + e \in DOMAIN t /\ f[k + e] \in DOMAIN st
             /\ g[k] \in (1 .. N) \ K /\ g[k] + d = f[k + e]
             /\ t[k + e] = st[f[k + e]]
  <2>1. k \in Nat /\ k + e \in DOMAIN t /\ f[k + e] \in DOMAIN st
    <3>1. k \in Nat /\ k + e \in DOMAIN t
      BY <1>3, <1>4, <1>5
    <3> QED  BY <1>1, <3>1
  <2>2. f[k + e] \in Nat /\ f[k + e] >= 1 /\ f[k + e] <= Len(st) /\ 1 \in DOMAIN st
    BY <1>3, <2>1
  <2>3. CASE k + e = 1
    <3>1. e = 0
      BY <1>4, <2>1, <2>3
    <3>2. d = 0 /\ 1 \notin hits /\ f[1] = 1 /\ t[1] = st[1]
      BY <1>6, <2>2, <3>1
    <3> QED  BY <1>3, <2>1, <2>2, <2>3, <3>2
  <2>4. CASE k + e # 1
    <3>1. f[k + e] # 1 /\ f[k + e] \notin hits /\ t[k + e] = st[f[k + e]]
      BY <1>1, <2>1, <2>4
    <3>2. g[k] \in Nat /\ g[k] + d = f[k + e] /\ g[k] \in 1 .. N
      BY <1>4, <2>2, <3>1
    <3> QED  BY <2>1, <3>1, <3>2
  <2> QED  BY <2>3, <2>4
<1>8. g \in [1 .. n -> (1 .. N) \ K]
  <2> HIDE DEF N, n, K
  <2> QED  BY <1>7
<1>9. ASSUME NEW i \in 1 .. n, NEW j \in 1 .. n, i < j PROVE g[i] < g[j]
  <2>1. f[i + e] < f[j + e]
    <3>1. i + e < j + e
      BY <1>4, <1>9
    <3> QED  BY <1>1, <1>7, <3>1
  <2>2. f[i + e] \in Nat /\ f[j + e] \in Nat
    BY <1>3, <1>7
  <2> QED  BY <1>4, <2>1, <2>2
<1>10. ASSUME NEW x \in (1 .. N) \ K PROVE \E k \in 1 .. n : g[k] = x
  <2>1. x \in Nat /\ x >= 1 /\ x + d \in DOMAIN st /\ x + d \notin hits
    BY <1>3, <1>4, <1>5
  <2>2. PICK j \in DOMAIN t : f[j] = x + d
    BY <1>1, <2>1
  <2>3. j \in Nat /\ j >= 1 /\ j <= Len(t) /\ 1 \in DOMAIN st
    BY <1>3, <2>1
  <2>4. j = 1 => e = 0
    <3> SUFFICES ASSUME j = 1 PROVE e = 0
      OBVIOUS
    <3>1. x + d = 1
      BY <1>6, <2>2, <2>3
    <3>2. d = 0 /\ 1 \notin hits
      BY <1>4, <2>1, <3>1
    <3> QED  BY <1>6, <2>3, <3>2
  <2>5. j - e \in 1 .. n /\ (j - e) + e = j
    BY <1>4, <2>3, <2>4
  <2>6. g[j - e] = x
    BY <1>4, <2>1, <2>2, <2>5
  <2> QED  BY <2>5, <2>6
<1>11. Keep(l, (1 .. N) \ K) = [k \in 1 .. n |-> l[g[k]]]
  <2> DEFINE R == (1 .. N) \ K
  <2> HIDE DEF l, K, n, N, g
  <2>1. R \subseteq 1 .. N /\ N \in Nat /\ n \in Nat
    BY <1>5
  <2>2. Enumerates(g, n, R)
    BY <1>8, <1>9, <1>10, <2>1 DEF Enumerates
  <2>3. Keep(l, R) = [k \in 1 .. n |-> l[g[k]]]
    <3> HIDE DEF R
    <3> QED  BY <2>2, KeepFollows
  <2> QED  BY <2>3
<1>12. LineOf(t) = [k \in 1 .. n |-> l[g[k]]]
  <2>1. ASSUME NEW k \in 1 .. n PROVE t[k + e].msg = l[g[k]]
    <3>1. g[k] \in 1 .. N /\ g[k] + d = f[k + e] /\ t[k + e] = st[f[k + e]]
      BY <1>7
    <3>2. l[g[k]] = st[g[k] + d].msg
      <4> HIDE DEF l, g, N
      <4> QED  BY <1>5, <3>1
    <3> QED  BY <3>1, <3>2
  <2> HIDE DEF l, g, n
  <2> QED  BY <1>5, <2>1
<1>13. CompletedByCancel(st, hits) = {l[k] : k \in K}
  <2>1. ASSUME NEW i \in hits, Waiting(st[i]) PROVE \E k \in K : l[k] = st[i].msg
    <3>1. i \in 1 .. Len(st) /\ ~(i = 1 /\ d = 1)
      BY <1>3, <1>4, <2>1
    <3>2. i - d \in 1 .. N /\ (i - d) + d = i
      BY <1>3, <1>4, <3>1
    <3> QED  BY <1>5, <3>2
  <2>2. ASSUME NEW k \in K
        PROVE  k + d \in hits /\ Waiting(st[k + d]) /\ l[k] = st[k + d].msg
    <3>1. k \in 1 .. N /\ k + d \in hits /\ l[k] = st[k + d].msg
      BY <1>5
    <3>2. k + d = 1 => d = 0
      BY <1>4, <3>1
    <3> QED  BY <1>4, <3>1, <3>2
  <2> HIDE DEF l, K
  <2> QED  BY <2>1, <2>2 DEF CompletedByCancel, Waiting
<1>14. K \in SUBSET DOMAIN l
  BY <1>5
<1> HIDE DEF K
<1> QED  BY <1>5, <1>11, <1>12, <1>13, <1>14 DEF t

\* CommandLine has its own name for the operator that keeps some positions.
LEMMA LineKeeps == \A l, K : Line!Keep(l, K) = Keep(l, K)
BY DEF Line!Keep, Keep, Line!Nth, Nth, Line!Rank, Rank, Line!Cardinality, Cardinality

\* The line in this state and in the next one.
LEMMA WaitingLineIs ==
  /\ WaitingLine = LineOf(stack)
  /\ \A st : stack' = st => WaitingLine' = LineOf(st)
BY DEF WaitingLine, LineOf, Waiting

LEMMA LineFacts ==
  ASSUME TypeOK, Rest
  PROVE  stack \in Seq(EntryType) /\ \A i \in DOMAIN stack : i # 1 => Waiting(stack[i])
BY DEF TypeOK, Rest, RestWaits

\* The cancel operations withdraw messages.
LEMMA WithdrawnLine ==
  ASSUME TypeOK, Rest, NEW hits \in SUBSET DOMAIN stack,
         NEW why \in {"cancelled", "timeout", "nocard"},
         stack' = AfterCancel(stack, hits),
         result' = Completed(result, CompletedByCancel(stack, hits), why)
  PROVE  Line!Next
<1>1. PICK K \in SUBSET DOMAIN LineOf(stack) :
        /\ CompletedByCancel(stack, hits) = {LineOf(stack)[k] : k \in K}
        /\ LineOf(AfterCancel(stack, hits)) = Keep(LineOf(stack), DOMAIN LineOf(stack) \ K)
  BY LineFacts, CancelledLine
<1>2. /\ WaitingLine = LineOf(stack)
      /\ WaitingLine' = Keep(WaitingLine, DOMAIN WaitingLine \ K)
  BY <1>1, WaitingLineIs
<1>3. result' = [m \in Messages |-> IF m \in {WaitingLine[k] : k \in K} THEN why ELSE result[m]]
  BY <1>1, <1>2 DEF Completed
<1>4. Line!Withdraw(K)
  BY <1>2, <1>3, LineKeeps DEF Line!Withdraw, Line!Withdrawals
<1> QED  BY <1>1, <1>2, <1>4 DEF Line!Next

\* A request is dismissed or accepted at the end of the line.
LEMMA JoinedLine ==
  ASSUME TypeOK, TypeOK', Rest, Rest', NEW m \in Messages, result[m] = "unsent", Joins(m)
  PROVE  Line!Next
<1>1. CASE \E r \in {"ok", "refused"} : result' = [result EXCEPT ![m] = r] /\ UNCHANGED stack
  <2>1. UNCHANGED WaitingLine
    BY <1>1, WaitingLineIs
  <2> QED  BY <1>1, <2>1 DEF Line!Next, Line!Dismiss
<1>2. ASSUME NEW e \in EntryType, Waiting(e), e.msg = m, stack' = Append(stack, e),
             result' = [result EXCEPT ![m] = "waiting"]
      PROVE  Line!Accept(m)
  <2> DEFINE st == Append(stack, e)
             n == Len(stack) + 1
             d == Skip(stack)
  <2>1. /\ stack \in Seq(EntryType) /\ st \in Seq(EntryType)
        /\ Len(stack) \in Nat /\ Len(st) = n /\ DOMAIN stack = 1 .. Len(stack)
        /\ DOMAIN st = 1 .. n /\ st[n] = e
        /\ \A i \in DOMAIN stack : st[i] = stack[i]
        /\ stack = << >> <=> Len(stack) = 0
        /\ st # << >>
    BY LineFacts
  <2> HIDE DEF st
  <2>2. \A i \in DOMAIN st : i # 1 => Waiting(st[i])
    BY <1>2, <2>1, LineFacts
  <2>3. Skip(st) = d /\ d \in {0, 1}
    BY <1>2, <2>1 DEF Skip
  <2>4. /\ Len(stack) - d \in Nat /\ LineOf(stack) = [k \in 1 .. Len(stack) - d |-> stack[k + d].msg]
        /\ LineOf(st) = [k \in 1 .. n - d |-> st[k + d].msg]
    BY <2>1, <2>2, <2>3, LineFacts, LineShape
  <2> HIDE DEF d
  <2>5. \A k \in 1 .. Len(stack) - d : k + d \in DOMAIN stack
    BY <2>1, <2>3
  <2>6. /\ LineOf(stack) \in Seq(Messages) /\ Len(LineOf(stack)) = Len(stack) - d
        /\ \A k \in 1 .. Len(stack) - d : LineOf(stack)[k] = stack[k + d].msg
    <3>1. \A i \in DOMAIN stack : stack[i].msg \in Messages
      BY StackFacts
    <3> QED  BY <2>4, <2>5, <3>1
  <2>7. LineOf(st) = Append(LineOf(stack), m)
    <3> DEFINE a == Append(LineOf(stack), m)
               b == LineOf(st)
    <3>1. a \in Seq(Messages) /\ Len(a) = n - d
      BY <2>1, <2>3, <2>6
    <3>2. n - d \in Nat /\ \A k \in 1 .. n - d : k + d \in DOMAIN st
      BY <2>1, <2>3
    <3>3. \A i \in DOMAIN st : st[i].msg \in Messages
      <4>1. \A i \in DOMAIN st : st[i] \in EntryType
        BY <2>1
      <4> QED  BY <4>1 DEF EntryType
    <3>4. b \in [1 .. n - d -> Messages]
      BY <2>4, <3>2, <3>3
    <3>5. ASSUME NEW k \in 1 .. n - d PROVE a[k] = b[k]
      <4>1. CASE k = n - d
        BY <1>2, <2>1, <2>3, <2>4, <2>6, <4>1
      <4>2. CASE k # n - d
        <5>1. k \in 1 .. Len(stack) - d /\ k + d \in DOMAIN stack
          BY <2>1, <2>3, <2>5, <4>2
        <5>2. a[k] = LineOf(stack)[k]
          BY <2>6, <5>1
        <5>3. b[k] = st[k + d].msg
          BY <2>4
        <5>4. st[k + d] = stack[k + d]
          BY <2>1, <5>1
        <5> QED  BY <2>6, <5>1, <5>2, <5>3, <5>4
      <4> QED  BY <4>1, <4>2
    <3>6. a = b
      <4> HIDE DEF a, b
      <4>1. DOMAIN a = 1 .. n - d
        BY <3>1, <3>2
      <4> QED  BY <3>1, <3>4, <3>5, <4>1
    <3> QED  BY <3>6
  <2>8. WaitingLine' = Append(WaitingLine, m)
    BY <1>2, <2>7, WaitingLineIs DEF st
  <2> QED  BY <1>2, <2>8 DEF Line!Accept
<1> QED  BY <1>1, <1>2 DEF Joins, Line!Next

\* RunL serves the first of the line, or only takes a cancelled entry away.
LEMMA ServedLine ==
  ASSUME TypeOK, TypeOK', StackAccounted, Rest, Rest', MovesUp
  PROVE  [Line!Next]_<<WaitingLine, result>>
<1> DEFINE st == stack'
           n == Len(stack) - 1
           l == LineOf(stack)
           next == [k \in 1 .. n |-> stack[k + 1].msg]
<1>1. /\ stack \in Seq(EntryType) /\ stack # << >> /\ 1 \in DOMAIN stack
      /\ DOMAIN stack = 1 .. n + 1 /\ Len(stack) = n + 1 /\ n \in Nat
      /\ DOMAIN Tail(stack) = 1 .. n
      /\ \A k \in 1 .. n : Tail(stack)[k] = stack[k + 1] /\ k + 1 \in DOMAIN stack
  BY LineFacts DEF MovesUp
<1>2. \A i \in DOMAIN stack : stack[i].msg \in Messages
  BY StackFacts
<1>3. LineOf(st) = next
  <2>1. /\ st \in Seq(EntryType) /\ Len(st) = n /\ DOMAIN st = 1 .. n
        /\ \A k \in 1 .. n : st[k].msg = stack[k + 1].msg /\ Waiting(st[k])
    <3>1. st \in Seq(EntryType)
      BY DEF TypeOK
    <3>2. DOMAIN st = 1 .. n /\ \A k \in 1 .. n : st[k].msg = Tail(stack)[k].msg /\ Waiting(st[k])
      BY <1>1 DEF MovesUp, Waiting
    <3> HIDE DEF st, n
    <3>3. Len(st) = n
      BY <1>1, <3>1, <3>2
    <3> QED  BY <1>1, <3>1, <3>2, <3>3
  <2> HIDE DEF st, n
  <2>2. Skip(st) = 0
    BY <2>1 DEF Skip
  <2>3. LineOf(st) = [k \in 1 .. Len(st) - Skip(st) |-> st[k + Skip(st)].msg]
    BY <2>1, LineShape
  <2>4. \A k \in 1 .. n : k + 0 = k
    BY <1>1
  <2>5. Len(st) - Skip(st) = n
    BY <1>1, <2>1, <2>2
  <2> QED  BY <2>1, <2>2, <2>3, <2>4, <2>5
<1>4. WaitingLine = l /\ WaitingLine' = next
  BY <1>3, WaitingLineIs
<1>5. l = [k \in 1 .. Len(stack) - Skip(stack) |-> stack[k + Skip(stack)].msg]
  BY LineFacts, LineShape
<1> HIDE DEF n, l, next
<1>6. CASE ~Waiting(stack[1])
  <2>1. Skip(stack) = 1 /\ Len(stack) - 1 = n
    BY <1>1, <1>6 DEF Skip
  <2>2. l = next
    BY <1>5, <2>1 DEF next
  <2>3. result' = result
    BY <1>6 DEF MovesUp, ResultsThen
  <2> QED  BY <1>4, <2>2, <2>3
<1>7. CASE Waiting(stack[1])
  <2>1. Skip(stack) = 0 /\ Len(stack) - 0 = n + 1
    BY <1>1, <1>7 DEF Skip
  <2>2. l = [k \in 1 .. n + 1 |-> stack[k].msg]
    <3>1. \A k \in 1 .. n + 1 : k + 0 = k
      BY <1>1
    <3> QED  BY <1>5, <2>1, <3>1
  <2>3. l \in Seq(Messages) /\ Len(l) = n + 1 /\ l # << >> /\ Head(l) = stack[1].msg
    BY <1>1, <1>2, <2>2
  <2>4. next = Tail(l)
    <3> DEFINE t == Tail(l)
    <3>1. /\ t \in Seq(Messages) /\ Len(t) = n /\ DOMAIN t = 1 .. n
          /\ \A k \in 1 .. n : t[k] = l[k + 1]
      BY <1>1, <2>3
    <3>2. \A k \in 1 .. n : l[k + 1] = stack[k + 1].msg
      BY <1>1, <2>2
    <3> HIDE DEF t
    <3>3. t = [k \in 1 .. n |-> t[k]]
      BY <3>1
    <3>4. t = [k \in 1 .. n |-> stack[k + 1].msg]
      BY <3>1, <3>2, <3>3
    <3> QED  BY <3>4 DEF next, t
  <2>5. PICK a \in {"ok", "error"} : result' = Completed(result, {stack[1].msg}, a)
    <3>1. command.msg = stack[1].msg
      BY <1>1 DEF Rest, ReaderBusy
    <3> QED  BY <1>7, <3>1 DEF MovesUp, ResultsThen, Answer
  <2>6. result' = [result EXCEPT ![Head(l)] = a]
    <3>1. stack[1].msg \in Messages /\ result \in [Messages -> ResultType]
      BY <1>1, <1>2 DEF TypeOK
    <3> QED  BY <2>3, <2>5, <3>1 DEF Completed
  <2>7. Line!Serve
    BY <1>4, <2>3, <2>4, <2>6 DEF Line!Serve, Line!Answers
  <2> QED  BY <2>7 DEF Line!Next
<1> QED  BY <1>6, <1>7

LEMMA DetachedLine ==
  ASSUME TypeOK, StackAccounted, Rest, NEW s \in Sessions, Detach(s) PROVE Line!Next
<1> DEFINE hits == OfSession(stack, registry[s])
           st == AfterCancel(stack, hits)
           res == Completed(result, CompletedByCancel(stack, hits), "cancelled")
           reg == [registry EXCEPT ![s] = 0]
<1>1. HandleNextIfReady(st, channels, res, reg)
  BY HitsAreInStack, CancelsWaiting DEF Detach
<1>2. hits \in SUBSET DOMAIN stack
  BY HitsAreInStack
<1>3. stack = << >> => st = << >>
  <2> HIDE DEF hits
  <2> QED  BY <1>2, LineFacts, NothingToCancel
<1>4. stack' = st /\ result' = res
  <2> HIDE DEF st, res, reg
  <2> QED  BY <1>1, <1>3, IdleStays
<1> HIDE DEF hits
<1> QED  BY <1>2, <1>4, WithdrawnLine

LEMMA LineStep ==
  ASSUME Inductive, Inductive', [OrderlyNext]_vars
  PROVE  [Line!Next]_<<WaitingLine, result>>
<1>1. TypeOK /\ StackAccounted /\ Rest /\ TypeOK' /\ Rest'
  BY DEF Inductive, Rest
<1>2. UNCHANGED <<stack, result>> => UNCHANGED <<WaitingLine, result>>
  BY WaitingLineIs
<1>3. CASE UNCHANGED vars
  BY <1>2, <1>3 DEF vars
<1>4. CASE ReaderAnswers
  BY <1>1, <1>2, <1>4 DEF ReaderAnswers, Rest, ReaderBusy
<1>5. CASE RunL
  BY <1>1, <1>5, RunLStep, ServedLine
<1>6. ASSUME NEW m \in Messages, TimeOut(m) PROVE Line!Next
  BY <1>1, <1>6, HitsAreInStack, CancelsWaiting, WithdrawnLine DEF TimeOut
<1>7. CASE CardRemoved
  BY <1>1, <1>7, CancelsWaiting, WithdrawnLine DEF CardRemoved
<1>8. ASSUME NEW s \in Sessions, Connect(s) PROVE UNCHANGED <<WaitingLine, result>>
  <2> DEFINE reg == [registry EXCEPT ![s] = nextID + 1]
             ch == [channels EXCEPT ![0] = @ \cup {nextID, nextID + 1}]
  <2>1. HandleNextIfReady(PutBack(stack, ch), ch, result, reg)
    BY <1>8 DEF Connect
  <2>2. \A c \in Channels : channels[c] \subseteq ch[c]
    BY <1>1 DEF TypeOK
  <2> HIDE DEF reg, ch
  <2>3. PutBack(stack, ch) = stack
    BY <1>1, <2>2, PutBackKeeps
  <2> QED  BY <1>1, <1>2, <2>1, <2>3, IdleStays
<1>9. ASSUME NEW s \in Sessions, CancelTransmit(s) PROVE Line!Next
  <2> DEFINE hits == OfSession(stack, registry[s])
  <2>1. /\ hits \in SUBSET DOMAIN stack
        /\ result' = Completed(result, CompletedByCancel(stack, hits), "cancelled")
        /\ stack' = PutBack(AfterCancel(stack, hits), channels)
    BY <1>1, <1>9, HitsAreInStack, CancelsWaiting DEF CancelTransmit
  <2> HIDE DEF hits
  <2>2. stack' = AfterCancel(stack, hits)
    BY <1>1, <2>1, PutBackKeeps
  <2> QED  BY <1>1, <2>1, <2>2, WithdrawnLine
<1>10. ASSUME NEW s \in Sessions, Detach(s) PROVE Line!Next
  BY <1>1, <1>10, DetachedLine
<1>11. ASSUME NEW s \in Sessions, CloseSession(s)
       PROVE  Line!Next \/ UNCHANGED <<WaitingLine, result>>
  <2>1. CASE ~Detach(s) /\ registry[s] # 0
    <3> DEFINE hits == OfSession(stack, registry[s])
    <3>1. /\ hits \in SUBSET DOMAIN stack /\ stack' = AfterCancel(stack, hits)
          /\ result' = Completed(result, CompletedByCancel(stack, hits), "cancelled")
      BY <1>1, <1>11, <2>1, HitsAreInStack, CancelsWaiting DEF CloseSession
    <3> HIDE DEF hits
    <3> QED  BY <1>1, <3>1, WithdrawnLine
  <2>2. CASE registry[s] = 0
    BY <1>2, <1>11, <2>2 DEF CloseSession
  <2> QED  BY <1>10, <2>1, <2>2
<1>12. ASSUME NEW s \in Sessions, NEW m \in Messages, NEW q \in Requests,
              OrderlyRequest(s, q), Submit(s, m, q)
       PROVE  Line!Next
  BY <1>1, <1>12, SubmitStep, JoinedLine
<1> QED  BY <1>3, <1>4, <1>5, <1>6, <1>7, <1>8, <1>9, <1>10, <1>11, <1>12
         DEF OrderlyNext, ServerStep, Disconnect

LEMMA LineInit == Init => Line!Init
<1> SUFFICES ASSUME Init PROVE Line!Init
  OBVIOUS
<1>1. stack = << >> /\ stack \in Seq(EntryType) /\ DOMAIN stack = {} /\ Len(stack) = 0
  BY DEF Init
<1>2. Skip(stack) = 0
  BY <1>1 DEF Skip
<1>3. LineOf(stack) = [k \in 1 .. Len(stack) - Skip(stack) |-> stack[k + Skip(stack)].msg]
  BY <1>1, LineShape
<1>4. WaitingLine = << >>
  BY <1>1, <1>2, <1>3, WaitingLineIs
<1> QED  BY <1>4 DEF Init, Line!Init

\* The server implements CommandLine: messages are accepted at the end of one
\* line, the first of it alone is answered from the card, and the others leave
\* it only when they are withdrawn, while the rest keep their order.
THEOREM LineIsKept == OrderlySpec => LineSpec
<1>1. Inductive /\ Inductive' /\ [OrderlyNext]_vars => [Line!Next]_<<WaitingLine, result>>
  BY LineStep
<1> QED  BY <1>1, LineInit, OrderlyInductive, PTL DEF OrderlySpec, LineSpec, Line!Spec
=============================================================================
