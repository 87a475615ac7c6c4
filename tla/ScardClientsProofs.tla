------------------------- MODULE ScardClientsProofs -------------------------
(***************************************************************************)
(* Theorems about the smart-card server with any clients at all: type      *)
(* correctness, and (under one condition on their requests) a message is   *)
(* completed once.  The first part names the facts about operators and     *)
(* handlers that the theorems about orderly clients rest on as well.       *)
(***************************************************************************)
EXTENDS ScardInvariant, ScardMessageStackProofs

\* The part of the type invariant that a handler starting the next message changes.
ServerTyped ==
  /\ channels \in [Channels -> SUBSET Nat]
  /\ stack \in Seq(EntryType)
  /\ readerActive \in BOOLEAN
  /\ status \in {"idle", "pending", "ok", "error", "cancel"}
  /\ command \in CommandType
  /\ reply \in Channels
  /\ result \in [Messages -> ResultType]
  /\ panicked \in PanicType

LEMMA TypedParts ==
  TypeOK <=> /\ ServerTyped
             /\ registry \in [Sessions -> Nat]
             /\ nextID \in Nat
             /\ cardChannels \in SUBSET LogicalChannels
BY DEF TypeOK, ServerTyped

\* Flagging an entry keeps its type.
LEMMA MarkedType == \A e \in EntryType : Marked(e) \in EntryType
BY DEF Marked, EntryType

LEMMA NewEntryType ==
  ASSUME NEW m \in Messages, NEW q \in Requests, NEW id \in Nat, NEW timed \in BOOLEAN
  PROVE  NewEntry(m, q, id, timed) \in EntryType
<1>1. q \in RequestType
  BY RequestsAssumption
<1>2. ChannelOf(q) \in Channels
  BY <1>1 DEF ChannelOf, RequestType, Channels
<1> QED  BY <1>2 DEF NewEntry, EntryType

LEMMA CompletedType ==
  ASSUME NEW res \in [Messages -> ResultType], NEW ms, NEW why \in ResultType
  PROVE  Completed(res, ms, why) \in [Messages -> ResultType]
BY DEF Completed

LEMMA TableType ==
  ASSUME NEW ch \in [Channels -> SUBSET Nat], NEW q \in Requests, NEW id \in Nat
  PROVE  Table(q, id, ch) \in [Channels -> SUBSET Nat]
<1>1. q.chan \in Channels
  BY RequestsAssumption DEF RequestType
<1> QED  BY <1>1 DEF Table

\* Cancelling leaves a stack.
LEMMA AfterCancelType ==
  ASSUME NEW st \in Seq(EntryType), NEW hits \in SUBSET DOMAIN st
  PROVE  AfterCancel(st, hits) \in Seq(EntryType)
<1> DEFINE t == AfterCancel(st, hits)
           f == Origin(st, hits)
<1>1. t = AfterCancel(st, hits) /\ f = Origin(st, hits)
  OBVIOUS
<1> HIDE DEF t, f
<1>2. t \in Seq(EntryType)
  BY <1>1, MarkedType, AfterCancelFacts
<1> QED  BY <1>1, <1>2

LEMMA PutBackType ==
  ASSUME NEW st \in Seq(EntryType), NEW ch
  PROVE  PutBack(st, ch) \in Seq(EntryType)
BY DEF PutBack

\* Whatever a command does, the card's channels are logical channels.
LEMMA CardEffectsType ==
  ASSUME cardChannels \in SUBSET LogicalChannels, NEW q, NEW x \in CardEffects(q)
  PROVE  x[1] \in SUBSET LogicalChannels /\ x[2] \in Channels
<1>1. CASE x \in {<<IF q.op = "close" THEN cardChannels \ {q.chan} ELSE cardChannels, 0>>}
  BY <1>1 DEF Channels
<1>2. CASE x \in {<<cardChannels \cup {c}, c>> : c \in LogicalChannels \ cardChannels}
  <2>1. PICK c \in LogicalChannels : x = <<cardChannels \cup {c}, c>>
    BY <1>2
  <2> QED  BY <2>1 DEF Channels, LogicalChannels
<1> QED  BY <1>1, <1>2 DEF CardEffects

\* The constants the handlers assign have their types.
LEMMA IdleType ==
  ASSUME ServerTyped, NEW st \in Seq(EntryType), NEW ch \in [Channels -> SUBSET Nat],
         NEW res \in [Messages -> ResultType], StaysIdle(st, ch, res)
  PROVE  ServerTyped'
<1>1. command' \in CommandType
  BY DEF StaysIdle, CommandType
<1>2. reply' \in Channels
  BY DEF StaysIdle, Channels
<1>3. /\ stack' = st /\ channels' = ch /\ result' = res /\ readerActive' = FALSE
      /\ status' = "idle" /\ panicked' = panicked
  BY DEF StaysIdle
<1> QED  BY <1>1, <1>2, <1>3 DEF ServerTyped

LEMMA AgainType ==
  ASSUME ServerTyped, NEW ms, NEW why \in ResultType, CompletesAgain(ms, why)
  PROVE  ServerTyped'
<1>1. Completed(result, ms, why) \in [Messages -> ResultType]
  BY CompletedType DEF ServerTyped
<1>2. result' \in [Messages -> ResultType] /\ panicked' \in PanicType
  BY <1>1 DEF CompletesAgain, PanicType
<1>3. UNCHANGED <<channels, stack, readerActive, status, command, reply>>
  BY DEF CompletesAgain
<1> QED  BY <1>2, <1>3 DEF ServerTyped

\* What a command that goes to the reader leaves.
LEMMA StartedType ==
  ASSUME ServerTyped, NEW m \in Messages, NEW q \in Requests, NEW s \in Sessions,
         NEW id \in Nat, NEW st \in Seq(EntryType)
  PROVE  /\ CommandOf(m, q, s) \in CommandType
         /\ (IF q.negative THEN st ELSE <<NewEntry(m, q, id, q.timed)>> \o st) \in Seq(EntryType)
<1>1. q.timed \in BOOLEAN /\ q.negative \in BOOLEAN
  BY RequestsAssumption DEF RequestType
<1>2. NewEntry(m, q, id, q.timed) \in EntryType
  BY <1>1, NewEntryType
<1>3. CommandOf(m, q, s) \in CommandType
  BY <1>1 DEF CommandOf, CommandType
<1> QED  BY <1>2, <1>3

LEMMA ServeType ==
  ASSUME ServerTyped, NEW m \in Messages, NEW q \in Requests, NEW s \in Sessions,
         NEW id \in Nat, NEW st \in Seq(EntryType), NEW ch \in [Channels -> SUBSET Nat],
         NEW res \in [Messages -> ResultType],
         Serve(m, q, s, id, st, ch, res)
  PROVE  ServerTyped'
<1> DEFINE table == Table(q, id, ch)
<1>1. table \in [Channels -> SUBSET Nat]
  BY TableType
<1>2. ASSUME NEW why \in PanicType, Dies(why) PROVE ServerTyped'
  BY <1>2 DEF Dies, ServerTyped
<1>3. ASSUME NEW r \in [Messages -> ResultType], StaysIdle(st, table, r) PROVE ServerTyped'
  BY <1>1, <1>3, IdleType
<1>4. CASE res[m] # "waiting" /\ Dies("stale message")
  BY <1>2, <1>4 DEF PanicType
<1>5. CASE StaysIdle(st, table, Completed(res, {m}, "refused"))
  BY <1>3, <1>5, CompletedType DEF ResultType
<1>6. CASE StaysIdle(st, table, res)
  BY <1>3, <1>6
<1>7. CASE Dies("push failed") \/ Dies("no timer")
  BY <1>2, <1>7 DEF PanicType
<1>8. CASE Starts(m, q, id, s, st, table, res)
  <2> HIDE DEF table
  <2>1. command' \in CommandType /\ stack' \in Seq(EntryType)
    BY <1>8, StartedType DEF Starts
  <2> QED  BY <1>1, <1>8, <2>1 DEF Starts, ServerTyped, Channels
<1>9. CASE LeavesEntry(m, q, id, s, st, table, res)
  <2> HIDE DEF table
  <2>1. command' \in CommandType /\ stack' \in Seq(EntryType)
    BY <1>9, StartedType DEF LeavesEntry
  <2>2. result' \in [Messages -> ResultType]
    BY <1>9, CompletedType DEF LeavesEntry, ResultType
  <2>3. status' \in {"idle", "pending", "ok", "error", "cancel"} /\ reply' \in Channels
    BY <1>9 DEF LeavesEntry, Channels
  <2>4. channels' = table /\ readerActive' = TRUE /\ panicked' = panicked
    BY <1>9 DEF LeavesEntry
  <2> QED  BY <1>1, <2>1, <2>2, <2>3, <2>4 DEF ServerTyped
<1> QED  BY <1>4, <1>5, <1>6, <1>7, <1>8, <1>9 DEF Serve

LEMMA HandleNextType ==
  ASSUME ServerTyped, NEW st \in Seq(EntryType), NEW ch \in [Channels -> SUBSET Nat],
         NEW res \in [Messages -> ResultType], NEW reg,
         HandleNext(st, ch, res, reg)
  PROVE  ServerTyped'
<1>1. CASE st = << >> /\ StaysIdle(st, ch, res)
  BY <1>1, IdleType
<1>2. CASE st # << >> /\ Dies("no session")
  BY <1>2 DEF Dies, ServerTyped, PanicType
<1>3. ASSUME st # << >>, NEW s \in Sessions,
             Serve(Head(st).msg, Head(st).req, s, Head(st).sid, Tail(st), ch, res)
      PROVE  ServerTyped'
  <2>1. Head(st) \in EntryType /\ Tail(st) \in Seq(EntryType)
    BY <1>3
  <2>2. Head(st).msg \in Messages /\ Head(st).req \in Requests /\ Head(st).sid \in Nat
    BY <2>1 DEF EntryType
  <2> QED  BY <1>3, <2>1, <2>2, ServeType
<1> QED  BY <1>1, <1>2, <1>3 DEF HandleNext

LEMMA HandleNextIfReadyType ==
  ASSUME ServerTyped, NEW st \in Seq(EntryType), NEW ch \in [Channels -> SUBSET Nat],
         NEW res \in [Messages -> ResultType], NEW reg,
         HandleNextIfReady(st, ch, res, reg)
  PROVE  ServerTyped'
<1>1. CASE readerActive
  BY <1>1 DEF HandleNextIfReady, ServerTyped
<1>2. CASE ~readerActive
  BY <1>2, HandleNextType DEF HandleNextIfReady
<1> QED  BY <1>1, <1>2
-----------------------------------------------------------------------------
\* What a cancel operation hits are positions of the stack.
LEMMA HitsAreInStack ==
  \A id, m : /\ OfSession(stack, id) \in SUBSET DOMAIN stack
             /\ WithTimerOf(stack, m) \in SUBSET DOMAIN stack
BY DEF OfSession, WithTimerOf

LEMMA ConnectType == ASSUME TypeOK, NEW s \in Sessions, Connect(s) PROVE TypeOK'
<1> DEFINE reg == [registry EXCEPT ![s] = nextID + 1]
           ch == [channels EXCEPT ![0] = @ \cup {nextID, nextID + 1}]
<1>1. reg \in [Sessions -> Nat] /\ ch \in [Channels -> SUBSET Nat] /\ nextID + 2 \in Nat
  BY DEF TypeOK, Channels
<1>2. /\ registry' = reg /\ nextID' = nextID + 2 /\ UNCHANGED cardChannels
      /\ HandleNextIfReady(PutBack(stack, ch), ch, result, reg)
  BY DEF Connect
<1> HIDE DEF reg, ch
<1>3. PutBack(stack, ch) \in Seq(EntryType)
  BY PutBackType DEF TypeOK
<1>4. ServerTyped'
  BY <1>1, <1>2, <1>3, HandleNextIfReadyType, TypedParts DEF ServerTyped
<1>5. registry' \in [Sessions -> Nat] /\ nextID' \in Nat /\ cardChannels' \in SUBSET LogicalChannels
  BY <1>1, <1>2 DEF TypeOK
<1> QED  BY <1>4, <1>5 DEF TypeOK, ServerTyped

LEMMA SubmitType ==
  ASSUME TypeOK, NEW s \in Sessions, NEW m \in Messages, NEW q \in Requests, Submit(s, m, q)
  PROVE  TypeOK'
<1> DEFINE id == registry[s]
           table == Table(q, id, channels)
           res == [result EXCEPT ![m] = "waiting"]
<1>1. id \in Nat /\ res \in [Messages -> ResultType]
  BY DEF TypeOK, ResultType
<1>2. table \in [Channels -> SUBSET Nat]
  BY <1>1, TableType DEF TypeOK
<1>3. UNCHANGED <<registry, nextID, cardChannels>>
  BY DEF Submit
<1>4. CASE /\ result' = [result EXCEPT ![m] = "ok"]
           /\ UNCHANGED <<channels, stack, readerActive, status, command, reply, panicked>>
  BY <1>3, <1>4 DEF TypeOK, ResultType
<1>5. CASE Serve(m, q, s, id, stack, channels, res)
  <2>1. ServerTyped'
    BY <1>1, <1>5, ServeType, TypedParts DEF ServerTyped
  <2> QED  BY <1>3, <2>1 DEF TypeOK, ServerTyped
<1>9. CASE Dies("no timer")
  BY <1>3, <1>9 DEF Dies, TypeOK, PanicType
<1>6. CASE /\ channels' = table
           /\ result' = [result EXCEPT ![m] = "refused"]
           /\ UNCHANGED <<stack, readerActive, status, command, reply, panicked>>
  <2> HIDE DEF table
  <2> QED  BY <1>2, <1>3, <1>6 DEF TypeOK, ResultType
<1>7. CASE /\ channels' = table
           /\ result' = res
           /\ stack' = Append(stack, NewEntry(m, q, id, q.timed /\ q.op # "close"))
           /\ UNCHANGED <<readerActive, status, command, reply, panicked>>
  <2>1. NewEntry(m, q, id, q.timed /\ q.op # "close") \in EntryType
    BY <1>1, NewEntryType
  <2>2. stack' \in Seq(EntryType)
    BY <1>7, <2>1 DEF TypeOK
  <2> HIDE DEF table, res
  <2> QED  BY <1>1, <1>2, <1>3, <1>7, <2>2 DEF TypeOK
<1> HIDE DEF table
<1> QED  BY <1>4, <1>5, <1>6, <1>7, <1>9 DEF Submit, table

\* Cancelling messages of the stack, whatever the reason.
LEMMA CancelType ==
  ASSUME TypeOK, NEW hits \in SUBSET DOMAIN stack, NEW why \in ResultType
  PROVE  /\ AfterCancel(stack, hits) \in Seq(EntryType)
         /\ Completed(result, CompletedByCancel(stack, hits), why) \in [Messages -> ResultType]
BY AfterCancelType, CompletedType DEF TypeOK

LEMMA CancelReaderType ==
  ASSUME TypeOK, NEW applies, CancelReader(applies)
  PROVE  status' \in {"idle", "pending", "ok", "error", "cancel"}
         /\ cardChannels' \in SUBSET LogicalChannels
BY CardEffectsType DEF CancelReader, TypeOK

\* A step that completes a message again leaves everything typed.
LEMMA AgainIsTyped ==
  ASSUME TypeOK, NEW ms, NEW why \in ResultType, CompletesAgain(ms, why),
         registry' \in [Sessions -> Nat], nextID' = nextID,
         cardChannels' \in SUBSET LogicalChannels
  PROVE  TypeOK'
<1>1. ServerTyped'
  BY AgainType, TypedParts
<1> QED  BY <1>1 DEF TypeOK, ServerTyped

LEMMA CancelTransmitType == ASSUME TypeOK, NEW s \in Sessions, CancelTransmit(s) PROVE TypeOK'
<1> DEFINE hits == OfSession(stack, registry[s])
           done == CompletedByCancel(stack, hits)
           st == AfterCancel(stack, hits)
           res == Completed(result, done, "cancelled")
<1>1. hits \in SUBSET DOMAIN stack
  BY HitsAreInStack
<1>2. CASE CompletesAgain(done, "cancelled") /\ UNCHANGED <<registry, nextID, cardChannels>>
  <2> HIDE DEF done
  <2> QED  BY <1>2, AgainIsTyped DEF TypeOK, ResultType
<1>3. CASE /\ result' = res /\ stack' = PutBack(st, channels)
           /\ CancelReader(st # << >> /\ Head(st).sid = registry[s])
           /\ UNCHANGED <<registry, nextID, channels, readerActive, command, reply, panicked>>
  <2>1. st \in Seq(EntryType) /\ res \in [Messages -> ResultType]
    <3> HIDE DEF hits
    <3> QED  BY <1>1, CancelType DEF ResultType
  <2> HIDE DEF st, res
  <2>2. stack' \in Seq(EntryType)
    BY <1>3, <2>1, PutBackType
  <2>3. status' \in {"idle", "pending", "ok", "error", "cancel"}
        /\ cardChannels' \in SUBSET LogicalChannels
    BY <1>3, CancelReaderType
  <2> QED  BY <1>3, <2>1, <2>2, <2>3 DEF TypeOK
<1> QED  BY <1>2, <1>3 DEF CancelTransmit

LEMMA DetachType == ASSUME TypeOK, NEW s \in Sessions, Detach(s) PROVE TypeOK'
<1> DEFINE hits == OfSession(stack, registry[s])
           done == CompletedByCancel(stack, hits)
           st == AfterCancel(stack, hits)
           res == Completed(result, done, "cancelled")
           reg == [registry EXCEPT ![s] = 0]
<1>1. hits \in SUBSET DOMAIN stack
  BY HitsAreInStack
<1>2. registry' = reg /\ UNCHANGED <<nextID, cardChannels>>
  BY DEF Detach
<1>3. registry' \in [Sessions -> Nat]
  BY <1>2 DEF TypeOK
<1>4. CASE CompletesAgain(done, "cancelled")
  <2> HIDE DEF done, reg
  <2> QED  BY <1>2, <1>3, <1>4, AgainIsTyped DEF TypeOK, ResultType
<1>5. CASE HandleNextIfReady(st, channels, res, reg)
  <2>1. st \in Seq(EntryType) /\ res \in [Messages -> ResultType]
    <3> HIDE DEF hits
    <3> QED  BY <1>1, CancelType DEF ResultType
  <2> HIDE DEF st, res, reg
  <2>2. ServerTyped'
    BY <1>5, <2>1, HandleNextIfReadyType, TypedParts DEF ServerTyped
  <2> QED  BY <1>2, <1>3, <2>2 DEF TypeOK, ServerTyped
<1> QED  BY <1>4, <1>5 DEF Detach

LEMMA CloseSessionType == ASSUME TypeOK, NEW s \in Sessions, CloseSession(s) PROVE TypeOK'
<1> DEFINE hits == OfSession(stack, registry[s])
           done == CompletedByCancel(stack, hits)
           res == Completed(result, done, "cancelled")
           reg == [registry EXCEPT ![s] = 0]
<1>1. CASE Detach(s)
  BY <1>1, DetachType
<1>2. reg \in [Sessions -> Nat] /\ (command # NoCommand => [command EXCEPT !.freed = TRUE] \in CommandType)
  BY DEF TypeOK, CommandType
<1>3. CASE CompletesAgain(done, "cancelled") /\ registry' = reg /\ UNCHANGED <<nextID, cardChannels>>
  <2> HIDE DEF done, reg
  <2> QED  BY <1>2, <1>3, AgainIsTyped DEF TypeOK, ResultType
<1>4. CASE /\ command # NoCommand
           /\ registry' = reg
           /\ stack' = AfterCancel(stack, hits)
           /\ result' = res
           /\ command' = [command EXCEPT !.freed = TRUE]
           /\ UNCHANGED <<nextID, channels, readerActive, status, reply, cardChannels, panicked>>
  <2>1. hits \in SUBSET DOMAIN stack
    BY HitsAreInStack
  <2>2. stack' \in Seq(EntryType) /\ result' \in [Messages -> ResultType]
    <3> HIDE DEF hits
    <3> QED  BY <1>4, <2>1, CancelType DEF ResultType
  <2> HIDE DEF hits, reg, res
  <2> QED  BY <1>2, <1>4, <2>2 DEF TypeOK
<1>5. CASE /\ command # NoCommand
           /\ command' = [command EXCEPT !.freed = TRUE]
           /\ UNCHANGED <<registry, nextID, channels, stack, readerActive, status, reply,
                          cardChannels, result, panicked>>
  BY <1>2, <1>5 DEF TypeOK
<1> QED  BY <1>1, <1>3, <1>4, <1>5 DEF CloseSession

LEMMA TimeOutType == ASSUME TypeOK, NEW m \in Messages, TimeOut(m) PROVE TypeOK'
<1> DEFINE hits == WithTimerOf(stack, m)
           done == CompletedByCancel(stack, hits)
<1>1. hits \in SUBSET DOMAIN stack
  BY HitsAreInStack
<1>2. CASE CompletesAgain(done, "timeout") /\ UNCHANGED <<registry, nextID, cardChannels>>
  <2> HIDE DEF done
  <2> QED  BY <1>2, AgainIsTyped DEF TypeOK, ResultType
<1>3. CASE /\ stack' = AfterCancel(stack, hits)
           /\ result' = Completed(result, done, "timeout")
           /\ UNCHANGED <<channels, readerActive, status, command, reply, panicked>>
           /\ UNCHANGED <<registry, nextID, cardChannels>>
  <2> HIDE DEF hits
  <2>1. stack' \in Seq(EntryType) /\ result' \in [Messages -> ResultType]
    BY <1>1, <1>3, CancelType DEF ResultType
  <2> QED  BY <1>3, <2>1 DEF TypeOK
<1> QED  BY <1>2, <1>3 DEF TimeOut

LEMMA CardRemovedType == ASSUME TypeOK, CardRemoved PROVE TypeOK'
<1> DEFINE done == CompletedByCancel(stack, DOMAIN stack)
<1>1. CASE /\ CompletesAgain(done, "nocard")
           /\ cardChannels' = {} /\ UNCHANGED <<registry, nextID>>
  <2> HIDE DEF done
  <2> QED  BY <1>1, AgainIsTyped DEF TypeOK, ResultType
<1>2. CASE /\ stack' = AfterCancel(stack, DOMAIN stack)
           /\ result' = Completed(result, done, "nocard")
           /\ channels' = [c \in Channels |-> IF c = 0 THEN channels[0] ELSE {}]
           /\ UNCHANGED <<readerActive, status, command, reply, panicked>>
           /\ cardChannels' = {} /\ UNCHANGED <<registry, nextID>>
  <2>1. stack' \in Seq(EntryType) /\ result' \in [Messages -> ResultType]
    BY <1>2, CancelType DEF ResultType
  <2>2. channels' \in [Channels -> SUBSET Nat]
    BY <1>2 DEF TypeOK, Channels
  <2> QED  BY <1>2, <2>1, <2>2 DEF TypeOK
<1> QED  BY <1>1, <1>2 DEF CardRemoved

LEMMA ReaderAnswersType == ASSUME TypeOK, ReaderAnswers PROVE TypeOK'
<1>1. CASE Dies("freed buffer") /\ UNCHANGED <<cardChannels, registry, nextID>>
  BY <1>1 DEF Dies, TypeOK, PanicType
<1>2. ASSUME NEW x \in CardEffects(command.req),
             \/ status' = "ok" /\ cardChannels' = x[1] /\ reply' = x[2]
             \/ status' = "error" /\ cardChannels' \in {cardChannels, x[1]} /\ reply' = 0,
             UNCHANGED <<channels, stack, readerActive, command, result, panicked>>,
             UNCHANGED <<registry, nextID>>
      PROVE  TypeOK'
  <2>1. x[1] \in SUBSET LogicalChannels /\ x[2] \in Channels
    BY CardEffectsType DEF TypeOK
  <2>2. cardChannels' \in SUBSET LogicalChannels /\ reply' \in Channels
    BY <1>2, <2>1 DEF TypeOK, Channels
  <2> QED  BY <1>2, <2>2 DEF TypeOK
<1> QED  BY <1>1, <1>2 DEF ReaderAnswers

LEMMA RunLType == ASSUME TypeOK, RunL PROVE TypeOK'
<1>1. UNCHANGED <<registry, nextID, cardChannels>>
  BY DEF RunL
<1>2. SUFFICES ServerTyped'
  BY <1>1 DEF TypeOK, ServerTyped
<1>3. CASE Dies("message stack fault") \/ Dies("stray signal")
  BY <1>3 DEF Dies, TypeOK, ServerTyped, PanicType
<1>7. CASE CompletesAgain({Head(stack).msg}, Answer(Head(stack)))
  <2>1. Answer(Head(stack)) \in ResultType
    BY DEF Answer, ResultType
  <2> QED  BY <1>7, <2>1, AgainType, TypedParts
<1>4. ASSUME stack # << >> PROVE Head(stack) \in EntryType /\ Tail(stack) \in Seq(EntryType)
  BY <1>4 DEF TypeOK
<1>5. CASE stack # << >> /\ HandleNext(Tail(stack), channels, result, registry)
  BY <1>4, <1>5, HandleNextType, TypedParts DEF ServerTyped
<1>6. CASE /\ stack # << >>
           /\ HandleNext(Tail(stack), WithOpened(Head(stack)),
                         Completed(result, {Head(stack).msg}, Answer(Head(stack))), registry)
  <2> DEFINE ch == WithOpened(Head(stack))
             res == Completed(result, {Head(stack).msg}, Answer(Head(stack)))
  <2>1. ch \in [Channels -> SUBSET Nat]
    BY <1>4, <1>6 DEF WithOpened, TypeOK, EntryType
  <2>2. res \in [Messages -> ResultType]
    <3>1. Answer(Head(stack)) \in ResultType
      BY DEF Answer, ResultType
    <3> QED  BY <3>1, CompletedType DEF TypeOK
  <2>3. Tail(stack) \in Seq(EntryType) /\ HandleNext(Tail(stack), ch, res, registry) /\ ServerTyped
    BY <1>4, <1>6, TypedParts
  <2> HIDE DEF ch, res
  <2> QED  BY <2>1, <2>2, <2>3, HandleNextType
<1> QED  BY <1>3, <1>5, <1>6, <1>7 DEF RunL

LEMMA TypingStep == ASSUME TypeOK, [Next]_vars PROVE TypeOK'
<1>1. CASE UNCHANGED vars
  BY <1>1 DEF vars, TypeOK
<1>2. CASE ServerStep
  BY <1>2, ReaderAnswersType, RunLType, TimeOutType DEF ServerStep
<1>3. CASE CardRemoved
  BY <1>3, CardRemovedType
<1>4. ASSUME NEW s \in Sessions,
             Connect(s) \/ CancelTransmit(s) \/ Disconnect(s) \/ CloseSession(s)
      PROVE  TypeOK'
  BY <1>4, ConnectType, CancelTransmitType, DetachType, CloseSessionType DEF Disconnect
<1>5. ASSUME NEW s \in Sessions, NEW m \in Messages, NEW q \in Requests, Submit(s, m, q)
      PROVE  TypeOK'
  BY <1>5, SubmitType
<1> QED  BY <1>1, <1>2, <1>3, <1>4, <1>5 DEF Next

(***************************************************************************)
(* Every variable keeps its type, whatever clients, timers and the card    *)
(* do: in particular the stack holds whole TMessageHandle entries only,    *)
(* and the channel table never gets an index outside iChannels.            *)
(***************************************************************************)
THEOREM Typing == Spec => []TypeOK
<1>1. Init => TypeOK
  <2> SUFFICES ASSUME Init PROVE TypeOK
    OBVIOUS
  <2>1. registry \in [Sessions -> Nat] /\ result \in [Messages -> ResultType]
    BY DEF Init, ResultType
  <2>2. channels \in [Channels -> SUBSET Nat] /\ reply \in Channels
    BY DEF Init, Channels
  <2>3. command \in CommandType
    BY DEF Init, CommandType
  <2>4. panicked \in PanicType /\ cardChannels \in SUBSET LogicalChannels
    BY DEF Init, PanicType
  <2>5. stack \in Seq(EntryType)
    <3>1. stack = << >>
      BY DEF Init
    <3> QED  BY <3>1
  <2>6. readerActive \in BOOLEAN
    BY DEF Init
  <2>7. nextID \in Nat /\ status \in {"idle", "pending", "ok", "error", "cancel"}
    BY DEF Init
  <2> QED  BY <2>1, <2>2, <2>3, <2>4, <2>5, <2>6, <2>7 DEF TypeOK
<1> QED  BY <1>1, TypingStep, PTL DEF Spec

(***************************************************************************)
(* A message is completed once.                                            *)
(***************************************************************************)

\* What a cancel operation does to the entries: f maps new positions to old ones.
LEMMA CancelShape ==
  ASSUME NEW st \in Seq(EntryType), NEW hits \in SUBSET DOMAIN st,
         NEW t, t = AfterCancel(st, hits), NEW f, f = Origin(st, hits)
  PROVE  /\ t \in Seq(EntryType)
         /\ t = << >> <=> st = << >>
         /\ st # << >> => 1 \in DOMAIN t /\ f[1] = 1
         /\ f \in [DOMAIN t -> DOMAIN st]
         /\ \A j \in DOMAIN t :
              /\ t[j].msg = st[f[j]].msg /\ t[j].req = st[f[j]].req
              /\ t[j].sid = st[f[j]].sid /\ t[j].chan = st[f[j]].chan
              /\ Waiting(t[j]) <=> Waiting(st[f[j]]) /\ f[j] \notin hits
              /\ j = 1 <=> f[j] = 1
         /\ \A j, k \in DOMAIN t : f[j] = f[k] => j = k
         /\ \A i \in DOMAIN st : i \notin hits => \E j \in DOMAIN t : f[j] = i
<1>1. /\ t \in Seq(EntryType)
      /\ t = << >> <=> st = << >>
      /\ st # << >> => t[1] = IF 1 \in hits THEN Marked(st[1]) ELSE st[1]
      /\ f \in [DOMAIN t -> DOMAIN st]
      /\ st # << >> => f[1] = 1
      /\ \A j \in DOMAIN t : j # 1 => f[j] # 1 /\ f[j] \notin hits /\ t[j] = st[f[j]]
      /\ \A j, k \in DOMAIN t : j < k => f[j] < f[k]
      /\ \A i \in DOMAIN st : i = 1 \/ i \notin hits => \E j \in DOMAIN t : f[j] = i
  BY MarkedType, AfterCancelFacts
<1>2. /\ DOMAIN t = 1 .. Len(t) /\ Len(t) \in Nat /\ DOMAIN st = 1 .. Len(st) /\ Len(st) \in Nat
      /\ (t = << >> <=> Len(t) = 0)
  BY <1>1
<1>3. \A i \in DOMAIN st : st[i] \in EntryType
  OBVIOUS
<1>4. st # << >> => 1 \in DOMAIN t /\ 1 \in DOMAIN st
  BY <1>1, <1>2
<1>5. ASSUME NEW j \in DOMAIN t
      PROVE  /\ t[j].msg = st[f[j]].msg /\ t[j].req = st[f[j]].req
             /\ t[j].sid = st[f[j]].sid /\ t[j].chan = st[f[j]].chan
             /\ Waiting(t[j]) <=> Waiting(st[f[j]]) /\ f[j] \notin hits
             /\ j = 1 <=> f[j] = 1
  <2>1. st # << >>
    BY <1>1, <1>2
  <2>2. CASE j # 1
    BY <1>1, <2>2
  <2>3. CASE j = 1
    <3>1. f[j] = 1 /\ st[1] \in EntryType /\ t[j] = IF 1 \in hits THEN Marked(st[1]) ELSE st[1]
      BY <1>1, <1>3, <1>4, <2>1, <2>3
    <3>2. st[1].cancelled \in BOOLEAN
      BY <3>1 DEF EntryType
    <3>3. Waiting(Marked(st[1])) <=> FALSE
      BY <3>1 DEF Waiting, Marked, EntryType
    <3>4. /\ Marked(st[1]).msg = st[1].msg /\ Marked(st[1]).req = st[1].req
          /\ Marked(st[1]).sid = st[1].sid /\ Marked(st[1]).chan = st[1].chan
      BY <3>1 DEF Marked, EntryType
    <3> QED  BY <2>3, <3>1, <3>3, <3>4
  <2> QED  BY <2>2, <2>3
<1>6. ASSUME NEW j \in DOMAIN t, NEW k \in DOMAIN t, f[j] = f[k] PROVE j = k
  <2>1. j \in Nat /\ k \in Nat /\ f[j] \in Nat /\ f[k] \in Nat
    <3>1. \A x \in 1 .. Len(t) : x \in Nat
      OBVIOUS
    <3>2. \A x \in 1 .. Len(st) : x \in Nat
      OBVIOUS
    <3> QED  BY <1>1, <1>2, <3>1, <3>2
  <2>2. ~(j < k) /\ ~(k < j)
    BY <1>1, <1>6, <2>1
  <2> QED  BY <2>1, <2>2
<1> QED  BY <1>1, <1>4, <1>5, <1>6

\* Cancelling keeps the account: what it hits is completed, for good.
LEMMA CancelAccounted ==
  ASSUME NEW st \in Seq(EntryType), NEW hits \in SUBSET DOMAIN st,
         NEW res \in [Messages -> ResultType], Accounted(st, res),
         NEW why \in ResultType, Final(why)
  PROVE  Accounted(AfterCancel(st, hits), Completed(res, CompletedByCancel(st, hits), why))
<1> DEFINE t == AfterCancel(st, hits)
           f == Origin(st, hits)
           done == CompletedByCancel(st, hits)
           res2 == Completed(res, done, why)
<1>1. t = AfterCancel(st, hits) /\ f = Origin(st, hits)
  OBVIOUS
<1>2. \A m : m \in done <=> \E j \in hits : Waiting(st[j]) /\ st[j].msg = m
  BY DEF CompletedByCancel, Waiting
<1>3. \A m \in Messages : res2[m] = IF m \in done THEN why ELSE res[m]
  BY DEF Completed
<1> HIDE DEF t, f, done, res2
<1>4. /\ f \in [DOMAIN t -> DOMAIN st]
      /\ \A j \in DOMAIN t : /\ t[j].msg = st[f[j]].msg /\ t[j].req = st[f[j]].req
                             /\ Waiting(t[j]) <=> Waiting(st[f[j]]) /\ f[j] \notin hits
      /\ \A j, k \in DOMAIN t : f[j] = f[k] => j = k
  BY <1>1, CancelShape
<1>5. \A i \in DOMAIN st : st[i].msg \in Messages
  <2>1. \A i \in DOMAIN st : st[i] \in EntryType
    OBVIOUS
  <2> QED  BY <2>1 DEF EntryType
<1>6. ASSUME NEW j \in DOMAIN t
      PROVE  /\ res2[t[j].msg] # "unsent"
             /\ Waiting(t[j]) <=> res2[t[j].msg] = "waiting"
  <2>1. f[j] \in DOMAIN st /\ t[j].msg = st[f[j]].msg /\ t[j].msg \in Messages
    BY <1>4, <1>5
  <2>2. /\ res[t[j].msg] # "unsent"
        /\ Waiting(st[f[j]]) <=> res[t[j].msg] = "waiting"
    BY <2>1 DEF Accounted
  <2>3. CASE t[j].msg \in done
    <3>1. PICK i \in hits : Waiting(st[i]) /\ st[i].msg = t[j].msg
      BY <1>2, <2>3
    <3>2. i = f[j]
      BY <2>1, <3>1 DEF Accounted
    <3>3. res2[t[j].msg] = why /\ why # "unsent" /\ why # "waiting"
      BY <1>3, <2>1, <2>3 DEF Final
    <3> QED  BY <1>4, <3>1, <3>2, <3>3
  <2>4. CASE t[j].msg \notin done
    <3>1. res2[t[j].msg] = res[t[j].msg]
      BY <1>3, <2>1, <2>4
    <3>2. Waiting(st[f[j]]) => f[j] \notin hits
      BY <1>2, <2>1, <2>4
    <3> QED  BY <1>4, <2>2, <3>1, <3>2
  <2> QED  BY <2>3, <2>4
<1>7. ASSUME NEW j \in DOMAIN t, NEW k \in DOMAIN t, Waiting(t[j]), t[j].msg = t[k].msg
      PROVE  j = k
  BY <1>4, <1>7 DEF Accounted
<1>8. \A j \in DOMAIN t : Buffered(t[j].req)
  BY <1>4 DEF Accounted, Buffered
<1> QED  BY <1>6, <1>7, <1>8 DEF Accounted, t, res2, done

LEMMA TailAccounted ==
  ASSUME NEW st \in Seq(EntryType), st # << >>, NEW res, Accounted(st, res)
  PROVE  /\ Accounted(Tail(st), res)
         /\ Head(st).msg \in Messages /\ Tail(st) \in Seq(EntryType)
         /\ Buffered(Head(st).req)
         /\ Waiting(Head(st)) <=> res[Head(st).msg] = "waiting"
         /\ Waiting(Head(st)) => \A i \in DOMAIN Tail(st) : Tail(st)[i].msg # Head(st).msg
<1> DEFINE u == Tail(st)
<1>1. /\ u \in Seq(EntryType) /\ 1 \in DOMAIN st /\ Head(st) = st[1] /\ st[1] \in EntryType
      /\ \A i \in DOMAIN u : i \in Nat /\ i + 1 \in DOMAIN st /\ u[i] = st[i + 1] /\ i + 1 # 1
  OBVIOUS
<1> HIDE DEF u
<1>2. ASSUME NEW i \in DOMAIN u, NEW j \in DOMAIN u, Waiting(u[i]), u[i].msg = u[j].msg
      PROVE  i = j
  <2>1. i + 1 = j + 1 /\ i \in Nat /\ j \in Nat
    BY <1>1, <1>2 DEF Accounted
  <2> QED  BY <2>1
<1>3. Accounted(u, res)
  BY <1>1, <1>2 DEF Accounted
<1>4. Head(st).msg \in Messages
  BY <1>1 DEF EntryType
<1> QED  BY <1>1, <1>3, <1>4 DEF Accounted, u

LEMMA PutBackAccounted ==
  ASSUME NEW st \in Seq(EntryType), NEW res, NEW ch, Accounted(st, res)
  PROVE  Accounted(PutBack(st, ch), res)
BY TailAccounted DEF PutBack

\* An entry is added, in front or behind, for a message that has none.
LEMMA AddAccounted ==
  ASSUME NEW st \in Seq(EntryType), NEW res, Accounted(st, res),
         NEW e \in EntryType, Buffered(e.req), Waiting(e), res[e.msg] = "waiting",
         \A i \in DOMAIN st : st[i].msg # e.msg
  PROVE  Accounted(<<e>> \o st, res) /\ Accounted(Append(st, e), res)
<1> DEFINE u == <<e>> \o st
           v == Append(st, e)
<1>1. /\ DOMAIN u = 1 .. Len(st) + 1 /\ Len(st) \in Nat /\ DOMAIN st = 1 .. Len(st)
      /\ u[1] = e /\ \A i \in DOMAIN u : i # 1 => i - 1 \in DOMAIN st /\ u[i] = st[i - 1]
  OBVIOUS
<1>2. /\ DOMAIN v = 1 .. Len(st) + 1 /\ v[Len(st) + 1] = e
      /\ \A i \in DOMAIN v : i # Len(st) + 1 => i \in DOMAIN st /\ v[i] = st[i]
  OBVIOUS
<1>3. \A i \in 1 .. Len(st) + 1 : i \in Nat
  OBVIOUS
<1> HIDE DEF u, v
<1>4. \A i, j \in DOMAIN u : Waiting(u[i]) /\ u[i].msg = u[j].msg => i = j
  <2> SUFFICES ASSUME NEW i \in DOMAIN u, NEW j \in DOMAIN u, Waiting(u[i]), u[i].msg = u[j].msg
               PROVE  i = j
    OBVIOUS
  <2>1. CASE i = 1 \/ j = 1
    BY <1>1, <2>1
  <2>2. CASE i # 1 /\ j # 1
    <3>1. i - 1 = j - 1
      BY <1>1, <2>2 DEF Accounted
    <3> QED  BY <1>1, <1>3, <3>1
  <2> QED  BY <2>1, <2>2
<1>5. \A i \in DOMAIN u : res[u[i].msg] # "unsent" /\ (Waiting(u[i]) <=> res[u[i].msg] = "waiting")
  <2> SUFFICES ASSUME NEW i \in DOMAIN u
               PROVE  res[u[i].msg] # "unsent" /\ (Waiting(u[i]) <=> res[u[i].msg] = "waiting")
    OBVIOUS
  <2>1. CASE i = 1
    BY <1>1, <2>1
  <2>2. CASE i # 1
    BY <1>1, <2>2 DEF Accounted
  <2> QED  BY <2>1, <2>2
<1>6. \A i, j \in DOMAIN v : Waiting(v[i]) /\ v[i].msg = v[j].msg => i = j
  BY <1>2 DEF Accounted
<1>7. \A i \in DOMAIN v : res[v[i].msg] # "unsent" /\ (Waiting(v[i]) <=> res[v[i].msg] = "waiting")
  BY <1>2 DEF Accounted
<1>8. /\ \A i \in DOMAIN u : Buffered(u[i].req)
      /\ \A i \in DOMAIN v : Buffered(v[i].req)
  BY <1>1, <1>2 DEF Accounted
<1>9. Accounted(u, res) /\ Accounted(v, res)
  BY <1>4, <1>5, <1>6, <1>7, <1>8 DEF Accounted
<1> QED  BY <1>9 DEF u, v
-----------------------------------------------------------------------------
\* No message that was completed gets another result.
Kept == \A m \in Messages : Final(result[m]) => result'[m] = result[m]

\* A handler works on from an account of its own, which agrees with the result
\* variable on all that was completed before.
Continues(st, res) ==
  /\ st \in Seq(EntryType)
  /\ res \in [Messages -> ResultType]
  /\ Accounted(st, res)
  /\ \A m \in Messages : Final(result[m]) => res[m] = result[m]

LEMMA DiesAccounted ==
  ASSUME StackAccounted, NEW why, Dies(why) PROVE StackAccounted' /\ Kept
BY DEF Dies, StackAccounted, Accounted, Kept, Waiting

LEMMA IdleAccounted ==
  ASSUME NEW st, NEW ch, NEW res, Continues(st, res), stack' = st, result' = res
  PROVE  StackAccounted' /\ Kept
BY DEF StackAccounted, Accounted, Kept, Continues, Waiting

LEMMA ServeAccounted ==
  ASSUME StackAccounted, NEW st, NEW res, Continues(st, res),
         NEW m \in Messages, NEW q \in Requests, Buffered(q),
         NEW s, NEW id \in Nat, NEW ch,
         res[m] = "waiting" => \A i \in DOMAIN st : st[i].msg # m,
         Serve(m, q, s, id, st, ch, res)
  PROVE  StackAccounted' /\ Kept
<1> DEFINE table == Table(q, id, ch)
           res2 == Completed(res, {m}, "refused")
<1>1. CASE Dies("stale message") \/ Dies("no timer") \/ Dies("push failed")
  BY <1>1, DiesAccounted
<1>2. CASE res[m] = "waiting" /\ StaysIdle(st, table, res2)
  <2>1. \A x \in Messages : res2[x] = IF x = m THEN "refused" ELSE res[x]
    BY DEF Completed
  <2>2. \A i \in DOMAIN st : st[i].msg \in Messages /\ st[i].msg # m
    <3>1. \A i \in DOMAIN st : st[i] \in EntryType
      BY DEF Continues
    <3> QED  BY <1>2, <3>1 DEF EntryType
  <2>3. res2 \in [Messages -> ResultType]
    BY CompletedType DEF Continues, ResultType
  <2> HIDE DEF res2
  <2>4. Accounted(st, res2)
    BY <2>1, <2>2 DEF Accounted, Continues
  <2>5. \A x \in Messages : Final(result[x]) => res2[x] = result[x]
    BY <1>2, <2>1 DEF Continues, Final
  <2>6. stack' = st /\ result' = res2
    BY <1>2 DEF StaysIdle
  <2>7. Continues(st, res2)
    BY <2>3, <2>4, <2>5 DEF Continues
  <2> QED  BY <2>6, <2>7, IdleAccounted
<1>3. CASE StaysIdle(st, table, res)
  BY <1>3, IdleAccounted DEF StaysIdle
<1>4. CASE res[m] = "waiting" /\ Starts(m, q, id, s, st, table, res)
  <2> DEFINE e == NewEntry(m, q, id, q.timed)
  <2>1. e \in EntryType
    <3>1. q.timed \in BOOLEAN
      BY RequestsAssumption DEF RequestType
    <3> QED  BY <3>1, NewEntryType
  <2>2. Waiting(e) /\ e.msg = m /\ Buffered(e.req)
    BY DEF NewEntry, Waiting
  <2>3. (stack' = st \/ stack' = <<e>> \o st) /\ result' = res
    BY <1>4 DEF Starts
  <2> HIDE DEF e
  <2>4. Accounted(<<e>> \o st, res)
    BY <1>4, <2>1, <2>2, AddAccounted DEF Continues
  <2>5. Continues(<<e>> \o st, res)
    BY <2>1, <2>4 DEF Continues
  <2> QED  BY <2>3, <2>5, IdleAccounted
<1>5. q.op # "capsNoBuffer"
  BY DEF Buffered
<1> QED  BY <1>1, <1>2, <1>3, <1>4, <1>5 DEF Serve

LEMMA HandleNextAccounted ==
  ASSUME StackAccounted, NEW st, NEW res, Continues(st, res), NEW ch, NEW reg,
         HandleNext(st, ch, res, reg)
  PROVE  StackAccounted' /\ Kept
<1>1. CASE StaysIdle(st, ch, res)
  BY <1>1, IdleAccounted DEF StaysIdle
<1>2. CASE Dies("no session")
  BY <1>2, DiesAccounted
<1>3. ASSUME st # << >>, NEW s \in Sessions,
             Serve(Head(st).msg, Head(st).req, s, Head(st).sid, Tail(st), ch, res)
      PROVE  StackAccounted' /\ Kept
  <2> DEFINE e == Head(st)
             u == Tail(st)
  <2>1. e \in EntryType
    BY <1>3 DEF Continues
  <2>2. e.msg \in Messages /\ e.req \in Requests /\ e.sid \in Nat
    BY <2>1 DEF EntryType
  <2>3. /\ Accounted(u, res) /\ u \in Seq(EntryType) /\ Buffered(e.req)
        /\ res[e.msg] = "waiting" => \A i \in DOMAIN u : u[i].msg # e.msg
    BY <1>3, TailAccounted DEF Continues
  <2>4. Continues(u, res)
    BY <2>3 DEF Continues
  <2>5. Serve(e.msg, e.req, s, e.sid, u, ch, res)
    BY <1>3
  <2> HIDE DEF e, u
  <2> QED  BY <2>2, <2>3, <2>4, <2>5, ServeAccounted
<1> QED  BY <1>1, <1>2, <1>3 DEF HandleNext

LEMMA HandleNextIfReadyAccounted ==
  ASSUME StackAccounted, NEW st, NEW res, Continues(st, res), NEW ch, NEW reg,
         HandleNextIfReady(st, ch, res, reg)
  PROVE  StackAccounted' /\ Kept
<1>1. CASE stack' = st /\ result' = res
  BY <1>1, IdleAccounted
<1>2. CASE HandleNext(st, ch, res, reg)
  BY <1>2, HandleNextAccounted
<1> QED  BY <1>1, <1>2 DEF HandleNextIfReady

\* Cancelling continues from the state before.
LEMMA CancelContinues ==
  ASSUME TypeOK, StackAccounted, NEW hits \in SUBSET DOMAIN stack,
         NEW why \in ResultType, Final(why)
  PROVE  Continues(AfterCancel(stack, hits),
                   Completed(result, CompletedByCancel(stack, hits), why))
<1> DEFINE t == AfterCancel(stack, hits)
           done == CompletedByCancel(stack, hits)
           res == Completed(result, done, why)
<1>1. t \in Seq(EntryType) /\ res \in [Messages -> ResultType] /\ Accounted(t, res)
  BY CancelType, CancelAccounted DEF TypeOK, StackAccounted
<1>2. \A m \in done : result[m] = "waiting"
  <2>1. \A m \in done : \E i \in DOMAIN stack : Waiting(stack[i]) /\ stack[i].msg = m
    BY DEF CompletedByCancel, Waiting
  <2> QED  BY <2>1 DEF StackAccounted, Accounted
<1>3. \A m \in Messages : Final(result[m]) => res[m] = result[m]
  <2> HIDE DEF done
  <2> QED  BY <1>2 DEF Completed, Final
<1> QED  BY <1>1, <1>3 DEF Continues, t, res, done

LEMMA PresentContinues ==
  ASSUME TypeOK, StackAccounted PROVE Continues(stack, result)
BY DEF TypeOK, StackAccounted, Continues

LEMMA PutBackContinues ==
  ASSUME NEW st, NEW res, Continues(st, res), NEW ch
  PROVE  Continues(PutBack(st, ch), res)
BY PutBackType, PutBackAccounted DEF Continues

LEMMA FinalReasons ==
  /\ \A r \in {"cancelled", "timeout", "nocard"} : r \in ResultType /\ Final(r)
  /\ \A e : Answer(e) \in ResultType /\ Final(Answer(e))
BY DEF ResultType, Final, Answer

LEMMA SubmitAccounted ==
  ASSUME TypeOK, StackAccounted,
         NEW s \in Sessions, NEW m \in Messages, NEW q \in Requests, Buffered(q),
         Submit(s, m, q)
  PROVE  StackAccounted' /\ Kept
<1> DEFINE id == registry[s]
           res == [result EXCEPT ![m] = "waiting"]
           e == NewEntry(m, q, id, q.timed /\ q.op # "close")
<1>1. id \in Nat /\ stack \in Seq(EntryType) /\ result \in [Messages -> ResultType]
  BY DEF TypeOK
<1>2. result[m] = "unsent"
  BY DEF Submit
<1>3. \A i \in DOMAIN stack : stack[i].msg \in Messages /\ stack[i].msg # m
  <2>1. \A i \in DOMAIN stack : stack[i] \in EntryType
    BY <1>1
  <2> QED  BY <1>2, <2>1 DEF EntryType, StackAccounted, Accounted
<1>4. ASSUME NEW r \in ResultType
      PROVE  Continues(stack, [result EXCEPT ![m] = r])
  <2>1. \A x \in Messages :
          [result EXCEPT ![m] = r][x] = IF x = m THEN r ELSE result[x]
    BY <1>1
  <2>2. Accounted(stack, [result EXCEPT ![m] = r])
    BY <1>3, <2>1 DEF StackAccounted, Accounted
  <2> QED  BY <1>1, <1>2, <2>1, <2>2 DEF Continues, Final
<1>5. CASE \E r \in {"ok", "refused"} : stack' = stack /\ result' = [result EXCEPT ![m] = r]
  <2>1. PICK r \in {"ok", "refused"} : stack' = stack /\ result' = [result EXCEPT ![m] = r]
    BY <1>5
  <2>2. r \in ResultType
    BY <2>1 DEF ResultType
  <2> QED  BY <1>4, <2>1, <2>2, IdleAccounted
<1>6. Continues(stack, res) /\ res[m] = "waiting"
  BY <1>1, <1>4 DEF ResultType
<1>7. CASE Serve(m, q, s, id, stack, channels, res)
  <2> HIDE DEF res, id
  <2> QED  BY <1>1, <1>3, <1>6, <1>7, ServeAccounted
<1>9. CASE Dies("no timer")
  BY <1>9, DiesAccounted
<1>8. CASE stack' = Append(stack, e) /\ result' = res
  <2>1. e \in EntryType
    BY <1>1, NewEntryType
  <2>2. Waiting(e) /\ e.msg = m /\ Buffered(e.req)
    BY DEF NewEntry, Waiting
  <2> HIDE DEF e, res
  <2>3. Accounted(Append(stack, e), res)
    BY <1>1, <1>3, <1>6, <2>1, <2>2, AddAccounted DEF Continues
  <2>4. Continues(Append(stack, e), res)
    BY <1>1, <1>6, <2>1, <2>3 DEF Continues
  <2> QED  BY <1>8, <2>4, IdleAccounted
<1> HIDE DEF e
<1> QED  BY <1>5, <1>7, <1>8, <1>9 DEF Submit, e

LEMMA RunLAccounted == ASSUME TypeOK, StackAccounted, RunL PROVE StackAccounted' /\ Kept
<1>1. CASE Dies("message stack fault") \/ Dies("stray signal")
  BY <1>1, DiesAccounted
<1> DEFINE e == Head(stack)
           u == Tail(stack)
           res == Completed(result, {e.msg}, Answer(e))
<1>2. ASSUME stack # << >>
      PROVE  /\ Continues(u, result)
             /\ Waiting(e) => Continues(u, res) /\ result[e.msg] = "waiting"
  <2>1. /\ u \in Seq(EntryType) /\ Accounted(u, result)
        /\ e.msg \in Messages
        /\ Waiting(e) <=> result[e.msg] = "waiting"
        /\ Waiting(e) => \A i \in DOMAIN u : u[i].msg # e.msg
    BY <1>2, TailAccounted DEF TypeOK, StackAccounted
  <2> HIDE DEF u, e
  <2>2. \A x \in Messages : res[x] = IF x = e.msg THEN Answer(e) ELSE result[x]
    BY DEF Completed
  <2>3. res \in [Messages -> ResultType]
    BY CompletedType, FinalReasons DEF TypeOK
  <2>4. \A i \in DOMAIN u : u[i].msg \in Messages
    <3>1. \A i \in DOMAIN u : u[i] \in EntryType
      BY <2>1
    <3> QED  BY <3>1 DEF EntryType
  <2> HIDE DEF res
  <2>5. Waiting(e) => Accounted(u, res)
    BY <2>1, <2>2, <2>4 DEF Accounted
  <2>6. Waiting(e) => \A x \in Messages : Final(result[x]) => res[x] = result[x]
    BY <2>1, <2>2 DEF Final
  <2> QED  BY <2>1, <2>3, <2>5, <2>6 DEF Continues, TypeOK
<1>3. CASE stack # << >> /\ HandleNext(u, channels, result, registry)
  BY <1>2, <1>3, HandleNextAccounted
<1>4. CASE stack # << >> /\ Waiting(e) /\ HandleNext(u, WithOpened(e), res, registry)
  <2>1. Continues(u, res) /\ HandleNext(u, WithOpened(e), res, registry)
    BY <1>2, <1>4
  <2> HIDE DEF u, res, e
  <2> QED  BY <2>1, HandleNextAccounted
<1>5. ~(stack # << >> /\ Waiting(e) /\ CompletesAgain({e.msg}, Answer(e)))
  <2> HIDE DEF e, u, res
  <2> QED  BY <1>2 DEF CompletesAgain, Again
<1> QED  BY <1>1, <1>3, <1>4, <1>5 DEF RunL, Waiting

\* What a cancel operation completes waits for its completion.
LEMMA CancelsWaiting ==
  ASSUME StackAccounted, NEW hits \in SUBSET DOMAIN stack
  PROVE  /\ ~Again(CompletedByCancel(stack, hits))
         /\ \A why : ~CompletesAgain(CompletedByCancel(stack, hits), why)
<1> DEFINE done == CompletedByCancel(stack, hits)
<1>1. \A m \in done : \E i \in DOMAIN stack : Waiting(stack[i]) /\ stack[i].msg = m
  BY DEF CompletedByCancel, Waiting
<1>2. \A m \in done : result[m] = "waiting"
  BY <1>1 DEF StackAccounted, Accounted
<1> HIDE DEF done
<1>3. ~Again(done) /\ \A why : ~CompletesAgain(done, why)
  BY <1>2 DEF Again, CompletesAgain
<1> QED  BY <1>3 DEF done

LEMMA AccountedStep ==
  ASSUME TypeOK, StackAccounted, [BufferedNext]_vars PROVE StackAccounted' /\ Kept
<1>1. CASE stack' = stack /\ result' = result
  BY <1>1, PresentContinues, IdleAccounted
<1>2. CASE ReaderAnswers
  BY <1>1, <1>2, DiesAccounted DEF ReaderAnswers
<1>3. CASE RunL
  BY <1>3, RunLAccounted
<1>4. ASSUME NEW m \in Messages, TimeOut(m) PROVE StackAccounted' /\ Kept
  <2> DEFINE hits == WithTimerOf(stack, m)
  <2>1. /\ hits \in SUBSET DOMAIN stack
        /\ stack' = AfterCancel(stack, hits)
        /\ result' = Completed(result, CompletedByCancel(stack, hits), "timeout")
    BY <1>4, HitsAreInStack, CancelsWaiting DEF TimeOut
  <2> HIDE DEF hits
  <2>2. Continues(stack', result')
    BY <2>1, CancelContinues, FinalReasons
  <2> QED  BY <2>1, <2>2, IdleAccounted
<1>5. CASE CardRemoved
  <2>1. /\ stack' = AfterCancel(stack, DOMAIN stack)
        /\ result' = Completed(result, CompletedByCancel(stack, DOMAIN stack), "nocard")
    BY <1>5, CancelsWaiting DEF CardRemoved
  <2>2. Continues(stack', result')
    BY <2>1, CancelContinues, FinalReasons
  <2> QED  BY <2>1, <2>2, IdleAccounted
<1>6. ASSUME NEW s \in Sessions, Connect(s) PROVE StackAccounted' /\ Kept
  <2> DEFINE reg == [registry EXCEPT ![s] = nextID + 1]
             ch == [channels EXCEPT ![0] = @ \cup {nextID, nextID + 1}]
  <2>1. HandleNextIfReady(PutBack(stack, ch), ch, result, reg)
    BY <1>6 DEF Connect
  <2> HIDE DEF reg, ch
  <2>2. Continues(PutBack(stack, ch), result)
    BY PresentContinues, PutBackContinues
  <2> QED  BY <2>1, <2>2, HandleNextIfReadyAccounted
<1>7. ASSUME NEW s \in Sessions
      PROVE  LET hits == OfSession(stack, registry[s]) IN
             Continues(AfterCancel(stack, hits),
                       Completed(result, CompletedByCancel(stack, hits), "cancelled"))
  BY HitsAreInStack, CancelContinues, FinalReasons
<1>8. ASSUME NEW s \in Sessions, CancelTransmit(s) PROVE StackAccounted' /\ Kept
  <2> DEFINE hits == OfSession(stack, registry[s])
             st == AfterCancel(stack, hits)
             res == Completed(result, CompletedByCancel(stack, hits), "cancelled")
  <2>1. stack' = PutBack(st, channels) /\ result' = res
    BY <1>8, HitsAreInStack, CancelsWaiting DEF CancelTransmit
  <2>2. Continues(st, res)
    BY <1>7
  <2> HIDE DEF st, res
  <2>3. Continues(PutBack(st, channels), res)
    BY <2>2, PutBackContinues
  <2> QED  BY <2>1, <2>3, IdleAccounted
<1>9. ASSUME NEW s \in Sessions, Detach(s) PROVE StackAccounted' /\ Kept
  <2> DEFINE hits == OfSession(stack, registry[s])
             st == AfterCancel(stack, hits)
             res == Completed(result, CompletedByCancel(stack, hits), "cancelled")
             reg == [registry EXCEPT ![s] = 0]
  <2>1. HandleNextIfReady(st, channels, res, reg)
    BY <1>9, HitsAreInStack, CancelsWaiting DEF Detach
  <2>2. Continues(st, res)
    BY <1>7
  <2> HIDE DEF st, res, reg
  <2> QED  BY <2>1, <2>2, HandleNextIfReadyAccounted
<1>10. ASSUME NEW s \in Sessions, CloseSession(s) PROVE StackAccounted' /\ Kept
  <2> DEFINE hits == OfSession(stack, registry[s])
             st == AfterCancel(stack, hits)
             res == Completed(result, CompletedByCancel(stack, hits), "cancelled")
  <2>1. CASE stack' = st /\ result' = res
    <3>1. Continues(st, res)
      BY <1>7
    <3> HIDE DEF st, res
    <3> QED  BY <2>1, <3>1, IdleAccounted
  <2>2. CASE Detach(s)
    BY <1>9, <2>2
  <2>3. CASE stack' = stack /\ result' = result
    BY <1>1, <2>3
  <2> QED  BY <1>10, <2>1, <2>2, <2>3, HitsAreInStack, CancelsWaiting DEF CloseSession
<1>11. ASSUME NEW s \in Sessions, NEW m \in Messages, NEW q \in Requests,
              Buffered(q), Submit(s, m, q)
       PROVE  StackAccounted' /\ Kept
  BY <1>11, SubmitAccounted
<1> QED  BY <1>1, <1>2, <1>3, <1>4, <1>5, <1>6, <1>8, <1>9, <1>10, <1>11
         DEF BufferedNext, ServerStep, Disconnect, vars

LEMMA BufferedTyping == BufferedSpec => []TypeOK
<1>1. [BufferedNext]_vars => [Next]_vars
  BY DEF BufferedNext, Next
<1> QED  BY <1>1, Typing, PTL DEF BufferedSpec, Spec

(***************************************************************************)
(* Whatever else clients ask for, cancel and close, whenever timers expire *)
(* and the card is pulled out: a message that has been completed is not    *)
(* completed again, by a late answer of the reader, a late time-out, or a  *)
(* cancelled entry that RunL takes for a waiting one.  The condition is    *)
(* needed: a GetCapabilities without room for its answer is completed with *)
(* the error (ScardSession.cpp:401-415) while its entry stays on the stack *)
(* and the controller stays active, so RunL completes it once more.        *)
(***************************************************************************)
THEOREM OnceCompleted == BufferedSpec => CompletedOnce
<1>1. Init => StackAccounted
  BY DEF Init, StackAccounted, Accounted
<1>2. TypeOK /\ StackAccounted /\ [BufferedNext]_vars
      => StackAccounted' /\ [\A m \in Messages : Final(result[m]) => result'[m] = result[m]]_result
  BY AccountedStep DEF Kept
<1> QED  BY <1>1, <1>2, BufferedTyping, PTL DEF BufferedSpec, CompletedOnce

=============================================================================
