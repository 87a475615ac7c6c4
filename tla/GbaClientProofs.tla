-------------------------- MODULE GbaClientProofs ---------------------------
(***************************************************************************)
(* Proofs about the client library of GBA, for any runs and identities,    *)
(* and an application that starts and cancels bootstraps whenever it may.  *)
(***************************************************************************)
EXTENDS GbaClient, TLAPS

Answered == [code : Codes \union {"none"}, btid : Runs \union {NoRun},
             key : Runs \union {NoRun}, identity : Impi \union {NoImpi}]
Phases == {"closed", "idle", "busy", "cancelled"}

\* What is to come is one answer, which is not there yet.
OneAnswer ==
    /\ sent \/ phase[handler] = "busy" => iStatus = "pending"
    /\ ~(sent /\ phase[handler] = "busy")

Kept == TypeOK /\ AnswerIsAwaited /\ OneAnswer

\* What the server answers.
LEMMA AnswersAre ==
    ASSUME TypeOK, NEW a \in Answered, Server!Answers(handler, a)
    PROVE  answer' \in [{handler} -> Answered] /\ answer'[handler] = a
BY DEF TypeOK, Answered, Server!Answers

LEMMA PlainIs ==
    ASSUME NEW code \in Codes \union {"none"}
    PROVE  Server!NoCredentials(code) \in Answered /\ Server!NoCredentials(code).code = code
BY DEF Answered, Server!NoCredentials

LEMMA MovesIs ==
    ASSUME TypeOK, NEW from, NEW to \in Phases, Server!Moves(handler, from, to)
    PROVE  phase[handler] \in from /\ phase' \in [{handler} -> Phases] /\ phase'[handler] = to
BY DEF TypeOK, Phases, Server!Moves

LEMMA CodesAre == {"KErrNone", "KErrCancel", "KErrInUse", "failed"} = Codes
BY DEF Codes

LEMMA KeptInit == Init => Kept
<1> SUFFICES ASSUME Init PROVE Kept
  OBVIOUS
<1>1. phase = [s \in {handler} |-> "closed"]
  BY DEF Init, Server!Init
<1>2. answer = [s \in {handler} |-> Server!NoCredentials("none")]
  BY DEF Init, Server!Init
<1>3. owner \in [Runs -> Impi \union {NoImpi}]
  BY DEF Init, Server!Init
<1>4. phase[handler] # "busy" /\ phase \in [{handler} -> Phases] /\ answer \in [{handler} -> Answered]
  BY <1>1, <1>2, PlainIs DEF Phases
<1> QED  BY <1>3, <1>4 DEF Init, Kept, TypeOK, AnswerIsAwaited, OneAnswer, Codes,
                           Phases, Answered

LEMMA ServerKeeps == ASSUME Kept, ServerStep PROVE Kept'
<1>1. CASE Connect
  <2>1. /\ phase' \in [{handler} -> Phases] /\ phase[handler] = "closed" /\ phase'[handler] = "idle"
        /\ answer' \in [{handler} -> Answered]
    BY <1>1, MovesIs, AnswersAre, PlainIs DEF Connect, Server!Open, Kept, Phases
  <2> QED  BY <1>1, <2>1 DEF Kept, TypeOK, AnswerIsAwaited, OneAnswer, Connect, clientVars,
                             Phases, Answered
<1>2. CASE Takes
  <2>1. CASE Server!Request(handler) /\ UNCHANGED iStatus
    <3>1. /\ phase' \in [{handler} -> Phases] /\ phase[handler] = "idle"
          /\ phase'[handler] = "busy" /\ UNCHANGED answer
      BY <2>1, MovesIs DEF Server!Request, Kept, Phases
    <3> QED  BY <1>2, <2>1, <3>1 DEF Kept, TypeOK, AnswerIsAwaited, OneAnswer, Takes, Phases
  <2>2. CASE Server!InUse(handler) /\ iStatus' = "KErrInUse"
    <3>1. answer' \in [{handler} -> Answered] /\ UNCHANGED phase
      BY <2>2, AnswersAre, PlainIs, CodesAre DEF Server!InUse, Kept
    <3> QED  BY <1>2, <2>2, <3>1, CodesAre DEF Kept, TypeOK, AnswerIsAwaited, OneAnswer, Takes,
                                               Answered
  <2> QED  BY <1>2, <2>1, <2>2 DEF Takes
<1>3. CASE Answers
  <2>1. PICK a \in Answered : /\ Server!Answers(handler, a) /\ a.code \in {"KErrNone", "failed"}
                              /\ Server!Moves(handler, {"busy"}, "idle")
    <3>1. CASE Server!Refuse(handler)
      BY <3>1, PlainIs, CodesAre DEF Server!Refuse
    <3>2. CASE Server!Grant(handler)
      <4>1. PICK k \in Runs : /\ owner[k] \in Impi
                              /\ Server!Answers(handler, [code |-> "KErrNone", btid |-> k, key |-> k,
                                                          identity |-> owner[k]])
        BY <3>2 DEF Server!Grant
      <4>2. [code |-> "KErrNone", btid |-> k, key |-> k, identity |-> owner[k]] \in Answered
        BY <4>1, CodesAre DEF Answered
      <4> QED  BY <3>2, <4>1, <4>2 DEF Server!Grant
    <3> QED  BY <1>3, <3>1, <3>2 DEF Answers
  <2>2. phase' \in [{handler} -> Phases] /\ answer' \in [{handler} -> Answered]
        /\ iStatus' = a.code
        /\ phase[handler] = "busy" /\ phase'[handler] = "idle"
    BY <1>3, <2>1, MovesIs, AnswersAre DEF Kept, Phases, Answers
  <2> QED  BY <1>3, <2>1, <2>2, CodesAre
           DEF Kept, TypeOK, AnswerIsAwaited, OneAnswer, Answers, Phases, Answered
<1>4. CASE Ends
  <2>1. /\ phase' \in [{handler} -> Phases] /\ phase[handler] = "cancelled"
        /\ phase'[handler] = "idle" /\ UNCHANGED answer
    BY <1>4, MovesIs DEF Ends, Server!Ends, Kept, Phases
  <2> QED  BY <1>4, <2>1 DEF Kept, TypeOK, AnswerIsAwaited, OneAnswer, Ends, clientVars, Phases
<1>5. CASE Authenticates
  <2>1. owner' \in [Runs -> Impi \union {NoImpi}] /\ UNCHANGED <<clientVars, phase, answer>>
    BY <1>5 DEF Authenticates, Server!Authenticate, Kept, TypeOK
  <2> QED  BY <2>1 DEF Kept, TypeOK, AnswerIsAwaited, OneAnswer, clientVars
<1> QED  BY <1>1, <1>2, <1>3, <1>4, <1>5 DEF ServerStep

LEMMA CancelBootstrapKeeps == ASSUME Kept, CancelBootstrap PROVE Kept'
<1>1. /\ phase' \in [{handler} -> Phases] /\ answer' \in [{handler} -> Answered]
      /\ iStatus' = "KErrCancel" \/ (iStatus' = iStatus /\ ~sent /\ phase[handler] = "idle")
      /\ phase'[handler] # "busy" /\ sent' = FALSE /\ active' = active
  <2> USE DEF CancelBootstrap
  <2>1. CASE /\ phase' = [phase EXCEPT ![handler] = "cancelled"]
             /\ Server!Answers(handler, Server!NoCredentials("KErrCancel"))
             /\ iStatus' = "KErrCancel"
    <3>1. phase' \in [{handler} -> Phases] /\ phase'[handler] = "cancelled"
      BY <2>1 DEF Kept, TypeOK, Phases
    <3> QED  BY <2>1, <3>1, AnswersAre, PlainIs, CodesAre DEF Kept
  <2>2. CASE Server!Cancel(handler) /\ iStatus' = "KErrCancel"
    BY <2>2, MovesIs, AnswersAre, PlainIs, CodesAre DEF Server!Cancel, Kept, Phases
  <2>4. CASE ~sent /\ phase[handler] = "idle" /\ UNCHANGED <<phase, answer, iStatus>>
    BY <2>4 DEF Kept, TypeOK, Phases, Answered
  <2> QED  BY <2>1, <2>2, <2>4 DEF CancelBootstrap
<1>2. TypeOK'
  BY <1>1, CodesAre DEF Kept, TypeOK, CancelBootstrap, Phases, Answered
<1>3. AnswerIsAwaited' /\ OneAnswer'
  BY <1>1 DEF Kept, AnswerIsAwaited, OneAnswer
<1> QED  BY <1>2, <1>3 DEF Kept

LEMMA KeptStep == Kept /\ [Next]_vars => Kept'
<1> SUFFICES ASSUME Kept, [Next]_vars PROVE Kept'
  OBVIOUS
<1>1. CASE Bootstrap
  BY <1>1 DEF Kept, TypeOK, AnswerIsAwaited, OneAnswer, Bootstrap
<1>2. CASE RunL
  BY <1>2 DEF Kept, TypeOK, AnswerIsAwaited, OneAnswer, RunL, ReportsError, ReportsCancel,
              ReportsCredentials, BootstrapComplete
<1>3. CASE UNCHANGED vars
  BY <1>3 DEF Kept, TypeOK, AnswerIsAwaited, OneAnswer, vars, clientVars
<1> QED  BY <1>1, <1>2, <1>3, ServerKeeps, CancelBootstrapKeeps DEF Next

\* The handler and the server keep their types.
THEOREM HandlerIsTyped == Spec => []TypeOK
<1>1. Kept => TypeOK
  BY DEF Kept
<1> QED  BY <1>1, KeptInit, KeptStep, PTL DEF Spec

\* The handler is active exactly as long as there is an answer to come for it,
\* or one it has not run for: no stray signal panics the application, and no
\* handler stays active for ever.
THEOREM AnswersAreAwaited == Spec => []AnswerIsAwaited
<1>1. Kept => AnswerIsAwaited
  BY DEF Kept
<1> QED  BY <1>1, KeptInit, KeptStep, PTL DEF Spec
=============================================================================
