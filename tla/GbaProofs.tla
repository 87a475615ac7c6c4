----------------------------- MODULE GbaProofs ------------------------------
(***************************************************************************)
(* Proofs about the GBA server.  The first part is about any clients,      *)
(* whatever they, the network and the card do: every variable keeps its    *)
(* type, and the retriever never outlives the bootstrap it works for.      *)
(***************************************************************************)
EXTENDS GbaClients, TLAPS

\* The constants of the module are answers, states, buffers of their types.
LEMMA ConstantsTyped ==
    /\ \A c \in Codes : Plain(c) \in Answers
    /\ Idle \in Machines /\ NoFetch \in Fetches /\ NoMemory \in Memories
    /\ NoStore \in Stores /\ NoOutput \in Outputs
BY DEF Plain, Answers, Idle, Machines, NoFetch, Fetches, NoMemory, Memories, NoStore,
       Stores, NoOutput, Outputs, RunOrNone, Identity, BootstrapStates

\* Credentials make an answer.
LEMMA AnswerTyped ==
    ASSUME NEW c \in Codes, NEW o \in Outputs
    PROVE  Answer(c, o) \in Answers
BY DEF Answer, Answers, Outputs

\* Completing a message keeps the types of what it changes.
LEMMA CompletesTyped ==
    ASSUME TypeOK, NEW s \in Sessions, NEW a \in Answers, Completes(s, a)
    PROVE  /\ message' \in [Sessions -> {"closed", "none", "waiting"}]
           /\ answer' \in [Sessions -> Answers]
           /\ fault' \in {"none", "stale message", "overflow", "hang", "no server"}
BY DEF TypeOK, Completes

\* RunError keeps the types of what it changes.
LEMMA RunErrorTyped ==
    ASSUME TypeOK, NEW s \in Sessions, NEW b \in BOOLEAN, RunError(s, b)
    PROVE  /\ message' \in [Sessions -> {"closed", "none", "waiting"}]
           /\ answer' \in [Sessions -> Answers]
           /\ fault' \in {"none", "stale message", "overflow", "hang", "no server"}
           /\ machine' \in [Sessions -> Machines]
<1>1. Plain("failed") \in Answers
  BY ConstantsTyped DEF Codes
<1>2. Completes(s, Plain("failed"))
  BY DEF RunError
<1>3. [state |-> "EIdle", active |-> b, status |-> IF b THEN "pending" ELSE "KErrNone"]
        \in Machines
  BY DEF Machines, BootstrapStates
<1>4. machine' \in [Sessions -> Machines]
  BY <1>3 DEF RunError, TypeOK
<1> QED
  BY <1>1, <1>2, <1>4, CompletesTyped

\* The buffers of a bootstrap keep their type when values of theirs replace others.
LEMMA MemoryChange ==
    ASSUME NEW m \in Memories, NEW i \in Identity, NEW b \in BOOLEAN
    PROVE  [m EXCEPT !.identity = i, !.gbau = b] \in Memories
BY DEF Memories

LEMMA MemoryRuns ==
    ASSUME NEW m \in Memories, NEW b \in RunOrNone, NEW k \in RunOrNone,
           NEW l \in RunOrNone
    PROVE  [m EXCEPT !.btid = b, !.ks = k, !.lifetime = l] \in Memories
BY DEF Memories

\* What a bootstrap reads before it begins has the types of its buffers.
LEMMA BeginningTyped ==
    ASSUME TypeOK, NEW s \in Sessions
    PROVE  /\ InterfaceAfter(s, card) \in BOOLEAN
           /\ StoreAfter(s, card) \in Stores
           /\ Checked(s) \in Memories
           /\ Loaded(s) \in Memories
           /\ Prepared(s) \in Memories
<1>1. InterfaceAfter(s, card) \in BOOLEAN
  <2>1. interface[s] \in BOOLEAN
    BY DEF TypeOK
  <2>2. (card \in GbaU) \in BOOLEAN
    OBVIOUS
  <2> QED
    BY <2>1, <2>2, Zenon DEF InterfaceAfter
<1>2. StoreAfter(s, card) \in Stores
  BY <1>1 DEF TypeOK, StoreAfter, Stores, NoStore, Identity, RunOrNone
<1>3. Checked(s) \in Memories
  <2>1. memory[s] \in Memories /\ card \in Identity
    BY DEF TypeOK, Identity
  <2>2. StoreAfter(s, card).gbau \in BOOLEAN
    BY <1>2 DEF Stores
  <2> QED
    BY <2>1, <2>2, MemoryChange DEF Checked
<1>4. Loaded(s) \in Memories
  <2> DEFINE file == StoreAfter(s, card)
             b == IF file.btid = NoRun THEN Checked(s).btid ELSE file.btid
             k == IF file.ks = NoRun THEN Checked(s).ks ELSE file.ks
             l == IF file.lifetime = NoRun THEN Checked(s).lifetime ELSE file.lifetime
  <2>1. /\ file.btid \in RunOrNone /\ file.ks \in RunOrNone
        /\ file.lifetime \in RunOrNone
    BY <1>2 DEF Stores
  <2>2. b \in RunOrNone /\ k \in RunOrNone /\ l \in RunOrNone
    BY <1>3, <2>1 DEF Memories
  <2>3. Loaded(s) = [Checked(s) EXCEPT !.btid = b, !.ks = k, !.lifetime = l]
    BY <1>3 DEF Loaded, Memories
  <2> HIDE DEF b, k, l, file
  <2>4. [Checked(s) EXCEPT !.btid = b, !.ks = k, !.lifetime = l] \in Memories
    BY <1>3, <2>2, MemoryRuns, Zenon
  <2> QED
    BY <2>3, <2>4, Zenon
<1>5. Prepared(s) \in Memories
  <2>1. [Loaded(s) EXCEPT !.btid = NoRun, !.ks = NoRun, !.lifetime = NoRun] \in Memories
    BY <1>4, MemoryRuns DEF RunOrNone
  <2> QED
    BY <1>3, <1>4, <2>1 DEF Prepared
<1> QED
  BY <1>1, <1>2, <1>3, <1>4, <1>5

-----------------------------------------------------------------------------
\* The initial state has the types.
LEMMA InitTyped == Init => TypeOK
BY ConstantsTyped, NothingAssumption
   DEF Init, TypeOK, RunOrNone, Identity, Codes

\* A bootstrap that has looked at card and file keeps the types of both.
LEMMA CheckDoneTyped ==
    ASSUME TypeOK, NEW s \in Sessions, CheckDone(s)
    PROVE  store' \in Stores /\ interface' \in [Sessions -> BOOLEAN]
BY BeginningTyped DEF CheckDone, TypeOK

\* Another identity in the buffer.
LEMMA IdentityTyped ==
    ASSUME TypeOK, NEW s \in Sessions, NEW i \in Identity,
           memory' = [memory EXCEPT ![s].identity = i]
    PROVE  memory' \in [Sessions -> Memories]
<1>1. memory \in [Sessions -> Memories] /\ memory[s] \in Memories
  BY DEF TypeOK
<1>2. [memory[s] EXCEPT !.identity = i] \in Memories
  BY <1>1 DEF Memories
<1> QED
  BY <1>1, <1>2

\* A look at the card and the file that fails.
LEMMA CheckLeavesTyped ==
    ASSUME TypeOK, NEW s \in Sessions, CheckLeaves(s)
    PROVE  /\ memory' \in [Sessions -> Memories] /\ store' \in Stores
           /\ interface' \in [Sessions -> BOOLEAN]
<1>1. \E i \in Identity : memory' = [memory EXCEPT ![s].identity = i]
  BY DEF CheckLeaves, TypeOK, Identity
<1>2. memory' \in [Sessions -> Memories]
  BY <1>1, IdentityTyped
<1>3. CASE UNCHANGED <<store, interface>>
  BY <1>2, <1>3 DEF TypeOK
<1>4. CASE /\ store' \in {store, NoStore}
           /\ interface' = [interface EXCEPT ![s] = card \in GbaU]
  <2>1. (card \in GbaU) \in BOOLEAN
    OBVIOUS
  <2> QED
    BY <1>2, <1>4, <2>1, ConstantsTyped DEF TypeOK
<1> QED
  BY <1>3, <1>4 DEF CheckLeaves

\* What is in the buffers when the file fails.
LEMMA PartlyTyped ==
    ASSUME TypeOK, NEW s \in Sessions
    PROVE  PartlyLoaded(s) \subseteq Memories
<1>1. Checked(s) \in Memories /\ Loaded(s) \in Memories
  BY BeginningTyped
<1> HIDE DEF Checked, Loaded
<1> QED
  BY <1>1 DEF PartlyLoaded, Memories

\* The messages of a client keep the types.
LEMMA ClientTyped ==
    ASSUME TypeOK, NEW s \in Sessions, Client(s)
    PROVE  TypeOK'
<1>1. ASSUME OpenSession(s) PROVE TypeOK'
  <2>1. Plain("none") \in Answers
    BY ConstantsTyped DEF Codes
  <2>2. (card \in GbaU) \in BOOLEAN
    OBVIOUS
  <2>3. answer' \in [Sessions -> Answers] /\ interface' \in [Sessions -> BOOLEAN]
    BY <1>1, <2>1, <2>2 DEF OpenSession, TypeOK
  <2> QED
    BY <1>1, <2>3 DEF OpenSession, TypeOK, cardVars
<1>2. ASSUME NEW f \in BOOLEAN, RequestBootstrap(s, f) PROVE TypeOK'
  <2>1. Plain("KErrInUse") \in Answers
    BY ConstantsTyped DEF Codes
  <2>2. [state |-> "EInitialize", active |-> TRUE, status |-> "KErrNone"] \in Machines
    BY DEF Machines, BootstrapStates
  <2>3. /\ answer' \in [Sessions -> Answers] /\ machine' \in [Sessions -> Machines]
        /\ message' \in [Sessions -> {"closed", "none", "waiting"}]
        /\ force' \in [Sessions -> BOOLEAN]
    BY <1>2, <2>1, <2>2 DEF RequestBootstrap, TypeOK
  <2> QED
    BY <1>2, <2>3 DEF RequestBootstrap, TypeOK, cardVars
<1>3. ASSUME CancelRequest(s) PROVE TypeOK'
  <2>1. Plain("KErrCancel") \in Answers
    BY ConstantsTyped DEF Codes
  <2>2. Completes(s, Plain("KErrCancel"))
    BY <1>3 DEF CancelRequest
  <2>3. machine' \in [Sessions -> Machines]
    <3> DEFINE st == IF fetch[s].called THEN "KErrCancel" ELSE machine[s].status
    <3>1. machine[s] \in Machines /\ machine \in [Sessions -> Machines]
      BY DEF TypeOK
    <3>2. [machine[s] EXCEPT !.state = "ECancel", !.status = st] \in Machines
      BY <3>1 DEF Machines, BootstrapStates
    <3>3. machine' = [machine EXCEPT ![s] =
              [machine[s] EXCEPT !.state = "ECancel", !.status = st]]
      BY <1>3, <3>1 DEF CancelRequest, Machines
    <3> QED
      BY <3>1, <3>2, <3>3
  <2>4. fetch' \in [Sessions -> Fetches]
    BY <1>3, ConstantsTyped DEF CancelRequest, TypeOK
  <2>5. /\ message' \in [Sessions -> {"closed", "none", "waiting"}]
        /\ answer' \in [Sessions -> Answers]
        /\ fault' \in {"none", "stale message", "overflow", "hang", "no server"}
    BY <2>1, <2>2, CompletesTyped
  <2> QED
    BY <1>3, <2>3, <2>4, <2>5 DEF CancelRequest, TypeOK, cardVars
<1>4. ASSUME IsGBAUSupported(s) PROVE TypeOK'
  <2>1. \/ memory' = [memory EXCEPT ![s].identity = card] /\ CheckDone(s)
        \/ CheckLeaves(s)
    BY <1>4 DEF IsGBAUSupported
  <2>2. /\ memory' \in [Sessions -> Memories] /\ store' \in Stores
        /\ interface' \in [Sessions -> BOOLEAN]
    <3>1. card \in Identity
      BY DEF TypeOK, Identity
    <3> QED
      BY <2>1, <3>1, IdentityTyped, CheckDoneTyped, CheckLeavesTyped
  <2> QED
    BY <1>4, <2>2 DEF IsGBAUSupported, TypeOK, cardVars
<1>4a. ASSUME OpenFails(s) \/ BadRequest(s) PROVE TypeOK'
  <2>1. Plain("failed") \in Answers
    BY ConstantsTyped DEF Codes
  <2>2. CASE OpenFails(s)
    BY <2>2 DEF OpenFails, TypeOK, sessionVars, cardVars
  <2>3. CASE BadRequest(s)
    <3>1. answer' \in [Sessions -> Answers]
      BY <2>1, <2>3 DEF BadRequest, TypeOK
    <3> QED
      BY <2>3, <3>1 DEF BadRequest, TypeOK, cardVars
  <2> QED
    BY <1>4a, <2>2, <2>3
<1>5. ASSUME CloseSession(s) PROVE TypeOK'
  <2>1. Plain("none") \in Answers
    BY ConstantsTyped DEF Codes
  <2>2. CASE machine[s].active /\ machine[s].status = "pending" /\ ~fetch[s].called
    <3>1. sessionVars' = sessionVars /\ shutdown' = shutdown /\ fault' = "hang"
      BY <1>5, <2>2 DEF CloseSession
    <3>2. store' = store /\ cardVars' = cardVars
      BY <1>5 DEF CloseSession
    <3> QED
      BY <3>1, <3>2 DEF TypeOK, cardVars, sessionVars
  <2>3. CASE ~(machine[s].active /\ machine[s].status = "pending" /\ ~fetch[s].called)
    <3>1. /\ message' = [message EXCEPT ![s] = "closed"]
          /\ machine' = [machine EXCEPT ![s] = Idle]
          /\ fetch' = [fetch EXCEPT ![s] = NoFetch]
          /\ memory' = [memory EXCEPT ![s] = NoMemory]
          /\ output' = [output EXCEPT ![s] = NoOutput]
          /\ answer' = [answer EXCEPT ![s] = Plain("none")]
          /\ interface' = [interface EXCEPT ![s] = FALSE]
          /\ force' = [force EXCEPT ![s] = FALSE]
      BY <1>5, <2>3 DEF CloseSession
    <3>5. /\ message' \in [Sessions -> {"closed", "none", "waiting"}]
          /\ interface' \in [Sessions -> BOOLEAN] /\ force' \in [Sessions -> BOOLEAN]
      BY <3>1 DEF TypeOK
    <3>6. /\ machine' \in [Sessions -> Machines] /\ fetch' \in [Sessions -> Fetches]
          /\ memory' \in [Sessions -> Memories] /\ output' \in [Sessions -> Outputs]
          /\ answer' \in [Sessions -> Answers]
      BY <2>1, <3>1, ConstantsTyped DEF TypeOK
    <3>2. shutdown' = "running" \/ shutdown' = shutdown
      BY <1>5, <2>3 DEF CloseSession, LastSession
    <3>3. fault' = fault
      BY <1>5, <2>3 DEF CloseSession
    <3>4. /\ store' = store
          /\ card' = card /\ cardKs' = cardKs /\ owner' = owner /\ expired' = expired
      BY <1>5 DEF CloseSession, cardVars
    <3> QED
      BY <3>2, <3>3, <3>4, <3>5, <3>6 DEF TypeOK
  <2> QED
    BY <2>2, <2>3
<1> QED
  BY <1>1, <1>2, <1>3, <1>4, <1>4a, <1>5 DEF Client

\* What goes to the client is made of what the buffers and the card hold.
LEMMA CredentialsTyped ==
    ASSUME TypeOK, NEW u \in BOOLEAN, NEW m \in Memories
    PROVE  Credentials(u, m) \in Outputs
<1>1. cardKs[card] \in RunOrNone
  BY DEF TypeOK
<1>2. (IF u THEN cardKs[card] ELSE IF m.gbau THEN NoRun ELSE m.ks) \in RunOrNone
  BY <1>1 DEF Memories, RunOrNone
<1> QED
  BY <1>2 DEF Credentials, Outputs, Memories

\* The RunL of a state machine keeps the types.
LEMMA RunLTyped ==
    ASSUME TypeOK, NEW s \in Sessions, RunL(s)
    PROVE  TypeOK'
<1>0. /\ message \in [Sessions -> {"closed", "none", "waiting"}]
      /\ machine \in [Sessions -> Machines] /\ machine[s] \in Machines
      /\ memory \in [Sessions -> Memories] /\ memory[s] \in Memories
      /\ fetch \in [Sessions -> Fetches] /\ output \in [Sessions -> Outputs]
      /\ card \in Identity
  BY DEF TypeOK, Identity
<1>1. ASSUME RunCached(s) PROVE TypeOK'
  <2>1. store' \in Stores /\ interface' \in [Sessions -> BOOLEAN]
    BY <1>1, CheckDoneTyped DEF RunCached
  <2>2. memory' \in [Sessions -> Memories]
    BY <1>0, <1>1, BeginningTyped DEF RunCached
  <2>3. Credentials(InterfaceAfter(s, card), Loaded(s)) \in Outputs
    BY BeginningTyped, CredentialsTyped
  <2>4. output' \in [Sessions -> Outputs]
    BY <1>0, <1>1, <2>3 DEF RunCached
  <2>5. machine' \in [Sessions -> Machines]
    <3>1. [machine[s] EXCEPT !.state = "EBusy"] \in Machines
      BY <1>0 DEF Machines, BootstrapStates
    <3> QED
      BY <1>0, <1>1, <3>1 DEF RunCached
  <2> QED
    BY <1>1, <2>1, <2>2, <2>4, <2>5 DEF RunCached, TypeOK, cardVars
<1>2. ASSUME RunFetch(s) PROVE TypeOK'
  <2>1. store' \in Stores /\ interface' \in [Sessions -> BOOLEAN]
    BY <1>2, CheckDoneTyped DEF RunFetch
  <2>2. memory' \in [Sessions -> Memories]
    BY <1>0, <1>2, BeginningTyped DEF RunFetch
  <2>3. machine' \in [Sessions -> Machines]
    <3>1. [state |-> "EBusy", active |-> TRUE, status |-> "pending"] \in Machines
      BY DEF Machines, BootstrapStates
    <3> QED
      BY <1>0, <1>2, <3>1 DEF RunFetch
  <2>4. fetch' \in [Sessions -> Fetches]
    <3>1. [called |-> TRUE, for |-> card, run |-> NoRun] \in Fetches
      BY <1>0 DEF Fetches, RunOrNone
    <3> QED
      BY <1>0, <1>2, <3>1 DEF RunFetch
  <2> QED
    BY <1>2, <2>1, <2>2, <2>3, <2>4 DEF RunFetch, TypeOK, cardVars
<1>3. ASSUME RunConnectFails(s) PROVE TypeOK'
  <2>1. store' \in Stores /\ interface' \in [Sessions -> BOOLEAN]
    BY <1>3, CheckDoneTyped DEF RunConnectFails
  <2>2. memory' \in [Sessions -> Memories]
    BY <1>0, <1>3, BeginningTyped DEF RunConnectFails
  <2>3. RunError(s, TRUE)
    BY <1>3 DEF RunConnectFails
  <2>4. /\ message' \in [Sessions -> {"closed", "none", "waiting"}]
        /\ answer' \in [Sessions -> Answers]
        /\ fault' \in {"none", "stale message", "overflow", "hang", "no server"}
        /\ machine' \in [Sessions -> Machines]
    BY <2>3, RunErrorTyped
  <2> QED
    BY <1>3, <2>1, <2>2, <2>4 DEF RunConnectFails, TypeOK, cardVars
<1>4. ASSUME RunLeaves(s) PROVE TypeOK'
  <2>1. RunError(s, FALSE)
    BY <1>4 DEF RunLeaves
  <2>2. /\ message' \in [Sessions -> {"closed", "none", "waiting"}]
        /\ answer' \in [Sessions -> Answers]
        /\ fault' \in {"none", "stale message", "overflow", "hang", "no server"}
        /\ machine' \in [Sessions -> Machines]
    BY <2>1, RunErrorTyped
  <2>3. CASE CheckLeaves(s)
    <3>1. /\ memory' \in [Sessions -> Memories] /\ store' \in Stores
          /\ interface' \in [Sessions -> BOOLEAN]
      BY <2>3, CheckLeavesTyped
    <3> QED
      BY <1>4, <2>2, <3>1 DEF RunLeaves, TypeOK, cardVars
  <2>4. ASSUME CheckDone(s), NEW m \in Memories, memory' = [memory EXCEPT ![s] = m]
        PROVE  TypeOK'
    <3>1. memory' \in [Sessions -> Memories]
      BY <1>0, <2>4
    <3>2. store' \in Stores /\ interface' \in [Sessions -> BOOLEAN]
      BY <2>4, CheckDoneTyped
    <3> QED
      BY <1>4, <2>2, <3>1, <3>2 DEF RunLeaves, TypeOK, cardVars
  <2> QED
    BY <1>4, <2>3, <2>4, BeginningTyped, PartlyTyped DEF RunLeaves
<1>5. ASSUME RunDone(s) PROVE TypeOK'
  <2>1. PICK a \in {Answer("KErrNone", output[s]), Plain("failed")} : Completes(s, a)
    BY <1>5 DEF RunDone
  <2>2. a \in Answers
    BY <1>0, AnswerTyped, ConstantsTyped DEF Codes
  <2>3. /\ message' \in [Sessions -> {"closed", "none", "waiting"}]
        /\ answer' \in [Sessions -> Answers]
        /\ fault' \in {"none", "stale message", "overflow", "hang", "no server"}
    BY <2>1, <2>2, CompletesTyped
  <2>4. machine' \in [Sessions -> Machines] /\ memory' \in [Sessions -> Memories]
    BY <1>0, <1>5, ConstantsTyped DEF RunDone
  <2> QED
    BY <1>5, <2>3, <2>4 DEF RunDone, TypeOK, cardVars
<1>6. ASSUME RunFailed(s) PROVE TypeOK'
  <2>1. RunError(s, FALSE)
    BY <1>6 DEF RunFailed
  <2>2. /\ message' \in [Sessions -> {"closed", "none", "waiting"}]
        /\ answer' \in [Sessions -> Answers]
        /\ fault' \in {"none", "stale message", "overflow", "hang", "no server"}
        /\ machine' \in [Sessions -> Machines]
    BY <2>1, RunErrorTyped
  <2> QED
    BY <1>6, <2>2 DEF RunFailed, TypeOK, cardVars
<1>7. ASSUME RunCancelled(s) PROVE TypeOK'
  <2>1. machine' \in [Sessions -> Machines]
    BY <1>0, <1>7, ConstantsTyped DEF RunCancelled
  <2> QED
    BY <1>7, <2>1 DEF RunCancelled, TypeOK, cardVars
<1>8. ASSUME RunIgnored(s) PROVE TypeOK'
  <2>1. [machine[s] EXCEPT !.active = FALSE] \in Machines
    BY <1>0 DEF Machines
  <2>2. machine' \in [Sessions -> Machines]
    BY <1>0, <1>8, <2>1 DEF RunIgnored
  <2> QED
    BY <1>8, <2>2 DEF RunIgnored, TypeOK, cardVars
<1> QED
  BY <1>1, <1>2, <1>3, <1>4, <1>5, <1>6, <1>7, <1>8 DEF RunL

\* A report of the retriever keeps the types of what it changes.
LEMMA ReportsTyped ==
    ASSUME TypeOK, NEW s \in Sessions, NEW c \in {"KErrNone", "failed"}, Reports(s, c)
    PROVE  machine' \in [Sessions -> Machines] /\ fetch' \in [Sessions -> Fetches]
<1>1. machine \in [Sessions -> Machines] /\ machine[s] \in Machines
  BY DEF TypeOK
<1>2. [machine[s] EXCEPT !.status = c] \in Machines
  BY <1>1 DEF Machines
<1>3. machine' \in [Sessions -> Machines]
  BY <1>1, <1>2 DEF Reports
<1> QED
  BY <1>3, ConstantsTyped DEF Reports, TypeOK

\* HTTP keeps the types.
LEMMA HttpTyped ==
    ASSUME TypeOK, NEW s \in Sessions, Http(s)
    PROVE  TypeOK'
<1>0. /\ memory \in [Sessions -> Memories] /\ memory[s] \in Memories
      /\ fetch \in [Sessions -> Fetches] /\ fetch[s] \in Fetches
      /\ machine \in [Sessions -> Machines]
  BY DEF TypeOK
<1>1. ASSUME NEW k \in Runs, Challenge(s, k) PROVE TypeOK'
  <2>1. owner' \in [Runs -> Identity]
    BY <1>1 DEF Challenge, TypeOK, Identity
  <2>2. cardKs' \in [Impi -> RunOrNone]
    BY <1>1 DEF Challenge, CardKsAfter, TypeOK, RunOrNone
  <2>3. fault' \in {"none", "stale message", "overflow", "hang", "no server"}
    BY <1>1 DEF Challenge, TypeOK
  <2>4. memory' \in [Sessions -> Memories]
    <3>1. [memory[s] EXCEPT !.ks = k] \in Memories
      BY <1>0 DEF Memories, RunOrNone
    <3> QED
      BY <1>0, <1>1, <3>1 DEF Challenge
  <2>5. machine' \in [Sessions -> Machines] /\ fetch' \in [Sessions -> Fetches]
    <3>1. CASE Reports(s, "failed")
      BY <3>1, ReportsTyped
    <3>2. CASE fetch' = [fetch EXCEPT ![s].run = k] /\ UNCHANGED machine
      <4>1. [fetch[s] EXCEPT !.run = k] \in Fetches
        BY <1>0 DEF Fetches, RunOrNone
      <4> QED
        BY <1>0, <3>2, <4>1
    <3> QED
      BY <1>1, <3>1, <3>2 DEF Challenge
  <2> QED
    BY <1>1, <2>1, <2>2, <2>3, <2>4, <2>5 DEF Challenge, TypeOK
<1>2. ASSUME Succeeded(s) PROVE TypeOK'
  <2> DEFINE k == fetch[s].run
             m == Received(s, k)
  <2>1. k \in RunOrNone
    BY <1>0 DEF Fetches
  <2>2. m \in Memories /\ [memory[s] EXCEPT !.btid = m.btid] \in Memories
    <3>1. [memory[s] EXCEPT !.btid = k, !.lifetime = k] \in Memories
      BY <1>0, <2>1 DEF Memories
    <3>2. m \in Memories
      BY <3>1 DEF Received
    <3> HIDE DEF k, m
    <3>3. m.btid \in RunOrNone
      BY <3>2 DEF Memories
    <3>4. [memory[s] EXCEPT !.btid = m.btid] \in Memories
      BY <1>0, <3>3 DEF Memories
    <3> QED
      BY <3>2, <3>4
  <2>3. \E c \in {"KErrNone", "failed"} : Reports(s, c)
    BY <1>2 DEF Succeeded
  <2>4. machine' \in [Sessions -> Machines] /\ fetch' \in [Sessions -> Fetches]
    BY <2>3, ReportsTyped
  <2>5. memory' \in [Sessions -> Memories]
    <3>1. \/ memory' = memory
          \/ memory' = [memory EXCEPT ![s].btid = m.btid]
          \/ memory' = [memory EXCEPT ![s] = m]
      BY <1>2 DEF Succeeded
    <3> HIDE DEF k, m
    <3> QED
      BY <1>0, <2>2, <3>1
  <2>6. store' \in Stores
    <3>1. store' = store \/ store' = Stored(m)
      BY <1>2 DEF Succeeded
    <3> HIDE DEF k, m
    <3>2. (IF m.gbau THEN NoRun ELSE m.ks) \in RunOrNone
      BY <2>2 DEF Memories, RunOrNone
    <3>3. /\ m.identity \in Identity /\ m.btid \in RunOrNone
          /\ m.lifetime \in RunOrNone
      BY <2>2 DEF Memories
    <3>4. Stored(m) \in Stores
      BY <3>2, <3>3 DEF Stored, Stores, TypeOK
    <3> QED
      BY <3>1, <3>4 DEF TypeOK
  <2>7. output' \in [Sessions -> Outputs]
    <3>1. \/ output' = output
          \/ output' = [output EXCEPT ![s] = Credentials(interface[s], m)]
      BY <1>2 DEF Succeeded
    <3> HIDE DEF k, m
    <3>2. interface[s] \in BOOLEAN
      BY DEF TypeOK
    <3>3. Credentials(interface[s], m) \in Outputs
      BY <2>2, <3>2, CredentialsTyped
    <3> QED
      BY <3>1, <3>3 DEF TypeOK
  <2> QED
    BY <1>2, <2>4, <2>5, <2>6, <2>7 DEF Succeeded, TypeOK, cardVars
<1>3. ASSUME HttpFails(s) PROVE TypeOK'
  <2>1. Reports(s, "failed")
    BY <1>3 DEF HttpFails
  <2>2. machine' \in [Sessions -> Machines] /\ fetch' \in [Sessions -> Fetches]
    BY <2>1, ReportsTyped
  <2> QED
    BY <1>3, <2>2 DEF HttpFails, TypeOK, cardVars
<1> QED
  BY <1>1, <1>2, <1>3 DEF Http

\* Every step keeps the types.
LEMMA NextTyped == TypeOK /\ [Next]_vars => TypeOK'
<1> SUFFICES ASSUME TypeOK, [Next]_vars PROVE TypeOK'
  OBVIOUS
<1>1. CASE Environment
  <2>1. ASSUME NEW i \in Impi, ChangeCard(i) PROVE TypeOK'
    BY <2>1 DEF ChangeCard, TypeOK, sessionVars
  <2>2. ASSUME NEW k \in Runs, Expire(k) PROVE TypeOK'
    BY <2>2 DEF Expire, TypeOK, sessionVars
  <2>3. ASSUME Stop PROVE TypeOK'
    BY <2>3 DEF Stop, TypeOK, sessionVars, cardVars
  <2> QED
    BY <1>1, <2>1, <2>2, <2>3 DEF Environment
<1>2. ASSUME NEW s \in Sessions, Client(s) \/ RunL(s) \/ Http(s) PROVE TypeOK'
  BY <1>2, ClientTyped, RunLTyped, HttpTyped
<1>3. CASE UNCHANGED vars
  BY <1>3 DEF vars, sessionVars, cardVars, TypeOK
<1> QED
  BY <1>1, <1>2, <1>3 DEF Next

\* Every variable keeps its type, whatever clients, network and card do.
THEOREM Typing == Spec => []TypeOK
BY InitTyped, NextTyped, PTL DEF Spec

-----------------------------------------------------------------------------
(***************************************************************************)
(* The retriever and the bootstrap it works for.  RetrieverOwned alone is  *)
(* not inductive: that a client waits when the retriever starts follows    *)
(* from what is known of a state machine in EInitialize.                   *)
(***************************************************************************)
Owned(s) ==
    /\ fetch[s].called =>
          /\ machine[s] = [state |-> "EBusy", active |-> TRUE, status |-> "pending"]
          /\ message[s] = "waiting"
    /\ machine[s].active /\ machine[s].state = "EInitialize" => message[s] = "waiting"

OwnedInv == \A s \in Sessions : Owned(s)

\* Nothing is owned at the beginning.
LEMMA InitOwned == Init => OwnedInv
BY DEF Init, OwnedInv, Owned, Idle, NoFetch

\* The other sessions are as before.
OthersAsBefore(s) ==
    \A t \in Sessions \ {s} : /\ message'[t] = message[t]
                              /\ machine'[t] = machine[t]
                              /\ fetch'[t] = fetch[t]

\* A step that leaves the other sessions as they are keeps what they own.
LEMMA OtherSessions ==
    ASSUME TypeOK, OwnedInv, NEW s \in Sessions, Owned(s)', OthersAsBefore(s)
    PROVE  OwnedInv'
BY DEF OwnedInv, Owned, OthersAsBefore

\* The step of a session keeps the ownership of its retriever.
LEMMA SessionOwned ==
    ASSUME TypeOK, OwnedInv, NEW s \in Sessions, Client(s) \/ RunL(s) \/ Http(s)
    PROVE  OwnedInv'
<1>0. /\ message \in [Sessions -> {"closed", "none", "waiting"}]
      /\ machine \in [Sessions -> Machines] /\ machine[s] \in Machines
      /\ fetch \in [Sessions -> Fetches] /\ fetch[s] \in Fetches
      /\ Owned(s)
  BY DEF TypeOK, OwnedInv
<1> SUFFICES Owned(s)' /\ OthersAsBefore(s)
  BY OtherSessions
<1>1. CASE OpenSession(s)
  BY <1>0, <1>1 DEF OpenSession, Owned, OthersAsBefore
<1>2. ASSUME NEW f \in BOOLEAN, RequestBootstrap(s, f)
      PROVE  Owned(s)' /\ OthersAsBefore(s)
  <2>1. CASE machine[s].state = "EIdle" /\ ~machine[s].active
    <3>1. ~fetch[s].called
      BY <1>0, <2>1 DEF Owned
    <3>2. /\ message' = [message EXCEPT ![s] = "waiting"] /\ fetch' = fetch
          /\ machine' = [machine EXCEPT ![s] =
                 [state |-> "EInitialize", active |-> TRUE, status |-> "KErrNone"]]
      BY <1>2, <2>1 DEF RequestBootstrap
    <3> QED
      BY <1>0, <3>1, <3>2 DEF Owned, OthersAsBefore
  <2>2. CASE ~(machine[s].state = "EIdle" /\ ~machine[s].active)
    <3>1. message' = message /\ machine' = machine /\ fetch' = fetch
      BY <1>2, <2>2 DEF RequestBootstrap
    <3> QED
      BY <1>0, <3>1 DEF Owned, OthersAsBefore
  <2> QED
    BY <2>1, <2>2
<1>3. CASE CancelRequest(s)
  BY <1>0, <1>3 DEF CancelRequest, Completes, Owned, NoFetch, Machines, OthersAsBefore
<1>4. CASE IsGBAUSupported(s)
  BY <1>0, <1>4 DEF IsGBAUSupported, Owned, OthersAsBefore
<1>4a. CASE OpenFails(s) \/ BadRequest(s)
  BY <1>0, <1>4a DEF OpenFails, BadRequest, sessionVars, Owned, OthersAsBefore
<1>5. CASE CloseSession(s)
  BY <1>0, <1>5 DEF CloseSession, Owned, NoFetch, Idle, sessionVars, OthersAsBefore
<1>6. CASE RunCached(s)
  BY <1>0, <1>6 DEF RunCached, Starts, Owned, Machines, OthersAsBefore
<1>7. CASE RunFetch(s)
  BY <1>0, <1>7 DEF RunFetch, Starts, Owned, OthersAsBefore
<1>8. CASE RunConnectFails(s)
  BY <1>0, <1>8 DEF RunConnectFails, Starts, RunError, Completes, Owned, OthersAsBefore
<1>9. CASE RunLeaves(s)
  BY <1>0, <1>9 DEF RunLeaves, Starts, RunError, Completes, Owned, OthersAsBefore
<1>10. CASE RunDone(s)
  <2>1. ~fetch[s].called
    BY <1>0, <1>10 DEF RunDone, Owned
  <2>2. /\ message' = [message EXCEPT ![s] = "none"] \/ message' = message
        /\ machine' = [machine EXCEPT ![s] = Idle] /\ fetch' = fetch
    BY <1>10 DEF RunDone, Completes
  <2> QED
    BY <1>0, <2>1, <2>2 DEF Owned, OthersAsBefore, Idle
<1>11. CASE RunFailed(s)
  <2>1. ~fetch[s].called
    BY <1>0, <1>11 DEF RunFailed, Owned
  <2>2. /\ message' = [message EXCEPT ![s] = "none"] \/ message' = message
        /\ machine' = [machine EXCEPT ![s] =
               [state |-> "EIdle", active |-> FALSE, status |-> "KErrNone"]]
        /\ fetch' = fetch
    BY <1>11 DEF RunFailed, RunError, Completes
  <2> QED
    BY <1>0, <2>1, <2>2 DEF Owned, OthersAsBefore
<1>12. CASE RunCancelled(s)
  BY <1>0, <1>12 DEF RunCancelled, Signalled, Owned, Idle, OthersAsBefore
<1>13. CASE RunIgnored(s)
  BY <1>0, <1>13 DEF RunIgnored, Signalled, Owned, Machines, OthersAsBefore
<1>14. ASSUME NEW k \in Runs, Challenge(s, k)
       PROVE  Owned(s)' /\ OthersAsBefore(s)
  <2>1. message' = message
    BY <1>14 DEF Challenge
  <2>2. CASE Reports(s, "failed")
    BY <1>0, <2>1, <2>2 DEF Reports, Owned, Machines, NoFetch, OthersAsBefore
  <2>3. CASE fetch' = [fetch EXCEPT ![s].run = k] /\ UNCHANGED machine
    BY <1>0, <2>1, <2>3 DEF Owned, Fetches, OthersAsBefore
  <2> QED
    BY <1>14, <2>2, <2>3 DEF Challenge
<1>15. CASE Succeeded(s)
  BY <1>0, <1>15 DEF Succeeded, Reports, Owned, Machines, NoFetch, OthersAsBefore
<1>16. CASE HttpFails(s)
  BY <1>0, <1>16 DEF HttpFails, Reports, Owned, Machines, NoFetch, OthersAsBefore
<1> QED
  BY <1>1, <1>2, <1>3, <1>4, <1>4a, <1>5, <1>6, <1>7, <1>8, <1>9, <1>10, <1>11, <1>12,
     <1>13, <1>14, <1>15, <1>16 DEF Client, RunL, Http

\* Every step keeps the ownership of the retrievers.
LEMMA NextOwned == TypeOK /\ OwnedInv /\ [Next]_vars => OwnedInv'
<1> SUFFICES ASSUME TypeOK, OwnedInv, [Next]_vars PROVE OwnedInv'
  OBVIOUS
<1>1. CASE Environment
  <2>1. message' = message /\ machine' = machine /\ fetch' = fetch
    BY <1>1 DEF Environment, ChangeCard, Expire, Stop, sessionVars
  <2> QED
    BY <2>1 DEF OwnedInv, Owned
<1>2. CASE UNCHANGED vars
  BY <1>2 DEF vars, sessionVars, OwnedInv, Owned
<1> QED
  BY <1>1, <1>2, SessionOwned DEF Next

\* The retriever never outlives the bootstrap it works for: when it completes
\* the status of the state machine, that is waiting for it, and so is the client.
THEOREM RetrieverIsOwned == Spec => []RetrieverOwned
<1>1. OwnedInv => RetrieverOwned
  BY DEF OwnedInv, Owned, RetrieverOwned
<1> QED
  BY <1>1, InitTyped, NextTyped, InitOwned, NextOwned, PTL DEF Spec

-----------------------------------------------------------------------------
\* Only a client opens its session: no other step makes one of a closed one.
LEMMA ClosedStaysClosed ==
    ASSUME TypeOK, NEW s \in Sessions, RunL(s) \/ Http(s)
    PROVE  /\ shutdown' = shutdown
           /\ \A t \in Sessions : message[t] = "closed" => message'[t] = "closed"
<1>1. ASSUME NEW a, Completes(s, a)
      PROVE  \A t \in Sessions : message[t] = "closed" => message'[t] = "closed"
  BY <1>1 DEF TypeOK, Completes
<1>2. CASE RunConnectFails(s) \/ RunLeaves(s) \/ RunFailed(s)
  <2>1. Completes(s, Plain("failed"))
    BY <1>2 DEF RunConnectFails, RunLeaves, RunFailed, RunError
  <2>2. shutdown' = shutdown
    BY <1>2 DEF RunConnectFails, RunLeaves, RunFailed
  <2> QED
    BY <1>1, <2>1, <2>2
<1>3. CASE RunDone(s)
  <2>1. shutdown' = shutdown /\ \E a : Completes(s, a)
    BY <1>3 DEF RunDone
  <2> QED
    BY <1>1, <2>1
<1>4. CASE RunCached(s) \/ RunFetch(s) \/ RunCancelled(s) \/ RunIgnored(s) \/ Http(s)
  <2>1. message' = message /\ shutdown' = shutdown
    BY <1>4 DEF RunCached, RunFetch, RunCancelled, RunIgnored, Http, Challenge,
       Succeeded, HttpFails
  <2> QED
    BY <2>1
<1> QED
  BY <1>2, <1>3, <1>4 DEF RunL

\* Every step of the server keeps it from stopping under a session.
LEMMA NextStops == TypeOK /\ StopsWithoutSessions /\ [Next]_vars => StopsWithoutSessions'
<1> SUFFICES ASSUME TypeOK, StopsWithoutSessions, [Next]_vars
             PROVE  StopsWithoutSessions'
  OBVIOUS
<1>0. message \in [Sessions -> {"closed", "none", "waiting"}]
  BY DEF TypeOK
<1>1. CASE message' = message /\ (shutdown' = shutdown \/ shutdown # "off")
  BY <1>1 DEF StopsWithoutSessions
<1>2. CASE Environment \/ UNCHANGED vars
  <2>1. message' = message /\ (shutdown' = shutdown \/ shutdown # "off")
    BY <1>2 DEF Environment, ChangeCard, Expire, Stop, vars, sessionVars
  <2> QED
    BY <1>1, <2>1
<1>3. ASSUME NEW s \in Sessions, Client(s) PROVE StopsWithoutSessions'
  <2>1. CASE OpenSession(s)
    BY <2>1 DEF OpenSession, StopsWithoutSessions
  <2>2. CASE CloseSession(s)
    <3>1. CASE shutdown' = shutdown /\ message' = message
      BY <1>1, <3>1
    <3>2. CASE /\ message' = [message EXCEPT ![s] = "closed"]
               /\ shutdown' = IF LastSession(s) THEN "running" ELSE shutdown
      <4>1. CASE LastSession(s)
        BY <1>0, <3>2, <4>1 DEF LastSession, StopsWithoutSessions
      <4>2. CASE ~LastSession(s)
        <5>1. shutdown' = shutdown
          BY <3>2, <4>2
        <5> QED
          BY <1>0, <3>2, <5>1 DEF StopsWithoutSessions
      <4> QED
        BY <4>1, <4>2
    <3> QED
      BY <2>2, <3>1, <3>2 DEF CloseSession, sessionVars
  <2>3. CASE CancelRequest(s) \/ \E f \in BOOLEAN : RequestBootstrap(s, f)
    <3>1. Open(s) /\ shutdown' = shutdown
      BY <2>3 DEF CancelRequest, RequestBootstrap
    <3>2. \A t \in Sessions : message[t] = "closed" => message'[t] = "closed"
      BY <1>0, <2>3 DEF CancelRequest, RequestBootstrap, Completes, Open
    <3> QED
      BY <3>1, <3>2 DEF StopsWithoutSessions
  <2>4. CASE IsGBAUSupported(s) \/ OpenFails(s) \/ BadRequest(s)
    BY <1>1, <2>4 DEF IsGBAUSupported, OpenFails, BadRequest, sessionVars
  <2> QED
    BY <1>3, <2>1, <2>2, <2>3, <2>4 DEF Client
<1>4. ASSUME NEW s \in Sessions, RunL(s) \/ Http(s) PROVE StopsWithoutSessions'
  BY <1>4, ClosedStaysClosed DEF StopsWithoutSessions
<1> QED
  BY <1>2, <1>3, <1>4 DEF Next

\* The server stops, and its timer runs, only while it has no session.
THEOREM StopsAlone == Spec => []StopsWithoutSessions
<1>1. Init => StopsWithoutSessions
  BY DEF Init, StopsWithoutSessions
<1> QED
  BY <1>1, InitTyped, NextTyped, NextStops, PTL DEF Spec

(***************************************************************************)
(* Orderly clients: the server is never lost, no state machine waits for   *)
(* an event that will not come, and a client waits exactly when its state  *)
(* machine works for it.                                                   *)
(***************************************************************************)

\* No session waits for nothing, and what its state machine does next fits
\* what the client has been told.
Served(s) ==
    /\ message[s] = "waiting" <=> /\ machine[s].active
                                  /\ machine[s].state \in {"EInitialize", "EBusy"}
    /\ message[s] = "closed" => machine[s].state = "EIdle" /\ answer[s].code = "none"
    /\ machine[s].state = "EIdle" => ~machine[s].active
    /\ machine[s].active /\ machine[s].status = "pending" => fetch[s].called
    /\ machine[s].active /\ machine[s].status = "failed" => machine[s].state = "EBusy"
    /\ machine[s].state = "ECancel" => answer[s].code \in {"KErrCancel", "KErrInUse"}

\* The buffer of Ks is empty whenever a challenge may fill it.
KsIsFree(s) ==
    /\ machine[s].state = "EIdle" /\ answer[s].code \in {"none", "KErrNone"}
          => memory[s].ks = NoRun
    /\ machine[s].state = "EInitialize" /\ force[s] => memory[s].ks = NoRun
    /\ fetch[s].called /\ fetch[s].run = NoRun => memory[s].ks = NoRun

OrderlyInv == AliveForever /\ \A s \in Sessions : Served(s) /\ KsIsFree(s)

\* It holds at the beginning.
LEMMA InitOrderly == Init => OrderlyInv
BY DEF Init, OrderlyInv, Served, KsIsFree, AliveForever, Idle, NoFetch, NoMemory, Plain

\* The orderly steps are steps of the server.
LEMMA OrderlyIsNext == [OrderlyNext]_vars => [Next]_vars
BY DEF OrderlyNext, OrderlyStep, OrderlySession, Next, Environment, Client, RunL, Http

\* All that the invariant says of the other sessions is as before.
OthersUntouched(s) ==
    \A t \in Sessions \ {s} : /\ message'[t] = message[t]
                              /\ machine'[t] = machine[t]
                              /\ fetch'[t] = fetch[t]
                              /\ answer'[t] = answer[t]
                              /\ force'[t] = force[t]
                              /\ memory'[t].ks = memory[t].ks

Kept(s) ==
    /\ AliveForever' /\ Served(s)' /\ KsIsFree(s)'
    /\ OthersUntouched(s)

\* A step that keeps the invariant for its session, and the other sessions as
\* they are, keeps it.
LEMMA KeptIsOrderly ==
    ASSUME OrderlyInv, NEW s \in Sessions, Kept(s)
    PROVE  OrderlyInv'
<1>1. ASSUME NEW t \in Sessions \ {s} PROVE Served(t)' /\ KsIsFree(t)'
  BY <1>1 DEF OrderlyInv, Kept, OthersUntouched, Served, KsIsFree
<1> QED
  BY <1>1 DEF OrderlyInv, Kept

\* An answer to a client that waits: it is completed, once.
LEMMA Completed ==
    ASSUME TypeOK, OrderlyInv, NEW s \in Sessions, NEW a, Completes(s, a),
           machine[s].active, machine[s].state \in {"EInitialize", "EBusy"}
    PROVE  /\ message' = [message EXCEPT ![s] = "none"]
           /\ answer' = [answer EXCEPT ![s] = a]
           /\ fault' = fault
BY DEF OrderlyInv, Served, Completes

\* The messages of an orderly client.
LEMMA ClientOrderly ==
    ASSUME TypeOK, OwnedInv, OrderlyInv, NEW s \in Sessions,
           \/ OpenSession(s) \/ BadRequest(s) \/ CloseSession(s)
           \/ OrderlyCancel(s) /\ CancelRequest(s)
           \/ OrderlyQuery(s) /\ IsGBAUSupported(s)
           \/ \E f \in BOOLEAN : OrderlyRequest(s, f) /\ RequestBootstrap(s, f)
    PROVE  OrderlyInv'
<1>0. /\ message \in [Sessions -> {"closed", "none", "waiting"}]
      /\ answer \in [Sessions -> Answers] /\ force \in [Sessions -> BOOLEAN]
      /\ machine \in [Sessions -> Machines] /\ machine[s] \in Machines
      /\ fetch \in [Sessions -> Fetches] /\ memory \in [Sessions -> Memories]
      /\ Served(s) /\ KsIsFree(s) /\ Owned(s) /\ AliveForever
  BY DEF TypeOK, OrderlyInv, OwnedInv
<1> SUFFICES Kept(s)
  BY KeptIsOrderly
<1>1. CASE OpenSession(s)
  <2>1. /\ message' = [message EXCEPT ![s] = "none"]
        /\ answer' = [answer EXCEPT ![s] = Plain("none")]
        /\ message[s] = "closed" /\ machine' = machine /\ fetch' = fetch
        /\ force' = force /\ memory' = memory /\ fault' = fault
    BY <1>1 DEF OpenSession
  <2> QED
    BY <1>0, <2>1 DEF Kept, Served, KsIsFree, AliveForever, OthersUntouched, Plain
<1>2. CASE CloseSession(s)
  <2>1. ~(machine[s].active /\ machine[s].status = "pending" /\ ~fetch[s].called)
    BY <1>0 DEF Served
  <2>2. /\ message' = [message EXCEPT ![s] = "closed"]
        /\ machine' = [machine EXCEPT ![s] = Idle]
        /\ fetch' = [fetch EXCEPT ![s] = NoFetch]
        /\ memory' = [memory EXCEPT ![s] = NoMemory]
        /\ answer' = [answer EXCEPT ![s] = Plain("none")]
        /\ force' = [force EXCEPT ![s] = FALSE]
        /\ fault' = fault
    BY <1>2, <2>1 DEF CloseSession
  <2> QED
    BY <1>0, <2>2 DEF Kept, Served, KsIsFree, AliveForever, OthersUntouched, Plain,
       Idle, NoFetch, NoMemory
<1>3. CASE OrderlyCancel(s) /\ CancelRequest(s)
  <2>1. /\ machine[s].active /\ machine[s].state \in {"EInitialize", "EBusy"}
        /\ machine[s].status # "failed"
    BY <1>0, <1>3 DEF OrderlyCancel, Served
  <2>2. /\ message' = [message EXCEPT ![s] = "none"]
        /\ answer' = [answer EXCEPT ![s] = Plain("KErrCancel")]
        /\ fault' = fault
    BY <1>3, <2>1, Completed DEF CancelRequest
  <2>3. /\ machine'[s].state = "ECancel" /\ machine'[s].active
        /\ machine'[s].status \in {"KErrNone", "KErrCancel"}
        /\ \A t \in Sessions \ {s} : machine'[t] = machine[t]
    BY <1>0, <1>3, <2>1 DEF CancelRequest, Served, Machines
  <2>4. /\ fetch' = [fetch EXCEPT ![s] = NoFetch]
        /\ force' = force /\ memory' = memory
    BY <1>3 DEF CancelRequest
  <2> QED
    BY <1>0, <2>2, <2>3, <2>4 DEF Kept, Served, KsIsFree, AliveForever,
       OthersUntouched, Plain, NoFetch
<1>4. CASE OrderlyQuery(s) /\ IsGBAUSupported(s)
  <2>1. /\ message' = message /\ answer' = answer /\ force' = force
        /\ machine' = machine /\ fetch' = fetch /\ fault' = fault
    BY <1>4 DEF IsGBAUSupported
  <2>2. \E i : memory' = [memory EXCEPT ![s].identity = i]
    BY <1>4 DEF IsGBAUSupported, CheckLeaves
  <2>3. \A t \in Sessions : memory'[t].ks = memory[t].ks
    BY <1>0, <2>2 DEF Memories
  <2> QED
    BY <1>0, <2>1, <2>3 DEF Kept, Served, KsIsFree, AliveForever, OthersUntouched
<1>4a. CASE BadRequest(s)
  <2>1. /\ answer' = [answer EXCEPT ![s] = Plain("failed")]
        /\ machine[s].state = "EIdle" /\ message[s] # "closed"
        /\ message' = message /\ force' = force /\ machine' = machine
        /\ fetch' = fetch /\ memory' = memory /\ fault' = fault
    BY <1>4a DEF BadRequest, Open
  <2> QED
    BY <1>0, <2>1 DEF Kept, Served, KsIsFree, AliveForever, OthersUntouched, Plain
<1>5. ASSUME NEW f \in BOOLEAN, OrderlyRequest(s, f), RequestBootstrap(s, f)
      PROVE  Kept(s)
  <2>1. fetch' = fetch /\ memory' = memory /\ fault' = fault /\ message[s] # "closed"
    BY <1>5 DEF RequestBootstrap, Open
  <2>2. CASE machine[s].state = "EIdle"
    <3>1. /\ message' = [message EXCEPT ![s] = "waiting"]
          /\ force' = [force EXCEPT ![s] = f]
          /\ machine' = [machine EXCEPT ![s] =
                [state |-> "EInitialize", active |-> TRUE, status |-> "KErrNone"]]
          /\ answer' = answer
      BY <1>0, <1>5, <2>2 DEF RequestBootstrap, Served
    <3>2. f => memory[s].ks = NoRun
      BY <1>0, <1>5, <2>2 DEF OrderlyRequest, KsIsFree
    <3> QED
      BY <1>0, <2>1, <2>2, <3>1, <3>2 DEF Kept, Served, KsIsFree, AliveForever,
         OthersUntouched, Owned
  <2>3. CASE machine[s].state # "EIdle"
    <3>1. /\ answer' = [answer EXCEPT ![s] = Plain("KErrInUse")]
          /\ message' = message /\ force' = force /\ machine' = machine
      BY <1>5, <2>3 DEF RequestBootstrap
    <3> QED
      BY <1>0, <2>1, <2>3, <3>1 DEF Kept, Served, KsIsFree, AliveForever,
         OthersUntouched, Plain
  <2> QED
    BY <2>2, <2>3
<1> QED
  BY <1>1, <1>2, <1>3, <1>4, <1>4a, <1>5

\* What a bootstrap begins with: a forced one keeps the buffer of Ks.
LEMMA PreparedKs ==
    ASSUME TypeOK, NEW s \in Sessions, ~Cached(s)
    PROVE  Prepared(s).ks = IF force[s] THEN memory[s].ks ELSE NoRun
<1>1. memory[s] \in Memories /\ Loaded(s) \in Memories
  BY BeginningTyped DEF TypeOK
<1>2. CASE force[s]
  BY <1>1, <1>2 DEF Prepared, Checked, Memories
<1>3. CASE ~force[s]
  BY <1>1, <1>3 DEF Prepared, Memories
<1> QED
  BY <1>2, <1>3

\* A bootstrap that ends with an error.
LEMMA ErrorIsKept ==
    ASSUME TypeOK, OwnedInv, OrderlyInv, NEW s \in Sessions, RunError(s, FALSE),
           machine[s].active, machine[s].state \in {"EInitialize", "EBusy"},
           ~fetch[s].called, fetch' = fetch, force' = force,
           \A t \in Sessions \ {s} : memory'[t].ks = memory[t].ks
    PROVE  Kept(s)
<1>0. /\ message \in [Sessions -> {"closed", "none", "waiting"}]
      /\ answer \in [Sessions -> Answers] /\ machine \in [Sessions -> Machines]
      /\ fetch \in [Sessions -> Fetches]
      /\ Served(s) /\ KsIsFree(s) /\ AliveForever
  BY DEF TypeOK, OrderlyInv
<1>1. Completes(s, Plain("failed"))
  BY DEF RunError
<1>2. /\ message' = [message EXCEPT ![s] = "none"]
      /\ answer' = [answer EXCEPT ![s] = Plain("failed")] /\ fault' = fault
  BY <1>1, Completed
<1>3. machine' = [machine EXCEPT ![s] =
         [state |-> "EIdle", active |-> FALSE, status |-> "KErrNone"]]
  BY DEF RunError
<1> QED
  BY <1>0, <1>2, <1>3 DEF Kept, Served, KsIsFree, AliveForever, OthersUntouched, Plain

\* The RunL of a state machine whose retriever can be reached.
LEMMA RunLOrderly ==
    ASSUME TypeOK, OwnedInv, OrderlyInv, NEW s \in Sessions,
           \/ RunCached(s) \/ RunFetch(s) \/ RunLeaves(s)
           \/ RunDone(s) \/ RunFailed(s) \/ RunCancelled(s) \/ RunIgnored(s)
    PROVE  OrderlyInv'
<1>0. /\ message \in [Sessions -> {"closed", "none", "waiting"}]
      /\ answer \in [Sessions -> Answers] /\ force \in [Sessions -> BOOLEAN]
      /\ machine \in [Sessions -> Machines] /\ machine[s] \in Machines
      /\ fetch \in [Sessions -> Fetches] /\ memory \in [Sessions -> Memories]
      /\ Served(s) /\ KsIsFree(s) /\ Owned(s) /\ AliveForever
  BY DEF TypeOK, OrderlyInv, OwnedInv
<1> SUFFICES Kept(s)
  BY KeptIsOrderly
<1>1. CASE RunCached(s)
  <2>1. /\ machine[s].active /\ machine[s].state = "EInitialize"
        /\ machine[s].status = "KErrNone" /\ ~fetch[s].called /\ message[s] = "waiting"
    BY <1>0, <1>1 DEF RunCached, Starts, Owned, Served
  <2>2. /\ message' = message /\ answer' = answer /\ force' = force
        /\ fetch' = fetch /\ fault' = fault
        /\ memory' = [memory EXCEPT ![s] = Loaded(s)]
        /\ machine' = [machine EXCEPT ![s].state = "EBusy"]
    BY <1>1 DEF RunCached
  <2> QED
    BY <1>0, <2>1, <2>2 DEF Kept, Served, KsIsFree, AliveForever, OthersUntouched,
       Machines
<1>2. CASE RunFetch(s)
  <2>1. /\ machine[s].active /\ machine[s].state = "EInitialize"
        /\ ~Cached(s) /\ message[s] = "waiting"
    BY <1>0, <1>2 DEF RunFetch, Starts, Served
  <2>2. /\ message' = message /\ answer' = answer /\ force' = force
        /\ fault' = fault
        /\ memory' = [memory EXCEPT ![s] = Prepared(s)]
        /\ machine' = [machine EXCEPT ![s] =
               [state |-> "EBusy", active |-> TRUE, status |-> "pending"]]
        /\ fetch' = [fetch EXCEPT ![s] = [called |-> TRUE, for |-> card, run |-> NoRun]]
    BY <1>2 DEF RunFetch
  <2>3. Prepared(s).ks = NoRun
    BY <1>0, <2>1, PreparedKs DEF KsIsFree
  <2> QED
    BY <1>0, <2>1, <2>2, <2>3 DEF Kept, Served, KsIsFree, AliveForever,
       OthersUntouched
<1>3. CASE RunLeaves(s)
  <2>1. /\ machine[s].active /\ machine[s].state = "EInitialize" /\ ~fetch[s].called
    BY <1>0, <1>3 DEF RunLeaves, Starts, Owned
  <2>2. \A t \in Sessions \ {s} : memory'[t].ks = memory[t].ks
    BY <1>0, <1>3 DEF RunLeaves, CheckLeaves
  <2>3. RunError(s, FALSE) /\ fetch' = fetch /\ force' = force
    BY <1>3 DEF RunLeaves
  <2> QED
    BY <2>1, <2>2, <2>3, ErrorIsKept
<1>4. CASE RunDone(s)
  <2>1. machine[s].active /\ machine[s].state = "EBusy" /\ ~fetch[s].called
    BY <1>0, <1>4 DEF RunDone, Signalled, Owned
  <2>2. /\ message' = [message EXCEPT ![s] = "none"]
        /\ answer' \in {[answer EXCEPT ![s] = Answer("KErrNone", output[s])],
                         [answer EXCEPT ![s] = Plain("failed")]}
        /\ fault' = fault
    BY <1>4, <2>1, Completed DEF RunDone
  <2>3. /\ machine' = [machine EXCEPT ![s] = Idle]
        /\ memory' = [memory EXCEPT ![s] = NoMemory]
        /\ fetch' = fetch /\ force' = force
    BY <1>4 DEF RunDone
  <2> QED
    BY <1>0, <2>1, <2>2, <2>3 DEF Kept, Served, KsIsFree, AliveForever,
       OthersUntouched, Idle, NoMemory
<1>5. CASE RunFailed(s)
  <2>1. machine[s].active /\ machine[s].state = "EBusy" /\ ~fetch[s].called
    BY <1>0, <1>5 DEF RunFailed, Signalled, Served, Owned
  <2>2. RunError(s, FALSE) /\ fetch' = fetch /\ force' = force /\ memory' = memory
    BY <1>5 DEF RunFailed
  <2> QED
    BY <2>1, <2>2, ErrorIsKept
<1>6. CASE RunCancelled(s)
  <2>1. /\ machine[s].state = "ECancel" /\ ~fetch[s].called
        /\ message' = message /\ answer' = answer /\ force' = force
        /\ fetch' = fetch /\ fault' = fault /\ memory' = memory
        /\ machine' = [machine EXCEPT ![s] = Idle]
    BY <1>0, <1>6 DEF RunCancelled, Owned
  <2> QED
    BY <1>0, <2>1 DEF Kept, Served, KsIsFree, AliveForever, OthersUntouched, Idle
<1>7. CASE RunIgnored(s)
  <2>1. /\ machine[s].state = "ECancel" /\ ~fetch[s].called
        /\ message' = message /\ answer' = answer /\ force' = force
        /\ fetch' = fetch /\ fault' = fault /\ memory' = memory
        /\ machine' = [machine EXCEPT ![s].active = FALSE]
    BY <1>0, <1>7 DEF RunIgnored, Owned
  <2> QED
    BY <1>0, <2>1 DEF Kept, Served, KsIsFree, AliveForever, OthersUntouched, Machines
<1> QED
  BY <1>1, <1>2, <1>3, <1>4, <1>5, <1>6, <1>7

\* A report of the retriever: the state machine has its status, and the
\* retriever nothing left to do.
LEMMA ReportIsKept ==
    ASSUME TypeOK, OwnedInv, OrderlyInv, NEW s \in Sessions, fetch[s].called,
           NEW c \in {"KErrNone", "failed"}, Reports(s, c),
           message' = message, answer' = answer, force' = force, fault' = fault,
           \A t \in Sessions \ {s} : memory'[t].ks = memory[t].ks
    PROVE  Kept(s)
<1>0. /\ machine \in [Sessions -> Machines] /\ machine[s] \in Machines
      /\ fetch \in [Sessions -> Fetches] /\ Served(s) /\ Owned(s) /\ AliveForever
  BY DEF TypeOK, OrderlyInv, OwnedInv
<1>1. /\ machine'[s].state = "EBusy" /\ machine'[s].active /\ machine'[s].status = c
      /\ ~fetch'[s].called
      /\ \A t \in Sessions \ {s} : machine'[t] = machine[t] /\ fetch'[t] = fetch[t]
  BY <1>0 DEF Reports, Owned, Machines, NoFetch
<1> QED
  BY <1>0, <1>1 DEF Kept, Served, KsIsFree, AliveForever, OthersUntouched, Owned

\* HTTP, with a server that challenges a request once.
LEMMA HttpOrderly ==
    ASSUME TypeOK, OwnedInv, OrderlyInv, NEW s \in Sessions,
           \/ \E k \in Runs : OrderlyChallenge(s) /\ Challenge(s, k)
           \/ Succeeded(s) \/ HttpFails(s)
    PROVE  OrderlyInv'
<1>0. /\ machine \in [Sessions -> Machines] /\ machine[s] \in Machines
      /\ fetch \in [Sessions -> Fetches] /\ memory \in [Sessions -> Memories]
      /\ Served(s) /\ KsIsFree(s) /\ Owned(s) /\ AliveForever
  BY DEF TypeOK, OrderlyInv, OwnedInv
<1> SUFFICES Kept(s)
  BY KeptIsOrderly
<1>1. ASSUME NEW k \in Runs, OrderlyChallenge(s), Challenge(s, k) PROVE Kept(s)
  <2>1. /\ fetch[s].called /\ memory[s].ks = NoRun
        /\ message' = message /\ answer' = answer /\ force' = force
    BY <1>0, <1>1 DEF OrderlyChallenge, Challenge, KsIsFree
  <2>2. fault' = fault
    BY <1>1, <2>1 DEF Challenge
  <2>3. \A t \in Sessions \ {s} : memory'[t].ks = memory[t].ks
    <3>1. memory' = [memory EXCEPT ![s].ks = k] \/ memory' = memory
      BY <1>1 DEF Challenge
    <3> QED
      BY <1>0, <3>1
  <2>4. CASE Reports(s, "failed")
    BY <2>1, <2>2, <2>3, <2>4, ReportIsKept
  <2>5. CASE fetch' = [fetch EXCEPT ![s].run = k] /\ UNCHANGED machine
    <3>1. k # NoRun
      BY NothingAssumption
    <3>2. fetch'[s].called /\ fetch'[s].run = k
      BY <1>0, <2>1, <2>5 DEF Fetches
    <3>3. \A t \in Sessions \ {s} : fetch'[t] = fetch[t] /\ machine'[t] = machine[t]
      BY <1>0, <2>5
    <3> QED
      BY <1>0, <2>1, <2>2, <2>3, <2>5, <3>1, <3>2, <3>3 DEF Kept, Served, KsIsFree,
         AliveForever, OthersUntouched, Owned
  <2> QED
    BY <1>1, <2>4, <2>5 DEF Challenge
<1>2. CASE Succeeded(s)
  <2>1. /\ fetch[s].called /\ message' = message /\ answer' = answer
        /\ force' = force /\ fault' = fault
    BY <1>2 DEF Succeeded
  <2>2. \A t \in Sessions \ {s} : memory'[t].ks = memory[t].ks
    BY <1>0, <1>2 DEF Succeeded
  <2>3. \E c \in {"KErrNone", "failed"} : Reports(s, c)
    BY <1>2 DEF Succeeded
  <2> QED
    BY <2>1, <2>2, <2>3, ReportIsKept
<1>3. CASE HttpFails(s)
  <2>1. /\ fetch[s].called /\ message' = message /\ answer' = answer
        /\ force' = force /\ fault' = fault /\ memory' = memory
        /\ Reports(s, "failed")
    BY <1>3 DEF HttpFails
  <2> QED
    BY <2>1, ReportIsKept
<1> QED
  BY <1>1, <1>2, <1>3

\* Every orderly step keeps the invariant.
LEMMA NextOrderly == TypeOK /\ OwnedInv /\ OrderlyInv /\ [OrderlyNext]_vars => OrderlyInv'
<1> SUFFICES ASSUME TypeOK, OwnedInv, OrderlyInv, [OrderlyNext]_vars PROVE OrderlyInv'
  OBVIOUS
<1>1. ASSUME NEW s \in Sessions, OrderlySession(s) PROVE OrderlyInv'
  BY <1>1, ClientOrderly, RunLOrderly, HttpOrderly DEF OrderlySession
<1>2. CASE sessionVars' = sessionVars /\ fault' = fault
  BY <1>2 DEF sessionVars, OrderlyInv, AliveForever, Served, KsIsFree
<1>3. CASE UNCHANGED vars
  BY <1>2, <1>3 DEF vars
<1>4. ASSUME \/ \E i \in Impi : ChangeCard(i)
             \/ \E k \in Runs : Expire(k)
             \/ Stop
      PROVE  OrderlyInv'
  <2>1. sessionVars' = sessionVars /\ fault' = fault
    BY <1>4 DEF ChangeCard, Expire, Stop
  <2> QED
    BY <1>2, <2>1
<1> QED
  BY <1>1, <1>3, <1>4 DEF OrderlyNext, OrderlyStep

\* The invariants of the server hold together for orderly clients.
LEMMA OrderlyInvariant == OrderlySpec => [](TypeOK /\ OwnedInv /\ OrderlyInv)
BY InitTyped, NextTyped, InitOwned, NextOwned, InitOrderly, NextOrderly, OrderlyIsNext,
   PTL DEF OrderlySpec

\* With orderly clients the server is not panicked by a second completion or an
\* overflow, and never waits for ever in the destructor of a session.
THEOREM NeverLost == OrderlySpec => []AliveForever
<1>1. OrderlyInv => AliveForever
  BY DEF OrderlyInv
<1> QED
  BY <1>1, OrderlyInvariant, PTL

\* With orderly clients a state machine that waits has a retriever at work for it.
THEOREM NoEventIsLost == OrderlySpec => []EventWillCome
<1>1. OrderlyInv => EventWillCome
  BY DEF OrderlyInv, Served, EventWillCome
<1> QED
  BY <1>1, OrderlyInvariant, PTL

\* With orderly clients a client waits exactly when its state machine works for it.
THEOREM NoWaitIsLost == OrderlySpec => []WaitingIsServed
<1>1. OrderlyInv => WaitingIsServed
  BY DEF OrderlyInv, Served, WaitingIsServed
<1> QED
  BY <1>1, OrderlyInvariant, PTL

(***************************************************************************)
(* Credentials, with orderly clients: whatever sessions do at the same     *)
(* time, a client gets B-TID and key of one authentication, and the file   *)
(* never mixes those of two.  From it, that the server implements          *)
(* BootstrapService.                                                       *)
(***************************************************************************)

\* Every session that is open has looked at the card that is in the phone.
InterfaceIsTheCards ==
    \A s \in Sessions : message[s] # "closed" => interface[s] = (card \in GbaU)

\* The file knows whether its card has GBA_U, and holds all of a run or nothing.
FileIsWhole ==
    /\ store.impi \in Impi => store.gbau = (store.impi \in GbaU)
    /\ store.btid = NoRun => store.ks = NoRun /\ store.lifetime = NoRun

\* The credentials it holds are one run's, which its card has answered; with
\* GBA_U that is the last one the card has answered, and now saved.
FileIsOfOneRun ==
    store.btid # NoRun =>
        /\ store.lifetime = store.btid
        /\ store.impi \in Impi /\ owner[store.btid] = store.impi
        /\ store.impi \notin GbaU => store.ks = store.btid
        /\ store.impi \in GbaU /\ (\A s \in Sessions : ~AwaitsBTID(s))
              => cardKs[store.impi] = store.btid

\* A request of the retriever is for the card in the phone, whose file it is,
\* and B-TID and life time are empty until they come.
FetchIsTheCards(s) ==
    fetch[s].called =>
        /\ fetch[s].for = card /\ store.impi = card
        /\ memory[s].identity = card /\ memory[s].gbau = (card \in GbaU)
        /\ memory[s].btid = NoRun /\ memory[s].lifetime = NoRun

\* A challenge that was answered and not saved yet: its key is in the buffer or
\* on the card, and the run is nobody else's.
RunIsFresh(s) ==
    fetch[s].run # NoRun =>
        /\ fetch[s].called
        /\ owner[fetch[s].run] = card
        /\ fetch[s].run # store.btid
        /\ IF card \in GbaU THEN cardKs[card] = fetch[s].run
                            ELSE memory[s].ks = fetch[s].run
        /\ \A t \in Sessions : fetch[t].run = fetch[s].run => t = s

\* Buffers with a life time: the next bootstrap reads the credentials of the card
\* from the file, or the buffers hold all of one run.
Whole(m, file) ==
    m.lifetime # NoRun =>
        \/ file.btid # NoRun /\ file.impi = card
        \/ /\ card \notin GbaU
           /\ m.btid = m.lifetime /\ m.ks = m.lifetime /\ owner[m.btid] = card

BuffersAreOfOneRun(s) ==
    /\ memory[s].lifetime # NoRun => message[s] # "closed"
    /\ Whole(memory[s], store)
    /\ \/ machine[s].state = "EIdle" /\ answer[s].code \in {"none", "KErrNone"}
       \/ machine[s].state = "EInitialize" /\ force[s]
       => memory[s].btid = NoRun /\ memory[s].lifetime = NoRun

\* What a client is about to get, or has got, is one run's.
OfOneRun(o) ==
    /\ o.btid \in Runs /\ o.key = o.btid
    /\ o.identity \in Impi /\ owner[o.btid] = o.identity

AnswersAreOfOneRun(s) ==
    /\ machine[s].active /\ machine[s].state = "EBusy" /\ machine[s].status = "KErrNone"
          => OfOneRun(output[s])
    /\ answer[s].code = "KErrNone" => OfOneRun(answer[s])

SessionInv(s) ==
    /\ FetchIsTheCards(s) /\ RunIsFresh(s)
    /\ BuffersAreOfOneRun(s) /\ AnswersAreOfOneRun(s)

CredentialsInv ==
    /\ InterfaceIsTheCards /\ FileIsWhole /\ FileIsOfOneRun
    /\ \A s \in Sessions : SessionInv(s)
-----------------------------------------------------------------------------
\* It holds at the beginning.
LEMMA InitCredentials == Init => CredentialsInv
<1> SUFFICES ASSUME Init PROVE CredentialsInv
  OBVIOUS
<1>1. \A s \in Sessions : SessionInv(s)
  BY DEF Init, SessionInv, FetchIsTheCards, RunIsFresh, BuffersAreOfOneRun, Whole,
     AnswersAreOfOneRun, Idle, NoFetch, NoMemory, NoOutput, Plain
<1>2. InterfaceIsTheCards /\ FileIsWhole /\ FileIsOfOneRun
  BY NothingAssumption DEF Init, InterfaceIsTheCards, FileIsWhole, FileIsOfOneRun, NoStore
<1> QED
  BY <1>1, <1>2 DEF CredentialsInv

\* All of the other sessions is as before.
OthersAsTheyWere(s) ==
    \A t \in Sessions \ {s} :
        /\ message'[t] = message[t] /\ answer'[t] = answer[t] /\ force'[t] = force[t]
        /\ machine'[t] = machine[t] /\ fetch'[t] = fetch[t] /\ memory'[t] = memory[t]
        /\ output'[t] = output[t] /\ interface'[t] = interface[t]

\* The runs that have been answered stay answered.
OwnerGrows == \A k \in Runs : owner[k] # NoImpi => owner'[k] = owner[k]

\* What a session holds is one run's, whatever another one does to the file,
\* if only the card does not answer a challenge of its own in between.
LEMMA OthersAreOfOneRun ==
    ASSUME TypeOK, OwnedInv, CredentialsInv, NEW s \in Sessions, NEW t \in Sessions \ {s},
           OthersAsTheyWere(s), card' = card, OwnerGrows,
           \/ cardKs' = cardKs
           \/ card \in GbaU => fetch[t].run = NoRun,
           \/ store' = store
           \/ store.impi # card
           \/ fetch[s].run # NoRun /\ store'.btid = fetch[s].run /\ store'.impi = card,
           \/ fetch'[s].run \in {NoRun, fetch[s].run}
           \/ fetch'[s].run # fetch[t].run
    PROVE  SessionInv(t)'
<1>0. /\ SessionInv(t) /\ Owned(t) /\ card \in Impi /\ card # NoImpi
      /\ memory[t] \in Memories /\ fetch[t] \in Fetches /\ store \in Stores
      /\ NoRun \notin Runs /\ NoImpi \notin Impi
  BY NothingAssumption DEF TypeOK, OwnedInv, CredentialsInv
<1>1. /\ message'[t] = message[t] /\ answer'[t] = answer[t] /\ force'[t] = force[t]
      /\ machine'[t] = machine[t] /\ fetch'[t] = fetch[t] /\ memory'[t] = memory[t]
      /\ output'[t] = output[t]
  BY DEF OthersAsTheyWere
<1>2. fetch[t].run # NoRun => fetch[t].run # fetch[s].run
  BY <1>0 DEF SessionInv, RunIsFresh
<1>3. FetchIsTheCards(t)'
  BY <1>0, <1>1 DEF SessionInv, FetchIsTheCards
<1>4. RunIsFresh(t)'
  <2> SUFFICES ASSUME fetch[t].run # NoRun PROVE RunIsFresh(t)'
    BY <1>1 DEF RunIsFresh
  <2>1. /\ fetch[t].called /\ fetch[t].run \in Runs /\ owner[fetch[t].run] = card
        /\ fetch[t].run # store.btid /\ store.impi = card
        /\ IF card \in GbaU THEN cardKs[card] = fetch[t].run
                             ELSE memory[t].ks = fetch[t].run
    BY <1>0 DEF SessionInv, RunIsFresh, FetchIsTheCards, Fetches, RunOrNone
  <2>2. owner'[fetch[t].run] = card
    BY <1>0, <2>1 DEF OwnerGrows
  <2>3. fetch[t].run # store'.btid
    BY <1>2, <2>1
  <2>4. IF card \in GbaU THEN cardKs'[card] = fetch[t].run
                         ELSE memory[t].ks = fetch[t].run
    BY <2>1
  <2>5. ASSUME NEW u \in Sessions, fetch'[u].run = fetch[t].run PROVE u = t
    <3>1. CASE u = s
      BY <1>2, <2>5, <3>1
    <3>2. CASE u # s
      BY <1>0, <2>5, <3>2 DEF OthersAsTheyWere, SessionInv, RunIsFresh
    <3> QED
      BY <3>1, <3>2
  <2> QED
    BY <1>1, <2>1, <2>2, <2>3, <2>4, <2>5 DEF RunIsFresh
<1>5. BuffersAreOfOneRun(t)'
  <2>1. Whole(memory[t], store)'
    BY <1>0, <1>1 DEF SessionInv, BuffersAreOfOneRun, Whole, Memories, RunOrNone, OwnerGrows
  <2> QED
    BY <1>0, <1>1, <2>1 DEF SessionInv, BuffersAreOfOneRun
<1>6. AnswersAreOfOneRun(t)'
  BY <1>0, <1>1 DEF SessionInv, AnswersAreOfOneRun, OfOneRun, OwnerGrows
<1> QED
  BY <1>3, <1>4, <1>5, <1>6 DEF SessionInv
\* No card has a key that the file does not know of.
Quiet == \A t \in Sessions : ~AwaitsBTID(t)

\* What a session does to the file when it looks at the card.
FileChecked ==
    \/ store' = store
    \/ /\ store.impi # card
       /\ \/ store' = NoStore
          \/ store' = [NoStore EXCEPT !.impi = card, !.gbau = (card \in GbaU)]

\* A session that looks at the card, and is right about itself.
LEMMA CheckedIsOfOneRun ==
    ASSUME TypeOK, OwnedInv, CredentialsInv, Quiet, NEW s \in Sessions,
           OthersAsTheyWere(s), SessionInv(s)', FileChecked, UNCHANGED <<card, cardKs, owner>>,
           fetch'[s].run \in {NoRun, fetch[s].run},
           message'[s] # "closed" => interface'[s] = (card \in GbaU)
    PROVE  CredentialsInv'
<1>0. /\ InterfaceIsTheCards /\ FileIsWhole /\ FileIsOfOneRun
      /\ card \in Impi /\ card # NoImpi /\ NoImpi \notin Impi
  BY NothingAssumption DEF CredentialsInv, TypeOK
<1>1. \A t \in Sessions : SessionInv(t)'
  <2>1. OwnerGrows
    BY DEF OwnerGrows
  <2>2. store' = store \/ store.impi # card
    BY DEF FileChecked
  <2> QED
    BY <2>1, <2>2, OthersAreOfOneRun
<1>2. InterfaceIsTheCards'
  BY <1>0 DEF InterfaceIsTheCards, OthersAsTheyWere
<1>3. CASE store' = store
  BY <1>0, <1>1, <1>2, <1>3 DEF CredentialsInv, FileIsWhole, FileIsOfOneRun, Quiet
<1>4. CASE \/ store' = NoStore
           \/ store' = [NoStore EXCEPT !.impi = card, !.gbau = (card \in GbaU)]
  <2>1. /\ store'.btid = NoRun /\ store'.ks = NoRun /\ store'.lifetime = NoRun
        /\ store'.impi = NoImpi \/ (store'.impi = card /\ store'.gbau = (card \in GbaU))
    <3>1. CASE store' = NoStore
      BY <3>1 DEF NoStore
    <3>2. CASE store' = [NoStore EXCEPT !.impi = card, !.gbau = (card \in GbaU)]
      BY <3>2 DEF NoStore
    <3> QED
      BY <1>4, <3>1, <3>2
  <2>2. FileIsWhole' /\ FileIsOfOneRun'
    BY <1>0, <2>1 DEF FileIsWhole, FileIsOfOneRun
  <2> QED
    BY <1>1, <1>2, <2>2 DEF CredentialsInv
<1> QED
  BY <1>3, <1>4 DEF FileChecked

\* What a session that is open finds when it looks at the card and the file.
LEMMA FileAfter ==
    ASSUME TypeOK, CredentialsInv, NEW s \in Sessions, message[s] # "closed"
    PROVE  /\ InterfaceAfter(s, card) = (card \in GbaU)
           /\ StoreAfter(s, card) = IF store.impi = card THEN store ELSE
                 [NoStore EXCEPT !.impi = card, !.gbau = (card \in GbaU)]
           /\ StoreAfter(s, card).impi = card
           /\ StoreAfter(s, card).gbau = (card \in GbaU)
<1>1. InterfaceAfter(s, card) = (card \in GbaU)
  BY DEF InterfaceAfter, CredentialsInv, InterfaceIsTheCards
<1>2. StoreAfter(s, card) = IF store.impi = card THEN store ELSE
         [NoStore EXCEPT !.impi = card, !.gbau = (card \in GbaU)]
  BY <1>1 DEF StoreAfter
<1>3. card \in Impi /\ (store.impi = card => store.gbau = (card \in GbaU))
  BY DEF TypeOK, CredentialsInv, FileIsWhole
<1> QED
  BY <1>1, <1>2, <1>3 DEF NoStore

\* The buffers with a life time that the file has put into them, or left there.
LEMMA LoadedIsOfOneRun ==
    ASSUME TypeOK, CredentialsInv, NEW s \in Sessions, message[s] # "closed"
    PROVE  /\ Loaded(s).identity = card /\ Loaded(s).gbau = (card \in GbaU)
           /\ Loaded(s).lifetime # NoRun =>
                /\ Loaded(s).btid = Loaded(s).lifetime /\ Loaded(s).btid \in Runs
                /\ owner[Loaded(s).btid] = card
                /\ IF card \in GbaU
                   THEN store.impi = card /\ Loaded(s).btid = store.btid
                   ELSE Loaded(s).ks = Loaded(s).btid
<1> DEFINE file == StoreAfter(s, card)
<1>0. /\ memory[s] \in Memories /\ store \in Stores /\ SessionInv(s)
      /\ FileIsWhole /\ FileIsOfOneRun /\ NoRun \notin Runs /\ card \in Impi
  BY NothingAssumption DEF TypeOK, CredentialsInv
<1>1. /\ file = IF store.impi = card THEN store ELSE
                 [NoStore EXCEPT !.impi = card, !.gbau = (card \in GbaU)]
      /\ file.gbau = (card \in GbaU)
  BY FileAfter
<1>2. /\ Loaded(s).identity = card /\ Loaded(s).gbau = file.gbau
      /\ Loaded(s).btid = IF file.btid = NoRun THEN memory[s].btid ELSE file.btid
      /\ Loaded(s).ks = IF file.ks = NoRun THEN memory[s].ks ELSE file.ks
      /\ Loaded(s).lifetime = IF file.lifetime = NoRun THEN memory[s].lifetime
                              ELSE file.lifetime
  BY <1>0 DEF Loaded, Checked, Memories
<1>3. CASE file.btid # NoRun
  <2>1. file = store /\ store.impi = card
    BY <1>1, <1>3 DEF NoStore
  <2> HIDE DEF file
  <2> QED
    BY <1>0, <1>1, <1>2, <1>3, <2>1 DEF FileIsOfOneRun, Stores, RunOrNone
<1>4. CASE file.btid = NoRun
  <2>1. /\ file.ks = NoRun /\ file.lifetime = NoRun
        /\ store.impi = card => store.btid = NoRun
    BY <1>0, <1>1, <1>4 DEF FileIsWhole, NoStore
  <2> HIDE DEF file
  <2> QED
    BY <1>0, <1>1, <1>2, <1>4, <2>1 DEF SessionInv, BuffersAreOfOneRun, Whole, Memories, RunOrNone
<1> QED
  BY <1>3, <1>4

\* What a bootstrap that goes to the network keeps in its buffers.
LEMMA PreparedIsOfOneRun ==
    ASSUME TypeOK, CredentialsInv, NEW s \in Sessions, message[s] # "closed",
           machine[s].state = "EInitialize"
    PROVE  /\ Prepared(s).identity = card /\ Prepared(s).gbau = (card \in GbaU)
           /\ Prepared(s).lifetime # NoRun =>
                Cached(s) /\ Prepared(s) = Loaded(s)
           /\ ~Cached(s) => Prepared(s).btid = NoRun /\ Prepared(s).lifetime = NoRun
<1>0. /\ memory[s] \in Memories /\ Loaded(s) \in Memories /\ SessionInv(s)
  BY BeginningTyped DEF TypeOK, CredentialsInv
<1>1. CASE force[s]
  <2>1. /\ Prepared(s).identity = card /\ Prepared(s).gbau = StoreAfter(s, card).gbau
        /\ Prepared(s).btid = memory[s].btid /\ Prepared(s).lifetime = memory[s].lifetime
    BY <1>0, <1>1 DEF Prepared, Checked, Memories
  <2> QED
    BY <1>0, <1>1, <2>1, FileAfter DEF SessionInv, BuffersAreOfOneRun
<1>2. CASE ~force[s] /\ Cached(s)
  BY <1>2, LoadedIsOfOneRun DEF Prepared
<1>3. CASE ~force[s] /\ ~Cached(s)
  <2>1. /\ Prepared(s).identity = Loaded(s).identity /\ Prepared(s).gbau = Loaded(s).gbau
        /\ Prepared(s).btid = NoRun /\ Prepared(s).lifetime = NoRun
    BY <1>0, <1>3 DEF Prepared, Memories
  <2> QED
    BY <1>3, <2>1, LoadedIsOfOneRun
<1> QED
  BY <1>1, <1>2, <1>3

\* A file that fails while it is read leaves buffers that the next reading fills,
\* or, when it holds no credentials, leaves them as they are.
LEMMA PartlyIsWhole ==
    ASSUME TypeOK, CredentialsInv, NEW s \in Sessions, message[s] # "closed",
           NEW m \in PartlyLoaded(s)
    PROVE  Whole(m, StoreAfter(s, card))
<1> DEFINE file == StoreAfter(s, card)
<1>0. /\ memory[s] \in Memories /\ store \in Stores /\ SessionInv(s)
      /\ FileIsWhole /\ FileIsOfOneRun /\ card \in Impi
  BY DEF TypeOK, CredentialsInv
<1>1. /\ file = IF store.impi = card THEN store ELSE
                 [NoStore EXCEPT !.impi = card, !.gbau = (card \in GbaU)]
      /\ file.impi = card
  BY FileAfter
<1>2. CASE file.btid # NoRun
  BY <1>1, <1>2 DEF Whole
<1>3. CASE file.btid = NoRun
  <2>1. /\ file.ks = NoRun /\ file.lifetime = NoRun
        /\ store.impi = card => store.btid = NoRun
    BY <1>0, <1>1, <1>3 DEF FileIsWhole, NoStore
  <2>2. /\ Checked(s) \in Memories /\ Loaded(s) \in Memories
        /\ Checked(s).btid = memory[s].btid /\ Checked(s).ks = memory[s].ks
        /\ Checked(s).lifetime = memory[s].lifetime
    BY <1>0, BeginningTyped DEF Checked, Memories
  <2>3. /\ Loaded(s).btid = memory[s].btid /\ Loaded(s).ks = memory[s].ks
        /\ Loaded(s).lifetime = memory[s].lifetime
    BY <1>3, <2>1, <2>2 DEF Loaded, Memories
  <2>4. m.btid = memory[s].btid /\ m.ks = memory[s].ks /\ m.lifetime = memory[s].lifetime
    BY <2>2, <2>3 DEF PartlyLoaded, Memories
  <2> QED
    BY <1>0, <2>1, <2>4 DEF SessionInv, BuffersAreOfOneRun, Whole
<1> QED
  BY <1>2, <1>3

\* What the invariants say of one session.
LEMMA OfSession ==
    ASSUME TypeOK, OwnedInv, OrderlyInv, CredentialsInv, NEW s \in Sessions
    PROVE  /\ message \in [Sessions -> {"closed", "none", "waiting"}]
           /\ answer \in [Sessions -> Answers] /\ force \in [Sessions -> BOOLEAN]
           /\ machine \in [Sessions -> Machines] /\ machine[s] \in Machines
           /\ fetch \in [Sessions -> Fetches] /\ fetch[s] \in Fetches
           /\ memory \in [Sessions -> Memories] /\ memory[s] \in Memories
           /\ output \in [Sessions -> Outputs] /\ interface \in [Sessions -> BOOLEAN]
           /\ card \in Impi /\ card # NoImpi /\ NoRun \notin Runs
           /\ Served(s) /\ KsIsFree(s) /\ Owned(s)
           /\ FetchIsTheCards(s) /\ RunIsFresh(s)
           /\ BuffersAreOfOneRun(s) /\ AnswersAreOfOneRun(s)
           /\ message[s] # "closed" => interface[s] = (card \in GbaU)
BY NothingAssumption
   DEF TypeOK, OrderlyInv, OwnedInv, CredentialsInv, SessionInv, InterfaceIsTheCards

\* The messages of an orderly client keep credentials together.
LEMMA ClientIsOfOneRun ==
    ASSUME TypeOK, OwnedInv, OrderlyInv, CredentialsInv, Quiet, NEW s \in Sessions,
           \/ OpenSession(s) \/ BadRequest(s) \/ CloseSession(s)
           \/ OrderlyCancel(s) /\ CancelRequest(s)
           \/ OrderlyQuery(s) /\ IsGBAUSupported(s)
           \/ \E f \in BOOLEAN : OrderlyRequest(s, f) /\ RequestBootstrap(s, f)
    PROVE  CredentialsInv'
<1>0. /\ message \in [Sessions -> {"closed", "none", "waiting"}]
      /\ answer \in [Sessions -> Answers] /\ force \in [Sessions -> BOOLEAN]
      /\ machine \in [Sessions -> Machines] /\ machine[s] \in Machines
      /\ fetch \in [Sessions -> Fetches] /\ fetch[s] \in Fetches
      /\ memory \in [Sessions -> Memories] /\ memory[s] \in Memories
      /\ output \in [Sessions -> Outputs] /\ interface \in [Sessions -> BOOLEAN]
      /\ card \in Impi /\ Served(s) /\ Owned(s)
      /\ FetchIsTheCards(s) /\ RunIsFresh(s)
      /\ BuffersAreOfOneRun(s) /\ AnswersAreOfOneRun(s)
      /\ message[s] # "closed" => interface[s] = (card \in GbaU)
  BY OfSession
<1> SUFFICES /\ OthersAsTheyWere(s) /\ FileChecked /\ UNCHANGED <<card, cardKs, owner>>
             /\ fetch'[s].run \in {NoRun, fetch[s].run}
             /\ message'[s] # "closed" => interface'[s] = (card \in GbaU)
             /\ FetchIsTheCards(s)' /\ RunIsFresh(s)'
             /\ BuffersAreOfOneRun(s)' /\ AnswersAreOfOneRun(s)'
  BY CheckedIsOfOneRun DEF SessionInv
<1>1. CASE OpenSession(s)
  <2>1. /\ message' = [message EXCEPT ![s] = "none"]
        /\ answer' = [answer EXCEPT ![s] = Plain("none")]
        /\ interface' = [interface EXCEPT ![s] = card \in GbaU]
        /\ message[s] = "closed" /\ machine' = machine /\ fetch' = fetch
        /\ force' = force /\ memory' = memory /\ output' = output /\ store' = store
        /\ UNCHANGED <<card, cardKs, owner>>
    BY <1>1 DEF OpenSession, cardVars
  <2>2. ~fetch[s].called /\ fetch[s].run = NoRun
    BY <1>0, <2>1 DEF Owned, RunIsFresh
  <2>3. memory[s].btid = NoRun /\ memory[s].lifetime = NoRun
    BY <1>0, <2>1 DEF BuffersAreOfOneRun, Served
  <2> QED
    BY <1>0, <2>1, <2>2, <2>3 DEF OthersAsTheyWere, FileChecked, FetchIsTheCards,
       RunIsFresh, BuffersAreOfOneRun, Whole, AnswersAreOfOneRun, Served, Plain
<1>2. CASE CloseSession(s)
  <2>1. ~(machine[s].active /\ machine[s].status = "pending" /\ ~fetch[s].called)
    BY <1>0 DEF Served
  <2>2. /\ message' = [message EXCEPT ![s] = "closed"]
        /\ machine' = [machine EXCEPT ![s] = Idle]
        /\ fetch' = [fetch EXCEPT ![s] = NoFetch]
        /\ memory' = [memory EXCEPT ![s] = NoMemory]
        /\ output' = [output EXCEPT ![s] = NoOutput]
        /\ answer' = [answer EXCEPT ![s] = Plain("none")]
        /\ interface' = [interface EXCEPT ![s] = FALSE]
        /\ force' = [force EXCEPT ![s] = FALSE]
        /\ store' = store /\ UNCHANGED <<card, cardKs, owner>>
    BY <1>2, <2>1 DEF CloseSession, cardVars
  <2> QED
    BY <1>0, <2>2 DEF OthersAsTheyWere, FileChecked, FetchIsTheCards, RunIsFresh,
       BuffersAreOfOneRun, Whole, AnswersAreOfOneRun, Plain, Idle, NoFetch, NoMemory, NoOutput
<1>3. CASE OrderlyCancel(s) /\ CancelRequest(s)
  <2>1. /\ message[s] = "waiting" /\ machine[s].active
        /\ machine[s].state \in {"EInitialize", "EBusy"}
    BY <1>0, <1>3 DEF OrderlyCancel, Served
  <2>2. /\ message' = [message EXCEPT ![s] = "none"]
        /\ answer' = [answer EXCEPT ![s] = Plain("KErrCancel")]
    BY <1>3, <2>1, Completed DEF CancelRequest
  <2>3. /\ machine'[s].state = "ECancel"
        /\ \A t \in Sessions \ {s} : machine'[t] = machine[t]
    BY <1>0, <1>3 DEF CancelRequest, Machines
  <2>4. /\ fetch' = [fetch EXCEPT ![s] = NoFetch] /\ force' = force
        /\ memory' = memory /\ output' = output /\ interface' = interface
        /\ store' = store /\ UNCHANGED <<card, cardKs, owner>>
    BY <1>3 DEF CancelRequest, cardVars
  <2> QED
    BY <1>0, <2>1, <2>2, <2>3, <2>4 DEF OthersAsTheyWere, FileChecked, FetchIsTheCards,
       RunIsFresh, BuffersAreOfOneRun, Whole, AnswersAreOfOneRun, Plain, NoFetch
<1>4. CASE OrderlyQuery(s) /\ IsGBAUSupported(s)
  <2>1. /\ message[s] # "closed" /\ message[s] # "waiting"
        /\ message' = message /\ answer' = answer /\ force' = force
        /\ machine' = machine /\ fetch' = fetch /\ output' = output
        /\ UNCHANGED <<card, cardKs, owner>>
    BY <1>4 DEF OrderlyQuery, IsGBAUSupported, Open, cardVars
  <2>2. ~fetch[s].called /\ fetch[s].run = NoRun
    BY <1>0, <2>1 DEF Owned, RunIsFresh
  <2>3. /\ \A t \in Sessions \ {s} : memory'[t] = memory[t]
        /\ memory'[s].btid = memory[s].btid /\ memory'[s].lifetime = memory[s].lifetime
        /\ memory'[s].ks = memory[s].ks
    <3>1. \E i : memory' = [memory EXCEPT ![s].identity = i]
      BY <1>4 DEF IsGBAUSupported, CheckLeaves
    <3> QED
      BY <1>0, <3>1 DEF Memories
  <2>4. /\ \A t \in Sessions \ {s} : interface'[t] = interface[t]
        /\ interface'[s] = (card \in GbaU)
        /\ FileChecked /\ (store.impi = card => store' = store)
    <3>1. CASE store' = store /\ interface' = interface
      BY <1>0, <2>1, <3>1 DEF FileChecked
    <3>2. CASE CheckDone(s)
      <4>1. /\ store' = StoreAfter(s, card)
            /\ interface' = [interface EXCEPT ![s] = InterfaceAfter(s, card)]
        BY <3>2 DEF CheckDone
      <4> QED
        BY <1>0, <2>1, <4>1, FileAfter DEF FileChecked
    <3>3. CASE /\ OtherCard(card) /\ store' \in {store, NoStore}
               /\ interface' = [interface EXCEPT ![s] = card \in GbaU]
      BY <1>0, <2>1, <3>3 DEF OtherCard, FileChecked
    <3> QED
      BY <1>4, <3>1, <3>2, <3>3 DEF IsGBAUSupported, CheckLeaves
  <2>5. Whole(memory[s], store)'
    BY <1>0, <2>1, <2>3, <2>4 DEF BuffersAreOfOneRun, Whole
  <2> QED
    BY <1>0, <2>1, <2>2, <2>3, <2>4, <2>5 DEF OthersAsTheyWere, FetchIsTheCards,
       RunIsFresh, BuffersAreOfOneRun, AnswersAreOfOneRun, OfOneRun
<1>4a. CASE BadRequest(s)
  <2>1. /\ answer' = [answer EXCEPT ![s] = Plain("failed")]
        /\ machine[s].state = "EIdle" /\ message[s] # "closed"
        /\ message' = message /\ force' = force /\ machine' = machine
        /\ fetch' = fetch /\ memory' = memory /\ output' = output
        /\ interface' = interface /\ store' = store /\ UNCHANGED <<card, cardKs, owner>>
    BY <1>4a DEF BadRequest, Open, cardVars
  <2>2. FetchIsTheCards(s)' /\ FileChecked
    BY <1>0, <2>1 DEF FetchIsTheCards, FileChecked
  <2>3. RunIsFresh(s)'
    BY <1>0, <2>1 DEF RunIsFresh
  <2> QED
    BY <1>0, <2>1, <2>2, <2>3 DEF OthersAsTheyWere,
       BuffersAreOfOneRun, Whole, AnswersAreOfOneRun, OfOneRun, Plain
<1>5. ASSUME NEW f \in BOOLEAN, OrderlyRequest(s, f), RequestBootstrap(s, f)
      PROVE  /\ OthersAsTheyWere(s) /\ FileChecked /\ UNCHANGED <<card, cardKs, owner>>
             /\ fetch'[s].run \in {NoRun, fetch[s].run}
             /\ message'[s] # "closed" => interface'[s] = (card \in GbaU)
             /\ FetchIsTheCards(s)' /\ RunIsFresh(s)'
             /\ BuffersAreOfOneRun(s)' /\ AnswersAreOfOneRun(s)'
  <2>1. /\ fetch' = fetch /\ memory' = memory /\ output' = output
        /\ interface' = interface /\ store' = store /\ UNCHANGED <<card, cardKs, owner>>
        /\ message[s] # "closed"
    BY <1>5 DEF RequestBootstrap, Open, cardVars
  <2>2. FetchIsTheCards(s)' /\ FileChecked
    BY <1>0, <2>1 DEF FetchIsTheCards, FileChecked
  <2>3. RunIsFresh(s)'
    BY <1>0, <2>1 DEF RunIsFresh
  <2>4. CASE machine[s].state = "EIdle"
    <3>1. /\ message' = [message EXCEPT ![s] = "waiting"]
          /\ force' = [force EXCEPT ![s] = f]
          /\ machine' = [machine EXCEPT ![s] =
                [state |-> "EInitialize", active |-> TRUE, status |-> "KErrNone"]]
          /\ answer' = answer
      BY <1>0, <1>5, <2>4 DEF RequestBootstrap, Served
    <3>2. f => memory[s].btid = NoRun /\ memory[s].lifetime = NoRun
      BY <1>0, <1>5, <2>4 DEF OrderlyRequest, BuffersAreOfOneRun
    <3> QED
      BY <1>0, <2>1, <2>2, <2>3, <2>4, <3>1, <3>2 DEF OthersAsTheyWere,
         BuffersAreOfOneRun, Whole, AnswersAreOfOneRun, OfOneRun
  <2>5. CASE machine[s].state # "EIdle"
    <3>1. /\ answer' = [answer EXCEPT ![s] = Plain("KErrInUse")]
          /\ message' = message /\ force' = force /\ machine' = machine
      BY <1>5, <2>5 DEF RequestBootstrap
    <3> QED
      BY <1>0, <2>1, <2>2, <2>3, <2>5, <3>1 DEF OthersAsTheyWere,
         BuffersAreOfOneRun, Whole, AnswersAreOfOneRun, OfOneRun, Plain
  <2> QED
    BY <2>4, <2>5
<1> QED
  BY <1>1, <1>2, <1>3, <1>4, <1>4a, <1>5
\* A bootstrap that ends with an error: buffers with a life time hold a run.
LEMMA ErrorIsOfOneRun ==
    ASSUME TypeOK, OwnedInv, OrderlyInv, CredentialsInv, Quiet, NEW s \in Sessions,
           RunError(s, FALSE), machine[s].active, machine[s].state \in {"EInitialize", "EBusy"},
           ~fetch[s].called, FileChecked,
           UNCHANGED <<fetch, force, output, card, cardKs, owner>>,
           NEW m \in Memories, memory' = [memory EXCEPT ![s] = m],
           \A t \in Sessions \ {s} : interface'[t] = interface[t],
           interface'[s] = (card \in GbaU),
           Whole(m, store')
    PROVE  CredentialsInv'
<1>0. /\ message \in [Sessions -> {"closed", "none", "waiting"}]
      /\ answer \in [Sessions -> Answers] /\ machine \in [Sessions -> Machines]
      /\ fetch \in [Sessions -> Fetches] /\ memory \in [Sessions -> Memories]
      /\ RunIsFresh(s)
  BY OfSession
<1>1. Completes(s, Plain("failed"))
  BY DEF RunError
<1>2. /\ message' = [message EXCEPT ![s] = "none"]
      /\ answer' = [answer EXCEPT ![s] = Plain("failed")]
  BY <1>1, Completed
<1>3. machine' = [machine EXCEPT ![s] =
         [state |-> "EIdle", active |-> FALSE, status |-> "KErrNone"]]
  BY DEF RunError
<1>4. OthersAsTheyWere(s)
  BY <1>0, <1>2, <1>3 DEF OthersAsTheyWere
<1>5. FetchIsTheCards(s)' /\ RunIsFresh(s)'
  BY <1>0 DEF FetchIsTheCards, RunIsFresh
<1>6. BuffersAreOfOneRun(s)' /\ AnswersAreOfOneRun(s)'
  BY <1>0, <1>2, <1>3 DEF BuffersAreOfOneRun, Whole, AnswersAreOfOneRun, Plain
<1> QED
  BY <1>4, <1>5, <1>6, CheckedIsOfOneRun DEF SessionInv

\* The credentials of a run, for the card or from the buffers.
LEMMA CredentialsOfOneRun ==
    ASSUME TypeOK, NEW m \in Memories, NEW u \in BOOLEAN, u = (card \in GbaU),
           m.identity = card, m.gbau = (card \in GbaU),
           m.btid \in Runs, owner[m.btid] = card,
           IF card \in GbaU THEN cardKs[card] = m.btid ELSE m.ks = m.btid
    PROVE  OfOneRun(Credentials(u, m))
BY DEF OfOneRun, Credentials, TypeOK

\* The credentials of the file that is valid are those of one run.
LEMMA CachedIsOfOneRun ==
    ASSUME TypeOK, CredentialsInv, Quiet, NEW s \in Sessions, message[s] # "closed",
           Cached(s)
    PROVE  /\ OfOneRun(Credentials(InterfaceAfter(s, card), Loaded(s)))
           /\ Credentials(InterfaceAfter(s, card), Loaded(s)).btid \in Runs
           /\ owner[Credentials(InterfaceAfter(s, card), Loaded(s)).btid] = card
<1> DEFINE m == Loaded(s)
           u == InterfaceAfter(s, card)
<1>1. m \in Memories /\ u \in BOOLEAN /\ u = (card \in GbaU)
  BY BeginningTyped, FileAfter
<1>2. m.lifetime # NoRun
  BY DEF Cached
<1>3. /\ m.identity = card /\ m.gbau = (card \in GbaU)
      /\ m.btid \in Runs /\ owner[m.btid] = card
      /\ IF card \in GbaU THEN store.impi = card /\ m.btid = store.btid
                          ELSE m.ks = m.btid
  BY <1>2, LoadedIsOfOneRun
<1>4. card \in GbaU => cardKs[card] = m.btid
  BY <1>3, NothingAssumption DEF CredentialsInv, FileIsOfOneRun, Quiet, TypeOK
<1>5. Credentials(u, m).btid = m.btid
  BY DEF Credentials
<1> HIDE DEF m, u
<1>6. OfOneRun(Credentials(u, m))
  BY <1>1, <1>3, <1>4, CredentialsOfOneRun
<1> QED
  BY <1>3, <1>5, <1>6 DEF m, u

\* The RunL of a state machine keeps credentials together.
LEMMA RunLIsOfOneRun ==
    ASSUME TypeOK, OwnedInv, OrderlyInv, CredentialsInv, Quiet, NEW s \in Sessions,
           \/ RunCached(s) \/ RunFetch(s) \/ RunLeaves(s)
           \/ RunDone(s) \/ RunFailed(s) \/ RunCancelled(s) \/ RunIgnored(s)
    PROVE  CredentialsInv'
<1>0. /\ message \in [Sessions -> {"closed", "none", "waiting"}]
      /\ answer \in [Sessions -> Answers] /\ force \in [Sessions -> BOOLEAN]
      /\ machine \in [Sessions -> Machines] /\ machine[s] \in Machines
      /\ fetch \in [Sessions -> Fetches] /\ fetch[s] \in Fetches
      /\ memory \in [Sessions -> Memories] /\ memory[s] \in Memories
      /\ output \in [Sessions -> Outputs] /\ interface \in [Sessions -> BOOLEAN]
      /\ card \in Impi /\ NoRun \notin Runs /\ Served(s) /\ Owned(s)
      /\ FetchIsTheCards(s) /\ RunIsFresh(s)
      /\ BuffersAreOfOneRun(s) /\ AnswersAreOfOneRun(s)
      /\ message[s] # "closed" => interface[s] = (card \in GbaU)
  BY OfSession
<1>a. Loaded(s) \in Memories /\ Prepared(s) \in Memories
  BY BeginningTyped
<1>b. ASSUME Starts(s)
      PROVE  /\ message[s] = "waiting" /\ message[s] # "closed"
             /\ machine[s].active /\ machine[s].state = "EInitialize"
             /\ machine[s].status = "KErrNone" /\ ~fetch[s].called /\ fetch[s].run = NoRun
  BY <1>0, <1>b DEF Starts, Served, Owned, RunIsFresh
<1>c. ASSUME Starts(s), CheckDone(s)
      PROVE  /\ FileChecked /\ store'.impi = card /\ Whole(Loaded(s), store')
             /\ \A t \in Sessions \ {s} : interface'[t] = interface[t]
             /\ interface'[s] = (card \in GbaU)
  <2>1. /\ store' = StoreAfter(s, card)
        /\ interface' = [interface EXCEPT ![s] = InterfaceAfter(s, card)]
    BY <1>c DEF CheckDone
  <2>2. FileChecked /\ store'.impi = card /\ (store.impi = card => store' = store)
    BY <1>b, <1>c, <2>1, FileAfter DEF FileChecked
  <2>3. Whole(Loaded(s), store')
    <3>1. Loaded(s).lifetime # NoRun =>
            /\ Loaded(s).btid = Loaded(s).lifetime /\ Loaded(s).btid \in Runs
            /\ owner[Loaded(s).btid] = card
            /\ IF card \in GbaU THEN store.impi = card /\ Loaded(s).btid = store.btid
                                ELSE Loaded(s).ks = Loaded(s).btid
      BY <1>b, <1>c, LoadedIsOfOneRun
    <3> QED
      BY <1>0, <2>2, <3>1 DEF Whole
  <2> QED
    BY <1>0, <1>b, <1>c, <2>1, <2>2, <2>3, FileAfter
<1>d. ASSUME /\ OthersAsTheyWere(s) /\ FileChecked /\ UNCHANGED <<card, cardKs, owner>>
             /\ fetch'[s].run \in {NoRun, fetch[s].run}
             /\ message'[s] # "closed" => interface'[s] = (card \in GbaU)
             /\ FetchIsTheCards(s)' /\ RunIsFresh(s)'
             /\ BuffersAreOfOneRun(s)' /\ AnswersAreOfOneRun(s)'
      PROVE  CredentialsInv'
  BY <1>d, CheckedIsOfOneRun DEF SessionInv
<1>1. CASE RunCached(s)
  <2>1. /\ message' = message /\ answer' = answer /\ force' = force /\ fetch' = fetch
        /\ memory' = [memory EXCEPT ![s] = Loaded(s)]
        /\ output' = [output EXCEPT ![s] = Credentials(InterfaceAfter(s, card), Loaded(s))]
        /\ machine' = [machine EXCEPT ![s].state = "EBusy"]
        /\ UNCHANGED <<card, cardKs, owner>> /\ Starts(s) /\ CheckDone(s) /\ Cached(s)
    BY <1>1 DEF RunCached, cardVars
  <2>2. OfOneRun(Credentials(InterfaceAfter(s, card), Loaded(s)))
    BY <1>b, <2>1, CachedIsOfOneRun
  <2>3. OthersAsTheyWere(s)
    BY <1>0, <1>c, <2>1 DEF OthersAsTheyWere
  <2>4. FetchIsTheCards(s)' /\ RunIsFresh(s)'
    BY <1>b, <2>1 DEF FetchIsTheCards, RunIsFresh
  <2>5. machine'[s].state = "EBusy"
    BY <1>0, <2>1 DEF Machines
  <2>6. BuffersAreOfOneRun(s)'
    BY <1>0, <1>b, <1>c, <2>1, <2>5 DEF BuffersAreOfOneRun, Whole
  <2>7. AnswersAreOfOneRun(s)'
    <3>1. OfOneRun(output[s])' /\ (OfOneRun(answer[s]) => OfOneRun(answer[s])')
      BY <1>0, <2>1, <2>2 DEF OfOneRun
    <3> QED
      BY <1>0, <2>1, <3>1 DEF AnswersAreOfOneRun
  <2> QED
    BY <1>b, <1>c, <1>d, <2>1, <2>3, <2>4, <2>6, <2>7
<1>2. CASE RunFetch(s)
  <2>1. /\ message' = message /\ answer' = answer /\ force' = force /\ output' = output
        /\ memory' = [memory EXCEPT ![s] = Prepared(s)]
        /\ machine' = [machine EXCEPT ![s] =
               [state |-> "EBusy", active |-> TRUE, status |-> "pending"]]
        /\ fetch' = [fetch EXCEPT ![s] = [called |-> TRUE, for |-> card, run |-> NoRun]]
        /\ UNCHANGED <<card, cardKs, owner>> /\ Starts(s) /\ CheckDone(s) /\ ~Cached(s)
    BY <1>2 DEF RunFetch, cardVars
  <2>2. /\ Prepared(s).identity = card /\ Prepared(s).gbau = (card \in GbaU)
        /\ Prepared(s).btid = NoRun /\ Prepared(s).lifetime = NoRun
    BY <1>b, <2>1, PreparedIsOfOneRun
  <2>3. OthersAsTheyWere(s)
    BY <1>0, <1>c, <2>1 DEF OthersAsTheyWere
  <2>4. FetchIsTheCards(s)' /\ RunIsFresh(s)'
    BY <1>0, <1>c, <2>1, <2>2 DEF FetchIsTheCards, RunIsFresh
  <2>5. BuffersAreOfOneRun(s)'
    BY <1>0, <2>1, <2>2 DEF BuffersAreOfOneRun, Whole
  <2>6. AnswersAreOfOneRun(s)'
    BY <1>0, <2>1 DEF AnswersAreOfOneRun, OfOneRun
  <2> QED
    BY <1>0, <1>b, <1>c, <1>d, <2>1, <2>3, <2>4, <2>5, <2>6
<1>3. CASE RunLeaves(s)
  <2>1. /\ RunError(s, FALSE) /\ Starts(s)
        /\ UNCHANGED <<fetch, force, output, card, cardKs, owner>>
    BY <1>3 DEF RunLeaves, cardVars
  <2>2. ASSUME NEW i \in Identity, memory' = [memory EXCEPT ![s].identity = i],
               FileChecked, store' = store \/ store.impi # card,
               \A t \in Sessions \ {s} : interface'[t] = interface[t],
               interface'[s] = (card \in GbaU)
        PROVE  CredentialsInv'
    <3> DEFINE m == [memory[s] EXCEPT !.identity = i]
    <3>1. /\ m \in Memories /\ m.lifetime = memory[s].lifetime /\ m.btid = memory[s].btid
          /\ m.ks = memory[s].ks /\ memory' = [memory EXCEPT ![s] = m]
      BY <1>0, <2>2 DEF Memories
    <3> HIDE DEF m
    <3>2. Whole(m, store')
      BY <1>0, <2>2, <3>1 DEF BuffersAreOfOneRun, Whole
    <3> QED
      BY <1>b, <2>1, <2>2, <3>1, <3>2, ErrorIsOfOneRun
  <2>3. CASE /\ \E i \in {NoImpi, card} : memory' = [memory EXCEPT ![s].identity = i]
             /\ UNCHANGED <<store, interface>>
    BY <1>0, <1>b, <2>1, <2>2, <2>3 DEF FileChecked, Identity
  <2>4. CASE /\ memory' = [memory EXCEPT ![s].identity = card]
             /\ OtherCard(card) /\ store' \in {store, NoStore}
             /\ interface' = [interface EXCEPT ![s] = card \in GbaU]
    <3>1. store.impi # card /\ card \in Identity
      BY <1>0, <2>4 DEF OtherCard, Identity
    <3>2. FileChecked
      BY <2>4, <3>1 DEF FileChecked
    <3>3. /\ \A t \in Sessions \ {s} : interface'[t] = interface[t]
          /\ interface'[s] = (card \in GbaU)
      BY <1>0, <2>4
    <3> QED
      BY <2>2, <2>4, <3>1, <3>2, <3>3
  <2>5. CASE CheckDone(s) /\ memory' = [memory EXCEPT ![s] = Prepared(s)]
    <3>1. Prepared(s).lifetime # NoRun => Prepared(s) = Loaded(s)
      BY <1>b, <2>1, PreparedIsOfOneRun
    <3>2. Whole(Prepared(s), store')
      BY <1>c, <2>1, <2>5, <3>1 DEF Whole
    <3> QED
      BY <1>a, <1>b, <1>c, <2>1, <2>5, <3>2, ErrorIsOfOneRun
  <2>6. ASSUME CheckDone(s), NEW m \in PartlyLoaded(s), memory' = [memory EXCEPT ![s] = m]
        PROVE  CredentialsInv'
    <3>1. m \in Memories
      BY <2>6, PartlyTyped
    <3>2. Whole(m, store')
      BY <1>b, <2>1, <2>6, PartlyIsWhole DEF CheckDone
    <3> QED
      BY <1>b, <1>c, <2>1, <2>6, <3>1, <3>2, ErrorIsOfOneRun
  <2> QED
    BY <1>3, <2>3, <2>4, <2>5, <2>6 DEF RunLeaves, CheckLeaves
<1>4. CASE RunDone(s)
  <2>1. /\ machine[s].active /\ machine[s].state = "EBusy" /\ ~fetch[s].called
        /\ machine[s].status = "KErrNone" /\ fetch[s].run = NoRun
    BY <1>0, <1>4 DEF RunDone, Signalled, Owned, RunIsFresh
  <2>2. /\ message' = [message EXCEPT ![s] = "none"]
        /\ answer' \in {[answer EXCEPT ![s] = Answer("KErrNone", output[s])],
                         [answer EXCEPT ![s] = Plain("failed")]}
    BY <1>4, <2>1, Completed DEF RunDone
  <2>3. /\ machine' = [machine EXCEPT ![s] = Idle]
        /\ memory' = [memory EXCEPT ![s] = NoMemory]
        /\ fetch' = fetch /\ force' = force /\ output' = output /\ interface' = interface
        /\ store' = store /\ UNCHANGED <<card, cardKs, owner>>
    BY <1>4 DEF RunDone, cardVars
  <2>4. message[s] # "closed"
    BY <1>0, <2>1 DEF Served
  <2>5. OthersAsTheyWere(s) /\ FileChecked
    BY <1>0, <2>2, <2>3 DEF OthersAsTheyWere, FileChecked
  <2>6. FetchIsTheCards(s)' /\ RunIsFresh(s)' /\ BuffersAreOfOneRun(s)'
    BY <1>0, <2>1, <2>2, <2>3 DEF FetchIsTheCards, RunIsFresh, BuffersAreOfOneRun, Whole, NoMemory
  <2>7. AnswersAreOfOneRun(s)'
    <3>1. OfOneRun(output[s])
      BY <1>0, <2>1 DEF AnswersAreOfOneRun
    <3>2. answer'[s].code = "KErrNone" => OfOneRun(answer[s])'
      BY <1>0, <2>2, <2>3, <3>1 DEF OfOneRun, Answer, Plain
    <3> QED
      BY <1>0, <2>3, <3>2 DEF AnswersAreOfOneRun, Idle
  <2> QED
    BY <1>0, <1>d, <2>3, <2>4, <2>5, <2>6, <2>7
<1>5. CASE RunFailed(s)
  <2>1. /\ machine[s].active /\ machine[s].state = "EBusy" /\ ~fetch[s].called
        /\ message[s] # "closed"
    BY <1>0, <1>5 DEF RunFailed, Signalled, Served, Owned
  <2>2. /\ RunError(s, FALSE) /\ memory' = memory /\ interface' = interface
        /\ UNCHANGED <<fetch, force, output, card, cardKs, owner>> /\ store' = store
    BY <1>5 DEF RunFailed, cardVars
  <2>3. memory' = [memory EXCEPT ![s] = memory[s]] /\ FileChecked
    BY <1>0, <2>2 DEF FileChecked
  <2>4. /\ Whole(memory[s], store')
        /\ interface'[s] = (card \in GbaU)
        /\ \A t \in Sessions \ {s} : interface'[t] = interface[t]
    BY <1>0, <2>1, <2>2 DEF BuffersAreOfOneRun, Whole
  <2>5. memory[s] \in Memories /\ machine[s].state \in {"EInitialize", "EBusy"}
    BY <1>0, <2>1
  <2> QED
    BY <2>1, <2>2, <2>3, <2>4, <2>5, ErrorIsOfOneRun
<1>6. CASE RunCancelled(s) \/ RunIgnored(s)
  <2>1. /\ machine[s].state = "ECancel" /\ ~fetch[s].called /\ fetch[s].run = NoRun
        /\ answer[s].code \in {"KErrCancel", "KErrInUse"}
        /\ message' = message /\ answer' = answer /\ force' = force
        /\ fetch' = fetch /\ memory' = memory /\ output' = output /\ interface' = interface
        /\ store' = store /\ UNCHANGED <<card, cardKs, owner>>
        /\ \/ machine' = [machine EXCEPT ![s] = Idle]
           \/ machine' = [machine EXCEPT ![s].active = FALSE]
    BY <1>0, <1>6 DEF RunCancelled, RunIgnored, Owned, Served, RunIsFresh, cardVars
  <2>2. OthersAsTheyWere(s) /\ FileChecked /\ ~machine'[s].active
        /\ machine'[s].state \in {"EIdle", "ECancel"}
    BY <1>0, <2>1 DEF OthersAsTheyWere, FileChecked, Machines, Idle
  <2>3. FetchIsTheCards(s)' /\ RunIsFresh(s)'
    BY <2>1 DEF FetchIsTheCards, RunIsFresh
  <2>4. BuffersAreOfOneRun(s)' /\ AnswersAreOfOneRun(s)'
    BY <1>0, <2>1, <2>2 DEF BuffersAreOfOneRun, Whole, AnswersAreOfOneRun, OfOneRun
  <2> QED
    BY <1>0, <1>d, <2>1, <2>2, <2>3, <2>4
<1> QED
  BY <1>1, <1>2, <1>3, <1>4, <1>5, <1>6
\* A challenge is answered by the card of the request, and its run is new.
LEMMA ChallengeIsOfOneRun ==
    ASSUME TypeOK, OwnedInv, OrderlyInv, CredentialsInv, Quiet, NEW s \in Sessions,
           NEW k \in Runs, OrderlyChallenge(s), Challenge(s, k)
    PROVE  CredentialsInv'
<1>0. /\ machine \in [Sessions -> Machines] /\ machine[s] \in Machines
      /\ fetch \in [Sessions -> Fetches] /\ fetch[s] \in Fetches
      /\ memory \in [Sessions -> Memories] /\ memory[s] \in Memories
      /\ card \in Impi /\ card # NoImpi /\ NoRun \notin Runs /\ Served(s) /\ Owned(s)
      /\ KsIsFree(s) /\ FetchIsTheCards(s) /\ RunIsFresh(s)
      /\ BuffersAreOfOneRun(s) /\ AnswersAreOfOneRun(s)
      /\ message[s] # "closed" => interface[s] = (card \in GbaU)
  BY OfSession
<1>1. /\ cardKs \in [Impi -> RunOrNone] /\ owner \in [Runs -> Identity] /\ store \in Stores
      /\ NoImpi \notin Impi /\ InterfaceIsTheCards /\ FileIsWhole /\ FileIsOfOneRun
  BY NothingAssumption DEF TypeOK, CredentialsInv
<1>2. /\ fetch[s].called /\ fetch[s].run = NoRun /\ owner[k] = NoImpi
      /\ owner' = [owner EXCEPT ![k] = card] /\ cardKs' = CardKsAfter(s, k)
      /\ message' = message /\ answer' = answer /\ force' = force /\ output' = output
      /\ interface' = interface /\ store' = store /\ card' = card
  BY DEF OrderlyChallenge, Challenge
<1>3. /\ message[s] = "waiting" /\ interface[s] = (card \in GbaU)
      /\ machine[s] = [state |-> "EBusy", active |-> TRUE, status |-> "pending"]
      /\ memory[s].gbau = (card \in GbaU) /\ store.impi = card
      /\ memory[s].identity = card /\ memory[s].btid = NoRun /\ memory[s].lifetime = NoRun
      /\ memory[s].ks = NoRun /\ fetch[s].for = card
  BY <1>0, <1>2 DEF Owned, FetchIsTheCards, KsIsFree
<1>4. /\ fetch' = [fetch EXCEPT ![s].run = k] /\ machine' = machine
      /\ memory' = IF card \in GbaU THEN memory ELSE [memory EXCEPT ![s].ks = k]
      /\ cardKs' = IF card \in GbaU THEN [cardKs EXCEPT ![card] = k] ELSE cardKs
  <2>1. CASE card \in GbaU
    BY <1>2, <1>3, <2>1 DEF Challenge, CardKsAfter
  <2>2. CASE card \notin GbaU
    BY <1>2, <1>3, <2>2 DEF Challenge, CardKsAfter
  <2> QED
    BY <2>1, <2>2
<1>5. OthersAsTheyWere(s)
  BY <1>0, <1>2, <1>4 DEF OthersAsTheyWere
<1>6. OwnerGrows /\ owner'[k] = card
  BY <1>1, <1>2 DEF OwnerGrows
<1>7. /\ fetch'[s].called /\ fetch'[s].run = k /\ fetch'[s].for = card
      /\ memory'[s].identity = card /\ memory'[s].gbau = (card \in GbaU)
      /\ memory'[s].btid = NoRun /\ memory'[s].lifetime = NoRun
      /\ card \notin GbaU => memory'[s].ks = k
      /\ card \in GbaU => cardKs'[card] = k
  BY <1>0, <1>1, <1>2, <1>3, <1>4 DEF Fetches, Memories
<1>8. ASSUME NEW t \in Sessions \ {s} PROVE fetch[t].run # k
  BY <1>0, <1>2 DEF CredentialsInv, SessionInv, RunIsFresh
<1>9. store.btid # k
  BY <1>0, <1>1, <1>2 DEF FileIsOfOneRun
<1>10. SessionInv(s)'
  <2>1. FetchIsTheCards(s)'
    BY <1>2, <1>3, <1>7 DEF FetchIsTheCards
  <2>2. RunIsFresh(s)'
    BY <1>2, <1>5, <1>6, <1>7, <1>8, <1>9 DEF RunIsFresh, OthersAsTheyWere
  <2>3. BuffersAreOfOneRun(s)'
    BY <1>3, <1>4, <1>7 DEF BuffersAreOfOneRun, Whole
  <2>4. AnswersAreOfOneRun(s)'
    BY <1>0, <1>1, <1>2, <1>3, <1>4, <1>6 DEF AnswersAreOfOneRun, OfOneRun, OwnerGrows
  <2> QED
    BY <2>1, <2>2, <2>3, <2>4 DEF SessionInv
<1>11. ASSUME NEW t \in Sessions \ {s} PROVE SessionInv(t)'
  <2>1. card \in GbaU => fetch[t].run = NoRun
    <3>1. fetch[t].run # NoRun => message[t] = "waiting"
      BY DEF CredentialsInv, SessionInv, RunIsFresh, OwnedInv, Owned
    <3> QED
      BY <1>1, <3>1 DEF Quiet, AwaitsBTID, InterfaceIsTheCards
  <2>2. cardKs' = cardKs \/ (card \in GbaU => fetch[t].run = NoRun)
    BY <2>1
  <2>3. fetch'[s].run # fetch[t].run
    BY <1>7, <1>8
  <2> QED
    BY <1>2, <1>5, <1>6, <2>2, <2>3, OthersAreOfOneRun
<1>12. InterfaceIsTheCards' /\ FileIsWhole'
  BY <1>1, <1>2 DEF InterfaceIsTheCards, FileIsWhole
<1>13. FileIsOfOneRun'
  <2>1. CASE card \in GbaU
    <3>1. AwaitsBTID(s)'
      BY <1>0, <1>2, <1>3, <1>7, <2>1 DEF AwaitsBTID
    <3> QED
      BY <1>1, <1>2, <1>6, <3>1, <2>1 DEF FileIsOfOneRun, OwnerGrows, Stores, RunOrNone
  <2>2. CASE card \notin GbaU
    BY <1>1, <1>2, <1>3, <1>6, <2>2 DEF FileIsOfOneRun, OwnerGrows, Stores, RunOrNone
  <2> QED
    BY <2>1, <2>2
<1> QED
  BY <1>10, <1>11, <1>12, <1>13 DEF CredentialsInv

\* The retriever has come to its end, and what it has received is saved, if it
\* must be: on a card with GBA_U the old key is gone.
LEMMA SucceededIsOfOneRun ==
    ASSUME TypeOK, OwnedInv, OrderlyInv, CredentialsInv, NEW s \in Sessions, Succeeded(s),
           AwaitsBTID(s) => store' = Stored(Received(s, fetch[s].run)),
           \A t \in Sessions : AwaitsBTID(t) => t = s
    PROVE  CredentialsInv'
<1> DEFINE k == fetch[s].run
           m == Received(s, k)
<1>0. /\ machine \in [Sessions -> Machines] /\ machine[s] \in Machines
      /\ fetch \in [Sessions -> Fetches] /\ fetch[s] \in Fetches
      /\ memory \in [Sessions -> Memories] /\ memory[s] \in Memories
      /\ output \in [Sessions -> Outputs]
      /\ card \in Impi /\ card # NoImpi /\ NoRun \notin Runs /\ Served(s) /\ Owned(s)
      /\ FetchIsTheCards(s) /\ RunIsFresh(s)
      /\ BuffersAreOfOneRun(s) /\ AnswersAreOfOneRun(s)
      /\ message[s] # "closed" => interface[s] = (card \in GbaU)
  BY OfSession
<1>1. /\ store \in Stores /\ InterfaceIsTheCards /\ FileIsWhole /\ FileIsOfOneRun
      /\ interface[s] \in BOOLEAN
  BY DEF TypeOK, CredentialsInv
<1>2. /\ fetch[s].called /\ k # NoRun
      /\ message' = message /\ answer' = answer /\ force' = force
      /\ interface' = interface /\ UNCHANGED <<card, cardKs, owner>>
  BY DEF Succeeded, cardVars
<1>3. /\ k \in Runs /\ message[s] = "waiting" /\ interface[s] = (card \in GbaU)
      /\ machine[s] = [state |-> "EBusy", active |-> TRUE, status |-> "pending"]
      /\ memory[s].gbau = (card \in GbaU) /\ store.impi = card /\ memory[s].identity = card
      /\ memory[s].btid = NoRun /\ memory[s].lifetime = NoRun
      /\ owner[k] = card /\ k # store.btid
      /\ IF card \in GbaU THEN cardKs[card] = k ELSE memory[s].ks = k
  BY <1>0, <1>2 DEF Owned, FetchIsTheCards, RunIsFresh, Fetches, RunOrNone
<1>4. /\ m \in Memories /\ m.identity = card /\ m.gbau = (card \in GbaU)
      /\ m.btid = k /\ m.lifetime = k /\ m.ks = memory[s].ks
  BY <1>0, <1>3 DEF Received, Memories, RunOrNone
<1>5. /\ Stored(m) = [store EXCEPT !.impi = m.identity, !.btid = m.btid,
                                   !.lifetime = m.lifetime,
                                   !.ks = IF m.gbau THEN NoRun ELSE m.ks]
      /\ \E c \in {"KErrNone", "failed"} : Reports(s, c)
  BY DEF Succeeded, Stored
<1>6. /\ Stored(m).impi = card /\ Stored(m).btid = k /\ Stored(m).lifetime = k
      /\ Stored(m).gbau = store.gbau /\ (card \notin GbaU => Stored(m).ks = k)
  <2> HIDE DEF m, k
  <2> QED
    BY <1>1, <1>3, <1>4, <1>5 DEF Stores
<1>7. \/ store' = store /\ card \notin GbaU
      \/ store' = Stored(m)
  BY <1>2, <1>3 DEF Succeeded, AwaitsBTID
<1>8. /\ \A t \in Sessions \ {s} : machine'[t] = machine[t] /\ fetch'[t] = fetch[t]
                                   /\ memory'[t] = memory[t] /\ output'[t] = output[t]
      /\ fetch'[s] = NoFetch /\ machine'[s].state = "EBusy" /\ machine'[s].active
  <2>1. fetch' = [fetch EXCEPT ![s] = NoFetch]
    BY <1>5 DEF Reports
  <2>2. \E c \in {"KErrNone", "failed"} : machine' = [machine EXCEPT ![s].status = c]
    BY <1>5 DEF Reports
  <2>3. /\ \A t \in Sessions \ {s} : machine'[t] = machine[t]
        /\ machine'[s].state = "EBusy" /\ machine'[s].active
    BY <1>0, <1>3, <2>2 DEF Machines
  <2>4. \/ memory' = memory
        \/ memory' = [memory EXCEPT ![s].btid = m.btid]
        \/ memory' = [memory EXCEPT ![s] = m]
    BY DEF Succeeded
  <2>5. \A t \in Sessions \ {s} : memory'[t] = memory[t]
    BY <1>0, <2>4
  <2>6. \A t \in Sessions \ {s} : output'[t] = output[t]
    BY <1>0 DEF Succeeded
  <2> QED
    BY <1>0, <2>1, <2>3, <2>5, <2>6
<1>9. memory'[s].lifetime = NoRun \/ memory'[s] = m
  <2>1. \/ memory' = memory
        \/ memory' = [memory EXCEPT ![s].btid = m.btid]
        \/ memory' = [memory EXCEPT ![s] = m]
    BY DEF Succeeded
  <2> HIDE DEF m, k
  <2> QED
    BY <1>0, <1>3, <2>1 DEF Memories
<1>10. machine'[s].status = "KErrNone" => OfOneRun(output'[s])
  <2>1. \/ Reports(s, "failed")
        \/ output' = [output EXCEPT ![s] = Credentials(interface[s], m)]
    BY DEF Succeeded
  <2>2. CASE Reports(s, "failed")
    BY <1>0, <2>2 DEF Reports, Machines
  <2>3. CASE output' = [output EXCEPT ![s] = Credentials(interface[s], m)]
    <3> HIDE DEF m, k
    <3>1. OfOneRun(Credentials(interface[s], m))
      BY <1>1, <1>3, <1>4, CredentialsOfOneRun
    <3> QED
      BY <1>0, <2>3, <3>1
  <2> QED
    BY <2>1, <2>2, <2>3
<1> HIDE DEF m
<1>11. OthersAsTheyWere(s)
  BY <1>2, <1>8 DEF OthersAsTheyWere
<1>12. SessionInv(s)'
  <2>1. FetchIsTheCards(s)' /\ RunIsFresh(s)'
    BY <1>8 DEF FetchIsTheCards, RunIsFresh, NoFetch
  <2>2. BuffersAreOfOneRun(s)'
    <3>1. Whole(memory[s], store)'
      BY <1>2, <1>3, <1>4, <1>6, <1>7, <1>9 DEF Whole
    <3> QED
      BY <1>2, <1>3, <1>8, <3>1 DEF BuffersAreOfOneRun
  <2>3. AnswersAreOfOneRun(s)'
    BY <1>0, <1>2, <1>10 DEF AnswersAreOfOneRun, OfOneRun
  <2> QED
    BY <2>1, <2>2, <2>3 DEF SessionInv
<1>13. ASSUME NEW t \in Sessions \ {s} PROVE SessionInv(t)'
  <2>1. OwnerGrows
    BY <1>2 DEF OwnerGrows
  <2>2. fetch'[s].run = NoRun
    BY <1>8 DEF NoFetch
  <2>3. \/ store' = store
        \/ fetch[s].run # NoRun /\ store'.btid = fetch[s].run /\ store'.impi = card
    BY <1>2, <1>6, <1>7
  <2> QED
    BY <1>2, <1>11, <2>1, <2>2, <2>3, OthersAreOfOneRun
<1>14. InterfaceIsTheCards'
  BY <1>1, <1>2 DEF InterfaceIsTheCards
<1>15. FileIsWhole' /\ FileIsOfOneRun'
  <2>1. CASE store' = store /\ card \notin GbaU
    BY <1>1, <1>2, <1>3, <2>1 DEF FileIsWhole, FileIsOfOneRun
  <2>2. CASE store' = Stored(m)
    BY <1>0, <1>1, <1>2, <1>3, <1>6, <2>2 DEF FileIsWhole, FileIsOfOneRun
  <2> QED
    BY <1>7, <2>1, <2>2
<1> QED
  BY <1>12, <1>13, <1>14, <1>15 DEF CredentialsInv

\* A request that fails, when no card waits for its B-TID.
LEMMA HttpFailsIsOfOneRun ==
    ASSUME TypeOK, OwnedInv, OrderlyInv, CredentialsInv, Quiet, NEW s \in Sessions,
           HttpFails(s)
    PROVE  CredentialsInv'
<1>0. /\ machine \in [Sessions -> Machines] /\ machine[s] \in Machines
      /\ fetch \in [Sessions -> Fetches] /\ Owned(s) /\ FetchIsTheCards(s)
      /\ BuffersAreOfOneRun(s) /\ AnswersAreOfOneRun(s)
      /\ message[s] # "closed" => interface[s] = (card \in GbaU)
  BY OfSession
<1>1. /\ fetch[s].called /\ fetch' = [fetch EXCEPT ![s] = NoFetch]
      /\ machine' = [machine EXCEPT ![s].status = "failed"]
      /\ message' = message /\ answer' = answer /\ force' = force /\ memory' = memory
      /\ output' = output /\ interface' = interface /\ store' = store
      /\ UNCHANGED <<card, cardKs, owner>>
  BY DEF HttpFails, Reports, cardVars
<1>2. /\ OthersAsTheyWere(s) /\ FileChecked /\ machine'[s].status = "failed"
      /\ machine'[s].state = "EBusy" /\ fetch'[s] = NoFetch
  BY <1>0, <1>1 DEF OthersAsTheyWere, FileChecked, Machines, Owned
<1>3. FetchIsTheCards(s)' /\ RunIsFresh(s)'
  BY <1>2 DEF FetchIsTheCards, RunIsFresh, NoFetch
<1>4. BuffersAreOfOneRun(s)' /\ AnswersAreOfOneRun(s)'
  BY <1>0, <1>1, <1>2 DEF BuffersAreOfOneRun, Whole, AnswersAreOfOneRun, FetchIsTheCards,
     OfOneRun
<1> QED
  BY <1>0, <1>1, <1>2, <1>3, <1>4, CheckedIsOfOneRun DEF SessionInv, NoFetch
\* What the step of a session writes into the file is nothing new, unless it
\* saves what its retriever has received.
LEMMA SavedIsReceived ==
    ASSUME TypeOK, CredentialsInv, NEW s \in Sessions, OrderlySession(s)
    PROVE  \/ store'.btid \in {store.btid, NoRun}
           \/ Succeeded(s) /\ store' = Stored(Received(s, fetch[s].run))
<1>a. NoStore.btid = NoRun
  BY DEF NoStore
<1>b. StoreAfter(s, card).btid \in {store.btid, NoRun}
  <2>1. CASE store.impi = card
    BY <2>1 DEF StoreAfter
  <2>2. CASE store.impi # card
    <3>1. StoreAfter(s, card) =
            [NoStore EXCEPT !.impi = card, !.gbau = InterfaceAfter(s, card)]
      BY <2>2 DEF StoreAfter
    <3>2. [NoStore EXCEPT !.impi = card, !.gbau = InterfaceAfter(s, card)].btid = NoRun
      BY DEF NoStore
    <3> QED
      BY <3>1, <3>2
  <2> QED
    BY <2>1, <2>2
<1> SUFFICES \/ store' \in {store, NoStore, StoreAfter(s, card)}
             \/ Succeeded(s) /\ store' = Stored(Received(s, fetch[s].run))
  BY <1>a, <1>b
<1>1. CASE \/ OpenSession(s) \/ BadRequest(s) \/ CloseSession(s) \/ CancelRequest(s)
           \/ \E f \in BOOLEAN : RequestBootstrap(s, f)
           \/ RunDone(s) \/ RunFailed(s) \/ RunCancelled(s) \/ RunIgnored(s)
           \/ (\E k \in Runs : Challenge(s, k)) \/ HttpFails(s)
  BY <1>1 DEF OpenSession, BadRequest, CloseSession, CancelRequest, RequestBootstrap,
     RunDone, RunFailed, RunCancelled, RunIgnored, Challenge, HttpFails
<1>2. CASE IsGBAUSupported(s)
  BY <1>2 DEF IsGBAUSupported, CheckLeaves, CheckDone
<1>3. CASE RunCached(s) \/ RunFetch(s) \/ RunLeaves(s)
  BY <1>3 DEF RunCached, RunFetch, RunLeaves, CheckLeaves, CheckDone
<1>4. CASE Succeeded(s)
  BY <1>4 DEF Succeeded
<1> QED
  BY <1>1, <1>2, <1>3, <1>4 DEF OrderlySession

\* When a card waits for its B-TID, only the session that has made the request
\* can go on, and it saves what it has received.
LEMMA OnlyTheAwaited ==
    ASSUME TypeOK, OwnedInv, OrderlyInv, CredentialsInv, OrderlyNext, ~Quiet
    PROVE  CredentialsInv'
<1>0. NoRun \notin Runs /\ fetch \in [Sessions -> Fetches]
  BY NothingAssumption DEF TypeOK
<1>1. PICK t \in Sessions : AwaitsBTID(t) /\ store'.btid = fetch[t].run
  BY DEF OrderlyNext, Undisturbed, Quiet
<1>2. /\ store'.btid # store.btid /\ store'.btid # NoRun
      /\ \A u \in Sessions : fetch[u].run = fetch[t].run => u = t
  BY <1>1 DEF AwaitsBTID, CredentialsInv, SessionInv, RunIsFresh
<1>3. PICK s \in Sessions : OrderlySession(s)
  BY <1>2 DEF OrderlyNext, OrderlyStep, ChangeCard, Expire, Stop
<1>4. Succeeded(s) /\ store' = Stored(Received(s, fetch[s].run))
  BY <1>2, <1>3, SavedIsReceived
<1>5. store'.btid = fetch[s].run
  <2> DEFINE m == Received(s, fetch[s].run)
  <2>1. m.btid = fetch[s].run
    BY DEF Received, TypeOK, Memories
  <2>2. Stored(m).btid = m.btid
    <3> HIDE DEF m
    <3> QED
      BY DEF Stored, TypeOK, Stores
  <2> QED
    BY <1>4, <2>1, <2>2
<1>6. s = t
  BY <1>1, <1>2, <1>5
<1>7. ASSUME NEW u \in Sessions, AwaitsBTID(u) PROVE u = s
  <2>1. message[u] = "waiting" /\ message[s] = "waiting" /\ interface[s]
    BY <1>1, <1>6, <1>7 DEF AwaitsBTID, CredentialsInv, SessionInv, RunIsFresh, OwnedInv, Owned
  <2>2. card \in GbaU
    BY <2>1 DEF CredentialsInv, InterfaceIsTheCards
  <2>3. cardKs[card] = fetch[u].run /\ cardKs[card] = fetch[s].run
    BY <1>1, <1>6, <1>7, <2>2 DEF AwaitsBTID, CredentialsInv, SessionInv, RunIsFresh
  <2> QED
    BY <1>2, <1>6, <2>3
<1> QED
  BY <1>4, <1>7, SucceededIsOfOneRun

\* The phone: another card when no session is open, the time, the end.
LEMMA PhoneIsOfOneRun ==
    ASSUME TypeOK, OwnedInv, OrderlyInv, CredentialsInv,
           \/ \E i \in Impi : OrderlyChange /\ ChangeCard(i)
           \/ \E k \in Runs : Expire(k)
           \/ Stop
           \/ UNCHANGED vars
    PROVE  CredentialsInv'
<1>1. UNCHANGED <<sessionVars, store, cardKs, owner>>
  BY DEF ChangeCard, Expire, Stop, vars, cardVars
<1>2. card' = card \/ \A s \in Sessions : message[s] = "closed"
  BY DEF OrderlyChange, Expire, Stop, vars, cardVars
<1>3. FileIsWhole' /\ FileIsOfOneRun'
  BY <1>1 DEF CredentialsInv, FileIsWhole, FileIsOfOneRun, AwaitsBTID, sessionVars
<1>4. InterfaceIsTheCards'
  BY <1>1, <1>2 DEF CredentialsInv, InterfaceIsTheCards, sessionVars
<1>5. ASSUME NEW s \in Sessions PROVE SessionInv(s)'
  <2>1. SessionInv(s) /\ Owned(s)
    BY DEF CredentialsInv, OwnedInv
  <2>2. CASE card' = card
    BY <1>1, <2>1, <2>2 DEF SessionInv, FetchIsTheCards, RunIsFresh, BuffersAreOfOneRun,
       Whole, AnswersAreOfOneRun, OfOneRun, sessionVars
  <2>3. CASE message[s] = "closed"
    <3>1. ~fetch[s].called /\ fetch[s].run = NoRun /\ memory[s].lifetime = NoRun
      BY <2>1, <2>3 DEF SessionInv, Owned, RunIsFresh, BuffersAreOfOneRun
    <3>2. FetchIsTheCards(s)' /\ RunIsFresh(s)'
      BY <1>1, <3>1 DEF FetchIsTheCards, RunIsFresh, sessionVars
    <3>3. BuffersAreOfOneRun(s)' /\ AnswersAreOfOneRun(s)'
      BY <1>1, <2>1, <3>1 DEF SessionInv, BuffersAreOfOneRun, Whole, AnswersAreOfOneRun,
         OfOneRun, sessionVars
    <3> QED
      BY <3>2, <3>3 DEF SessionInv
  <2> QED
    BY <1>2, <2>2, <2>3
<1> QED
  BY <1>3, <1>4, <1>5 DEF CredentialsInv

\* Every orderly step keeps credentials together.
LEMMA NextCredentials ==
    TypeOK /\ OwnedInv /\ OrderlyInv /\ CredentialsInv /\ [OrderlyNext]_vars
      => CredentialsInv'
<1> SUFFICES ASSUME TypeOK, OwnedInv, OrderlyInv, CredentialsInv, [OrderlyNext]_vars
             PROVE  CredentialsInv'
  OBVIOUS
<1>1. CASE UNCHANGED vars
  BY <1>1, PhoneIsOfOneRun
<1>2. CASE OrderlyNext /\ ~Quiet
  BY <1>2, OnlyTheAwaited
<1>3. CASE OrderlyNext /\ Quiet
  <2>1. ASSUME NEW s \in Sessions, OrderlySession(s) PROVE CredentialsInv'
    <3>1. CASE Succeeded(s)
      BY <1>3, <3>1, SucceededIsOfOneRun DEF Quiet
    <3>2. ASSUME NEW k \in Runs, OrderlyChallenge(s), Challenge(s, k) PROVE CredentialsInv'
      BY <1>3, <3>2, ChallengeIsOfOneRun
    <3>3. CASE HttpFails(s)
      BY <1>3, <3>3, HttpFailsIsOfOneRun
    <3> QED
      BY <1>3, <2>1, <3>1, <3>2, <3>3, ClientIsOfOneRun, RunLIsOfOneRun DEF OrderlySession
  <2>2. CASE \/ \E i \in Impi : OrderlyChange /\ ChangeCard(i)
             \/ \E k \in Runs : Expire(k)
             \/ Stop
    BY <2>2, PhoneIsOfOneRun
  <2> QED
    BY <1>3, <2>1, <2>2 DEF OrderlyNext, OrderlyStep
<1> QED
  BY <1>1, <1>2, <1>3

\* The invariants of the server and of its credentials.
LEMMA CredentialsInvariant ==
    OrderlySpec => [](TypeOK /\ OwnedInv /\ OrderlyInv /\ CredentialsInv)
<1>1. OrderlySpec => []CredentialsInv
  BY InitCredentials, NextCredentials, OrderlyInvariant, PTL DEF OrderlySpec
<1> QED
  BY <1>1, OrderlyInvariant, PTL

\* With orderly clients whoever is given credentials is given B-TID and Ks_NAF of
\* one authentication, for the identity that was authenticated.
THEOREM CredentialsAreGood == OrderlySpec => []GoodCredentials
<1>1. CredentialsInv => GoodCredentials
  BY DEF CredentialsInv, SessionInv, AnswersAreOfOneRun, OfOneRun, GoodCredentials
<1> QED
  BY <1>1, CredentialsInvariant, PTL

\* With orderly clients the file holds the credentials of one run, or none.
THEOREM FileIsNeverMixed == OrderlySpec => []StoreOfOneRun
<1>1. TypeOK /\ CredentialsInv => StoreOfOneRun
  BY DEF CredentialsInv, FileIsWhole, FileIsOfOneRun, StoreOfOneRun
<1> QED
  BY <1>1, CredentialsInvariant, PTL

\* With orderly clients credentials from the file are those of the card in the phone.
THEOREM CachedAreOfTheCard == OrderlySpec => CachedAreTheCards
<1> DEFINE Step == \A s \in Sessions :
              /\ machine[s].state = "EInitialize" /\ machine'[s].state = "EBusy"
              /\ output'[s] # output[s]
              => \E k \in Runs : output'[s].btid = k /\ owner[k] = card
<1>1. ASSUME TypeOK, OwnedInv, OrderlyInv, CredentialsInv, [OrderlyNext]_vars
      PROVE  [Step]_vars
  <2> SUFFICES ASSUME NEW s \in Sessions, machine[s].state = "EInitialize",
                      machine'[s].state = "EBusy", output'[s] # output[s]
               PROVE  \E k \in Runs : output'[s].btid = k /\ owner[k] = card
    OBVIOUS
  <2>0. /\ machine \in [Sessions -> Machines] /\ output \in [Sessions -> Outputs]
        /\ fetch[s].called => machine[s].state = "EBusy"
    BY <1>1, OfSession DEF Owned
  <2>1. output' # output /\ ~fetch[s].called
    BY <2>0
  <2>2. PICK t \in Sessions : OrderlySession(t)
    BY <1>1, <2>1 DEF OrderlyNext, OrderlyStep, ChangeCard, Expire, Stop, vars, sessionVars
  <2>3. CloseSession(t) \/ RunCached(t) \/ Succeeded(t)
    BY <2>1, <2>2 DEF OrderlySession, OpenSession, BadRequest, CancelRequest, IsGBAUSupported,
       RequestBootstrap, RunFetch, RunLeaves, RunDone, RunFailed, RunCancelled,
       RunIgnored, Challenge, HttpFails
  <2>4. CASE CloseSession(t)
    <3>1. \/ output' = output
          \/ /\ output' = [output EXCEPT ![t] = NoOutput]
             /\ machine' = [machine EXCEPT ![t] = Idle]
      BY <2>4 DEF CloseSession, sessionVars
    <3> QED
      BY <2>0, <2>1, <3>1 DEF Idle
  <2>5. CASE Succeeded(t)
    <3>1. /\ fetch[t].called
          /\ output' = output \/ \E o : output' = [output EXCEPT ![t] = o]
      BY <2>5 DEF Succeeded
    <3> QED
      BY <2>0, <2>1, <3>1
  <2>6. CASE RunCached(t)
    <3>1. /\ Cached(t) /\ Starts(t)
          /\ output' = [output EXCEPT ![t] =
                Credentials(InterfaceAfter(t, card), Loaded(t))]
      BY <2>6 DEF RunCached
    <3>2. t = s
      BY <2>0, <3>1
    <3>3. message[s] # "closed"
      BY <1>1, <3>1, <3>2, OfSession DEF Served, Starts
    <3>4. Quiet
      <4> SUFFICES ASSUME NEW u \in Sessions, AwaitsBTID(u) PROVE FALSE
        BY DEF Quiet
      <4>1. OrderlyNext
        BY <1>1, <2>1 DEF vars, sessionVars
      <4>2. PICK v \in Sessions : AwaitsBTID(v) /\ store'.btid = fetch[v].run
        BY <4>1 DEF OrderlyNext, Undisturbed
      <4>3. store'.btid # store.btid /\ store'.btid # NoRun
        BY <1>1, <4>2 DEF AwaitsBTID, CredentialsInv, SessionInv, RunIsFresh
      <4>4. Succeeded(t)
        BY <1>1, <2>2, <4>3, SavedIsReceived
      <4> QED
        BY <2>0, <3>1, <3>2, <4>4 DEF Succeeded
    <3> QED
      BY <1>1, <2>0, <3>1, <3>2, <3>3, <3>4, CachedIsOfOneRun
  <2> QED
    BY <2>3, <2>4, <2>5, <2>6
<1> QED
  BY <1>1, CredentialsInvariant, PTL DEF OrderlySpec, CachedAreTheCards
-----------------------------------------------------------------------------
\* The phase of a session follows its state machine and what its client waits for.
Phases == [s \in Sessions |-> Phase(s)]

\* What a step of one session does to the phases.
LEMMA PhaseOfSession ==
    ASSUME NEW s \in Sessions,
           \A t \in Sessions \ {s} : /\ message'[t] = message[t]
                                     /\ machine'[t].state = machine[t].state
    PROVE  Phases' = [Phases EXCEPT ![s] = Phase(s)']
BY DEF Phases, Phase

\* Sessions whose messages and states stay the same stay in their phases.
LEMMA PhasesStay ==
    ASSUME \A t \in Sessions : /\ message'[t] = message[t]
                               /\ \/ machine'[t].state = machine[t].state
                                  \/ message[t] = "waiting"
    PROVE  Phases' = Phases
BY DEF Phases, Phase

\* The messages of an orderly client are those that the service takes.
LEMMA ClientIsServed ==
    ASSUME TypeOK, OwnedInv, OrderlyInv, CredentialsInv, NEW s \in Sessions,
           \/ OpenSession(s) \/ BadRequest(s) \/ CloseSession(s)
           \/ OrderlyCancel(s) /\ CancelRequest(s)
           \/ OrderlyQuery(s) /\ IsGBAUSupported(s)
           \/ \E f \in BOOLEAN : OrderlyRequest(s, f) /\ RequestBootstrap(s, f)
    PROVE  [Service!Next]_(Service!vars)
<1>0. /\ message \in [Sessions -> {"closed", "none", "waiting"}]
      /\ answer \in [Sessions -> Answers] /\ machine \in [Sessions -> Machines]
      /\ fetch \in [Sessions -> Fetches]
      /\ Served(s) /\ Owned(s) /\ AliveForever
  BY OfSession DEF OrderlyInv
<1>a. (Service!Session(s) /\ owner' = owner) => Service!Next
  BY DEF Service!Next
<1>1. CASE OpenSession(s)
  <2>1. /\ message[s] = "closed" /\ message' = [message EXCEPT ![s] = "none"]
        /\ answer' = [answer EXCEPT ![s] = Plain("none")]
        /\ machine' = machine /\ owner' = owner
    BY <1>1 DEF OpenSession, cardVars
  <2>2. Phase(s) = "closed" /\ Phase(s)' = "idle"
    BY <1>0, <2>1 DEF Phase, Served
  <2>3. Phases' = [Phases EXCEPT ![s] = "idle"]
    BY <1>0, <2>1, <2>2, PhaseOfSession
  <2>4. Service!Open(s)
    BY <2>1, <2>2, <2>3 DEF Service!Open, Service!Moves, Service!Answers,
       Service!NoCredentials, Plain, Phases
  <2> QED
    BY <1>a, <2>1, <2>4 DEF Service!Session
<1>2. CASE CloseSession(s)
  <2>1. ~(machine[s].active /\ machine[s].status = "pending" /\ ~fetch[s].called)
    BY <1>0 DEF Served
  <2>2. /\ message[s] # "closed" /\ message' = [message EXCEPT ![s] = "closed"]
        /\ answer' = [answer EXCEPT ![s] = Plain("none")]
        /\ machine' = [machine EXCEPT ![s] = Idle] /\ owner' = owner
    BY <1>2, <2>1 DEF CloseSession, Open, cardVars
  <2>3. Phase(s) \in {"idle", "busy", "cancelled"} /\ Phase(s)' = "closed"
    BY <1>0, <2>2 DEF Phase
  <2>4. Phases' = [Phases EXCEPT ![s] = "closed"]
    BY <1>0, <2>2, <2>3, PhaseOfSession
  <2>5. Service!Close(s)
    BY <2>2, <2>3, <2>4 DEF Service!Close, Service!Moves, Service!Answers,
       Service!NoCredentials, Plain, Phases
  <2> QED
    BY <1>a, <2>2, <2>5 DEF Service!Session
<1>3. CASE OrderlyCancel(s) /\ CancelRequest(s)
  <2>1. /\ message[s] = "waiting" /\ message' = [message EXCEPT ![s] = "none"]
        /\ answer' = [answer EXCEPT ![s] = Plain("KErrCancel")] /\ owner' = owner
    BY <1>3 DEF CancelRequest, OrderlyCancel, Completes, cardVars
  <2>2. /\ machine'[s].state = "ECancel"
        /\ \A t \in Sessions \ {s} : machine'[t] = machine[t]
    <3>1. machine' = [machine EXCEPT ![s].state = "ECancel",
                          ![s].status = IF fetch[s].called THEN "KErrCancel" ELSE @]
      BY <1>3 DEF CancelRequest
    <3> QED
      BY <1>0, <3>1 DEF Machines
  <2>3. Phase(s) = "busy" /\ Phase(s)' = "cancelled"
    BY <1>0, <2>1, <2>2 DEF Phase
  <2>4. Phases' = [Phases EXCEPT ![s] = "cancelled"]
    BY <1>0, <2>1, <2>2, <2>3, PhaseOfSession
  <2>5. Service!Cancel(s)
    BY <2>1, <2>3, <2>4 DEF Service!Cancel, Service!Moves, Service!Answers,
       Service!NoCredentials, Plain, Phases
  <2> QED
    BY <1>a, <2>1, <2>5 DEF Service!Session
<1>4. CASE IsGBAUSupported(s)
  <2>1. message' = message /\ machine' = machine /\ answer' = answer /\ owner' = owner
    BY <1>4 DEF IsGBAUSupported, cardVars
  <2>2. Phases' = Phases
    BY <2>1, PhasesStay
  <2> QED
    BY <2>1, <2>2 DEF Service!vars, Phases
<1>5. ASSUME NEW f \in BOOLEAN, RequestBootstrap(s, f) PROVE Service!Next
  <2>1. owner' = owner /\ message[s] # "closed"
    BY <1>5 DEF RequestBootstrap, Open, cardVars
  <2>2. CASE machine[s].state = "EIdle" /\ ~machine[s].active
    <3>1. /\ message' = [message EXCEPT ![s] = "waiting"] /\ answer' = answer
          /\ machine' = [machine EXCEPT ![s] =
                [state |-> "EInitialize", active |-> TRUE, status |-> "KErrNone"]]
      BY <1>5, <2>2 DEF RequestBootstrap
    <3>2. Phase(s) = "idle" /\ Phase(s)' = "busy"
      BY <1>0, <2>1, <2>2, <3>1 DEF Phase, Served
    <3>3. Phases' = [Phases EXCEPT ![s] = "busy"]
      BY <1>0, <3>1, <3>2, PhaseOfSession
    <3>4. Service!Request(s)
      BY <3>1, <3>2, <3>3 DEF Service!Request, Service!Moves, Phases
    <3> QED
      BY <1>a, <2>1, <3>4 DEF Service!Session
  <2>3. CASE ~(machine[s].state = "EIdle" /\ ~machine[s].active)
    <3>1. /\ message' = message /\ machine' = machine
          /\ answer' = [answer EXCEPT ![s] = Plain("KErrInUse")]
      BY <1>5, <2>3 DEF RequestBootstrap
    <3>2. Phase(s) \in {"busy", "cancelled"}
      BY <1>0, <2>1, <2>3 DEF Phase, Served
    <3>3. Phases' = Phases
      BY <3>1, PhasesStay
    <3>4. Service!InUse(s)
      BY <3>1, <3>2, <3>3 DEF Service!InUse, Service!Answers, Service!NoCredentials,
         Plain, Phases
    <3> QED
      BY <1>a, <2>1, <3>4 DEF Service!Session
  <2> QED
    BY <2>2, <2>3
<1>6. CASE BadRequest(s)
  <2>1. /\ message' = message /\ machine' = machine /\ owner' = owner
        /\ answer' = [answer EXCEPT ![s] = Plain("failed")]
        /\ machine[s].state = "EIdle" /\ message[s] # "closed"
    BY <1>6 DEF BadRequest, Open, cardVars
  <2>2. Phase(s) = "idle"
    BY <1>0, <2>1 DEF Phase, Served
  <2>3. Phases' = Phases
    BY <2>1, PhasesStay
  <2>4. Service!Reject(s)
    BY <2>1, <2>2, <2>3 DEF Service!Reject, Service!Answers, Service!NoCredentials,
       Plain, Phases
  <2> QED
    BY <1>a, <2>1, <2>4 DEF Service!Session
<1> QED
  BY <1>1, <1>2, <1>3, <1>4, <1>5, <1>6
\* What a state machine does is what the service promises: it answers who waits.
LEMMA RunLIsServed ==
    ASSUME TypeOK, OwnedInv, OrderlyInv, CredentialsInv, NEW s \in Sessions,
           \/ RunCached(s) \/ RunFetch(s) \/ RunLeaves(s)
           \/ RunDone(s) \/ RunFailed(s) \/ RunCancelled(s) \/ RunIgnored(s)
    PROVE  [Service!Next]_(Service!vars)
<1>0. /\ message \in [Sessions -> {"closed", "none", "waiting"}]
      /\ answer \in [Sessions -> Answers] /\ machine \in [Sessions -> Machines]
      /\ machine[s] \in Machines /\ Served(s) /\ Owned(s) /\ AnswersAreOfOneRun(s)
  BY OfSession
<1>a. (Service!Session(s) /\ owner' = owner) => Service!Next
  BY DEF Service!Next
<1>1. CASE RunCached(s) \/ RunFetch(s)
  <2>1. /\ Starts(s) /\ message' = message /\ answer' = answer /\ owner' = owner
        /\ \A t \in Sessions \ {s} : machine'[t] = machine[t]
    <3>1. CASE RunCached(s)
      BY <1>0, <3>1 DEF RunCached, cardVars
    <3>2. CASE RunFetch(s)
      BY <1>0, <3>2 DEF RunFetch, cardVars
    <3> QED
      BY <1>1, <3>1, <3>2
  <2>2. message[s] = "waiting"
    BY <1>0, <2>1 DEF Starts, Served
  <2>3. Phases' = Phases
    BY <2>1, <2>2, PhasesStay
  <2> QED
    BY <2>1, <2>3 DEF Service!vars, Phases
<1>2. CASE RunLeaves(s) \/ RunFailed(s)
  <2>1. /\ RunError(s, FALSE) /\ owner' = owner
        /\ machine[s].active /\ machine[s].state \in {"EInitialize", "EBusy"}
    <3>1. CASE RunLeaves(s)
      BY <3>1 DEF RunLeaves, Starts, cardVars
    <3>2. CASE RunFailed(s)
      BY <1>0, <3>2 DEF RunFailed, Signalled, Served, cardVars
    <3> QED
      BY <1>2, <3>1, <3>2
  <2>2. Completes(s, Plain("failed"))
    BY <2>1 DEF RunError
  <2>3. /\ message' = [message EXCEPT ![s] = "none"]
        /\ answer' = [answer EXCEPT ![s] = Plain("failed")]
    BY <2>1, <2>2, Completed
  <2>4. machine' = [machine EXCEPT ![s] =
           [state |-> "EIdle", active |-> FALSE, status |-> "KErrNone"]]
    BY <2>1 DEF RunError
  <2>5. Phase(s) = "busy" /\ Phase(s)' = "idle"
    BY <1>0, <2>1, <2>3, <2>4 DEF Phase, Served
  <2>6. Phases' = [Phases EXCEPT ![s] = "idle"]
    BY <1>0, <2>3, <2>4, <2>5, PhaseOfSession
  <2>7. Service!Refuse(s)
    BY <2>3, <2>5, <2>6 DEF Service!Refuse, Service!Moves, Service!Answers,
       Service!NoCredentials, Plain, Phases
  <2> QED
    BY <1>a, <2>1, <2>7 DEF Service!Session
<1>3. CASE RunDone(s)
  <2>1. /\ machine[s].active /\ machine[s].state = "EBusy"
        /\ machine[s].status = "KErrNone"
        /\ machine' = [machine EXCEPT ![s] = Idle] /\ owner' = owner
    BY <1>3 DEF RunDone, Signalled, cardVars
  <2>a. PICK a \in {Answer("KErrNone", output[s]), Plain("failed")} : Completes(s, a)
    BY <1>3 DEF RunDone
  <2>2. message' = [message EXCEPT ![s] = "none"] /\ answer' = [answer EXCEPT ![s] = a]
    BY <2>1, <2>a, Completed
  <2>3. Phase(s) = "busy" /\ Phase(s)' = "idle"
    BY <1>0, <2>1, <2>2 DEF Phase, Served, Idle
  <2>4. Phases' = [Phases EXCEPT ![s] = "idle"]
    BY <1>0, <2>1, <2>2, <2>3, PhaseOfSession
  <2>5. OfOneRun(output[s])
    BY <1>0, <2>1 DEF AnswersAreOfOneRun
  <2>6. PICK k \in Runs : k = output[s].btid
    BY <2>5 DEF OfOneRun
  <2>7. /\ owner[k] \in Impi
        /\ Answer("KErrNone", output[s]) =
             [code |-> "KErrNone", btid |-> k, key |-> k, identity |-> owner[k]]
    BY <2>5, <2>6 DEF OfOneRun, Answer
  <2>8. CASE a = Answer("KErrNone", output[s])
    <3>1. Service!Grant(s)
      BY <2>2, <2>3, <2>4, <2>7, <2>8 DEF Service!Grant, Service!Moves, Service!Answers, Phases
    <3> QED
      BY <1>a, <2>1, <3>1 DEF Service!Session
  <2>9. CASE a = Plain("failed")
    <3>1. Service!Refuse(s)
      BY <2>2, <2>3, <2>4, <2>9 DEF Service!Refuse, Service!Moves, Service!Answers,
         Service!NoCredentials, Plain, Phases
    <3> QED
      BY <1>a, <2>1, <3>1 DEF Service!Session
  <2> QED
    BY <2>8, <2>9
<1>4. CASE RunCancelled(s)
  <2>1. /\ machine[s].state = "ECancel" /\ message' = message /\ answer' = answer
        /\ machine' = [machine EXCEPT ![s] = Idle] /\ owner' = owner
    BY <1>4 DEF RunCancelled, cardVars
  <2>2. Phase(s) = "cancelled" /\ Phase(s)' = "idle"
    BY <1>0, <2>1 DEF Phase, Served, Idle
  <2>3. Phases' = [Phases EXCEPT ![s] = "idle"]
    BY <1>0, <2>1, <2>2, PhaseOfSession
  <2>4. Service!Ends(s)
    BY <2>1, <2>2, <2>3 DEF Service!Ends, Service!Moves, Phases
  <2> QED
    BY <1>a, <2>1, <2>4 DEF Service!Session
<1>5. CASE RunIgnored(s)
  <2>1. /\ message' = message /\ answer' = answer /\ owner' = owner
        /\ machine' = [machine EXCEPT ![s].active = FALSE]
    BY <1>5 DEF RunIgnored, cardVars
  <2>2. \A t \in Sessions : machine'[t].state = machine[t].state
    BY <1>0, <2>1 DEF Machines
  <2>3. Phases' = Phases
    BY <2>1, <2>2, PhasesStay
  <2> QED
    BY <2>1, <2>3 DEF Service!vars, Phases
<1> QED
  BY <1>1, <1>2, <1>3, <1>4, <1>5

\* HTTP, the phone and the clock do nothing the clients see, but for new challenges.
LEMMA OutsideIsServed ==
    ASSUME TypeOK, OwnedInv, OrderlyInv, CredentialsInv,
           \/ \E s \in Sessions : \/ \E k \in Runs : OrderlyChallenge(s) /\ Challenge(s, k)
                                  \/ Succeeded(s) \/ HttpFails(s)
           \/ \E i \in Impi : OrderlyChange /\ ChangeCard(i)
           \/ \E k \in Runs : Expire(k)
           \/ Stop
           \/ UNCHANGED vars
    PROVE  [Service!Next]_(Service!vars)
<1>0. machine \in [Sessions -> Machines] /\ owner \in [Runs -> Identity] /\ card \in Impi
  BY DEF TypeOK
<1>a. ASSUME NEW s \in Sessions, NEW v, Reports(s, v)
      PROVE  \A t \in Sessions : machine'[t].state = machine[t].state
  BY <1>0, <1>a DEF Reports, Machines
<1>1. ASSUME NEW s \in Sessions, NEW k \in Runs, Challenge(s, k) PROVE Service!Next
  <2>1. /\ message' = message /\ answer' = answer /\ owner[k] = NoImpi
        /\ owner' = [owner EXCEPT ![k] = card]
        /\ machine' = machine \/ Reports(s, "failed")
    BY <1>1 DEF Challenge
  <2>2. Phases' = Phases
    BY <1>a, <2>1, PhasesStay
  <2>3. Service!Authenticate(k)
    BY <1>0, <2>1, <2>2 DEF Service!Authenticate, Phases
  <2> QED
    BY <2>3 DEF Service!Next
<1>2. ASSUME NEW s \in Sessions, Succeeded(s) \/ HttpFails(s) PROVE UNCHANGED Service!vars
  <2>1. /\ message' = message /\ answer' = answer /\ owner' = owner
        /\ Reports(s, "failed") \/ Reports(s, "KErrNone")
    BY <1>2 DEF Succeeded, HttpFails, cardVars
  <2>2. Phases' = Phases
    BY <1>a, <2>1, PhasesStay
  <2> QED
    BY <2>1, <2>2 DEF Service!vars, Phases
<1>3. CASE \/ \E i \in Impi : OrderlyChange /\ ChangeCard(i)
           \/ \E k \in Runs : Expire(k)
           \/ Stop
           \/ UNCHANGED vars
  <2>1. message' = message /\ answer' = answer /\ owner' = owner /\ machine' = machine
    BY <1>3 DEF ChangeCard, Expire, Stop, vars, sessionVars, cardVars
  <2>2. Phases' = Phases
    BY <2>1, PhasesStay
  <2> QED
    BY <2>1, <2>2 DEF Service!vars, Phases
<1> QED
  BY <1>1, <1>2, <1>3

\* The server starts as the service does.
LEMMA InitIsServed == Init => Service!Init
BY DEF Init, Service!Init, Service!NoCredentials, Plain, Phase

\* Every step of the server is a step of the service, or none that its clients see.
LEMMA NextIsServed ==
    ASSUME TypeOK, OwnedInv, OrderlyInv, CredentialsInv, [OrderlyNext]_vars
    PROVE  [Service!Next]_(Service!vars)
<1>1. CASE UNCHANGED vars
  BY <1>1, OutsideIsServed
<1>2. CASE OrderlyStep
  <2>1. ASSUME NEW s \in Sessions, OrderlySession(s) PROVE [Service!Next]_(Service!vars)
    BY <2>1, ClientIsServed, RunLIsServed, OutsideIsServed DEF OrderlySession
  <2>2. CASE \/ \E i \in Impi : OrderlyChange /\ ChangeCard(i)
             \/ \E k \in Runs : Expire(k)
             \/ Stop
    BY <2>2, OutsideIsServed
  <2> QED
    BY <1>2, <2>1, <2>2 DEF OrderlyStep
<1> QED
  BY <1>1, <1>2 DEF OrderlyNext

\* With orderly clients the server implements the service it promises: each session
\* has one bootstrap under way at most, which is answered, refused or cancelled
\* once, and whoever is answered gets the credentials of one authentication.
THEOREM ServiceIsKept == OrderlySpec => ServiceSpec
<1>1. TypeOK /\ OwnedInv /\ OrderlyInv /\ CredentialsInv /\ [OrderlyNext]_vars
        => [Service!Next]_(Service!vars)
  BY NextIsServed
<1> QED
  BY <1>1, InitIsServed, CredentialsInvariant, PTL DEF OrderlySpec, ServiceSpec, Service!Spec

=============================================================================
