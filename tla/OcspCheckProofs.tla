-------------------------- MODULE OcspCheckProofs --------------------------
(***************************************************************************)
(* Proofs about the OCSP client, whatever the store of certificates, the   *)
(* network and the responder answer: every variable keeps its type,        *)
(* whoever waits has an object that works for it, a good result has a      *)
(* proof, and the client implements CertificateCheck.  They follow from    *)
(* one invariant, Kept; one lemma per action shows that it keeps it.       *)
(***************************************************************************)
EXTENDS OcspCheck, TLAPS

\* Who works has something to work with; only a reply that can be read is validated.
Counted ==
    /\ \A o \in Owners : tx[o].active => tx[o].left > 0
    /\ transport.active => transport.callback # Null
    /\ validator.active => validator.scheme \in 1 .. Len(Schemes)
    /\ validator.active /\ validator.state = "EValidateResponderCert" => params.responder
    /\ validator.active => Reply.verdict \in {"stale", "mismatch", "missing", "ok"}

\* The state of the client is the phase of the check.
Phased ==
    /\ app = "none" <=> client.state = "EInitial"
    /\ app = "KErrNone" <=> client.state = "EHaveResult"
    /\ client.active => client.state \in {"ESendingRequest", "EValidatingResponse"}
    /\ Len(outcomes) = Len(responses)
    /\ client.state = "EInitial" => outcomes = << >>
    /\ client.state = "ESendingRequest" => Len(outcomes) < params.certs
    /\ client.state = "EValidatingResponse" => Len(outcomes) > 0
    /\ client.state = "EHaveResult" => Len(outcomes) = params.certs

\* Summary s is the worst of the first last outcomes.
WorstAmong(outs, s, last) ==
    /\ \A i \in 1 .. last : ~Worse(outs[i].result, s)
    /\ s = "EGood" \/ \E i \in 1 .. last : outs[i].result = s

\* The outcome in hand is not in the summary yet.
Summed ==
    /\ client.state \in {"EInitial", "ESendingRequest", "EHaveResult"} =>
           WorstAmong(outcomes, summary, Len(outcomes))
    /\ client.state = "EValidatingResponse" =>
           WorstAmong(outcomes, summary, Len(outcomes) - 1)

\* A scheme has accepted the i-th of the replies.
Accepted(resps, i) == \E k \in DOMAIN Schemes : resps[i].by = Schemes[k]

Good(resps, i) == /\ resps[i].says = "EGood"
                  /\ resps[i].verdict \in {"ok", "missing"}
                  /\ Accepted(resps, i)

Founded(resps, outs) ==
    \A i \in DOMAIN outs :
        /\ outs[i].status = "EValid" => Accepted(resps, i)
        /\ outs[i].result = "EGood" /\ ~params.responder => Good(resps, i)

Proved == Founded(responses, outcomes)

Kept == TypeOK /\ Counted /\ Phased /\ ChainOfWaits /\ Summed /\ Proved

Working == TypeOK /\ Counted /\ ChainOfWaits
Recorded == Phased /\ Summed /\ Proved

LEMMA Frame ==
    ASSUME Recorded, UNCHANGED <<params, app, responses, outcomes, summary>>,
           client'.state = client.state, client'.active = client.active
    PROVE  Recorded'
BY DEF Recorded, Phased, Summed, Proved, WorstAmong, Founded, Accepted, Good

TransportType ==
    [connected : BOOLEAN, active : BOOLEAN, status : Status,
     callback : Owners \union {Null}, http : BOOLEAN, timer : BOOLEAN, found : BOOLEAN]
TxType == [state : {"none", "ESendRequest", "EFinished"}, active : BOOLEAN,
           status : Status, left : 0 .. MaxRetry]


-----------------------------------------------------------------------------
(* The transport. *)

\* Its own matters, while its caller waits for it.
LEMMA TransportGoesOn ==
    ASSUME Working, UNCHANGED <<params, app, client, responses, outcomes, summary, tx,
                                validator, scheme, fault>>,
           transport' \in TransportType,
           transport'.active = transport.active, transport'.callback = transport.callback,
           transport'.http <=> transport'.active /\ transport'.connected
                                                 /\ transport'.status = "pending",
           transport'.timer => transport'.http
    PROVE  Working'
<1>1. TypeOK' /\ Counted'
  BY DEF Working, TypeOK, TransportType, Counted, Reply
<1>2. ChainOfWaits'
  BY DEF Working, ChainOfWaits, Alive
<1> QED  BY <1>1, <1>2 DEF Working

LEMMA TransportTyped == ASSUME Working PROVE transport \in TransportType
BY DEF Working, TypeOK, TransportType

LEMMA ConnectedKeeps == ASSUME Working, Connected PROVE Working'
<1>1. PICK e \in {"KErrNone", "KErrGeneral"} : transport' = [transport EXCEPT !.status = e]
  BY DEF Connected
<1>2. /\ transport' \in TransportType /\ transport'.status = e
      /\ transport'.connected = transport.connected /\ transport'.active = transport.active
      /\ transport'.callback = transport.callback /\ transport'.http = transport.http
      /\ transport'.timer = transport.timer
  BY <1>1, TransportTyped DEF TransportType, Status, Codes, Errors
<1>3. /\ transport'.http <=> transport'.active /\ transport'.connected
                                               /\ transport'.status = "pending"
      /\ transport'.timer => transport'.http
  BY <1>2 DEF Working, ChainOfWaits, Connected
<1> QED  BY <1>2, <1>3, TransportGoesOn DEF Connected

LEMMA HttpEndsWithIs ==
    ASSUME Working, NEW code \in Status, code # "pending", HttpEndsWith(code)
    PROVE  /\ transport' \in TransportType /\ transport'.status # "pending"
           /\ transport'.active = transport.active /\ transport'.callback = transport.callback
           /\ ~transport'.http /\ ~transport'.timer
BY TransportTyped DEF HttpEndsWith, TransportType

LEMMA HttpEndsKeeps == ASSUME Working, HttpEnds \/ TimerRun PROVE Working'
<1>1. PICK code \in Status : code # "pending" /\ HttpEndsWith(code)
  BY DEF HttpEnds, TimerRun, Status, Codes, Errors
<1>2. UNCHANGED <<params, app, client, responses, outcomes, summary, tx, validator, scheme, fault>>
  BY DEF HttpEnds, TimerRun
<1> QED  BY <1>1, <1>2, HttpEndsWithIs, TransportGoesOn

LEMMA HttpTimedOutKeeps == ASSUME Working, HttpTimedOut PROVE Working'
<1>1. /\ transport' \in TransportType /\ transport'.status = transport.status
      /\ transport'.connected = transport.connected /\ transport'.active = transport.active
      /\ transport'.callback = transport.callback /\ transport'.http = transport.http
      /\ transport'.timer = transport.timer
  BY TransportTyped DEF HttpTimedOut, TransportType
<1>2. /\ transport'.http <=> transport'.active /\ transport'.connected
                                               /\ transport'.status = "pending"
      /\ transport'.timer => transport'.http
  BY <1>1 DEF Working, ChainOfWaits, HttpTimedOut
<1> QED  BY <1>1, <1>2, TransportGoesOn DEF HttpTimedOut

\* The request is submitted.
LEMMA SubmittedIs ==
    ASSUME params.timeout \in BOOLEAN, NEW t \in TransportType
    PROVE  /\ Submitted(t) \in TransportType /\ Submitted(t).connected
           /\ Submitted(t).active /\ Submitted(t).status = "pending"
           /\ Submitted(t).http /\ Submitted(t).callback = t.callback
BY DEF Submitted, TransportType, Status

\* A transport that completes its caller leaves nobody waiting.
LEMMA CompleteKeeps ==
    ASSUME Working, Alive, transport.active, ~transport.http,
           NEW code \in Codes, NEW t \in TransportType, ~t.http, ~t.timer, Complete(code, t),
           UNCHANGED <<params, app, client, responses, outcomes, summary, validator, scheme, fault>>
    PROVE  Working'
<1> DEFINE o == transport.callback
<1>1. o \in Owners /\ tx[o] \in TxType /\ tx \in [Owners -> TxType]
  BY TransportTyped DEF Working, Counted, TypeOK, TransportType, TxType
<1>2. tx[o].active /\ tx[o].state = "EFinished" /\ tx[o].status = "pending"
  BY <1>1 DEF Working, ChainOfWaits
<1>3. /\ transport' \in TransportType /\ ~transport'.active /\ transport'.callback = Null
      /\ ~transport'.http /\ ~transport'.timer
  BY DEF Complete, TransportType
<1>4. tx' = [tx EXCEPT ![o] = [tx[o] EXCEPT !.status = code]]
  BY DEF Complete
<1> DEFINE new == [tx[o] EXCEPT !.status = code]
<1>5. /\ new \in TxType /\ new.status = code /\ new.active = tx[o].active
      /\ new.state = tx[o].state /\ new.left = tx[o].left /\ code # "pending"
  BY <1>1 DEF TxType, Status, Codes, Errors, States
<1> HIDE DEF new
<1>6. tx' = [tx EXCEPT ![o] = new]
  BY <1>4 DEF new
<1> HIDE DEF o
<1>7. /\ tx' \in [Owners -> TxType] /\ tx'[o] = new
      /\ \A p \in Owners : p # o => tx'[p] = tx[p]
  BY <1>1, <1>5, <1>6
<1>8. TypeOK'
  BY <1>3, <1>7 DEF Working, TypeOK, TransportType, TxType
<1>9. Counted'
  BY <1>3, <1>5, <1>7 DEF Working, Counted, Reply
<1>10. \A p \in Owners : ~(tx'[p].active /\ tx'[p].state = "EFinished" /\ tx'[p].status = "pending")
  BY <1>5, <1>7, <1>1 DEF o, Working, ChainOfWaits
<1>11. \A p \in Owners : tx'[p].active = tx[p].active
  BY <1>5, <1>7
<1>12. ChainOfWaits'
  BY <1>3, <1>10, <1>11 DEF Working, ChainOfWaits, Alive, Owners
<1> QED  BY <1>8, <1>9, <1>12 DEF Working

LEMMA TransportRunLKeeps == ASSUME Working, TransportRunL PROVE Working'
<1>1. /\ Alive /\ transport.active /\ transport.status # "pending" /\ transport \in TransportType
      /\ ~transport.http /\ ~transport.timer /\ params.timeout \in BOOLEAN
      /\ transport.status \in Codes
  BY TransportTyped DEF TransportRunL, Ready, Working, ChainOfWaits, TypeOK, TransportType, Status
<1>2. UNCHANGED <<params, app, client, responses, outcomes, summary, validator, scheme, fault>>
  BY DEF TransportRunL
<1>3. ASSUME NEW code \in Codes, Complete(code, transport) PROVE Working'
  BY <1>1, <1>2, <1>3, CompleteKeeps
<1>4. CASE transport.status # "KErrNone"
  <2>1. Complete(IF transport.connected THEN transport.status
                 ELSE "KErrTransportFailure", transport)
    BY <1>4 DEF TransportRunL
  <2>2. (IF transport.connected THEN transport.status ELSE "KErrTransportFailure") \in Codes
    BY <1>1 DEF Codes, Errors
  <2> QED  BY <1>3, <2>1, <2>2
<1>5. CASE transport.status = "KErrNone" /\ transport.connected
  BY <1>3, <1>5 DEF TransportRunL, Codes
<1>6. CASE transport' = Submitted(transport) /\ UNCHANGED tx
  <2>1. /\ transport' \in TransportType /\ transport'.connected
        /\ transport'.active /\ transport'.status = "pending"
        /\ transport'.http /\ transport'.callback = transport.callback
    BY <1>1, <1>6, SubmittedIs
  <2> QED  BY <1>1, <1>2, <1>6, <2>1, TransportGoesOn DEF TransportType
<1>7. ASSUME NEW e \in {"KErrInvalidURI", "KErrGeneral"},
             Complete(e, [transport EXCEPT !.connected = TRUE])
      PROVE  Working'
  <2> DEFINE t == [transport EXCEPT !.connected = TRUE]
  <2>1. t \in TransportType /\ ~t.http /\ ~t.timer /\ e \in Codes
    BY <1>1 DEF TransportType, Codes, Errors
  <2>2. Complete(e, t)
    BY <1>7
  <2> HIDE DEF t
  <2> QED  BY <1>1, <1>2, <2>1, <2>2, CompleteKeeps
<1> QED  BY <1>4, <1>5, <1>6, <1>7 DEF TransportRunL
-----------------------------------------------------------------------------
(* The transactions. *)

LEMMA TxTyped == ASSUME Working PROVE tx \in [Owners -> TxType]
BY DEF Working, TypeOK, TxType

\* Client and validator never have a transaction at the same time.
LEMMA OneTransaction ==
    ASSUME Working, Alive, NEW o \in Owners, NEW p \in Owners, o # p, tx[o].active
    PROVE  ~tx[p].active
BY DEF Working, ChainOfWaits, Owners

\* While a transaction runs, but does not wait, the transport has nothing to do.
LEMMA TransportIsIdle ==
    ASSUME Working, Alive, NEW o \in Owners, tx[o].active, tx[o].status # "pending"
    PROVE  ~transport.active /\ ~transport.http /\ ~transport.timer
<1>1. \A p \in Owners : ~(tx[p].active /\ tx[p].status = "pending")
  BY OneTransaction
<1> QED  BY <1>1, TransportTyped DEF Working, Counted, ChainOfWaits, TransportType

\* The transaction of o goes on as new, and the transport for it.
LEMMA TransactionGoesOn ==
    ASSUME Working, Alive, NEW o \in Owners, tx[o].active, tx[o].status # "pending",
           NEW new \in TxType, new.active, new.left > 0, tx' = [tx EXCEPT ![o] = new],
           new.state = "EFinished",
           UNCHANGED <<params, app, client, responses, outcomes, summary, validator, scheme, fault>>,
           transport' \in TransportType,
           transport'.active <=> new.status = "pending",
           transport'.active => transport'.callback = o,
           transport'.http <=> transport'.active /\ transport'.connected
                                                 /\ transport'.status = "pending",
           transport'.timer => transport'.http
    PROVE  Working'
<1>1. /\ tx' \in [Owners -> TxType] /\ tx'[o] = new
      /\ \A p \in Owners : p # o => tx'[p] = tx[p] /\ ~tx'[p].active
  BY TxTyped, OneTransaction
<1>2. TypeOK' /\ Counted'
  BY <1>1 DEF Working, TypeOK, Counted, TransportType, TxType, Owners, Null, Reply
<1>3. \A p \in Owners : tx'[p].active = tx[p].active
  BY <1>1, OneTransaction DEF TxType
<1>4. \A p \in Owners : transport'.active /\ transport'.callback = p <=>
           tx'[p].active /\ tx'[p].state = "EFinished" /\ tx'[p].status = "pending"
  BY <1>1
<1>5. ChainOfWaits'
  BY <1>3, <1>4 DEF Working, ChainOfWaits, Alive, Owners
<1> QED  BY <1>2, <1>5 DEF Working

LEMMA SendKeeps ==
    ASSUME Working, Alive, NEW o \in Owners, tx[o].active, tx[o].status # "pending",
           NEW t \in TxType, t.left > 0, NEW first \in BOOLEAN, TransportSend(o, t, first),
           UNCHANGED <<params, app, client, responses, outcomes, summary, validator, scheme, fault>>
    PROVE  Working'
<1> DEFINE sent(code) == [t EXCEPT !.state = "EFinished", !.active = TRUE, !.status = code]
           called == [transport EXCEPT !.callback = o, !.found = TRUE]
<1>1. \A code \in Status : /\ sent(code) \in TxType /\ sent(code).active
                           /\ sent(code).state = "EFinished" /\ sent(code).status = code
                           /\ sent(code).left > 0
  BY DEF TxType, Status
<1>2. transport \in TransportType /\ ~transport.active /\ ~transport.http /\ ~transport.timer
  BY TransportIsIdle, TransportTyped
<1>3. params.timeout \in BOOLEAN
  BY DEF Working, TypeOK
<1>4. /\ called \in TransportType /\ called.connected = transport.connected
      /\ called.callback = o /\ ~called.http /\ ~called.timer
  BY <1>2 DEF TransportType, Owners
<1>5. \/ /\ transport' = NoTransport
         /\ tx' = [tx EXCEPT ![o] = sent("KErrInvalidURI")]
      \/ /\ ~transport.connected
         /\ transport' = [called EXCEPT !.active = TRUE, !.status = "pending"]
         /\ tx' = [tx EXCEPT ![o] = sent("pending")]
      \/ /\ transport' = Submitted(called)
         /\ tx' = [tx EXCEPT ![o] = sent("pending")]
      \/ /\ transport' = [transport EXCEPT !.status = "pending", !.found = TRUE]
         /\ \E e \in {"KErrInvalidURI", "KErrGeneral"} : tx' = [tx EXCEPT ![o] = sent(e)]
  BY DEF TransportSend
<1>6. {"KErrInvalidURI", "KErrGeneral"} \subseteq Status /\ "pending" \in Status
  BY DEF Status, Codes, Errors
<1> HIDE DEF sent
<1>7. CASE transport' = NoTransport /\ tx' = [tx EXCEPT ![o] = sent("KErrInvalidURI")]
  <2>1. transport' \in TransportType /\ ~transport'.active /\ ~transport'.http /\ ~transport'.timer
    BY <1>7 DEF NoTransport, TransportType, Status, Codes
  <2> QED  BY <2>1, <1>1, <1>6, <1>7, TransactionGoesOn
<1>8. CASE /\ ~transport.connected
           /\ transport' = [called EXCEPT !.active = TRUE, !.status = "pending"]
           /\ tx' = [tx EXCEPT ![o] = sent("pending")]
  <2> HIDE DEF called
  <2>1. /\ transport' \in TransportType /\ transport'.active /\ ~transport'.connected
        /\ transport'.callback = o /\ ~transport'.http /\ ~transport'.timer
    BY <1>4, <1>8, <1>6 DEF TransportType
  <2> QED  BY <2>1, <1>1, <1>6, <1>8, TransactionGoesOn
<1>9. CASE transport' = Submitted(called) /\ tx' = [tx EXCEPT ![o] = sent("pending")]
  <2> HIDE DEF called
  <2>1. /\ transport' \in TransportType /\ transport'.active /\ transport'.connected
        /\ transport'.callback = o /\ transport'.http /\ transport'.status = "pending"
    BY <1>3, <1>4, <1>9, SubmittedIs
  <2> QED  BY <2>1, <1>1, <1>6, <1>9, TransactionGoesOn DEF TransportType
<1>10. ASSUME NEW e \in {"KErrInvalidURI", "KErrGeneral"},
              transport' = [transport EXCEPT !.status = "pending", !.found = TRUE],
              tx' = [tx EXCEPT ![o] = sent(e)]
       PROVE  Working'
  <2>1. transport' \in TransportType /\ ~transport'.active /\ ~transport'.http /\ ~transport'.timer
    BY <1>2, <1>10, <1>6 DEF TransportType
  <2>2. e \in Status /\ e # "pending"
    BY <1>6
  <2> QED  BY <2>1, <2>2, <1>1, <1>10, TransactionGoesOn
<1> QED  BY <1>5, <1>7, <1>8, <1>9, <1>10

\* Who waits for a transaction has its answer, and the transaction is over.
LEMMA AnsweredKeeps ==
    ASSUME Working, Alive, NEW o \in Owners, tx[o].active, tx[o].status # "pending",
           NEW t \in TxType, ~t.active, tx' = [tx EXCEPT ![o] = t],
           NEW code \in Codes, Answered(o, code),
           UNCHANGED <<params, app, responses, outcomes, summary, transport, scheme, fault>>
    PROVE  /\ Working'
           /\ client'.state = client.state /\ client'.active = client.active
<1>1. /\ tx' \in [Owners -> TxType] /\ \A p \in Owners : ~tx'[p].active
  BY TxTyped, OneTransaction
<1>2. ~transport.active /\ ~transport.http /\ ~transport.timer
  BY TransportIsIdle
<1>3. code # "pending" /\ code \in Status
  BY DEF Status, Codes, Errors, States
<1>4. CASE o = "client"
  <2>1. client' = [client EXCEPT !.status = code] /\ UNCHANGED validator
    BY <1>4 DEF Answered
  <2>2. /\ client'.state = client.state /\ client'.active = client.active
        /\ client'.status = code
        /\ client' \in [state : {"EInitial", "ESendingRequest", "EValidatingResponse",
                                 "EHaveResult", "EError"},
                        active : BOOLEAN, status : Status]
    BY <1>3, <2>1 DEF Working, TypeOK
  <2>3. TypeOK' /\ Counted'
    BY <1>1, <2>1, <2>2 DEF Working, TypeOK, TxType, Counted, Reply
  <2>4. client.state = "ESendingRequest" /\ ~validator.active /\ ~scheme.active
    BY <1>4 DEF Working, ChainOfWaits
  <2>5. ChainOfWaits'
    BY <1>1, <1>2, <1>3, <2>1, <2>2, <2>4 DEF Working, ChainOfWaits, Alive, Owners
  <2> QED  BY <2>2, <2>3, <2>5 DEF Working
<1>5. CASE o = "validator"
  <2>1. validator' = [validator EXCEPT !.status = code] /\ UNCHANGED client
    BY <1>5 DEF Answered
  <2>2. /\ validator'.state = validator.state /\ validator'.active = validator.active
        /\ validator'.status = code /\ validator'.scheme = validator.scheme
        /\ validator' \in [state : {"none", "EWaitingResponse", "EValidating",
                                    "EValidateResponderCert"},
                           active : BOOLEAN, status : Status, scheme : 0 .. Len(Schemes) + 1]
    BY <1>3, <2>1 DEF Working, TypeOK
  <2>3. TypeOK' /\ Counted'
    BY <1>1, <2>1, <2>2 DEF Working, TypeOK, TxType, Counted, Reply
  <2>4. validator.state = "EValidateResponderCert" /\ validator.active /\ ~scheme.active
    BY <1>5 DEF Working, ChainOfWaits
  <2>5. ChainOfWaits'
    BY <1>1, <1>2, <1>3, <2>1, <2>2, <2>4 DEF Working, ChainOfWaits, Alive, Owners
  <2> QED  BY <2>1, <2>3, <2>5 DEF Working
<1> QED  BY <1>4, <1>5 DEF Owners

LEMMA TransactionRunLKeeps ==
    ASSUME Working, NEW o \in Owners, TransactionRunL(o)
    PROVE  /\ Working'
           /\ client'.state = client.state /\ client'.active = client.active
<1>1. Alive /\ tx[o].active /\ tx[o].status # "pending" /\ tx[o] \in TxType /\ tx[o].left > 0
  BY TxTyped DEF TransactionRunL, Ready, Working, Counted
<1>2. UNCHANGED <<params, app, responses, outcomes, summary, scheme, fault>>
  BY DEF TransactionRunL
<1>3. CASE TransportSend(o, tx[o], TRUE) /\ UNCHANGED <<client, validator>>
  BY <1>1, <1>2, <1>3, SendKeeps
<1>4. ASSUME NEW code \in Codes, RetryNeeded(Tried(tx[o]), code),
             TransportSend(o, Tried(tx[o]), FALSE), UNCHANGED <<client, validator>>
      PROVE  Working'
  <2> DEFINE t == Tried(tx[o])
  <2>1. t \in TxType /\ t.left > 0
    BY <1>1, <1>4, OcspAssumption DEF Tried, TxType, RetryNeeded
  <2>2. TransportSend(o, t, FALSE)
    BY <1>4
  <2> HIDE DEF t
  <2> QED  BY <1>1, <1>2, <1>4, <2>1, <2>2, SendKeeps
<1>5. ASSUME NEW code \in Codes, tx' = [tx EXCEPT ![o] = [Tried(tx[o]) EXCEPT !.active = FALSE]],
             Answered(o, code), UNCHANGED transport
      PROVE  /\ Working'
             /\ client'.state = client.state /\ client'.active = client.active
  <2> DEFINE t == [Tried(tx[o]) EXCEPT !.active = FALSE]
  <2>1. Tried(tx[o]) \in TxType
    BY <1>1, OcspAssumption DEF Tried, TxType
  <2>2. t \in TxType /\ ~t.active
    BY <2>1 DEF TxType
  <2>3. tx' = [tx EXCEPT ![o] = t]
    BY <1>5
  <2> HIDE DEF t
  <2> QED  BY <1>1, <1>2, <1>5, <2>2, <2>3, AnsweredKeeps
<1>6. CASE tx[o].state = "EFinished"
  <2>1. PICK code \in IF tx[o].status # "KErrNone" THEN {tx[o].status}
                      ELSE {"KErrNone", "ETryLater", "EClientUnauthorised"} :
             LET t == Tried(tx[o])
             IN  IF RetryNeeded(t, code)
                 THEN TransportSend(o, t, FALSE) /\ UNCHANGED <<client, validator>>
                 ELSE /\ tx' = [tx EXCEPT ![o] = [t EXCEPT !.active = FALSE]]
                      /\ Answered(o, code)
                      /\ UNCHANGED transport
    BY <1>6 DEF TransactionRunL
  <2>2. code \in Codes
    BY <1>1 DEF TxType, Status, Codes, States
  <2> QED  BY <1>4, <1>5, <2>1, <2>2
<1>7. CASE /\ tx' = [tx EXCEPT ![o].active = FALSE]
           /\ Answered(o, "KErrGeneral")
           /\ UNCHANGED transport
  <2> DEFINE t == [tx[o] EXCEPT !.active = FALSE]
  <2>1. t \in TxType /\ ~t.active
    BY <1>1 DEF TxType
  <2>2. tx' = [tx EXCEPT ![o] = t] /\ "KErrGeneral" \in Codes
    BY <1>7 DEF Codes, Errors
  <2> HIDE DEF t
  <2> QED  BY <1>1, <1>2, <1>7, <2>1, <2>2, AnsweredKeeps
<1>8. \/ TransportSend(o, tx[o], TRUE) /\ UNCHANGED <<client, validator>>
      \/ /\ tx' = [tx EXCEPT ![o].active = FALSE]
         /\ Answered(o, "KErrGeneral")
         /\ UNCHANGED transport
      \/ tx[o].state = "EFinished"
  BY DEF TransactionRunL
<1> QED  BY <1>3, <1>6, <1>7, <1>8
-----------------------------------------------------------------------------
(* Replies and outcomes. *)

OutcomeType == [status : OutcomeStatus, result : Results]

\* The records while the last outcome is in hand.
InHand(resps, outs) ==
    /\ resps \in Seq(Replies \union {NoReply}) /\ outs \in Seq(OutcomeType)
    /\ Len(outs) = Len(resps) /\ Len(outs) > 0 /\ Len(resps) <= params.certs
    /\ Founded(resps, outs)
    /\ WorstAmong(outs, summary, Len(outs) - 1)

LEMMA WithStatus ==
    ASSUME NEW resps, NEW outs, InHand(resps, outs), NEW value \in OutcomeStatus,
           value # "EValid" \/ Accepted(resps, Len(resps))
    PROVE  InHand(resps, With(outs, "status", value))
<1> DEFINE n == Len(outs)  new == [outs[n] EXCEPT !["status"] = value]
           w == With(outs, "status", value)
<1>1. outs \in Seq(OutcomeType) /\ n \in Nat \ {0} /\ n = Len(resps) /\ outs[n] \in OutcomeType
  BY DEF InHand
<1>2. new \in OutcomeType /\ new.status = value /\ new.result = outs[n].result
  BY <1>1 DEF OutcomeType
<1>3. w = [outs EXCEPT ![n] = new]
  BY DEF With
<1> HIDE DEF new, w
<1>4. /\ w \in Seq(OutcomeType) /\ Len(w) = n /\ w[n] = new
      /\ \A i \in 1 .. (n - 1) : w[i] = outs[i]
  BY <1>1, <1>2, <1>3
<1> HIDE DEF n
<1>5. DOMAIN w = 1 .. n /\ DOMAIN outs = 1 .. n
  BY <1>1, <1>4 DEF n
<1>6. Founded(resps, w)
  <2> SUFFICES ASSUME NEW i \in 1 .. n
               PROVE  /\ w[i].status = "EValid" => Accepted(resps, i)
                      /\ w[i].result = "EGood" /\ ~params.responder => Good(resps, i)
    BY <1>5 DEF Founded
  <2>1. CASE i = n
    BY <2>1, <1>1, <1>2, <1>4, <1>5 DEF InHand, Founded
  <2>2. CASE i # n
    <3>1. w[i] = outs[i]
      BY <2>2, <1>1, <1>4
    <3> QED  BY <3>1, <1>5 DEF InHand, Founded
  <2> QED  BY <2>1, <2>2
<1>7. WorstAmong(w, summary, n - 1)
  BY <1>4 DEF InHand, WorstAmong, n
<1> QED  BY <1>1, <1>4, <1>6, <1>7 DEF InHand, w

LEMMA WithResult ==
    ASSUME NEW resps, NEW outs, InHand(resps, outs), NEW value \in Results,
           value # "EGood" \/ params.responder \/ Good(resps, Len(resps))
    PROVE  InHand(resps, With(outs, "result", value))
<1> DEFINE n == Len(outs)  new == [outs[n] EXCEPT !["result"] = value]
           w == With(outs, "result", value)
<1>1. outs \in Seq(OutcomeType) /\ n \in Nat \ {0} /\ n = Len(resps) /\ outs[n] \in OutcomeType
  BY DEF InHand
<1>2. new \in OutcomeType /\ new.result = value /\ new.status = outs[n].status
  BY <1>1 DEF OutcomeType
<1>3. w = [outs EXCEPT ![n] = new]
  BY DEF With
<1> HIDE DEF new, w
<1>4. /\ w \in Seq(OutcomeType) /\ Len(w) = n /\ w[n] = new
      /\ \A i \in 1 .. (n - 1) : w[i] = outs[i]
  BY <1>1, <1>2, <1>3
<1> HIDE DEF n
<1>5. DOMAIN w = 1 .. n /\ DOMAIN outs = 1 .. n
  BY <1>1, <1>4 DEF n
<1>6. Founded(resps, w)
  <2> SUFFICES ASSUME NEW i \in 1 .. n
               PROVE  /\ w[i].status = "EValid" => Accepted(resps, i)
                      /\ w[i].result = "EGood" /\ ~params.responder => Good(resps, i)
    BY <1>5 DEF Founded
  <2>1. CASE i = n
    BY <2>1, <1>1, <1>2, <1>4, <1>5 DEF InHand, Founded
  <2>2. CASE i # n
    <3>1. w[i] = outs[i]
      BY <2>2, <1>1, <1>4
    <3> QED  BY <3>1, <1>5 DEF InHand, Founded
  <2> QED  BY <2>1, <2>2
<1>7. WorstAmong(w, summary, n - 1)
  BY <1>4 DEF InHand, WorstAmong, n
<1> QED  BY <1>1, <1>4, <1>6, <1>7 DEF InHand, w

LEMMA RecordsInHand ==
    ASSUME TypeOK, Recorded, client.state = "EValidatingResponse"
    PROVE  InHand(responses, outcomes)
BY DEF TypeOK, Recorded, Phased, Summed, Proved, InHand, OutcomeType

\* The answer to a request, with an outcome that claims nothing.
LEMMA AnswerInHand ==
    ASSUME TypeOK, Recorded, client.state = "ESendingRequest",
           NEW reply \in Replies \union {NoReply},
           NEW out \in OutcomeType, out.status # "EValid", out.result = "EUnknown"
    PROVE  /\ InHand(Append(responses, reply), Append(outcomes, out))
           /\ LET resps == Append(responses, reply) IN resps[Len(resps)] = reply
<1> DEFINE n == Len(outcomes)  outs == Append(outcomes, out)  resps == Append(responses, reply)
<1>1. /\ outcomes \in Seq(OutcomeType) /\ responses \in Seq(Replies \union {NoReply})
      /\ n \in Nat /\ Len(responses) = n /\ n < params.certs /\ params.certs \in Nat
      /\ WorstAmong(outcomes, summary, n) /\ Founded(responses, outcomes)
  BY OcspAssumption DEF TypeOK, Recorded, Phased, Summed, Proved, OutcomeType
<1>2. /\ outs \in Seq(OutcomeType) /\ Len(outs) = n + 1 /\ outs[n + 1] = out
      /\ resps \in Seq(Replies \union {NoReply}) /\ Len(resps) = n + 1 /\ resps[n + 1] = reply
      /\ \A i \in 1 .. n : outs[i] = outcomes[i] /\ resps[i] = responses[i]
      /\ DOMAIN outs = 1 .. (n + 1) /\ DOMAIN outcomes = 1 .. n
  BY <1>1
<1> HIDE DEF n, outs, resps
<1>3. WorstAmong(outs, summary, n)
  BY <1>1, <1>2 DEF WorstAmong
<1>4. Founded(resps, outs)
  <2> SUFFICES ASSUME NEW i \in 1 .. (n + 1)
               PROVE  /\ outs[i].status = "EValid" => Accepted(resps, i)
                      /\ outs[i].result = "EGood" /\ ~params.responder => Good(resps, i)
    BY <1>2 DEF Founded
  <2>1. CASE i = n + 1
    BY <2>1, <1>2
  <2>2. CASE i # n + 1
    <3>1. i \in 1 .. n /\ outs[i] = outcomes[i] /\ resps[i] = responses[i]
      BY <2>2, <1>1, <1>2
    <3> QED  BY <3>1, <1>1, <1>2 DEF Founded, Good, Accepted
  <2> QED  BY <2>1, <2>2
<1> QED  BY <1>1, <1>2, <1>3, <1>4 DEF InHand, outs, resps
-----------------------------------------------------------------------------
(* The authorisation schemes and the validator. *)

ClientType == [state : {"EInitial", "ESendingRequest", "EValidatingResponse", "EHaveResult",
                        "EError"},
               active : BOOLEAN, status : Status]
ValidatorType == [state : {"none", "EWaitingResponse", "EValidating", "EValidateResponderCert"},
                  active : BOOLEAN, status : Status, scheme : 0 .. Len(Schemes) + 1]
SchemeType == [state : {"none", "EValidateCertChain", "EListCertEntries", "ERetrieveNext",
                        "ERetrievingEntry", "EOnChainValidation"},
               active : BOOLEAN, status : Status, left : 0 .. MaxEntries, chain : BOOLEAN]

LEMMA Typed ==
    ASSUME TypeOK
    PROVE  client \in ClientType /\ validator \in ValidatorType /\ scheme \in SchemeType
BY DEF TypeOK, ClientType, ValidatorType, SchemeType

LEMMA CodesAreStatus ==
    /\ \A c \in Codes : c \in Status /\ c # "pending"
    /\ "pending" \in Status /\ \A c \in Status : c # "pending" => c \in Codes
    /\ Errors \subseteq Codes /\ States \subseteq Codes /\ "KErrNone" \in Codes
    /\ "KErrNone" \notin Errors /\ "KErrGeneral" \in Errors
    /\ \A c \in States : c \notin Errors /\ c # "KErrNone" /\ c # "EValid"
    /\ \A c \in Codes : c \in Errors \/ c \in States \/ c = "KErrNone"
    /\ States \subseteq OutcomeStatus
<1>1. \A c \in Codes : c \in Status /\ c # "pending"
  BY DEF Status, Codes, Errors, States
<1>2. /\ "pending" \in Status /\ \A c \in Status : c # "pending" => c \in Codes
      /\ Errors \subseteq Codes /\ States \subseteq Codes /\ "KErrNone" \in Codes
      /\ "KErrNone" \notin Errors /\ "KErrGeneral" \in Errors
  BY DEF Status, Codes, Errors, States
<1>3. \A c \in States : c \notin Errors /\ c # "KErrNone" /\ c # "EValid"
  BY DEF Errors, States
<1>4. \A c \in Codes : c \in Errors \/ c \in States \/ c = "KErrNone"
  BY DEF Codes
<1>5. States \subseteq OutcomeStatus
  BY DEF OutcomeStatus
<1> QED  BY <1>1, <1>2, <1>3, <1>4, <1>5

\* Nobody asks a server.
Quiet == /\ \A o \in Owners : ~tx[o].active
         /\ ~transport.active /\ ~transport.http /\ ~transport.timer

LEMMA NobodyAsks ==
    ASSUME Working, Alive, \A o \in Owners : ~tx[o].active
    PROVE  Quiet
BY TransportTyped DEF Working, Counted, ChainOfWaits, TransportType, Quiet

LEMMA NobodyWorks ==
    ASSUME Working, Alive,
           ~client.active \/ client.status # "pending" \/
              (validator.active /\ validator.status # "pending")
    PROVE  /\ Quiet /\ ~scheme.active
           /\ ~client.active \/ client.status # "pending" => ~validator.active
<1>1. (\A o \in Owners : ~tx[o].active) /\ ~scheme.active
  BY DEF Working, ChainOfWaits, Owners
<1>2. ~client.active \/ client.status # "pending" => ~validator.active
  BY DEF Working, ChainOfWaits
<1> QED  BY <1>1, <1>2, NobodyAsks

\* A step of the validation of the reply in hand, which leaves the records in hand.
LEMMA ValidationGoesOn ==
    ASSUME Working, Recorded, Alive, client.active, Quiet,
           UNCHANGED <<params, app, summary, tx, transport, fault>>,
           InHand(responses', outcomes'),
           client' \in ClientType, validator' \in ValidatorType, scheme' \in SchemeType,
           client'.active, client'.state = "EValidatingResponse",
           validator'.active <=> client'.status = "pending",
           validator'.active => /\ validator'.scheme \in 1 .. Len(Schemes)
                                /\ Reply'.verdict \in {"stale", "mismatch", "missing", "ok"},
           validator'.active /\ validator'.state = "EValidateResponderCert" =>
               params.responder /\ validator'.status # "pending",
           scheme'.active <=> /\ validator'.active /\ validator'.state = "EWaitingResponse"
                              /\ validator'.status = "pending"
    PROVE  Working' /\ Recorded'
<1>1. app = "pending"
  BY DEF Working, ChainOfWaits
<1>2. TypeOK'
  BY DEF Working, TypeOK, InHand, ClientType, ValidatorType, SchemeType, OutcomeType
<1>3. Counted'
  BY DEF Working, Counted, Quiet
<1>4. ChainOfWaits'
  BY <1>1 DEF Working, ChainOfWaits, Alive, Quiet, Owners
<1>5. Recorded'
  BY <1>1 DEF Recorded, Phased, Summed, Proved, Founded, InHand, WorstAmong, Good, Accepted
<1> QED  BY <1>2, <1>3, <1>4, <1>5 DEF Working
LEMMA ProcessSchemeKeeps ==
    ASSUME Working, Recorded, Alive, client.active, Quiet, ~scheme.active,
           NEW i \in 1 .. Len(Schemes) + 1, NEW reply, NEW resps, NEW outs,
           InHand(resps, outs), reply = resps[Len(resps)],
           reply.verdict \in {"stale", "mismatch", "missing", "ok"},
           NEW c \in ClientType, c.active, c.state = "EValidatingResponse",
           c.status = "pending", ProcessScheme(i, reply, outs, c), responses' = resps,
           UNCHANGED <<params, app, summary, tx, transport, fault>>
    PROVE  Working' /\ Recorded'
<1> DEFINE failed == With(outs, "status", "EResponseSignatureValidationFailure")
           waits(code) == [state |-> "EWaitingResponse", active |-> TRUE,
                           status |-> code, scheme |-> i]
           starts(state) == [scheme EXCEPT !.state = state, !.active = TRUE, !.status = "pending"]
           done == [validator EXCEPT !.active = FALSE, !.scheme = i]
           N == Len(Schemes)
<1>1. /\ validator \in ValidatorType /\ scheme \in SchemeType /\ ~scheme.active
      /\ N \in Nat /\ i \in 1 .. N + 1 /\ MaxEntries \in Nat
  BY Typed, OcspAssumption DEF Working
<1>2. Reply' = reply
  BY DEF Reply
<1>3. InHand(resps, failed)
  <2>1. /\ "EResponseSignatureValidationFailure" \in OutcomeStatus
        /\ "EResponseSignatureValidationFailure" # "EValid"
    BY DEF OutcomeStatus, States
  <2> QED  BY <2>1, WithStatus
<1>4. done \in ValidatorType /\ ~done.active
  <2>1. i \in 0 .. Len(Schemes) + 1
    BY <1>1
  <2> HIDE DEF N
  <2>2. done \in ValidatorType /\ done.active = FALSE
    BY <1>1, <2>1 DEF ValidatorType
  <2> QED  BY <2>2
<1>5. \A code \in Status : i <= N =>
         /\ waits(code) \in ValidatorType /\ waits(code).active /\ waits(code).status = code
         /\ waits(code).scheme \in 1 .. N /\ waits(code).state = "EWaitingResponse"
  BY <1>1 DEF ValidatorType
<1>6. \A state \in {"EValidateCertChain", "EListCertEntries", "ERetrieveNext",
                    "EOnChainValidation"} :
         /\ starts(state) \in SchemeType /\ starts(state).active /\ starts(state).status = "pending"
         /\ [starts(state) EXCEPT !.chain = TRUE] \in SchemeType
         /\ [starts(state) EXCEPT !.chain = TRUE].active
         /\ \A n \in 0 .. MaxEntries : /\ [starts(state) EXCEPT !.left = n] \in SchemeType
                                       /\ [starts(state) EXCEPT !.left = n].active
  <2> SUFFICES ASSUME NEW state \in {"EValidateCertChain", "EListCertEntries", "ERetrieveNext",
                                     "EOnChainValidation"}
               PROVE  /\ starts(state) \in SchemeType /\ starts(state).active
                      /\ starts(state).status = "pending"
                      /\ [starts(state) EXCEPT !.chain = TRUE] \in SchemeType
                      /\ [starts(state) EXCEPT !.chain = TRUE].active
                      /\ \A n \in 0 .. MaxEntries :
                           /\ [starts(state) EXCEPT !.left = n] \in SchemeType
                           /\ [starts(state) EXCEPT !.left = n].active
    OBVIOUS
  <2> DEFINE s == starts(state)
  <2>1. s \in SchemeType /\ s.active /\ s.status = "pending"
    BY <1>1, CodesAreStatus DEF SchemeType
  <2> HIDE DEF s
  <2>2. [s EXCEPT !.chain = TRUE] \in SchemeType /\ [s EXCEPT !.chain = TRUE].active
    BY <2>1 DEF SchemeType
  <2>3. \A n \in 0 .. MaxEntries : /\ [s EXCEPT !.left = n] \in SchemeType
                                   /\ [s EXCEPT !.left = n].active
    BY <2>1 DEF SchemeType
  <2> QED  BY <2>1, <2>2, <2>3 DEF s
<1>7. \A code \in {"KErrNone", "KErrGeneral"} :
         [c EXCEPT !.status = code] \in ClientType
         /\ [c EXCEPT !.status = code].active
         /\ [c EXCEPT !.status = code].state = "EValidatingResponse"
         /\ [c EXCEPT !.status = code].status # "pending"
  BY CodesAreStatus DEF ClientType
<1>8. \/ outcomes' = outs /\ validator' = done
         /\ client' = [c EXCEPT !.status = "KErrNone"] /\ UNCHANGED scheme
      \/ outcomes' = failed /\ validator' = done
         /\ client' = [c EXCEPT !.status = "KErrGeneral"] /\ UNCHANGED scheme
      \/ /\ i <= Len(Schemes) /\ Schemes[i] = "ca"
         /\ outcomes' = IF reply.by = "ca" THEN With(outs, "status", "EValid") ELSE failed
         /\ validator' = waits("KErrNone") /\ client' = c
         /\ UNCHANGED scheme
      \/ /\ i <= Len(Schemes) /\ outcomes' = failed /\ client' = c
         /\ validator' = waits("pending")
         /\ \/ scheme' = starts("EValidateCertChain")
            \/ \E n \in 0 .. MaxEntries :
                  scheme' = [starts("EListCertEntries") EXCEPT !.left = n]
            \/ scheme' = [starts("EOnChainValidation") EXCEPT !.chain = TRUE]
            \/ \E n \in 0 .. MaxEntries :
                  scheme' = [starts("ERetrieveNext") EXCEPT !.left = n]
      \/ /\ i <= Len(Schemes) /\ outcomes' = failed /\ client' = c
         /\ validator' = waits("KErrNone") /\ UNCHANGED scheme
  BY Zenon DEF ProcessScheme
<1>9. InHand(responses', outcomes')
  <2>1. CASE outcomes' = outs \/ outcomes' = failed
    BY <2>1, <1>3
  <2>2. CASE i <= N /\ Schemes[i] = "ca" /\ reply.by = "ca" /\ outcomes' = With(outs, "status", "EValid")
    <3>1. i \in DOMAIN Schemes
      BY <2>2, <1>1, OcspAssumption
    <3>2. Accepted(resps, Len(resps))
      BY <3>1, <2>2 DEF Accepted
    <3>3. "EValid" \in OutcomeStatus
      BY DEF OutcomeStatus
    <3> QED  BY <3>2, <3>3, <2>2, WithStatus
  <2> HIDE DEF failed, waits, starts, done
  <2>3. outcomes' = outs \/ outcomes' = failed \/
        (i <= N /\ Schemes[i] = "ca" /\ reply.by = "ca" /\ outcomes' = With(outs, "status", "EValid"))
    <3>1. CASE reply.by = "ca"
      BY <1>8, <3>1
    <3>2. CASE reply.by # "ca"
      BY <1>8, <3>2
    <3> QED  BY <3>1, <3>2
  <2> QED  BY <2>1, <2>2, <2>3
<1> HIDE DEF failed, waits, starts, done
<1>10. CASE validator' = done /\ UNCHANGED scheme
  <2>1. PICK code \in {"KErrNone", "KErrGeneral"} : client' = [c EXCEPT !.status = code]
    BY <1>8, <1>10, <1>5, <1>4, CodesAreStatus
  <2>2. client' \in ClientType /\ client'.active /\ client'.state = "EValidatingResponse"
        /\ client'.status # "pending"
    BY <2>1, <1>7
  <2> QED  BY <1>1, <1>4, <1>9, <1>10, <2>2, ValidationGoesOn
<1>11. CASE i <= N /\ validator' = waits("KErrNone") /\ client' = c /\ UNCHANGED scheme
  <2>1. /\ validator' \in ValidatorType /\ validator'.active /\ validator'.status = "KErrNone"
        /\ validator'.scheme \in 1 .. N /\ validator'.state = "EWaitingResponse"
    BY <1>5, <1>11, CodesAreStatus
  <2> QED  BY <1>1, <1>2, <1>9, <1>11, <2>1, ValidationGoesOn
<1>12. CASE /\ i <= N /\ validator' = waits("pending") /\ client' = c
            /\ \/ scheme' = starts("EValidateCertChain")
               \/ \E n \in 0 .. MaxEntries :
                     scheme' = [starts("EListCertEntries") EXCEPT !.left = n]
               \/ scheme' = [starts("EOnChainValidation") EXCEPT !.chain = TRUE]
               \/ \E n \in 0 .. MaxEntries :
                     scheme' = [starts("ERetrieveNext") EXCEPT !.left = n]
  <2>1. /\ validator' \in ValidatorType /\ validator'.active /\ validator'.status = "pending"
        /\ validator'.scheme \in 1 .. N /\ validator'.state = "EWaitingResponse"
    BY <1>5, <1>12, CodesAreStatus
  <2>2. scheme' \in SchemeType /\ scheme'.active
    BY <1>6, <1>12
  <2> QED  BY <1>1, <1>2, <1>9, <1>12, <2>1, <2>2, ValidationGoesOn
<1> QED  BY <1>8, <1>10, <1>11, <1>12

LEMMA ValidatorWaits ==
    ASSUME Working, Alive, validator.active
    PROVE  client.active /\ client.state = "EValidatingResponse" /\ client.status = "pending"
BY DEF Working, ChainOfWaits

\* The scheme goes on, or the validator has its answer.
LEMMA SchemeGoesOn ==
    ASSUME Working, Recorded, Alive, scheme.active,
           UNCHANGED <<params, app, client, responses, summary, tx, transport, fault>>,
           InHand(responses, outcomes'), scheme' \in SchemeType, validator' \in ValidatorType,
           validator'.active, validator'.state = validator.state,
           validator'.scheme = validator.scheme,
           scheme'.active <=> validator'.status = "pending"
    PROVE  Working' /\ Recorded'
<1>1. /\ validator.active /\ validator.state = "EWaitingResponse"
      /\ Quiet
  BY NobodyAsks DEF Working, ChainOfWaits, Owners
<1>2. client.active /\ client.state = "EValidatingResponse" /\ client.status = "pending"
  BY <1>1, ValidatorWaits
<1>3. /\ validator.scheme \in 1 .. Len(Schemes) /\ client \in ClientType
      /\ Reply.verdict \in {"stale", "mismatch", "missing", "ok"}
  BY <1>1, Typed DEF Working, Counted
<1>4. Reply' = Reply
  BY DEF Reply
<1> QED  BY <1>1, <1>2, <1>3, <1>4, ValidationGoesOn

LEMMA SchemeEndsKeeps ==
    ASSUME Working, Recorded, Alive, scheme.active,
           UNCHANGED <<params, app, client, responses, summary, tx, transport, fault>>,
           NEW code \in Codes, NEW outs, SchemeEnds(code, outs),
           outs = outcomes \/ (outs = With(outcomes, "status", "EValid") /\ Reply.by = Kind)
    PROVE  Working' /\ Recorded'
<1>1. validator.active /\ validator.state = "EWaitingResponse"
  BY DEF Working, ChainOfWaits
<1>2. InHand(responses, outcomes)
  BY <1>1, ValidatorWaits, RecordsInHand DEF Working
<1>3. validator.scheme \in 1 .. Len(Schemes) /\ validator \in ValidatorType /\ scheme \in SchemeType
  BY <1>1, Typed DEF Working, Counted
<1>4. InHand(responses, outcomes')
  <2>1. CASE outs = outcomes
    BY <2>1, <1>2 DEF SchemeEnds
  <2>2. CASE outs = With(outcomes, "status", "EValid") /\ Reply.by = Kind
    <3>1. validator.scheme \in DOMAIN Schemes
      BY <1>3, OcspAssumption
    <3>2. Accepted(responses, Len(responses))
      BY <3>1, <2>2 DEF Accepted, Reply, Kind
    <3>3. "EValid" \in OutcomeStatus
      BY DEF OutcomeStatus
    <3> QED  BY <3>2, <3>3, <2>2, <1>2, WithStatus DEF SchemeEnds
  <2> QED  BY <2>1, <2>2
<1>5. scheme' \in SchemeType /\ scheme'.active = FALSE
  BY <1>3 DEF SchemeEnds, SchemeType
<1>6. /\ validator' \in ValidatorType /\ validator'.active = validator.active
      /\ validator'.state = validator.state /\ validator'.scheme = validator.scheme
      /\ validator'.status # "pending"
  BY <1>3, CodesAreStatus DEF SchemeEnds, ValidatorType
<1> QED  BY <1>1, <1>4, <1>5, <1>6, SchemeGoesOn

\* It does so without an answer.
LEMMA SchemeStaysKeeps ==
    ASSUME Working, Recorded, Alive, scheme.active, scheme' \in SchemeType, scheme'.active,
           UNCHANGED <<params, app, client, responses, outcomes, summary, tx, transport,
                       validator, fault>>
    PROVE  Working' /\ Recorded'
<1>1. /\ validator.active /\ validator.status = "pending" /\ validator \in ValidatorType
  BY Typed DEF Working, ChainOfWaits
<1>2. InHand(responses, outcomes)
  BY <1>1, ValidatorWaits, RecordsInHand DEF Working
<1> QED  BY <1>1, <1>2, SchemeGoesOn

LEMMA SchemeRunLKeeps == ASSUME Working, Recorded, SchemeRunL PROVE Working' /\ Recorded'
<1> DEFINE accepted == With(outcomes, "status", "EValid")
           retrieves == [scheme EXCEPT !.state = "ERetrievingEntry", !.left = @ - 1,
                                       !.status = "pending"]
           validates == [scheme EXCEPT !.state = "EOnChainValidation", !.chain = TRUE,
                                       !.status = "pending"]
<1>1. /\ Alive /\ scheme.active /\ scheme.status \in Codes /\ scheme \in SchemeType
      /\ UNCHANGED <<params, app, client, responses, summary, tx, transport, fault>>
      /\ MaxEntries \in Nat
  BY Typed, CodesAreStatus, OcspAssumption DEF SchemeRunL, Ready, Working, SchemeType
<1>2. ASSUME NEW code \in Codes, SchemeEnds(code, outcomes) PROVE Working' /\ Recorded'
  BY <1>1, <1>2, SchemeEndsKeeps
<1>3. ASSUME Reply.by = Kind, SchemeEnds("KErrNone", accepted)
      PROVE  Working' /\ Recorded'
  BY <1>1, <1>3, SchemeEndsKeeps, CodesAreStatus
<1>4. ASSUME SchemeWaits("ERetrieveNext", TRUE) PROVE Working' /\ Recorded'
  <2>1. scheme' \in SchemeType /\ scheme'.active = TRUE /\ UNCHANGED <<outcomes, validator>>
    BY <1>1, <1>4, CodesAreStatus DEF SchemeWaits, SchemeType
  <2> QED  BY <1>1, <2>1, SchemeStaysKeeps
<1>5. ASSUME scheme.left # 0, scheme' = retrieves, UNCHANGED <<outcomes, validator>>
      PROVE  Working' /\ Recorded'
  <2>1. scheme.left - 1 \in 0 .. MaxEntries
    BY <1>1, <1>5 DEF SchemeType
  <2>2. scheme' \in SchemeType /\ scheme'.active = scheme.active
    BY <1>1, <1>5, <2>1, CodesAreStatus DEF SchemeType
  <2> QED  BY <1>1, <1>5, <2>2, SchemeStaysKeeps
<1>6. ASSUME scheme' = validates, UNCHANGED <<outcomes, validator>>
      PROVE  Working' /\ Recorded'
  <2>1. scheme' \in SchemeType /\ scheme'.active = scheme.active
    BY <1>1, <1>6, CodesAreStatus DEF SchemeType
  <2> QED  BY <1>1, <1>6, <2>1, SchemeStaysKeeps
<1>7. {"KErrNone", "KErrGeneral", "EChainError", "EResponseSignatureValidationFailure"} \subseteq Codes
  BY DEF Codes, Errors, States
<1>8. CASE Kind = "direct" /\ DirectRunL
  <2>1. \/ Reply.by = Kind /\ SchemeEnds("KErrNone", accepted)
        \/ SchemeEnds("KErrNone", outcomes)
        \/ SchemeWaits("ERetrieveNext", TRUE)
        \/ scheme.left # 0 /\ scheme' = retrieves /\ UNCHANGED <<outcomes, validator>>
        \/ SchemeEnds("KErrGeneral", outcomes)
    BY <1>8, Zenon DEF DirectRunL
  <2> QED  BY <2>1, <1>2, <1>3, <1>4, <1>5, <1>7
<1>9. CASE Kind = "delegate" /\ DelegateRunL
  <2>1. \/ Reply.by = Kind /\ SchemeEnds("KErrNone", accepted)
        \/ SchemeEnds("EChainError", outcomes)
        \/ SchemeEnds("EResponseSignatureValidationFailure", outcomes)
        \/ scheme.left # 0 /\ scheme' = retrieves /\ UNCHANGED <<outcomes, validator>>
        \/ scheme' = validates /\ UNCHANGED <<outcomes, validator>>
        \/ SchemeWaits("ERetrieveNext", TRUE)
        \/ SchemeEnds("KErrGeneral", outcomes)
        \/ SchemeEnds(scheme.status, outcomes)
    BY <1>9, Zenon DEF DelegateRunL
  <2> QED  BY <2>1, <1>1, <1>2, <1>3, <1>4, <1>5, <1>6, <1>7
<1> QED  BY <1>8, <1>9 DEF SchemeRunL

LEMMA SchemeAnswersKeeps == ASSUME Working, Recorded, SchemeAnswers PROVE Working' /\ Recorded'
<1>1. PICK e \in {"KErrNone", "KErrGeneral", "KErrArgument"} : scheme' = [scheme EXCEPT !.status = e]
  BY DEF SchemeAnswers
<1>2. e \in Status
  BY DEF Status, Codes, Errors
<1>3. scheme' \in SchemeType /\ scheme'.active = scheme.active
  BY <1>1, <1>2, Typed DEF SchemeType, Working
<1> QED  BY <1>3, SchemeStaysKeeps DEF SchemeAnswers

LEMMA JudgedInHand ==
    ASSUME NEW resps, NEW outs, InHand(resps, outs), NEW reply,
           reply = resps[Len(resps)], reply.verdict \in {"stale", "mismatch", "missing", "ok"},
           reply \in Replies \union {NoReply}, Accepted(resps, Len(resps))
    PROVE  InHand(resps, Judged(reply, outs))
<1>1. reply.says \in Results
  BY OcspAssumption DEF ReplyType, NoReply, Results
<1>2. {"EThisUpdateTooEarly", "ENonceMismatch", "EMissingNonce"} \subseteq OutcomeStatus
  BY DEF OutcomeStatus
<1>3. CASE reply.verdict = "stale"
  <2>1. Judged(reply, outs) = With(outs, "status", "EThisUpdateTooEarly")
    BY <1>3 DEF Judged
  <2> QED  BY <2>1, <1>2, WithStatus
<1>4. CASE reply.verdict = "mismatch"
  <2>1. Judged(reply, outs) = With(outs, "status", "ENonceMismatch")
    BY <1>4 DEF Judged
  <2> QED  BY <2>1, <1>2, WithStatus
<1>5. CASE reply.verdict = "missing"
  <2>1. Judged(reply, outs) = With(With(outs, "status", "EMissingNonce"), "result", reply.says)
    BY <1>5 DEF Judged
  <2>2. InHand(resps, With(outs, "status", "EMissingNonce"))
    BY <1>2, WithStatus
  <2>3. reply.says # "EGood" \/ Good(resps, Len(resps))
    BY <1>5 DEF Good
  <2> QED  BY <1>1, <2>1, <2>2, <2>3, WithResult
<1>6. CASE reply.verdict = "ok"
  <2>1. Judged(reply, outs) = With(outs, "result", reply.says)
    BY <1>6 DEF Judged
  <2>2. reply.says # "EGood" \/ Good(resps, Len(resps))
    BY <1>6 DEF Good
  <2> QED  BY <1>1, <2>1, <2>2, WithResult
<1> QED  BY <1>3, <1>4, <1>5, <1>6

LEMMA ValidatorEndsKeeps ==
    ASSUME Working, Recorded, Alive, validator.active, validator.status # "pending",
           NEW code \in Codes, ValidatorEnds(code), InHand(responses, outcomes'),
           UNCHANGED <<params, app, responses, summary, tx, transport, scheme, fault>>
    PROVE  Working' /\ Recorded'
<1>1. /\ Quiet /\ ~scheme.active /\ client.active /\ client.state = "EValidatingResponse"
      /\ client \in ClientType /\ validator \in ValidatorType /\ scheme \in SchemeType
  BY NobodyWorks, ValidatorWaits, Typed DEF Working
<1>2. validator' \in ValidatorType /\ validator'.active = FALSE
  BY <1>1 DEF ValidatorEnds, ValidatorType
<1>3. client' \in ClientType /\ client'.active = client.active /\ client'.state = client.state
      /\ client'.status = code /\ code # "pending"
  BY <1>1, CodesAreStatus DEF ValidatorEnds, ClientType
<1> QED  BY <1>1, <1>2, <1>3, ValidationGoesOn

\* The certificate of the responder is asked about.
LEMMA ResponderAskedKeeps ==
    ASSUME Working, Recorded, Alive, validator.active, validator.status # "pending",
           InHand(responses, outcomes'), params.responder,
           validator' = [validator EXCEPT !.state = "EValidateResponderCert",
                                          !.status = "pending"],
           tx' = [tx EXCEPT !["validator"] = Started],
           UNCHANGED <<params, app, client, responses, summary, transport, scheme, fault>>
    PROVE  Working' /\ Recorded'
<1>1. /\ Quiet /\ ~scheme.active /\ client.active /\ client.state = "EValidatingResponse"
      /\ client.status = "pending" /\ client \in ClientType /\ validator \in ValidatorType
      /\ scheme \in SchemeType /\ tx \in [Owners -> TxType] /\ app = "pending"
      /\ validator.scheme \in 1 .. Len(Schemes)
      /\ Reply.verdict \in {"stale", "mismatch", "missing", "ok"}
  BY NobodyWorks, ValidatorWaits, Typed, TxTyped DEF Working, ChainOfWaits, Counted
<1>2. /\ validator' \in ValidatorType /\ validator'.active = validator.active
      /\ validator'.state = "EValidateResponderCert" /\ validator'.status = "pending"
      /\ validator'.scheme = validator.scheme
  BY <1>1, CodesAreStatus DEF ValidatorType
<1>3. params.retry \in 1 .. MaxRetry
  BY DEF Working, TypeOK
<1>4. /\ Started \in TxType /\ Started.active /\ Started.state = "ESendRequest"
      /\ Started.left > 0 /\ Started.status = "KErrNone"
  BY <1>3, OcspAssumption, CodesAreStatus DEF Started, TxType
<1>5. /\ tx' \in [Owners -> TxType] /\ tx'["validator"] = Started
      /\ tx'["client"] = tx["client"] /\ ~tx["client"].active
  BY <1>1, <1>4 DEF Owners, Quiet
<1>6. Reply' = Reply
  BY DEF Reply
<1>7. TypeOK'
  BY <1>2, <1>5 DEF Working, TypeOK, TxType, ValidatorType, OutcomeType, InHand
<1>8. Counted'
  BY <1>1, <1>2, <1>4, <1>5, <1>6 DEF Working, Counted, Owners, Quiet
<1>9. ChainOfWaits'
  BY <1>1, <1>2, <1>4, <1>5 DEF Working, ChainOfWaits, Alive, Quiet, Owners
<1>10. Recorded'
  BY <1>1 DEF Recorded, Phased, Summed, Proved, Founded, InHand, WorstAmong, Good, Accepted
<1> QED  BY <1>7, <1>8, <1>9, <1>10 DEF Working

LEMMA FinalResponseValidationKeeps ==
    ASSUME Working, Recorded, Alive, validator.active, validator.status # "pending",
           outcomes[Len(outcomes)].status = "EValid", FinalResponseValidation,
           UNCHANGED <<params, app, responses, summary, transport, scheme, fault>>
    PROVE  Working' /\ Recorded'
<1> DEFINE judged == Judged(Reply, outcomes)
           checks(code) == [validator EXCEPT !.state = "EValidateResponderCert", !.status = code]
<1>1. /\ Quiet /\ ~scheme.active /\ client.active /\ client.state = "EValidatingResponse"
      /\ client.status = "pending" /\ client \in ClientType /\ validator \in ValidatorType
      /\ scheme \in SchemeType /\ validator.scheme \in 1 .. Len(Schemes)
      /\ Reply.verdict \in {"stale", "mismatch", "missing", "ok"}
  BY NobodyWorks, ValidatorWaits, Typed DEF Working, Counted
<1>2. InHand(responses, outcomes)
  BY <1>1, RecordsInHand DEF Working
<1>3. Accepted(responses, Len(responses)) /\ Reply \in Replies \union {NoReply}
  BY <1>2 DEF InHand, Founded, Reply
<1>4. InHand(responses, judged)
  BY <1>1, <1>2, <1>3, JudgedInHand DEF Reply
<1>5. InHand(responses, With(judged, "status", "ENoServerSpecified"))
  <2>1. "ENoServerSpecified" \in OutcomeStatus
    BY DEF OutcomeStatus, States
  <2> HIDE DEF judged
  <2> QED  BY <1>4, <2>1, WithStatus
<1>6. Reply' = Reply
  BY DEF Reply
<1> HIDE DEF judged
<1>7. CASE /\ params.responder /\ UNCHANGED <<client, tx>>
           /\ outcomes' = With(judged, "status", "ENoServerSpecified")
           /\ validator' = checks("ENoServerSpecified")
  <2>1. /\ validator' \in ValidatorType /\ validator'.active = validator.active
        /\ validator'.state = "EValidateResponderCert" /\ validator'.status = "ENoServerSpecified"
        /\ validator'.scheme = validator.scheme
    BY <1>1, <1>7 DEF ValidatorType, Status, Codes, States
  <2> QED  BY <1>1, <1>5, <1>6, <1>7, <2>1, ValidationGoesOn
<1>8. CASE /\ params.responder /\ UNCHANGED client /\ outcomes' = judged
           /\ validator' = checks("pending") /\ tx' = [tx EXCEPT !["validator"] = Started]
  BY <1>4, <1>8, ResponderAskedKeeps
<1>9. ASSUME NEW code \in Codes, outcomes' = judged, ValidatorEnds(code), UNCHANGED tx
      PROVE  Working' /\ Recorded'
  BY <1>4, <1>9, ValidatorEndsKeeps
<1>10. "KErrNone" \in Codes /\ "KErrGeneral" \in Codes
  BY CodesAreStatus
<1>11. \/ outcomes' = judged /\ ValidatorEnds("KErrNone") /\ UNCHANGED tx
       \/ /\ params.responder /\ UNCHANGED <<client, tx>>
          /\ outcomes' = With(judged, "status", "ENoServerSpecified")
          /\ validator' = checks("ENoServerSpecified")
       \/ /\ params.responder /\ UNCHANGED client /\ outcomes' = judged
          /\ validator' = checks("pending") /\ tx' = [tx EXCEPT !["validator"] = Started]
       \/ outcomes' = judged /\ ValidatorEnds("KErrGeneral") /\ UNCHANGED tx
  BY DEF FinalResponseValidation, judged
<1> HIDE DEF checks
<1> QED  BY <1>7, <1>8, <1>9, <1>10, <1>11

LEMMA ValidatorRunLKeeps == ASSUME Working, Recorded, ValidatorRunL PROVE Working' /\ Recorded'
<1>1. /\ Alive /\ validator.active /\ validator.status # "pending" /\ validator.status \in Codes
      /\ UNCHANGED <<params, app, responses, summary, transport, fault>>
  BY Typed, CodesAreStatus DEF ValidatorRunL, Ready, Working, ValidatorType
<1>2. /\ Quiet /\ ~scheme.active /\ client.active /\ client.state = "EValidatingResponse"
      /\ client.status = "pending" /\ client \in ClientType /\ validator \in ValidatorType
      /\ scheme \in SchemeType /\ validator.scheme \in 1 .. Len(Schemes)
      /\ Reply.verdict \in {"stale", "mismatch", "missing", "ok"}
  BY <1>1, NobodyWorks, ValidatorWaits, Typed DEF Working, Counted
<1>3. InHand(responses, outcomes)
  BY <1>2, RecordsInHand DEF Working
<1>4. CASE ValidatorEnds(validator.status) /\ UNCHANGED <<outcomes, scheme, tx>>
  BY <1>1, <1>3, <1>4, ValidatorEndsKeeps
<1>5. CASE /\ validator.state = "EWaitingResponse" /\ UNCHANGED scheme
           /\ outcomes[Len(outcomes)].status = "EValid" /\ FinalResponseValidation
  BY <1>1, <1>5, FinalResponseValidationKeeps
<1>6. CASE /\ validator' = [validator EXCEPT !.state = "EValidating", !.status = "KErrNone"]
           /\ UNCHANGED <<client, outcomes, tx, scheme>>
  <2>1. /\ validator' \in ValidatorType /\ validator'.active = validator.active
        /\ validator'.state = "EValidating" /\ validator'.scheme = validator.scheme
    BY <1>2, <1>6, CodesAreStatus DEF ValidatorType
  <2>2. Reply' = Reply
    BY <1>1 DEF Reply
  <2> QED  BY <1>1, <1>2, <1>3, <1>6, <2>1, <2>2, ValidationGoesOn
<1>7. CASE ProcessScheme(validator.scheme + 1, Reply, outcomes, client) /\ UNCHANGED tx
  <2>1. validator.scheme + 1 \in 1 .. Len(Schemes) + 1
    BY <1>2, OcspAssumption
  <2>2. Reply = responses[Len(responses)]
    BY DEF Reply
  <2> QED  BY <1>1, <1>2, <1>3, <1>7, <2>1, <2>2, ProcessSchemeKeeps
<1>8. CASE /\ validator.state = "EValidateResponderCert" /\ ValidateResponderCert
           /\ UNCHANGED scheme
  <2>1. params.responder
    BY <1>1, <1>8 DEF Working, Counted
  <2>2. InHand(responses, outcomes')
    BY <1>3, <1>8, <2>1, WithResult DEF ValidateResponderCert, Results
  <2> QED  BY <1>1, <1>8, <2>2, ValidatorEndsKeeps DEF ValidateResponderCert
<1> QED  BY <1>4, <1>5, <1>6, <1>7, <1>8 DEF ValidatorRunL
-----------------------------------------------------------------------------
(* The client. *)

\* The records while no outcome is in hand: s is the worst of outs.
Settled(resps, outs, s) ==
    /\ resps \in Seq(Replies \union {NoReply}) /\ outs \in Seq(OutcomeType)
    /\ Len(outs) = Len(resps) /\ Len(resps) <= params.certs
    /\ Founded(resps, outs) /\ s \in Results
    /\ WorstAmong(outs, s, Len(outs))

\* The worse of two results stays the worst when it is taken in.
LEMMA Settling ==
    ASSUME NEW resps, NEW outs, InHand(resps, outs), summary \in Results,
           NEW s, s = IF Worse(outs[Len(outs)].result, summary)
                      THEN outs[Len(outs)].result ELSE summary
    PROVE  Settled(resps, outs, s)
<1> DEFINE n == Len(outs)
<1>1. n \in Nat \ {0} /\ outs \in Seq(OutcomeType) /\ DOMAIN outs = 1 .. n
  BY DEF InHand
<1>2. \A o \in OutcomeType : o.result \in Results
  BY DEF OutcomeType
<1>3. n \in Nat \ {0} /\ outs[n] \in OutcomeType /\ outs[n].result \in Results
  BY <1>1, <1>2
<1>4. \A i \in 1 .. (n - 1) : ~Worse(outs[i].result, summary)
  BY DEF InHand, WorstAmong
<1>5. \A i \in 1 .. (n - 1) : outs[i].result \in Results
  <2>1. \A i \in 1 .. (n - 1) : outs[i] \in OutcomeType
    BY <1>1
  <2> QED  BY <2>1, <1>2
<1>6. summary = "EGood" \/ \E i \in 1 .. (n - 1) : outs[i].result = summary
  BY DEF InHand, WorstAmong
<1> HIDE DEF n
<1>7. s \in Results /\ (s = outs[n].result \/ s = summary)
  BY <1>3 DEF n
<1>8. \A i \in 1 .. n : ~Worse(outs[i].result, s)
  <2> SUFFICES ASSUME NEW i \in 1 .. n PROVE ~Worse(outs[i].result, s)
    OBVIOUS
  <2>1. CASE i = n
    BY <1>3, <2>1 DEF Worse, Results, n
  <2>2. CASE i # n
    <3>1. ~Worse(outs[i].result, summary) /\ outs[i].result \in Results
      BY <1>3, <1>4, <1>5, <2>2
    <3> QED  BY <3>1, <1>3 DEF Worse, Results, n
  <2> QED  BY <2>1, <2>2
<1>9. s = "EGood" \/ \E i \in 1 .. n : outs[i].result = s
  <2>1. CASE s = outs[n].result
    BY <1>3, <2>1
  <2>2. CASE s = summary
    BY <1>3, <1>6, <2>2
  <2> QED  BY <1>7, <2>1, <2>2
<1> QED  BY <1>7, <1>8, <1>9 DEF Settled, InHand, WorstAmong, n

\* The check goes on with the next certificate.
LEMMA SendRequestKeeps ==
    ASSUME Working, Alive, Quiet, ~scheme.active, ~validator.active,
           Settled(responses', outcomes', summary'), Len(responses') < params.certs,
           SendRequest, app' = "pending",
           UNCHANGED <<params, transport, validator, scheme, fault>>
    PROVE  /\ Working' /\ Recorded'
           /\ client'.state = "ESendingRequest"
<1>1. /\ validator \in ValidatorType /\ scheme \in SchemeType /\ tx \in [Owners -> TxType]
      /\ params.retry \in 1 .. MaxRetry
  BY Typed, TxTyped DEF Working, TypeOK
<1>2. /\ Started \in TxType /\ Started.active /\ Started.state = "ESendRequest"
      /\ Started.left > 0
  BY <1>1, OcspAssumption, CodesAreStatus DEF Started, TxType
<1>3. PICK code \in Status :
        /\ client' = Waiting("ESendingRequest", code)
        /\ \/ code = "pending" /\ tx' = [tx EXCEPT !["client"] = Started]
           \/ code # "pending" /\ tx' = tx
  BY CodesAreStatus DEF SendRequest, States
<1>4. /\ client' \in ClientType /\ client'.active /\ client'.state = "ESendingRequest"
      /\ client'.status = code
  BY <1>3 DEF Waiting, ClientType
<1>5. /\ tx' \in [Owners -> TxType] /\ tx'["validator"] = tx["validator"]
      /\ ~tx'["validator"].active
      /\ tx'["client"].active <=> code = "pending"
      /\ tx'["client"].active => tx'["client"].left > 0 /\ tx'["client"].state = "ESendRequest"
  BY <1>1, <1>2, <1>3 DEF Owners, Quiet
<1>6. TypeOK'
  BY <1>4, <1>5 DEF Working, TypeOK, TxType, ClientType, OutcomeType, Settled, Status
<1>7. Counted'
  BY <1>5 DEF Working, Counted, Owners, Quiet
<1>8. ChainOfWaits'
  BY <1>4, <1>5 DEF Working, ChainOfWaits, Alive, Quiet, Owners
<1>9. Recorded'
  BY <1>4 DEF Recorded, Phased, Summed, Proved, Founded, Settled, WorstAmong, Good, Accepted
<1> QED  BY <1>4, <1>6, <1>7, <1>8, <1>9 DEF Working

\* The check is over.
LEMMA ClientEndsKeeps ==
    ASSUME Working, Alive, Quiet, ~scheme.active, ~validator.active,
           NEW state, NEW code, ClientEnds(state, code),
           \/ /\ state = "EHaveResult" /\ code = "KErrNone"
              /\ Settled(responses', outcomes', summary') /\ Len(responses') = params.certs
           \/ /\ state = "EError" /\ code \in Errors \union {"KErrNoCertificates"}
              /\ Recorded /\ UNCHANGED <<responses, outcomes, summary>>,
           UNCHANGED <<params, tx, transport, validator, scheme, fault>>
    PROVE  /\ Working' /\ Recorded'
           /\ client'.state = state
<1>1. client \in ClientType
  BY Typed DEF Working
<1>2. client' \in ClientType /\ client'.active = FALSE /\ client'.state = state
  BY <1>1 DEF ClientEnds, ClientType
<1>3. app' = code /\ code \notin {"none", "pending"}
  BY DEF ClientEnds, Errors
<1>4. TypeOK'
  <2>1. app' \in {"none", "KErrNoCertificates"} \union Status
    BY <1>3, CodesAreStatus
  <2>2. /\ responses' \in Seq(Replies \union {NoReply}) /\ Len(responses') <= params.certs
        /\ outcomes' \in Seq([status : OutcomeStatus, result : Results])
        /\ summary' \in Results
    BY DEF Working, TypeOK, Settled, OutcomeType
  <2> QED  BY <1>2, <2>1, <2>2 DEF Working, TypeOK, ClientType
<1>5. Counted'
  BY DEF Working, Counted
<1>6. ChainOfWaits'
  BY <1>2, <1>3 DEF Working, ChainOfWaits, Alive, Quiet, Owners
<1>7. Recorded'
  <2>1. CASE state = "EHaveResult"
    BY <1>2, <1>3, <2>1 DEF Recorded, Phased, Summed, Proved, Founded, Settled, WorstAmong,
                            Good, Accepted
  <2>2. CASE state = "EError"
    BY <1>2, <1>3, <2>2 DEF Recorded, Phased, Summed, Proved, Founded, WorstAmong, Good,
                            Accepted, Errors
  <2> QED  BY <2>1, <2>2
<1> QED  BY <1>2, <1>4, <1>5, <1>6, <1>7 DEF Working

LEMMA ResponseValidatedKeeps ==
    ASSUME Working, Recorded, Alive, client.active, client.status # "pending",
           NEW resps, NEW outs, InHand(resps, outs), ResponseValidated(resps, outs),
           UNCHANGED <<params, transport, validator, scheme, fault>>
    PROVE  /\ Working' /\ Recorded'
           /\ Settled(responses', outcomes', summary')
           /\ \/ app' = "pending" /\ client'.state = "ESendingRequest"
              \/ app' = "KErrNone" /\ client'.state = "EHaveResult"
<1>1. Quiet /\ ~scheme.active /\ ~validator.active /\ app = "pending"
  BY NobodyWorks DEF Working, ChainOfWaits
<1>2. summary \in Results /\ params.certs \in Nat
  BY OcspAssumption DEF Working, TypeOK
<1>3. Settled(responses', outcomes', summary')
  BY <1>2, Settling DEF ResponseValidated
<1>4. CASE Len(resps) < params.certs
  BY <1>1, <1>3, <1>4, SendRequestKeeps DEF ResponseValidated
<1>5. CASE ~(Len(resps) < params.certs)
  <2>1. Len(responses') = params.certs
    BY <1>2, <1>5 DEF InHand, ResponseValidated
  <2> QED  BY <1>1, <1>3, <1>5, <2>1, ClientEndsKeeps DEF ResponseValidated, ClientEnds
<1> QED  BY <1>4, <1>5

LEMMA CheckKeeps ==
    ASSUME Working, Recorded, Check
    PROVE  /\ Working' /\ Recorded'
           /\ client'.state # "EHaveResult"
           /\ app' \in {"pending", "KErrNoCertificates"}
<1>1. Alive /\ app = "none" /\ UNCHANGED <<params, responses, outcomes, summary, transport,
                                          validator, scheme, fault>>
  BY DEF Check
<1>2. ~client.active /\ client.state = "EInitial" /\ outcomes = << >> /\ params.certs \in Nat
  BY <1>1, OcspAssumption DEF Recorded, Phased, Working, ChainOfWaits, TypeOK
<1>3. Quiet /\ ~scheme.active /\ ~validator.active
  BY <1>1, <1>2, NobodyWorks
<1>4. Settled(responses', outcomes', summary')
  <2>1. Settled(responses, outcomes, summary)
    BY <1>2 DEF Working, TypeOK, Recorded, Phased, Summed, Proved, Settled, OutcomeType
  <2>2. responses' = responses /\ outcomes' = outcomes /\ summary' = summary
    BY <1>1
  <2> QED  BY <2>1, <2>2
<1>5. CASE params.certs = 0
  <2>1. ClientEnds("EError", "KErrNoCertificates") /\ UNCHANGED tx
    BY <1>5 DEF Check
  <2>2. /\ Working' /\ Recorded' /\ client'.state = "EError"
    BY <1>1, <1>3, <2>1, ClientEndsKeeps
  <2> QED  BY <2>1, <2>2 DEF ClientEnds
<1>6. CASE params.certs # 0
  <2>1. Len(responses') < params.certs
    BY <1>1, <1>2, <1>6 DEF Recorded, Phased
  <2> QED  BY <1>1, <1>3, <1>4, <1>6, <2>1, SendRequestKeeps DEF Check
<1> QED  BY <1>5, <1>6

LEMMA OutcomeStates ==
    /\ \A code \in States \union DOMAIN StateOf :
         code \in Codes /\ code # "KErrNone" /\ code # "pending"
    /\ \A code \in States :
         /\ code \in OutcomeStatus /\ code # "EValid"
    /\ \A code \in DOMAIN StateOf :
         StateOf[code] \in OutcomeStatus /\ StateOf[code] # "EValid"
<1>1. DOMAIN StateOf = {"KErrTransportFailure", "KErrServerNotFound", "KErrInvalidURI",
                        "KErrTransportTimeout"}
  BY DEF StateOf
<1>2. /\ StateOf["KErrTransportFailure"] = "ETransportError"
      /\ StateOf["KErrServerNotFound"] = "ETransportError"
      /\ StateOf["KErrInvalidURI"] = "EInvalidURI"
      /\ StateOf["KErrTransportTimeout"] = "ETimeOut"
  BY DEF StateOf
<1>3. \A code \in DOMAIN StateOf :
         StateOf[code] \in OutcomeStatus /\ StateOf[code] # "EValid"
  BY <1>1, <1>2 DEF OutcomeStatus
<1>4. \A code \in DOMAIN StateOf : code \in Codes /\ code # "KErrNone" /\ code # "pending"
  BY <1>1 DEF Codes, Errors
<1> QED  BY <1>3, <1>4, CodesAreStatus

LEMMA ClientRunLKeeps ==
    ASSUME Working, Recorded, ClientRunL
    PROVE  /\ Working' /\ Recorded'
           /\ \/ app' = app /\ client'.state # "EHaveResult"
              \/ app' \in Errors /\ client'.state # "EHaveResult"
              \/ /\ app' = "KErrNone" /\ client'.state = "EHaveResult"
                 /\ Settled(responses', outcomes', summary')
<1>1. /\ Alive /\ client.active /\ client.status # "pending" /\ client.status \in Codes
      /\ UNCHANGED <<params, transport, fault>> /\ client \in ClientType
  BY Typed, CodesAreStatus DEF ClientRunL, Ready, Working, ClientType
<1>2. Quiet /\ ~scheme.active /\ ~validator.active /\ app = "pending"
  BY <1>1, NobodyWorks DEF Working, ChainOfWaits
<1>3. ASSUME NEW code \in Errors, ClientEnds("EError", code),
             UNCHANGED <<responses, outcomes, summary, tx, validator, scheme>>
      PROVE  Working' /\ Recorded' /\ app' \in Errors /\ client'.state = "EError"
  BY <1>1, <1>2, <1>3, ClientEndsKeeps DEF ClientEnds
<1>4. ASSUME NEW resps, NEW outs, InHand(resps, outs), ResponseValidated(resps, outs),
             UNCHANGED <<validator, scheme>>
      PROVE  /\ Working' /\ Recorded' /\ Settled(responses', outcomes', summary')
             /\ \/ app' = "pending" /\ client'.state = "ESendingRequest"
                \/ app' = "KErrNone" /\ client'.state = "EHaveResult"
  BY <1>1, <1>4, ResponseValidatedKeeps
<1>5. CASE client.state = "EValidatingResponse" /\ ~(client.state = "ESendingRequest")
  <2>1. InHand(responses, outcomes)
    BY <1>5, RecordsInHand DEF Working
  <2>2. CASE client.status \in Errors
    BY <1>3, <1>5, <2>2 DEF ClientRunL
  <2>3. CASE client.status \notin Errors
    BY <1>2, <1>4, <1>5, <2>1, <2>3 DEF ClientRunL
  <2> QED  BY <2>2, <2>3
<1>6. CASE client.state = "ESendingRequest" /\ ResponseReceived
  <2>1. CASE client.status \in States \union DOMAIN StateOf
    <3> DEFINE state == IF client.status \in States THEN client.status
                        ELSE StateOf[client.status]
               out == [status |-> state, result |-> "EUnknown"]
    <3>1. state \in OutcomeStatus /\ state # "EValid"
      BY <2>1, OutcomeStates
    <3>2. out \in OutcomeType /\ out.status # "EValid" /\ out.result = "EUnknown"
      <4> HIDE DEF state
      <4> QED  BY <3>1 DEF OutcomeType, Results
    <3>3. InHand(Append(responses, NoReply), Append(outcomes, out))
      <4> HIDE DEF out
      <4> QED  BY <1>6, <3>2, AnswerInHand DEF Working
    <3>4. ResponseValidated(Append(responses, NoReply), Append(outcomes, out))
             /\ UNCHANGED <<validator, scheme>>
      BY <1>6, <2>1, CodesAreStatus, OutcomeStates DEF ResponseReceived
    <3> HIDE DEF out
    <3> QED  BY <1>2, <1>4, <3>3, <3>4
  <2>2. CASE client.status \in Errors \ DOMAIN StateOf
    BY <1>3, <1>6, <2>2, CodesAreStatus DEF ResponseReceived
  <2>3. CASE client.status = "KErrNone"
    <3> DEFINE out == [status |-> "EClientInternalError", result |-> "EUnknown"]
               outs == Append(outcomes, out)
               c(code) == Waiting("EValidatingResponse", code)
    <3>1. client.status \notin States \union DOMAIN StateOf /\ client.status \notin Errors
      BY <2>3, OutcomeStates, CodesAreStatus
    <3>2. /\ UNCHANGED <<app, summary, tx>>
          /\ \E reply \in Replies :
               /\ responses' = Append(responses, reply)
               /\ IF reply.verdict = "malformed"
                  THEN /\ outcomes' = With(outs, "status", "EMissingCertificates")
                       /\ client' = c("KErrNone")
                       /\ UNCHANGED <<validator, scheme>>
                  ELSE ProcessScheme(1, reply, outs, c("pending"))
      BY <1>6, <3>1 DEF ResponseReceived
    <3>3. PICK reply \in Replies :
               /\ responses' = Append(responses, reply)
               /\ IF reply.verdict = "malformed"
                  THEN /\ outcomes' = With(outs, "status", "EMissingCertificates")
                       /\ client' = c("KErrNone")
                       /\ UNCHANGED <<validator, scheme>>
                  ELSE ProcessScheme(1, reply, outs, c("pending"))
      BY <3>2
    <3>4. out \in OutcomeType /\ out.status # "EValid" /\ out.result = "EUnknown"
      BY DEF OutcomeType, Results, OutcomeStatus
    <3> HIDE DEF out
    <3> DEFINE resps == Append(responses, reply)
    <3>5. InHand(resps, outs) /\ resps[Len(resps)] = reply
      BY <1>6, <3>4, AnswerInHand DEF Working
    <3>6. /\ \A code \in Status : /\ c(code) \in ClientType /\ c(code).active
                                  /\ c(code).state = "EValidatingResponse"
                                  /\ c(code).status = code
      BY DEF Waiting, ClientType
    <3> HIDE DEF outs, resps, c
    <3>7. CASE reply.verdict = "malformed"
      <4>1. InHand(resps, With(outs, "status", "EMissingCertificates"))
        <5>1. "EMissingCertificates" \in OutcomeStatus
          BY DEF OutcomeStatus
        <5> QED  BY <3>5, <5>1, WithStatus
      <4>2. InHand(responses', outcomes')
        BY <3>3, <3>7, <4>1 DEF resps
      <4>3. /\ client' \in ClientType /\ client'.active /\ client'.state = "EValidatingResponse"
            /\ client'.status # "pending" /\ UNCHANGED <<validator, scheme>>
        BY <3>3, <3>6, <3>7, CodesAreStatus
      <4>4. validator \in ValidatorType /\ scheme \in SchemeType
        BY Typed DEF Working
      <4>5. Working' /\ Recorded'
        BY <1>1, <1>2, <3>2, <4>2, <4>3, <4>4, ValidationGoesOn
      <4> QED  BY <3>2, <4>3, <4>5
    <3>8. CASE reply.verdict # "malformed"
      <4>1. reply.verdict \in {"stale", "mismatch", "missing", "ok"}
        BY <3>8, OcspAssumption DEF ReplyType
      <4>2. ProcessScheme(1, reply, outs, c("pending")) /\ responses' = resps
        BY <3>3, <3>8 DEF resps
      <4>3. 1 \in 1 .. Len(Schemes) + 1
        BY OcspAssumption
      <4>4. Working' /\ Recorded'
        BY <1>1, <1>2, <3>2, <3>5, <3>6, <4>1, <4>2, <4>3, CodesAreStatus, ProcessSchemeKeeps
      <4>5. client'.state = "EValidatingResponse"
        <5>1. \E code \in Status : client' = [c("pending") EXCEPT !.status = code] \/ client' = c("pending")
          BY <4>2, CodesAreStatus DEF ProcessScheme
        <5> QED  BY <5>1, <3>6, CodesAreStatus DEF ClientType
      <4> QED  BY <3>2, <4>4, <4>5
    <3> QED  BY <3>7, <3>8
  <2> QED  BY <1>1, <2>1, <2>2, <2>3, CodesAreStatus
<1> QED  BY <1>5, <1>6 DEF ClientRunL

LEMMA CancelCheckKeeps ==
    ASSUME Working, Recorded, CancelCheck
    PROVE  /\ Working' /\ Recorded'
           /\ client'.state = client.state
           /\ app' = app \/ app' = "KErrCancel"
<1>1. /\ Alive /\ client.active /\ fault' = CancelFaults
      /\ UNCHANGED <<params, responses, outcomes, summary>>
      /\ client \in ClientType /\ validator \in ValidatorType /\ scheme \in SchemeType
      /\ tx \in [Owners -> TxType] /\ transport \in TransportType /\ app = "pending"
  BY Typed, TxTyped, TransportTyped DEF CancelCheck, Working, ChainOfWaits
<1>2. fault' \in {"none", "hang", "null"}
  BY <1>1 DEF CancelFaults
<1>3. CASE fault' = "none"
  <2>1. /\ app' = "KErrCancel"
        /\ client' = Stopped(client) /\ validator' = Stopped(validator)
        /\ scheme' = Stopped(scheme)
        /\ tx' = [tx EXCEPT !["client"] = Stopped(@)]
        /\ transport' = [Stopped(transport) EXCEPT !.callback = Null, !.http = FALSE,
                                                   !.timer = FALSE]
    BY <1>3 DEF CancelCheck
  <2>2. client' \in ClientType /\ client'.active = FALSE /\ client'.state = client.state
    BY <1>1, <2>1 DEF Stopped, ClientType
  <2>3. validator' \in ValidatorType /\ validator'.active = FALSE
    BY <1>1, <2>1 DEF Stopped, ValidatorType
  <2>4. scheme' \in SchemeType /\ scheme'.active = FALSE
    BY <1>1, <2>1 DEF Stopped, SchemeType
  <2>5. Stopped(tx["client"]) \in TxType /\ Stopped(tx["client"]).active = FALSE
    BY <1>1 DEF Stopped, TxType, Owners
  <2>6. /\ tx' \in [Owners -> TxType] /\ tx'["client"].active = FALSE
        /\ tx'["validator"] = tx["validator"]
    BY <1>1, <2>1, <2>5 DEF Owners
  <2>7. tx["validator"].active = FALSE
    BY <1>1, <1>3 DEF CancelFaults, Working, ChainOfWaits, Owners, TxType
  <2>8. Stopped(transport) \in TransportType /\ Stopped(transport).active = FALSE
    BY <1>1 DEF Stopped, TransportType
  <2>9. transport' \in TransportType /\ ~transport'.active /\ ~transport'.http /\ ~transport'.timer
    BY <2>1, <2>8 DEF TransportType
  <2>10. TypeOK'
    BY <1>1, <1>2, <2>1, <2>2, <2>3, <2>4, <2>6, <2>9, CodesAreStatus
       DEF Working, TypeOK, ClientType, ValidatorType, SchemeType, TxType, TransportType,
           Status, Codes, Errors
  <2>11. Counted'
    BY <2>3, <2>6, <2>7, <2>9 DEF Working, Counted, Owners
  <2>12. ChainOfWaits'
    BY <2>1, <2>2, <2>3, <2>4, <2>6, <2>7, <2>9 DEF ChainOfWaits, Owners
  <2>13. Recorded'
    BY <1>1, <2>1, <2>2 DEF Recorded, Phased, Summed, Proved, Founded, WorstAmong, Good, Accepted
  <2> QED  BY <2>1, <2>2, <2>10, <2>11, <2>12, <2>13 DEF Working
<1>4. CASE fault' # "none"
  <2>1. /\ client' = [client EXCEPT !.status = "KErrCancel"] \/ client' = client
        /\ UNCHANGED <<app, tx, transport, validator, scheme>>
    BY <1>4 DEF CancelCheck
  <2>2. client' \in ClientType /\ client'.active = client.active /\ client'.state = client.state
    BY <1>1, <2>1 DEF ClientType, Status, Codes, Errors
  <2>3. TypeOK' /\ Counted'
    BY <1>1, <1>2, <2>1, <2>2 DEF Working, TypeOK, ClientType, Counted, Reply
  <2>4. ChainOfWaits'
    BY <1>4 DEF ChainOfWaits, Alive
  <2>5. Recorded'
    BY <1>1, <2>1, <2>2, Frame
  <2> QED  BY <2>1, <2>2, <2>3, <2>4, <2>5 DEF Working
<1> QED  BY <1>3, <1>4
-----------------------------------------------------------------------------
(* The specification. *)

LEMMA KeptInit == Init => Kept
<1> SUFFICES ASSUME Init PROVE Kept
  OBVIOUS
<1>1. /\ client = [state |-> "EInitial", active |-> FALSE, status |-> "KErrNone"]
      /\ validator = [state |-> "none", active |-> FALSE, status |-> "KErrNone", scheme |-> 0]
      /\ scheme = [state |-> "none", active |-> FALSE, status |-> "KErrNone",
                   left |-> 0, chain |-> FALSE]
  BY DEF Init, Idle
<1>2. /\ client \in ClientType /\ client.state = "EInitial" /\ client.active = FALSE
      /\ validator \in ValidatorType /\ validator.active = FALSE
      /\ scheme \in SchemeType /\ scheme.active = FALSE
  BY <1>1, CodesAreStatus, OcspAssumption DEF ClientType, ValidatorType, SchemeType
<1>3. [state |-> "none", active |-> FALSE, status |-> "KErrNone", left |-> 0] \in TxType
  BY CodesAreStatus, OcspAssumption DEF TxType
<1>4. tx \in [Owners -> TxType] /\ \A o \in Owners : tx[o].active = FALSE
  BY <1>3 DEF Init
<1>5. transport \in TransportType /\ transport.active = FALSE /\ transport.http = FALSE
      /\ transport.timer = FALSE
  BY CodesAreStatus DEF Init, NoTransport, TransportType
<1>6. responses = << >> /\ outcomes = << >> /\ summary = "EGood" /\ app = "none" /\ params.certs \in Nat
  BY OcspAssumption DEF Init
<1>7. TypeOK
  BY <1>2, <1>4, <1>5, <1>6 DEF Init, TypeOK, ClientType, ValidatorType, SchemeType, TxType,
                                TransportType, Results
<1>8. Counted /\ ChainOfWaits
  BY <1>2, <1>4, <1>5, <1>6 DEF Counted, ChainOfWaits, Owners
<1>9. Recorded
  BY <1>2, <1>6 DEF Recorded, Phased, Summed, Proved, Founded, WorstAmong
<1> QED  BY <1>7, <1>8, <1>9 DEF Kept, Working, Recorded

\* The transport and the transactions keep the records as they are.
LEMMA AskingKeeps ==
    ASSUME Working, Recorded,
           \/ TransportRunL \/ Connected \/ HttpEnds \/ HttpTimedOut \/ TimerRun
           \/ \E o \in Owners : TransactionRunL(o)
    PROVE  /\ Working' /\ Recorded'
           /\ UNCHANGED <<params, app, outcomes, summary>> /\ client'.state = client.state
<1>1. CASE TransportRunL \/ Connected \/ HttpEnds \/ HttpTimedOut \/ TimerRun
  <2>1. Working'
    BY <1>1, TransportRunLKeeps, ConnectedKeeps, HttpEndsKeeps, HttpTimedOutKeeps
  <2>2. UNCHANGED <<params, app, client, responses, outcomes, summary>>
    BY <1>1 DEF TransportRunL, Connected, HttpEnds, HttpTimedOut, TimerRun
  <2> QED  BY <2>1, <2>2, Frame
<1>2. ASSUME NEW o \in Owners, TransactionRunL(o)
      PROVE  /\ Working' /\ Recorded'
             /\ UNCHANGED <<params, app, outcomes, summary>> /\ client'.state = client.state
  <2>1. Working' /\ client'.state = client.state /\ client'.active = client.active
    BY <1>2, TransactionRunLKeeps
  <2>2. UNCHANGED <<params, app, responses, outcomes, summary>>
    BY <1>2 DEF TransactionRunL
  <2> QED  BY <2>1, <2>2, Frame
<1> QED  BY <1>1, <1>2

LEMMA KeptStep == Kept /\ [Next]_vars => Kept'
<1> SUFFICES ASSUME Working, Recorded, [Next]_vars PROVE Working' /\ Recorded'
  BY DEF Kept, Working, Recorded
<1>1. CASE Check
  BY <1>1, CheckKeeps
<1>2. CASE CancelCheck
  BY <1>2, CancelCheckKeeps
<1>3. CASE ClientRunL
  BY <1>3, ClientRunLKeeps
<1>4. CASE ValidatorRunL
  BY <1>4, ValidatorRunLKeeps
<1>5. CASE SchemeRunL
  BY <1>5, SchemeRunLKeeps
<1>6. CASE SchemeAnswers
  BY <1>6, SchemeAnswersKeeps
<1>7. CASE \/ TransportRunL \/ Connected \/ HttpEnds \/ HttpTimedOut \/ TimerRun
           \/ \E o \in Owners : TransactionRunL(o)
  BY <1>7, AskingKeeps
<1>8. CASE UNCHANGED vars
  <2>1. Working'
    BY <1>8 DEF vars, Working, TypeOK, Counted, ChainOfWaits, Alive, Reply
  <2>2. Recorded'
    BY <1>8, Frame DEF vars
  <2> QED  BY <2>1, <2>2
<1> QED  BY <1>1, <1>2, <1>3, <1>4, <1>5, <1>6, <1>7, <1>8 DEF Next, RunL

\* The objects of a check keep their types, and no transaction runs out of the
\* attempts it was given.
THEOREM ChecksAreTyped == Spec => []TypeOK
<1>1. Kept => TypeOK
  BY DEF Kept
<1> QED  BY <1>1, KeptInit, KeptStep, PTL DEF Spec

\* Whoever waits is waited for by one object that works for it and no object
\* works for nobody, for any number of certificates, attempts and schemes: no
\* answer of HTTP, the timer, a scheme or a transaction is lost or given twice.
THEOREM NobodyWaitsInVain == Spec => []ChainOfWaits
<1>1. Kept => ChainOfWaits
  BY DEF Kept
<1> QED  BY <1>1, KeptInit, KeptStep, PTL DEF Spec

\* Without checks of responders no certificate is reported as good unless a
\* scheme has accepted a fresh reply to this request that says so.
THEOREM GoodHasProof == Spec => []GoodIsProved
<1>1. Kept => GoodIsProved
  BY DEF Kept, Proved, Founded, Good, Accepted, GoodIsProved
<1> QED  BY <1>1, KeptInit, KeptStep, PTL DEF Spec
-----------------------------------------------------------------------------
(* What the application sees is CertificateCheck. *)

\* Nothing of a check that the application sees.
LEMMA Unseen ==
    ASSUME Recorded, Recorded', UNCHANGED <<params, app>>,
           app = "KErrNone" => UNCHANGED <<outcomes, summary>>
    PROVE  UNCHANGED Checked!vars
<1>1. app = "KErrNone" <=> client.state = "EHaveResult"
  BY DEF Recorded, Phased
<1>2. app' = "KErrNone" <=> client'.state = "EHaveResult"
  BY DEF Recorded, Phased
<1> QED  BY <1>1, <1>2 DEF Checked!vars

\* While the validator or a scheme works the check is not over.
LEMMA WorkIsForClient ==
    ASSUME Working, Recorded, Alive, validator.active \/ scheme.active \/ client.active
    PROVE  app = "pending" /\ client.state # "EHaveResult" /\ client.active
BY DEF Working, ChainOfWaits, Recorded, Phased

LEMMA EndedIsReported ==
    ASSUME Working, Recorded, Recorded', client.active, app = "pending", UNCHANGED params,
           app' = "KErrNone", Settled(responses', outcomes', summary')
    PROVE  Checked!Report
<1> DEFINE n == Len(outcomes')  results == [i \in DOMAIN outcomes' |-> outcomes'[i].result]
<1>1. client'.state = "EHaveResult" /\ n = params.certs
  BY DEF Recorded, Phased
<1>2. outcomes' \in Seq(OutcomeType) /\ n \in Nat /\ DOMAIN outcomes' = 1 .. n
  BY DEF Settled
<1>3. DOMAIN results = 1 .. n /\ \A i \in 1 .. n : results[i] = outcomes'[i].result
  BY <1>2
<1>4. Len(results) = n
  BY <1>2
<1>5. Checked!WorstOf(summary', results)
  <2>1. \A i \in 1 .. n : ~Worse(outcomes'[i].result, summary')
    BY DEF Settled, WorstAmong
  <2>2. summary' = "EGood" \/ \E i \in 1 .. n : outcomes'[i].result = summary'
    BY DEF Settled, WorstAmong
  <2> HIDE DEF n, results
  <2> QED  BY <1>3, <2>1, <2>2 DEF Checked!WorstOf, Checked!Worse, Worse
<1>6. (IF client.state # "EHaveResult" THEN [results |-> << >>, summary |-> "none"]
       ELSE [results |-> [i \in DOMAIN outcomes |-> outcomes[i].result],
             summary |-> summary])' = [results |-> results, summary |-> summary']
  BY <1>1
<1> HIDE DEF results
<1> QED  BY <1>1, <1>4, <1>5, <1>6 DEF Checked!Report

LEMMA CheckStep == Kept /\ [Next]_vars => [Checked!Next]_Checked!vars
<1> SUFFICES ASSUME Kept, [Next]_vars PROVE [Checked!Next]_Checked!vars
  OBVIOUS
<1>1. Working /\ Recorded /\ Working' /\ Recorded'
  BY KeptStep DEF Kept, Working, Recorded
<1>2. ASSUME app \in {"none", "pending"}, UNCHANGED params,
             app' \in Errors \union {"KErrNoCertificates"}
      PROVE  Checked!Fail
  <2>1. client.state # "EHaveResult" /\ client'.state # "EHaveResult"
    BY <1>1, <1>2 DEF Recorded, Phased, Errors
  <2> QED  BY <1>2, <2>1 DEF Checked!Fail, Errors
<1>3. CASE Check
  <2>1. app = "none" /\ UNCHANGED params /\ app' \in {"pending", "KErrNoCertificates"}
    BY <1>1, <1>3, CheckKeeps DEF Check
  <2>2. CASE app' = "pending"
    <3>1. client.state # "EHaveResult" /\ client'.state # "EHaveResult"
      BY <1>1, <2>1, <2>2 DEF Recorded, Phased
    <3> QED  BY <2>1, <2>2, <3>1 DEF Checked!Next, Checked!Start
  <2>3. CASE app' = "KErrNoCertificates"
    BY <1>2, <2>1, <2>3 DEF Checked!Next
  <2> QED  BY <2>1, <2>2, <2>3
<1>4. CASE CancelCheck
  <2>1. Alive /\ client.active /\ UNCHANGED <<params, outcomes, summary>>
    BY <1>4 DEF CancelCheck
  <2>2. app = "pending"
    BY <1>1, <2>1, WorkIsForClient
  <2>3. app' = app \/ app' = "KErrCancel"
    BY <1>1, <1>4, CancelCheckKeeps
  <2>4. CASE app' = app
    BY <1>1, <2>1, <2>4, Unseen
  <2>5. CASE app' = "KErrCancel"
    BY <1>2, <2>1, <2>2, <2>5 DEF Checked!Next, Errors
  <2> QED  BY <2>3, <2>4, <2>5
<1>5. CASE ClientRunL
  <2>1. Alive /\ client.active /\ UNCHANGED params
    BY <1>5 DEF ClientRunL, Ready
  <2>2. app = "pending"
    BY <1>1, <2>1, WorkIsForClient
  <2>3. \/ app' = app
        \/ app' \in Errors
        \/ app' = "KErrNone" /\ Settled(responses', outcomes', summary')
    BY <1>1, <1>5, ClientRunLKeeps
  <2>4. CASE app' = app
    BY <1>1, <2>1, <2>2, <2>4, Unseen
  <2>5. CASE app' \in Errors
    BY <1>2, <2>1, <2>2, <2>5 DEF Checked!Next
  <2>6. CASE app' = "KErrNone" /\ Settled(responses', outcomes', summary')
    BY <1>1, <2>1, <2>2, <2>6, EndedIsReported DEF Checked!Next
  <2> QED  BY <2>3, <2>4, <2>5, <2>6
<1>6. CASE ValidatorRunL \/ SchemeRunL \/ SchemeAnswers
  <2>1. Alive /\ (validator.active \/ scheme.active) /\ UNCHANGED <<params, app>>
    BY <1>6 DEF ValidatorRunL, SchemeRunL, SchemeAnswers, Ready
  <2>2. app = "pending"
    BY <1>1, <2>1, WorkIsForClient
  <2> QED  BY <1>1, <2>1, <2>2, Unseen
<1>7. CASE \/ TransportRunL \/ Connected \/ HttpEnds \/ HttpTimedOut \/ TimerRun
           \/ \E o \in Owners : TransactionRunL(o)
  BY <1>1, <1>7, AskingKeeps, Unseen
<1>8. CASE UNCHANGED vars
  BY <1>1, <1>8, Unseen DEF vars
<1> QED  BY <1>3, <1>4, <1>5, <1>6, <1>7, <1>8 DEF Next, RunL

\* A check is answered once, and with KErrNone only with one outcome for every
\* certificate and the worst of them as the summary, for any number of them.
THEOREM ChecksAreReported == Spec => CheckSpec
<1>1. Init => Checked!Init
  <2> SUFFICES ASSUME Init PROVE Checked!Init
    OBVIOUS
  <2>1. client.state = "EInitial"
    BY DEF Init, Idle
  <2> QED  BY <2>1, OcspAssumption DEF Init, Checked!Init, Checked!NoReport
<1> QED  BY <1>1, KeptInit, KeptStep, CheckStep, PTL DEF Spec, CheckSpec, Checked!Spec
=============================================================================
