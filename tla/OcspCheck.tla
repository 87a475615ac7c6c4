----------------------------- MODULE OcspCheck ------------------------------
(***************************************************************************)
(* The OCSP client: COCSPClient asks for the state of certificates, one    *)
(* after the other.  For each it has a COCSPTransaction, which sends the   *)
(* request by COCSPTransportHttp and tries again, and then a               *)
(* COCSPValidator, which asks authorisation schemes whether the response   *)
(* can be trusted and may check the certificate of its signer, by a        *)
(* transaction of its own over the same transport.                         *)
(*                                                                         *)
(* All of them are active objects of one thread: an action is one RunL,    *)
(* with the calls it makes, or an event from outside.  An object that is   *)
(* active waits until its status is not "pending".                         *)
(***************************************************************************)
EXTENDS Integers, Sequences

CONSTANTS
    MaxCerts,       \* bound on the certificates of a check
    MaxRetry,       \* bound on iRetryCount
    MaxEntries,     \* bound on the certificates in the store
    Schemes,        \* the authorisation schemes, in the order they are asked
    Replies         \* what a server may answer, a set of reply records

VARIABLES
    params,         \* COCSPParameters: certs, retry, timeout, responder
    app,            \* what the application waits for (iClientStatus), or was told
    client,         \* iState, active, status
    responses,      \* iResponses: replies, or NoReply
    outcomes,       \* iOutcomes: status and result
    summary,        \* iSummaryResult
    tx,             \* the transactions of client and validator
    transport,      \* iState, active, status, callback, HTTP and timer
    validator,      \* iState, active, status, and the scheme in use
    scheme,         \* the active object of that scheme
    fault           \* "none", or what has ended the thread

vars == <<params, app, client, responses, outcomes, summary, tx, transport,
          validator, scheme, fault>>

Null == "null"

\* OCSP::TResult: EGood < EUnknown < ERevoked.
Results == {"EGood", "EUnknown", "ERevoked"}
Worse(a, b) == \/ a = "ERevoked" /\ b # "ERevoked"
               \/ a = "EUnknown" /\ b = "EGood"

\* What a response is worth, what it says of the certificate, and the scheme
\* that accepts its signer.
ReplyType == [verdict : {"malformed", "stale", "mismatch", "missing", "ok"},
              says : Results, by : {"ca", "direct", "delegate", "none"}]

ASSUME OcspAssumption ==
    /\ MaxCerts \in Nat /\ MaxRetry \in Nat /\ MaxEntries \in Nat
    /\ Schemes \in Seq({"ca", "direct", "delegate"})
    /\ Schemes # << >>   \* the validator panics when it is given none
    /\ Replies \subseteq ReplyType

\* What iResponses has for a request that was not answered.
NoReply == [verdict |-> "none", says |-> "EUnknown", by |-> "none"]
Owners == {"client", "validator"}

\* Error codes are negative, states of OCSP::TStatus positive.
Errors == {"KErrGeneral", "KErrArgument", "KErrCancel", "KErrTransportFailure", "KErrServerNotFound",
           "KErrTransportTimeout", "KErrInvalidURI"}
States == {"ENoServerSpecified", "ETryLater", "EClientUnauthorised",
           "EResponseSignatureValidationFailure", "EChainError"}
Codes == {"KErrNone"} \union Errors \union States

Idle == [state |-> "none", active |-> FALSE, status |-> "KErrNone"]
NoTransport == [connected |-> FALSE, active |-> FALSE, status |-> "KErrNone",
                callback |-> Null, http |-> FALSE, timer |-> FALSE, found |-> TRUE]

Init ==
    /\ params \in [certs : 0 .. MaxCerts, retry : 1 .. MaxRetry,
                   timeout : BOOLEAN, responder : BOOLEAN]
    /\ app = "none" /\ fault = "none"
    /\ client = [Idle EXCEPT !.state = "EInitial"]
    /\ responses = << >> /\ outcomes = << >> /\ summary = "EGood"
    /\ tx = [o \in Owners |-> [state |-> "none", active |-> FALSE,
                               status |-> "KErrNone", left |-> 0]]
    /\ transport = NoTransport
    /\ validator = [state |-> "none", active |-> FALSE, status |-> "KErrNone", scheme |-> 0]
    /\ scheme = [state |-> "none", active |-> FALSE, status |-> "KErrNone",
                 left |-> 0, chain |-> FALSE]

Alive == fault = "none"
Ready(x) == Alive /\ x.active /\ x.status # "pending"

-----------------------------------------------------------------------------
(* The transport. *)

\* DoSendRequestL has submitted the HTTP transaction; the timer is started when
\* there is a time-out.
Submitted(t) == [t EXCEPT !.connected = TRUE, !.active = TRUE, !.status = "pending",
                          !.http = TRUE, !.timer = params.timeout]

\* What becomes of the transaction t of o when it sends its request.  The first
\* time the transport may have to be made, which fails when the URI is not HTTP.
\* Nothing is sent before there is a connection, and submitting may fail.
TransportSend(o, t, first) ==
    LET sent(code) == [t EXCEPT !.state = "EFinished", !.active = TRUE, !.status = code]
        called == [transport EXCEPT !.callback = o, !.found = TRUE]
    IN  \/ /\ first
           /\ transport' = NoTransport
           /\ tx' = [tx EXCEPT ![o] = sent("KErrInvalidURI")]
        \/ /\ ~transport.connected
           /\ transport' = [called EXCEPT !.active = TRUE, !.status = "pending"]
           /\ tx' = [tx EXCEPT ![o] = sent("pending")]
        \/ /\ transport.connected
           /\ transport' = Submitted(called)
           /\ tx' = [tx EXCEPT ![o] = sent("pending")]
        \/ /\ transport.connected
           /\ transport' = [transport EXCEPT !.status = "pending", !.found = TRUE]
           /\ \E e \in {"KErrInvalidURI", "KErrGeneral"} : tx' = [tx EXCEPT ![o] = sent(e)]

\* The transport completes its caller and is done.
Complete(code, t) ==
    /\ transport' = [t EXCEPT !.active = FALSE, !.callback = Null]
    /\ tx' = [tx EXCEPT ![transport.callback].status = code]

TransportRunL ==
    /\ Ready(transport)
    /\ \/ /\ transport.status # "KErrNone"
          /\ Complete(IF transport.connected THEN transport.status
                      ELSE "KErrTransportFailure", transport)
       \/ /\ transport.status = "KErrNone" /\ transport.connected
          /\ Complete("KErrNone", transport)
       \/ /\ transport.status = "KErrNone" /\ ~transport.connected
          /\ \/ transport' = Submitted(transport) /\ UNCHANGED tx
             \/ \E e \in {"KErrInvalidURI", "KErrGeneral"} :
                  Complete(e, [transport EXCEPT !.connected = TRUE])
    /\ UNCHANGED <<params, app, client, responses, outcomes, summary, validator, scheme, fault>>

\* The connection is up, or is not to be had.
Connected ==
    /\ Alive /\ transport.active /\ transport.status = "pending" /\ ~transport.connected
    /\ \E e \in {"KErrNone", "KErrGeneral"} : transport' = [transport EXCEPT !.status = e]
    /\ UNCHANGED <<params, app, client, responses, outcomes, summary, tx, validator, scheme, fault>>

\* Mutant: the timer goes on.
HttpEndsWithTimer(code) ==
    transport' = [transport EXCEPT !.http = FALSE, !.status = code]

\* HTTP ends with code; it and the timer are stopped.
HttpEndsWith(code) ==
    transport' = [transport EXCEPT !.http = FALSE, !.timer = FALSE, !.status = code]

\* ESucceeded, EFailed, and the leaves of the handler (headers or data that are
\* wrong, an access point that cannot be read), which abort the transaction.
HttpEnds ==
    /\ Alive /\ transport.http
    /\ \/ /\ transport.found
          /\ \E e \in {"KErrNone", "KErrTransportFailure", "KErrGeneral"} : HttpEndsWith(e)
       \/ ~transport.found /\ HttpEndsWith("KErrServerNotFound")
    /\ UNCHANGED <<params, app, client, responses, outcomes, summary, tx, validator, scheme, fault>>

\* HTTP has timed out, EFailed will follow.
HttpTimedOut ==
    /\ Alive /\ transport.http /\ transport.found
    /\ transport' = [transport EXCEPT !.found = FALSE]
    /\ UNCHANGED <<params, app, client, responses, outcomes, summary, tx, validator, scheme, fault>>

\* The timer of the request expires (a relative one, which reports no error).
TimerRun ==
    /\ Alive /\ transport.timer
    /\ HttpEndsWith("KErrTransportTimeout")
    /\ UNCHANGED <<params, app, client, responses, outcomes, summary, tx, validator, scheme, fault>>

-----------------------------------------------------------------------------
(* The transactions. *)

\* The requests a server may have to be asked again for: it has not answered, or
\* not to the point (EMalformedResponse, EServerInternalError, ETryLater).
TryAgain == {"KErrTransportTimeout", "KErrTransportFailure", "ETryLater"}

\* Mutant: attempts are not counted.
NotCounted(t) == t

Tried(t) == [t EXCEPT !.left = @ - 1]

\* Mutant: the count is not looked at.
RetryAlways(t, code) == code \in TryAgain

RetryNeeded(t, code) == code \in TryAgain /\ t.left > 0

\* SendRequest: the transaction is to run on its own.
Started == [state |-> "ESendRequest", active |-> TRUE, status |-> "KErrNone",
            left |-> params.retry]

\* The object that waits for a transaction gets its code.
Answered(o, code) ==
    /\ client' = IF o = "client" THEN [client EXCEPT !.status = code] ELSE client
    /\ validator' = IF o = "validator" THEN [validator EXCEPT !.status = code] ELSE validator

\* The request cannot be encoded, or it is sent; then what comes of it.
TransactionRunL(o) ==
    /\ Ready(tx[o])
    /\ \/ /\ tx[o].state = "ESendRequest"
          /\ \/ TransportSend(o, tx[o], TRUE) /\ UNCHANGED <<client, validator>>
             \/ /\ tx' = [tx EXCEPT ![o].active = FALSE]
                /\ Answered(o, "KErrGeneral")
                /\ UNCHANGED transport
       \/ /\ tx[o].state = "EFinished"
          /\ \E code \in IF tx[o].status # "KErrNone" THEN {tx[o].status}
                         ELSE {"KErrNone", "ETryLater", "EClientUnauthorised"} :
               LET t == Tried(tx[o])
               IN  IF RetryNeeded(t, code)
                   THEN TransportSend(o, t, FALSE) /\ UNCHANGED <<client, validator>>
                   ELSE /\ tx' = [tx EXCEPT ![o] = [t EXCEPT !.active = FALSE]]
                        /\ Answered(o, code)
                        /\ UNCHANGED transport
    /\ UNCHANGED <<params, app, responses, outcomes, summary, scheme, fault>>

-----------------------------------------------------------------------------
(* The authorisation schemes, and how the validator asks them. *)

\* The reply in hand.
Reply == responses[Len(responses)]
Kind == Schemes[validator.scheme]

\* The outcome of the certificate in hand, in outs.
With(outs, field, value) == [outs EXCEPT ![Len(outs)][field] = value]

\* The scheme has ended: the validator gets code.
SchemeEnds(code, outs) ==
    /\ outcomes' = outs
    /\ scheme' = [scheme EXCEPT !.active = FALSE]
    /\ validator' = [validator EXCEPT !.status = code]

\* The scheme goes on waiting; done tells whether it has completed itself.
SchemeWaits(state, done) ==
    /\ scheme' = [scheme EXCEPT !.state = state, !.active = TRUE,
                                !.status = IF done THEN "KErrNone" ELSE "pending"]
    /\ UNCHANGED <<outcomes, validator>>

\* The validator starts scheme i on reply, for the last of outs, and waits for
\* it; the client, which is to be c, is told when there is none left or it leaves.
ProcessScheme(i, reply, outs, c) ==
    LET failed == With(outs, "status", "EResponseSignatureValidationFailure")
        waits(code) == [state |-> "EWaitingResponse", active |-> TRUE,
                        status |-> code, scheme |-> i]
        starts(state) == [scheme EXCEPT !.state = state, !.active = TRUE, !.status = "pending"]
        done == [validator EXCEPT !.active = FALSE, !.scheme = i]
    IN  \/ /\ i > Len(Schemes)
           /\ outcomes' = outs /\ validator' = done
           /\ client' = [c EXCEPT !.status = "KErrNone"]
           /\ UNCHANGED scheme
        \/ /\ i <= Len(Schemes)
           /\ outcomes' = failed /\ validator' = done
           /\ client' = [c EXCEPT !.status = "KErrGeneral"]
           /\ UNCHANGED scheme
        \/ /\ i <= Len(Schemes) /\ Schemes[i] = "ca"
           /\ outcomes' = IF reply.by = "ca" THEN With(outs, "status", "EValid") ELSE failed
           /\ validator' = waits("KErrNone") /\ client' = c
           /\ UNCHANGED scheme
        \/ /\ i <= Len(Schemes) /\ Schemes[i] = "direct"
           /\ outcomes' = failed /\ validator' = waits("pending") /\ client' = c
           /\ \/ scheme' = starts("EValidateCertChain")
              \/ \E n \in 0 .. MaxEntries :
                    scheme' = [starts("EListCertEntries") EXCEPT !.left = n]
        \/ /\ i <= Len(Schemes) /\ Schemes[i] = "delegate"
           /\ outcomes' = failed /\ client' = c
           /\ \/ /\ validator' = waits("pending")
                 /\ scheme' = [starts("EOnChainValidation") EXCEPT !.chain = TRUE]
              \/ validator' = waits("KErrNone") /\ UNCHANGED scheme
              \/ /\ validator' = waits("pending")
                 /\ \E n \in 0 .. MaxEntries :
                      scheme' = [starts("ERetrieveNext") EXCEPT !.left = n]

\* COCSPDirectAuthorisationScheme::RunL: a chain in the reply is validated, or
\* the certificates of the store are tried.
DirectRunL ==
    LET accepted == With(outcomes, "status", "EValid")
    IN  \/ /\ scheme.status = "KErrNone" /\ scheme.state = "EValidateCertChain"
           /\ \/ Reply.by = "direct" /\ SchemeEnds("KErrNone", accepted)
              \/ SchemeEnds("KErrNone", outcomes)
        \/ /\ scheme.status = "KErrNone" /\ scheme.state = "EListCertEntries"
           /\ SchemeWaits("ERetrieveNext", TRUE)
        \/ /\ scheme.status = "KErrNone" /\ scheme.state = "ERetrieveNext"
           /\ IF scheme.left = 0
              THEN SchemeEnds("KErrNone", outcomes)
              ELSE /\ scheme' = [scheme EXCEPT !.state = "ERetrievingEntry", !.left = @ - 1,
                                               !.status = "pending"]
                   /\ UNCHANGED <<outcomes, validator>>
        \/ /\ scheme.status = "KErrNone" /\ scheme.state = "ERetrievingEntry"
           /\ \/ Reply.by = "direct" /\ SchemeEnds("KErrNone", accepted)
              \/ SchemeWaits("ERetrieveNext", TRUE)
        \/ scheme.status \in {"KErrNone", "KErrGeneral"} /\ SchemeEnds("KErrGeneral", outcomes)
        \/ scheme.status \in {"KErrNone", "KErrArgument"} /\ SchemeEnds("KErrNone", outcomes)

\* COCSPDelegateAuthorisationScheme::RunL: a certificate that may be a
\* delegate's is validated by a chain to the issuer.
DelegateRunL ==
    \/ /\ scheme.status = "KErrNone" /\ scheme.state = "EOnChainValidation"
       /\ \/ Reply.by = "delegate" /\ SchemeEnds("KErrNone", With(outcomes, "status", "EValid"))
          \/ SchemeEnds("EChainError", outcomes)
    \/ /\ scheme.status = "KErrNone" /\ scheme.state = "ERetrieveNext"
       /\ IF scheme.left = 0
          THEN SchemeEnds("EResponseSignatureValidationFailure", outcomes)
          ELSE /\ scheme' = [scheme EXCEPT !.state = "ERetrievingEntry", !.left = @ - 1,
                                           !.status = "pending"]
               /\ UNCHANGED <<outcomes, validator>>
    \/ /\ scheme.status = "KErrNone" /\ scheme.state = "ERetrievingEntry"
       /\ \/ /\ scheme' = [scheme EXCEPT !.state = "EOnChainValidation", !.chain = TRUE,
                                         !.status = "pending"]
             /\ UNCHANGED <<outcomes, validator>>
          \/ SchemeWaits("ERetrieveNext", TRUE)
    \/ scheme.status = "KErrNone" /\ SchemeEnds("KErrGeneral", outcomes)
    \/ scheme.status # "KErrNone" /\ SchemeEnds(scheme.status, outcomes)

SchemeRunL ==
    /\ Ready(scheme)
    /\ \/ Kind = "direct" /\ DirectRunL
       \/ Kind = "delegate" /\ DelegateRunL
    /\ UNCHANGED <<params, app, client, responses, summary, tx, transport, fault>>

\* The certificate store or the validation of the chain answers a scheme.
SchemeAnswers ==
    /\ Alive /\ scheme.active /\ scheme.status = "pending"
    /\ \E e \in {"KErrNone", "KErrGeneral", "KErrArgument"} :
         scheme' = [scheme EXCEPT !.status = e]
    /\ UNCHANGED <<params, app, client, responses, outcomes, summary, tx, transport,
                   validator, fault>>

-----------------------------------------------------------------------------
(* The validator. *)

\* Mutant: only a missing nonce is looked for.
JudgedByStatus(reply, outs) ==
    IF reply.verdict = "missing"
    THEN With(With(outs, "status", "EMissingNonce"), "result", reply.says)
    ELSE With(outs, "result", reply.says)

\* What the reply is worth: its times, then its nonce.
Judged(reply, outs) ==
    CASE reply.verdict = "stale" -> With(outs, "status", "EThisUpdateTooEarly")
      [] reply.verdict = "mismatch" -> With(outs, "status", "ENonceMismatch")
      [] reply.verdict = "missing" ->
           With(With(outs, "status", "EMissingNonce"), "result", reply.says)
      [] OTHER -> With(outs, "result", reply.says)

\* The validator is done and the client gets code.
ValidatorEnds(code) ==
    /\ validator' = [validator EXCEPT !.active = FALSE]
    /\ client' = [client EXCEPT !.status = code]

\* A scheme has accepted the reply.  The certificate of the responder may have
\* to be checked too, by a request of its own.
FinalResponseValidation ==
    LET checks(code) == [validator EXCEPT !.state = "EValidateResponderCert", !.status = code]
        judged == Judged(Reply, outcomes)
    IN  \/ outcomes' = judged /\ ValidatorEnds("KErrNone") /\ UNCHANGED tx
        \/ params.responder /\ Kind # "ca" /\ UNCHANGED client
           /\ \/ /\ outcomes' = With(judged, "status", "ENoServerSpecified")
                 /\ validator' = checks("ENoServerSpecified") /\ UNCHANGED tx
              \/ /\ outcomes' = judged
                 /\ validator' = checks("pending") /\ tx' = [tx EXCEPT !["validator"] = Started]
        \/ outcomes' = judged /\ ValidatorEnds("KErrGeneral") /\ UNCHANGED tx

\* The responder's certificate has been asked about.  A good one makes the result
\* good, whatever it was; every other answer makes it unknown.
ValidateResponderCert ==
    /\ IF validator.status = "KErrNone"
       THEN \E result \in {"EGood", "EUnknown"} : outcomes' = With(outcomes, "result", result)
       ELSE UNCHANGED outcomes
    /\ ValidatorEnds(validator.status)
    /\ UNCHANGED tx

ValidatorRunL ==
    /\ Ready(validator)
    /\ \/ /\ validator.status \in Errors
          /\ ValidatorEnds(validator.status) /\ UNCHANGED <<outcomes, scheme, tx>>
       \/ /\ validator.status \notin Errors /\ validator.state = "EWaitingResponse"
          /\ IF outcomes[Len(outcomes)].status = "EValid"
             THEN FinalResponseValidation
             ELSE /\ validator' = [validator EXCEPT !.state = "EValidating", !.status = "KErrNone"]
                  /\ UNCHANGED <<client, outcomes, tx>>
          /\ UNCHANGED scheme
       \/ /\ validator.status \notin Errors /\ validator.state = "EValidating"
          /\ ProcessScheme(validator.scheme + 1, Reply, outcomes, client)
          /\ UNCHANGED tx
       \/ /\ validator.status \notin Errors /\ validator.state = "EValidateResponderCert"
          /\ ValidateResponderCert
          /\ UNCHANGED scheme
    /\ UNCHANGED <<params, app, responses, summary, transport, fault>>

-----------------------------------------------------------------------------
(* The client and the application. *)

Waiting(state, code) == [state |-> state, active |-> TRUE, status |-> code]

\* The next certificate is asked about, unless it has no server or that leaves.
SendRequest ==
    \/ /\ client' = Waiting("ESendingRequest", "pending")
       /\ tx' = [tx EXCEPT !["client"] = Started]
    \/ /\ \E e \in {"ENoServerSpecified", "KErrGeneral"} :
             client' = Waiting("ESendingRequest", e)
       /\ UNCHANGED tx

\* RunError, and what else ends the check with an error.
ClientEnds(state, code) ==
    /\ app' = code
    /\ client' = [client EXCEPT !.state = state, !.active = FALSE]

Check ==
    /\ Alive /\ app = "none"
    /\ IF params.certs = 0
       THEN ClientEnds("EError", "KErrNoCertificates") /\ UNCHANGED tx
       ELSE app' = "pending" /\ SendRequest
    /\ UNCHANGED <<params, responses, outcomes, summary, transport, validator, scheme, fault>>

\* Mutant: an outcome is recorded for a response only.
NoOutcome(resps, outs) ==
    /\ responses' = resps /\ UNCHANGED <<outcomes, summary>>
    /\ IF Len(resps) < params.certs
       THEN SendRequest /\ UNCHANGED app
       ELSE ClientEnds("EHaveResult", "KErrNone") /\ UNCHANGED tx

\* The last of outs is final: the summary takes it in, the next certificate is
\* asked about or the check is done.
ResponseValidated(resps, outs) ==
    LET result == outs[Len(outs)].result
    IN  /\ responses' = resps /\ outcomes' = outs
        /\ summary' = IF Worse(result, summary) THEN result ELSE summary
        /\ IF Len(resps) < params.certs
           THEN SendRequest /\ UNCHANGED app
           ELSE ClientEnds("EHaveResult", "KErrNone") /\ UNCHANGED tx

\* The errors of a transaction that only concern its certificate.
StateOf == [KErrTransportFailure |-> "ETransportError", KErrServerNotFound |-> "ETransportError",
            KErrInvalidURI |-> "EInvalidURI", KErrTransportTimeout |-> "ETimeOut"]

ResponseReceived ==
    \/ /\ client.status \in States \union DOMAIN StateOf
       /\ LET state == IF client.status \in States THEN client.status ELSE StateOf[client.status]
          IN  ResponseValidated(Append(responses, NoReply),
                                Append(outcomes, [status |-> state, result |-> "EUnknown"]))
       /\ UNCHANGED <<validator, scheme>>
    \/ /\ client.status \in Errors \ DOMAIN StateOf
       /\ ClientEnds("EError", client.status)
       /\ UNCHANGED <<responses, outcomes, summary, tx, validator, scheme>>
    \/ /\ client.status = "KErrNone"
       /\ \E reply \in Replies :
            LET outs == Append(outcomes, [status |-> "EClientInternalError", result |-> "EUnknown"])
            IN  /\ responses' = Append(responses, reply)
                /\ IF reply.verdict = "malformed"
                   THEN /\ outcomes' = With(outs, "status", "EMissingCertificates")
                        /\ client' = Waiting("EValidatingResponse", "KErrNone")
                        /\ UNCHANGED <<validator, scheme>>
                   ELSE ProcessScheme(1, reply, outs, Waiting("EValidatingResponse", "pending"))
       /\ UNCHANGED <<app, summary, tx>>

ClientRunL ==
    /\ Ready(client)
    /\ \/ client.state = "ESendingRequest" /\ ResponseReceived
       \/ /\ client.state = "EValidatingResponse"
          /\ IF client.status \in Errors
             THEN ClientEnds("EError", client.status)
                  /\ UNCHANGED <<responses, outcomes, summary, tx>>
             ELSE ResponseValidated(responses, outcomes)
          /\ UNCHANGED <<validator, scheme>>
    /\ UNCHANGED <<params, transport, fault>>

\* CancelCheck: every layer cancels the one below and waits for it to end.
\* COCSPDelegateAuthorisationScheme::CancelValidate cancels its chain, which it
\* may not have, and does not answer the validator; the transaction for a
\* responder's certificate is not cancelled at all.
CancelFaults ==
    IF validator.active /\ validator.state = "EWaitingResponse" /\ Kind = "delegate"
    THEN IF ~scheme.chain THEN "null"
         ELSE IF validator.status = "pending" THEN "hang" ELSE "none"
    ELSE IF validator.active /\ validator.state = "EValidateResponderCert"
            /\ validator.status = "pending" THEN "hang" ELSE "none"

Stopped(x) == [x EXCEPT !.active = FALSE]

CancelCheck ==
    /\ Alive /\ client.active
    /\ fault' = CancelFaults
    /\ IF fault' = "none"
       THEN /\ app' = "KErrCancel"
            /\ client' = Stopped(client) /\ validator' = Stopped(validator)
            /\ scheme' = Stopped(scheme)
            /\ tx' = [tx EXCEPT !["client"] = Stopped(@)]
            /\ transport' = [Stopped(transport) EXCEPT !.callback = Null, !.http = FALSE,
                                                       !.timer = FALSE]
       ELSE /\ client' = IF fault' = "hang" THEN [client EXCEPT !.status = "KErrCancel"] ELSE client
            /\ UNCHANGED <<app, tx, transport, validator, scheme>>
    /\ UNCHANGED <<params, responses, outcomes, summary>>

-----------------------------------------------------------------------------
RunL == \/ ClientRunL \/ ValidatorRunL \/ SchemeRunL \/ TransportRunL
        \/ \E o \in Owners : TransactionRunL(o)

Next == \/ Check \/ CancelCheck \/ RunL
        \/ Connected \/ HttpEnds \/ HttpTimedOut \/ TimerRun \/ SchemeAnswers

Spec == Init /\ [][Next]_vars

\* Every active object that is ready runs, a started connection is made or fails,
\* the store and the validation of chains answer, timers expire.  HTTP itself may
\* never end.
Fairness ==
    /\ WF_vars(ClientRunL) /\ WF_vars(ValidatorRunL) /\ WF_vars(SchemeRunL)
    /\ WF_vars(TransportRunL) /\ \A o \in Owners : WF_vars(TransactionRunL(o))
    /\ WF_vars(Connected) /\ WF_vars(SchemeAnswers) /\ WF_vars(TimerRun)

FairSpec == Spec /\ Fairness

-----------------------------------------------------------------------------
(* Properties. *)

\* An active object's status, and the status of an outcome.
Status == Codes \union {"pending"}
OutcomeStatus ==
    States \union {"EValid", "EClientInternalError", "EMissingCertificates",
                   "EThisUpdateTooEarly", "ENonceMismatch", "EMissingNonce",
                   "ETransportError", "EInvalidURI", "ETimeOut"}

\* Every variable has its type; a transaction never has more attempts left than
\* it was given, nor fewer than none (iRetryCount is unsigned).
TypeOK ==
    /\ params \in [certs : 0 .. MaxCerts, retry : 1 .. MaxRetry,
                   timeout : BOOLEAN, responder : BOOLEAN]
    /\ app \in {"none", "KErrNoCertificates"} \union Status
    /\ client \in [state : {"EInitial", "ESendingRequest", "EValidatingResponse",
                            "EHaveResult", "EError"},
                   active : BOOLEAN, status : Status]
    /\ responses \in Seq(Replies \union {NoReply}) /\ Len(responses) <= params.certs
    /\ outcomes \in Seq([status : OutcomeStatus, result : Results])
    /\ summary \in Results
    /\ tx \in [Owners -> [state : {"none", "ESendRequest", "EFinished"}, active : BOOLEAN,
                          status : Status, left : 0 .. MaxRetry]]
    /\ transport \in [connected : BOOLEAN, active : BOOLEAN, status : Status,
                      callback : Owners \union {Null}, http : BOOLEAN, timer : BOOLEAN,
                      found : BOOLEAN]
    /\ validator \in [state : {"none", "EWaitingResponse", "EValidating",
                               "EValidateResponderCert"},
                      active : BOOLEAN, status : Status, scheme : 0 .. Len(Schemes) + 1]
    /\ scheme \in [state : {"none", "EValidateCertChain", "EListCertEntries", "ERetrieveNext",
                            "ERetrievingEntry", "EOnChainValidation"},
                   active : BOOLEAN, status : Status, left : 0 .. MaxEntries, chain : BOOLEAN]
    /\ fault \in {"none", "hang", "null"}

\* Whoever waits, waits for an object that works for it, and no object works when
\* nobody waits: no answer is lost, none is given twice (a stray signal, which
\* ends the thread), and neither HTTP nor the timer outlives its request.
ChainOfWaits ==
    Alive =>
      /\ app = "pending" <=> client.active
      /\ tx["client"].active <=>
           client.active /\ client.state = "ESendingRequest" /\ client.status = "pending"
      /\ validator.active <=>
           client.active /\ client.state = "EValidatingResponse" /\ client.status = "pending"
      /\ scheme.active <=> /\ validator.active /\ validator.state = "EWaitingResponse"
                           /\ validator.status = "pending"
      /\ tx["validator"].active <=> /\ validator.active /\ validator.status = "pending"
                                    /\ validator.state = "EValidateResponderCert"
      /\ \A o \in Owners : transport.active /\ transport.callback = o <=>
           tx[o].active /\ tx[o].state = "EFinished" /\ tx[o].status = "pending"
      /\ transport.http <=>
           transport.active /\ transport.connected /\ transport.status = "pending"
      /\ transport.timer => transport.http

\* A certificate is reported as good only when a scheme has accepted the reply
\* about it, the reply is fresh and not another request's, and says so (without
\* the check of responders, which may turn a revoked certificate into a good one).
GoodIsProved ==
    app = "KErrNone" /\ ~params.responder =>
      \A i \in DOMAIN outcomes : outcomes[i].result = "EGood" =>
        /\ responses[i].says = "EGood"
        /\ responses[i].verdict \in {"ok", "missing"}
        /\ \E k \in DOMAIN Schemes : responses[i].by = Schemes[k]

\* What CertificateCheck sees of the client.
Checked == INSTANCE CertificateCheck WITH
    wanted <- params.certs,
    answer <- app,
    report <- IF client.state # "EHaveResult" THEN [results |-> << >>, summary |-> "none"]
              ELSE [results |-> [i \in DOMAIN outcomes |-> outcomes[i].result],
                    summary |-> summary]
\* A check is answered once, and with KErrNone only with one outcome for every
\* certificate and the worst of them as the summary: no outcome is lost or left out.
CheckSpec == Checked!Spec

\* A check that is not stopped by a cancellation is answered, when its requests
\* have a time-out, or HTTP always ends.
CheckEnds == params.timeout \/ []<>~transport.http =>
    (app = "pending" ~> app # "pending" \/ ~Alive)
=============================================================================
