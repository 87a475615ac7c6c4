# The security services package: specifications, checks and proofs

This directory holds TLA+ specifications of the security services of Symbian
(`securitysrv`), the TLC configurations that check them on small instances, and
proofs checked by TLAPS. Four parts of the system are treated so far, those with
the most intricate concurrency and the most to lose that are complete in the
repository:

- the smart-card server `wim/Scard` with the reader interface `wim/SwimReader`,
  which shares one card reader among several clients, from the attempt to connect
  to the last answer;
- the GBA server `gba`, whose sessions share a file of credentials and the key on
  a card;
- the OCSP client `pkiutilities/ocsp`, five layers of active objects that must
  start, answer and stop each other;
- the question whether to trust a server's certificate, from the notifier plug-in
  and the dialog server (`pkiutilities/securitydialognotifier*`) to the stores of
  trusted certificates and sites (`pkiutilities/DeviceToken`).

## 1. The system

| Component | State | Operations | Who it talks to | What is hard |
|---|---|---|---|---|
| Scard access controller (`ScardAccessControl`) | sessions attached, "reader active", its own request status | attach, detach, start a command, queue it, cancel, complete, card event | sessions, channel manager, reader | completion, cancellation and removal of the card in any order; life time of sessions |
| Scard channel manager (`ScardChannelManager`) | which sessions are on which of 4 channels | add, remove, validate, push and take messages | stack | the table and the card must agree although the card answers later |
| Scard message stack (`ScardMessageStack`) | list of message handles | push, take, cancel by session, by timer, by card removal | command timers | entry 0 is the command at the reader, by convention only |
| Scard sessions (`ScardSession`) | connected or not, ID, command and response buffers | the requests of a client, completion of a command | controller, reader | buffers are lent to the reader |
| Command timers (`ScardCommandTimer`) | one timer per message with a time-out | start, expire, cancel | stack | a time-out races the answer |
| Connectors, connection registry, connection timers (`ScardConnector` ...) | connections that wait for a reader or a card | connect, card event, time-out, cancel | controller, sessions | connectors are deleted while lists that hold them are walked |
| Notifiers, registries, server (`ScardNotifier`, `Scard*Registry`, `ScardServer`) | readers loaded, controllers alive, clients that listen | load, open, close a reader, fan out card events | everything above | controllers that delete themselves |
| Reader (`SwimReaderIF`, `SwimReader`, `SwimSysAgentObserver`) | one outstanding request, Etel sub-sessions, card inserted or not | open, transmit, cancel, close, notify | phone server | cancel races the phone's answer |
| WIM server, client, plug-in, utilities | sessions, PINs, certificates cached; state machines of the store plug-in | marshalled requests | WIMI library (not in the repository) | many sequential handlers, time-outs of PINs |
| OCSP client (`client`, `transaction`, `transporthttp`, `validator`, `*authorisation`) | request, responses and outcomes of a check; attempts left; HTTP transaction and timer; scheme in use | check, cancel | HTTP stack, certificate store, chain validation | cancel, time-out and retry between four layers of active objects |
| Device token server (`DevandTruSrvCertStoreServer`, `TrustedSitesServer`) | list of certificates in one file, tables of fingerprints and trusted sites in another | add, remove, forgive a site, ask whether a site is trusted | each other, dialog server, browser, CertSaver | requests that commit in pieces; records that outlive what they were made for |
| Dialog notifiers (`CSecurityDialogNotifier`, `CSecurityDialogs`, `CServerAuthFailOperation`, `CUntrustedCertQuery`; security UI) | the request that was started last; a handler per session; dialogs that wait in nested loops | ask about a certificate, cancel, PIN operations | UI, device token server | a cancelled or closed request below another one's dialog |
| GBA sessions and state machines (`GbaSession`, `bootstrap`) | the message of a client, the state of its bootstrap, buffers of identity, key, B-TID, life time | request a bootstrap, cancel it, ask for GBA_U | retriever, plug-in, file of credentials | cancel against completion; failures on the way; buffers that outlive a bootstrap |
| GBA retriever (`dataretriever`) | one HTTP transaction, the status it has to complete | make a request, cancel it, challenge, end | HTTP, state machine, plug-in | pointers into a bootstrap that may be over |
| GBA server (`GbaServer`) | number of sessions, shutdown timer, file of credentials | open, close, stop, set an option | sessions | one file for all sessions |
| UICC plug-in (`GbaAkaIsa`) | kind of card, keys of the last authentication | authenticate, Ks_NAF, identity | phone server, card | the key on the card is the last one, whoever asked for it |
| GBA client library (`gbaapi`) | its view of the bootstrap under way | Bootstrap, CancelBootstrap, callback | GBA server | the view outlives the bootstrap |
| GBA HTTP filter, Qt wrapper | credentials of a request | put credentials into a request | GBA client library | clients of what is modelled |
| Device encryption starter | state machine of encrypting a drive | start, pause, finish | drives | power loss between steps |
| Remote lock, Autolock, lock client | lock settings and lock state | set, save, lock, unlock | settings server, timers | the lock must not be lost |
| CMS, PKCS#12, x509 name parser | none that outlives a call | encode and decode | ASN.1 and crypto libraries | no concurrency |
| Control panel plug-ins, PKI and security dialogs, boot integrity check | views | display | | user interface or run-once code |

`PROJECT.json` lists every one of them with its status, and every hazard with the
line where it bites.

## 2. The smart-card server

### Commands

The server is one thread with an active scheduler. A client request
(`ServiceL`), a completion (`RunL` of an active object) and a card event each run
to the end, with everything they call, before the next one starts. So one action
of the specification is one such handler, and what TLC interleaves are the
handlers.

A command goes to the reader when no other is there (`iReaderActive`): its handle
is pushed to the *top* of the stack, the controller becomes active. Any other is
checked and put at the *bottom*. When the reader completes, the controller's
`RunL` takes the entry from the top, lets the session answer its client, takes
the next entry and hands it to its session as if it had just arrived. Cancelling
(by the client, by a timer, by the removal of the card, by a session that goes)
deletes entries and completes their messages, except that the first entry is only
*flagged*: the reader is still working on it, and its answer must find it.

| Module | Models |
|---|---|
| `ScardMessageStack` | the stack: the cancel operations, as operators on sequences |
| `ScardAccess` | controller, channel manager, sessions, command timers, the reader's interface and the card's channels: variables `registry` (iSessionRegistry), `nextID`, `channels` (iChannels), `stack`, `readerActive`, `status` (iStatus), `command` and `reply` (what the reader holds and has answered), `cardChannels` (the card itself), `result` (what became of each client message), `panicked` |
| `ScardClients` | the clients and card as they should be (`OrderlySpec`), the properties, the fairness, and the mapping to `CommandLine` |
| `CommandLine` | the abstract specification: a line of messages |
| `ScardInvariant` | the inductive invariant in named parts |
| `MCScardClients` | instances for TLC |
| `ScardMessageStackProofs`, `ScardClientsProofs`, `ScardOrderlyProofs` | the proofs |

Actions and code: `Connect` is `ConnectToReader` while the reader is open;
`Submit` is `ServiceL` for a transmission, a capability query or a channel
operation; `CancelTransmit`, `Disconnect`, `CloseSession` are the requests of that
name; `TimeOut` is `CScardCommandTimer::RunL`; `CardRemoved` is `CardEvent`
with `EScardRemoved`; `ReaderAnswers` is `CSwimReaderIF::RunL`; `RunL` is the
controller's. The tail of a handler is part of its action: `Serve`, `Starts` and
`HandleNext` are the start of the next command inside `RunL` and inside a detach.

What is simplified, and why that is sound for the properties:

- The reader is open. Opening it is the matter of `ScardConnect` (below). A
  connection to an open reader attaches and detaches a connector at once, which
  `Connect` does, side effects on the stack included.
- A message that is used again after it was completed kills the server in the model
  at once (`"stale message"`); in the system the kernel panics the caller.
- Three things clients may do that the server does not survive are in the model, and excluded
  by `OrderlySpec`: a capability query whose response descriptor has no room is completed
  with the error while its entry stays on the stack (`LeavesEntry`), so that it is completed
  again; a command with a negative time-out is completed, or served without an entry, because its timer
  cannot be made (`QueuedInVain`, `QueuedBusy`, `Starts`); a session closes while its command is at the
  reader, connected or disconnected (`CloseSession`).
- The requests a client can make only by being panicked, and lack of memory, are
  left out. So are reservations: no code sets `iReserverID`, and the tests of it
  are always false.
- The removal of the card and the event it causes are one step; a command at the
  reader then ends with an error or an answer that was already on its way.

### Connections

A client connects with *limits*: a reader's name, a card that has yet to be
inserted, a time-out and more. A connector is made for the attempt; it lives in the
connection registry, is attached to the controller as if it were a session, and its
"message" is the opening of the reader. When the reader is open and a card that
meets the limits is there the connector hands its place to the client and deletes
itself, often in the middle of a call of the controller that goes on afterwards.

| Module | Models |
|---|---|
| `ScardConnect` | connectors, connection registry and timers, the controller with the reader closed, opening or open, card events and the server's notifier: one record `srv` of the server's objects (see `SrvType`, which names the member each field stands for) and `notice`, what has completed the notifier |
| `MCScardConnect` | instances for TLC |
| `ScardConnectProofs` | the proofs |

Handlers are operators from records to records (`ServeNext`, `Connected`,
`CancelController` ...), because they call each other deeply; the actions apply them:
`Connect`, `Transmit`, `CancelTransmit`, `Disconnect`, `CloseSession` of a client,
`TimeOut` of a connection timer, `NotifierRunL`, `ControllerRunL`, and the reader's
`ReaderAnswers` and `CardRemoved`. The priorities of the active objects are all the
same, so the scheduler runs those first that were added first; the guards say so.

There is one reader and one attempt per session; commands are on channel 0, one per
session and without a time-out (the rest of them is in `ScardAccess`). The removal
of the *reader* changes neither the controller nor a connector and is left out, with
the event stack, which nothing ever fills, and the listeners of clients. A call of the
reader that fails at once is one that the reader answers with an error next.

`OrderlySpec`: a client neither cancels a connection attempt nor closes its session
during one. Without it the controller looks for the connector to blame in an empty
registry (run `connectcancel`).

## 3. The GBA server

Each session of the server owns a state machine (`C3GPPBootstrap`, an active
object with the states `EIdle`, `EInitialize`, `EBusy`, `ECancel`), which owns a
retriever (`CDataRetriever`) and a plug-in for the card. A request makes the
machine active; its `RunL` reads the identity of the card and the file of
credentials, which all sessions share, and either finds credentials that are
valid or lets the retriever make an HTTP request. The bootstrapping server
challenges it, the card answers the challenge, which makes a new key, and the
B-TID and life time that come back are saved. `RunL` then completes the client's
message. With GBA_U the key stays on the card.

| Module | Models |
|---|---|
| `GbaServer` | sessions, state machines, retrievers, plug-ins, file, card: variables `message` (iMessage of a session), `answer` (what its client was told last), `machine` (iBSState, IsActive, iStatus), `fetch` (iInternalState of the retriever, and the challenge answered), `memory` (the buffers of the state machine), `output` (iGbaOutputParams), `interface` (iCardInterface), `store` (the file), `cardKs`, `owner`, `expired`, `shutdown`, `fault` |
| `GbaClients` | clients, network and card as they should be (`OrderlySpec`), the properties, the fairness, and the mapping to `BootstrapService` |
| `BootstrapService` | the abstract specification: what a session promises its client |
| `GbaClient` | the handler of the client library, with `BootstrapService` as its server |
| `MCGba` | instances for TLC |
| `GbaProofs`, `GbaClientProofs` | the proofs |

Actions and code: `RequestBootstrap`, `CancelRequest`, `IsGBAUSupported`, `OpenSession`,
`CloseSession` are the messages of a client, `BadRequest` a bootstrap request of the wrong
size, `OpenFails` a session that finds no plug-in or no card; `RunCached`, `RunFetch`,
`RunConnectFails`, `RunLeaves` are `RunL` in `EInitialize` by what comes of
`GetBootstrappingMaterialL`; `RunDone`, `RunFailed`, `RunCancelled`, `RunIgnored` are `RunL`
for a status that was completed; `Challenge`, `Succeeded`, `HttpFails` are the HTTP events that
change something; `Stop` is the shutdown timer. `RunL` that leaves ends in `RunError`, which is
part of these actions. It may leave in the middle: after the file of another card was deleted
(`CheckLeaves`), or with some of the credentials read (`PartlyLoaded`: an entry of the file
that can be opened is taken to be read). `RunDone` completes the message with what writing to
the client's buffer returns.

A *run* stands for one challenge and everything that comes of it: key, B-TID and
life time are the same run exactly when they belong together. That is all the
properties tell apart, so URLs, nonces, digests and the XML of the answer are left
out. `expired` is the clock. `GbaClient` has one handler with an observer; the
functions without one only forward a message.

`OrderlySpec` is `Spec` with these conditions; for each the table says what happens
without it, found by checking the safety properties without the condition.

| Condition | Without it |
|---|---|
| a session finds a plug-in and a card it can read (no `OpenFails`) | `NewL` leaves, and the destructor of the session calls the server it has not been given yet (GbaSession.cpp:68) |
| the request can be made (no `RunConnectFails`) | the state machine stays active for ever: nothing will complete it, later requests get `KErrInUse`, the destructor waits (bootstrap.cpp:475) |
| a client cancels only what it waits for, and not a failure it has not heard of yet | its message is completed by the cancel and again by `RunError` (GbaSession.cpp:117); a cancel of a cancelled bootstrap does the same |
| a bootstrap is forced only in a new session or after a success; one challenge per request | a second key is appended to the buffer with room for one (GbaAkaIsa, `QueryKs`; `RunError` does not empty it) |
| IsGBAUSupported is not asked during the session's own bootstrap | it empties or replaces the identity the credentials are saved with |
| the card is changed only while no session is open | the buffers of the old card are used for the new one (`LoadCredentialsL` leaves in them what the file does not hold) |
| after a GBA_U card was challenged nothing happens before its B-TID is there (`Undisturbed`) | another session mixes the new key with the old B-TID |

The last two are strong, and what the code depends on: nothing in it enforces them.

The application of `GbaClient` starts and cancels bootstraps whenever the library lets it,
and the run about it has no condition. Two things the library does then are no
property, because the code does them: a bootstrap that is started while the handler is still
active is only noted (`Bootstrap` sends nothing, GbaClientRequestHandler.cpp:237-243) and
gets the report of the one that was cancelled, `KErrCancel`, or `KErrUnknown` for
credentials that came too late; and after a failure every later bootstrap is refused
(`iBootstrapState` stays `EBootstrapping`). What holds is that each bootstrap has a report or is
cancelled in the end (`Reported`), and that the server has a request of the handler exactly while
the handler waits for one (`AnswerIsAwaited`).

## 4. The OCSP client

`COCSPClient` checks certificates one after the other. Its `COCSPTransaction` sends the
request over `COCSPTransportHttp` and tries again when the answer never came or said so;
the `COCSPValidator` then asks the authorisation schemes in turn whether the signer may
answer, judges times and nonce, and, when asked to, checks the certificate of the signer
with a second transaction over the *same* transport. All are active objects of
one thread.

| Module | Models |
|---|---|
| `OcspCheck` | one variable per object: `client`, `tx` (the transactions of client and validator), `transport` (with its HTTP transaction and timer), `validator`, `scheme`; `params`, `responses`, `outcomes`, `summary`; `app`, what the application waits for; `fault`, how a cancel may end the thread |
| `CertificateCheck` | the abstract specification: one answer, one outcome per certificate, and the worst as the summary |
| `MCOcsp` | instance for TLC |
| `OcspCheckProofs` | the proofs |

Each `RunL` is an action with the calls it makes (`ClientRunL`, `ValidatorRunL`, `SchemeRunL`,
`TransportRunL`, `TransactionRunL`), and so are `Check`, `CancelCheck`, `HttpEnds`,
`HttpTimedOut`, `TimerRun`. A reply is abstracted to what the client can make of it: its
verdict (malformed, stale, another nonce, no nonce, well), what it says, and which scheme would
accept it. Coding, HTTP headers, chains and dates are behind that. The list of schemes is not
empty: with none the validator panics (validator.cpp:173). A `RunL` that leaves, because the
connection's settings (`HttpEnds`) or the request (`TransactionRun`) cannot be made, ends with
the error it leaves with. The error of the timer (transporthttp.cpp:382) is left out: a
relative timer reports none to `RunL`. `RetryCount` is at least 1 and the time-out not below -1
because client.cpp:51-58 sees to it, which is what keeps the unsigned counter of
transaction.cpp:142 from passing 0.

What the model showed, without a property about it: a cancel while the delegate scheme
waits for a chain completes nobody, and before the chain is built it uses a null
pointer (`CancelFaults`); a cancel while the signer's certificate is checked leaves
that transaction running and waits for ever; and the transport failure of that check,
which validator.cpp means to forgive, ends the whole check, because `RunL` leaves with
it first. `GoodIsProved` is about checks without that second one, which sets the
result of the certificate in hand from the signer's.

## 5. Trusted sites and the question about a certificate

When a secure connection fails on the server's certificate, the plug-in of the UI server asks
the dialog server. Its operation looks the certificate up (is the site trusted with it? is it
in the store?), one call per `RunL`; only if it is not found is the user asked. The dialog
waits in a *nested loop* of the active scheduler, in which the server goes on with all its
sessions. An answer "permanently" adds the certificate and then its site. At a site that an
application has *forgiven* (a site whose certificate is bad, and known to be), the lookup
itself writes: it records the certificate for the site.

| Module | Models |
|---|---|
| `TrustStore` | the store of trusted server certificates (`entries`) and the tables of the sites database (`hashes` is Certificates, `sites` is TrustedSites): every request is a function from a store to its possible outcomes |
| `ServerAuthFail` | plug-in (`current`, `deleted`), client side (`app`), the dialog server's `message`, `session`, `op` (the operation handler with its mode, list and certificate read), `query` and `answer` of the dialog, the nested `waits`; the `store`; and, as history for the property, what was `granted`, `shown`, `forgave` |
| `MCTrust` | instance for TLC |
| `ServerAuthFailProofs` | the proof |

A request commits in pieces, and any piece may fail: then the client is told an error and
what was committed before stays. Memory and file are always the same, so a crash of the
server is such a failure too. `"unsaved"` is the outcome in which the client is told
`KErrNone` although the update of the file failed (DevandTruSrvCertStoreServer.cpp:460,
where the error goes no further). Rows are unordered: which of several matching rows a query
finds is a nondeterministic choice. Numbers of the COUNTER column are the least that
is free, which no query can tell from a fresh one.
The dialog server asks for each thing apart: when the request whether an out-of-date certificate may be
accepted fails, that counts as no. A request that cannot be started is completed with the error
by the session, and its handler keeps a copy of the message (`StartIsRefused`).

`OrderlySpec` is `Spec` with these conditions:

| Condition | Without it |
|---|---|
| a certificate is not removed between its adding and the adding of its site (`BeingSaved`) | the site's row is made for a certificate that is not there, and the next copy of it, saved for another purpose, is trusted for the site |
| a failed update of the file is not passed over in silence | the user is told that a certificate is gone, and it is still trusted |
| a site is either forgiven or trusted by the user, never both (`UnmixedSites`) | forgiving rewrites the rows of the site whoever made them, and taking the forgiveness back leaves copies: with three certificates and two applications trust outlives it (found by simulation; the instance below does not need the condition) |

The notifier is cancelled, and a session closes, at any time. Not every such cancel is
survived: when the dialog has just closed, its active object is completed twice
(untrustedcertquery.cpp:139); when another request's dialog is above it, the
session's end deletes a handler whose `RunL` is below that dialog
(securitydialognotifiersession.cpp:53); when the start of the request was refused, its message
is completed a second time (securitydialogoperserverauthfail.cpp:123). The model has them as
`lost`, where it stops, and `TrustIsGranted` is checked up to there. That the server survives
is no property here: a condition under which it does is kept by nothing in the code.

Not modelled: that the request is answered in the end (the instance is too large for a
temporal property), the PIN operation, what the application is told (only that it
is), the label that CertSaver adds as a site afterwards. Assumed: a token for trusted
sites is installed.

## 6. What the runs show

For the smart-card server `OrderlySpec` is `Spec` with conditions on clients and
card; each is needed for a property below.

| Condition | Without it |
|---|---|
| well-formed commands (`rawManage`, `noBuffer` excluded) | the message taken from the stack is completed, or dropped, at once, and the rest waits for an idle reader |
| room for the answer of a capability query (`capsNoBuffer` excluded) | the message is completed with the error and its entry stays for the reader (ScardSession.cpp:401-415): it is completed again |
| no negative time-out | the message is completed, and the timer that was not made is used (ScardCommandTimer.cpp:72, ScardAccessControl.cpp:403-411) |
| a close names a logical channel the session is on, with none of its commands on it under way | closing channel 0 makes the next push fail (server panic); a close of someone else's channel shuts it in the card |
| one open at a time | two opens race for the last channel; the second is taken off the stack and refused at once, and the rest waits for an idle reader (run `stall`) |
| the card stays in while a command on a logical channel is at the reader | a cancel takes the entry off and cannot put it back; the answer finds an empty stack, "Message stack fault" (ScardAccessControl.cpp:559) |
| a session is not closed while its command is at the reader | the reader writes into deleted buffers |

| Run | Specification | Question | Instance |
|---|---|---|---|
| `channels` | `OrderlySpec` | all safety properties, and refinement of `CommandLine` | 2 sessions, 3 messages, open, close, transmit on channels 0 and 1, 2 connections |
| `live` | `OrderlyTimedSpec` | every message is answered if the reader does not stay busy for ever; one with a time-out even then, but for a close that waits, which is queued without its timer (ScardSession.cpp:729) | 1 session, 3 messages: transmissions and closes with a time-out, opens without |
| `stall` | `Spec` | **violated**: lost wake-up after two opens race | 4 opens and a transmission |
| `connect` | `ScardConnect!TimedSpec` | no panic; the registries agree; nobody waits behind a reader that nobody uses; connected means open; an attempt with a time-out ends | 2 sessions, 6 kinds of limits |
| `connectcancel` | `ScardConnect!Spec` | **violated**: an attempt that is cancelled while the reader opens leaves the controller without a connector to blame | 2 sessions; the counterexample needs one |
| `connectwait` | `ScardConnect!FairSpec` | **violated**: the time-out of one attempt cancels the opening for all, and another attempt waits for ever | 2 sessions, with and without time-out |
| `gbaorderly` | `OrderlySpec` | the server is not lost, nobody waits in vain, the retriever works only for who waits, credentials belong together, the file holds those of one run, the server does not stop under a session | 2 sessions, a card with GBA_U and one without, 2 runs |
| `gbalive` | `OrderlyFairSpec` | refinement of `BootstrapService`; every request is answered; a cancel that the retriever has heard of ends; credentials from the file are the card's | 1 session, 2 cards, 2 runs |
| `gbaclient` | `GbaClient!FairSpec` | the server has a request of the handler exactly while the handler waits; every bootstrap is reported or cancelled in the end | 1 handler, 2 runs |
| `gbacancel` | `OrderlyFairSpec` | **violated**: a cancel before the HTTP request leaves the session in `ECancel` | 1 session |
| `ocsp` | `OcspCheck!FairSpec` | whoever waits, waits for an object that works for it; good results are proved; refinement of `CertificateCheck`; a check ends | up to 2 certificates, 2 attempts, 3 schemes, a store of 1, 7 kinds of reply |
| `trust` | `ServerAuthFail!OrderlySpec` | a certificate is accepted in silence only where it was granted or is forgiven, whichever questions are cancelled | 2 certificates, 2 sites, 2 requests, 1 application that forgives, 2 entries |

Bounds of the smart-card runs. `MaxSessionID` bounds `iNextSessionID`; a connection uses two IDs (one for
its connector), so 4 means two connections: two clients at once, or one that comes back under a new
ID. Each message is sent once and completed at most once; three messages are the
command at the reader, one that waits, and one behind it, which is the depth at
which the first, the next and the rest of the stack differ. The proofs below
remove these bounds for the safety properties. `CHECK_DEADLOCK FALSE`: clients may
have nothing more to send, and a server that has panicked stops.

Bounds of the GBA runs. Each run is one challenge and can be used once, so two of
them are an old and a new set of credentials, which is what every property about
stale data needs; two sessions are one that authenticates and one that takes what
the file or the card has. Two cards, one with GBA_U, are the old and the new one.
`CHECK_DEADLOCK FALSE`: the runs are used up, and a server that is lost stops.

Bounds of the other runs. In `connect` two sessions are one that opens the reader and one
that waits for the same opening; `MaxSessionID` of 8 leaves room for several attempts, so that each
session comes back after a failure, a time-out or the removal of the card (the safety properties
also held with three sessions). In `ocsp` two certificates are one with an outcome and
one in progress, two attempts are one retry, and the replies are one of each kind a
layer reacts to. In `trust` both requests are about one certificate at one site, whose
subject names the other site, so that trust by request, by name and by forgiveness meet; the second
certificate names none; handles up to 2 allow two copies of a
certificate and the reuse of a handle; others act while at most one request has been made
(`MaxAsked`), so what they leave behind is met by a second request. Requests are
symmetric. Larger instances were only simulated.

Fairness. In `live`, `TimerFair`: an `RTimer` expires, so `TimeOut` is weakly fair per message,
and the active scheduler runs every object whose request was completed, so `RunL` is weakly
fair. Nothing is assumed of the reader: that it does not stay busy for ever is a premise of
`EveryMessageAnswered`. In `ScardConnect`, `SchedulerFair` and `TimerFair` are strong fairness
for what stands behind another active object of the same priority: it has its turn whenever the
others are not ready. `ReaderFair` is only assumed in `FairSpec`, to give the violated property
every chance. Clients and card are never forced to do anything. In `GbaClients`, `Fairness` is:
the active scheduler runs a state machine whose status is complete, and HTTP comes to an end
(`Succeeded` or `HttpFails`), which its own time-outs see to. In `GbaClient` the scheduler runs
the handler, and the server takes messages and answers them, which `gbalive` shows it does. In
`OcspCheck` every object that is ready runs, timers expire, the store and the chain validation
answer, and a connection that is started comes up or fails; that HTTP ends is not assumed:
`CheckEnds` is about checks with a time-out, or about HTTP that always ends. `trust` is about
safety only.

## 7. What is proved

The smart-card server, for every set of sessions, messages and requests
(`RequestsAssumption`: requests are request records) and any number of session
IDs:

- `Typing` (`ScardClientsProofs`): `Spec => []TypeOK`.
- `OnceCompleted` (`ScardClientsProofs`): `BufferedSpec => CompletedOnce`, for clients
  that give every capability query a response descriptor with room, and else do anything:
  close during a command, race for channels, ask for a negative time-out. (Without room
  the entry of a completed message stays at the reader, which is the error of
  ScardSession.cpp:401-415.) The action property does not follow from its own step: completing the
  message of an entry is only harmless because that message still waits. The
  invariant `Accounted` says so: an entry that is not cancelled belongs to a
  message that waits, a cancelled one to a message that does not, and two entries
  that are not cancelled have different messages. It is inductive because cancelling flags or
  deletes exactly the entries whose messages it completes (lemmas about `Keep`
  in `ScardMessageStackProofs`).
- `OrderlyInductive`, and from it `AliveForever`, `NeverStalls`, `ReaderHasFirst`,
  `NothingLost` (`ScardOrderlyProofs`): the safety of orderly clients. The properties
  are not inductive one by one. The server does not panic because the entry at the
  top exists and its session is attached; that needs `ReaderBusy` (the command is
  that of entry 1) and `OnItsChannel` (a waiting entry has an attached session that is on its
  channel, so it can always be pushed back and started); the reader never stalls
  because a message taken from the stack always starts, which for an open needs
  `RoomToOpen`; the channel a card has just opened is free in the table, which
  needs `ClosesPending` and `ReplyIsFree`, relating the table to the closes on their way to
  the card. `Inductive` is the conjunction.
- `AnswersAreOwn`, `ChannelsAreOwned`: `OrderlySpec => []OwnAnswer` and
  `OrderlySpec => []ChannelOwned`, which are parts of that conjunction: an answer is that of
  entry 1, whose message the reader's command belongs to, and a session is put into the table
  only when the card has opened its channel.
- `LineIsKept`: `OrderlySpec => LineSpec`, the server implements `CommandLine`. By `RestWaits` the
  line of a stack is the stack, without its first entry when that is cancelled (`LineShape`).
  Cancelling keeps the order of what stays (`CancelledLine`, which rests on `KeepFollows`: `Keep`
  follows any increasing enumeration of the positions that are kept); a request joins at
  the end (`JoinedLine`); `RunL` serves the first or only takes a cancelled entry away
  (`ServedLine`); everything else stutters.

The GBA server, for every set of sessions, cards and runs (`NothingAssumption`: the
values that stand for nothing are not cards or runs):

- `Typing` (`GbaProofs`): `Spec => []TypeOK`.
- `RetrieverIsOwned`: `Spec => []RetrieverOwned`, for any clients. The invariant `Owned`
  adds what makes it inductive: the client of a session whose machine is active in
  `EInitialize` waits too, which is where a request of the retriever comes from.
- `StopsAlone`: `Spec => []StopsWithoutSessions`, for any clients.
- `NeverLost`, `NoEventIsLost`, `NoWaitIsLost` (`GbaProofs`): `AliveForever`,
  `EventWillCome` and `WaitingIsServed` of `OrderlySpec`. They hold together or not at all:
  a message is completed once because the client waits exactly while its machine works
  for it (`Served`), and the buffer of the key does not overflow because it is empty
  whenever a challenge may come (`KsIsFree`), which depends on how the
  bootstrap before ended and so on what the client was told.

- `CredentialsAreGood`, `FileIsNeverMixed` and `CachedAreOfTheCard` (`GbaProofs`): `OrderlySpec
  => []GoodCredentials`, `[]StoreOfOneRun` and `CachedAreTheCards`. The clients are told
  nothing but what the state machines compute, so the invariant `CredentialsInv` follows a run
  from the challenge to the client: the file is whole and of one run, which its card has
  answered (`FileIsWhole`, `FileIsOfOneRun`); a request of the retriever is for the card in the
  phone, whose file it is (`FetchIsTheCards`); a challenge that was answered and not saved yet
  is nobody else's, and its key is in the buffer or on the card (`RunIsFresh`); buffers with a
  life time hold one run, or are read again before they are used (`Whole`,
  `BuffersAreOfOneRun`): a file that failed half-way leaves a mixture, but it still holds the
  credentials and the next bootstrap of the session reads them over the leftovers
  (`PartlyIsWhole`). What a client is about to get is of one run too (`AnswersAreOfOneRun`).
  `OthersAreOfOneRun` says once why the other sessions keep their part when one changes the
  file or the card's key. When a card with GBA_U has answered and its B-TID has not come,
  `Undisturbed` leaves nothing but the session that gets it (`OnlyTheAwaited`); this is where
  the proof uses that assumption.
- `ServiceIsKept`: `OrderlySpec => ServiceSpec`, the server implements `BootstrapService`. The
  phase the service sees of a session follows from its message and its machine; every step
  leaves the phases of the other sessions alone (`PhasesStay`) and is, for its own, a step of the
  service or a stutter: `ClientIsServed`, `RunLIsServed` and `OutsideIsServed`, one lemma
  for each kind of step. An answer fits its question by `Served` and `OfOneRun`.

The client library of GBA (`GbaClientProofs`), for every set of runs and identities, and an
application that starts and cancels whenever it may:

- `HandlerIsTyped`, `AnswersAreAwaited`: `Spec => []TypeOK` and `[]AnswerIsAwaited`. The server is
  `BootstrapService`, whose actions the proof uses through what they do to one session
  (`MovesIs`, `AnswersAre`). `OneAnswer` is what is missing for induction: a request is on its
  way or with the server, not both, and meanwhile the handler's status is pending. By
  `ServiceIsKept` the server of section 3 is such a server.

The connections of the smart-card server (`ScardConnectProofs`), for every set of sessions,
limits (`LimitsAssumption`: limits are limit records) and any number of session IDs, with
clients that neither cancel nor close during an attempt (`OrderlySpec`):

- `ConnectIsTyped`, `ServerStaysAlive`, `RegistriesAgree`, `ReaderHasOne`, `ConnectedIsOpen`:
  `OrderlySpec => []TypeOK`, `[]ServerAlive`, `[]Registered`, `[]OneAtReader`,
  `[]ConnectedMeansOpen`. They are inductive only together, as `Kept`. A connector deletes
  itself in the middle of the controller's handlers, so what has to be kept is not a fact
  about the states between two steps but about every point at which a handler calls
  `ConnectionDone`: `Sane(w)` is stated of any record `w` of the server's objects, and
  `DoneKeeps` shows that `ConnectionDone` takes a sane one to a sane one. `Agree` and
  `OpenFor` are the checked properties of `w`. `Ids` is what the end of an attempt needs of
  the IDs: those that are new are new, and the connector with which the controller was made
  is attached first. `Queue` says of each entry of the stack whose it is: a command
  belongs to a connected session while the reader is open or about to be; an opening that has
  not succeeded has a connector that is alive, so that a failure finds one to blame.
  `NoticeFits` relates the notifier to the controller: a card is announced before the
  controller has noted the opening, and afterwards the first connector is gone, so its timer
  cannot run between the two (`TimeOutStep`; the time-out of any other connector comes
  after the controller in the scheduler's order).
- The loop of `CardEvent` over a registry that changes while it is walked is a recursive
  function. That it exists (`ChainExists`) and that every turn keeps `Sane` is shown by
  induction over a set of numbers (`Induction`, from `WFMin`), where the operator form of the
  library is out of reach. `AttachedCount` is why the index stays within the registry: a
  client comes in when its connector leaves.

The OCSP client (`OcspCheckProofs`), for every number of certificates, attempts and entries
of the certificate store, every order of the schemes, with repetitions, but at least one, and
every set of replies (`OcspAssumption`: the bounds are natural numbers, replies are reply records,
schemes are among the three there are):

- `ChecksAreTyped`, `NobodyWaitsInVain`, `GoodHasProof`: `Spec => []TypeOK`,
  `[]ChainOfWaits`, `[]GoodIsProved`. There are two invariants in one: `Working` about the
  layers (`ChainOfWaits`, and `Counted`: who works has attempts, a scheme, a caller left), and
  `Recorded` about the records of the check (`Phased`: the state of the client is the phase of the
  check; `Summed`: the summary is the worst of the outcomes before the one in hand; `Proved`: an
  outcome stands for a reply that supports it). The layers below the client leave the
  records alone (`AskingKeeps`); the validator changes only the outcome in hand
  (`RecordsInHand`). Each call into a lower layer has its lemma (`SendKeeps`, `CompleteKeeps`,
  `AnsweredKeeps`, `ProcessSchemeKeeps` ...), which the actions above it share.
- `ChecksAreReported`: `Spec => CheckSpec`, the client implements `CertificateCheck`. Every
  step below the client stutters (`Unseen`, `WorkIsForClient`); an end is a report of the
  worst outcome by `Summed`, or of an error (`EndedIsReported`).

The dialog server, for every set of requests, certificates and sites:

- `TrustIsKept` (`ServerAuthFailProofs`): `OrderlySpec => []TrustIsGranted`. The dialogs only
  decide who has said what, so the proof needs no more of them than `Shapes`, which operations
  there are. The invariant `TrustKept` says of every row who has made it (`StoreKept`): a row
  of an application is of a site it forgave; any other has a CertID, and the certificate with
  that fingerprint was meant for the row's site, by the user or because it was seen at a
  forgiven site that still has a row with the same CertID (`RowsAreMeant`). One lemma per
  request (`AddSiteKeeps`, `AddCertKeeps`, `OverWriteKeeps`, `IsTrustedSiteKeeps`,
  `AddForgivenSiteKeeps`, `RemoveCertKeeps`, `RemoveForgivenSitesKeeps`) shows it of every
  outcome, the ones that failed half-way included. It needs what the tables promise: numbers
  and handles that are new (`FreshIsNew`, `NextHandleIsNew`), one row per fingerprint, and only
  one row of a forgiven site that has shown no certificate (`FirstIsAlone`), without which the
  UPDATE of `DoOverWriteCertL` would give a CertID to more rows than it means. `UnmixedSites`
  is used there, and `BeingSaved` where the user removes a certificate whose site is not added
  yet.

Every invariant, safety action property and refinement that a passing run checks is proved.
Only model-checked: liveness (`EveryMessageAnswered`, `TimedMessageAnswered`,
`TimedConnectEnds`, `Answered`, `HeardCancelEnds`, `Reported`, `CheckEnds`), which needs
ENABLED and fairness and so is out of the prover's reach; and the four violations, which are
counterexamples.

## 8. Plan

1. Proofs: that the connections implement an abstract specification of their own (an attempt
   is answered once, and not before its reader is open).
2. `SwimReader`: the Etel sub-sessions behind the reader interface, cancel against late
   completion; then a run that composes connections and channels.
3. `DevEncStarter`, Autolock and the remote lock, each with its settings and their saves.
4. The key store of the device token server, the timers of the WIM server.

## 9. Not modelled

`PROJECT.json` gives the reason per component. In short: the WIM server works on a library
(WIMI) and the security dialogs on a phone server that are not in the repository; CMS,
PKCS#12 and the name parser compute over ASN.1 and cryptography and keep nothing
between calls; the integrity check runs once and alone; the control panel plug-ins, CertmanUi,
SecModUI and CTSecurityDialogs are views. Most of the repository's lines are of these kinds.
The key store, the PIN dialogs, Autolock, the remote lock and the encryption starter have state
worth a model and are left to the plan. Lack of memory is left out everywhere, except where a
handler treats it apart (`StartWithoutMemory`).
