----------------------------- MODULE GbaServer -----------------------------
(***************************************************************************)
(* The server of the Generic Bootstrapping Architecture: its sessions, the *)
(* state machine that each session owns (C3GPPBootstrap, an active         *)
(* object), the retriever that talks HTTP to the bootstrapping server      *)
(* (CDataRetriever), and the credentials: in the memory of each state      *)
(* machine, in the file all sessions share, and on the card.               *)
(*                                                                         *)
(* The server is one thread; a message, the RunL of an active object and   *)
(* an HTTP event each run to their end before the next one starts.         *)
(*                                                                         *)
(* A "run" stands for one authentication challenge of the bootstrapping    *)
(* server and for all that belongs to it: the key Ks, the B-TID and the    *)
(* life time.  Credentials are good when B-TID and key are of one run.     *)
(***************************************************************************)
EXTENDS FiniteSets

CONSTANTS
    Sessions,   \* sessions of clients
    Impi,       \* identities of cards
    GbaU,       \* those of cards that keep Ks to themselves (GBA_U)
    Runs,       \* challenges of the bootstrapping server (a bound when finite)
    NoImpi,     \* an identity buffer that is empty, a file that is not there
    NoRun       \* a key, B-TID or life time that is not there

ASSUME NothingAssumption == NoImpi \notin Impi /\ NoRun \notin Runs

VARIABLES
    message,    \* what the client of a session waits for (iMessage)
    answer,     \* the last completion the client has seen
    force,      \* iFlags of the request: EGBAForce
    machine,    \* iBSState, and the active object: IsActive, iStatus
    fetch,      \* iInternalState, and the HTTP transaction
    memory,     \* the buffers of C3GPPBootstrap
    output,     \* B-TID and Ks_NAF for the client (iGbaOutputParams), set as one:
                \* what a leave between the two leaves there is never sent
    interface,  \* iCardInterface = EGBAUInterface, in the plug-in of a session
    store,      \* the file of credentials
    card,       \* the identity of the card that is in the phone
    cardKs,     \* the key a GBA_U card keeps
    owner,      \* the identity that a challenge was answered for
    expired,    \* the runs whose life time is over
    shutdown,   \* the timer that ends a server without sessions
    fault       \* how the server was lost

sessionVars == <<message, answer, force, machine, fetch, memory, output, interface>>
cardVars == <<card, cardKs, owner, expired>>
vars == <<sessionVars, store, cardVars, shutdown, fault>>

RunOrNone == Runs \union {NoRun}
Identity == Impi \union {NoImpi}
BootstrapStates == {"EIdle", "EInitialize", "EBusy", "ECancel"}
Codes == {"none", "KErrNone", "KErrCancel", "KErrInUse", "failed"}

Answers == [code : Codes, btid : RunOrNone, key : RunOrNone, identity : Identity]
Machines == [state : BootstrapStates, active : BOOLEAN,
             status : {"pending", "KErrNone", "KErrCancel", "failed"}]
Fetches == [called : BOOLEAN, for : Identity, run : RunOrNone]
Memories == [identity : Identity, btid : RunOrNone, ks : RunOrNone,
             lifetime : RunOrNone, gbau : BOOLEAN]
Outputs == [btid : RunOrNone, key : RunOrNone, identity : Identity]
Stores == [impi : Identity, gbau : BOOLEAN, btid : RunOrNone, ks : RunOrNone,
           lifetime : RunOrNone]

\* Only KErrNone carries credentials.  Ks_NAF is computed from a key and an identity.
\* Mutant: the identity is not passed on.
AnswerWithoutIdentity(code, o) == [code |-> code, btid |-> o.btid, key |-> o.key]
Answer(code, o) ==
    [code |-> code, btid |-> o.btid, key |-> o.key, identity |-> o.identity]
Plain(code) == [code |-> code, btid |-> NoRun, key |-> NoRun, identity |-> NoImpi]

Idle == [state |-> "EIdle", active |-> FALSE, status |-> "KErrNone"]
NoFetch == [called |-> FALSE, for |-> NoImpi, run |-> NoRun]
NoMemory == [identity |-> NoImpi, btid |-> NoRun, ks |-> NoRun,
             lifetime |-> NoRun, gbau |-> FALSE]
NoStore == [impi |-> NoImpi, gbau |-> FALSE, btid |-> NoRun, ks |-> NoRun,
            lifetime |-> NoRun]
NoOutput == [btid |-> NoRun, key |-> NoRun, identity |-> NoImpi]

Init ==
    /\ message = [s \in Sessions |-> "closed"]
    /\ answer = [s \in Sessions |-> Plain("none")]
    /\ force = [s \in Sessions |-> FALSE]
    /\ machine = [s \in Sessions |-> Idle]
    /\ fetch = [s \in Sessions |-> NoFetch]
    /\ memory = [s \in Sessions |-> NoMemory]
    /\ output = [s \in Sessions |-> NoOutput]
    /\ interface = [s \in Sessions |-> FALSE]
    /\ store = NoStore
    /\ card \in Impi
    /\ cardKs = [i \in Impi |-> NoRun]
    /\ owner = [k \in Runs |-> NoImpi]
    /\ expired = {}
    /\ shutdown = "running"
    /\ fault = "none"

Alive == fault = "none"
Open(s) == Alive /\ message[s] # "closed"

-----------------------------------------------------------------------------
(***************************************************************************)
(* Completing the message of a session.  It is there to be completed once: *)
(* a second completion uses a handle that is gone, and the server is       *)
(* panicked.                                                               *)
(***************************************************************************)
Completes(s, a) ==
    IF message[s] = "waiting"
    THEN /\ message' = [message EXCEPT ![s] = "none"]
         /\ answer' = [answer EXCEPT ![s] = a]
         /\ UNCHANGED fault
    ELSE /\ fault' = "stale message"
         /\ UNCHANGED <<message, answer>>

\* Mutants: the client is not answered, or the machine stays active.
RunErrorSilent(s, active) ==
    /\ UNCHANGED <<message, answer, fault>>
    /\ machine' = [machine EXCEPT ![s] = Idle]
RunErrorActive(s, active) ==
    /\ Completes(s, Plain("failed"))
    /\ machine' = [machine EXCEPT ![s] =
          [state |-> "EIdle", active |-> TRUE, status |-> "pending"]]

\* RunError: the client gets the error, and the state machine is idle; its
\* buffers keep what they hold, and it may still be active.
RunError(s, active) ==
    /\ Completes(s, Plain("failed"))
    /\ machine' = [machine EXCEPT ![s] = [state |-> "EIdle", active |-> active,
                       status |-> IF active THEN "pending" ELSE "KErrNone"]]

-----------------------------------------------------------------------------
(***************************************************************************)
(* Messages of a client.                                                   *)
(***************************************************************************)
\* The server is started when it is not there; its timer is cancelled.
OpenSession(s) ==
    /\ Alive /\ message[s] = "closed"
    /\ message' = [message EXCEPT ![s] = "none"]
    /\ answer' = [answer EXCEPT ![s] = Plain("none")]
    /\ interface' = [interface EXCEPT ![s] = card \in GbaU]
    /\ shutdown' = "off"
    /\ UNCHANGED <<force, machine, fetch, memory, output, store, cardVars, fault>>

\* The state machine finds no plug-in, or the plug-in no card that it can read:
\* NewL leaves, and the destructor asks a session without a server for it.
OpenFails(s) ==
    /\ Alive /\ message[s] = "closed"
    /\ fault' = "no server"
    /\ UNCHANGED <<sessionVars, store, cardVars, shutdown>>

\* A request while the state machine is not idle is answered at once; one
\* that finds the state machine idle but active leaves, which answers it too.
RequestBootstrap(s, f) ==
    /\ Open(s)
    /\ IF machine[s].state = "EIdle" /\ ~machine[s].active
       THEN /\ message' = [message EXCEPT ![s] = "waiting"]
            /\ force' = [force EXCEPT ![s] = f]
            /\ machine' = [machine EXCEPT ![s] =
                  [state |-> "EInitialize", active |-> TRUE, status |-> "KErrNone"]]
            /\ UNCHANGED answer
       ELSE /\ answer' = [answer EXCEPT ![s] = Plain("KErrInUse")]
            /\ UNCHANGED <<message, force, machine>>
    /\ UNCHANGED <<fetch, memory, output, interface, store, cardVars, shutdown, fault>>

\* The retriever, if it has a request, gives it up with KErrCancel; the
\* message of the bootstrap is completed whatever the state machine does.
CancelRequest(s) ==
    /\ Open(s) /\ machine[s].state # "EIdle"
    /\ machine' = [machine EXCEPT ![s].state = "ECancel",
                      ![s].status = IF fetch[s].called THEN "KErrCancel" ELSE @]
    /\ fetch' = [fetch EXCEPT ![s] = NoFetch]
    /\ Completes(s, Plain("KErrCancel"))
    /\ UNCHANGED <<force, memory, output, interface, store, cardVars, shutdown>>

\* A request of another size than it should be overwrites iMessage, but is
\* answered at once.
BadRequest(s) ==
    /\ Open(s) /\ machine[s].state = "EIdle"
    /\ answer' = [answer EXCEPT ![s] = Plain("failed")]
    /\ UNCHANGED <<message, force, machine, fetch, memory, output, interface, store,
                   cardVars, shutdown, fault>>

(***************************************************************************)
(* What CheckGBAUAvailabilityL finds for the card i: a file of another     *)
(* card is deleted, and the plug-in looks at the card again; a new file    *)
(* holds the identity and what the plug-in says of GBA_U.                  *)
(***************************************************************************)
OtherCard(i) == store.impi \notin {i, NoImpi}
InterfaceAfter(s, i) == IF OtherCard(i) THEN i \in GbaU ELSE interface[s]
\* Mutant: the identity in the file is not compared.
StoreAfterAny(s, i) ==
    IF store.impi # NoImpi THEN store
    ELSE [NoStore EXCEPT !.impi = i, !.gbau = InterfaceAfter(s, i)]
StoreAfter(s, i) ==
    IF store.impi = i THEN store
    ELSE [NoStore EXCEPT !.impi = i, !.gbau = InterfaceAfter(s, i)]

CheckDone(s) ==
    /\ store' = StoreAfter(s, card)
    /\ interface' = [interface EXCEPT ![s] = InterfaceAfter(s, card)]

\* The card fails, or the file, or the plug-in: before the plug-in is told of
\* another card, or after it, when the file may be deleted already.
CheckLeaves(s) ==
    \/ /\ \E i \in {NoImpi, card} : memory' = [memory EXCEPT ![s].identity = i]
       /\ UNCHANGED <<store, interface>>
    \/ /\ memory' = [memory EXCEPT ![s].identity = card]
       /\ OtherCard(card) /\ store' \in {store, NoStore}
       /\ interface' = [interface EXCEPT ![s] = card \in GbaU]

\* The identity buffer is the one a bootstrap under way uses too.
IsGBAUSupported(s) ==
    /\ Open(s)
    /\ \/ memory' = [memory EXCEPT ![s].identity = card] /\ CheckDone(s)
       \/ CheckLeaves(s)
    /\ UNCHANGED <<message, answer, force, machine, fetch, output, cardVars,
                   shutdown, fault>>

\* Mutant: the timer starts with every session that is closed.
AnySession(s) == TRUE
LastSession(s) == \A t \in Sessions \ {s} : message[t] = "closed"

\* The destructor of the state machine cancels it, which waits for its
\* status; with nobody left to complete it, it waits for ever.
CloseSession(s) ==
    /\ Open(s)
    /\ IF machine[s].active /\ machine[s].status = "pending" /\ ~fetch[s].called
       THEN /\ fault' = "hang"
            /\ UNCHANGED <<sessionVars, shutdown>>
       ELSE /\ message' = [message EXCEPT ![s] = "closed"]
            /\ machine' = [machine EXCEPT ![s] = Idle]
            /\ fetch' = [fetch EXCEPT ![s] = NoFetch]
            /\ memory' = [memory EXCEPT ![s] = NoMemory]
            /\ output' = [output EXCEPT ![s] = NoOutput]
            /\ answer' = [answer EXCEPT ![s] = Plain("none")]
            /\ interface' = [interface EXCEPT ![s] = FALSE]
            /\ force' = [force EXCEPT ![s] = FALSE]
            /\ shutdown' = IF LastSession(s) THEN "running" ELSE shutdown
            /\ UNCHANGED fault
    /\ UNCHANGED <<store, cardVars>>

-----------------------------------------------------------------------------
(***************************************************************************)
(* A bootstrap begins: the identity of the card, GBA_U, and credentials of *)
(* the file, unless the client forces a new bootstrap.                     *)
(***************************************************************************)
Checked(s) ==
    [memory[s] EXCEPT !.identity = card, !.gbau = StoreAfter(s, card).gbau]

\* What the file does not hold, LoadCredentialsL leaves in its buffer.
Loaded(s) ==
    LET file == StoreAfter(s, card)
        Read(entry, buffer) == IF entry = NoRun THEN buffer ELSE entry
    IN  [Checked(s) EXCEPT !.btid = Read(file.btid, @),
                           !.ks = Read(file.ks, @),
                           !.lifetime = Read(file.lifetime, @)]

Cached(s) == ~force[s] /\ Loaded(s).lifetime \notin expired \union {NoRun}

\* Credentials that are not valid are cleared; a forced bootstrap leaves the
\* buffers as they are (Prepared).

\* Mutant: credentials that are not valid stay in the buffers.
PreparedUncleared(s) == IF force[s] THEN Checked(s) ELSE Loaded(s)
Prepared(s) ==
    IF force[s] THEN Checked(s)
    ELSE IF Cached(s) THEN Loaded(s)
    ELSE [Loaded(s) EXCEPT !.btid = NoRun, !.ks = NoRun, !.lifetime = NoRun]

\* Mutant: the key in memory is used for GBA_U as well.
CredentialsOfMemory(u, m) == [btid |-> m.btid, identity |-> m.identity, key |-> m.ks]

\* Ks_NAF, for a plug-in with the GBA_U interface or without: from the key on
\* the card, which may have none, or from the buffer, where an empty one is
\* taken for a key.
CardHasKey(u) == u => cardKs[card] # NoRun
Credentials(u, m) ==
    [btid |-> m.btid, identity |-> m.identity,
     key |-> IF u THEN cardKs[card] ELSE IF m.gbau THEN NoRun ELSE m.ks]

Starts(s) == /\ Alive /\ machine[s].active
             /\ machine[s].state = "EInitialize" /\ machine[s].status = "KErrNone"

\* The credentials of the file are valid: the state machine completes itself.
RunCached(s) ==
    /\ Starts(s) /\ Cached(s)
    /\ CheckDone(s) /\ CardHasKey(InterfaceAfter(s, card))
    /\ memory' = [memory EXCEPT ![s] = Loaded(s)]
    /\ output' = [output EXCEPT ![s] =
          Credentials(InterfaceAfter(s, card), Loaded(s))]
    /\ machine' = [machine EXCEPT ![s].state = "EBusy"]
    /\ UNCHANGED <<message, answer, force, fetch, cardVars, shutdown, fault>>

\* The retriever sends its request; it answers by the status of the state machine.
RunFetch(s) ==
    /\ Starts(s) /\ ~Cached(s)
    /\ CheckDone(s)
    /\ memory' = [memory EXCEPT ![s] = Prepared(s)]
    /\ machine' = [machine EXCEPT ![s] =
          [state |-> "EBusy", active |-> TRUE, status |-> "pending"]]
    /\ fetch' = [fetch EXCEPT ![s] = [called |-> TRUE, for |-> card, run |-> NoRun]]
    /\ UNCHANGED <<message, answer, force, output, cardVars, shutdown, fault>>

\* MakeRequestL leaves, for instance without a connection: RunError answers
\* the client, but the state machine is active, with nobody to complete it.
RunConnectFails(s) ==
    /\ Starts(s) /\ ~Cached(s)
    /\ CheckDone(s)
    /\ memory' = [memory EXCEPT ![s] = Prepared(s)]
    /\ RunError(s, TRUE)
    /\ UNCHANGED <<force, fetch, output, cardVars, shutdown>>

\* The buffers when the file fails: of the entries it holds, Ks, B-TID and life
\* time are read in this order.  (An entry that opens is taken to be read.)
PartlyLoaded(s) ==
    {[Checked(s) EXCEPT !.ks = Loaded(s).ks],
     [Checked(s) EXCEPT !.ks = Loaded(s).ks, !.btid = Loaded(s).btid],
     Checked(s), Loaded(s)}

\* The card, the file or the home network fails before the request is made.
RunLeaves(s) ==
    /\ Starts(s)
    /\ \/ CheckLeaves(s)
       \/ CheckDone(s) /\ memory' = [memory EXCEPT ![s] = Prepared(s)]
       \/ /\ CheckDone(s) /\ ~force[s]
          /\ \E m \in PartlyLoaded(s) : memory' = [memory EXCEPT ![s] = m]
    /\ RunError(s, FALSE)
    /\ UNCHANGED <<force, fetch, output, cardVars, shutdown>>

-----------------------------------------------------------------------------
(***************************************************************************)
(* The retriever has completed the state machine, or a cancel has.         *)
(***************************************************************************)
Signalled(s) == Alive /\ machine[s].active /\ machine[s].status # "pending"

\* The credentials go to the client, if its buffer takes them; the buffers are cleared.
RunDone(s) ==
    /\ Signalled(s)
    /\ machine[s].state = "EBusy" /\ machine[s].status = "KErrNone"
    /\ \E a \in {Answer("KErrNone", output[s]), Plain("failed")} : Completes(s, a)
    /\ machine' = [machine EXCEPT ![s] = Idle]
    /\ memory' = [memory EXCEPT ![s] = NoMemory]
    /\ UNCHANGED <<force, fetch, output, interface, store, cardVars, shutdown>>

RunFailed(s) ==
    /\ Signalled(s)
    /\ machine[s].status = "failed"
    /\ RunError(s, FALSE)
    /\ UNCHANGED <<force, fetch, memory, output, interface, store, cardVars, shutdown>>

\* Mutant: the test for a cancel looks for the wrong state.
RunCancelledBusy(s) ==
    /\ Signalled(s)
    /\ machine[s].state = "EBusy" /\ machine[s].status = "KErrCancel"
    /\ machine' = [machine EXCEPT ![s] = Idle]
    /\ UNCHANGED <<message, answer, force, fetch, memory, output, interface,
                   store, cardVars, shutdown, fault>>
RunCancelled(s) ==
    /\ Signalled(s)
    /\ machine[s].state = "ECancel" /\ machine[s].status = "KErrCancel"
    /\ machine' = [machine EXCEPT ![s] = Idle]
    /\ UNCHANGED <<message, answer, force, fetch, memory, output, interface,
                   store, cardVars, shutdown, fault>>

\* A cancel that the retriever did not hear of: RunL does nothing, and the
\* state machine stays in ECancel.
RunIgnored(s) ==
    /\ Signalled(s)
    /\ machine[s].state = "ECancel" /\ machine[s].status = "KErrNone"
    /\ machine' = [machine EXCEPT ![s].active = FALSE]
    /\ UNCHANGED <<message, answer, force, fetch, memory, output, interface,
                   store, cardVars, shutdown, fault>>

RunL(s) ==
    \/ RunCached(s) \/ RunFetch(s) \/ RunConnectFails(s) \/ RunLeaves(s)
    \/ RunDone(s) \/ RunFailed(s) \/ RunCancelled(s) \/ RunIgnored(s)
-----------------------------------------------------------------------------
(***************************************************************************)
(* HTTP.  The bootstrapping server challenges the identity of the request; *)
(* only the card of that identity can answer.                              *)
(***************************************************************************)
\* Mutants: the retriever is not ready afterwards, or does not complete.
ReportsTwice(s, status) ==
    /\ machine' = [machine EXCEPT ![s].status = status]
    /\ UNCHANGED fetch
ReportsNothing(s, status) ==
    /\ UNCHANGED machine
    /\ fetch' = [fetch EXCEPT ![s] = NoFetch]

\* The retriever reports its end once, and is ready for the next request.
Reports(s, status) ==
    /\ machine' = [machine EXCEPT ![s].status = status]
    /\ fetch' = [fetch EXCEPT ![s] = NoFetch]

\* The authentication makes a key; with GBA_U it replaces the one on the card.
CardKsAfter(s, k) == IF interface[s] THEN [cardKs EXCEPT ![card] = k] ELSE cardKs

\* The key that a card gives away is appended to the buffer of Ks, which has
\* room for one.  A card with GBA_U has no key to
\* give away, and the request fails.
Challenge(s, k) ==
    /\ Alive /\ fetch[s].called /\ fetch[s].for = card /\ owner[k] = NoImpi
    /\ interface[s] => card \in GbaU
    /\ owner' = [owner EXCEPT ![k] = card]
    /\ cardKs' = CardKsAfter(s, k)
    /\ LET keeps == ~interface[s] /\ ~memory[s].gbau
       IN  /\ fault' = IF keeps /\ memory[s].ks # NoRun THEN "overflow" ELSE fault
           /\ memory' = IF keeps /\ memory[s].ks = NoRun
                        THEN [memory EXCEPT ![s].ks = k] ELSE memory
    /\ IF interface[s] /\ ~memory[s].gbau
       THEN Reports(s, "failed")
       ELSE fetch' = [fetch EXCEPT ![s].run = k] /\ UNCHANGED machine
    /\ UNCHANGED <<message, answer, force, output, interface, store, card, expired,
                   shutdown>>

Received(s, k) == [memory[s] EXCEPT !.btid = k, !.lifetime = k]

\* Mutant: the key is not written.
StoredWithOldKey(m) == [store EXCEPT !.impi = m.identity, !.btid = m.btid,
                                     !.lifetime = m.lifetime]

Stored(m) == [store EXCEPT !.impi = m.identity, !.btid = m.btid,
                           !.lifetime = m.lifetime,
                           !.ks = IF m.gbau THEN NoRun ELSE m.ks]

\* CompleteBootStrappingL: the B-TID and the life time are read, saved, and
\* Ks_NAF is computed.  It may leave at each of these steps.
Succeeded(s) ==
    /\ Alive /\ fetch[s].called /\ fetch[s].run # NoRun
    /\ LET m == Received(s, fetch[s].run)
       IN  \/ /\ \/ UNCHANGED memory
                 \/ memory' = [memory EXCEPT ![s].btid = m.btid]
                 \/ memory' = [memory EXCEPT ![s] = m]
              /\ Reports(s, "failed")
              /\ UNCHANGED <<store, output>>
           \/ /\ memory' = [memory EXCEPT ![s] = m]
              /\ store' = Stored(m)
              /\ \/ Reports(s, "failed") /\ UNCHANGED output
                 \/ /\ CardHasKey(interface[s]) /\ Reports(s, "KErrNone")
                    /\ output' = [output EXCEPT ![s] = Credentials(interface[s], m)]
    /\ UNCHANGED <<message, answer, force, interface, cardVars, shutdown, fault>>

\* No answer, a wrong one, a challenge the card refuses.
HttpFails(s) ==
    /\ Alive /\ fetch[s].called
    /\ Reports(s, "failed")
    /\ UNCHANGED <<message, answer, force, memory, output, interface, store, cardVars,
                   shutdown, fault>>

-----------------------------------------------------------------------------
(***************************************************************************)
(* The phone: another card, the passing of time.                           *)
(***************************************************************************)
ChangeCard(i) ==
    /\ Alive /\ i # card
    /\ card' = i
    /\ UNCHANGED <<sessionVars, store, cardKs, owner, expired, shutdown, fault>>

Expire(k) ==
    /\ Alive /\ owner[k] # NoImpi /\ k \notin expired
    /\ expired' = expired \union {k}
    /\ UNCHANGED <<sessionVars, store, card, cardKs, owner, shutdown, fault>>

Stop ==
    /\ Alive /\ shutdown = "running"
    /\ shutdown' = "stopped"
    /\ UNCHANGED <<sessionVars, store, cardVars, fault>>

Http(s) == (\E k \in Runs : Challenge(s, k)) \/ Succeeded(s) \/ HttpFails(s)

Client(s) ==
    \/ OpenSession(s) \/ OpenFails(s) \/ BadRequest(s) \/ CancelRequest(s) \/ IsGBAUSupported(s) \/ CloseSession(s)
    \/ \E f \in BOOLEAN : RequestBootstrap(s, f)

Environment == (\E i \in Impi : ChangeCard(i)) \/ (\E k \in Runs : Expire(k)) \/ Stop

Next == Environment \/ \E s \in Sessions : Client(s) \/ RunL(s) \/ Http(s)

Spec == Init /\ [][Next]_vars
=============================================================================
