--------------------------- MODULE ServerAuthFail ---------------------------
(***************************************************************************)
(* The question "this server's certificate is not trusted, go on?"         *)
(*                                                                         *)
(* An application's secure connection fails on the server's certificate    *)
(* and asks the notifier plug-in of the UI server                          *)
(* (pkiutilities/securitydialognotifier), which forwards the request to    *)
(* the dialog server (pkiutilities/securitydialognotifiersrv).  There a    *)
(* CServerAuthFailOperation looks the certificate up in TrustStore, one    *)
(* call per RunL, and shows the dialog when it is not found.  The dialog   *)
(* waits in a nested loop of the active scheduler, in which the server     *)
(* goes on serving everybody: the waits of two requests are a stack, and   *)
(* only the innermost can return.                                          *)
(*                                                                         *)
(* Meanwhile the user removes and saves certificates and applications      *)
(* forgive sites, through other sessions of the device token server.       *)
(***************************************************************************)
EXTENDS TrustStore, Sequences, SequencesExt

CONSTANTS
    Requests,  \* requests of applications; each is made once
    CertOf, SiteOf, \* the certificate a request is about, and its server
    Forgivings, \* <<application, site, out of date allowed>>
    Expired,   \* the requests whose failure reason is EDateOutOfRange
    NoRequest,
    NoCert,
    MaxHandle, \* bound: the user saves no entry beyond it
    MaxAsked   \* bound: others act while no more requests have been made

ASSUME RequestAssumption ==
    /\ CertOf \in [Requests -> Certs] /\ SiteOf \in [Requests -> Sites]
    /\ Expired \subseteq Requests
    /\ NoRequest \notin Requests /\ NoCert \notin Certs
    /\ Forgivings \subseteq Apps \X Sites \X BOOLEAN
    /\ MaxHandle \in Nat /\ MaxAsked \in Nat

VARIABLES
    store,     \* the device token server's stores
    app,       \* an application: "idle", "waiting" or "told" a result
    current,   \* the notifier's iSecurityDialogs
    deleted,   \* iIsSecurityDialogsDeleted, one flag for all of them
    message,   \* the dialog server's message: "none", "open" or the result,
               \* until the application is told
    session,   \* its session: "none", "open", "closing"
    op,        \* the operation handler: [mode, todo, got]
    query,     \* its dialog: "none", "shown", "closed", "stopped", "cancelled"
    answer,    \* what the user answered
    waits,     \* the nested waits, the innermost last
    lost,      \* the dialog server has crashed or will misbehave
    granted,   \* <<cert, site>>: the user said to trust it, and has not removed it
    shown,     \* <<cert, site>>: the certificate was seen at a forgiven site
    forgave    \* <<app, site>>: the application forgave it, not taken back

vars == <<store, app, current, deleted, message, session, op, query, answer,
          waits, lost, granted, shown, forgave>>
dialogVars == <<app, current, deleted, message, session, op, query, answer,
                waits, lost>>
trustVars == <<store, granted, shown, forgave>>

NoOperation == [mode |-> "none", todo |-> {}, got |-> NoCert]
Ended == [NoOperation EXCEPT !.mode = "ended"]
Answers == {"rejected", "accepted", "permanently", "error"}
LookupModes == {"EInitialiseCertStore", "EListTrustedSiteCerts",
                "ERetrieveTrustedSiteCert", "ESavingServerCert"}

Init ==
    /\ store = NoRecords
    /\ app = [q \in Requests |-> "idle"]
    /\ current = NoRequest
    /\ deleted = FALSE
    /\ message = [q \in Requests |-> "none"]
    /\ session = [q \in Requests |-> "none"]
    /\ op = [q \in Requests |-> NoOperation]
    /\ query = [q \in Requests |-> "none"]
    /\ answer = [q \in Requests |-> "none"]
    /\ waits = <<>>
    /\ lost = FALSE
    /\ granted = {}
    /\ shown = {}
    /\ forgave = {}
-----------------------------------------------------------------------------
(* The notifier plug-in. *)

\* In the dialog server the innermost wait returns as soon as it has been
\* stopped, before the server takes another request or anything else runs.
Returning == waits # <<>> /\ query[Last(waits)] \in {"stopped", "cancelled"}

\* Deleting a CSecurityDialogs cancels its operation and tells the
\* application.  In the server the operation's active object or its dialog is
\* cancelled, and the handler stays until the session is closed.  A dialog that
\* has closed is completed a second time, and that signal is nobody's; so is the
\* message of an operation that could not start.
DeleteDialogs(q) ==
    /\ ~lost /\ ~Returning
    /\ deleted' = TRUE
    /\ current' = NoRequest
    /\ session' = [session EXCEPT ![q] = "closing"]
    /\ message' = [message EXCEPT ![q] = "none"]
    /\ op' = [op EXCEPT ![q] = IF @.mode \in LookupModes THEN Ended ELSE @]
    /\ query' = [query EXCEPT ![q] = IF @ \in {"shown", "closed"} THEN "cancelled"
                                     ELSE @]
    /\ lost' = (query[q] = "closed" \/ op[q].mode = "refused")

\* StartL and the server's ServiceL: nothing of the server's state changes
\* between the two.
Asks(q, reply, mode) ==
    /\ app[q] = "idle"
    /\ app' = [app EXCEPT ![q] = "waiting"]
    /\ current' = q
    /\ deleted' = FALSE
    /\ message' = [message EXCEPT ![q] = reply]
    /\ session' = [session EXCEPT ![q] = "open"]
    /\ op' = [op EXCEPT ![q].mode = mode]
    /\ UNCHANGED <<query, answer, waits, lost, trustVars>>

StartL(q) == Asks(q, "open", "EInitialiseCertStore")

\* The operation cannot be made, or cannot start: ServiceL completes the message
\* with the error, and a handler that was made keeps its own copy of it.
StartIsRefused(q) ==
    \E mode \in {"none", "refused"} : Asks(q, "error", mode)

\* There is no connection to the server: the new CSecurityDialogs goes at once.
StartFails(q) ==
    /\ app[q] = "idle"
    /\ app' = [app EXCEPT ![q] = "told"]
    /\ current' = NoRequest
    /\ deleted' = TRUE
    /\ UNCHANGED <<message, session, op, query, answer, waits, lost, trustVars>>

\* There is no memory for a new CSecurityDialogs: the one that goes is the one
\* of the request before.
StartWithoutMemory(q) ==
    /\ app[q] = "idle"
    /\ current # NoRequest /\ ~deleted
    /\ DeleteDialogs(current)
    /\ app' = [app EXCEPT ![q] = "told", ![current] = "told"]
    /\ UNCHANGED <<answer, waits, trustVars>>

\* An application cancels its notifier; the plug-in cancels the request that
\* was started last, whoever asks, or none if any has ended since.
CancelNotifier ==
    /\ current # NoRequest
    /\ ~deleted
    /\ DeleteDialogs(current)
    /\ app' = [app EXCEPT ![current] = "told"]
    /\ UNCHANGED <<answer, waits, trustVars>>

\* The server has answered: the application is told, the session is closed.
DialogsRunL(q) ==
    /\ app[q] = "waiting"
    /\ message[q] # "open"
    /\ app' = [app EXCEPT ![q] = "told"]
    /\ message' = [message EXCEPT ![q] = "none"]
    /\ deleted' = TRUE
    /\ session' = [session EXCEPT ![q] = "closing"]
    /\ UNCHANGED <<current, op, query, answer, waits, lost, trustVars>>
-----------------------------------------------------------------------------
(* The dialog server: one thread, one scheduler. *)

Runs(q, mode) == ~lost /\ ~Returning /\ op[q].mode = mode

\* Operations that leave: RunError.  The handler stays.
OperationError(q) ==
    /\ op' = [op EXCEPT ![q] = Ended]
    /\ message' = [message EXCEPT ![q] = IF @ = "open" THEN "error" ELSE @]
    /\ UNCHANGED lost

\* ReturnResultL; the observer deletes the handler.  A message that was
\* completed before cannot be written to.
ReturnResult(q, result) ==
    /\ message' = [message EXCEPT ![q] = result]
    /\ op' = [op EXCEPT ![q] = NoOperation]
    /\ lost' = (lost \/ message[q] # "open")

\* Any call of a step may leave before it changes anything.
OperationFails(q) ==
    /\ \E mode \in LookupModes : Runs(q, mode)
    /\ OperationError(q)
    /\ UNCHANGED <<app, current, deleted, session, query, answer, waits, trustVars>>

\* ShowUntrustedCertificateDialogL, up to the wait.
ShowQuery(q) ==
    /\ query' = [query EXCEPT ![q] = "shown"]
    /\ waits' = Append(waits, q)
    /\ op' = [op EXCEPT ![q].mode = "query", ![q].todo = {}, ![q].got = NoCert]

\* RetrieveNextTrustedSiteCertL: the next certificate of the list is read now,
\* from the store as it is now; it is compared in the next step.
RetrieveNext(q, todo) ==
    IF todo = {}
    THEN ShowQuery(q)
    ELSE LET read == {e.cert : e \in {f \in store.entries : f.handle = Min(todo)}}
         IN  /\ op' = [op EXCEPT ![q] =
                  [mode |-> "ERetrieveTrustedSiteCert", todo |-> todo \ {Min(todo)},
                   got |-> IF read = {} THEN NoCert ELSE CHOOSE c \in read : TRUE]]
             /\ UNCHANGED <<query, waits>>

\* IsAlreadyTrustedSiteL, and the list or the dialog.  Whether out of date is
\* allowed is a request of its own; when it fails, that counts as no.
ProcessServerAuthorizationFailure(q) ==
    /\ Runs(q, "EInitialiseCertStore")
    /\ \E o \in IsTrustedSite(store, CertOf[q], SiteOf[q]) :
       \E allowed \in {IsOutOfDateAllowed(o.st, CertOf[q], SiteOf[q]), FALSE} :
           /\ store' = o.st
           /\ shown' = IF IsForgivenSite(store, SiteOf[q])
                       THEN shown \cup {<<CertOf[q], SiteOf[q]>>} ELSE shown
           /\ IF /\ o.told = "KErrNone"
                 /\ q \in Expired => allowed
              THEN /\ op' = [op EXCEPT ![q] =
                         [@ EXCEPT !.mode = "EListTrustedSiteCerts",
                                   !.todo = {e.handle : e \in o.st.entries}]]
                   /\ UNCHANGED <<query, waits>>
              ELSE ShowQuery(q)
    /\ UNCHANGED <<app, current, deleted, message, session, answer, lost,
                   granted, forgave>>

RetrieveFirstTrustedSiteCert(q) ==
    /\ Runs(q, "EListTrustedSiteCerts")
    /\ RetrieveNext(q, op[q].todo)
    /\ UNCHANGED <<app, current, deleted, message, session, answer, lost, trustVars>>

\* IsRetrievedCertSameAsServerCertL; a certificate that could not be read ends
\* the operation.
CompareRetrievedCert(q) ==
    /\ Runs(q, "ERetrieveTrustedSiteCert")
    /\ CASE op[q].got = NoCert -> OperationError(q) /\ UNCHANGED <<query, waits>>
         [] op[q].got = CertOf[q] ->
                ReturnResult(q, "EContinue") /\ UNCHANGED <<query, waits>>
         [] OTHER -> RetrieveNext(q, op[q].todo) /\ UNCHANGED <<message, lost>>
    /\ UNCHANGED <<app, current, deleted, session, answer, trustVars>>

UserAnswers(q, a) ==
    /\ query[q] = "shown"
    /\ query' = [query EXCEPT ![q] = "closed"]
    /\ answer' = [answer EXCEPT ![q] = a]
    /\ UNCHANGED <<app, current, deleted, message, session, op, waits, lost, trustVars>>

\* CUntrustedCertQuery::RunL, in whatever loop is innermost.
QueryRunL(q) ==
    /\ ~lost /\ ~Returning
    /\ query[q] = "closed"
    /\ query' = [query EXCEPT ![q] = "stopped"]
    /\ UNCHANGED <<app, current, deleted, message, session, op, answer, waits,
                   lost, trustVars>>

\* The sites a certificate is trusted for once the user accepts it for one.
TrustedFor(c, s) == {c} \X (({s} \cup {CommonName[c]}) \ {NoSite})

\* ShowQueryAndWaitForResponseL returns, and the operation acts on the answer.
\* For a permanent acceptance the certificate is added here, and the site in
\* the operation's next step.
QueryReturns(q) ==
    /\ ~lost /\ Returning /\ q = Last(waits)
    /\ waits' = Front(waits)
    /\ query' = [query EXCEPT ![q] = "none"]
    /\ answer' = [answer EXCEPT ![q] = "none"]
    /\ LET a == IF query[q] = "cancelled" THEN "error" ELSE answer[q] IN
       \/ /\ a = "error"
          /\ OperationError(q)
          /\ UNCHANGED <<store, granted>>
       \/ /\ a \in {"accepted", "rejected"}
          /\ ReturnResult(q, IF a = "accepted" THEN "EContinue" ELSE "EStop")
          /\ UNCHANGED <<store, granted>>
       \/ /\ a = "permanently"
          /\ granted' = granted \cup TrustedFor(CertOf[q], SiteOf[q])
          /\ \E o \in AddCert(store, CertOf[q]) :
                 /\ store' = o.st
                 /\ op' = [op EXCEPT ![q].mode = "ESavingServerCert",
                               ![q].got = IF o.told = "error" THEN NoCert ELSE CertOf[q]]
          /\ UNCHANGED <<message, lost>>
    /\ UNCHANGED <<app, current, deleted, session, shown, forgave>>

SaveServerNameToTrustedSitesStore(q) ==
    /\ Runs(q, "ESavingServerCert")
    /\ \/ /\ op[q].got = NoCert
          /\ OperationError(q)
          /\ UNCHANGED store
       \/ /\ op[q].got # NoCert
          /\ \E o \in AddSite(store, CertOf[q], SiteOf[q]) :
                 /\ store' = o.st
                 /\ IF o.told = "error" THEN OperationError(q)
                    ELSE ReturnResult(q, "EContinue")
    /\ UNCHANGED <<app, current, deleted, session, query, answer, waits,
                   granted, shown, forgave>>

\* The session's destructor deletes the handler; if the handler's RunL is still
\* on the stack, below another request's wait, it will return into freed memory.
SessionCloses(q) ==
    /\ ~lost /\ ~Returning
    /\ session[q] = "closing"
    /\ session' = [session EXCEPT ![q] = "none"]
    /\ op' = [op EXCEPT ![q] = NoOperation]
    /\ lost' = (q \in ToSet(waits))
    /\ UNCHANGED <<app, current, deleted, message, query, answer, waits, trustVars>>
-----------------------------------------------------------------------------
(* Other clients of the device token server. *)

OthersAct ==
    /\ Cardinality({q \in Requests : app[q] # "idle"}) <= MaxAsked
    /\ UNCHANGED dialogVars

\* The user removes a certificate.  When its last copy has gone and no error
\* is shown, it is no longer trusted anywhere.
UserRemoves(h, told) ==
    /\ OthersAct
    /\ \E e \in store.entries : e.handle = h
    /\ \E o \in RemoveCert(store, h) :
           LET gone == {e.cert : e \in {f \in store.entries : f.handle = h}}
               out == gone \X Sites
               over == /\ told # "error"
                       /\ \A e \in store.entries : e.cert \in gone => e.handle = h
           IN  /\ o.told = told
               /\ store' = o.st
               /\ granted' = IF over THEN granted \ out ELSE granted
               /\ shown' = IF over THEN shown \ out ELSE shown
    /\ UNCHANGED forgave

\* The user saves a certificate from a file (CertSaver).
UserSaves(c) ==
    /\ OthersAct
    /\ NextFreeHandle(store) <= MaxHandle
    /\ \E o \in AddCert(store, c) :
           /\ store' = o.st
           /\ granted' = granted \cup TrustedFor(c, CommonName[c])
    /\ UNCHANGED <<shown, forgave>>

AppForgives(a, s, outOfDate) ==
    /\ OthersAct
    /\ \E o \in AddForgivenSite(store, s, outOfDate, a) :
           /\ store' = o.st
           /\ forgave' = forgave \cup {<<a, s>>}
    /\ UNCHANGED <<granted, shown>>

AppTakesBack(a, from, told) ==
    /\ OthersAct
    /\ \E o \in RemoveForgivenSites(store, a, from) :
           /\ o.told = told
           /\ store' = o.st
           /\ forgave' = IF told = "error" THEN forgave ELSE forgave \ ({a} \X from)
    /\ UNCHANGED <<granted, shown>>
-----------------------------------------------------------------------------
(* The specification. *)

DialogStep ==
    \E q \in Requests :
        \/ StartL(q) \/ StartIsRefused(q) \/ StartFails(q)
        \/ DialogsRunL(q)
        \/ OperationFails(q)
        \/ ProcessServerAuthorizationFailure(q)
        \/ RetrieveFirstTrustedSiteCert(q) \/ CompareRetrievedCert(q)
        \/ \E a \in Answers : UserAnswers(q, a)
        \/ QueryRunL(q) \/ QueryReturns(q)
        \/ SaveServerNameToTrustedSitesStore(q)
        \/ SessionCloses(q)

CancelStep == CancelNotifier \/ \E q \in Requests : StartWithoutMemory(q)

OthersStep(handles, tolds) ==
    \/ \E h \in handles, told \in tolds : UserRemoves(h, told)
    \/ \E a \in Apps, from \in {Sites} \cup {{s} : s \in Sites}, told \in tolds :
           AppTakesBack(a, from, told)
    \/ \E c \in Certs : UserSaves(c)
    \/ \E f \in Forgivings : AppForgives(f[1], f[2], f[3])

Handles == {e.handle : e \in store.entries}

Next ==
    \/ DialogStep
    \/ CancelStep
    \/ OthersStep(Handles, {"KErrNone", "error", "unsaved"})

Spec == Init /\ [][Next]_vars

(* Orderly use of the stores; the notifier is cancelled at any time. *)

\* No certificate is removed between its adding and the adding of its site.
BeingSaved ==
    {e.handle : e \in {f \in store.entries : \E q \in Requests :
                    op[q].mode = "ESavingServerCert" /\ CertOf[q] = f.cert}}

\* A site is forgiven by an application, or trusted by the user with some
\* certificate, but never both.
UnmixedSites ==
    \A x, y \in store.sites : x.site = y.site => x.forgiven = y.forgiven

\* And an update of the file that fails is not passed over in silence.
OrderlyNext ==
    /\ \/ DialogStep
       \/ CancelStep
       \/ OthersStep(Handles \ BeingSaved, {"KErrNone", "error"})
    /\ UnmixedSites'

OrderlySpec == Init /\ [][OrderlyNext]_vars
-----------------------------------------------------------------------------
(* Properties. *)

\* What makes the operation accept a certificate without a question: it is in
\* the store, and its site is forgiven or recorded for it.
SilentlyAccepted(c, s) ==
    /\ InStore(store, c)
    /\ IsForgivenSite(store, s) \/ IsSiteAlreadyExist(store, c, s)

Forgiven(s) == \E a \in Apps : <<a, s>> \in forgave

\* A certificate is accepted for a site without a question only if the user has
\* said so and has not removed it since, or an application forgives the site
\* and has not taken that back, or the certificate names the site and was seen
\* at a site that is still forgiven: whatever requests failed half-way, however
\* often the certificate was saved, and whichever questions were open.
TrustIsGranted ==
    \A c \in Certs, s \in Sites : SilentlyAccepted(c, s) =>
        \/ <<c, s>> \in granted
        \/ Forgiven(s)
        \/ \E t \in Sites : <<c, t>> \in shown /\ Forgiven(t) /\ CommonName[c] = s
=============================================================================
