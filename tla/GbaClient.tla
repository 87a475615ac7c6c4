----------------------------- MODULE GbaClient -----------------------------
(***************************************************************************)
(* The client library of GBA: an application with an observer, the handler *)
(* it uses (CGbaClientRequestHandler, an active object), and the server,   *)
(* of which only its service is taken (BootstrapService, which GbaServer   *)
(* implements).                                                            *)
(*                                                                         *)
(* RequestBootstrap is sent, and served some time later; CancelBootstrap   *)
(* waits until the server has served it, and everything sent before it.    *)
(***************************************************************************)
CONSTANTS handler, Impi, Runs, NoImpi, NoRun

VARIABLES
    iBootstrapState,
    active,             \* IsActive
    iStatus,            \* "pending", or the code of the server's answer
    sent,               \* a request is on its way to the server
    application,        \* "idle", "waiting" for BootstrapComplete, "cancelled"
    callback,           \* the code of the last BootstrapComplete
    phase, answer, owner    \* of the server

clientVars == <<iBootstrapState, active, iStatus, sent, application, callback>>
vars == <<clientVars, phase, answer, owner>>

Server == INSTANCE BootstrapService WITH Sessions <- {handler}

Init ==
    /\ Server!Init
    /\ iBootstrapState = "EBootstrapNone"
    /\ active = FALSE /\ iStatus = "pending" /\ sent = FALSE
    /\ application = "idle" /\ callback = "none"

-----------------------------------------------------------------------------
\* The server opens the session, takes a request from its queue, answers one,
\* ends one that was cancelled, or authenticates.
Connect == /\ phase[handler] = "closed" /\ Server!Open(handler)
           /\ UNCHANGED <<clientVars, owner>>

Takes ==
    /\ sent /\ sent' = FALSE
    /\ \/ Server!Request(handler) /\ UNCHANGED iStatus
       \/ Server!InUse(handler) /\ iStatus' = "KErrInUse"
    /\ UNCHANGED <<iBootstrapState, active, application, callback, owner>>

Answers ==
    /\ Server!Grant(handler) \/ Server!Refuse(handler)
    /\ iStatus' = answer'[handler].code
    /\ UNCHANGED <<iBootstrapState, active, sent, application, callback, owner>>

Ends == Server!Ends(handler) /\ UNCHANGED <<clientVars, owner>>

Authenticates == \E k \in Runs : Server!Authenticate(k) /\ UNCHANGED clientVars

-----------------------------------------------------------------------------
\* Mutant: the handler is made active, but nothing is sent.
BootstrapUnsent ==
    /\ phase[handler] # "closed" /\ iBootstrapState # "EBootstrapping"
    /\ iBootstrapState' = "EBootstrapping"
    /\ application' = "waiting" /\ callback' = "none"
    /\ active' = TRUE /\ iStatus' = "pending"
    /\ UNCHANGED <<sent, phase, answer, owner>>

\* Bootstrap is refused while one is under way, as far as iBootstrapState
\* knows; it sends nothing when the handler is active.
Bootstrap ==
    /\ phase[handler] # "closed" /\ iBootstrapState # "EBootstrapping"
    /\ iBootstrapState' = "EBootstrapping"
    /\ application' = "waiting" /\ callback' = "none"
    /\ IF active THEN UNCHANGED <<active, iStatus, sent>>
       ELSE active' = TRUE /\ iStatus' = "pending" /\ sent' = TRUE
    /\ UNCHANGED <<phase, answer, owner>>

\* A request that is still on its way reaches the server before the cancel.
\* (A server that is ending another cancel would be panicked by this one.)
CancelBootstrap ==
    /\ iBootstrapState' = "EBootstrapCancelling"
    /\ application' = IF application = "idle" THEN "idle" ELSE "cancelled"
    /\ sent' = FALSE
    /\ \/ sent /\ phase[handler] = "idle"
          /\ phase' = [phase EXCEPT ![handler] = "cancelled"]
          /\ Server!Answers(handler, Server!NoCredentials("KErrCancel"))
          /\ iStatus' = "KErrCancel"
       \/ ~sent /\ Server!Cancel(handler) /\ iStatus' = "KErrCancel"
       \/ ~sent /\ phase[handler] = "idle" /\ UNCHANGED <<phase, answer, iStatus>>
    /\ UNCHANGED <<active, callback, owner>>

BootstrapComplete(code) == callback' = code /\ application' = "idle"

\* Mutants: a status that is not there yet is reported; an error is not.
ReportsPending ==
    /\ iStatus # "KErrNone"
    /\ ~(iStatus = "KErrCancel" /\ iBootstrapState = "EBootstrapCancelling")
    /\ BootstrapComplete(iStatus)
    /\ UNCHANGED iBootstrapState
ReportsErrorNot ==
    /\ iStatus \notin {"pending", "KErrNone"}
    /\ ~(iStatus = "KErrCancel" /\ iBootstrapState = "EBootstrapCancelling")
    /\ UNCHANGED <<iBootstrapState, callback, application>>

\* An error goes to the observer; iBootstrapState stays what it is.
ReportsError ==
    /\ iStatus \notin {"pending", "KErrNone"}
    /\ ~(iStatus = "KErrCancel" /\ iBootstrapState = "EBootstrapCancelling")
    /\ BootstrapComplete(iStatus)
    /\ UNCHANGED iBootstrapState

\* The answer to a cancel ends the bootstrap in silence.
ReportsCancel ==
    /\ iStatus = "KErrCancel" /\ iBootstrapState = "EBootstrapCancelling"
    /\ iBootstrapState' = "EBootstrapNone"
    /\ application' = "idle" /\ UNCHANGED callback

\* Credentials that come after a cancel are an error.
ReportsCredentials ==
    /\ iStatus = "KErrNone"
    /\ iBootstrapState' = "EBootstrapNone"
    /\ BootstrapComplete(IF iBootstrapState = "EBootstrapping" THEN "KErrNone"
                         ELSE "KErrUnknown")

RunL ==
    /\ active /\ active' = FALSE
    /\ ReportsError \/ ReportsCancel \/ ReportsCredentials
    /\ UNCHANGED <<iStatus, sent, phase, answer, owner>>

-----------------------------------------------------------------------------
ServerStep == Connect \/ Takes \/ Answers \/ Ends \/ Authenticates

Next == ServerStep \/ Bootstrap \/ CancelBootstrap \/ RunL

Spec == Init /\ [][Next]_vars

\* The server's scheduler takes requests and ends what it has begun; the
\* application's runs the handler.
FairSpec == Spec /\ WF_vars(RunL) /\ WF_vars(Takes) /\ WF_vars(Answers)

-----------------------------------------------------------------------------
Codes == {"KErrNone", "KErrCancel", "KErrInUse", "failed"}

\* Every variable keeps its type.
TypeOK ==
    /\ iBootstrapState \in {"EBootstrapNone", "EBootstrapping", "EBootstrapCancelling"}
    /\ active \in BOOLEAN /\ sent \in BOOLEAN
    /\ iStatus \in Codes \union {"pending"}
    /\ application \in {"idle", "waiting", "cancelled"}
    /\ callback \in Codes \union {"none", "KErrUnknown"}
    /\ phase \in [{handler} -> {"closed", "idle", "busy", "cancelled"}]
    /\ answer \in [{handler} -> [code : Codes \union {"none"}, btid : Runs \union {NoRun},
                                 key : Runs \union {NoRun}, identity : Impi \union {NoImpi}]]
    /\ owner \in [Runs -> Impi \union {NoImpi}]

\* The server has a request of the handler, or one is on its way to it, only
\* while the handler is active: else its answer would be a stray signal, which
\* panics the application.  And an active handler has such a request, or the
\* answer to it: else Bootstrap would send nothing ever again.
AnswerIsAwaited ==
    /\ sent \/ phase[handler] = "busy" => active
    /\ active => sent \/ phase[handler] = "busy" \/ iStatus # "pending"

\* Every bootstrap the application starts gets a report in the end, or is
\* cancelled; one started while the handler is active gets that of the one
\* before it.
Reported == application = "waiting" ~> application # "waiting"
=============================================================================
