----------------------------- MODULE TrustStore -----------------------------
(***************************************************************************)
(* What the device token server keeps about trusted web servers            *)
(* (src/pkiutilities/DeviceToken/Src): the certificate store               *)
(* (DevandTruSrvCertStoreServer.cpp) and the database of trusted sites     *)
(* (TrustedSitesServer.cpp), which call each other.  The server handles    *)
(* one request at a time, so a request is a function from the stores to    *)
(* its outcomes; but a request commits in several pieces and any of them   *)
(* may fail, and then what was committed before stays.  The memory and the *)
(* file are always the same, so a restart of the server is such a failure. *)
(*                                                                         *)
(* A store is a record                                                     *)
(*   entries  the entry list of the certificate store,                     *)
(*   hashes   the table Certificates: a CertID per fingerprint,            *)
(*   sites    the table TrustedSites.                                      *)
(* An outcome is the store and what the client is told: "KErrNone",        *)
(* "error", or "unsaved", where it is told KErrNone and is deceived.       *)
(***************************************************************************)
EXTENDS Naturals, FiniteSets, FiniteSetsExt

CONSTANTS
    Certs,      \* server certificates; one has one fingerprint
    Sites,      \* host names
    Apps,       \* SIDs of the applications that forgive sites
    CommonName, \* Certs -> Sites or NoSite: the CN of the subject
    NoSite,
    NoApp       \* ClientUID -1, of a row that no application made

ASSUME TrustAssumption ==
    /\ NoSite \notin Sites
    /\ NoApp \notin Apps
    /\ CommonName \in [Certs -> Sites \cup {NoSite}]

NoID == 0   \* CertID -1, of a forgiven site that has shown no certificate

NoRecords == [entries |-> {}, hashes |-> {}, sites |-> {}]

Ends(st) == [st |-> st, told |-> "KErrNone"]
Fails(st) == [st |-> st, told |-> "error"]
-----------------------------------------------------------------------------
(* Reading the tables. *)

\* The CertID of a certificate, NoID when it has no row.
CertID(st, c) ==
    LET ids == {x.id : x \in {y \in st.hashes : y.cert = c}}
    IN  IF ids = {} THEN NoID ELSE Min(ids)

\* The COUNTER column.  It never gives a number twice; a number that neither
\* table holds is as good as new.
FreshID(st) ==
    LET used == {x.id : x \in st.hashes} \cup {x.id : x \in st.sites}
    IN  Min((1..(Cardinality(used) + 1)) \ used)

\* Counted from 1 here.  The handle of the last entry is given again when that
\* entry has been removed.
NextFreeHandle(st) == Max({e.handle : e \in st.entries} \cup {0}) + 1

InStore(st, c) == \E e \in st.entries : e.cert = c

IsSiteAlreadyExist(st, c, s) ==
    /\ CertID(st, c) # NoID
    /\ \E x \in st.sites : x.id = CertID(st, c) /\ x.site = s

IsForgivenSite(st, s) == \E x \in st.sites : x.site = s /\ x.forgiven

IsOutOfDateAllowed(st, c, s) ==
    /\ CertID(st, c) # NoID
    /\ \E x \in st.sites : x.id = CertID(st, c) /\ x.site = s /\ x.outOfDate
-----------------------------------------------------------------------------
(* Adding. *)

\* DoAddCertL: a row in Certificates, unless there is one.
Hashed(st, c) ==
    IF CertID(st, c) # NoID
    THEN st
    ELSE [st EXCEPT !.hashes = @ \cup {[id |-> FreshID(st), cert |-> c]}]

\* The two rows are two transactions.
AddSite(st, c, s) ==
    LET known == Hashed(st, c)
        row == [id |-> CertID(known, c), site |-> s, forgiven |-> FALSE,
                outOfDate |-> FALSE, app |-> NoApp]
    IN  {Fails(st), Fails(known),
         Ends(IF IsSiteAlreadyExist(st, c, s) THEN st
              ELSE [known EXCEPT !.sites = @ \cup {row}])}

\* The entry is saved, and then the site named by the certificate is added;
\* when that fails the entry stays.  Nothing looks for another copy.
AddCert(st, c) ==
    LET saved == [st EXCEPT !.entries =
                      @ \cup {[handle |-> NextFreeHandle(st), cert |-> c]}]
    IN  {Fails(st), Fails(saved)}
        \cup IF CommonName[c] = NoSite THEN {Ends(saved)}
             ELSE AddSite(saved, c, CommonName[c])
-----------------------------------------------------------------------------
(* Removing. *)

DoRemove(st, id) ==
    [st EXCEPT !.hashes = {x \in @ : x.id # id},
               !.sites = {x \in @ : x.id # id}]

\* Mutant: the records are left to whoever removes the last copy.
RecordsStay(st, c) == {Fails(st), Ends(st)}

\* TrustedSitesServer's RemoveL: the records go with the last copy.
RemoveRecords(st, c) ==
    {Fails(st)} \cup
    (IF CertID(st, c) = NoID THEN {}
     ELSE IF InStore(st, c) THEN {Ends(st)}
     ELSE {Ends(DoRemove(st, CertID(st, c)))})

\* An update of the file that fails puts the entry back and tells nobody.
RemoveCert(st, h) ==
    LET gone == [st EXCEPT !.entries = {e \in @ : e.handle # h}]
    IN  {Fails(st)} \cup
        UNION {RemoveRecords(gone, e.cert) \cup {[st |-> st, told |-> "unsaved"]} :
               e \in {f \in st.entries : f.handle = h}}
-----------------------------------------------------------------------------
(* Asking whether a site is trusted: at a forgiven site this writes. *)

\* DoOverWriteCertL, for a forgiven site: the certificate gets the row that has
\* none (an UPDATE of every row of the site), or a copy of the first row found.
OverWriteCert(st, c, s) ==
    LET known == Hashed(st, c)
        id == CertID(known, c)
        rows == {x \in known.sites : x.site = s}
        With(x) == [x EXCEPT !.id = id]
    IN  {Fails(st), Fails(known)} \cup
        IF \E x \in rows : x.id = id THEN {Ends(known)}
        ELSE IF \E x \in rows : x.id = NoID
        THEN {Ends([known EXCEPT !.sites = (@ \ rows) \cup {With(x) : x \in rows}])}
        ELSE {Ends([known EXCEPT !.sites = @ \cup {With(x)}]) : x \in rows}

\* Told KErrNone: the site is trusted with this certificate.  An error counts
\* as a no.
IsTrustedSite(st, c, s) ==
    IF IsForgivenSite(st, s)
    THEN UNION {IF o.told = "error" \/ InStore(o.st, c) THEN {o, Fails(o.st)}
                ELSE AddCert(o.st, c) :
                o \in OverWriteCert(st, c, s)}
    ELSE {Fails(st)} \cup
         (IF IsSiteAlreadyExist(st, c, s) THEN {Ends(st)} ELSE {})
-----------------------------------------------------------------------------
(* Forgiving a site, and taking that back. *)

AddForgivenSite(st, s, outOfDate, app) ==
    {Fails(st)} \cup
    IF IsForgivenSite(st, s)
    THEN {Ends([st EXCEPT !.sites =
            {IF x.site = s THEN [x EXCEPT !.outOfDate = outOfDate] ELSE x : x \in @}])}
    ELSE {Ends([st EXCEPT !.sites =
            @ \cup {[id |-> NoID, site |-> s, forgiven |-> TRUE,
                     outOfDate |-> outOfDate, app |-> app]}])}

\* Some entries are removed through the certificate store, each with its
\* records if it was the last copy; the records of "kept" could not be removed.
Purged(st, some, kept) ==
    LET left == [st EXCEPT !.entries = @ \ some]
        ids == {CertID(st, e.cert) :
                e \in {f \in some : ~InStore(left, f.cert) /\ f.cert \notin kept}}
    IN  [left EXCEPT !.hashes = {x \in @ : x.id \notin ids},
                     !.sites = {x \in @ : x.id \notin ids}]

\* RemoveAllForgivenSitesL (from is Sites) and RemoveThisForgivenSiteL: the
\* certificates of the application's rows leave the certificate store, then
\* their rows in Certificates, then the application's rows.  Every piece
\* commits alone, and the first that fails ends the request.
RemoveForgivenSites(st, app, from) ==
    LET rows == {x \in st.sites : x.app = app /\ x.site \in from}
        ids == {x.id : x \in rows} \ {NoID}
        doomed == {e \in st.entries : \E x \in st.hashes :
                                          x.id \in ids /\ x.cert = e.cert}
        NoHashes(t, some) == [t EXCEPT !.hashes = {x \in @ : x.id \notin some}]
        NoRows(t) == [t EXCEPT !.sites = {x \in @ : ~(x.app = app /\ x.site \in from)}]
    IN  IF rows = {} THEN {Ends(st)} ELSE
        {Fails(Purged(st, some, kept)) :
            some \in SUBSET doomed, kept \in {{}} \cup {{e.cert} : e \in doomed}}
        \cup UNION {{Fails(NoHashes(Purged(st, some, {}), gone)) : gone \in SUBSET ids}
                    \cup {[st |-> NoRows(NoHashes(Purged(st, some, {}), ids)),
                           told |-> IF some = doomed THEN "KErrNone" ELSE "unsaved"]} :
                    some \in SUBSET doomed}
=============================================================================
