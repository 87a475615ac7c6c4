------------------------ MODULE ServerAuthFailProofs ------------------------
(***************************************************************************)
(* What is proved of ServerAuthFail, for every number of requests,         *)
(* certificates, sites and applications.                                   *)
(*                                                                         *)
(* TrustIsGranted: every row of the stores was made for somebody who has   *)
(* said so.  It is a property of what TrustStore's requests commit, piece  *)
(* by piece; the dialogs, whichever are cancelled and when, only decide    *)
(* who has said what.                                                      *)
(***************************************************************************)
EXTENDS ServerAuthFail, TLAPS, FiniteSetTheorems, WellFoundedInduction

\* What the proof needs of the types.
Shapes ==
    /\ DOMAIN op = Requests
    /\ \A q \in Requests : "mode" \in DOMAIN op[q]
    /\ current \in Requests \cup {NoRequest}

LEMMA ShapesInit == Init => Shapes
BY DEF Init, Shapes, NoOperation

LEMMA OneOperationShapes ==
    ASSUME Shapes, NEW q \in Requests, NEW x, op' = [op EXCEPT ![q] = x],
           "mode" \in DOMAIN x, current' \in Requests \cup {NoRequest}
    PROVE  Shapes'
BY DEF Shapes

LEMMA ShowQueryShapes ==
    ASSUME Shapes, NEW q \in Requests, ShowQuery(q), UNCHANGED current
    PROVE  Shapes'
<1> DEFINE x == [op[q] EXCEPT !.mode = "query", !.todo = {}, !.got = NoCert]
<1>1. "mode" \in DOMAIN x /\ op' = [op EXCEPT ![q] = x]
  BY DEF Shapes, ShowQuery
<1>2. current' \in Requests \cup {NoRequest}
  BY DEF Shapes
<1> HIDE DEF x
<1> QED  BY <1>1, <1>2, OneOperationShapes

LEMMA RetrieveNextShapes ==
    ASSUME Shapes, NEW q \in Requests, NEW todo, RetrieveNext(q, todo), UNCHANGED current
    PROVE  Shapes'
<1>1. CASE todo = {}
  BY <1>1, ShowQueryShapes DEF RetrieveNext
<1>2. CASE todo # {}
  <2>1. PICK got : op' = [op EXCEPT ![q] = [mode |-> "ERetrieveTrustedSiteCert",
                                            todo |-> todo \ {Min(todo)}, got |-> got]]
    BY <1>2, Zenon DEF RetrieveNext
  <2> DEFINE x == [mode |-> "ERetrieveTrustedSiteCert", todo |-> todo \ {Min(todo)}, got |-> got]
  <2>2. "mode" \in DOMAIN x /\ op' = [op EXCEPT ![q] = x]
    BY <2>1
  <2>3. current' \in Requests \cup {NoRequest}
    BY DEF Shapes
  <2> HIDE DEF x
  <2> QED  BY <2>2, <2>3, OneOperationShapes
<1> QED  BY <1>1, <1>2

\* A step of the dialogs does one of a few things to one operation.
LEMMA ShapesStep == ASSUME Shapes, [OrderlyNext]_vars PROVE Shapes'
<1> DEFINE Here == current' \in Requests \cup {NoRequest}
<1>1. ASSUME UNCHANGED op, Here PROVE Shapes'
  BY <1>1 DEF Shapes
<1>2. ASSUME NEW q \in Requests, Here,
             op' = [op EXCEPT ![q] = Ended] \/ op' = [op EXCEPT ![q] = NoOperation]
      PROVE  Shapes'
  <2>1. "mode" \in DOMAIN Ended /\ "mode" \in DOMAIN NoOperation
    BY DEF Ended, NoOperation
  <2> QED  BY <1>2, <2>1, OneOperationShapes
<1>3. ASSUME NEW q \in Requests, NEW reply, NEW mode, Asks(q, reply, mode) PROVE Shapes'
  <2> DEFINE x == [op[q] EXCEPT !.mode = mode]
  <2>1. "mode" \in DOMAIN x /\ op' = [op EXCEPT ![q] = x] /\ Here
    BY <1>3 DEF Shapes, Asks
  <2> HIDE DEF x
  <2> QED  BY <2>1, OneOperationShapes
<1>4. ASSUME NEW q \in Requests, ProcessServerAuthorizationFailure(q) PROVE Shapes'
  <2>1. UNCHANGED current
    BY <1>4 DEF ProcessServerAuthorizationFailure
  <2>2. \/ ShowQuery(q)
        \/ \E some : op' = [op EXCEPT ![q] = [op[q] EXCEPT !.mode = "EListTrustedSiteCerts",
                                                           !.todo = some]]
    BY <1>4, Zenon DEF ProcessServerAuthorizationFailure
  <2>3. ASSUME NEW some, op' = [op EXCEPT ![q] = [op[q] EXCEPT
                                    !.mode = "EListTrustedSiteCerts", !.todo = some]]
        PROVE  Shapes'
    <3> DEFINE x == [op[q] EXCEPT !.mode = "EListTrustedSiteCerts", !.todo = some]
    <3>1. "mode" \in DOMAIN x /\ op' = [op EXCEPT ![q] = x] /\ Here
      BY <2>1, <2>3 DEF Shapes
    <3> HIDE DEF x
    <3> QED  BY <3>1, OneOperationShapes
  <2> QED  BY <2>1, <2>2, <2>3, ShowQueryShapes
<1>5. ASSUME NEW q \in Requests, QueryReturns(q) PROVE Shapes'
  <2>1. Here
    BY <1>5 DEF QueryReturns, Shapes
  <2>2. \/ op' = [op EXCEPT ![q] = Ended] \/ op' = [op EXCEPT ![q] = NoOperation]
        \/ \E got : op' = [op EXCEPT ![q].mode = "ESavingServerCert", ![q].got = got]
    BY <1>5, Zenon DEF QueryReturns, OperationError, ReturnResult
  <2>3. ASSUME NEW got, op' = [op EXCEPT ![q].mode = "ESavingServerCert", ![q].got = got]
        PROVE  Shapes'
    <3>1. DOMAIN op' = Requests /\ \A r \in Requests : r # q => op'[r] = op[r]
      BY <2>3, Zenon DEF Shapes
    <3>2. "mode" \in DOMAIN op'[q]
      BY <2>3, Zenon DEF Shapes
    <3> QED  BY <2>1, <3>1, <3>2 DEF Shapes
  <2> QED  BY <1>2, <2>1, <2>2, <2>3
<1>6. ASSUME NEW q \in Requests, DeleteDialogs(q) PROVE Shapes'
  <2> DEFINE x == IF op[q].mode \in LookupModes THEN Ended ELSE op[q]
  <2>1. "mode" \in DOMAIN x
    BY DEF Shapes, Ended, NoOperation
  <2>2. op' = [op EXCEPT ![q] = x] /\ Here
    BY <1>6 DEF DeleteDialogs
  <2> HIDE DEF x
  <2> QED  BY <2>1, <2>2, OneOperationShapes
<1> HIDE DEF Here
<1>7. ASSUME NEW q \in Requests, Here,
             \/ StartFails(q) \/ DialogsRunL(q) \/ \E a \in Answers : UserAnswers(q, a)
             \/ QueryRunL(q)
      PROVE  Shapes'
  <2>1. UNCHANGED op
    BY <1>7 DEF StartFails, DialogsRunL, UserAnswers, QueryRunL
  <2> QED  BY <1>1, <1>7, <2>1
<1>8. ASSUME NEW q \in Requests, Here,
             \/ OperationFails(q) \/ RetrieveFirstTrustedSiteCert(q)
             \/ CompareRetrievedCert(q) \/ SaveServerNameToTrustedSitesStore(q)
             \/ SessionCloses(q)
      PROVE  Shapes'
  <2>1. UNCHANGED current
    BY <1>8 DEF OperationFails, RetrieveFirstTrustedSiteCert, CompareRetrievedCert,
                SaveServerNameToTrustedSitesStore, SessionCloses
  <2>2. \/ op' = [op EXCEPT ![q] = Ended] \/ op' = [op EXCEPT ![q] = NoOperation]
        \/ \E todo : RetrieveNext(q, todo)
    BY <1>8, Zenon DEF OperationFails, OperationError, RetrieveFirstTrustedSiteCert,
         CompareRetrievedCert, SaveServerNameToTrustedSitesStore, SessionCloses, ReturnResult
  <2> QED  BY <1>2, <1>8, <2>1, <2>2, RetrieveNextShapes
<1>9. ASSUME NEW q \in Requests, StartL(q) \/ StartIsRefused(q) PROVE Shapes'
  BY <1>3, <1>9 DEF StartL, StartIsRefused
<1>10. CASE DialogStep
  <2>1. PICK q \in Requests :
            \/ StartL(q) \/ StartIsRefused(q) \/ StartFails(q)
            \/ DialogsRunL(q) \/ OperationFails(q)
            \/ ProcessServerAuthorizationFailure(q)
            \/ RetrieveFirstTrustedSiteCert(q) \/ CompareRetrievedCert(q)
            \/ \E a \in Answers : UserAnswers(q, a)
            \/ QueryRunL(q) \/ QueryReturns(q)
            \/ SaveServerNameToTrustedSitesStore(q)
            \/ SessionCloses(q)
    BY <1>10 DEF DialogStep
  <2>2. CASE \/ StartFails(q) \/ DialogsRunL(q) \/ \E a \in Answers : UserAnswers(q, a)
             \/ QueryRunL(q)
    <3>1. Here
      BY <2>2 DEF Here, Shapes, StartFails, DialogsRunL, UserAnswers, QueryRunL
    <3> QED  BY <1>7, <2>2, <3>1
  <2>3. CASE \/ OperationFails(q) \/ RetrieveFirstTrustedSiteCert(q)
             \/ CompareRetrievedCert(q) \/ SaveServerNameToTrustedSitesStore(q)
             \/ SessionCloses(q)
    <3>1. Here
      BY <2>3 DEF Here, Shapes, OperationFails, RetrieveFirstTrustedSiteCert,
                  CompareRetrievedCert, SaveServerNameToTrustedSitesStore, SessionCloses
    <3> QED  BY <1>8, <2>3, <3>1
  <2> QED  BY <1>4, <1>5, <1>9, <2>1, <2>2, <2>3
<1>11. CASE CancelStep
  <2>1. current \in Requests
    BY <1>11 DEF CancelStep, CancelNotifier, StartWithoutMemory, Shapes
  <2>2. DeleteDialogs(current)
    BY <1>11 DEF CancelStep, CancelNotifier, StartWithoutMemory
  <2> QED  BY <1>6, <2>1, <2>2
<1>12. CASE OthersStep(Handles \ BeingSaved, {"KErrNone", "error"}) \/ UNCHANGED vars
  <2>1. UNCHANGED <<op, current>>
    BY <1>12 DEF OthersStep, UserRemoves, AppTakesBack, UserSaves, AppForgives, OthersAct,
                 dialogVars, vars
  <2> QED  BY <1>1, <2>1 DEF Shapes, Here
<1> QED  BY <1>10, <1>11, <1>12 DEF OrderlyNext
-----------------------------------------------------------------------------
(* The counters: the smallest number of a set, and the largest of a finite one. *)

LEMMA MinIsSmallest ==
    ASSUME NEW S \in SUBSET Nat, S # {}
    PROVE  Min(S) \in S /\ \A y \in S : Min(S) <= y
<1>1. PICK x \in S : \A y \in S : ~(<<y, x>> \in OpToRel(<, Nat))
  BY WFMin, NatLessThanWellFounded
<1>2. \A y \in S : y \in Nat /\ ~(y < x)
  BY <1>1 DEF OpToRel
<1>3. \A y \in S : x <= y
  BY <1>2
<1> QED  BY <1>3 DEF Min

LEMMA FiniteIsBounded ==
    ASSUME NEW S \in SUBSET Nat, IsFiniteSet(S)
    PROVE  \E b \in Nat : \A y \in S : y <= b
<1> DEFINE Bounded(T) == \E b \in Nat : \A y \in T : y <= b
           Bad == {n \in Nat : \E T \in SUBSET Nat :
                       IsFiniteSet(T) /\ Cardinality(T) = n /\ ~Bounded(T)}
<1>1. Bad = {}
  <2> SUFFICES ASSUME Bad # {} PROVE FALSE
    OBVIOUS
  <2>1. Min(Bad) \in Bad /\ \A n \in Bad : Min(Bad) <= n
    BY MinIsSmallest
  <2> DEFINE m == Min(Bad)
  <2>2. PICK T \in SUBSET Nat : IsFiniteSet(T) /\ Cardinality(T) = m /\ ~Bounded(T)
    BY <2>1
  <2>3. PICK x \in T : TRUE
    BY <2>2
  <2> DEFINE U == T \ {x}
  <2>4. IsFiniteSet(U) /\ Cardinality(U) = m - 1 /\ U \in SUBSET Nat
    BY <2>2, <2>3, FS_RemoveElement
  <2>5. m - 1 \in Nat
    BY <2>4, FS_CardinalityType
  <2>6. m \in Nat
    BY <2>1
  <2>7. m - 1 \notin Bad
    <3> HIDE DEF Bad
    <3> QED  BY <2>1, <2>5, <2>6
  <2>8. Bounded(U)
    BY <2>4, <2>5, <2>7
  <2>9. PICK b \in Nat : \A y \in U : y <= b
    BY <2>8
  <2>10. Bounded(T)
    <3>1. CASE x <= b
      BY <2>3, <2>9, <3>1
    <3>2. CASE ~(x <= b)
      <4>1. x \in Nat /\ \A y \in T : y \in Nat /\ (y = x \/ y <= b)
        BY <2>3, <2>9
      <4>2. \A y \in T : y <= x
        BY <3>2, <4>1
      <4> QED  BY <4>1, <4>2
    <3> QED  BY <3>1, <3>2
  <2> QED  BY <2>2, <2>10
<1>2. Cardinality(S) \in Nat
  BY FS_CardinalityType
<1> QED  BY <1>1, <1>2

LEMMA MaxIsLargest ==
    ASSUME NEW S \in SUBSET Nat, IsFiniteSet(S), S # {}
    PROVE  Max(S) \in S /\ \A y \in S : y <= Max(S)
<1> DEFINE B == {b \in Nat : \A y \in S : y <= b}
           b == Min(B)
<1>1. b \in B /\ \A c \in B : b <= c
  <2>1. B # {}
    BY FiniteIsBounded
  <2> QED  BY <2>1, MinIsSmallest
<1>2. b \in S
  <2> SUFFICES ASSUME b \notin S PROVE FALSE
    OBVIOUS
  <2>1. b \in Nat /\ \A y \in S : y \in Nat /\ y <= b /\ y # b
    BY <1>1
  <2>2. b # 0
    <3>1. PICK y \in S : TRUE
      OBVIOUS
    <3> QED  BY <2>1, <3>1
  <2>3. b - 1 \in B
    BY <2>1, <2>2
  <2> QED  BY <1>1, <2>1, <2>3
<1>3. \A y \in S : y <= b /\ y \in Nat /\ b \in Nat
  BY <1>1
<1> HIDE DEF b
<1>4. \E x \in S : \A y \in S : x >= y
  BY <1>2, <1>3
<1>5. Max(S) \in S /\ \A y \in S : Max(S) >= y
  BY <1>4 DEF Max
<1> QED  BY <1>5
-----------------------------------------------------------------------------
(***************************************************************************)
(* Trust.  Whatever piece of a request fails, the stores keep what follows *)
(* with respect to those who made their rows: a row of an application is   *)
(* of a site it forgave; any other row has a CertID, and the certificate   *)
(* that has it was meant for the row's site.                               *)
(***************************************************************************)
IsRecords(st) ==
    /\ st = [entries |-> st.entries, hashes |-> st.hashes, sites |-> st.sites]
    /\ st.entries \in SUBSET [handle : Nat, cert : Certs]
    /\ st.hashes \in SUBSET [id : Nat \ {NoID}, cert : Certs]
    /\ st.sites \in SUBSET [id : Nat, site : Sites, forgiven : BOOLEAN,
                            outOfDate : BOOLEAN, app : Apps \cup {NoApp}]
    /\ IsFiniteSet(st.entries) /\ IsFiniteSet(st.hashes) /\ IsFiniteSet(st.sites)

KeysAreUnique(st) ==
    /\ \A e, f \in st.entries : e.handle = f.handle => e = f
    /\ \A x, y \in st.hashes : x.id = y.id \/ x.cert = y.cert => x = y

\* A forgiven site that has shown no certificate has one row.
FirstIsAlone(st) ==
    \A x, y \in st.sites : x.id = NoID /\ y.forgiven /\ x.site = y.site => x = y

RowsAreMade(st, made) ==
    \A x \in st.sites : IF x.forgiven THEN <<x.app, x.site>> \in made ELSE x.id # NoID

\* The certificate names the site, and was seen at one that is forgiven and has
\* a row with its CertID, with which it would go.
SeenFor(st, seen, id, c, s) ==
    /\ CommonName[c] = s
    /\ \E z \in st.sites : z.forgiven /\ z.id = id /\ <<c, z.site>> \in seen

RowsAreMeant(st, given, seen) ==
    \A x \in st.sites, y \in st.hashes :
        ~x.forgiven /\ y.id = x.id =>
            <<y.cert, x.site>> \in given \/ SeenFor(st, seen, x.id, y.cert, x.site)

StoreKept(st, made, given, seen) ==
    /\ IsRecords(st) /\ KeysAreUnique(st) /\ FirstIsAlone(st)
    /\ RowsAreMade(st, made) /\ RowsAreMeant(st, given, seen)
-----------------------------------------------------------------------------
(* New numbers, and the number of a certificate. *)

LEMMA FreshIsNew ==
    ASSUME NEW st, IsRecords(st)
    PROVE  /\ FreshID(st) \in Nat \ {NoID}
           /\ \A y \in st.hashes : y.id # FreshID(st)
           /\ \A x \in st.sites : x.id # FreshID(st)
<1> DEFINE U == {x.id : x \in st.hashes}
           V == {x.id : x \in st.sites}
           used == U \cup V
           n == Cardinality(used)
           free == (1 .. (n + 1)) \ used
<1>1. IsFiniteSet(U)
  <2> DEFINE f == [x \in st.hashes |-> x.id]
  <2>1. f \in Surjection(st.hashes, U)
    BY DEF Surjection
  <2> QED  BY <2>1, FS_Surjection DEF IsRecords
<1>2. IsFiniteSet(V)
  <2> DEFINE f == [x \in st.sites |-> x.id]
  <2>1. f \in Surjection(st.sites, V)
    BY DEF Surjection
  <2> QED  BY <2>1, FS_Surjection DEF IsRecords
<1> HIDE DEF U, V
<1>3. IsFiniteSet(used) /\ n \in Nat
  BY <1>1, <1>2, FS_Union, FS_CardinalityType
<1> HIDE DEF used
<1>4. free # {}
  <2> SUFFICES ASSUME free = {} PROVE FALSE
    OBVIOUS
  <2>1. (1 .. (n + 1)) \in SUBSET used
    OBVIOUS
  <2>2. Cardinality(1 .. (n + 1)) <= n
    BY <1>3, <2>1, FS_Subset
  <2>3. Cardinality(1 .. (n + 1)) = n + 1
    <3>1. 1 \in Int /\ n + 1 \in Int /\ ~(1 > n + 1) /\ (n + 1) - 1 + 1 = n + 1
      BY <1>3
    <3> HIDE DEF n
    <3> QED  BY <3>1, FS_Interval
  <2> QED  BY <1>3, <2>2, <2>3
<1>5. Min(free) \in free
  <2>1. free \in SUBSET Nat
    BY <1>3
  <2> QED  BY <1>4, <2>1, MinIsSmallest
<1>6. FreshID(st) = Min(free)
  BY DEF FreshID, free, n, used, U, V
<1>7. FreshID(st) \in Nat \ {NoID} /\ FreshID(st) \notin used
  BY <1>3, <1>5, <1>6 DEF NoID
<1> QED  BY <1>7 DEF used, U, V

LEMMA NextHandleIsNew ==
    ASSUME NEW st, IsRecords(st)
    PROVE  NextFreeHandle(st) \in Nat /\ \A e \in st.entries : e.handle # NextFreeHandle(st)
<1> DEFINE H == {e.handle : e \in st.entries}
           f == [e \in st.entries |-> e.handle]
           S == H \cup {0}
<1>1. f \in Surjection(st.entries, H)
  BY DEF Surjection
<1>2. IsFiniteSet(H) /\ H \in SUBSET Nat
  BY <1>1, FS_Surjection DEF IsRecords
<1> HIDE DEF H
<1>3. IsFiniteSet(S) /\ S \in SUBSET Nat /\ S # {}
  BY <1>2, FS_AddElement
<1>4. Max(S) \in Nat /\ \A y \in S : y <= Max(S) /\ y \in Nat
  <2> HIDE DEF S
  <2> QED  BY <1>3, MaxIsLargest
<1>5. NextFreeHandle(st) = Max(S) + 1
  BY DEF NextFreeHandle, S, H
<1>6. \A e \in st.entries : e.handle \in S
  BY DEF H
<1> HIDE DEF S
<1> QED  BY <1>4, <1>5, <1>6

LEMMA CertIDIs ==
    ASSUME NEW st, IsRecords(st), KeysAreUnique(st), NEW c
    PROVE  /\ CertID(st, c) \in Nat
           /\ CertID(st, c) = NoID => \A y \in st.hashes : y.cert # c
           /\ CertID(st, c) # NoID => \E y \in st.hashes : y.cert = c /\ y.id = CertID(st, c)
           /\ \A y \in st.hashes : y.cert = c => y.id = CertID(st, c)
           /\ CertID(st, c) # NoID => \A y \in st.hashes : y.id = CertID(st, c) => y.cert = c
<1> DEFINE ids == {x.id : x \in {y \in st.hashes : y.cert = c}}
<1>1. CertID(st, c) = IF ids = {} THEN NoID ELSE Min(ids)
  BY DEF CertID
<1>2. ids \in SUBSET (Nat \ {NoID}) /\ NoID \in Nat
  BY DEF IsRecords, NoID
<1>3. \A i \in ids : \E y \in st.hashes : y.cert = c /\ y.id = i
  OBVIOUS
<1>4. \A y \in st.hashes : y.cert = c => y.id \in ids
  OBVIOUS
<1>5. \A i, j \in ids : i = j
  BY <1>3 DEF KeysAreUnique
<1> HIDE DEF ids
<1>6. ids # {} => Min(ids) \in ids
  BY <1>2, MinIsSmallest
<1>7. CASE ids = {}
  BY <1>1, <1>2, <1>4, <1>7
<1>8. CASE ids # {}
  <2>1. CertID(st, c) \in ids
    BY <1>1, <1>6, <1>8
  <2>2. PICK y \in st.hashes : y.cert = c /\ y.id = CertID(st, c)
    BY <1>3, <2>1
  <2>3. \A z \in st.hashes : z.id = CertID(st, c) => z.cert = c
    BY <2>2 DEF KeysAreUnique
  <2>4. CertID(st, c) \in Nat /\ CertID(st, c) # NoID
    BY <1>2, <2>1
  <2> QED  BY <1>4, <1>5, <2>1, <2>2, <2>3, <2>4
<1> QED  BY <1>7, <1>8
-----------------------------------------------------------------------------
(* What a request commits keeps the stores as they should be. *)

\* Who else is trusted, or has forgiven, does not matter.
LEMMA KeptForMore ==
    ASSUME NEW st, NEW made, NEW given, NEW seen, StoreKept(st, made, given, seen),
           NEW made2, NEW given2, NEW seen2,
           made \subseteq made2, given \subseteq given2, seen \subseteq seen2
    PROVE  StoreKept(st, made2, given2, seen2)
BY DEF StoreKept, RowsAreMade, RowsAreMeant, SeenFor

\* Entries, fingerprints and rows go; a forgiven row only together with the
\* fingerprint that has its CertID.
LEMMA RemovedKeeps ==
    ASSUME NEW st, NEW made, NEW given, NEW seen, StoreKept(st, made, given, seen),
           NEW E \in SUBSET st.entries, NEW H \in SUBSET st.hashes, NEW R \in SUBSET st.sites,
           \A z \in st.sites \ R : z.forgiven => \A y \in H : y.id # z.id
    PROVE  StoreKept([entries |-> E, hashes |-> H, sites |-> R], made, given, seen)
<1> DEFINE t == [entries |-> E, hashes |-> H, sites |-> R]
<1>1. t.entries = E /\ t.hashes = H /\ t.sites = R
      /\ t = [entries |-> t.entries, hashes |-> t.hashes, sites |-> t.sites]
  OBVIOUS
<1> HIDE DEF t
<1>2. IsRecords(t)
  BY <1>1, FS_Subset DEF StoreKept, IsRecords
<1>3. KeysAreUnique(t) /\ FirstIsAlone(t) /\ RowsAreMade(t, made)
  BY <1>1 DEF StoreKept, KeysAreUnique, FirstIsAlone, RowsAreMade
<1>4. RowsAreMeant(t, given, seen)
  BY <1>1 DEF StoreKept, RowsAreMeant, SeenFor
<1> QED  BY <1>2, <1>3, <1>4 DEF StoreKept, t

\* Entries come: only their handles matter.
Saved(st, c) ==
    [st EXCEPT !.entries = @ \cup {[handle |-> NextFreeHandle(st), cert |-> c]}]

LEMMA SavedKeeps ==
    ASSUME NEW st, NEW made, NEW given, NEW seen, StoreKept(st, made, given, seen),
           NEW c \in Certs, NEW t, t = Saved(st, c)
    PROVE  /\ StoreKept(t, made, given, seen)
           /\ t.hashes = st.hashes /\ t.sites = st.sites
<1> DEFINE e == [handle |-> NextFreeHandle(st), cert |-> c]
<1>1. /\ st = [entries |-> st.entries, hashes |-> st.hashes, sites |-> st.sites]
      /\ IsRecords(st)
  BY DEF StoreKept, IsRecords
<1>2. /\ e \in [handle : Nat, cert : Certs]
      /\ \A f \in st.entries : e.handle # f.handle
  BY <1>1, NextHandleIsNew
<1> HIDE DEF e
<1>3. t = [entries |-> st.entries \cup {e}, hashes |-> st.hashes, sites |-> st.sites]
  BY <1>1 DEF e, Saved
<1>4. /\ t.entries = st.entries \cup {e} /\ t.hashes = st.hashes /\ t.sites = st.sites
      /\ t = [entries |-> t.entries, hashes |-> t.hashes, sites |-> t.sites]
  BY <1>3
<1>5. IsRecords(t)
  BY <1>1, <1>2, <1>4, FS_AddElement DEF IsRecords
<1>6. KeysAreUnique(t) /\ FirstIsAlone(t) /\ RowsAreMade(t, made) /\ RowsAreMeant(t, given, seen)
  BY <1>2, <1>4 DEF StoreKept, KeysAreUnique, FirstIsAlone, RowsAreMade, RowsAreMeant, SeenFor
<1> QED  BY <1>4, <1>5, <1>6 DEF StoreKept

LEMMA HashedKeeps ==
    ASSUME NEW st, NEW made, NEW given, NEW seen, StoreKept(st, made, given, seen),
           NEW c \in Certs, NEW t, t = Hashed(st, c)
    PROVE  /\ StoreKept(t, made, given, seen)
           /\ t.entries = st.entries /\ t.sites = st.sites
           /\ CertID(t, c) # NoID
           /\ CertID(st, c) # NoID => t = st
<1>1. CASE CertID(st, c) # NoID
  BY <1>1 DEF Hashed
<1>2. CASE CertID(st, c) = NoID
  <2> DEFINE y == [id |-> FreshID(st), cert |-> c]
  <2>1. /\ st = [entries |-> st.entries, hashes |-> st.hashes, sites |-> st.sites]
        /\ IsRecords(st) /\ KeysAreUnique(st)
    BY DEF StoreKept, IsRecords
  <2>2. /\ y \in [id : Nat \ {NoID}, cert : Certs] /\ y.cert = c
        /\ \A x \in st.hashes : x.id # y.id
        /\ \A x \in st.sites : x.id # y.id
    BY <2>1, FreshIsNew
  <2>3. \A x \in st.hashes : x.cert # c
    BY <1>2, <2>1, CertIDIs
  <2> HIDE DEF y
  <2>4. t = [entries |-> st.entries, hashes |-> st.hashes \cup {y}, sites |-> st.sites]
    BY <1>2, <2>1 DEF Hashed, y
  <2>5. /\ t.entries = st.entries /\ t.hashes = st.hashes \cup {y} /\ t.sites = st.sites
        /\ t = [entries |-> t.entries, hashes |-> t.hashes, sites |-> t.sites]
    BY <2>4
  <2>6. IsRecords(t)
    BY <2>1, <2>2, <2>5, FS_AddElement DEF IsRecords
  <2>7. KeysAreUnique(t)
    BY <2>1, <2>2, <2>3, <2>5 DEF KeysAreUnique
  <2>8. FirstIsAlone(t) /\ RowsAreMade(t, made) /\ RowsAreMeant(t, given, seen)
    BY <2>2, <2>5 DEF StoreKept, FirstIsAlone, RowsAreMade, RowsAreMeant, SeenFor
  <2>9. CertID(t, c) # NoID
    BY <2>2, <2>5, <2>6, <2>7, CertIDIs
  <2> QED  BY <1>2, <2>5, <2>6, <2>7, <2>8, <2>9 DEF StoreKept
<1> QED  BY <1>1, <1>2

\* A site is added to a certificate that was meant for it.
Meant(st, given, seen, c, s) ==
    \/ <<c, s>> \in given
    \/ CertID(st, c) # NoID /\ SeenFor(st, seen, CertID(st, c), c, s)

LEMMA AddSiteKeeps ==
    ASSUME NEW st, NEW made, NEW given, NEW seen, StoreKept(st, made, given, seen),
           NEW c \in Certs, NEW s \in Sites, Meant(st, given, seen, c, s),
           NoApp \notin Apps, NEW o \in AddSite(st, c, s)
    PROVE  StoreKept(o.st, made, given, seen)
<1> DEFINE known == Hashed(st, c)
           id == CertID(known, c)
           row == [id |-> id, site |-> s, forgiven |-> FALSE, outOfDate |-> FALSE, app |-> NoApp]
           t == [known EXCEPT !.sites = @ \cup {row}]
<1>1. /\ StoreKept(known, made, given, seen) /\ known.sites = st.sites
      /\ id # NoID /\ (CertID(st, c) # NoID => known = st)
  <2>1. known = Hashed(st, c)
    OBVIOUS
  <2> HIDE DEF known
  <2> QED  BY <2>1, HashedKeeps
<1>2. o.st \in {st, known, t}
  BY DEF AddSite, Fails, Ends
<1> HIDE DEF known
<1>3. /\ IsRecords(known) /\ KeysAreUnique(known)
      /\ known = [entries |-> known.entries, hashes |-> known.hashes, sites |-> known.sites]
  BY <1>1 DEF StoreKept, IsRecords
<1>4. /\ id \in Nat
      /\ \A y \in known.hashes : y.id = id => y.cert = c
  BY <1>1, <1>3, CertIDIs
<1>5. <<c, s>> \in given \/ SeenFor(known, seen, id, c, s)
  BY <1>1 DEF Meant
<1>6. row \in [id : Nat, site : Sites, forgiven : BOOLEAN, outOfDate : BOOLEAN,
               app : Apps \cup {NoApp}]
      /\ row.id = id /\ row.site = s /\ ~row.forgiven
  <2> HIDE DEF id
  <2> QED  BY <1>4
<1> HIDE DEF id, row
<1>7. t = [entries |-> known.entries, hashes |-> known.hashes, sites |-> known.sites \cup {row}]
  BY <1>3
<1>8. /\ t.entries = known.entries /\ t.hashes = known.hashes /\ t.sites = known.sites \cup {row}
      /\ t = [entries |-> t.entries, hashes |-> t.hashes, sites |-> t.sites]
  BY <1>7
<1> HIDE DEF t
<1>9. IsRecords(t)
  BY <1>3, <1>6, <1>8, FS_AddElement DEF IsRecords
<1>10. KeysAreUnique(t) /\ FirstIsAlone(t) /\ RowsAreMade(t, made)
  BY <1>1, <1>6, <1>8 DEF StoreKept, KeysAreUnique, FirstIsAlone, RowsAreMade
<1>11. RowsAreMeant(t, given, seen)
  <2> SUFFICES ASSUME NEW x \in t.sites, NEW y \in t.hashes, ~x.forgiven, y.id = x.id
               PROVE  <<y.cert, x.site>> \in given \/ SeenFor(t, seen, x.id, y.cert, x.site)
    BY DEF RowsAreMeant
  <2>1. \A i, d, r : SeenFor(known, seen, i, d, r) => SeenFor(t, seen, i, d, r)
    BY <1>8 DEF SeenFor
  <2>2. CASE x = row
    BY <1>4, <1>5, <1>6, <1>8, <2>1, <2>2
  <2>3. CASE x # row
    BY <1>1, <1>8, <2>1, <2>3 DEF StoreKept, RowsAreMeant
  <2> QED  BY <2>2, <2>3
<1> QED  BY <1>1, <1>2, <1>9, <1>10, <1>11 DEF StoreKept

LEMMA AddCertKeeps ==
    ASSUME NEW st, NEW made, NEW given, NEW seen, StoreKept(st, made, given, seen),
           NEW c \in Certs, NEW o \in AddCert(st, c),
           CommonName[c] # NoSite => Meant(st, given, seen, c, CommonName[c])
    PROVE  StoreKept(o.st, made, given, seen)
<1> DEFINE saved == Saved(st, c)
<1>1. /\ StoreKept(saved, made, given, seen)
      /\ saved.hashes = st.hashes /\ saved.sites = st.sites
  <2>1. saved = Saved(st, c)
    OBVIOUS
  <2> HIDE DEF saved
  <2> QED  BY <2>1, SavedKeeps
<1>2. \/ o.st \in {st, saved}
      \/ CommonName[c] # NoSite /\ o \in AddSite(saved, c, CommonName[c])
  BY DEF AddCert, Saved, Fails, Ends
<1> HIDE DEF saved
<1>3. CommonName[c] # NoSite => Meant(saved, given, seen, c, CommonName[c])
  BY <1>1 DEF Meant, SeenFor, CertID
<1>4. CommonName[c] # NoSite => CommonName[c] \in Sites
  BY TrustAssumption
<1>5. NoApp \notin Apps
  BY TrustAssumption
<1> QED  BY <1>1, <1>2, <1>3, <1>4, <1>5, AddSiteKeeps

\* A forgiven row is made for a CertID, in the place of the row that had none.
LEMMA RowGivenKeeps ==
    ASSUME NEW st, NEW made, NEW given, NEW seen, StoreKept(st, made, given, seen),
           NEW R \in SUBSET st.sites, \A z \in R : z.id = NoID,
           NEW x \in st.sites, x.forgiven, NEW id \in Nat \ {NoID},
           \A y \in st.sites \ R : y.site = x.site => y.id # NoID,
           NEW w, w = [x EXCEPT !.id = id]
    PROVE  /\ StoreKept([st EXCEPT !.sites = (@ \ R) \cup {w}], made, given, seen)
           /\ w.forgiven /\ w.id = id /\ w.site = x.site
<1> DEFINE t == [st EXCEPT !.sites = (@ \ R) \cup {w}]
<1>1. /\ st = [entries |-> st.entries, hashes |-> st.hashes, sites |-> st.sites]
      /\ IsRecords(st) /\ KeysAreUnique(st)
  BY DEF StoreKept, IsRecords
<1>2. x \in [id : Nat, site : Sites, forgiven : BOOLEAN, outOfDate : BOOLEAN,
             app : Apps \cup {NoApp}]
  BY <1>1 DEF IsRecords
<1>3. /\ w \in [id : Nat, site : Sites, forgiven : BOOLEAN, outOfDate : BOOLEAN,
                app : Apps \cup {NoApp}]
      /\ w.forgiven /\ w.id = id /\ w.site = x.site /\ w.app = x.app
  BY <1>2
<1>4. t = [entries |-> st.entries, hashes |-> st.hashes, sites |-> (st.sites \ R) \cup {w}]
  BY <1>1
<1>5. /\ t.entries = st.entries /\ t.hashes = st.hashes /\ t.sites = (st.sites \ R) \cup {w}
      /\ t = [entries |-> t.entries, hashes |-> t.hashes, sites |-> t.sites]
  BY <1>4
<1> HIDE DEF t
<1>6. IsFiniteSet(t.sites)
  <2>1. IsFiniteSet(st.sites \ R)
    BY <1>1, FS_Subset DEF IsRecords
  <2>2. IsFiniteSet((st.sites \ R) \cup {w})
    BY <2>1, FS_AddElement
  <2> QED  BY <1>5, <2>2
<1>7. IsRecords(t) /\ KeysAreUnique(t)
  BY <1>1, <1>3, <1>5, <1>6 DEF IsRecords, KeysAreUnique
<1>8. FirstIsAlone(t)
  BY <1>3, <1>5 DEF StoreKept, FirstIsAlone
<1>9. RowsAreMade(t, made)
  BY <1>3, <1>5 DEF StoreKept, RowsAreMade
<1>10. RowsAreMeant(t, given, seen)
  <2> SUFFICES ASSUME NEW r \in t.sites, NEW y \in t.hashes, ~r.forgiven, y.id = r.id
               PROVE  <<y.cert, r.site>> \in given \/ SeenFor(t, seen, r.id, y.cert, r.site)
    BY DEF RowsAreMeant
  <2>1. r \in st.sites /\ y \in st.hashes /\ y.id # NoID
    BY <1>1, <1>3, <1>5 DEF IsRecords
  <2>2. <<y.cert, r.site>> \in given \/ SeenFor(st, seen, r.id, y.cert, r.site)
    BY <2>1 DEF StoreKept, RowsAreMeant
  <2> QED  BY <1>5, <2>1, <2>2 DEF SeenFor
<1> QED  BY <1>3, <1>7, <1>8, <1>9, <1>10 DEF StoreKept, t

IsUnmixed(st) == \A x, y \in st.sites : x.site = y.site => x.forgiven = y.forgiven

LEMMA OverWriteKeeps ==
    ASSUME NEW st, NEW made, NEW given, NEW seen, StoreKept(st, made, given, seen),
           IsUnmixed(st), NEW c \in Certs, NEW s \in Sites, IsForgivenSite(st, s),
           NEW o \in OverWriteCert(st, c, s)
    PROVE  /\ StoreKept(o.st, made, given, seen)
           /\ o.told # "error" =>
                  /\ CertID(o.st, c) # NoID
                  /\ \E z \in o.st.sites : z.forgiven /\ z.id = CertID(o.st, c) /\ z.site = s
<1> DEFINE known == Hashed(st, c)
           id == CertID(known, c)
           rows == {x \in known.sites : x.site = s}
           With(x) == [x EXCEPT !.id = id]
<1>1. /\ StoreKept(known, made, given, seen) /\ known.sites = st.sites
      /\ id # NoID /\ (CertID(st, c) # NoID => known = st)
  <2>1. known = Hashed(st, c)
    OBVIOUS
  <2> HIDE DEF known
  <2> QED  BY <2>1, HashedKeeps
<1>2. \/ o \in {Fails(st), Fails(known)}
      \/ (\E x \in rows : x.id = id) /\ o = Ends(known)
      \/ /\ \E x \in rows : x.id = NoID
         /\ o = Ends([known EXCEPT !.sites = (@ \ rows) \cup {With(x) : x \in rows}])
      \/ /\ \A x \in rows : x.id # NoID
         /\ \E x \in rows : o = Ends([known EXCEPT !.sites = @ \cup {With(x)}])
  BY DEF OverWriteCert
<1> HIDE DEF known
<1>3. /\ IsRecords(known) /\ KeysAreUnique(known) /\ FirstIsAlone(known)
      /\ known = [entries |-> known.entries, hashes |-> known.hashes, sites |-> known.sites]
  BY <1>1 DEF StoreKept, IsRecords
<1>4. id \in Nat \ {NoID}
  BY <1>1, <1>3, CertIDIs
<1>5. \A x \in rows : x.forgiven /\ x.site = s /\ x \in known.sites
  BY <1>1 DEF IsUnmixed, IsForgivenSite
<1>6. \A t : t.hashes = known.hashes => CertID(t, c) = id
  BY DEF CertID
<1>7. CASE o \in {Fails(st), Fails(known)}
  BY <1>1, <1>7 DEF Fails
<1>8. CASE (\E x \in rows : x.id = id) /\ o = Ends(known)
  <2>1. o.st = known
    BY <1>8 DEF Ends
  <2> QED  BY <1>1, <1>5, <1>8, <2>1
<1>9. ASSUME NEW x \in rows, NEW R \in SUBSET known.sites,
             \A z \in R : z.id = NoID,
             \A y \in known.sites \ R : y.site = s => y.id # NoID,
             o = Ends([known EXCEPT !.sites = (@ \ R) \cup {With(x)}])
      PROVE  /\ StoreKept(o.st, made, given, seen)
             /\ CertID(o.st, c) # NoID
             /\ \E z \in o.st.sites : z.forgiven /\ z.id = CertID(o.st, c) /\ z.site = s
  <2> DEFINE w == With(x)
             t == [known EXCEPT !.sites = (@ \ R) \cup {w}]
  <2>1. x \in known.sites /\ x.forgiven /\ x.site = s
    BY <1>5
  <2>2. w = [x EXCEPT !.id = id]
    OBVIOUS
  <2>3. o.st = t
    BY <1>9 DEF Ends
  <2> HIDE DEF w, id
  <2>4. StoreKept(t, made, given, seen) /\ w.forgiven /\ w.id = id /\ w.site = x.site
    BY <1>1, <1>4, <1>9, <2>1, <2>2, RowGivenKeeps
  <2>5. t.hashes = known.hashes /\ w \in t.sites
    BY <1>3
  <2> HIDE DEF t
  <2> QED  BY <1>4, <1>6, <2>1, <2>3, <2>4, <2>5
<1>10. ASSUME NEW x \in rows, x.id = NoID,
              o = Ends([known EXCEPT !.sites = (@ \ rows) \cup {With(r) : r \in rows}])
       PROVE  /\ StoreKept(o.st, made, given, seen)
              /\ CertID(o.st, c) # NoID
              /\ \E z \in o.st.sites : z.forgiven /\ z.id = CertID(o.st, c) /\ z.site = s
  <2>1. \A r \in rows : r = x
    BY <1>3, <1>5, <1>10 DEF FirstIsAlone
  <2>2. {With(r) : r \in rows} = {With(x)}
    BY <2>1
  <2>3. \A z \in rows : z.id = NoID
    BY <1>10, <2>1
  <2>4. \A y \in known.sites \ rows : y.site # s
    OBVIOUS
  <2>5. rows \in SUBSET known.sites
    OBVIOUS
  <2>6. o = Ends([known EXCEPT !.sites = (@ \ rows) \cup {With(x)}])
    BY <1>10, <2>2
  <2> HIDE DEF rows, With, id
  <2> QED  BY <1>9, <2>3, <2>4, <2>5, <2>6
<1>11. ASSUME NEW x \in rows, \A r \in rows : r.id # NoID,
              o = Ends([known EXCEPT !.sites = @ \cup {With(x)}])
       PROVE  /\ StoreKept(o.st, made, given, seen)
              /\ CertID(o.st, c) # NoID
              /\ \E z \in o.st.sites : z.forgiven /\ z.id = CertID(o.st, c) /\ z.site = s
  <2>1. o = Ends([known EXCEPT !.sites = (@ \ {}) \cup {With(x)}])
    BY <1>11
  <2>2. \A y \in known.sites \ {} : y.site = s => y.id # NoID
    BY <1>11
  <2>3. {} \in SUBSET known.sites /\ \A z \in {} : z.id = NoID
    OBVIOUS
  <2> HIDE DEF rows, With, id
  <2> QED  BY <1>9, <2>1, <2>2, <2>3
<1> HIDE DEF rows, With, id
<1> QED  BY <1>2, <1>7, <1>8, <1>9, <1>10, <1>11, Zenon

\* At a forgiven site the certificate gets a row, and with it those who are to
\* be trusted with the site the certificate names.
LEMMA IsTrustedSiteKeeps ==
    ASSUME NEW st, NEW made, NEW given, NEW seen, NEW c \in Certs, NEW s \in Sites,
           IsUnmixed(st), NEW o \in IsTrustedSite(st, c, s),
           StoreKept(st, made, given, seen)
    PROVE  StoreKept(o.st, made, given,
                     IF IsForgivenSite(st, s) THEN seen \cup {<<c, s>>} ELSE seen)
<1>1. CASE ~IsForgivenSite(st, s)
  BY <1>1 DEF IsTrustedSite, Fails, Ends
<1>2. CASE IsForgivenSite(st, s)
  <2> DEFINE also == seen \cup {<<c, s>>}
  <2>1. StoreKept(st, made, given, also)
    BY KeptForMore
  <2>2. PICK p \in OverWriteCert(st, c, s) :
            \/ (p.told = "error" \/ InStore(p.st, c)) /\ o \in {p, Fails(p.st)}
            \/ ~(p.told = "error" \/ InStore(p.st, c)) /\ o \in AddCert(p.st, c)
    BY <1>2, Zenon DEF IsTrustedSite
  <2>3. <<c, s>> \in also
    OBVIOUS
  <2> HIDE DEF also
  <2>4. /\ StoreKept(p.st, made, given, also)
        /\ p.told # "error" =>
               /\ CertID(p.st, c) # NoID
               /\ \E z \in p.st.sites : z.forgiven /\ z.id = CertID(p.st, c) /\ z.site = s
    BY <1>2, <2>1, OverWriteKeeps
  <2>5. p.told # "error" => Meant(p.st, given, also, c, CommonName[c])
    BY <2>3, <2>4 DEF Meant, SeenFor
  <2>6. StoreKept(o.st, made, given, also)
    <3>1. CASE o \in {p, Fails(p.st)}
      BY <2>4, <3>1 DEF Fails
    <3>2. CASE p.told # "error" /\ o \in AddCert(p.st, c)
      BY <2>4, <2>5, <3>2, AddCertKeeps
    <3> QED  BY <2>2, <3>1, <3>2
  <2> QED  BY <1>2, <2>6 DEF also
<1> QED  BY <1>1, <1>2

LEMMA AddForgivenSiteKeeps ==
    ASSUME NEW st, NEW made, NEW given, NEW seen, StoreKept(st, made, given, seen),
           NEW s \in Sites, NEW flag \in BOOLEAN, NEW a \in Apps,
           NEW o \in AddForgivenSite(st, s, flag, a)
    PROVE  StoreKept(o.st, made \cup {<<a, s>>}, given, seen)
<1> DEFINE also == made \cup {<<a, s>>}
           Row == [id : Nat, site : Sites, forgiven : BOOLEAN, outOfDate : BOOLEAN,
                   app : Apps \cup {NoApp}]
           F(x) == IF x.site = s THEN [x EXCEPT !.outOfDate = flag] ELSE x
           row == [id |-> NoID, site |-> s, forgiven |-> TRUE, outOfDate |-> flag, app |-> a]
           newSites == IF IsForgivenSite(st, s) THEN {F(x) : x \in st.sites}
                       ELSE st.sites \cup {row}
           t == [st EXCEPT !.sites = newSites]
<1>1. StoreKept(st, made, given, seen) /\ StoreKept(st, also, given, seen)
  BY KeptForMore
<1>2. o.st = st \/ o.st = t
  <2>1. CASE IsForgivenSite(st, s)
    <3>1. o = Fails(st) \/ o = Ends([st EXCEPT !.sites = {F(x) : x \in @}])
      BY <2>1, Zenon DEF AddForgivenSite
    <3>2. newSites = {F(x) : x \in st.sites}
      BY <2>1
    <3> HIDE DEF newSites, F
    <3> QED  BY <3>1, <3>2 DEF Fails, Ends
  <2>2. CASE ~IsForgivenSite(st, s)
    <3>1. o = Fails(st) \/ o = Ends([st EXCEPT !.sites = @ \cup {row}])
      BY <2>2, Zenon DEF AddForgivenSite
    <3>2. newSites = st.sites \cup {row}
      BY <2>2
    <3> HIDE DEF newSites, row
    <3> QED  BY <3>1, <3>2 DEF Fails, Ends
  <2> QED  BY <2>1, <2>2
<1>3. <<a, s>> \in also
  OBVIOUS
<1>4. /\ st = [entries |-> st.entries, hashes |-> st.hashes, sites |-> st.sites]
      /\ IsRecords(st) /\ KeysAreUnique(st) /\ st.sites \in SUBSET Row
  BY DEF StoreKept, IsRecords
<1>5. t = [entries |-> st.entries, hashes |-> st.hashes, sites |-> newSites]
  <2> HIDE DEF newSites
  <2> QED  BY <1>4
<1>6. /\ t.entries = st.entries /\ t.hashes = st.hashes /\ t.sites = newSites
      /\ t = [entries |-> t.entries, hashes |-> t.hashes, sites |-> t.sites]
  <2> HIDE DEF newSites
  <2> QED  BY <1>5
<1> HIDE DEF t, also
<1>7. CASE IsForgivenSite(st, s)
  <2>1. \A x \in st.sites : /\ F(x) \in Row /\ F(x).id = x.id /\ F(x).site = x.site
                            /\ F(x).forgiven = x.forgiven /\ F(x).app = x.app
    BY <1>4
  <2> HIDE DEF F, Row
  <2>2. t.sites = {F(x) : x \in st.sites}
    BY <1>6, <1>7
  <2>3. IsFiniteSet(t.sites)
    <3> DEFINE g == [x \in st.sites |-> F(x)]
    <3>1. g \in Surjection(st.sites, t.sites)
      BY <2>2 DEF Surjection
    <3> QED  BY <1>4, <3>1, FS_Surjection DEF IsRecords
  <2>4. t.sites \in SUBSET Row
    BY <2>1, <2>2
  <2>5. IsRecords(t) /\ KeysAreUnique(t)
    BY <1>4, <1>6, <2>3, <2>4 DEF IsRecords, KeysAreUnique, Row
  <2>6. FirstIsAlone(t)
    BY <1>1, <2>1, <2>2 DEF StoreKept, FirstIsAlone
  <2>7. RowsAreMade(t, also)
    <3> SUFFICES ASSUME NEW x \in t.sites
                 PROVE  IF x.forgiven THEN <<x.app, x.site>> \in also ELSE x.id # NoID
      BY DEF RowsAreMade
    <3>1. PICK r \in st.sites : x = F(r)
      BY <2>2
    <3> QED  BY <1>1, <2>1, <3>1 DEF StoreKept, RowsAreMade
  <2>8. RowsAreMeant(t, given, seen)
    <3> SUFFICES ASSUME NEW x \in t.sites, NEW y \in t.hashes, ~x.forgiven, y.id = x.id
                 PROVE  <<y.cert, x.site>> \in given \/ SeenFor(t, seen, x.id, y.cert, x.site)
      BY DEF RowsAreMeant
    <3>1. PICK r \in st.sites : x = F(r)
      BY <2>2
    <3>2. <<y.cert, r.site>> \in given \/ SeenFor(st, seen, r.id, y.cert, r.site)
      BY <1>1, <1>6, <2>1, <3>1 DEF StoreKept, RowsAreMeant
    <3>3. \A z \in st.sites : F(z) \in t.sites
      BY <2>2
    <3>4. SeenFor(st, seen, r.id, y.cert, r.site) => SeenFor(t, seen, r.id, y.cert, r.site)
      BY <2>1, <3>3 DEF SeenFor
    <3> QED  BY <2>1, <3>1, <3>2, <3>4
  <2>9. StoreKept(t, also, given, seen)
    BY <2>5, <2>6, <2>7, <2>8 DEF StoreKept
  <2> QED  BY <1>1, <1>2, <2>9 DEF also
<1>8. CASE ~IsForgivenSite(st, s)
  <2>1. /\ row \in Row /\ row.id = NoID /\ row.site = s /\ row.forgiven /\ row.app = a
    BY DEF NoID
  <2>2. \A x \in st.sites : x.site = s => ~x.forgiven /\ x.id # NoID
    BY <1>1, <1>8 DEF IsForgivenSite, StoreKept, RowsAreMade
  <2> HIDE DEF row
  <2>3. t.sites = st.sites \cup {row}
    BY <1>6, <1>8
  <2>4. IsFiniteSet(t.sites)
    BY <1>4, <2>3, FS_AddElement DEF IsRecords
  <2>5. t.sites \in SUBSET Row
    BY <1>4, <2>1, <2>3
  <2> HIDE DEF newSites
  <2>6. IsRecords(t) /\ KeysAreUnique(t)
    BY <1>4, <1>6, <2>4, <2>5 DEF IsRecords, KeysAreUnique, Row
  <2>7. FirstIsAlone(t)
    BY <1>1, <2>1, <2>2, <2>3 DEF StoreKept, FirstIsAlone
  <2>8. RowsAreMade(t, also)
    BY <1>1, <1>3, <2>1, <2>3 DEF StoreKept, RowsAreMade
  <2>9. RowsAreMeant(t, given, seen)
    BY <1>1, <1>6, <2>1, <2>3 DEF StoreKept, RowsAreMeant, SeenFor
  <2>10. StoreKept(t, also, given, seen)
    BY <2>6, <2>7, <2>8, <2>9 DEF StoreKept
  <2> QED  BY <1>1, <1>2, <2>10 DEF also
<1> QED  BY <1>7, <1>8

\* Who is no longer in the table of fingerprints need not be trusted.
LEMMA KeptForLess ==
    ASSUME NEW st, NEW made, NEW given, NEW seen, StoreKept(st, made, given, seen),
           NEW c, \A y \in st.hashes : y.cert # c
    PROVE  StoreKept(st, made, given \ ({c} \X Sites), seen \ ({c} \X Sites))
<1>1. \A d, s : d # c => <<d, s>> \notin {c} \X Sites
  OBVIOUS
<1>2. \A y \in st.hashes, x \in st.sites :
          /\ <<y.cert, x.site>> \in given => <<y.cert, x.site>> \in given \ ({c} \X Sites)
          /\ <<y.cert, x.site>> \in seen => <<y.cert, x.site>> \in seen \ ({c} \X Sites)
  BY <1>1
<1>3. RowsAreMeant(st, given \ ({c} \X Sites), seen \ ({c} \X Sites))
  BY <1>2 DEF StoreKept, RowsAreMeant, SeenFor
<1> QED  BY <1>3 DEF StoreKept

LEMMA RemoveCertKeeps ==
    ASSUME NEW st, NEW made, NEW given, NEW seen, StoreKept(st, made, given, seen),
           NEW h, NEW o \in RemoveCert(st, h), o.told # "unsaved"
    PROVE  /\ StoreKept(o.st, made, given, seen)
           /\ \A e \in st.entries :
                  /\ e.handle = h /\ o.told # "error"
                  /\ \A f \in st.entries : f.cert = e.cert => f.handle = h
                  => \A y \in o.st.hashes : y.cert # e.cert
<1> DEFINE gone == [st EXCEPT !.entries = {e \in @ : e.handle # h}]
<1>1. /\ st = [entries |-> st.entries, hashes |-> st.hashes, sites |-> st.sites]
      /\ IsRecords(st) /\ KeysAreUnique(st)
  BY DEF StoreKept, IsRecords
<1>2. CASE o = Fails(st)
  BY <1>2 DEF Fails
<1>3. ASSUME NEW e \in st.entries, e.handle = h, o \in RemoveRecords(gone, e.cert)
      PROVE  /\ StoreKept(o.st, made, given, seen)
             /\ o.told # "error" /\ (\A f \in st.entries : f.cert = e.cert => f.handle = h)
                => \A y \in o.st.hashes : y.cert # e.cert
  <2> DEFINE E == {f \in st.entries : f.handle # h}
             id == CertID(gone, e.cert)
             H == {x \in st.hashes : x.id # id}
             R == {x \in st.sites : x.id # id}
  <2>1. gone = [entries |-> E, hashes |-> st.hashes, sites |-> st.sites]
    <3>1. gone = [st EXCEPT !.entries = E]
      OBVIOUS
    <3> HIDE DEF gone, E
    <3> QED  BY <1>1, <3>1
  <2>2. DoRemove(gone, id) = [entries |-> E, hashes |-> H, sites |-> R]
    <3>1. DoRemove(gone, id) = [gone EXCEPT !.hashes = {x \in @ : x.id # id},
                                            !.sites = {x \in @ : x.id # id}]
      BY DEF DoRemove
    <3> HIDE DEF gone, E, id
    <3> QED  BY <2>1, <3>1
  <2>3. id = CertID(st, e.cert)
    BY <2>1 DEF CertID
  <2>4. \A y \in st.hashes : y.cert = e.cert => y.id = id
    BY <1>1, <2>3, CertIDIs
  <2>5. E \in SUBSET st.entries /\ H \in SUBSET st.hashes /\ R \in SUBSET st.sites
        /\ \A z \in st.sites \ R : \A y \in H : y.id # z.id
    OBVIOUS
  <2>6. StoreKept(DoRemove(gone, id), made, given, seen)
    <3> HIDE DEF E, H, R
    <3> QED  BY <2>2, <2>5, RemovedKeeps
  <2>7. StoreKept(gone, made, given, seen)
    <3>1. st.hashes \in SUBSET st.hashes /\ st.sites \in SUBSET st.sites
          /\ \A z \in st.sites \ st.sites : z.forgiven => \A y \in st.hashes : y.id # z.id
      OBVIOUS
    <3> HIDE DEF E, gone
    <3> QED  BY <2>1, <2>5, <3>1, RemovedKeeps
  <2>8. \/ o = Fails(gone)
        \/ InStore(gone, e.cert) /\ o = Ends(gone)
        \/ o = Ends(DoRemove(gone, id))
    <3> HIDE DEF gone
    <3> QED  BY <1>3 DEF RemoveRecords
  <2>9. InStore(gone, e.cert) => \E f \in st.entries : f.cert = e.cert /\ f.handle # h
    BY <2>1 DEF InStore
  <2>10. \A y \in DoRemove(gone, id).hashes : y.cert # e.cert
    BY <2>2, <2>4
  <2> HIDE DEF gone, id
  <2> QED  BY <2>6, <2>7, <2>8, <2>9, <2>10 DEF Fails, Ends
<1>4. o = Fails(st) \/ \E e \in st.entries : e.handle = h /\ o \in RemoveRecords(gone, e.cert)
  BY DEF RemoveCert
<1>5. \A e, f \in st.entries : e.handle = h /\ f.handle = h => e = f
  BY <1>1 DEF KeysAreUnique
<1> HIDE DEF gone
<1>6. CASE \E e \in st.entries : e.handle = h /\ o \in RemoveRecords(gone, e.cert)
  <2>1. PICK e \in st.entries : e.handle = h /\ o \in RemoveRecords(gone, e.cert)
    BY <1>6
  <2> QED  BY <1>3, <1>5, <2>1
<1> QED  BY <1>2, <1>4, <1>6 DEF Fails

\* Every piece of a request to take forgiveness back keeps the stores; after
\* the whole of it no row of the application is left at those sites.
LEMMA RemoveForgivenSitesKeeps ==
    ASSUME NEW st, NEW made, NEW given, NEW seen, StoreKept(st, made, given, seen),
           NEW a, NEW from
    PROVE  \A o \in RemoveForgivenSites(st, a, from) :
               StoreKept(o.st, IF o.told = "error" THEN made ELSE made \ ({a} \X from), given, seen)
<1> DEFINE rows == {x \in st.sites : x.app = a /\ x.site \in from}
           ids == {x.id : x \in rows} \ {NoID}
           doomed == {e \in st.entries : \E x \in st.hashes : x.id \in ids /\ x.cert = e.cert}
           NoHashes(t, some) == [t EXCEPT !.hashes = {x \in @ : x.id \notin some}]
           NoRows(t) == [t EXCEPT !.sites = {x \in @ : ~(x.app = a /\ x.site \in from)}]
           A == {Fails(Purged(st, some, kept)) :
                     some \in SUBSET doomed, kept \in {{}} \cup {{e.cert} : e \in doomed}}
           B(some) == {Fails(NoHashes(Purged(st, some, {}), gone)) : gone \in SUBSET ids}
           C(some) == [st |-> NoRows(NoHashes(Purged(st, some, {}), ids)),
                       told |-> IF some = doomed THEN "KErrNone" ELSE "unsaved"]
           D == UNION {B(some) \cup {C(some)} : some \in SUBSET doomed}
<1>0. RemoveForgivenSites(st, a, from) = IF rows = {} THEN {Ends(st)} ELSE A \cup D
  BY DEF RemoveForgivenSites
<1> SUFFICES ASSUME NEW o \in RemoveForgivenSites(st, a, from)
             PROVE  StoreKept(o.st, IF o.told = "error" THEN made ELSE made \ ({a} \X from),
                              given, seen)
  OBVIOUS
<1>1. /\ st = [entries |-> st.entries, hashes |-> st.hashes, sites |-> st.sites]
      /\ IsRecords(st)
  BY DEF StoreKept, IsRecords
<1>2. ASSUME NEW some, NEW kept
      PROVE  LET t == Purged(st, some, kept)
             IN  /\ StoreKept(t, made, given, seen)
                 /\ t.entries \in SUBSET st.entries /\ t.hashes \in SUBSET st.hashes
                 /\ t.sites \in SUBSET st.sites
  <2> DEFINE left == [st EXCEPT !.entries = @ \ some]
             gone == {CertID(st, e.cert) :
                      e \in {f \in some : ~InStore(left, f.cert) /\ f.cert \notin kept}}
             E == st.entries \ some
             H == {x \in st.hashes : x.id \notin gone}
             R == {x \in st.sites : x.id \notin gone}
  <2>1. Purged(st, some, kept) = [left EXCEPT !.hashes = {x \in @ : x.id \notin gone},
                                              !.sites = {x \in @ : x.id \notin gone}]
    BY DEF Purged
  <2> HIDE DEF gone
  <2>2. left = [entries |-> E, hashes |-> st.hashes, sites |-> st.sites]
    <3> HIDE DEF E
    <3> QED  BY <1>1 DEF E
  <2> HIDE DEF left
  <2>3. Purged(st, some, kept) = [entries |-> E, hashes |-> H, sites |-> R]
    <3> HIDE DEF E
    <3> QED  BY <2>1, <2>2
  <2>4. E \in SUBSET st.entries /\ H \in SUBSET st.hashes /\ R \in SUBSET st.sites
        /\ \A z \in st.sites \ R : \A y \in H : y.id # z.id
    OBVIOUS
  <2> HIDE DEF E, H, R
  <2>5. StoreKept([entries |-> E, hashes |-> H, sites |-> R], made, given, seen)
    BY <2>4, RemovedKeeps
  <2> QED  BY <2>3, <2>4, <2>5
<1>3. ASSUME NEW t, StoreKept(t, made, given, seen), NEW some
      PROVE  /\ StoreKept(NoHashes(t, some), made, given, seen)
             /\ NoHashes(t, some).hashes = {x \in t.hashes : x.id \notin some}
             /\ NoHashes(t, some).sites = t.sites
  <2> DEFINE H == {x \in t.hashes : x.id \notin some}
  <2>1. t = [entries |-> t.entries, hashes |-> t.hashes, sites |-> t.sites]
    BY <1>3 DEF StoreKept, IsRecords
  <2>2. NoHashes(t, some) = [entries |-> t.entries, hashes |-> H, sites |-> t.sites]
    <3>1. NoHashes(t, some) = [t EXCEPT !.hashes = H]
      OBVIOUS
    <3> HIDE DEF NoHashes, H
    <3> QED  BY <2>1, <3>1
  <2>3. H \in SUBSET t.hashes /\ t.entries \in SUBSET t.entries /\ t.sites \in SUBSET t.sites
        /\ \A z \in t.sites \ t.sites : z.forgiven => \A y \in H : y.id # z.id
    OBVIOUS
  <2> HIDE DEF NoHashes
  <2>4. NoHashes(t, some).hashes = H /\ NoHashes(t, some).sites = t.sites
    BY <2>2
  <2> HIDE DEF H
  <2> QED  BY <1>3, <2>2, <2>3, <2>4, RemovedKeeps DEF H
<1>4. ASSUME NEW t, StoreKept(t, made, given, seen), t.sites \in SUBSET st.sites,
             \A y \in t.hashes : y.id \notin ids
      PROVE  StoreKept(NoRows(t), made \ ({a} \X from), given, seen)
  <2> DEFINE R == {x \in t.sites : ~(x.app = a /\ x.site \in from)}
             u == [entries |-> t.entries, hashes |-> t.hashes, sites |-> R]
  <2>1. t = [entries |-> t.entries, hashes |-> t.hashes, sites |-> t.sites] /\ IsRecords(t)
    BY <1>4 DEF StoreKept, IsRecords
  <2>2. NoRows(t) = u
    <3>1. NoRows(t) = [t EXCEPT !.sites = R]
      OBVIOUS
    <3> HIDE DEF NoRows, R
    <3> QED  BY <2>1, <3>1
  <2>3. ASSUME NEW z \in t.sites \ R, NEW y \in t.hashes PROVE y.id # z.id
    <3>1. z \in rows /\ y.id # NoID /\ y.id \notin ids
      BY <1>4, <2>1 DEF IsRecords
    <3> QED  BY <3>1
  <2>4. R \in SUBSET t.sites /\ t.hashes \in SUBSET t.hashes /\ t.entries \in SUBSET t.entries
    OBVIOUS
  <2>5. \A x \in R : <<x.app, x.site>> \notin {a} \X from
    OBVIOUS
  <2>6. u.sites = R
    OBVIOUS
  <2> HIDE DEF R
  <2>7. StoreKept(u, made, given, seen)
    BY <1>4, <2>3, <2>4, RemovedKeeps
  <2> HIDE DEF u
  <2>8. RowsAreMade(u, made \ ({a} \X from))
    BY <2>5, <2>6, <2>7 DEF StoreKept, RowsAreMade
  <2> HIDE DEF NoRows
  <2> QED  BY <2>2, <2>7, <2>8 DEF StoreKept
<1>5. CASE rows = {} /\ o = Ends(st)
  <2>1. \A x \in st.sites : <<x.app, x.site>> \notin {a} \X from
    BY <1>5
  <2>2. RowsAreMade(st, made \ ({a} \X from))
    BY <2>1 DEF StoreKept, RowsAreMade
  <2>3. o.st = st /\ o.told = "KErrNone"
    BY <1>5 DEF Ends
  <2> QED  BY <2>2, <2>3 DEF StoreKept
<1>6. ASSUME NEW some, NEW kept, o = Fails(Purged(st, some, kept))
      PROVE  o.told = "error" /\ StoreKept(o.st, made, given, seen)
  BY <1>2, <1>6 DEF Fails
<1>7. ASSUME NEW some, NEW gone, o = Fails(NoHashes(Purged(st, some, {}), gone))
      PROVE  o.told = "error" /\ StoreKept(o.st, made, given, seen)
  <2> HIDE DEF NoHashes
  <2> QED  BY <1>2, <1>3, <1>7 DEF Fails
<1>8. ASSUME NEW some, NEW told \in {"KErrNone", "unsaved"},
             o = [st |-> NoRows(NoHashes(Purged(st, some, {}), ids)), told |-> told]
      PROVE  o.told # "error" /\ StoreKept(o.st, made \ ({a} \X from), given, seen)
  <2> DEFINE t == NoHashes(Purged(st, some, {}), ids)
  <2> HIDE DEF NoHashes, NoRows, ids
  <2>1. /\ StoreKept(t, made, given, seen) /\ t.sites \in SUBSET st.sites
        /\ \A y \in t.hashes : y.id \notin ids
    BY <1>2, <1>3
  <2> QED  BY <1>4, <1>8, <2>1
<1>9. \/ rows = {} /\ o = Ends(st)
      \/ \E some \in SUBSET doomed, kept \in {{}} \cup {{e.cert} : e \in doomed} :
             o = Fails(Purged(st, some, kept))
      \/ \E some \in SUBSET doomed, gone \in SUBSET ids :
             o = Fails(NoHashes(Purged(st, some, {}), gone))
      \/ \E some \in SUBSET doomed :
             o = [st |-> NoRows(NoHashes(Purged(st, some, {}), ids)),
                  told |-> IF some = doomed THEN "KErrNone" ELSE "unsaved"]
  <2>2. D = UNION {B(some) \cup {C(some)} : some \in SUBSET doomed}
    OBVIOUS
  <2>3. o \in A => \E some \in SUBSET doomed, kept \in {{}} \cup {{e.cert} : e \in doomed} :
                       o = Fails(Purged(st, some, kept))
    <3> HIDE DEF doomed
    <3> QED  OBVIOUS
  <2>4. \A some : o \in B(some) => \E gone \in SUBSET ids :
                       o = Fails(NoHashes(Purged(st, some, {}), gone))
    <3> HIDE DEF ids, NoHashes
    <3> QED  BY Zenon
  <2>5. \A some : C(some) = [st |-> NoRows(NoHashes(Purged(st, some, {}), ids)),
                             told |-> IF some = doomed THEN "KErrNone" ELSE "unsaved"]
    OBVIOUS
  <2> HIDE DEF A, B, C, D, NoHashes, NoRows, ids, doomed, rows
  <2>6. (rows = {} /\ o = Ends(st)) \/ o \in A \/ o \in D
    BY <1>0
  <2>7. o \in D => \E some \in SUBSET doomed : o \in B(some) \/ o = C(some)
    BY <2>2, Zenon
  <2> QED  BY <2>3, <2>4, <2>5, <2>6, <2>7, Zenon
<1> HIDE DEF NoHashes, NoRows, ids, doomed
<1>10. CASE \E some \in SUBSET doomed :
               o = [st |-> NoRows(NoHashes(Purged(st, some, {}), ids)),
                    told |-> IF some = doomed THEN "KErrNone" ELSE "unsaved"]
  <2>1. PICK some \in SUBSET doomed :
               o = [st |-> NoRows(NoHashes(Purged(st, some, {}), ids)),
                    told |-> IF some = doomed THEN "KErrNone" ELSE "unsaved"]
    BY <1>10
  <2>2. (IF some = doomed THEN "KErrNone" ELSE "unsaved") \in {"KErrNone", "unsaved"}
    OBVIOUS
  <2> QED  BY <1>8, <2>1, <2>2
<1> QED  BY <1>5, <1>6, <1>7, <1>9, <1>10
-----------------------------------------------------------------------------
TrustKept ==
    /\ StoreKept(store, forgave, granted, shown)
    /\ UnmixedSites
    /\ forgave \subseteq Apps \X Sites
    /\ \A q \in Requests :
           op[q].mode = "ESavingServerCert" => <<CertOf[q], SiteOf[q]>> \in granted

LEMMA TrustInit == Init => TrustKept
<1> SUFFICES ASSUME Init PROVE TrustKept
  OBVIOUS
<1>1. /\ store = NoRecords /\ granted = {} /\ shown = {} /\ forgave = {}
      /\ \A q \in Requests : op[q].mode = "none"
  BY DEF Init, NoOperation
<1>2. /\ store.entries = {} /\ store.hashes = {} /\ store.sites = {}
      /\ store = [entries |-> store.entries, hashes |-> store.hashes, sites |-> store.sites]
  BY <1>1 DEF NoRecords
<1>3. IsRecords(store)
  BY <1>2, FS_EmptySet DEF IsRecords
<1>4. StoreKept(store, forgave, granted, shown)
  BY <1>2, <1>3 DEF StoreKept, KeysAreUnique, FirstIsAlone, RowsAreMade, RowsAreMeant
<1> QED  BY <1>1, <1>2, <1>4 DEF TrustKept, UnmixedSites

\* The dialogs leave the stores alone, and no operation comes to save.
LEMMA DialogsKeepTrust ==
    ASSUME TrustKept, UNCHANGED trustVars,
           \A q \in Requests : op'[q].mode = "ESavingServerCert" =>
                                   op[q].mode = "ESavingServerCert"
    PROVE  TrustKept'
BY DEF TrustKept, trustVars, UnmixedSites

LEMMA OthersDoNotSave ==
    ASSUME Shapes, NEW q \in Requests, NEW x, op' = [op EXCEPT ![q] = x],
           x.mode # "ESavingServerCert"
    PROVE  \A r \in Requests : op'[r].mode = "ESavingServerCert" =>
                                   op[r].mode = "ESavingServerCert"
BY DEF Shapes

LEMMA EndedDoesNotSave ==
    /\ Ended.mode # "ESavingServerCert"
    /\ NoOperation.mode # "ESavingServerCert"
BY DEF Ended, NoOperation

LEMMA RetrieveNextSavesNothing ==
    ASSUME Shapes, NEW q \in Requests, NEW todo, RetrieveNext(q, todo)
    PROVE  \A r \in Requests : op'[r].mode = "ESavingServerCert" =>
                                   op[r].mode = "ESavingServerCert"
<1>1. \E x : op' = [op EXCEPT ![q] = x] /\ x.mode # "ESavingServerCert"
  <2>1. CASE todo = {}
    <3> DEFINE x == [op[q] EXCEPT !.mode = "query", !.todo = {}, !.got = NoCert]
    <3>1. op' = [op EXCEPT ![q] = x]
      BY <2>1 DEF RetrieveNext, ShowQuery
    <3>2. x.mode = "query"
      BY DEF Shapes
    <3> QED  BY <3>1, <3>2
  <2>2. CASE todo # {}
    <3>1. PICK got : op' = [op EXCEPT ![q] = [mode |-> "ERetrieveTrustedSiteCert",
                                              todo |-> todo \ {Min(todo)}, got |-> got]]
      BY <2>2, Zenon DEF RetrieveNext
    <3> DEFINE x == [mode |-> "ERetrieveTrustedSiteCert", todo |-> todo \ {Min(todo)}, got |-> got]
    <3>2. x.mode # "ESavingServerCert" /\ op' = [op EXCEPT ![q] = x]
      BY <3>1
    <3> QED  BY <3>2
  <2> QED  BY <2>1, <2>2
<1> QED  BY <1>1, OthersDoNotSave

LEMMA DeletedSavesNothing ==
    ASSUME Shapes, NEW q \in Requests, DeleteDialogs(q)
    PROVE  \A r \in Requests : op'[r].mode = "ESavingServerCert" =>
                                   op[r].mode = "ESavingServerCert"
<1> DEFINE x == IF op[q].mode \in LookupModes THEN Ended ELSE op[q]
<1>1. op' = [op EXCEPT ![q] = x]
  BY DEF DeleteDialogs
<1>2. x.mode # "ESavingServerCert"
  BY EndedDoesNotSave DEF LookupModes
<1> QED  BY <1>1, <1>2, OthersDoNotSave

LEMMA CancelKeepsTrust == ASSUME Shapes, TrustKept, CancelStep PROVE TrustKept'
<1>1. UNCHANGED trustVars
  BY DEF CancelStep, CancelNotifier, StartWithoutMemory
<1>2. \E q \in Requests : DeleteDialogs(q)
  BY DEF CancelStep, CancelNotifier, StartWithoutMemory, Shapes
<1> QED  BY <1>1, <1>2, DeletedSavesNothing, DialogsKeepTrust

\* The steps of the dialogs that ask the stores nothing.
LEMMA QuietStep ==
    ASSUME Shapes, TrustKept, NEW q \in Requests,
           \/ StartL(q) \/ StartIsRefused(q) \/ StartFails(q)
           \/ DialogsRunL(q) \/ OperationFails(q)
           \/ RetrieveFirstTrustedSiteCert(q) \/ CompareRetrievedCert(q)
           \/ \E a \in Answers : UserAnswers(q, a)
           \/ QueryRunL(q) \/ SessionCloses(q)
    PROVE  TrustKept'
<1>1. UNCHANGED trustVars
  BY DEF StartL, StartIsRefused, Asks, StartFails, DialogsRunL, OperationFails,
         RetrieveFirstTrustedSiteCert, CompareRetrievedCert, UserAnswers, QueryRunL, SessionCloses
<1> SUFFICES \A r \in Requests : op'[r].mode = "ESavingServerCert" =>
                                      op[r].mode = "ESavingServerCert"
  BY <1>1, DialogsKeepTrust
<1>2. CASE StartL(q) \/ StartIsRefused(q)
  <2>1. PICK reply, mode : Asks(q, reply, mode) /\ mode # "ESavingServerCert"
    <3>1. CASE StartL(q)
      BY <3>1 DEF StartL
    <3>2. CASE StartIsRefused(q)
      <4>1. PICK mode \in {"none", "refused"} : Asks(q, "error", mode)
        BY <3>2 DEF StartIsRefused
      <4>2. mode # "ESavingServerCert"
        OBVIOUS
      <4> QED  BY <4>1, <4>2
    <3> QED  BY <1>2, <3>1, <3>2
  <2> DEFINE x == [op[q] EXCEPT !.mode = mode]
  <2>2. op' = [op EXCEPT ![q] = x]
    BY <2>1 DEF Asks
  <2>3. x.mode = mode
    BY DEF Shapes
  <2> HIDE DEF x
  <2> QED  BY <2>1, <2>2, <2>3, OthersDoNotSave
<1>3. CASE UNCHANGED op
  BY <1>3
<1>4. CASE op' = [op EXCEPT ![q] = Ended] \/ op' = [op EXCEPT ![q] = NoOperation]
  BY <1>4, EndedDoesNotSave, OthersDoNotSave
<1>5. CASE \E todo : RetrieveNext(q, todo)
  BY <1>5, RetrieveNextSavesNothing
<1>6. \/ StartL(q) \/ StartIsRefused(q) \/ UNCHANGED op
      \/ op' = [op EXCEPT ![q] = Ended] \/ op' = [op EXCEPT ![q] = NoOperation]
      \/ \E todo : RetrieveNext(q, todo)
  BY Zenon DEF StartFails, DialogsRunL, OperationFails, OperationError,
         RetrieveFirstTrustedSiteCert, CompareRetrievedCert, ReturnResult,
         UserAnswers, QueryRunL, SessionCloses
<1> QED  BY <1>2, <1>3, <1>4, <1>5, <1>6

\* The first step of an operation asks whether the site is trusted.
LEMMA ProcessKeepsTrust ==
    ASSUME Shapes, TrustKept, NEW q \in Requests, ProcessServerAuthorizationFailure(q),
           UnmixedSites'
    PROVE  TrustKept'
<1>1. CertOf[q] \in Certs /\ SiteOf[q] \in Sites
  BY RequestAssumption
<1>2. PICK o \in IsTrustedSite(store, CertOf[q], SiteOf[q]) :
          /\ store' = o.st
          /\ shown' = IF IsForgivenSite(store, SiteOf[q])
                      THEN shown \cup {<<CertOf[q], SiteOf[q]>>} ELSE shown
          /\ \/ ShowQuery(q)
             \/ op' = [op EXCEPT ![q] = [@ EXCEPT !.mode = "EListTrustedSiteCerts",
                                                  !.todo = {e.handle : e \in o.st.entries}]]
  BY Zenon DEF ProcessServerAuthorizationFailure
<1>3. UNCHANGED <<granted, forgave>>
  BY DEF ProcessServerAuthorizationFailure
<1>4. StoreKept(store', forgave', granted', shown')
  BY <1>1, <1>2, <1>3, IsTrustedSiteKeeps DEF TrustKept, UnmixedSites, IsUnmixed
<1>5. \A r \in Requests : op'[r].mode = "ESavingServerCert" => op[r].mode = "ESavingServerCert"
  <2>1. CASE ShowQuery(q)
    <3> DEFINE x == [op[q] EXCEPT !.mode = "query", !.todo = {}, !.got = NoCert]
    <3>1. op' = [op EXCEPT ![q] = x]
      BY <2>1 DEF ShowQuery
    <3>2. x.mode = "query"
      BY DEF Shapes
    <3> QED  BY <3>1, <3>2, OthersDoNotSave
  <2>2. ASSUME NEW some,
               op' = [op EXCEPT ![q] = [op[q] EXCEPT !.mode = "EListTrustedSiteCerts",
                                                     !.todo = some]]
        PROVE  \A r \in Requests : op'[r].mode = "ESavingServerCert" =>
                                       op[r].mode = "ESavingServerCert"
    <3> DEFINE x == [op[q] EXCEPT !.mode = "EListTrustedSiteCerts", !.todo = some]
    <3>1. x.mode = "EListTrustedSiteCerts"
      BY DEF Shapes
    <3> QED  BY <2>2, <3>1, OthersDoNotSave
  <2> QED  BY <1>2, <2>1, <2>2
<1> QED  BY <1>3, <1>4, <1>5 DEF TrustKept

\* The user who accepts for good means the site and the one the certificate names.
LEMMA AcceptedIsMeant ==
    ASSUME NEW st, NEW seen, NEW given, NEW c, NEW s
    PROVE  CommonName[c] # NoSite =>
               Meant(st, given \cup TrustedFor(c, s), seen, c, CommonName[c])
BY DEF Meant, TrustedFor

LEMMA QueryReturnsKeepsTrust ==
    ASSUME Shapes, TrustKept, NEW q \in Requests, QueryReturns(q), UnmixedSites'
    PROVE  TrustKept'
<1>1. CertOf[q] \in Certs /\ SiteOf[q] \in Sites /\ SiteOf[q] # NoSite
  BY RequestAssumption, TrustAssumption
<1>2. UNCHANGED <<shown, forgave>>
  BY DEF QueryReturns
<1>3. \/ /\ UNCHANGED <<store, granted>>
         /\ op' = [op EXCEPT ![q] = Ended] \/ op' = [op EXCEPT ![q] = NoOperation]
      \/ /\ granted' = granted \cup TrustedFor(CertOf[q], SiteOf[q])
         /\ \E o \in AddCert(store, CertOf[q]) :
                /\ store' = o.st
                /\ \E got : op' = [op EXCEPT ![q].mode = "ESavingServerCert", ![q].got = got]
  BY Zenon DEF QueryReturns, OperationError, ReturnResult
<1>4. ASSUME UNCHANGED <<store, granted>>,
             op' = [op EXCEPT ![q] = Ended] \/ op' = [op EXCEPT ![q] = NoOperation]
      PROVE  TrustKept'
  <2>1. UNCHANGED trustVars
    BY <1>2, <1>4 DEF trustVars
  <2> QED  BY <1>4, <2>1, EndedDoesNotSave, OthersDoNotSave, DialogsKeepTrust
<1>5. ASSUME granted' = granted \cup TrustedFor(CertOf[q], SiteOf[q]),
             NEW o \in AddCert(store, CertOf[q]), store' = o.st,
             NEW got, op' = [op EXCEPT ![q].mode = "ESavingServerCert", ![q].got = got]
      PROVE  TrustKept'
  <2>1. StoreKept(store, forgave, granted', shown)
    BY <1>5, KeptForMore DEF TrustKept
  <2>2. CommonName[CertOf[q]] # NoSite =>
            Meant(store, granted', shown, CertOf[q], CommonName[CertOf[q]])
    BY <1>5, AcceptedIsMeant
  <2>3. StoreKept(store', forgave', granted', shown')
    BY <1>1, <1>2, <1>5, <2>1, <2>2, AddCertKeeps
  <2>4. <<CertOf[q], SiteOf[q]>> \in granted' /\ granted \subseteq granted'
    BY <1>1, <1>5 DEF TrustedFor
  <2>5. \A r \in Requests : r # q => op'[r] = op[r]
    BY <1>5 DEF Shapes
  <2> QED  BY <1>2, <2>3, <2>4, <2>5 DEF TrustKept
<1> QED  BY <1>3, <1>4, <1>5

LEMMA SaveKeepsTrust ==
    ASSUME Shapes, TrustKept, NEW q \in Requests, SaveServerNameToTrustedSitesStore(q),
           UnmixedSites'
    PROVE  TrustKept'
<1>1. CertOf[q] \in Certs /\ SiteOf[q] \in Sites /\ NoApp \notin Apps
  BY RequestAssumption, TrustAssumption
<1>2. /\ UNCHANGED <<granted, shown, forgave>>
      /\ op[q].mode = "ESavingServerCert"
  BY DEF SaveServerNameToTrustedSitesStore, Runs
<1>3. op' = [op EXCEPT ![q] = Ended] \/ op' = [op EXCEPT ![q] = NoOperation]
  BY Zenon DEF SaveServerNameToTrustedSitesStore, OperationError, ReturnResult
<1>4. store' = store \/ \E o \in AddSite(store, CertOf[q], SiteOf[q]) : store' = o.st
  BY Zenon DEF SaveServerNameToTrustedSitesStore
<1>5. Meant(store, granted, shown, CertOf[q], SiteOf[q])
  BY <1>2 DEF TrustKept, Meant
<1>6. StoreKept(store', forgave', granted', shown')
  BY <1>1, <1>2, <1>4, <1>5, AddSiteKeeps DEF TrustKept
<1>7. \A r \in Requests : op'[r].mode = "ESavingServerCert" => op[r].mode = "ESavingServerCert"
  BY <1>3, EndedDoesNotSave, OthersDoNotSave
<1> QED  BY <1>2, <1>6, <1>7 DEF TrustKept

\* The other clients.
LEMMA OthersKeepTrust ==
    ASSUME TrustKept, OthersStep(Handles \ BeingSaved, {"KErrNone", "error"}), UnmixedSites'
    PROVE  TrustKept'
<1>1. UNCHANGED op
  BY DEF OthersStep, UserRemoves, AppTakesBack, UserSaves, AppForgives, OthersAct, dialogVars
<1>2. ASSUME NEW h \in Handles \ BeingSaved, NEW told \in {"KErrNone", "error"},
             UserRemoves(h, told)
      PROVE  TrustKept'
  <2>1. PICK e \in store.entries : e.handle = h
    BY <1>2 DEF UserRemoves
  <2>2. {f \in store.entries : f.handle = h} = {e}
    BY <2>1 DEF TrustKept, StoreKept, KeysAreUnique
  <2>3. {f.cert : f \in {g \in store.entries : g.handle = h}} = {e.cert}
    BY <2>2
  <2> DEFINE out == {e.cert} \X Sites
             over == /\ told # "error"
                     /\ \A f \in store.entries : f.cert \in {e.cert} => f.handle = h
  <2>4. PICK o \in RemoveCert(store, h) :
            /\ o.told = told
            /\ store' = o.st
            /\ granted' = IF over THEN granted \ out ELSE granted
            /\ shown' = IF over THEN shown \ out ELSE shown
    BY <1>2, <2>3, Zenon DEF UserRemoves
  <2>5. UNCHANGED forgave
    BY <1>2 DEF UserRemoves
  <2>6. StoreKept(o.st, forgave, granted, shown)
    BY <2>4, RemoveCertKeeps DEF TrustKept
  <2>7. over => \A y \in o.st.hashes : y.cert # e.cert
    BY <2>1, <2>4, RemoveCertKeeps DEF TrustKept
  <2>8. StoreKept(store', forgave', granted', shown')
    BY <2>4, <2>5, <2>6, <2>7, KeptForLess
  <2>9. ASSUME NEW q \in Requests, op'[q].mode = "ESavingServerCert"
        PROVE  <<CertOf[q], SiteOf[q]>> \in granted'
    <3>1. op[q].mode = "ESavingServerCert" /\ <<CertOf[q], SiteOf[q]>> \in granted
      BY <1>1, <2>9 DEF TrustKept
    <3>2. e.cert # CertOf[q]
      BY <2>1, <3>1 DEF BeingSaved
    <3>3. <<CertOf[q], SiteOf[q]>> \notin out
      BY <3>2
    <3> QED  BY <2>4, <3>1, <3>3
  <2> QED  BY <2>5, <2>8, <2>9 DEF TrustKept
<1>3. ASSUME NEW a \in Apps, NEW from \in {Sites} \cup {{s} : s \in Sites},
             NEW told \in {"KErrNone", "error"}, AppTakesBack(a, from, told)
      PROVE  TrustKept'
  <2>1. PICK o \in RemoveForgivenSites(store, a, from) :
            /\ o.told = told
            /\ store' = o.st
            /\ forgave' = IF told = "error" THEN forgave ELSE forgave \ ({a} \X from)
    BY <1>3 DEF AppTakesBack
  <2>2. UNCHANGED <<granted, shown>>
    BY <1>3 DEF AppTakesBack
  <2>3. StoreKept(store', forgave', granted', shown')
    BY <2>1, <2>2, RemoveForgivenSitesKeeps DEF TrustKept
  <2> QED  BY <1>1, <2>1, <2>2, <2>3 DEF TrustKept
<1>4. ASSUME NEW c \in Certs, UserSaves(c) PROVE TrustKept'
  <2>1. PICK o \in AddCert(store, c) :
            /\ store' = o.st
            /\ granted' = granted \cup TrustedFor(c, CommonName[c])
    BY <1>4 DEF UserSaves
  <2>2. UNCHANGED <<shown, forgave>>
    BY <1>4 DEF UserSaves
  <2>3. StoreKept(store, forgave, granted', shown)
    BY <2>1, KeptForMore DEF TrustKept
  <2>4. CommonName[c] # NoSite => Meant(store, granted', shown, c, CommonName[c])
    BY <2>1, AcceptedIsMeant
  <2>5. StoreKept(store', forgave', granted', shown')
    BY <2>1, <2>2, <2>3, <2>4, AddCertKeeps
  <2> QED  BY <1>1, <2>1, <2>2, <2>5 DEF TrustKept
<1>5. ASSUME NEW f \in Forgivings, AppForgives(f[1], f[2], f[3]) PROVE TrustKept'
  <2>1. f[1] \in Apps /\ f[2] \in Sites /\ f[3] \in BOOLEAN
    BY RequestAssumption
  <2>2. PICK o \in AddForgivenSite(store, f[2], f[3], f[1]) :
            store' = o.st /\ forgave' = forgave \cup {<<f[1], f[2]>>}
    BY <1>5 DEF AppForgives
  <2>3. UNCHANGED <<granted, shown>>
    BY <1>5 DEF AppForgives
  <2>4. StoreKept(store', forgave', granted', shown')
    BY <2>1, <2>2, <2>3, AddForgivenSiteKeeps DEF TrustKept
  <2> QED  BY <1>1, <2>1, <2>2, <2>3, <2>4 DEF TrustKept
<1> QED  BY <1>2, <1>3, <1>4, <1>5 DEF OthersStep
-----------------------------------------------------------------------------
LEMMA TrustStep == ASSUME Shapes, TrustKept, [OrderlyNext]_vars PROVE TrustKept'
<1>1. CASE DialogStep /\ UnmixedSites'
  BY <1>1, QuietStep, ProcessKeepsTrust, QueryReturnsKeepsTrust, SaveKeepsTrust DEF DialogStep
<1>2. CASE CancelStep
  BY <1>2, CancelKeepsTrust
<1>3. CASE OthersStep(Handles \ BeingSaved, {"KErrNone", "error"}) /\ UnmixedSites'
  BY <1>3, OthersKeepTrust
<1>4. CASE UNCHANGED vars
  BY <1>4, DialogsKeepTrust DEF vars, trustVars
<1> QED  BY <1>1, <1>2, <1>3, <1>4 DEF OrderlyNext

LEMMA TrustKeptIsGranted == TrustKept => TrustIsGranted
<1> SUFFICES ASSUME TrustKept, NEW c \in Certs, NEW s \in Sites, SilentlyAccepted(c, s)
             PROVE  \/ <<c, s>> \in granted
                    \/ Forgiven(s)
                    \/ \E t \in Sites : <<c, t>> \in shown /\ Forgiven(t) /\ CommonName[c] = s
  BY DEF TrustIsGranted
<1>1. \A x \in store.sites : x.forgiven => x.site \in Sites /\ Forgiven(x.site)
  BY DEF TrustKept, StoreKept, RowsAreMade, Forgiven
<1>2. CASE IsForgivenSite(store, s)
  BY <1>1, <1>2 DEF IsForgivenSite
<1>3. CASE IsSiteAlreadyExist(store, c, s)
  <2>1. PICK x \in store.sites : x.id = CertID(store, c) /\ x.site = s
    BY <1>3 DEF IsSiteAlreadyExist
  <2>2. CertID(store, c) # NoID
    BY <1>3 DEF IsSiteAlreadyExist
  <2>3. PICK y \in store.hashes : y.cert = c /\ y.id = CertID(store, c)
    BY <2>2, CertIDIs DEF TrustKept, StoreKept
  <2>4. x.forgiven \/ <<c, s>> \in granted \/ SeenFor(store, shown, x.id, c, s)
    BY <2>1, <2>3 DEF TrustKept, StoreKept, RowsAreMeant
  <2> QED  BY <1>1, <2>1, <2>4 DEF SeenFor
<1> QED  BY <1>2, <1>3 DEF SilentlyAccepted

\* Whichever requests are cancelled and when, with others told of what fails and each site forgiven or trusted but never
\* both: no certificate is accepted for a site without a question unless the
\* user or an application has allowed it and not taken that back, whatever
\* piece of a request was left undone, for any number of certificates, sites,
\* applications and questions.
THEOREM TrustIsKept == OrderlySpec => []TrustIsGranted
BY ShapesInit, ShapesStep, TrustInit, TrustStep, TrustKeptIsGranted, PTL DEF OrderlySpec
=============================================================================
