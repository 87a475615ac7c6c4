------------------------- MODULE ScardConnectProofs -------------------------
(***************************************************************************)
(* Connections to the card reader, for any sessions and limits: the        *)
(* registries agree, nobody relies on a reader that is not open, and the   *)
(* server thread does not panic.                                           *)
(*                                                                         *)
(* The invariant is a predicate of the server's objects (Sane), because    *)
(* the operators of ScardConnect take the objects at one point of a        *)
(* handler to what they are at another: lemmas say what each of them       *)
(* preserves, and the steps put them together.                             *)
(***************************************************************************)
EXTENDS ScardConnect, ScardMessageStackProofs

-----------------------------------------------------------------------------
(* The invariant, of the server's objects w. *)

SessionHas(w, sid) == \E a \in Range(w.attached) : a.sid = sid /\ ~a.connector
ConnectorHas(w, sid) == \E a \in Range(w.attached) : a.sid = sid /\ a.connector
Opening(w) == w.stack # << >> /\ w.stack[1].opens

\* Each session ID and each client is attached once.
Distinct(attached) ==
  \A i, j \in DOMAIN attached :
    i # j => attached[i].sid # attached[j].sid /\ attached[i].client # attached[j].client

\* Registered, of w.
Agree(w) ==
  /\ \A s \in Sessions :
       /\ w.sessions[s] = "waiting" <=> \E c \in Range(w.connectors) : c.client = s
       /\ w.sessions[s] = "connected" <=>
            \E a \in Range(w.attached) : a.client = s /\ ~a.connector
  /\ Distinct(w.attached)
  /\ \A c \in Range(w.connectors) : \E a \in Range(w.attached) :
       a.connector /\ a.client = c.client /\ a.sid = c.sid
  /\ \A a \in Range(w.attached) : a.connector =>
       \E c \in Range(w.connectors) : a.client = c.client /\ a.sid = c.sid

\* The IDs given out are below the next one.  Nothing is attached to a controller that is
\* not made.  The connector with which it was made is the first of what is attached, as long
\* as it lives.
Ids(w) ==
  /\ \A a \in Range(w.attached) : a.sid < w.nextID
  /\ ~w.made => w.attached = << >> /\ ~w.active
  /\ \A c \in Range(w.connectors) : c.first => w.attached # << >> /\ w.attached[1].sid = c.sid

\* Entry e of the stack, at position i.  A command is a connected session's, and the
\* reader is open or about to be.  An opening that has not succeeded has its connector.
Entry(w, e, i) ==
  /\ e.opens => i = 1
  /\ e.cancelled => i = 1
  /\ e.sid < w.nextID
  /\ ~e.opens => /\ e.cancelled \/ SessionHas(w, e.sid)
                 /\ w.isOpen \/ (w.status = "ok" /\ Opening(w))
  /\ e.opens => /\ ~w.isOpen /\ ~SessionHas(w, e.sid)
                /\ w.status = "ok" \/ (~e.cancelled /\ ConnectorHas(w, e.sid))

\* OneAtReader, of w, with what else holds of the stack.
Queue(w) ==
  /\ w.active <=> w.stack # << >>
  /\ w.active <=> w.status # "idle"
  /\ w.reader # "idle" => w.status = "pending" /\ (w.reader = "open" <=> Opening(w))
  /\ \A i \in DOMAIN w.stack : Entry(w, w.stack[i], i)

\* ConnectedMeansOpen, of w.
OpenFor(w) ==
  (\E s \in Sessions : w.sessions[s] = "connected") =>
     w.isOpen \/ (w.status = "ok" /\ Opening(w))

Sane(w) == /\ w \in SrvType /\ w.panicked = "no"
           /\ Agree(w) /\ Ids(w) /\ Queue(w) /\ OpenFor(w)

\* A card is announced while its opening is not noted yet; after that the connector with
\* which the controller was made is gone.
NoticeFits ==
  /\ notice \in {"none", "inserted", "removed"}
  /\ notice = "inserted" => srv.status = "ok" /\ Opening(srv)
  /\ notice # "inserted" /\ srv.status = "ok" /\ Opening(srv) =>
       \A c \in Range(srv.connectors) : ~c.first

Kept == Sane(srv) /\ NoticeFits

\* The invariant implies what the runs check.
LEMMA KeptMeans == Kept => TypeOK /\ ServerAlive /\ Registered /\ OneAtReader /\ ConnectedMeansOpen
<1> SUFFICES ASSUME Kept
             PROVE  TypeOK /\ ServerAlive /\ Registered /\ OneAtReader /\ ConnectedMeansOpen
  OBVIOUS
<1>1. srv \in SrvType /\ srv.stack \in Seq(EntryType)
  BY DEF Kept, Sane, SrvType
<1>2. TypeOK /\ ServerAlive /\ ConnectedMeansOpen
  BY <1>1 DEF Kept, Sane, NoticeFits, TypeOK, ServerAlive, ConnectedMeansOpen, OpenFor, Opening
<1>3. Registered
  BY DEF Kept, Sane, Agree, Distinct, Registered
<1>4. OneAtReader
  BY <1>1 DEF Kept, Sane, Queue, Opening, Entry, OneAtReader
<1> QED  BY <1>2, <1>3, <1>4

\* It holds at the start.
LEMMA KeptInit == Init => Kept
<1> SUFFICES ASSUME Init PROVE Kept
  OBVIOUS
<1>1. /\ srv.connectors = << >> /\ srv.made = FALSE /\ srv.active = FALSE /\ srv.attached = << >>
      /\ srv.status = "idle" /\ srv.nextID = 1 /\ srv.stack = << >> /\ srv.reader = "idle"
      /\ srv.sessions = [s \in Sessions |-> "idle"] /\ srv.panicked = "no" /\ notice = "none"
  BY DEF Init
<1>2. srv \in SrvType
  BY DEF Init, SrvType, SessionState, FaultType
<1>3. Range(srv.attached) = {} /\ Range(srv.connectors) = {} /\ DOMAIN srv.attached = {}
      /\ DOMAIN srv.stack = {}
  BY <1>1 DEF Range
<1>4. Agree(srv) /\ Ids(srv) /\ Queue(srv) /\ OpenFor(srv)
  BY <1>1, <1>3 DEF Agree, Distinct, Ids, Queue, OpenFor
<1> QED  BY <1>1, <1>2, <1>4 DEF Kept, Sane, NoticeFits
-----------------------------------------------------------------------------
(* The arrays. *)

\* What is left of an array are its objects with other IDs, in their order.
LEMMA WithoutIs ==
  ASSUME NEW S, NEW seq \in Seq(S), NEW sid, NEW t, t = Without(seq, sid)
  PROVE  /\ t \in Seq(S)
         /\ \A k \in DOMAIN t : t[k].sid # sid /\ \E i \in DOMAIN seq : t[k] = seq[i]
         /\ \A i \in DOMAIN seq : seq[i].sid # sid => \E k \in DOMAIN t : t[k] = seq[i]
         /\ seq # << >> /\ seq[1].sid # sid => t # << >> /\ t[1] = seq[1]
         /\ \A k, l \in DOMAIN t : k # l =>
              \E i, j \in DOMAIN seq : i # j /\ t[k] = seq[i] /\ t[l] = seq[j]
<1> DEFINE K == {i \in DOMAIN seq : seq[i].sid # sid}  c == Cardinality(K)
<1>1. DOMAIN seq = 1 .. Len(seq) /\ Len(seq) \in Nat /\ K \in SUBSET (1 .. Len(seq))
      /\ K \in SUBSET DOMAIN seq
  OBVIOUS
<1>2. t = Keep(seq, K)
  BY DEF Without
<1>3. \A i \in K : seq[i].sid # sid /\ i \in DOMAIN seq
  OBVIOUS
<1>4. \A i \in DOMAIN seq : seq[i].sid # sid => i \in K
  OBVIOUS
<1> HIDE DEF K
<1>5. /\ t \in Seq(S) /\ Len(t) = c /\ c \in Nat
      /\ \A k \in 1 .. c : Nth(K, k) \in K /\ t[k] = seq[Nth(K, k)]
  BY <1>1, <1>2, KeepIsSubsequence
<1>6. DOMAIN t = 1 .. c
  BY <1>5
<1>7. /\ \A k, l \in 1 .. c : k < l => Nth(K, k) < Nth(K, l)
      /\ \A i \in K : Rank(K, i) \in 1 .. c /\ Nth(K, Rank(K, i)) = i
  BY <1>1, NthEnumerates
<1> HIDE DEF c
<1>8. \A i \in K : \E k \in DOMAIN t : t[k] = seq[i] /\ Nth(K, k) = i
  BY <1>5, <1>6, <1>7
<1>9. ASSUME seq # << >>, seq[1].sid # sid PROVE t # << >> /\ t[1] = seq[1]
  <2>1. 1 \in K
    BY <1>1, <1>4, <1>9
  <2>2. PICK k \in 1 .. c : Nth(K, k) = 1
    BY <1>6, <1>8, <2>1
  <2>3. 1 \in 1 .. c /\ Nth(K, 1) \in 1 .. Len(seq)
    BY <1>1, <1>5, <2>2
  <2>4. k = 1
    BY <1>1, <1>5, <1>7, <2>2, <2>3
  <2> QED  BY <1>5, <1>6, <2>2, <2>3, <2>4
<1>10. ASSUME NEW k \in DOMAIN t, NEW l \in DOMAIN t, k # l
       PROVE  \E i, j \in DOMAIN seq : i # j /\ t[k] = seq[i] /\ t[l] = seq[j]
  <2>1. Nth(K, k) \in 1 .. Len(seq) /\ Nth(K, l) \in 1 .. Len(seq) /\ k \in 1 .. c /\ l \in 1 .. c
    BY <1>1, <1>5, <1>6
  <2>2. Nth(K, k) # Nth(K, l)
    BY <1>5, <1>7, <2>1, <1>10
  <2> QED  BY <1>1, <1>5, <2>1, <2>2
<1> QED  BY <1>3, <1>4, <1>5, <1>6, <1>8, <1>9, <1>10

\* One object less is left when one has the ID.
LEMMA WithoutCounts ==
  ASSUME NEW S, NEW seq \in Seq(S), NEW j \in DOMAIN seq, NEW sid, seq[j].sid = sid,
         \A i \in DOMAIN seq : seq[i].sid = sid => i = j
  PROVE  Len(Without(seq, sid)) = Len(seq) - 1
<1> DEFINE K == {i \in DOMAIN seq : seq[i].sid # sid}
<1>1. Without(seq, sid) = Keep(seq, K) /\ K \in SUBSET DOMAIN seq
  BY DEF Without
<1>2. K = DOMAIN seq \ {j} /\ DOMAIN seq = 1 .. Len(seq) /\ Len(seq) \in Nat
  OBVIOUS
<1> HIDE DEF K
<1>3. Len(Without(seq, sid)) = Cardinality(K)
  BY <1>1, KeepIsSubsequence
<1>4. IsFiniteSet(1 .. Len(seq)) /\ Cardinality(1 .. Len(seq)) = Len(seq)
  <2>1. /\ IsFiniteSet(1 .. Len(seq))
        /\ Cardinality(1 .. Len(seq)) = IF 1 > Len(seq) THEN 0 ELSE Len(seq) - 1 + 1
    BY <1>2, FS_Interval
  <2> QED  BY <1>2, <2>1
<1>5. Cardinality(K) = Cardinality(DOMAIN seq) - 1
  BY <1>2, <1>4, FS_RemoveElement
<1> QED  BY <1>2, <1>3, <1>4, <1>5

\* The same, of the members.
LEMMA WithoutMembers ==
  ASSUME NEW S, NEW seq \in Seq(S), NEW sid
  PROVE  Range(Without(seq, sid)) = {x \in Range(seq) : x.sid # sid}
<1> DEFINE t == Without(seq, sid)
<1>1. t = Without(seq, sid)
  OBVIOUS
<1> HIDE DEF t
<1>2. /\ \A k \in DOMAIN t : t[k].sid # sid /\ \E i \in DOMAIN seq : t[k] = seq[i]
      /\ \A i \in DOMAIN seq : seq[i].sid # sid => \E k \in DOMAIN t : t[k] = seq[i]
  BY <1>1, WithoutIs
<1>3. ASSUME NEW x \in Range(t) PROVE x \in Range(seq) /\ x.sid # sid
  <2>1. PICK k \in DOMAIN t : x = t[k]
    BY DEF Range
  <2>2. PICK i \in DOMAIN seq : t[k] = seq[i]
    BY <1>2
  <2> QED  BY <1>2, <2>1, <2>2 DEF Range
<1>4. ASSUME NEW x \in Range(seq), x.sid # sid PROVE x \in Range(t)
  <2>1. PICK i \in DOMAIN seq : x = seq[i]
    BY DEF Range
  <2>2. PICK k \in DOMAIN t : t[k] = seq[i]
    BY <1>2, <1>4, <2>1
  <2> QED  BY <2>1, <2>2 DEF Range
<1> QED  BY <1>1, <1>3, <1>4

\* Objects that share an ID or a client are one.
LEMMA DistinctMembers ==
  ASSUME NEW attached, Distinct(attached), NEW a \in Range(attached), NEW b \in Range(attached),
         a.sid = b.sid \/ a.client = b.client
  PROVE  a = b
BY DEF Distinct, Range

\* Appending adds one object behind the others.
LEMMA AppendIs ==
  ASSUME NEW S, NEW seq \in Seq(S), NEW x, NEW t, t = Append(seq, x)
  PROVE  /\ Len(seq) \in Nat /\ DOMAIN seq = 1 .. Len(seq) /\ DOMAIN t = 1 .. Len(seq) + 1
         /\ t[Len(seq) + 1] = x /\ \A i \in 1 .. Len(seq) : t[i] = seq[i]
         /\ t # << >> /\ t[1] = IF seq = << >> THEN x ELSE seq[1]
OBVIOUS

\* The same, of the members.
LEMMA AppendMembers ==
  ASSUME NEW S, NEW seq \in Seq(S), NEW x
  PROVE  Range(Append(seq, x)) = Range(seq) \cup {x}
<1> DEFINE t == Append(seq, x)
<1>1. /\ DOMAIN t = 1 .. (Len(seq) + 1) /\ DOMAIN seq = 1 .. Len(seq) /\ Len(seq) \in Nat
      /\ t[Len(seq) + 1] = x /\ \A i \in 1 .. Len(seq) : t[i] = seq[i]
  OBVIOUS
<1> HIDE DEF t
<1>2. ASSUME NEW y \in Range(t) PROVE y \in Range(seq) \cup {x}
  BY <1>1 DEF Range
<1>3. ASSUME NEW y \in Range(seq) \cup {x} PROVE y \in Range(t)
  <2>1. CASE y = x
    BY <1>1, <2>1 DEF Range
  <2>2. CASE y \in Range(seq)
    <3>1. PICK i \in 1 .. Len(seq) : y = seq[i]
      BY <1>1, <2>2 DEF Range
    <3>2. i \in DOMAIN t /\ t[i] = y
      BY <1>1, <3>1
    <3> QED  BY <3>2 DEF Range
  <2> QED  BY <1>3, <2>1, <2>2
<1> QED  BY <1>2, <1>3 DEF t

\* A cancelled entry is the same one otherwise.
LEMMA MarkedIsEntry ==
  \A e \in EntryType : /\ Marked(e) \in EntryType /\ Marked(e).cancelled
                       /\ Marked(e).opens = e.opens /\ Marked(e).sid = e.sid
BY DEF Marked, EntryType

\* What a cancel leaves of the stack: entry j of t was entry i of st.
Left(st, hits, t, i, j) ==
  /\ i = 1 <=> j = 1
  /\ t[j].opens = st[i].opens /\ t[j].sid = st[i].sid
  /\ i \in hits => j = 1 /\ t[j].cancelled
  /\ i \notin hits => t[j].cancelled = st[i].cancelled

\* A cancel leaves the first entry, flagged if it is hit, and the others that are not hit.
LEMMA CancelLeaves ==
  ASSUME NEW st \in Seq(EntryType), NEW hits \in SUBSET DOMAIN st, NEW t, t = AfterCancel(st, hits)
  PROVE  /\ t \in Seq(EntryType)
         /\ t = << >> <=> st = << >>
         /\ \A j \in DOMAIN t : \E i \in DOMAIN st : Left(st, hits, t, i, j)
<1> DEFINE f == Origin(st, hits)
<1>1. /\ t \in Seq(EntryType)
      /\ t = << >> <=> st = << >>
      /\ st # << >> => t[1] = IF 1 \in hits THEN Marked(st[1]) ELSE st[1]
      /\ f \in [DOMAIN t -> DOMAIN st]
      /\ st # << >> => f[1] = 1
      /\ \A j \in DOMAIN t : j # 1 => f[j] # 1 /\ f[j] \notin hits /\ t[j] = st[f[j]]
  <2> HIDE DEF f
  <2>1. f = Origin(st, hits)
    BY DEF f
  <2>2. \A e \in EntryType : Marked(e) \in EntryType
    BY MarkedIsEntry
  <2> QED  BY <2>1, <2>2, AfterCancelFacts
<1> HIDE DEF f
<1>2. \A i \in DOMAIN st : st[i] \in EntryType
  OBVIOUS
<1>3. ASSUME NEW j \in DOMAIN t PROVE Left(st, hits, t, f[j], j)
  <2>1. st # << >> /\ f[j] \in DOMAIN st
    BY <1>1, <1>3
  <2>2. CASE j = 1
    BY <1>1, <1>2, <2>1, <2>2, MarkedIsEntry DEF Left
  <2>3. CASE j # 1
    BY <1>1, <1>3, <2>3 DEF Left
  <2> QED  BY <2>2, <2>3
<1> QED  BY <1>1, <1>3
-----------------------------------------------------------------------------
(* What the operators do to the message stack. *)

\* What is the same in u as in w, whatever happens to the stack.
SameRest(w, u) ==
  /\ u.connectors = w.connectors /\ u.made = w.made /\ u.loaded = w.loaded
  /\ u.isOpen = w.isOpen /\ u.active = w.active /\ u.nextID = w.nextID
  /\ u.sessions = w.sessions /\ u.panicked = w.panicked

\* What a cancel of some entries does not change.
SameStack(w, u) ==
  /\ u.stack = << >> <=> w.stack = << >>
  /\ Opening(u) <=> Opening(w)
  /\ w.status = "ok" <=> u.status = "ok"
  /\ w.status \in {"idle", "ok"} => u.status = w.status

\* A cancel that the entry of an opening survives, unless it has succeeded.
Spares(w, sid) == Opening(w) /\ w.stack[1].sid = sid => w.status = "ok"

\* The hits of a cancel may go: who has no entry left need not be attached.
LEMMA CancelKeepsQueue ==
  ASSUME NEW w \in SrvType, NEW u \in SrvType, NEW hits \in SUBSET DOMAIN w.stack, Queue(w),
         u.stack = AfterCancel(w.stack, hits), u.active = w.active, u.isOpen = w.isOpen,
         u.nextID = w.nextID,
         \/ u.status = w.status /\ u.reader = w.reader
         \/ w.status = "pending" /\ u.status = "cancel" /\ u.reader = "idle",
         Opening(w) /\ 1 \in hits => w.status = "ok",
         \A i \in DOMAIN w.stack : i \notin hits =>
           /\ SessionHas(w, w.stack[i].sid) => SessionHas(u, w.stack[i].sid)
           /\ ConnectorHas(w, w.stack[i].sid) => ConnectorHas(u, w.stack[i].sid),
         \A sid \in Nat : SessionHas(u, sid) => SessionHas(w, sid)
  PROVE  Queue(u) /\ SameStack(w, u)
<1> DEFINE st == w.stack  t == u.stack
<1>1. st \in Seq(EntryType) /\ t \in Seq(EntryType) /\ st = w.stack /\ t = u.stack
  BY DEF SrvType
<1>2. t = AfterCancel(st, hits) /\ hits \in SUBSET DOMAIN st
  OBVIOUS
<1> HIDE DEF st, t
<1>3. /\ t = << >> <=> st = << >>
      /\ \A j \in DOMAIN t : \E i \in DOMAIN st : Left(st, hits, t, i, j)
  BY <1>1, <1>2, CancelLeaves
<1>4. (t # << >> => 1 \in DOMAIN t) /\ (st # << >> => 1 \in DOMAIN st)
  BY <1>1
<1>5. Opening(u) <=> Opening(w)
  BY <1>1, <1>3, <1>4 DEF Left, Opening
<1>6. SameStack(w, u)
  BY <1>1, <1>3, <1>5 DEF SameStack
<1>7. (u.active <=> t # << >>) /\ (u.active <=> u.status # "idle")
  BY <1>1, <1>3 DEF Queue
<1>8. u.reader # "idle" => u.status = "pending" /\ (u.reader = "open" <=> Opening(u))
  BY <1>5 DEF Queue
<1>9. ASSUME NEW j \in DOMAIN t PROVE Entry(u, t[j], j)
  <2>1. PICK i \in DOMAIN st : Left(st, hits, t, i, j)
    BY <1>3
  <2>2. Entry(w, st[i], i)
    BY <1>1 DEF Queue
  <2>9. st[i] \in EntryType /\ t[j] \in EntryType
    BY <1>1
  <2>3. st[i] \in EntryType /\ t[j] \in EntryType /\ st[i].sid \in Nat
    BY <2>9 DEF EntryType
  <2>4. (t[j].opens => j = 1) /\ (t[j].cancelled => j = 1) /\ t[j].sid < u.nextID
    BY <2>1, <2>2, <2>3 DEF Entry, Left, EntryType
  <2>5. ASSUME ~t[j].opens PROVE t[j].cancelled \/ SessionHas(u, t[j].sid)
    BY <1>1, <2>1, <2>2, <2>5 DEF Entry, Left
  <2>6. ASSUME ~t[j].opens PROVE u.isOpen \/ (u.status = "ok" /\ Opening(u))
    BY <1>5, <2>1, <2>2, <2>6 DEF Entry, Left
  <2>7. ASSUME t[j].opens PROVE ~u.isOpen /\ ~SessionHas(u, t[j].sid)
    BY <2>1, <2>2, <2>3, <2>7 DEF Entry, Left
  <2>8. ASSUME t[j].opens PROVE u.status = "ok" \/ (~t[j].cancelled /\ ConnectorHas(u, t[j].sid))
    <3>3. i = 1 /\ st[1].opens
      BY <2>1, <2>2, <2>8 DEF Entry, Left
    <3>4. st # << >>
      BY <1>1
    <3>1. i = 1 /\ Opening(w)
      BY <1>1, <3>3, <3>4 DEF Opening
    <3>2. w.status = "ok" \/ (1 \notin hits /\ ~st[1].cancelled /\ ConnectorHas(w, st[1].sid))
      BY <2>1, <2>2, <2>8, <3>1 DEF Entry, Left
    <3> QED  BY <1>1, <1>6, <2>1, <3>1, <3>2 DEF SameStack, Left
  <2> QED  BY <2>4, <2>5, <2>6, <2>7, <2>8 DEF Entry
<1> QED  BY <1>1, <1>6, <1>7, <1>8, <1>9 DEF Queue

\* CancelTransmissionsL of one session leaves the stack in order.
LEMMA CancelTransmissionsKeeps ==
  ASSUME NEW w \in SrvType, NEW sid \in Nat, Queue(w), Spares(w, sid),
         NEW u, u = CancelTransmissions(w, sid)
  PROVE  /\ u \in SrvType /\ SameRest(w, u) /\ u.attached = w.attached
         /\ Queue(u) /\ SameStack(w, u) /\ Spares(u, sid)
<1> DEFINE hits == OfSession(w.stack, sid)
<1>1. w.stack \in Seq(EntryType) /\ hits \in SUBSET DOMAIN w.stack
      /\ \A i \in DOMAIN w.stack : i \in hits <=> w.stack[i].sid = sid
  BY DEF SrvType, OfSession
<1>2. /\ u.stack = AfterCancel(w.stack, hits) /\ u.attached = w.attached /\ SameRest(w, u)
      /\ \/ u.status = w.status /\ u.reader = w.reader
         \/ w.reader # "idle" /\ u.status = "cancel" /\ u.reader = "idle"
      /\ u.commands = w.commands \ CommandsAt(w.stack, hits)
      /\ DOMAIN u = DOMAIN w
  BY DEF CancelTransmissions, SrvType, SameRest
<1>3. AfterCancel(w.stack, hits) \in Seq(EntryType)
  BY <1>1, CancelLeaves
<1>4. u \in SrvType
  <2>1. u = [connectors |-> w.connectors, made |-> w.made, loaded |-> w.loaded,
             isOpen |-> w.isOpen, active |-> w.active, status |-> u.status,
             nextID |-> w.nextID, attached |-> w.attached, stack |-> u.stack,
             reader |-> u.reader, sessions |-> w.sessions, commands |-> u.commands,
             panicked |-> w.panicked]
    BY <1>2 DEF CancelTransmissions, SrvType, SameRest
  <2> QED  BY <1>2, <1>3, <2>1 DEF SrvType
<1> HIDE DEF hits
<1>5. Opening(w) /\ 1 \in hits => w.status = "ok"
  BY <1>1 DEF Spares, Opening
<1>6. \A x : (SessionHas(u, x) <=> SessionHas(w, x)) /\ (ConnectorHas(u, x) <=> ConnectorHas(w, x))
  BY <1>2 DEF SessionHas, ConnectorHas
<1>7. w.reader # "idle" => w.status = "pending"
  BY DEF Queue
<1>8. Queue(u) /\ SameStack(w, u)
  BY <1>1, <1>2, <1>4, <1>5, <1>6, <1>7, CancelKeepsQueue DEF SameRest
<1>9. Spares(u, sid)
  <2> SUFFICES ASSUME Opening(u), u.stack[1].sid = sid PROVE u.status = "ok"
    BY DEF Spares
  <2>1. Opening(w) /\ 1 \in DOMAIN u.stack /\ u.stack \in Seq(EntryType)
    BY <1>4, <1>8 DEF SameStack, Opening, SrvType
  <2>2. PICK i \in DOMAIN w.stack : Left(w.stack, hits, u.stack, i, 1)
    BY <1>1, <1>2, <2>1, CancelLeaves
  <2>3. w.stack[1].sid = sid
    BY <2>2 DEF Left
  <2> QED  BY <1>8, <2>1, <2>3 DEF Spares, SameStack
<1> QED  BY <1>2, <1>4, <1>8, <1>9

\* So does detaching a session: when the controller is idle nothing waits to be served.
LEMMA DetachKeeps ==
  ASSUME NEW w \in SrvType, NEW sid \in Nat, Queue(w), Spares(w, sid), Has(w, sid),
         NEW u, u = Detach(w, sid)
  PROVE  /\ u \in SrvType /\ SameRest(w, u) /\ u.attached = Without(w.attached, sid)
         /\ Queue(u) /\ SameStack(w, u)
<1> DEFINE hits == OfSession(w.stack, sid)
<1>1. w.stack \in Seq(EntryType) /\ hits \in SUBSET DOMAIN w.stack
      /\ \A i \in DOMAIN w.stack : i \in hits <=> w.stack[i].sid = sid
  BY DEF SrvType, OfSession
<1>2. AfterCancel(w.stack, hits) \in Seq(EntryType)
      /\ (AfterCancel(w.stack, hits) = << >> <=> w.stack = << >>)
  BY <1>1, CancelLeaves
<1> DEFINE off == [w EXCEPT !.attached = Without(@, sid), !.stack = AfterCancel(@, hits),
                            !.commands = @ \ CommandsAt(w.stack, hits)]
<1>3. u = off
  <2>1. u = IF w.active THEN off ELSE ServeNext(off)
    BY DEF Detach
  <2>2. ~w.active => off.stack = << >>
    BY <1>2 DEF Queue, SrvType
  <2> QED  BY <2>1, <2>2 DEF ServeNext
<1>4. Without(w.attached, sid) \in Seq(AttachedType)
  BY WithoutIs DEF SrvType
<1>5. /\ u.stack = AfterCancel(w.stack, hits) /\ u.attached = Without(w.attached, sid)
      /\ SameRest(w, u) /\ u.status = w.status /\ u.reader = w.reader
      /\ u.commands = w.commands \ CommandsAt(w.stack, hits)
  BY <1>3 DEF SrvType, SameRest
<1>6. u \in SrvType
  <2>1. u = [connectors |-> w.connectors, made |-> w.made, loaded |-> w.loaded,
             isOpen |-> w.isOpen, active |-> w.active, status |-> w.status,
             nextID |-> w.nextID, attached |-> u.attached, stack |-> u.stack,
             reader |-> w.reader, sessions |-> w.sessions, commands |-> u.commands,
             panicked |-> w.panicked]
    BY <1>3 DEF SrvType
  <2> QED  BY <1>2, <1>4, <1>5, <2>1 DEF SrvType
<1> HIDE DEF hits, off
<1>7. Opening(w) /\ 1 \in hits => w.status = "ok"
  BY <1>1 DEF Spares, Opening
<1>8. Range(u.attached) = {x \in Range(w.attached) : x.sid # sid}
  BY <1>5, WithoutMembers DEF SrvType
<1>9. \A x : (SessionHas(u, x) <=> SessionHas(w, x) /\ x # sid)
             /\ (ConnectorHas(u, x) <=> ConnectorHas(w, x) /\ x # sid)
  BY <1>8 DEF SessionHas, ConnectorHas
<1>10. Queue(u) /\ SameStack(w, u)
  BY <1>1, <1>5, <1>6, <1>7, <1>9, CancelKeepsQueue DEF SameRest
<1> QED  BY <1>5, <1>6, <1>10

\* So does attaching one, whose ID is new.
LEMMA AttachKeeps ==
  ASSUME NEW w \in SrvType, NEW s \in Sessions, NEW b \in BOOLEAN, Queue(w),
         NEW u, u = Attach(w, s, b)
  PROVE  /\ u \in SrvType /\ u.connectors = w.connectors /\ u.made = w.made
         /\ u.loaded = w.loaded /\ u.isOpen = w.isOpen /\ u.active = w.active
         /\ u.sessions = w.sessions /\ u.panicked = w.panicked /\ u.nextID = w.nextID + 1
         /\ u.status = w.status /\ u.stack = w.stack /\ u.reader = w.reader
         /\ u.attached = Append(w.attached, [sid |-> w.nextID, client |-> s, connector |-> b])
         /\ Queue(u)
<1> DEFINE a == [sid |-> w.nextID, client |-> s, connector |-> b]
<1>1. a \in AttachedType /\ w.attached \in Seq(AttachedType) /\ w.nextID \in Nat
      /\ w.stack \in Seq(EntryType)
  BY DEF AttachedType, SrvType
<1>2. /\ u.connectors = w.connectors /\ u.made = w.made
      /\ u.loaded = w.loaded /\ u.isOpen = w.isOpen /\ u.active = w.active
      /\ u.sessions = w.sessions /\ u.panicked = w.panicked /\ u.nextID = w.nextID + 1
      /\ u.status = w.status /\ u.stack = w.stack /\ u.reader = w.reader
      /\ u.attached = Append(w.attached, a)
  BY DEF Attach, SrvType
<1>3. u \in SrvType
  <2>1. u = [connectors |-> w.connectors, made |-> w.made, loaded |-> w.loaded,
             isOpen |-> w.isOpen, active |-> w.active, status |-> w.status,
             nextID |-> w.nextID + 1, attached |-> Append(w.attached, a), stack |-> w.stack,
             reader |-> w.reader, sessions |-> w.sessions, commands |-> w.commands,
             panicked |-> w.panicked]
    BY DEF Attach, SrvType
  <2>2. Append(w.attached, a) \in Seq(AttachedType) /\ w.nextID + 1 \in Nat
    BY <1>1
  <2> QED  BY <2>1, <2>2 DEF SrvType
<1> HIDE DEF a
<1>4. Range(u.attached) = Range(w.attached) \cup {a}
  BY <1>1, <1>2, AppendMembers
<1>5. a.sid = w.nextID
  BY DEF a
<1>6. \A x : x < w.nextID /\ x \in Nat =>
        (SessionHas(u, x) <=> SessionHas(w, x)) /\ (ConnectorHas(u, x) <=> ConnectorHas(w, x))
  BY <1>1, <1>4, <1>5 DEF SessionHas, ConnectorHas
<1>7. Opening(u) <=> Opening(w)
  BY <1>2 DEF Opening
<1>8. ASSUME NEW i \in DOMAIN u.stack PROVE Entry(u, u.stack[i], i)
  <2>1. Entry(w, w.stack[i], i) /\ i \in DOMAIN w.stack
    BY <1>2 DEF Queue
  <2>2. w.stack[i] \in EntryType
    BY <1>1, <2>1
  <2>3. w.stack[i].sid \in Nat /\ w.stack[i].sid < w.nextID
    BY <2>1, <2>2 DEF EntryType, Entry
  <2>4. /\ SessionHas(u, w.stack[i].sid) <=> SessionHas(w, w.stack[i].sid)
        /\ ConnectorHas(u, w.stack[i].sid) <=> ConnectorHas(w, w.stack[i].sid)
    BY <1>6, <2>3
  <2>5. w.stack[i].sid < u.nextID
    BY <1>1, <1>2, <2>3
  <2> QED  BY <1>2, <1>7, <2>1, <2>4, <2>5 DEF Entry
<1> QED  BY <1>2, <1>3, <1>7, <1>8 DEF Queue, a
-----------------------------------------------------------------------------
(* The end of a connection attempt. *)

\* A connector's client waits, and nothing else of that client or ID is attached.
LEMMA ConnectorAlone ==
  ASSUME NEW w \in SrvType, Agree(w), NEW c \in Range(w.connectors)
  PROVE  /\ c \in ConnectorType /\ w.sessions[c.client] = "waiting"
         /\ \E a \in Range(w.attached) : a.connector /\ a.client = c.client /\ a.sid = c.sid
         /\ \A b \in Range(w.attached) : b.client = c.client <=> b.sid = c.sid
         /\ \A b \in Range(w.attached) : b.sid = c.sid => b.connector
         /\ \A x \in Range(w.connectors) : x.client = c.client <=> x.sid = c.sid
<1>1. c \in ConnectorType
  BY DEF SrvType, Range
<1>2. w.sessions[c.client] = "waiting"
  BY <1>1 DEF Agree, ConnectorType
<1>3. PICK a \in Range(w.attached) : a.connector /\ a.client = c.client /\ a.sid = c.sid
  BY DEF Agree
<1>4. Distinct(w.attached)
  BY DEF Agree
<1>5. \A b \in Range(w.attached) : b.client = c.client \/ b.sid = c.sid => b = a
  BY <1>3, <1>4, DistinctMembers
<1>6. ASSUME NEW x \in Range(w.connectors) PROVE x.client = c.client <=> x.sid = c.sid
  <2>1. PICK b \in Range(w.attached) : b.connector /\ b.client = x.client /\ b.sid = x.sid
    BY DEF Agree
  <2> QED  BY <1>3, <1>5, <2>1
<1> QED  BY <1>1, <1>2, <1>3, <1>5, <1>6

\* What is attached when connector c is done: its client, if new, and all but itself.
AttachedAfter(w, c, why) ==
  Without(IF why = "connected"
            THEN Append(w.attached,
                        [sid |-> w.nextID, client |-> c.client, connector |-> FALSE])
            ELSE w.attached, c.sid)

\* Every client and ID is still attached once: the connector goes as its client comes.
LEMMA AttachedAfterIs ==
  ASSUME NEW w \in SrvType, Agree(w), Ids(w), NEW c \in Range(w.connectors), NEW why,
         NEW t, t = AttachedAfter(w, c, why),
         NEW n, n = [sid |-> w.nextID, client |-> c.client, connector |-> FALSE]
  PROVE  /\ Range(t) = {a \in Range(w.attached) : a.sid # c.sid}
                       \cup (IF why = "connected" THEN {n} ELSE {})
         /\ Distinct(t)
         /\ w.attached # << >> /\ w.attached[1].sid # c.sid => t # << >> /\ t[1] = w.attached[1]
<1> DEFINE seq == IF why = "connected" THEN Append(w.attached, n) ELSE w.attached
<1>1. /\ c \in ConnectorType
      /\ \E a \in Range(w.attached) : a.connector /\ a.client = c.client /\ a.sid = c.sid
      /\ \A b \in Range(w.attached) : b.client = c.client <=> b.sid = c.sid
  BY ConnectorAlone
<1>2. /\ w.attached \in Seq(AttachedType) /\ n \in AttachedType /\ n.sid = w.nextID
      /\ n.client = c.client /\ w.nextID \in Nat
  BY <1>1 DEF SrvType, AttachedType, ConnectorType
<1>3. seq \in Seq(AttachedType)
  BY <1>2
<1>4. t = Without(seq, c.sid)
  BY DEF AttachedAfter
<1>5. Range(seq) = Range(w.attached) \cup (IF why = "connected" THEN {n} ELSE {})
  BY <1>2, AppendMembers
<1>6. \A a \in Range(w.attached) : a.sid < w.nextID
  BY DEF Ids
<1>7. c.sid < w.nextID /\ c.sid # n.sid
  BY <1>1, <1>2, <1>6 DEF ConnectorType
<1>8. /\ DOMAIN w.attached = 1 .. Len(w.attached) /\ Len(w.attached) \in Nat
      /\ \A i \in DOMAIN w.attached : i \in DOMAIN seq /\ seq[i] = w.attached[i]
      /\ \A i \in DOMAIN seq :
           i \in DOMAIN w.attached \/ (why = "connected" /\ i = Len(w.attached) + 1 /\ seq[i] = n)
  BY <1>2
<1> HIDE DEF seq
<1>9. Range(t) = {a \in Range(seq) : a.sid # c.sid}
  BY <1>3, <1>4, WithoutMembers
<1>10. \A k, l \in DOMAIN t : k # l =>
         \E i, j \in DOMAIN seq : i # j /\ t[k] = seq[i] /\ t[l] = seq[j]
  BY <1>3, <1>4, WithoutIs
<1>11. \A k \in DOMAIN t : t[k].sid # c.sid
  BY <1>3, <1>4, WithoutIs
<1>12. ASSUME NEW a \in Range(w.attached), a.sid # c.sid PROVE a.sid # n.sid /\ a.client # n.client
  <2>1. a \in AttachedType
    BY <1>2 DEF Range
  <2> QED  BY <1>1, <1>2, <1>6, <1>12, <2>1 DEF AttachedType
<1>13. ASSUME NEW i \in DOMAIN seq, NEW j \in DOMAIN seq, i # j,
              seq[i].sid # c.sid, seq[j].sid # c.sid
       PROVE  seq[i].sid # seq[j].sid /\ seq[i].client # seq[j].client
  <2>1. \A k \in DOMAIN w.attached : seq[k] = w.attached[k] /\ w.attached[k] \in Range(w.attached)
    BY <1>8 DEF Range
  <2>2. CASE i \in DOMAIN w.attached /\ j \in DOMAIN w.attached
    BY <1>13, <2>1, <2>2 DEF Agree, Distinct
  <2>3. CASE i \in DOMAIN w.attached /\ j \notin DOMAIN w.attached
    BY <1>8, <1>12, <1>13, <2>1, <2>3
  <2>4. CASE i \notin DOMAIN w.attached /\ j \in DOMAIN w.attached
    BY <1>8, <1>12, <1>13, <2>1, <2>4
  <2>5. CASE i \notin DOMAIN w.attached /\ j \notin DOMAIN w.attached
    BY <1>8, <1>13, <2>5
  <2> QED  BY <2>2, <2>3, <2>4, <2>5
<1>14. Distinct(t)
  <2> SUFFICES ASSUME NEW k \in DOMAIN t, NEW l \in DOMAIN t, k # l
               PROVE  t[k].sid # t[l].sid /\ t[k].client # t[l].client
    BY DEF Distinct
  <2>1. PICK i \in DOMAIN seq, j \in DOMAIN seq : i # j /\ t[k] = seq[i] /\ t[l] = seq[j]
    BY <1>10
  <2> QED  BY <1>11, <1>13, <2>1
<1>15. ASSUME w.attached # << >>, w.attached[1].sid # c.sid PROVE t # << >> /\ t[1] = w.attached[1]
  <2>1. 1 \in DOMAIN w.attached
    BY <1>2, <1>15
  <2>2. seq # << >> /\ seq[1] = w.attached[1]
    BY <1>3, <1>8, <2>1
  <2> QED  BY <1>3, <1>4, <1>15, <2>2, WithoutIs
<1>16. Range(t) = {a \in Range(w.attached) : a.sid # c.sid}
                  \cup (IF why = "connected" THEN {n} ELSE {})
  BY <1>5, <1>7, <1>9
<1> QED  BY <1>14, <1>15, <1>16

\* A client that takes its connector's place leaves the number of sessions as it was.
LEMMA AttachedCount ==
  ASSUME NEW w \in SrvType, Agree(w), Ids(w), NEW c \in Range(w.connectors)
  PROVE  Len(AttachedAfter(w, c, "connected")) = Len(w.attached)
<1> DEFINE n == [sid |-> w.nextID, client |-> c.client, connector |-> FALSE]
           seq == Append(w.attached, n)
<1>1. c \in ConnectorType /\ \E a \in Range(w.attached) : a.sid = c.sid
  BY ConnectorAlone
<1>2. w.attached \in Seq(AttachedType) /\ n \in AttachedType /\ n.sid = w.nextID
      /\ w.nextID \in Nat
  BY <1>1 DEF SrvType, AttachedType, ConnectorType
<1>3. PICK j \in DOMAIN w.attached : w.attached[j].sid = c.sid
  BY <1>1 DEF Range
<1>4. c.sid < w.nextID
  BY <1>3 DEF Ids, Range
<1>5. \A i \in DOMAIN w.attached : w.attached[i].sid = c.sid => i = j
  BY <1>3 DEF Agree, Distinct
<1> HIDE DEF n
<1>6. /\ seq \in Seq(AttachedType) /\ Len(seq) = Len(w.attached) + 1 /\ Len(w.attached) \in Nat
      /\ DOMAIN seq = 1 .. Len(w.attached) + 1 /\ DOMAIN w.attached = 1 .. Len(w.attached)
      /\ seq[Len(w.attached) + 1] = n
      /\ \A i \in DOMAIN w.attached : seq[i] = w.attached[i]
  BY <1>2
<1>7. AttachedAfter(w, c, "connected") = Without(seq, c.sid)
  BY DEF AttachedAfter, n
<1> HIDE DEF seq
<1>8. c.sid # n.sid
  BY <1>1, <1>2, <1>4 DEF ConnectorType
<1>9. j \in DOMAIN seq /\ seq[j].sid = c.sid
  BY <1>3, <1>6
<1>10. \A i \in DOMAIN seq : seq[i].sid = c.sid => i = j
  BY <1>5, <1>6, <1>8
<1>11. Len(Without(seq, c.sid)) = Len(seq) - 1
  BY <1>6, <1>9, <1>10, WithoutCounts
<1> QED  BY <1>6, <1>7, <1>11

\* The sessions after that.
SessionsAfter(w, c, why) == [w.sessions EXCEPT ![c.client] = why]

\* The registries agree when a connector is done.
LEMMA DoneAgrees ==
  ASSUME NEW w \in SrvType, Agree(w), Ids(w), NEW c \in Range(w.connectors),
         NEW why \in {"connected", "refused", "failed", "timeout"}, NEW d \in SrvType,
         d.attached = AttachedAfter(w, c, why),
         d.connectors = Without(w.connectors, c.sid),
         d.sessions = SessionsAfter(w, c, why), d.made = w.made,
         d.nextID = IF why = "connected" THEN w.nextID + 1 ELSE w.nextID
  PROVE  Agree(d) /\ Ids(d) /\ Range(d.connectors) = {x \in Range(w.connectors) : x.sid # c.sid}
<1> DEFINE n == [sid |-> w.nextID, client |-> c.client, connector |-> FALSE]
<1>1. /\ c \in ConnectorType /\ w.sessions[c.client] = "waiting"
      /\ \E a \in Range(w.attached) : a.connector /\ a.client = c.client /\ a.sid = c.sid
      /\ \A b \in Range(w.attached) : b.client = c.client <=> b.sid = c.sid
      /\ \A b \in Range(w.attached) : b.sid = c.sid => b.connector
      /\ \A x \in Range(w.connectors) : x.client = c.client <=> x.sid = c.sid
  BY ConnectorAlone
<1>2. /\ Range(d.attached) = {a \in Range(w.attached) : a.sid # c.sid}
                             \cup (IF why = "connected" THEN {n} ELSE {})
      /\ Distinct(d.attached)
      /\ w.attached # << >> /\ w.attached[1].sid # c.sid =>
           d.attached # << >> /\ d.attached[1] = w.attached[1]
  <2>1. n = [sid |-> w.nextID, client |-> c.client, connector |-> FALSE]
    OBVIOUS
  <2> HIDE DEF n
  <2> QED  BY <2>1, AttachedAfterIs
<1>3. Range(d.connectors) = {x \in Range(w.connectors) : x.sid # c.sid}
  BY WithoutMembers DEF SrvType
<1>4. c.client \in Sessions /\ c.sid \in Nat /\ w.nextID \in Nat /\ d.nextID \in Nat
      /\ w.sessions \in [Sessions -> SessionState]
      /\ n.sid = w.nextID /\ n.client = c.client /\ n.connector = FALSE
  BY <1>1 DEF ConnectorType, SrvType
<1>5. \A a \in Range(w.attached) : a.sid < w.nextID /\ a.sid \in Nat
  <2>1. \A a \in Range(w.attached) : a \in AttachedType
    BY DEF SrvType, Range
  <2> QED  BY <2>1 DEF Ids, AttachedType
<1> HIDE DEF n
<1>15. \A s \in Sessions : d.sessions[s] = IF s = c.client THEN why ELSE w.sessions[s]
  BY <1>4 DEF SessionsAfter
<1>6. ASSUME NEW s \in Sessions
      PROVE  d.sessions[s] = "waiting" <=> \E x \in Range(d.connectors) : x.client = s
  <2>1. w.sessions[s] = "waiting" <=> \E x \in Range(w.connectors) : x.client = s
    BY DEF Agree
  <2> QED  BY <1>1, <1>3, <1>4, <1>15, <2>1
<1>7. ASSUME NEW s \in Sessions
      PROVE  d.sessions[s] = "connected" <=>
               \E a \in Range(d.attached) : a.client = s /\ ~a.connector
  <2>1. w.sessions[s] = "connected" <=> \E a \in Range(w.attached) : a.client = s /\ ~a.connector
    BY DEF Agree
  <2>2. CASE s = c.client
    <3>1. d.sessions[s] = why /\ w.sessions[s] # "connected"
      BY <1>1, <1>4, <1>15, <2>2
    <3>2. \A a \in Range(d.attached) : a.client = s /\ ~a.connector => why = "connected"
      BY <1>2, <2>1, <3>1
    <3>3. why = "connected" => n \in Range(d.attached) /\ n.client = s /\ ~n.connector
      BY <1>2, <1>4, <2>2
    <3> QED  BY <3>1, <3>2, <3>3
  <2>3. CASE s # c.client
    <3>1. d.sessions[s] = w.sessions[s]
      BY <1>4, <1>15, <2>3
    <3>2. \A a : a \in Range(d.attached) /\ a.client = s <=> a \in Range(w.attached) /\ a.client = s
      BY <1>1, <1>2, <1>4, <2>3
    <3> QED  BY <2>1, <3>1, <3>2
  <2> QED  BY <2>2, <2>3
<1>8. ASSUME NEW x \in Range(d.connectors)
      PROVE  \E a \in Range(d.attached) : a.connector /\ a.client = x.client /\ a.sid = x.sid
  <2>1. x \in Range(w.connectors) /\ x.sid # c.sid
    BY <1>3
  <2>2. PICK a \in Range(w.attached) : a.connector /\ a.client = x.client /\ a.sid = x.sid
    BY <2>1 DEF Agree
  <2> QED  BY <1>2, <2>1, <2>2
<1>9. ASSUME NEW a \in Range(d.attached), a.connector
      PROVE  \E x \in Range(d.connectors) : a.client = x.client /\ a.sid = x.sid
  <2>1. a \in Range(w.attached) /\ a.sid # c.sid
    BY <1>2, <1>4, <1>9
  <2>2. PICK x \in Range(w.connectors) : a.client = x.client /\ a.sid = x.sid
    BY <2>1, <1>9 DEF Agree
  <2> QED  BY <1>3, <2>1, <2>2
<1>10. Agree(d)
  BY <1>2, <1>6, <1>7, <1>8, <1>9 DEF Agree
<1>11. \A a \in Range(d.attached) : a.sid < d.nextID
  BY <1>2, <1>4, <1>5
<1>12. d.made
  <2>1. Range(w.attached) # {}
    BY <1>1
  <2>2. w.attached # << >>
    BY <2>1 DEF Range
  <2> QED  BY <2>2 DEF Ids, SrvType
<1>13. ASSUME NEW x \in Range(d.connectors), x.first
       PROVE  d.attached # << >> /\ d.attached[1].sid = x.sid
  <2>1. x \in Range(w.connectors) /\ x.sid # c.sid
    BY <1>3
  <2>2. w.attached # << >> /\ w.attached[1].sid = x.sid
    BY <1>13, <2>1 DEF Ids
  <2> QED  BY <1>2, <2>1, <2>2
<1>14. Ids(d)
  BY <1>11, <1>12, <1>13 DEF Ids
<1> QED  BY <1>3, <1>10, <1>14
\* Queue is about the stack, the reader and what is attached.
LEMMA QueueOnly ==
  ASSUME NEW w, NEW u, Queue(w), u.active = w.active, u.stack = w.stack, u.status = w.status,
         u.reader = w.reader, u.isOpen = w.isOpen, u.nextID = w.nextID, u.attached = w.attached
  PROVE  Queue(u) /\ (Opening(u) <=> Opening(w))
<1>1. Opening(u) <=> Opening(w)
  BY DEF Opening
<1>2. \A x : (SessionHas(u, x) <=> SessionHas(w, x)) /\ (ConnectorHas(u, x) <=> ConnectorHas(w, x))
  BY DEF SessionHas, ConnectorHas
<1>3. ASSUME NEW i \in DOMAIN u.stack PROVE Entry(u, u.stack[i], i)
  <2>1. Entry(w, u.stack[i], i)
    BY DEF Queue
  <2> QED  BY <1>1, <1>2, <2>1 DEF Entry
<1> QED  BY <1>1, <1>3 DEF Queue

\* What is the same when a connector is done.
Served(w, d, c) ==
  /\ Range(d.connectors) = {x \in Range(w.connectors) : x.sid # c.sid}
  /\ d.made = w.made /\ d.loaded = w.loaded /\ d.isOpen = w.isOpen /\ d.active = w.active
  /\ d.panicked = w.panicked
  /\ SameStack(w, d)

\* ConnectionDone keeps the invariant, at any point at which it holds: a client is told
\* that it is connected only if the reader is open or about to be, and the entry of the
\* connector's opening is taken away only if the opening has succeeded.
LEMMA DoneKeeps ==
  ASSUME NEW w, Sane(w), NEW c \in Range(w.connectors),
         NEW why \in {"connected", "refused", "failed", "timeout"},
         why = "connected" => w.isOpen \/ (w.status = "ok" /\ Opening(w)),
         Spares(w, c.sid), NEW d, d = ConnectionDone(w, c, why)
  PROVE  Sane(d) /\ Served(w, d, c) /\ d.attached = AttachedAfter(w, c, why)
<1>0. w \in SrvType /\ Agree(w) /\ Ids(w) /\ Queue(w) /\ OpenFor(w) /\ w.panicked = "no"
  BY DEF Sane
<1>1. /\ c \in ConnectorType /\ w.sessions[c.client] = "waiting"
      /\ \E a \in Range(w.attached) : a.connector /\ a.client = c.client /\ a.sid = c.sid
  BY <1>0, ConnectorAlone
<1>2. c.client \in Sessions /\ c.sid \in Nat /\ w.sessions \in [Sessions -> SessionState]
      /\ w.nextID \in Nat
  BY <1>0, <1>1 DEF ConnectorType, SrvType
<1> DEFINE told == [w EXCEPT !.sessions[c.client] = why]
           done == IF why = "connected" THEN Attach(told, c.client, FALSE) ELSE told
           left == [done EXCEPT !.connectors = Without(@, c.sid)]
           x == CancelTransmissions(left, c.sid)
<1>3. d = Detach(x, c.sid)
  BY <1>1 DEF ConnectionDone, Destroy
<1>4. /\ told \in SrvType /\ told.sessions = [w.sessions EXCEPT ![c.client] = why]
      /\ told.connectors = w.connectors /\ told.made = w.made /\ told.loaded = w.loaded
      /\ told.isOpen = w.isOpen /\ told.active = w.active /\ told.status = w.status
      /\ told.nextID = w.nextID /\ told.attached = w.attached /\ told.stack = w.stack
      /\ told.reader = w.reader /\ told.panicked = w.panicked
  <2>1. [w.sessions EXCEPT ![c.client] = why] \in [Sessions -> SessionState]
    BY <1>2 DEF SessionState
  <2>2. told = [w EXCEPT !.sessions = [w.sessions EXCEPT ![c.client] = why]]
    BY <1>0 DEF SrvType
  <2> QED  BY <1>0, <2>1, <2>2 DEF SrvType
<1> HIDE DEF told
<1>5. Queue(told)
  BY <1>0, <1>4, QueueOnly
<1>6. /\ done \in SrvType /\ done.sessions = told.sessions /\ done.connectors = w.connectors
      /\ done.made = w.made /\ done.loaded = w.loaded
      /\ done.isOpen = w.isOpen /\ done.active = w.active /\ done.status = w.status
      /\ done.nextID = (IF why = "connected" THEN w.nextID + 1 ELSE w.nextID)
      /\ done.attached = (IF why = "connected"
                           THEN Append(w.attached, [sid |-> w.nextID, client |-> c.client,
                                                    connector |-> FALSE])
                           ELSE w.attached)
      /\ done.stack = w.stack /\ done.reader = w.reader /\ done.panicked = w.panicked
      /\ Queue(done)
  <2>1. CASE why = "connected"
    <3>0. PICK b \in BOOLEAN : b = FALSE
      OBVIOUS
    <3>1. done = Attach(told, c.client, b)
      BY <2>1, <3>0
    <3> HIDE DEF done
    <3>2. told \in SrvType /\ c.client \in Sessions
      BY <1>2, <1>4
    <3>3. /\ done \in SrvType /\ done.connectors = told.connectors /\ done.made = told.made
          /\ done.loaded = told.loaded /\ done.isOpen = told.isOpen /\ done.active = told.active
          /\ done.sessions = told.sessions /\ done.panicked = told.panicked
          /\ done.nextID = told.nextID + 1
          /\ done.status = told.status /\ done.stack = told.stack /\ done.reader = told.reader
          /\ done.attached = Append(told.attached, [sid |-> told.nextID, client |-> c.client,
                                                    connector |-> b])
          /\ Queue(done)
      BY <1>5, <3>1, <3>2, AttachKeeps
    <3> QED  BY <1>4, <2>1, <3>0, <3>3
  <2>2. CASE why # "connected"
    BY <1>4, <1>5, <2>2
  <2> QED  BY <2>1, <2>2
<1> HIDE DEF done
<1>7. Without(w.connectors, c.sid) \in Seq(ConnectorType)
  BY <1>0, WithoutIs DEF SrvType
<1>8. /\ left \in SrvType /\ left.sessions = told.sessions
      /\ left.connectors = Without(w.connectors, c.sid)
      /\ left.made = w.made /\ left.loaded = w.loaded
      /\ left.isOpen = w.isOpen /\ left.active = w.active /\ left.status = w.status
      /\ left.nextID = done.nextID /\ left.attached = done.attached
      /\ left.stack = w.stack /\ left.reader = w.reader /\ left.panicked = w.panicked
  BY <1>6, <1>7 DEF SrvType
<1> HIDE DEF left
<1>9. Queue(left)
  BY <1>6, <1>8, QueueOnly
<1>10. (Opening(left) <=> Opening(w)) /\ Spares(left, c.sid)
  BY <1>8 DEF Opening, Spares
<1>11. /\ x \in SrvType /\ SameRest(left, x) /\ x.attached = left.attached
       /\ Queue(x) /\ SameStack(left, x) /\ Spares(x, c.sid)
  <2>1. x = CancelTransmissions(left, c.sid)
    OBVIOUS
  <2> HIDE DEF x
  <2> QED  BY <1>2, <1>8, <1>9, <1>10, <2>1, CancelTransmissionsKeeps
<1> HIDE DEF x
<1>12. Has(x, c.sid)
  <2>1. PICK a \in Range(w.attached) : a.sid = c.sid
    BY <1>1
  <2>2. w.attached \in Seq(AttachedType)
    BY <1>0 DEF SrvType
  <2>3. Range(w.attached) \subseteq Range(done.attached)
    BY <1>6, <2>2, AppendMembers
  <2>4. a \in Range(x.attached)
    BY <1>8, <1>11, <2>1, <2>3
  <2> QED  BY <2>1, <2>4 DEF Has, Range
<1>13. /\ d \in SrvType /\ SameRest(x, d) /\ d.attached = Without(x.attached, c.sid)
       /\ Queue(d) /\ SameStack(x, d)
  BY <1>2, <1>3, <1>11, <1>12, DetachKeeps
<1>14. /\ d.attached = AttachedAfter(w, c, why)
       /\ d.connectors = Without(w.connectors, c.sid)
       /\ d.sessions = SessionsAfter(w, c, why) /\ d.made = w.made
       /\ d.nextID = (IF why = "connected" THEN w.nextID + 1 ELSE w.nextID)
       /\ d.loaded = w.loaded /\ d.isOpen = w.isOpen /\ d.active = w.active
       /\ d.panicked = w.panicked
  BY <1>4, <1>6, <1>8, <1>11, <1>13 DEF SameRest, AttachedAfter, SessionsAfter
<1>15. Agree(d) /\ Ids(d) /\ Range(d.connectors) = {y \in Range(w.connectors) : y.sid # c.sid}
  <2>1. d \in SrvType /\ w \in SrvType /\ Agree(w) /\ Ids(w)
    BY <1>0, <1>13
  <2> QED  BY <1>14, <2>1, DoneAgrees
<1>16. SameStack(w, d)
  BY <1>8, <1>10, <1>11, <1>13 DEF SameStack
<1>17. OpenFor(d)
  <2> SUFFICES ASSUME NEW s \in Sessions, d.sessions[s] = "connected"
               PROVE  d.isOpen \/ (d.status = "ok" /\ Opening(d))
    BY DEF OpenFor
  <2>1. w.isOpen \/ (w.status = "ok" /\ Opening(w))
    <3>1. CASE s = c.client
      BY <1>2, <1>14, <3>1 DEF SessionsAfter
    <3>2. CASE s # c.client
      BY <1>0, <1>2, <1>14, <3>2 DEF OpenFor, SessionsAfter
    <3> QED  BY <3>1, <3>2
  <2> QED  BY <1>14, <1>16, <2>1 DEF SameStack
<1> QED  BY <1>0, <1>13, <1>14, <1>15, <1>16, <1>17 DEF Sane, Served
-----------------------------------------------------------------------------
(* The card that is inserted. *)

\* Induction over the natural numbers, for a set.
LEMMA Induction ==
  ASSUME NEW G \in SUBSET Nat, 0 \in G, \A k \in G : k + 1 \in G
  PROVE  \A k \in Nat : k \in G
<1> SUFFICES ASSUME NEW m \in Nat, m \notin G PROVE FALSE
  OBVIOUS
<1> DEFINE Bad == {k \in Nat : k \notin G}
<1>1. PICK n \in Bad : \A k \in Bad : ~(<<k, n>> \in OpToRel(<, Nat))
  BY WFMin, NatLessThanWellFounded
<1>2. \A k \in Nat : k < n => k \in G
  BY <1>1 DEF OpToRel
<1>3. n \in Nat /\ n \notin G /\ n # 0
  BY <1>1
<1>4. n - 1 \in Nat /\ n - 1 < n /\ n = (n - 1) + 1
  BY <1>3
<1>5. n - 1 \in G
  BY <1>2, <1>4
<1> QED  BY <1>3, <1>4, <1>5

\* f is what the sessions 1 to k make of the objects.
Chain(f, k) == f = [i \in 0 .. k |-> IF i = 0 THEN srv ELSE Tell(f[i - 1], i)]

\* There is such a function: the one for k sessions continues to k + 1.
LEMMA ChainExists == \A k \in Nat : \E f : Chain(f, k)
<1> DEFINE G == {k \in Nat : \E f : Chain(f, k)}
<1>1. 0 \in G
  <2> DEFINE f == [i \in 0 .. 0 |-> srv]
  <2>1. f = [i \in 0 .. 0 |-> IF i = 0 THEN srv ELSE Tell(f[i - 1], i)]
    OBVIOUS
  <2> HIDE DEF f
  <2> QED  BY <2>1 DEF Chain
<1>2. ASSUME NEW k \in G PROVE k + 1 \in G
  <2>1. PICK f : Chain(f, k)
    OBVIOUS
  <2> DEFINE g == [i \in 0 .. k + 1 |-> IF i = k + 1 THEN Tell(f[k], k + 1) ELSE f[i]]
             h == [i \in 0 .. k + 1 |-> IF i = 0 THEN srv ELSE Tell(g[i - 1], i)]
  <2>2. k \in Nat
    OBVIOUS
  <2>3. \A i \in 0 .. k : f[i] = IF i = 0 THEN srv ELSE Tell(f[i - 1], i)
    BY <2>1 DEF Chain
  <2>4. ASSUME NEW i \in 0 .. k + 1 PROVE g[i] = h[i]
    <3>1. CASE i = 0
      BY <2>2, <2>3, <3>1
    <3>2. CASE i # 0 /\ i # k + 1
      <4>1. i \in 0 .. k /\ i - 1 \in 0 .. k /\ i - 1 # k + 1 /\ i - 1 \in 0 .. k + 1
        BY <2>2, <3>2
      <4>2. g[i] = f[i] /\ g[i - 1] = f[i - 1]
        BY <3>2, <4>1
      <4> QED  BY <2>3, <3>2, <4>1, <4>2
    <3>3. CASE i = k + 1
      <4>1. i - 1 = k /\ k \in 0 .. k + 1 /\ k # k + 1 /\ i # 0
        BY <2>2, <3>3
      <4>2. g[i] = Tell(f[k], k + 1) /\ g[i - 1] = f[k]
        BY <3>3, <4>1
      <4> QED  BY <3>3, <4>1, <4>2
    <3> QED  BY <3>1, <3>2, <3>3
  <2>5. g = h
    BY <2>4
  <2>6. \E x : Chain(x, k + 1)
    <3> HIDE DEF g
    <3> QED  BY <2>5 DEF Chain
  <2> QED  BY <2>2, <2>6
<1>3. \A k \in Nat : k \in G
  <2>1. G \in SUBSET Nat
    OBVIOUS
  <2> HIDE DEF G
  <2> QED  BY <1>1, <1>2, <2>1, Induction
<1> QED  BY <1>3

\* An attached connector is in the connection registry.
LEMMA ConnectorOfIs ==
  ASSUME NEW w \in SrvType, Agree(w), NEW a \in Range(w.attached), a.connector,
         NEW c, c = ConnectorOf(w, a.sid)
  PROVE  c \in Range(w.connectors) /\ c.sid = a.sid
<1>1. \E x \in Range(w.connectors) : x.sid = a.sid
  BY DEF Agree
<1>2. \E i \in DOMAIN w.connectors : w.connectors[i].sid = a.sid
  BY <1>1 DEF Range
<1> DEFINE i == CHOOSE i \in DOMAIN w.connectors : w.connectors[i].sid = a.sid
<1>3. i \in DOMAIN w.connectors /\ w.connectors[i].sid = a.sid
  BY <1>2
<1>4. c = w.connectors[i]
  BY DEF ConnectorOf
<1> HIDE DEF i
<1> QED  BY <1>3, <1>4 DEF Range

\* The opening has succeeded, and the controller has not noted it yet.
Opened(w) == Sane(w) /\ w.status = "ok" /\ Opening(w)

\* A session that is told of the card: its connector, if it is one, is done.
LEMMA TellKeeps ==
  ASSUME NEW w, Opened(w), NEW i \in 1 .. Len(w.attached), NEW d, d = Tell(w, i)
  PROVE  /\ Opened(d) /\ Len(d.attached) = Len(w.attached)
         /\ Range(d.connectors) \subseteq Range(w.connectors)
         /\ i = 1 => \A x \in Range(d.connectors) : ~x.first
<1>1. w \in SrvType /\ Agree(w) /\ Ids(w)
  BY DEF Opened, Sane
<1>2. w.attached \in Seq(AttachedType) /\ i \in DOMAIN w.attached
  BY <1>1 DEF SrvType
<1>3. CASE w.attached[i].connector
  <2> DEFINE a == w.attached[i]  c == ConnectorOf(w, a.sid)
  <2>1. d = ConnectionDone(w, c, "connected")
    BY <1>2, <1>3 DEF Tell
  <2>2. a \in Range(w.attached) /\ a.connector
    BY <1>2, <1>3 DEF Range
  <2>3. c = ConnectorOf(w, a.sid) /\ a = w.attached[i]
    OBVIOUS
  <2> HIDE DEF c, a
  <2>4. c \in Range(w.connectors) /\ c.sid = a.sid
    BY <1>1, <2>2, <2>3, ConnectorOfIs
  <2>5. Spares(w, c.sid)
    BY DEF Opened, Spares
  <2>6. Sane(d) /\ Served(w, d, c) /\ d.attached = AttachedAfter(w, c, "connected")
    BY <2>1, <2>4, <2>5, DoneKeeps DEF Opened
  <2>7. Opened(d)
    BY <2>6 DEF Opened, Served, SameStack
  <2>8. ASSUME i = 1, NEW x \in Range(d.connectors) PROVE ~x.first
    BY <1>1, <2>3, <2>4, <2>6, <2>8 DEF Ids, Served
  <2>9. Len(d.attached) = Len(w.attached)
    BY <1>1, <2>4, <2>6, AttachedCount
  <2> QED  BY <2>6, <2>7, <2>8, <2>9 DEF Served
<1>4. CASE ~w.attached[i].connector
  <2>1. d = w
    BY <1>2, <1>4 DEF Tell
  <2>2. ASSUME i = 1, NEW x \in Range(w.connectors), x.first PROVE FALSE
    <3>1. w.attached # << >> /\ w.attached[1].sid = x.sid
      BY <1>1, <2>2 DEF Ids
    <3>2. 1 \in DOMAIN w.attached
      BY <1>2, <3>1
    <3>3. w.attached[1] \in Range(w.attached)
      BY <3>2 DEF Range
    <3>4. w.attached[1].connector
      BY <1>1, <2>2, <3>1, <3>3, ConnectorAlone
    <3> QED  BY <1>4, <2>2, <3>2, <3>4
  <2> QED  BY <2>1, <2>2
<1> QED  BY <1>3, <1>4

\* All are told; the first, with which the controller was made, is among them.
LEMMA CardInsertedKeeps ==
  ASSUME Opened(srv), NEW d, d = CardInserted
  PROVE  Opened(d) /\ \A x \in Range(d.connectors) : ~x.first
<1> DEFINE n == Len(srv.attached)
           f == CHOOSE g : Chain(g, n)
<1>1. n \in Nat
  BY DEF Opened, Sane, SrvType
<1>2. d = f[n]
  BY DEF CardInserted, Chain
<1>3. Chain(f, n)
  BY <1>1, ChainExists
<1> HIDE DEF f
<1> DEFINE Fine(k) == /\ Opened(f[k]) /\ Len(f[k].attached) = n
                      /\ k # 0 => \A x \in Range(f[k].connectors) : ~x.first
           G == {k \in Nat : k <= n => Fine(k)}
<1>0. n = Len(srv.attached)
  OBVIOUS
<1> HIDE DEF n
<1>4. \A k \in 0 .. n : f[k] = IF k = 0 THEN srv ELSE Tell(f[k - 1], k)
  BY <1>1, <1>3 DEF Chain
<1>5. 0 \in G
  BY <1>0, <1>1, <1>4
<1>6. ASSUME NEW k \in G PROVE k + 1 \in G
  <2> SUFFICES ASSUME k + 1 <= n PROVE Fine(k + 1)
    OBVIOUS
  <2>1. k \in Nat /\ k <= n /\ Fine(k) /\ k + 1 \in Nat /\ k + 1 # 0 /\ (k + 1) - 1 = k
    BY <1>1
  <2>2. f[k + 1] = Tell(f[k], k + 1)
    BY <1>1, <1>4, <2>1
  <2>3. /\ Opened(f[k + 1]) /\ Len(f[k + 1].attached) = Len(f[k].attached)
        /\ Range(f[k + 1].connectors) \subseteq Range(f[k].connectors)
        /\ k + 1 = 1 => \A x \in Range(f[k + 1].connectors) : ~x.first
    BY <2>1, <2>2, TellKeeps
  <2>4. CASE k = 0
    BY <2>1, <2>3, <2>4
  <2>5. CASE k # 0
    BY <2>1, <2>3, <2>5
  <2> QED  BY <2>4, <2>5
<1>7. Fine(n)
  <2>1. G \in SUBSET Nat
    OBVIOUS
  <2>2. n \in G
    <3> HIDE DEF G
    <3> QED  BY <1>1, <1>5, <1>6, <2>1, Induction
  <2> QED  BY <1>1, <2>2
<1>8. n = 0 => \A x \in Range(srv.connectors) : ~x.first
  <2> SUFFICES ASSUME n = 0, NEW x \in Range(srv.connectors), x.first PROVE FALSE
    OBVIOUS
  <2>1. srv.attached # << >> /\ srv.attached \in Seq(AttachedType)
    BY DEF Opened, Sane, Ids, SrvType
  <2> QED  BY <2>1 DEF n
<1>9. f[0] = srv
  BY <1>1, <1>4
<1> QED  BY <1>2, <1>7, <1>8, <1>9
-----------------------------------------------------------------------------
(* What a client does. *)

\* The registries and IDs of u are those of w.
LEMMA AgreeOnly ==
  ASSUME NEW w, NEW u, Agree(w), Ids(w), u.sessions = w.sessions, u.connectors = w.connectors,
         u.attached = w.attached, u.made = w.made, u.nextID = w.nextID, ~w.active => ~u.active
  PROVE  Agree(u) /\ Ids(u)
BY DEF Agree, Ids

\* A step of a client leaves the notice as it is, and the opening it is about.
LEMMA NoticeKept ==
  ASSUME NoticeFits, notice' = notice,
         srv.status = "ok" /\ Opening(srv) <=> srv'.status = "ok" /\ Opening(srv'),
         srv.status = "ok" /\ Opening(srv) =>
           \A x \in Range(srv'.connectors) : x.first => x \in Range(srv.connectors)
  PROVE  NoticeFits'
BY DEF NoticeFits, Opening

\* A connected client's attachment is no connector's, and no opening's.
LEMMA ConnectedAlone ==
  ASSUME NEW w, Sane(w), NEW s \in Sessions, w.sessions[s] = "connected",
         NEW a \in Range(w.attached), a.client = s
  PROVE  /\ ~a.connector /\ a.sid \in Nat /\ Has(w, a.sid) /\ SessionHas(w, a.sid)
         /\ ~(Opening(w) /\ w.stack[1].sid = a.sid)
         /\ \A b \in Range(w.attached) : b.client = s <=> b.sid = a.sid
<1>1. w \in SrvType /\ Agree(w) /\ Queue(w) /\ Distinct(w.attached)
  BY DEF Sane, Agree
<1>2. PICK b \in Range(w.attached) : b.client = s /\ ~b.connector
  BY <1>1 DEF Agree
<1>3. a = b
  BY <1>1, <1>2, DistinctMembers
<1>4. a \in AttachedType
  BY <1>1 DEF SrvType, Range
<1>5. Has(w, a.sid)
  BY DEF Has, Range
<1>6. SessionHas(w, a.sid)
  BY <1>2, <1>3 DEF SessionHas
<1>7. ASSUME Opening(w), w.stack[1].sid = a.sid PROVE FALSE
  <2>1. 1 \in DOMAIN w.stack /\ w.stack[1].opens
    BY <1>1, <1>7 DEF Opening, SrvType
  <2>2. Entry(w, w.stack[1], 1)
    BY <1>1, <2>1 DEF Queue
  <2> QED  BY <1>6, <1>7, <2>1, <2>2 DEF Entry
<1>8. \A x \in Range(w.attached) : x.client = s \/ x.sid = a.sid => x = a
  BY <1>1, DistinctMembers
<1> QED  BY <1>2, <1>3, <1>4, <1>5, <1>6, <1>7, <1>8 DEF AttachedType

\* A connected client leaves the reader: it disconnects, or closes its session.
Leaving(w, s, to) == [w EXCEPT !.sessions[s] = to]

LEMMA LeaveKeeps ==
  ASSUME NEW w, Sane(w), NEW s \in Sessions, w.sessions[s] = "connected",
         NEW a \in Range(w.attached), a.client = s, NEW to \in {"idle", "gone"},
         NEW d, d = Detach(Leaving(w, s, to), a.sid)
  PROVE  Sane(d) /\ d.connectors = w.connectors /\ SameStack(w, d)
<1>0. w \in SrvType /\ Agree(w) /\ Ids(w) /\ Queue(w) /\ OpenFor(w) /\ w.panicked = "no"
  BY DEF Sane
<1>1. /\ ~a.connector /\ a.sid \in Nat /\ Has(w, a.sid)
      /\ ~(Opening(w) /\ w.stack[1].sid = a.sid)
      /\ \A b \in Range(w.attached) : b.client = s <=> b.sid = a.sid
  BY ConnectedAlone
<1> DEFINE left == Leaving(w, s, to)
           after == [w.sessions EXCEPT ![s] = to]
<1>2. after \in [Sessions -> SessionState] /\ w.sessions \in [Sessions -> SessionState]
  BY <1>0 DEF SrvType, SessionState
<1>3. /\ left \in SrvType /\ left.sessions = after
      /\ left.connectors = w.connectors /\ left.made = w.made /\ left.loaded = w.loaded
      /\ left.isOpen = w.isOpen /\ left.active = w.active /\ left.status = w.status
      /\ left.nextID = w.nextID /\ left.attached = w.attached /\ left.stack = w.stack
      /\ left.reader = w.reader /\ left.panicked = w.panicked
  <2>1. left = [w EXCEPT !.sessions = after]
    BY <1>0 DEF SrvType, Leaving
  <2> HIDE DEF left, after
  <2> QED  BY <1>0, <1>2, <2>1 DEF SrvType
<1>4. \A x \in Sessions : after[x] = IF x = s THEN to ELSE w.sessions[x]
  BY <1>2
<1> HIDE DEF after
<1>5. d = Detach(left, a.sid)
  OBVIOUS
<1> HIDE DEF left
<1>6. Queue(left)
  BY <1>0, <1>3, QueueOnly
<1>7. Spares(left, a.sid) /\ Has(left, a.sid) /\ (Opening(left) <=> Opening(w))
  BY <1>1, <1>3 DEF Spares, Opening, Has
<1>8. /\ d \in SrvType /\ SameRest(left, d) /\ d.attached = Without(left.attached, a.sid)
      /\ Queue(d) /\ SameStack(left, d)
  BY <1>1, <1>3, <1>5, <1>6, <1>7, DetachKeeps
<1>9. SameStack(w, d)
  BY <1>3, <1>7, <1>8 DEF SameStack
<1>10. w.attached \in Seq(AttachedType) /\ d.attached = Without(w.attached, a.sid)
  BY <1>0, <1>3, <1>8 DEF SrvType
<1>11. Range(d.attached) = {b \in Range(w.attached) : b.sid # a.sid}
  BY <1>10, WithoutMembers
<1>12. /\ \A k, l \in DOMAIN d.attached : k # l =>
            \E i, j \in DOMAIN w.attached : i # j /\ d.attached[k] = w.attached[i]
                                                  /\ d.attached[l] = w.attached[j]
       /\ w.attached # << >> /\ w.attached[1].sid # a.sid =>
            d.attached # << >> /\ d.attached[1] = w.attached[1]
  <2>1. \A t : t = Without(w.attached, a.sid) =>
          /\ \A k, l \in DOMAIN t : k # l =>
               \E i, j \in DOMAIN w.attached : i # j /\ t[k] = w.attached[i]
                                                     /\ t[l] = w.attached[j]
          /\ w.attached # << >> /\ w.attached[1].sid # a.sid => t # << >> /\ t[1] = w.attached[1]
    <3> DEFINE seq == w.attached  sid == a.sid
    <3>1. seq \in Seq(AttachedType)
      BY <1>10
    <3> HIDE DEF seq, sid
    <3>2. ASSUME NEW t, t = Without(seq, sid)
          PROVE  \A k, l \in DOMAIN t : k # l =>
                   \E i, j \in DOMAIN seq : i # j /\ t[k] = seq[i] /\ t[l] = seq[j]
      BY <3>1, <3>2, WithoutIs
    <3>3. ASSUME NEW t, t = Without(seq, sid)
          PROVE  seq # << >> /\ seq[1].sid # sid => t # << >> /\ t[1] = seq[1]
      BY <3>1, <3>3, WithoutIs
    <3> QED  BY <3>2, <3>3 DEF seq, sid
  <2> QED  BY <1>10, <2>1
<1>13. Distinct(d.attached)
  <2>1. Distinct(w.attached)
    BY <1>0 DEF Agree
  <2> QED  BY <1>12, <2>1 DEF Distinct
<1>14. d.sessions = after /\ d.connectors = w.connectors /\ d.made = w.made /\ d.nextID = w.nextID
       /\ d.active = w.active /\ d.isOpen = w.isOpen /\ d.panicked = w.panicked
  BY <1>3, <1>8 DEF SameRest
<1>15. \A c \in Range(w.connectors) : c.sid # a.sid /\ c.client # s
  <2> SUFFICES ASSUME NEW c \in Range(w.connectors) PROVE c.sid # a.sid /\ c.client # s
    OBVIOUS
  <2>1. PICK b \in Range(w.attached) : b.connector /\ b.client = c.client /\ b.sid = c.sid
    BY <1>0 DEF Agree
  <2>2. a = b => FALSE
    BY <1>1, <2>1
  <2>3. Distinct(w.attached)
    BY <1>0 DEF Agree
  <2> QED  BY <2>1, <2>2, <2>3, DistinctMembers
<1>16. ASSUME NEW x \in Sessions
       PROVE  /\ d.sessions[x] = "waiting" <=> \E c \in Range(d.connectors) : c.client = x
              /\ d.sessions[x] = "connected" <=>
                   \E b \in Range(d.attached) : b.client = x /\ ~b.connector
  <2>1. /\ w.sessions[x] = "waiting" <=> \E c \in Range(w.connectors) : c.client = x
        /\ w.sessions[x] = "connected" <=> \E b \in Range(w.attached) : b.client = x /\ ~b.connector
    BY <1>0 DEF Agree
  <2>2. CASE x = s
    <3>1. d.sessions[x] = to
      BY <1>4, <1>14, <2>2
    <3> QED  BY <1>1, <1>11, <1>14, <1>15, <2>2, <3>1
  <2>3. CASE x # s
    <3>1. d.sessions[x] = w.sessions[x]
      BY <1>4, <1>14, <2>3
    <3> QED  BY <1>1, <1>11, <1>14, <2>1, <2>3, <3>1
  <2> QED  BY <2>2, <2>3
<1>17. ASSUME NEW c \in Range(d.connectors)
       PROVE  \E b \in Range(d.attached) : b.connector /\ b.client = c.client /\ b.sid = c.sid
  <2>1. PICK b \in Range(w.attached) : b.connector /\ b.client = c.client /\ b.sid = c.sid
    BY <1>0, <1>14 DEF Agree
  <2> QED  BY <1>11, <1>14, <1>15, <2>1
<1>18. ASSUME NEW b \in Range(d.attached), b.connector
       PROVE  \E c \in Range(d.connectors) : b.client = c.client /\ b.sid = c.sid
  BY <1>0, <1>11, <1>14, <1>18 DEF Agree
<1>19. Agree(d)
  BY <1>13, <1>16, <1>17, <1>18 DEF Agree
<1>20. Ids(d)
  <2>1. \A b \in Range(d.attached) : b.sid < d.nextID
    BY <1>0, <1>11, <1>14 DEF Ids
  <2>2. d.made
    <3>1. w.attached # << >>
      BY DEF Range
    <3> QED  BY <1>0, <1>14, <3>1 DEF Ids, SrvType
  <2>3. \A c \in Range(d.connectors) : c.first => d.attached # << >> /\ d.attached[1].sid = c.sid
    BY <1>0, <1>12, <1>14, <1>15 DEF Ids
  <2> QED  BY <2>1, <2>2, <2>3 DEF Ids
<1>21. OpenFor(d)
  BY <1>0, <1>4, <1>9, <1>14 DEF OpenFor, SameStack
<1> QED  BY <1>0, <1>8, <1>9, <1>14, <1>19, <1>20, <1>21 DEF Sane
\* A new connector, with the controller it may have made, before anything is tried.
NewConnector(w, s, c) ==
  Attach([w EXCEPT !.made = TRUE, !.sessions[s] = "waiting", !.connectors = Append(@, c)], s, TRUE)

LEMMA NewConnectorKeeps ==
  ASSUME NEW w, Sane(w), NEW s \in Sessions, w.sessions[s] \notin {"waiting", "connected"},
         NEW c \in ConnectorType, c.client = s, c.sid = w.nextID, c.first => ~w.made,
         NEW u, u = NewConnector(w, s, c)
  PROVE  /\ Sane(u) /\ c \in Range(u.connectors)
         /\ Range(u.connectors) = Range(w.connectors) \cup {c} /\ ConnectorHas(u, c.sid)
         /\ ~SessionHas(u, c.sid) /\ u.nextID = w.nextID + 1
         /\ u.active = w.active /\ u.status = w.status /\ u.stack = w.stack
         /\ u.isOpen = w.isOpen /\ u.loaded = w.loaded
<1>0. w \in SrvType /\ Agree(w) /\ Ids(w) /\ Queue(w) /\ OpenFor(w) /\ w.panicked = "no"
  BY DEF Sane
<1> DEFINE after == [w.sessions EXCEPT ![s] = "waiting"]
           more == Append(w.connectors, c)
           v == [w EXCEPT !.made = TRUE, !.sessions = after, !.connectors = more]
           a == [sid |-> w.nextID, client |-> s, connector |-> TRUE]
<1>1. after \in [Sessions -> SessionState] /\ more \in Seq(ConnectorType)
      /\ w.connectors \in Seq(ConnectorType) /\ w.sessions \in [Sessions -> SessionState]
      /\ w.nextID \in Nat /\ w.attached \in Seq(AttachedType)
  BY <1>0 DEF SrvType, SessionState
<1>2. Range(more) = Range(w.connectors) \cup {c}
  BY <1>1, AppendMembers
<1>3. \A x \in Sessions : after[x] = IF x = s THEN "waiting" ELSE w.sessions[x]
  BY <1>1
<1>4. u = Attach(v, s, TRUE)
  BY <1>0 DEF SrvType, NewConnector
<1> HIDE DEF after, more
<1>5. /\ v \in SrvType /\ v.connectors = more /\ v.made = TRUE /\ v.sessions = after
      /\ v.loaded = w.loaded /\ v.isOpen = w.isOpen /\ v.active = w.active
      /\ v.panicked = w.panicked /\ v.nextID = w.nextID /\ v.attached = w.attached
      /\ v.status = w.status /\ v.stack = w.stack /\ v.reader = w.reader
  BY <1>0, <1>1 DEF SrvType
<1> HIDE DEF v
<1>6. Queue(v)
  BY <1>0, <1>5, QueueOnly
<1>7. /\ u \in SrvType /\ u.connectors = more /\ u.made = TRUE
      /\ u.loaded = w.loaded /\ u.isOpen = w.isOpen /\ u.active = w.active
      /\ u.sessions = after /\ u.panicked = w.panicked /\ u.nextID = w.nextID + 1
      /\ u.status = w.status /\ u.stack = w.stack
      /\ u.attached = Append(w.attached, a) /\ Queue(u)
  <2>1. PICK b \in BOOLEAN : b = TRUE
    OBVIOUS
  <2>4. a = [sid |-> v.nextID, client |-> s, connector |-> b]
    BY <1>5, <2>1
  <2> HIDE DEF a
  <2>2. u = Attach(v, s, b)
    BY <1>4, <2>1
  <2>6. v \in SrvType /\ Queue(v) /\ s \in Sessions /\ b \in BOOLEAN
    BY <1>5, <1>6, <2>1
  <2>3. /\ u \in SrvType /\ u.connectors = v.connectors /\ u.made = v.made
        /\ u.loaded = v.loaded /\ u.isOpen = v.isOpen /\ u.active = v.active
        /\ u.sessions = v.sessions /\ u.panicked = v.panicked /\ u.nextID = v.nextID + 1
        /\ u.status = v.status /\ u.stack = v.stack /\ u.reader = v.reader
        /\ u.attached = Append(v.attached, [sid |-> v.nextID, client |-> s, connector |-> b])
        /\ Queue(u)
    BY <2>2, <2>6, AttachKeeps
  <2>5. u.attached = Append(w.attached, a)
    BY <1>5, <2>3, <2>4
  <2> QED  BY <1>5, <2>3, <2>5
<1>8. a.sid = w.nextID /\ a.client = s /\ a.connector
  OBVIOUS
<1> HIDE DEF a
<1>9. Range(u.attached) = Range(w.attached) \cup {a}
  BY <1>1, <1>7, AppendMembers
<1>19. /\ Len(w.attached) \in Nat /\ DOMAIN w.attached = 1 .. Len(w.attached)
       /\ DOMAIN u.attached = 1 .. Len(w.attached) + 1
       /\ u.attached[Len(w.attached) + 1] = a
       /\ \A i \in 1 .. Len(w.attached) : u.attached[i] = w.attached[i]
       /\ u.attached # << >> /\ u.attached[1] = IF w.attached = << >> THEN a ELSE w.attached[1]
  <2> DEFINE seq == w.attached  t == u.attached
  <2>1. seq \in Seq(AttachedType) /\ t = Append(seq, a)
    BY <1>1, <1>7
  <2> HIDE DEF seq, t
  <2>2. /\ Len(seq) \in Nat /\ DOMAIN seq = 1 .. Len(seq) /\ DOMAIN t = 1 .. Len(seq) + 1
        /\ t[Len(seq) + 1] = a /\ \A i \in 1 .. Len(seq) : t[i] = seq[i]
        /\ t # << >> /\ t[1] = IF seq = << >> THEN a ELSE seq[1]
    BY <2>1, AppendIs
  <2> QED  BY <2>2 DEF seq, t
<1>10. \A b \in Range(w.attached) : b.sid < w.nextID /\ b.sid # w.nextID /\ b.client # s
  <2> SUFFICES ASSUME NEW b \in Range(w.attached)
               PROVE  b.sid < w.nextID /\ b.sid # w.nextID /\ b.client # s
    OBVIOUS
  <2>1. b.sid \in Nat /\ b.sid < w.nextID
    <3>1. b \in AttachedType
      BY <1>1 DEF Range
    <3> QED  BY <1>0, <3>1 DEF Ids, AttachedType
  <2>2. ~b.connector => b.client # s
    BY <1>0 DEF Agree
  <2>3. b.connector => b.client # s
    BY <1>0 DEF Agree
  <2> QED  BY <1>1, <2>1, <2>2, <2>3
<1>11. Distinct(u.attached)
  <2> DEFINE n == Len(w.attached)
  <2>1. /\ n \in Nat /\ DOMAIN u.attached = 1 .. n + 1 /\ DOMAIN w.attached = 1 .. n
        /\ u.attached[n + 1] = a /\ \A i \in 1 .. n : u.attached[i] = w.attached[i]
    BY <1>19
  <2>2. \A i \in 1 .. n : w.attached[i] \in Range(w.attached)
    BY <2>1 DEF Range
  <2> HIDE DEF n
  <2> SUFFICES ASSUME NEW i \in 1 .. n + 1, NEW j \in 1 .. n + 1, i # j
               PROVE  /\ u.attached[i].sid # u.attached[j].sid
                      /\ u.attached[i].client # u.attached[j].client
    BY <2>1 DEF Distinct
  <2>6. Distinct(w.attached)
    BY <1>0 DEF Agree
  <2>8. \A k, l \in 1 .. n : k # l => /\ w.attached[k].sid # w.attached[l].sid
                                     /\ w.attached[k].client # w.attached[l].client
    BY <2>1, <2>6 DEF Distinct
  <2>3. CASE i \in 1 .. n /\ j \in 1 .. n
    <3>1. u.attached[i] = w.attached[i] /\ u.attached[j] = w.attached[j]
      BY <2>1, <2>3
    <3> QED  BY <2>3, <2>8, <3>1
  <2>4. CASE i \in 1 .. n /\ j = n + 1
    BY <1>8, <1>10, <2>1, <2>2, <2>4
  <2>5. CASE i = n + 1 /\ j \in 1 .. n
    BY <1>8, <1>10, <2>1, <2>2, <2>5
  <2>7. (i \in 1 .. n \/ i = n + 1) /\ (j \in 1 .. n \/ j = n + 1)
    BY <2>1
  <2> QED  BY <2>3, <2>4, <2>5, <2>7
<1>12. ASSUME NEW x \in Sessions
       PROVE  /\ u.sessions[x] = "waiting" <=> \E y \in Range(u.connectors) : y.client = x
              /\ u.sessions[x] = "connected" <=>
                   \E b \in Range(u.attached) : b.client = x /\ ~b.connector
  <2>1. /\ w.sessions[x] = "waiting" <=> \E y \in Range(w.connectors) : y.client = x
        /\ w.sessions[x] = "connected" <=> \E b \in Range(w.attached) : b.client = x /\ ~b.connector
    BY <1>0 DEF Agree
  <2>2. CASE x = s
    <3>3. u.sessions[x] = after[x] /\ after[x] = "waiting"
      BY <1>3, <1>7, <2>2
    <3>1. u.sessions[x] = "waiting" /\ u.sessions[x] # "connected"
      BY <3>3
    <3>2. \A b \in Range(u.attached) : b.client = x => b.connector
      BY <1>8, <1>9, <1>10, <2>2
    <3> QED  BY <1>2, <1>7, <2>2, <3>1, <3>2
  <2>3. CASE x # s
    <3>1. u.sessions[x] = w.sessions[x]
      BY <1>3, <1>7, <2>3
    <3>2. (\E y \in Range(u.connectors) : y.client = x) <=>
            \E y \in Range(w.connectors) : y.client = x
      BY <1>2, <1>7, <2>3
    <3>3. (\E b \in Range(u.attached) : b.client = x /\ ~b.connector) <=>
            \E b \in Range(w.attached) : b.client = x /\ ~b.connector
      BY <1>8, <1>9, <2>3
    <3> QED  BY <2>1, <3>1, <3>2, <3>3
  <2> QED  BY <2>2, <2>3
<1>13. ASSUME NEW x \in Range(u.connectors)
       PROVE  \E b \in Range(u.attached) : b.connector /\ b.client = x.client /\ b.sid = x.sid
  <2>1. CASE x = c
    BY <1>8, <1>9, <2>1
  <2>2. CASE x \in Range(w.connectors)
    BY <1>0, <1>9, <2>2 DEF Agree
  <2> QED  BY <1>2, <1>7, <2>1, <2>2
<1>14. ASSUME NEW b \in Range(u.attached), b.connector
       PROVE  \E x \in Range(u.connectors) : b.client = x.client /\ b.sid = x.sid
  <2>1. CASE b = a
    BY <1>2, <1>7, <1>8, <2>1
  <2>2. CASE b \in Range(w.attached)
    <3>1. PICK x \in Range(w.connectors) : b.client = x.client /\ b.sid = x.sid
      BY <1>0, <1>14, <2>2 DEF Agree
    <3> QED  BY <1>2, <1>7, <3>1
  <2> QED  BY <1>9, <2>1, <2>2
<1>15. Agree(u)
  BY <1>11, <1>12, <1>13, <1>14 DEF Agree
<1>16. Ids(u)
  <2>1. \A b \in Range(u.attached) : b.sid < u.nextID
    <3> SUFFICES ASSUME NEW b \in Range(u.attached) PROVE b.sid < u.nextID
      OBVIOUS
    <3>1. u.attached \in Seq(AttachedType)
      BY <1>7 DEF SrvType
    <3>4. b \in AttachedType
      BY <3>1 DEF Range
    <3>2. b.sid \in Nat
      BY <3>4 DEF AttachedType
    <3>3. b.sid < w.nextID \/ b.sid = w.nextID
      BY <1>8, <1>9, <1>10
    <3>5. u.nextID = w.nextID + 1 /\ w.nextID \in Nat
      BY <1>1, <1>7
    <3> QED  BY <3>2, <3>3, <3>5
  <2>2. ASSUME NEW x \in Range(u.connectors), x.first
        PROVE  u.attached # << >> /\ u.attached[1].sid = x.sid
    <3>1. u.attached # << >> /\ (w.attached = << >> => u.attached[1] = a)
          /\ (w.attached # << >> => u.attached[1] = w.attached[1])
      BY <1>19
    <3>2. CASE x = c
      <4>1. w.attached = << >>
        BY <1>0, <2>2, <3>2 DEF Ids
      <4> QED  BY <1>8, <3>1, <3>2, <4>1
    <3>3. CASE x \in Range(w.connectors)
      BY <1>0, <2>2, <3>1, <3>3 DEF Ids
    <3> QED  BY <1>2, <1>7, <3>2, <3>3
  <2> QED  BY <1>7, <2>1, <2>2 DEF Ids
<1>17. OpenFor(u)
  <2> SUFFICES ASSUME NEW x \in Sessions, u.sessions[x] = "connected"
               PROVE  u.isOpen \/ (u.status = "ok" /\ Opening(u))
    BY DEF OpenFor
  <2>1. u.sessions[x] = after[x]
    BY <1>7
  <2>2. w.sessions[x] = "connected"
    BY <1>3, <2>1
  <2>3. w.isOpen \/ (w.status = "ok" /\ Opening(w))
    BY <1>0, <2>2 DEF OpenFor
  <2> QED  BY <1>7, <2>3 DEF Opening
<1>18. ConnectorHas(u, c.sid) /\ ~SessionHas(u, c.sid)
  <2>1. \A b \in Range(u.attached) : b.sid = c.sid => b.connector
    BY <1>8, <1>9, <1>10
  <2>2. a \in Range(u.attached) /\ a.sid = c.sid /\ a.connector
    BY <1>8, <1>9
  <2> QED  BY <2>1, <2>2 DEF ConnectorHas, SessionHas
<1> QED  BY <1>0, <1>2, <1>7, <1>15, <1>16, <1>17, <1>18 DEF Sane
\* The reader is opened for a connector, if nobody uses it.
LEMMA InitialiseKeeps ==
  ASSUME NEW w, Sane(w), NEW s \in Sessions, NEW sid \in Nat, sid < w.nextID,
         ConnectorHas(w, sid), ~SessionHas(w, sid), NEW u, u = InitialiseReader(w, s, sid)
  PROVE  /\ Sane(u) /\ u.connectors = w.connectors
         /\ \/ u.status = w.status /\ u.stack = w.stack
            \/ w.status = "idle" /\ u.status = "pending"
<1>0. w \in SrvType /\ Agree(w) /\ Ids(w) /\ Queue(w) /\ OpenFor(w) /\ w.panicked = "no"
  BY DEF Sane
<1>1. CASE w.isOpen \/ w.active
  BY <1>1 DEF InitialiseReader
<1>2. CASE ~w.isOpen /\ ~w.active
  <2> DEFINE e == [msg |-> s, sid |-> sid, opens |-> TRUE, cancelled |-> FALSE, timer |-> FALSE]
  <2>1. u = Initiate(w, e)
    BY <1>2 DEF InitialiseReader
  <2>2. e \in EntryType /\ e.opens /\ e.sid = sid /\ ~e.cancelled
    BY DEF EntryType
  <2> HIDE DEF e
  <2>3. w.stack = << >> /\ w.status = "idle"
    BY <1>0, <1>2 DEF Queue, SrvType
  <2>4. <<e>> \o w.stack = <<e>> /\ <<e>> \in Seq(EntryType)
    BY <2>2, <2>3
  <2>5. /\ u.connectors = w.connectors /\ u.made = w.made /\ u.loaded = w.loaded
        /\ u.isOpen = w.isOpen /\ u.active = TRUE /\ u.status = "pending"
        /\ u.nextID = w.nextID /\ u.attached = w.attached /\ u.stack = <<e>>
        /\ u.reader = "open" /\ u.sessions = w.sessions /\ u.commands = w.commands
        /\ u.panicked = w.panicked
    BY <1>0, <2>1, <2>2, <2>4 DEF Initiate, SrvType
  <2>6. u \in SrvType
    <3>1. u = [connectors |-> w.connectors, made |-> w.made, loaded |-> w.loaded,
               isOpen |-> w.isOpen, active |-> TRUE, status |-> "pending",
               nextID |-> w.nextID, attached |-> w.attached, stack |-> <<e>>,
               reader |-> "open", sessions |-> w.sessions, commands |-> w.commands,
               panicked |-> w.panicked]
      BY <1>0, <2>1, <2>2, <2>4 DEF Initiate, SrvType
    <3> QED  BY <1>0, <2>4, <3>1 DEF SrvType
  <2>7. Opening(u)
    BY <2>2, <2>5 DEF Opening
  <2>8. \A x : (SessionHas(u, x) <=> SessionHas(w, x))
               /\ (ConnectorHas(u, x) <=> ConnectorHas(w, x))
    BY <2>5 DEF SessionHas, ConnectorHas
  <2>9. ASSUME NEW i \in DOMAIN u.stack PROVE Entry(u, u.stack[i], i)
    <3>1. i = 1 /\ u.stack[i] = e
      BY <2>5
    <3> QED  BY <1>2, <2>2, <2>5, <2>8, <3>1 DEF Entry
  <2>10. Queue(u)
    BY <2>5, <2>7, <2>9 DEF Queue
  <2>11. w.made
    <3>1. w.attached # << >>
      BY DEF ConnectorHas, Range
    <3> QED  BY <1>0, <3>1 DEF Ids, SrvType
  <2>12. Agree(u) /\ Ids(u)
    BY <1>0, <2>5, <2>11 DEF Agree, Ids
  <2>13. OpenFor(u)
    BY <1>0, <1>2, <2>3, <2>5 DEF OpenFor
  <2> QED  BY <1>0, <2>3, <2>5, <2>6, <2>10, <2>12, <2>13 DEF Sane
<1> QED  BY <1>1, <1>2

\* EScardServerConnectToReader: the connector is done at once, or waits.
LEMMA ConnectStep ==
  ASSUME Kept, NEW s \in Sessions, NEW q \in Limits, Connect(s, q)
  PROVE  Kept'
<1>0. /\ Sane(srv) /\ srv \in SrvType /\ Agree(srv) /\ Ids(srv) /\ Queue(srv) /\ OpenFor(srv)
      /\ srv.panicked = "no" /\ NoticeFits
  BY DEF Kept, Sane
<1>1. notice' = notice
  BY DEF Connect
<1> DEFINE sid == srv.nextID
           c == [client |-> s, sid |-> sid, newCard |-> q.newCard, timed |-> q.timed,
                 first |-> ~srv.made]
           new == NewConnector(srv, s, c)
           ready == [new EXCEPT !.loaded = TRUE]
<1>2. srv.sessions[s] \notin {"waiting", "connected"}
  BY DEF Connect
<1>3. \/ srv' = [srv EXCEPT !.sessions[s] = "refused"]
      \/ srv' = ConnectionDone(new, c, "failed")
      \/ srv.isOpen /\ srv' = ConnectionDone(ready, c, "connected")
      \/ srv.isOpen /\ srv' = ConnectionDone(ready, c, "refused")
      \/ srv' = InitialiseReader(ready, s, sid)
  BY DEF Connect, NewConnector
<1>4. c \in ConnectorType /\ c.client = s /\ c.sid = srv.nextID /\ (c.first => ~srv.made)
  BY <1>0, LimitsAssumption DEF ConnectorType, SrvType, LimitType
<1>5. srv.nextID \in Nat /\ sid = srv.nextID
  BY <1>0 DEF SrvType
<1> HIDE DEF c
<1>6. /\ Sane(new) /\ c \in Range(new.connectors)
      /\ Range(new.connectors) = Range(srv.connectors) \cup {c} /\ ConnectorHas(new, c.sid)
      /\ ~SessionHas(new, c.sid) /\ new.nextID = srv.nextID + 1
      /\ new.active = srv.active /\ new.status = srv.status /\ new.stack = srv.stack
      /\ new.isOpen = srv.isOpen /\ new.loaded = srv.loaded
  <2>1. new = NewConnector(srv, s, c)
    OBVIOUS
  <2> HIDE DEF new
  <2> QED  BY <1>0, <1>2, <1>4, <2>1, NewConnectorKeeps
<1> HIDE DEF new
<1>7. /\ ready.connectors = new.connectors /\ ready.made = new.made /\ ready.isOpen = new.isOpen
      /\ ready.active = new.active /\ ready.status = new.status /\ ready.nextID = new.nextID
      /\ ready.attached = new.attached /\ ready.stack = new.stack /\ ready.reader = new.reader
      /\ ready.sessions = new.sessions /\ ready.panicked = new.panicked
      /\ ready \in SrvType
  BY <1>6 DEF Sane, SrvType
<1> HIDE DEF ready
<1>8. Sane(ready)
  <2>1. Queue(ready) /\ Agree(ready) /\ Ids(ready)
    BY <1>6, <1>7, QueueOnly, AgreeOnly DEF Sane
  <2> QED  BY <1>6, <1>7, <2>1 DEF Sane, OpenFor, Opening
<1>9. Spares(new, c.sid) /\ Spares(ready, c.sid)
  <2> SUFFICES ASSUME Opening(srv), srv.stack[1].sid = srv.nextID PROVE FALSE
    BY <1>4, <1>6, <1>7 DEF Spares, Opening
  <2>1. srv.stack \in Seq(EntryType) /\ 1 \in DOMAIN srv.stack
    BY <1>0 DEF SrvType, Opening
  <2>3. srv.stack[1] \in EntryType /\ Entry(srv, srv.stack[1], 1)
    BY <1>0, <2>1 DEF Queue
  <2>2. srv.stack[1].sid \in Nat /\ srv.stack[1].sid < srv.nextID
    BY <2>3 DEF Entry, EntryType
  <2> QED  BY <1>5, <2>2
<1>10. (Opening(new) <=> Opening(srv)) /\ (Opening(ready) <=> Opening(srv))
  BY <1>6, <1>7 DEF Opening
<1>11. ASSUME srv.status = "ok", Opening(srv) PROVE ~c.first
  BY <1>0, <1>4, <1>11 DEF Queue, Ids
<1>12. CASE srv' = [srv EXCEPT !.sessions[s] = "refused"]
  <2> DEFINE after == [srv.sessions EXCEPT ![s] = "refused"]
  <2>1. after \in [Sessions -> SessionState]
        /\ \A x \in Sessions : after[x] = IF x = s THEN "refused" ELSE srv.sessions[x]
    BY <1>0 DEF SrvType, SessionState
  <2>2. srv' = [srv EXCEPT !.sessions = after]
    BY <1>0, <1>12 DEF SrvType
  <2> HIDE DEF after
  <2>3. /\ srv'.connectors = srv.connectors /\ srv'.made = srv.made /\ srv'.isOpen = srv.isOpen
        /\ srv'.active = srv.active /\ srv'.status = srv.status /\ srv'.nextID = srv.nextID
        /\ srv'.attached = srv.attached /\ srv'.stack = srv.stack /\ srv'.reader = srv.reader
        /\ srv'.sessions = after /\ srv'.panicked = srv.panicked
        /\ srv' \in SrvType
    BY <1>0, <2>1, <2>2 DEF SrvType
  <2>4. Queue(srv') /\ (Opening(srv') <=> Opening(srv))
    BY <1>0, <2>3, QueueOnly
  <2>5. Ids(srv')
    BY <1>0, <2>3 DEF Ids
  <2>6. ASSUME NEW x \in Sessions
        PROVE  /\ after[x] = "waiting" <=> srv.sessions[x] = "waiting"
               /\ after[x] = "connected" <=> srv.sessions[x] = "connected"
    BY <1>2, <2>1
  <2>7. Agree(srv')
    BY <1>0, <2>3, <2>6 DEF Agree
  <2>8. OpenFor(srv')
    BY <1>0, <2>3, <2>4, <2>6 DEF OpenFor
  <2>9. NoticeFits'
    BY <1>0, <1>1, <2>3, <2>4, NoticeKept
  <2> QED  BY <1>0, <2>3, <2>4, <2>5, <2>7, <2>8, <2>9 DEF Kept, Sane, Opening
<1>13. ASSUME NEW w \in {new, ready}, NEW why \in {"connected", "refused", "failed"},
              why = "connected" => srv.isOpen, srv' = ConnectionDone(w, c, why)
       PROVE  Kept'
  <2>1. /\ Sane(w) /\ c \in Range(w.connectors) /\ Spares(w, c.sid) /\ w.isOpen = srv.isOpen
        /\ w.status = srv.status /\ (Opening(w) <=> Opening(srv))
        /\ Range(w.connectors) = Range(srv.connectors) \cup {c}
    BY <1>6, <1>7, <1>8, <1>9, <1>10
  <2>2. Sane(srv') /\ Served(w, srv', c)
    <3>1. PICK d : d = srv'
      OBVIOUS
    <3>2. Sane(d) /\ Served(w, d, c)
      BY <1>13, <2>1, <3>1, DoneKeeps
    <3> QED  BY <3>1, <3>2
  <2>3. NoticeFits'
    BY <1>0, <1>1, <2>1, <2>2, NoticeKept DEF Served, SameStack
  <2> QED  BY <2>2, <2>3 DEF Kept, Sane
<1>14. CASE srv' = InitialiseReader(ready, s, sid)
  <2>1. /\ Sane(srv') /\ srv'.connectors = ready.connectors
        /\ \/ srv'.status = ready.status /\ srv'.stack = ready.stack
           \/ ready.status = "idle" /\ srv'.status = "pending"
    <3>1. PICK d : d = srv'
      OBVIOUS
    <3>3. sid \in Nat /\ sid < ready.nextID /\ ConnectorHas(ready, sid) /\ ~SessionHas(ready, sid)
      BY <1>4, <1>5, <1>6, <1>7 DEF ConnectorHas, SessionHas
    <3> HIDE DEF sid
    <3>2. /\ Sane(d) /\ d.connectors = ready.connectors
          /\ \/ d.status = ready.status /\ d.stack = ready.stack
             \/ ready.status = "idle" /\ d.status = "pending"
      BY <1>8, <1>14, <3>1, <3>3, InitialiseKeeps
    <3> QED  BY <3>1, <3>2
  <2>2. NoticeFits'
    BY <1>0, <1>1, <1>6, <1>7, <1>11, <2>1, NoticeKept DEF Opening
  <2> QED  BY <2>1, <2>2 DEF Kept, Sane
<1> QED  BY <1>3, <1>12, <1>13, <1>14

\* A command of a connected client is queued, or sent when nobody uses the reader.
LEMMA TransmitStep ==
  ASSUME Kept, NEW s \in Sessions, Transmit(s)
  PROVE  Kept'
<1>0. /\ Sane(srv) /\ srv \in SrvType /\ Agree(srv) /\ Ids(srv) /\ Queue(srv) /\ OpenFor(srv)
      /\ srv.panicked = "no" /\ NoticeFits
  BY DEF Kept, Sane
<1> DEFINE i == CHOOSE j \in DOMAIN srv.attached :
                  srv.attached[j].client = s /\ ~srv.attached[j].connector
           e == [msg |-> s, sid |-> srv.attached[i].sid, opens |-> FALSE, cancelled |-> FALSE,
                 timer |-> FALSE]
           asked == [srv EXCEPT !.commands = @ \cup {s}]
<1>1. srv.sessions[s] = "connected" /\ notice' = notice
      /\ srv' = IF srv.active THEN [asked EXCEPT !.stack = Append(@, e)] ELSE Initiate(asked, e)
  BY DEF Transmit
<1>2. i \in DOMAIN srv.attached /\ srv.attached[i].client = s /\ ~srv.attached[i].connector
  <2>1. \E j \in DOMAIN srv.attached : srv.attached[j].client = s /\ ~srv.attached[j].connector
    BY <1>0, <1>1 DEF Agree, Range
  <2> QED  BY <2>1
<1> HIDE DEF i
<1>3. srv.attached[i] \in Range(srv.attached) /\ srv.attached[i] \in AttachedType
  BY <1>0, <1>2 DEF SrvType, Range
<1>4. e \in EntryType /\ ~e.opens /\ ~e.cancelled /\ e.sid = srv.attached[i].sid /\ e.sid \in Nat
  BY <1>3 DEF EntryType, AttachedType
<1>5. SessionHas(srv, e.sid) /\ e.sid < srv.nextID
  BY <1>0, <1>2, <1>3, <1>4 DEF SessionHas, Ids
<1> HIDE DEF e
<1>6. srv.commands \cup {s} \in SUBSET Sessions /\ srv.stack \in Seq(EntryType)
  BY <1>0 DEF SrvType
<1>7. srv.isOpen \/ (srv.status = "ok" /\ Opening(srv))
  BY <1>0, <1>1 DEF OpenFor
<1>8. CASE srv.active
  <2> DEFINE more == Append(srv.stack, e)
  <2>1. /\ srv'.connectors = srv.connectors /\ srv'.made = srv.made /\ srv'.isOpen = srv.isOpen
        /\ srv'.active = srv.active /\ srv'.status = srv.status /\ srv'.nextID = srv.nextID
        /\ srv'.attached = srv.attached /\ srv'.stack = more /\ srv'.reader = srv.reader
        /\ srv'.sessions = srv.sessions /\ srv'.panicked = srv.panicked
    BY <1>0, <1>1, <1>8 DEF SrvType
  <2>2. srv' \in SrvType
    <3>1. srv' = [srv EXCEPT !.commands = srv.commands \cup {s}, !.stack = more]
      BY <1>0, <1>1, <1>8 DEF SrvType
    <3>2. more \in Seq(EntryType)
      BY <1>4, <1>6
    <3> HIDE DEF more
    <3> QED  BY <1>0, <1>6, <3>1, <3>2 DEF SrvType
  <2>3. /\ Len(srv.stack) \in Nat /\ DOMAIN srv.stack = 1 .. Len(srv.stack)
        /\ DOMAIN more = 1 .. Len(srv.stack) + 1
        /\ more[Len(srv.stack) + 1] = e /\ \A k \in 1 .. Len(srv.stack) : more[k] = srv.stack[k]
        /\ more # << >> /\ more[1] = IF srv.stack = << >> THEN e ELSE srv.stack[1]
    <3>1. more = Append(srv.stack, e)
      OBVIOUS
    <3> HIDE DEF more
    <3> QED  BY <1>6, <3>1, AppendIs
  <2> HIDE DEF more
  <2>4. srv.stack # << >>
    BY <1>0, <1>8 DEF Queue
  <2>5. Opening(srv') <=> Opening(srv)
    BY <2>1, <2>3, <2>4 DEF Opening
  <2>6. \A x : (SessionHas(srv', x) <=> SessionHas(srv, x))
               /\ (ConnectorHas(srv', x) <=> ConnectorHas(srv, x))
    BY <2>1 DEF SessionHas, ConnectorHas
  <2>7. ASSUME NEW k \in DOMAIN srv'.stack PROVE Entry(srv', srv'.stack[k], k)
    <3>1. CASE k \in DOMAIN srv.stack
      <4>1. srv'.stack[k] = srv.stack[k] /\ Entry(srv, srv.stack[k], k)
        BY <1>0, <2>1, <2>3, <3>1 DEF Queue
      <4> QED  BY <2>1, <2>5, <2>6, <4>1 DEF Entry
    <3>2. CASE k \notin DOMAIN srv.stack
      <4>1. srv'.stack[k] = e
        BY <2>1, <2>3, <3>2
      <4> QED  BY <1>4, <1>5, <1>7, <2>1, <2>5, <2>6, <4>1 DEF Entry
    <3> QED  BY <3>1, <3>2
  <2>8. Queue(srv')
    BY <1>0, <1>8, <2>1, <2>3, <2>5, <2>7 DEF Queue
  <2>9. Agree(srv') /\ Ids(srv')
    BY <1>0, <2>1 DEF Agree, Ids
  <2>10. OpenFor(srv')
    BY <1>0, <2>1, <2>5 DEF OpenFor
  <2>11. NoticeFits'
    BY <1>0, <1>1, <2>1, <2>5, NoticeKept
  <2> QED  BY <1>0, <2>1, <2>2, <2>8, <2>9, <2>10, <2>11 DEF Kept, Sane
<1>9. CASE ~srv.active
  <2>1. srv.stack = << >> /\ srv.status = "idle" /\ srv.isOpen
    BY <1>0, <1>7, <1>9 DEF Queue
  <2>2. <<e>> \o srv.stack = <<e>> /\ <<e>> \in Seq(EntryType)
    BY <1>4, <2>1
  <2>3. srv' = [connectors |-> srv.connectors, made |-> srv.made, loaded |-> srv.loaded,
                isOpen |-> srv.isOpen, active |-> TRUE, status |-> "pending",
                nextID |-> srv.nextID, attached |-> srv.attached, stack |-> <<e>>,
                reader |-> "command", sessions |-> srv.sessions,
                commands |-> srv.commands \cup {s}, panicked |-> srv.panicked]
    BY <1>0, <1>1, <1>4, <1>9, <2>2 DEF Initiate, SrvType
  <2>4. srv' \in SrvType
    BY <1>0, <1>6, <2>2, <2>3 DEF SrvType
  <2>5. /\ srv'.connectors = srv.connectors /\ srv'.made = srv.made /\ srv'.isOpen = srv.isOpen
        /\ srv'.active = TRUE /\ srv'.status = "pending" /\ srv'.nextID = srv.nextID
        /\ srv'.attached = srv.attached /\ srv'.stack = <<e>> /\ srv'.reader = "command"
        /\ srv'.sessions = srv.sessions /\ srv'.panicked = srv.panicked
    BY <2>3
  <2>6. ~Opening(srv')
    BY <1>4, <2>5 DEF Opening
  <2>7. SessionHas(srv', e.sid)
    BY <1>5, <2>5 DEF SessionHas
  <2>8. ASSUME NEW k \in DOMAIN srv'.stack PROVE Entry(srv', srv'.stack[k], k)
    <3>1. k = 1 /\ srv'.stack[k] = e
      BY <2>5
    <3> QED  BY <1>4, <1>5, <2>1, <2>5, <2>7, <3>1 DEF Entry
  <2>9. Queue(srv')
    BY <2>5, <2>6, <2>8 DEF Queue
  <2>10. srv.made
    <3>1. srv.attached # << >>
      BY <1>2
    <3> QED  BY <1>0, <3>1 DEF Ids, SrvType
  <2>11. Agree(srv') /\ Ids(srv')
    BY <1>0, <2>5, <2>10 DEF Agree, Ids
  <2>12. OpenFor(srv')
    BY <2>1, <2>5 DEF OpenFor
  <2>13. NoticeFits'
    BY <1>0, <1>1, <2>1, <2>5, NoticeKept
  <2> QED  BY <1>0, <2>4, <2>5, <2>9, <2>11, <2>12, <2>13 DEF Kept, Sane
<1> QED  BY <1>8, <1>9

\* A client that disconnects leaves the reader.
LEMMA DisconnectStep ==
  ASSUME Kept, NEW s \in Sessions, Disconnect(s)
  PROVE  Kept'
<1>1. PICK i \in DOMAIN srv.attached :
        /\ srv.attached[i].client = s
        /\ srv' = Detach(Leaving(srv, s, "idle"), srv.attached[i].sid)
  BY DEF Disconnect, Leaving
<1>2. srv.sessions[s] = "connected" /\ notice' = notice /\ Sane(srv) /\ NoticeFits
  BY DEF Disconnect, Kept
<1>3. PICK d, a : d = srv' /\ a = srv.attached[i]
  OBVIOUS
<1>4. a \in Range(srv.attached) /\ a.client = s
  BY <1>1, <1>3 DEF Range
<1>5. Sane(d) /\ d.connectors = srv.connectors /\ SameStack(srv, d)
  BY <1>1, <1>2, <1>3, <1>4, LeaveKeeps
<1>6. NoticeFits'
  BY <1>2, <1>3, <1>5, NoticeKept DEF SameStack
<1> QED  BY <1>3, <1>5, <1>6 DEF Kept, Sane

\* A connected client cancels its commands; it has no connector.
LEMMA CancelTransmitStep ==
  ASSUME Kept, NEW s \in Sessions, srv.sessions[s] # "waiting", CancelTransmit(s)
  PROVE  Kept'
<1>0. /\ Sane(srv) /\ srv \in SrvType /\ Agree(srv) /\ Ids(srv) /\ Queue(srv) /\ OpenFor(srv)
      /\ srv.panicked = "no" /\ NoticeFits
  BY DEF Kept, Sane
<1>1. \A i \in DOMAIN srv.connectors : srv.connectors[i].client # s
  BY <1>0 DEF Agree, Range
<1>2. srv.sessions[s] = "connected" /\ notice' = notice
  BY <1>1 DEF CancelTransmit
<1>3. PICK i \in DOMAIN srv.attached :
        srv.attached[i].client = s /\ srv' = CancelTransmissions(srv, srv.attached[i].sid)
  BY <1>1 DEF CancelTransmit
<1>4. PICK u, a : u = srv' /\ a = srv.attached[i]
  OBVIOUS
<1>5. a \in Range(srv.attached) /\ a.client = s
  BY <1>3, <1>4 DEF Range
<1>6. a.sid \in Nat /\ Spares(srv, a.sid)
  BY <1>0, <1>2, <1>5, ConnectedAlone DEF Spares
<1>7. /\ u \in SrvType /\ SameRest(srv, u) /\ u.attached = srv.attached
      /\ Queue(u) /\ SameStack(srv, u)
  BY <1>0, <1>3, <1>4, <1>6, CancelTransmissionsKeeps
<1>8. Agree(u) /\ Ids(u)
  BY <1>0, <1>7, AgreeOnly DEF SameRest
<1>9. OpenFor(u)
  BY <1>0, <1>7 DEF OpenFor, SameRest, SameStack
<1>10. Sane(u)
  BY <1>0, <1>7, <1>8, <1>9 DEF Sane, SameRest
<1>11. NoticeFits'
  BY <1>0, <1>2, <1>4, <1>7, NoticeKept DEF SameStack, SameRest
<1> QED  BY <1>4, <1>10, <1>11 DEF Kept, Sane

\* A client that closes its session leaves the reader if it is connected.
LEMMA CloseSessionStep ==
  ASSUME Kept, NEW s \in Sessions, srv.sessions[s] # "waiting", CloseSession(s)
  PROVE  Kept'
<1>0. /\ Sane(srv) /\ srv \in SrvType /\ Agree(srv) /\ Ids(srv) /\ Queue(srv) /\ OpenFor(srv)
      /\ srv.panicked = "no" /\ NoticeFits
  BY DEF Kept, Sane
<1>1. notice' = notice
  BY DEF CloseSession
<1> DEFINE gone == [srv EXCEPT !.sessions[s] = "gone"]
<1>2. CASE srv.sessions[s] = "connected"
  <2> DEFINE i == CHOOSE j \in DOMAIN srv.attached : srv.attached[j].client = s
  <2>1. srv' = Detach(gone, srv.attached[i].sid)
    BY <1>2 DEF CloseSession
  <2>2. i \in DOMAIN srv.attached /\ srv.attached[i].client = s
    <3>1. \E j \in DOMAIN srv.attached : srv.attached[j].client = s
      BY <1>0, <1>2 DEF Agree, Range
    <3> QED  BY <3>1
  <2> HIDE DEF i
  <2>3. PICK d, a : d = srv' /\ a = srv.attached[i]
    OBVIOUS
  <2>4. a \in Range(srv.attached) /\ a.client = s
    BY <2>2, <2>3 DEF Range
  <2>5. Sane(d) /\ d.connectors = srv.connectors /\ SameStack(srv, d)
    <3>1. Sane(srv) /\ d = Detach(Leaving(srv, s, "gone"), a.sid)
      BY <1>0, <2>1, <2>3 DEF Leaving
    <3> HIDE DEF gone
    <3> QED  BY <1>2, <2>4, <3>1, LeaveKeeps
  <2>6. NoticeFits'
    BY <1>0, <1>1, <2>3, <2>5, NoticeKept DEF SameStack
  <2> QED  BY <2>3, <2>5, <2>6 DEF Kept, Sane
<1>3. CASE srv.sessions[s] # "connected"
  <2>1. srv' = gone
    BY <1>3 DEF CloseSession
  <2> DEFINE after == [srv.sessions EXCEPT ![s] = "gone"]
  <2>2. after \in [Sessions -> SessionState]
        /\ \A x \in Sessions : after[x] = IF x = s THEN "gone" ELSE srv.sessions[x]
    BY <1>0 DEF SrvType, SessionState
  <2>3. srv' = [srv EXCEPT !.sessions = after]
    BY <1>0, <2>1 DEF SrvType
  <2> HIDE DEF after
  <2>4. /\ srv'.connectors = srv.connectors /\ srv'.made = srv.made /\ srv'.isOpen = srv.isOpen
        /\ srv'.active = srv.active /\ srv'.status = srv.status /\ srv'.nextID = srv.nextID
        /\ srv'.attached = srv.attached /\ srv'.stack = srv.stack /\ srv'.reader = srv.reader
        /\ srv'.sessions = after /\ srv'.panicked = srv.panicked
        /\ srv' \in SrvType
    BY <1>0, <2>2, <2>3 DEF SrvType
  <2>5. Queue(srv') /\ (Opening(srv') <=> Opening(srv))
    BY <1>0, <2>4, QueueOnly
  <2>6. Ids(srv')
    BY <1>0, <2>4 DEF Ids
  <2>7. ASSUME NEW x \in Sessions
        PROVE  /\ after[x] = "waiting" <=> srv.sessions[x] = "waiting"
               /\ after[x] = "connected" <=> srv.sessions[x] = "connected"
    BY <1>3, <2>2
  <2>8. Agree(srv')
    BY <1>0, <2>4, <2>7 DEF Agree
  <2>9. OpenFor(srv')
    BY <1>0, <2>4, <2>5, <2>7 DEF OpenFor
  <2>10. NoticeFits'
    BY <1>0, <1>1, <2>4, <2>5, NoticeKept
  <2> QED  BY <1>0, <2>4, <2>5, <2>6, <2>8, <2>9, <2>10 DEF Kept, Sane
<1> QED  BY <1>2, <1>3

-----------------------------------------------------------------------------
(* What the server and the card do. *)

\* A time-out cancels the controller: it cannot run between the success of an opening and
\* its note, because only the first connector's timer stands before the controller, and
\* that connector has been told of the card.
LEMMA TimeOutStep ==
  ASSUME Kept, NEW s \in Sessions, TimeOut(s)
  PROVE  Kept'
<1>0. /\ Sane(srv) /\ srv \in SrvType /\ Agree(srv) /\ Ids(srv) /\ Queue(srv) /\ OpenFor(srv)
      /\ srv.panicked = "no" /\ NoticeFits
  BY DEF Kept, Sane
<1>1. PICK i \in DOMAIN srv.connectors :
        /\ TimerIsNext(srv.connectors[i])
        /\ srv' = ConnectionDone(CancelController(srv), srv.connectors[i], "timeout")
  BY DEF TimeOut
<1>2. notice = "none" /\ notice' = "none"
  BY DEF TimeOut
<1>3. PICK c, w, d : c = srv.connectors[i] /\ w = CancelController(srv) /\ d = srv'
  OBVIOUS
<1>4. c \in Range(srv.connectors)
  BY <1>3 DEF Range
<1>5. /\ Sane(w) /\ w.connectors = srv.connectors /\ w.stack = << >>
      /\ w.status = "idle"
  <2>1. CASE srv.status = "idle"
    BY <1>0, <1>3, <2>1 DEF CancelController, Queue, SrvType
  <2>2. CASE srv.status # "idle"
    <3>1. w = [connectors |-> srv.connectors, made |-> srv.made, loaded |-> srv.loaded,
               isOpen |-> srv.isOpen, active |-> FALSE, status |-> "idle",
               nextID |-> srv.nextID, attached |-> srv.attached, stack |-> << >>,
               reader |-> "idle", sessions |-> srv.sessions,
               commands |-> srv.commands \ CommandsAt(srv.stack, DOMAIN srv.stack),
               panicked |-> srv.panicked]
      BY <1>0, <1>3, <2>2 DEF CancelController, SrvType
    <3>2. w \in SrvType
      <4> DEFINE left == srv.commands \ CommandsAt(srv.stack, DOMAIN srv.stack)
      <4>1. left \in SUBSET Sessions
        BY <1>0 DEF SrvType
      <4> HIDE DEF left
      <4> QED  BY <1>0, <3>1, <4>1 DEF SrvType, left
    <3>3. /\ w.connectors = srv.connectors /\ w.made = srv.made /\ w.isOpen = srv.isOpen
          /\ w.active = FALSE /\ w.status = "idle" /\ w.nextID = srv.nextID
          /\ w.attached = srv.attached /\ w.stack = << >> /\ w.reader = "idle"
          /\ w.sessions = srv.sessions /\ w.panicked = srv.panicked
      BY <3>1
    <3>4. Queue(w)
      BY <3>3 DEF Queue
    <3>5. Agree(w) /\ Ids(w)
      BY <1>0, <3>3, AgreeOnly
    <3>6. ~(srv.status = "ok" /\ Opening(srv))
      BY <1>0, <1>1, <1>2, <1>3, <1>4 DEF TimerIsNext, NoticeFits
    <3>7. OpenFor(w)
      BY <1>0, <3>3, <3>6 DEF OpenFor
    <3> QED  BY <1>0, <3>2, <3>3, <3>4, <3>5, <3>7 DEF Sane
  <2> QED  BY <2>1, <2>2
<1>6. Spares(w, c.sid)
  BY <1>5 DEF Spares, Opening
<1>7. Sane(d) /\ Served(w, d, c)
  BY <1>1, <1>3, <1>4, <1>5, <1>6, DoneKeeps
<1>8. d.status = "idle"
  BY <1>5, <1>7 DEF Served, SameStack
<1>9. NoticeFits'
  BY <1>2, <1>3, <1>8 DEF NoticeFits
<1> QED  BY <1>3, <1>7, <1>9 DEF Kept, Sane

\* The reader completes what it works on.
LEMMA ReaderAnswersStep == ASSUME Kept, ReaderAnswers PROVE Kept'
<1>0. /\ Sane(srv) /\ srv \in SrvType /\ Agree(srv) /\ Ids(srv) /\ Queue(srv) /\ OpenFor(srv)
      /\ srv.panicked = "no" /\ NoticeFits
  BY DEF Kept, Sane
<1>1. PICK ok \in BOOLEAN :
        /\ srv' = [srv EXCEPT !.reader = "idle", !.status = IF ok THEN "ok" ELSE "error"]
        /\ notice' = IF srv.reader = "command" THEN "none" ELSE Announced(ok)
  BY DEF ReaderAnswers
<1>2. srv.status = "pending" /\ (srv.reader = "open" <=> Opening(srv)) /\ srv.active
      /\ srv.reader \in {"open", "command"}
  BY <1>0 DEF ReaderAnswers, Queue, SrvType
<1>3. /\ srv'.connectors = srv.connectors /\ srv'.made = srv.made /\ srv'.isOpen = srv.isOpen
      /\ srv'.active = srv.active /\ srv'.status = (IF ok THEN "ok" ELSE "error")
      /\ srv'.nextID = srv.nextID
      /\ srv'.attached = srv.attached /\ srv'.stack = srv.stack /\ srv'.reader = "idle"
      /\ srv'.sessions = srv.sessions /\ srv'.panicked = srv.panicked
      /\ srv' \in SrvType
  BY <1>0, <1>1 DEF SrvType
<1>4. Opening(srv') <=> Opening(srv)
  BY <1>3 DEF Opening
<1>5. \A x : (SessionHas(srv', x) <=> SessionHas(srv, x))
             /\ (ConnectorHas(srv', x) <=> ConnectorHas(srv, x))
  BY <1>3 DEF SessionHas, ConnectorHas
<1>6. ASSUME NEW k \in DOMAIN srv'.stack PROVE Entry(srv', srv'.stack[k], k)
  <2>1. Entry(srv, srv'.stack[k], k)
    BY <1>0, <1>3 DEF Queue
  <2> QED  BY <1>2, <1>3, <1>5, <2>1 DEF Entry
<1>7. Queue(srv')
  BY <1>0, <1>2, <1>3, <1>4, <1>6 DEF Queue
<1>8. Agree(srv') /\ Ids(srv')
  BY <1>0, <1>3 DEF Agree, Ids
<1>9. OpenFor(srv')
  BY <1>0, <1>2, <1>3 DEF OpenFor
<1>10. NoticeFits'
  BY <1>1, <1>2, <1>3, <1>4 DEF NoticeFits, Announced, Opening
<1> QED  BY <1>0, <1>3, <1>7, <1>8, <1>9, <1>10 DEF Kept, Sane

\* The card goes: only the notifier is completed.
LEMMA CardRemovedStep == ASSUME Kept, CardRemoved PROVE Kept'
BY DEF Kept, CardRemoved, NoticeFits, Opening, Sane, Agree, Distinct, Ids, Queue, Entry, OpenFor,
       SessionHas, ConnectorHas

\* The notifier tells the sessions of a card, or purges the commands.
LEMMA NotifierStep == ASSUME Kept, NotifierRunL PROVE Kept'
<1>0. /\ Sane(srv) /\ srv \in SrvType /\ Agree(srv) /\ Ids(srv) /\ Queue(srv) /\ OpenFor(srv)
      /\ srv.panicked = "no" /\ NoticeFits
  BY DEF Kept, Sane
<1>1. PICK d : d = srv'
  OBVIOUS
<1>2. CASE notice = "inserted"
  <2>1. Opened(srv) /\ d = CardInserted /\ notice' = "none"
    BY <1>0, <1>1, <1>2 DEF NoticeFits, Opened, NotifierRunL
  <2>2. Opened(d) /\ \A x \in Range(d.connectors) : ~x.first
    BY <2>1, CardInsertedKeeps
  <2>3. NoticeFits'
    BY <1>1, <2>1, <2>2 DEF NoticeFits
  <2> QED  BY <1>1, <2>2, <2>3 DEF Kept, Opened, Sane
<1>3. CASE notice # "inserted"
  <2> DEFINE hits == {i \in DOMAIN srv.stack : ~srv.stack[i].opens}
  <2>1. d = Purged /\ notice' = "none"
    BY <1>1, <1>3 DEF NotifierRunL
  <2>2. hits \in SUBSET DOMAIN srv.stack /\ srv.stack \in Seq(EntryType)
    BY <1>0 DEF SrvType
  <2>3. AfterCancel(srv.stack, hits) \in Seq(EntryType)
    BY <2>2, CancelLeaves
  <2>4. d = [connectors |-> srv.connectors, made |-> srv.made, loaded |-> srv.loaded,
             isOpen |-> srv.isOpen, active |-> srv.active, status |-> srv.status,
             nextID |-> srv.nextID, attached |-> srv.attached,
             stack |-> AfterCancel(srv.stack, hits),
             reader |-> srv.reader, sessions |-> srv.sessions,
             commands |-> srv.commands \ CommandsAt(srv.stack, hits),
             panicked |-> srv.panicked]
    BY <1>0, <2>1 DEF Purged, SrvType
  <2>5. Opening(srv) => 1 \notin hits
    BY DEF Opening
  <2> HIDE DEF hits
  <2>6. d \in SrvType
    <3> DEFINE left == srv.commands \ CommandsAt(srv.stack, hits)
    <3>1. left \in SUBSET Sessions
      BY <1>0 DEF SrvType
    <3> HIDE DEF left
    <3> QED  BY <1>0, <2>3, <2>4, <3>1 DEF SrvType, left
  <2>7. /\ d.connectors = srv.connectors /\ d.made = srv.made /\ d.isOpen = srv.isOpen
        /\ d.active = srv.active /\ d.status = srv.status /\ d.nextID = srv.nextID
        /\ d.attached = srv.attached /\ d.stack = AfterCancel(srv.stack, hits)
        /\ d.reader = srv.reader /\ d.sessions = srv.sessions /\ d.panicked = srv.panicked
    BY <2>4
  <2>8. \A x : (SessionHas(d, x) <=> SessionHas(srv, x))
               /\ (ConnectorHas(d, x) <=> ConnectorHas(srv, x))
    BY <2>7 DEF SessionHas, ConnectorHas
  <2>9. Queue(d) /\ SameStack(srv, d)
    BY <1>0, <2>2, <2>5, <2>6, <2>7, <2>8, CancelKeepsQueue
  <2>10. Agree(d) /\ Ids(d)
    BY <1>0, <2>7, AgreeOnly
  <2>11. OpenFor(d)
    BY <1>0, <2>7, <2>9 DEF OpenFor, SameStack
  <2>12. NoticeFits'
    BY <1>0, <1>1, <1>3, <2>1, <2>7, <2>9 DEF NoticeFits, SameStack
  <2> QED  BY <1>0, <1>1, <2>6, <2>7, <2>9, <2>10, <2>11, <2>12 DEF Kept, Sane
<1> QED  BY <1>2, <1>3

\* What is served next: the commands of connected sessions, with the reader open.
LEMMA ServeKeeps ==
  ASSUME NEW d \in SrvType, Agree(d), Ids(d), d.panicked = "no", ~d.active, d.status = "idle",
         d.reader = "idle", d.stack # << >> => d.isOpen /\ d.made,
         (\E s \in Sessions : d.sessions[s] = "connected") => d.isOpen,
         \A i \in DOMAIN d.stack :
           /\ ~d.stack[i].opens /\ ~d.stack[i].cancelled
           /\ d.stack[i].sid < d.nextID /\ SessionHas(d, d.stack[i].sid),
         NEW u, u = ServeNext(d)
  PROVE  Sane(u) /\ u.status # "ok"
<1>1. d.stack \in Seq(EntryType)
  BY DEF SrvType
<1>2. CASE d.stack = << >>
  <2>1. u = d
    BY <1>2 DEF ServeNext
  <2>2. Queue(d)
    BY <1>2 DEF Queue
  <2>3. OpenFor(d)
    BY DEF OpenFor
  <2> QED  BY <2>1, <2>2, <2>3 DEF Sane
<1>3. CASE d.stack # << >>
  <2> DEFINE e == Head(d.stack)  rest == [d EXCEPT !.stack = Tail(@)]
  <2>1. 1 \in DOMAIN d.stack /\ e = d.stack[1] /\ Tail(d.stack) \in Seq(EntryType)
        /\ <<e>> \o Tail(d.stack) = d.stack
    BY <1>1, <1>3
  <2>2. e \in EntryType /\ ~e.opens /\ ~e.cancelled /\ SessionHas(d, e.sid)
    BY <1>1, <2>1
  <2>3. Has(d, e.sid)
    BY <2>2 DEF Has, SessionHas, Range
  <2>4. u = Initiate(rest, e)
    BY <1>3, <2>2, <2>3 DEF ServeNext
  <2>5. u = [connectors |-> d.connectors, made |-> d.made, loaded |-> d.loaded,
             isOpen |-> d.isOpen, active |-> TRUE, status |-> "pending",
             nextID |-> d.nextID, attached |-> d.attached, stack |-> d.stack,
             reader |-> "command", sessions |-> d.sessions, commands |-> d.commands,
             panicked |-> d.panicked]
    BY <2>1, <2>2, <2>4 DEF Initiate, SrvType
  <2> HIDE DEF e, rest
  <2>6. u \in SrvType
    BY <2>5 DEF SrvType
  <2>7. /\ u.connectors = d.connectors /\ u.made = d.made /\ u.isOpen = d.isOpen
        /\ u.active = TRUE /\ u.status = "pending" /\ u.nextID = d.nextID
        /\ u.attached = d.attached /\ u.stack = d.stack /\ u.reader = "command"
        /\ u.sessions = d.sessions /\ u.panicked = d.panicked
    BY <2>5
  <2>8. ~Opening(u)
    BY <2>1, <2>7 DEF Opening
  <2>9. \A x : SessionHas(u, x) <=> SessionHas(d, x)
    BY <2>7 DEF SessionHas
  <2>10. ASSUME NEW i \in DOMAIN u.stack PROVE Entry(u, u.stack[i], i)
    BY <1>3, <2>7, <2>9 DEF Entry
  <2>11. Queue(u)
    BY <1>3, <2>7, <2>8, <2>10 DEF Queue
  <2>12. Agree(u) /\ Ids(u)
    BY <1>3, <2>7 DEF Agree, Ids
  <2>13. OpenFor(u)
    BY <2>7 DEF OpenFor
  <2> QED  BY <2>6, <2>7, <2>11, <2>12, <2>13 DEF Sane
<1> QED  BY <1>2, <1>3

\* The controller completes the first entry and serves the next: an opening that has failed
\* had nothing behind it, and has its connector.
LEMMA ControllerStep == ASSUME Kept, ControllerRunL PROVE Kept'
<1>0. /\ Sane(srv) /\ srv \in SrvType /\ Agree(srv) /\ Ids(srv) /\ Queue(srv) /\ OpenFor(srv)
      /\ srv.panicked = "no" /\ NoticeFits
  BY DEF Kept, Sane
<1> DEFINE w == [srv EXCEPT !.active = FALSE, !.status = "idle"]
           v == [w EXCEPT !.stack = Tail(@)]
           e == Head(srv.stack)
           d == Completed(v, e)
<1>1. srv.status \in {"ok", "error", "cancel"} /\ notice = "none" /\ notice' = "none"
  BY DEF ControllerRunL, ControllerIsNext
<1>2. srv.stack # << >> /\ srv.stack \in Seq(EntryType) /\ srv.reader = "idle"
  BY <1>0, <1>1 DEF Queue, SrvType
<1>3. srv' = IF d.panicked = "no" THEN ServeNext(d) ELSE d
  <2>1. w.stack = srv.stack
    BY <1>0 DEF SrvType
  <2> HIDE DEF w
  <2> QED  BY <1>2, <2>1 DEF ControllerRunL, w
<1>4. /\ v \in SrvType
      /\ v.connectors = srv.connectors /\ v.made = srv.made /\ v.loaded = srv.loaded
      /\ v.isOpen = srv.isOpen /\ v.active = FALSE /\ v.status = "idle"
      /\ v.nextID = srv.nextID /\ v.attached = srv.attached /\ v.stack = Tail(srv.stack)
      /\ v.reader = "idle" /\ v.sessions = srv.sessions /\ v.commands = srv.commands
      /\ v.panicked = srv.panicked
  <2>1. Tail(srv.stack) \in Seq(EntryType)
    BY <1>2
  <2>2. /\ w \in SrvType
        /\ w.connectors = srv.connectors /\ w.made = srv.made /\ w.loaded = srv.loaded
        /\ w.isOpen = srv.isOpen /\ w.active = FALSE /\ w.status = "idle"
        /\ w.nextID = srv.nextID /\ w.attached = srv.attached /\ w.stack = srv.stack
        /\ w.reader = srv.reader /\ w.sessions = srv.sessions /\ w.commands = srv.commands
        /\ w.panicked = srv.panicked
    BY <1>0 DEF SrvType
  <2> HIDE DEF w
  <2>3. v = [w EXCEPT !.stack = Tail(srv.stack)]
    BY <2>2
  <2> HIDE DEF v
  <2>4. /\ v \in SrvType
        /\ v.connectors = w.connectors /\ v.made = w.made /\ v.loaded = w.loaded
        /\ v.isOpen = w.isOpen /\ v.active = w.active /\ v.status = w.status
        /\ v.nextID = w.nextID /\ v.attached = w.attached /\ v.stack = Tail(srv.stack)
        /\ v.reader = w.reader /\ v.sessions = w.sessions /\ v.commands = w.commands
        /\ v.panicked = w.panicked
    BY <2>1, <2>2, <2>3 DEF SrvType
  <2> QED  BY <1>2, <2>2, <2>4
<1>5. e = srv.stack[1] /\ 1 \in DOMAIN srv.stack /\ e \in EntryType
      /\ Len(srv.stack) \in Nat /\ DOMAIN Tail(srv.stack) = 1 .. (Len(srv.stack) - 1)
      /\ \A k \in DOMAIN Tail(srv.stack) : Tail(srv.stack)[k] = srv.stack[k + 1]
                                           /\ k + 1 \in DOMAIN srv.stack /\ k + 1 # 1
  BY <1>2
<1> HIDE DEF v, e
<1>6. Entry(srv, e, 1) /\ (e.opens <=> Opening(srv))
  BY <1>0, <1>2, <1>5 DEF Queue, Opening
<1>7. \A x : (SessionHas(v, x) <=> SessionHas(srv, x))
             /\ (ConnectorHas(v, x) <=> ConnectorHas(srv, x))
  BY <1>4 DEF SessionHas, ConnectorHas
<1>8. Agree(v) /\ Ids(v)
  BY <1>0, <1>4, AgreeOnly
<1>9. ASSUME NEW k \in DOMAIN v.stack
      PROVE  /\ ~v.stack[k].opens /\ ~v.stack[k].cancelled /\ v.stack[k].sid < v.nextID
             /\ SessionHas(v, v.stack[k].sid) /\ (srv.isOpen \/ (srv.status = "ok" /\ Opening(srv)))
  <2>1. k + 1 \in DOMAIN srv.stack /\ k + 1 # 1 /\ v.stack[k] = srv.stack[k + 1]
    BY <1>4, <1>5
  <2>2. Entry(srv, v.stack[k], k + 1) /\ v.stack[k] \in EntryType
    BY <1>0, <1>2, <2>1 DEF Queue
  <2> QED  BY <1>4, <1>7, <2>1, <2>2 DEF Entry, EntryType
<1>10. srv.made
  <2>1. srv.active
    BY <1>0, <1>1 DEF Queue
  <2> QED  BY <1>0, <2>1 DEF Ids, SrvType
<1>11. (\E s \in Sessions : srv.sessions[s] = "connected") =>
         srv.isOpen \/ (srv.status = "ok" /\ Opening(srv))
  BY <1>0 DEF OpenFor
<1>12. ASSUME Sane(srv'), srv'.status # "ok" PROVE Kept'
  BY <1>1, <1>12 DEF Kept, NoticeFits, Sane
<1>13. CASE e.opens /\ srv.status = "ok"
  <2>1. d = [v EXCEPT !.isOpen = TRUE]
    BY <1>13 DEF Completed
  <2>2. /\ d \in SrvType
        /\ d.connectors = srv.connectors /\ d.made = srv.made /\ d.isOpen = TRUE
        /\ d.active = FALSE /\ d.status = "idle"
        /\ d.nextID = srv.nextID /\ d.attached = srv.attached /\ d.stack = v.stack
        /\ d.reader = "idle" /\ d.sessions = srv.sessions /\ d.panicked = "no"
    BY <1>0, <1>4, <2>1 DEF SrvType
  <2> HIDE DEF d
  <2>3. Agree(d) /\ Ids(d)
    BY <1>4, <1>8, <2>2, AgreeOnly
  <2>4. \A x : SessionHas(d, x) <=> SessionHas(v, x)
    BY <1>4, <2>2 DEF SessionHas
  <2>5. \A k \in DOMAIN d.stack :
          /\ ~d.stack[k].opens /\ ~d.stack[k].cancelled
          /\ d.stack[k].sid < d.nextID /\ SessionHas(d, d.stack[k].sid)
    BY <1>4, <1>9, <2>2, <2>4
  <2>6. PICK u : u = ServeNext(d)
    OBVIOUS
  <2>7. Sane(u) /\ u.status # "ok"
    BY <1>10, <2>2, <2>3, <2>5, <2>6, ServeKeeps
  <2> QED  BY <1>3, <1>12, <2>2, <2>6, <2>7
<1>14. CASE e.opens /\ srv.status # "ok"
  <2>1. ~srv.isOpen /\ ConnectorHas(srv, e.sid)
    BY <1>6, <1>14 DEF Entry
  <2>2. v.stack = << >>
    <3>1. DOMAIN v.stack = {}
      BY <1>9, <1>14, <2>1
    <3>2. v.stack \in Seq(EntryType)
      BY <1>4 DEF SrvType
    <3> SUFFICES ASSUME v.stack # << >> PROVE FALSE
      OBVIOUS
    <3>3. 1 \in DOMAIN v.stack
      BY <3>2
    <3> QED  BY <3>1, <3>3
  <2>3. Range(v.connectors) # {}
    BY <1>0, <1>4, <2>1 DEF ConnectorHas, Agree
  <2>4. v.connectors # << >> /\ Head(v.connectors) \in Range(v.connectors)
    <3>1. v.connectors # << >>
      BY <2>3 DEF Range
    <3>2. v.connectors \in Seq(ConnectorType)
      BY <1>4 DEF SrvType
    <3>3. 1 \in DOMAIN v.connectors /\ Head(v.connectors) = v.connectors[1]
      BY <3>1, <3>2
    <3> QED  BY <3>1, <3>3 DEF Range
  <2>5. Sane(v)
    <3>3. ~v.active /\ v.status = "idle" /\ v.reader = "idle"
      BY <1>4
    <3>4. DOMAIN v.stack = {}
      BY <2>2
    <3>1. Queue(v)
      BY <2>2, <3>3, <3>4 DEF Queue
    <3>2. OpenFor(v)
      BY <1>4, <1>11, <1>14, <2>1 DEF OpenFor
    <3> QED  BY <1>0, <1>4, <1>8, <3>1, <3>2 DEF Sane
  <2>6. PICK c, x : c = Head(v.connectors) /\ x = ConnectionDone(v, c, "failed")
    OBVIOUS
  <2>7. d = x
    BY <1>14, <2>4, <2>6 DEF Completed
  <2> HIDE DEF d
  <2>8. Spares(v, c.sid)
    BY <2>2 DEF Spares, Opening
  <2>9. Sane(x) /\ Served(v, x, c)
    BY <2>4, <2>5, <2>6, <2>8, DoneKeeps
  <2>10. x.stack = << >> /\ x.status = "idle" /\ x.panicked = "no"
    BY <1>4, <2>2, <2>9 DEF Served, SameStack, Sane
  <2>11. srv' = x
    BY <1>3, <2>7, <2>10 DEF ServeNext
  <2> QED  BY <1>12, <2>9, <2>10, <2>11
<1>15. CASE ~e.opens
  <2>1. srv.isOpen /\ ~Opening(srv)
    BY <1>6, <1>15 DEF Entry
  <2>2. ~e.cancelled => Has(v, e.sid)
    BY <1>6, <1>7, <1>15 DEF Entry, Has, SessionHas, Range
  <2>3. d = v \/ d = [v EXCEPT !.commands = @ \ {e.msg}]
    BY <1>15, <2>2 DEF Completed
  <2>4. /\ d \in SrvType
        /\ d.connectors = srv.connectors /\ d.made = srv.made /\ d.isOpen = srv.isOpen
        /\ d.active = FALSE /\ d.status = "idle"
        /\ d.nextID = srv.nextID /\ d.attached = srv.attached /\ d.stack = v.stack
        /\ d.reader = "idle" /\ d.sessions = srv.sessions /\ d.panicked = "no"
    <3> HIDE DEF d
    <3>1. v.commands \ {e.msg} \in SUBSET Sessions
      BY <1>4 DEF SrvType
    <3> QED  BY <1>0, <1>4, <2>3, <3>1 DEF SrvType
  <2> HIDE DEF d
  <2>5. Agree(d) /\ Ids(d)
    BY <1>4, <1>8, <2>4, AgreeOnly
  <2>6. \A x : SessionHas(d, x) <=> SessionHas(v, x)
    BY <1>4, <2>4 DEF SessionHas
  <2>7. \A k \in DOMAIN d.stack :
          /\ ~d.stack[k].opens /\ ~d.stack[k].cancelled
          /\ d.stack[k].sid < d.nextID /\ SessionHas(d, d.stack[k].sid)
    BY <1>4, <1>9, <2>4, <2>6
  <2>8. PICK u : u = ServeNext(d)
    OBVIOUS
  <2>9. Sane(u) /\ u.status # "ok"
    BY <1>10, <2>1, <2>4, <2>5, <2>7, <2>8, ServeKeeps
  <2> QED  BY <1>3, <1>12, <2>4, <2>8, <2>9
<1> QED  BY <1>13, <1>14, <1>15

-----------------------------------------------------------------------------
(* The theorems. *)

LEMMA KeptStep == ASSUME Kept, [OrderlyNext]_vars PROVE Kept'
<1>1. ASSUME NEW s \in Sessions, ClientStep(s) PROVE Kept'
  BY <1>1, ConnectStep, TransmitStep, DisconnectStep DEF ClientStep
<1>2. ASSUME NEW s \in Sessions, srv.sessions[s] # "waiting", CancelTransmit(s) \/ CloseSession(s)
      PROVE  Kept'
  BY <1>2, CancelTransmitStep, CloseSessionStep
<1>3. ASSUME ServerStep PROVE Kept'
  BY <1>3, NotifierStep, ControllerStep, TimeOutStep DEF ServerStep
<1>4. ASSUME CardStep PROVE Kept'
  BY <1>4, ReaderAnswersStep, CardRemovedStep DEF CardStep
<1>5. CASE UNCHANGED vars
  BY <1>5 DEF vars, Kept, NoticeFits, Opening, Sane, Agree, Distinct, Ids, Queue, Entry, OpenFor,
              SessionHas, ConnectorHas
<1> QED  BY <1>1, <1>2, <1>3, <1>4, <1>5 DEF OrderlyNext

LEMMA KeptAlways == OrderlySpec => []Kept
<1>1. Init => Kept
  BY KeptInit
<1>2. Kept /\ [OrderlyNext]_vars => Kept'
  BY KeptStep
<1> QED  BY <1>1, <1>2, PTL DEF OrderlySpec

\* Every variable has its type, whatever the clients, the card and the reader do: the
\* session IDs given out, the arrays and the notifications of the server.
THEOREM ConnectIsTyped == OrderlySpec => []TypeOK
<1>1. Kept => TypeOK
  BY KeptMeans
<1> QED  BY <1>1, KeptAlways, PTL

\* The server thread never panics, with any number of sessions and limits: the
\* controller finds a connector for a failed opening (RunL of CScardAccessControl) and as
\* many sessions as it has counted (CardEvent), and a connector its session
\* (ConnectionDone).
THEOREM ServerStaysAlive == OrderlySpec => []ServerAlive
<1>1. Kept => ServerAlive
  BY KeptMeans
<1> QED  BY <1>1, KeptAlways, PTL

\* The sessions, the connection registry and the controller's session registry agree
\* after every handler, though a connector deletes itself in the middle of several.
THEOREM RegistriesAgree == OrderlySpec => []Registered
<1>1. Kept => Registered
  BY KeptMeans
<1> QED  BY <1>1, KeptAlways, PTL

\* The controller is active exactly when somebody waits for the reader, and only the
\* first message opens it.
THEOREM ReaderHasOne == OrderlySpec => []OneAtReader
<1>1. Kept => OneAtReader
  BY KeptMeans
<1> QED  BY <1>1, KeptAlways, PTL

\* A client is connected only to a reader that is open or whose opening has succeeded.
THEOREM ConnectedIsOpen == OrderlySpec => []ConnectedMeansOpen
<1>1. Kept => ConnectedMeansOpen
  BY KeptMeans
<1> QED  BY <1>1, KeptAlways, PTL
=============================================================================
