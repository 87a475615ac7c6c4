------------------------- MODULE ScardMessageStack -------------------------
(***************************************************************************)
(* The message stack of the smart-card server (CScardMessageStack): the    *)
(* list of TMessageHandle entries a channel manager keeps.  By convention  *)
(* entry 1 (index 0 of the array) is the message the card reader is        *)
(* working on, and the entries behind it wait for their turn.              *)
(*                                                                         *)
(* An entry is any record with the fields msg (the client's message),      *)
(* sid (session ID), cancelled, and timer (a command timer is running).    *)
(* The array operations that insert at or take from one end are Cons,      *)
(* Append, Head and Tail of Sequences; this module defines the others.     *)
(* The definitions avoid recursion so that theorems can use them.          *)
(***************************************************************************)
EXTENDS Naturals, Sequences, FiniteSets

\* The number of elements of the set K of positions up to position i.
Rank(K, i) == Cardinality({j \in K : j <= i})

\* The k-th smallest position in K.
Nth(K, k) == CHOOSE i \in K : Rank(K, i) = k

\* The subsequence of st at the positions in K: iMessages->Delete of the rest.
Keep(st, K) == [k \in 1 .. Cardinality(K) |-> st[Nth(K, k)]]

\* CancelOne on one entry: it is flagged, and its timer (if any) stops.
Marked(e) == [e EXCEPT !.cancelled = TRUE, !.timer = FALSE]

\* Mutant: the first entry is deleted like the others.
AfterCancelAll(st, hits) == Keep(st, DOMAIN st \ hits)

(***************************************************************************)
(* CancelAll, CancelCardOperations and CancelByTimeOut, applied to the     *)
(* positions in hits: the first entry is flagged and stays, because the    *)
(* reader is supposed to be working on it; every other hit is deleted.     *)
(***************************************************************************)
AfterCancel(st, hits) ==
  Keep([i \in DOMAIN st |-> IF i = 1 /\ 1 \in hits THEN Marked(st[1]) ELSE st[i]],
       DOMAIN st \ (hits \ {1}))

\* Mutants: the first entry is flagged without being completed; a message is
\* completed again when it is cancelled again.
CompletedButFirst(st, hits) == {st[i].msg : i \in {j \in hits \ {1} : ~st[j].cancelled}}
CompletedAgain(st, hits) == {st[i].msg : i \in hits}

\* The messages those calls complete: CancelOne does nothing the second time.
CompletedByCancel(st, hits) == {st[i].msg : i \in {j \in hits : ~st[j].cancelled}}

\* The positions each of the cancel operations applies to.
OfSession(st, id) == {i \in DOMAIN st : st[i].sid = id}
WithTimerOf(st, m) == {i \in DOMAIN st : st[i].msg = m /\ st[i].timer}
=============================================================================
