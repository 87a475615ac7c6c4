------------------------------ MODULE MCTrust ------------------------------
(* ServerAuthFail for TLC. *)
EXTENDS ServerAuthFail

CONSTANTS c1, c2, s1, s2, a1, q1, q2

\* The first certificate names the second site, the second names none.
NamesOther == (c1 :> s2) @@ (c2 :> NoSite)
\* Both requests are about the first certificate and the first site.
FirstCert == [q \in Requests |-> c1]
FirstSite == [q \in Requests |-> s1]
\* An application forgives the first site, in date or not.
FirstForgiven == {<<a1, s1, TRUE>>, <<a1, s1, FALSE>>}

Interchangeable == Permutations(Requests)
=============================================================================
