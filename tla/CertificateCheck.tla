-------------------------- MODULE CertificateCheck --------------------------
(***************************************************************************)
(* What an OCSP check promises the application that starts it              *)
(* (ocsp_v2.h): it is answered once; when it is answered with KErrNone it  *)
(* has one outcome for every certificate it was asked about, and a summary *)
(* that is the worst of them.                                              *)
(***************************************************************************)
EXTENDS Naturals, Sequences

VARIABLES
    wanted,     \* how many certificates the application asks about
    answer,     \* "none", "pending", or the code the check has ended with
    report      \* the results of the outcomes and their summary, once there are any

vars == <<wanted, answer, report>>

Results == {"EGood", "EUnknown", "ERevoked"}
NoReport == [results |-> << >>, summary |-> "none"]

\* EGood < EUnknown < ERevoked (OCSP::TResult)
Worse(a, b) == \/ a = "ERevoked" /\ b # "ERevoked"
               \/ a = "EUnknown" /\ b = "EGood"

WorstOf(s, results) ==
    /\ \A i \in DOMAIN results : ~Worse(results[i], s)
    /\ s = "EGood" \/ \E i \in DOMAIN results : results[i] = s

Init == /\ wanted \in Nat
        /\ answer = "none"
        /\ report = NoReport

Start == answer = "none" /\ answer' = "pending" /\ UNCHANGED <<wanted, report>>

Report == /\ answer = "pending" /\ answer' = "KErrNone"
          /\ Len(report'.results) = wanted
          /\ WorstOf(report'.summary, report'.results)
          /\ UNCHANGED wanted

Fail == /\ answer \in {"none", "pending"}
        /\ answer' \notin {"none", "pending", "KErrNone"}
        /\ UNCHANGED <<wanted, report>>

Next == Start \/ Report \/ Fail

Spec == Init /\ [][Next]_vars
=============================================================================
