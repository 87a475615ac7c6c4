---------------------------- MODULE CommandLine ----------------------------
(***************************************************************************)
(* What the smart-card server promises its clients, with the reader, the   *)
(* sessions and the channels left out: the messages it has accepted stand  *)
(* in one line; only the first of the line gets an answer from the card;   *)
(* any others leave the line only because they are withdrawn (cancelled,   *)
(* timed out, or the card is gone), and the rest keep their order.         *)
(***************************************************************************)
EXTENDS ScardMessageStack

CONSTANT Messages

VARIABLES line, result

Withdrawals == {"cancelled", "timeout", "nocard"}
Answers == {"ok", "error"}

Init == line = << >> /\ result = [m \in Messages |-> "unsent"]

\* A message joins the line at its end.
Accept(m) ==
  /\ result[m] = "unsent"
  /\ line' = Append(line, m)
  /\ result' = [result EXCEPT ![m] = "waiting"]

\* A message is answered without the card: refused, or a channel status.
Dismiss(m) ==
  /\ result[m] = "unsent"
  /\ \E r \in {"ok", "refused"} : result' = [result EXCEPT ![m] = r]
  /\ UNCHANGED line

\* The first in the line gets the answer of the card.
Serve ==
  /\ line # << >>
  /\ \E r \in Answers : result' = [result EXCEPT ![Head(line)] = r]
  /\ line' = Tail(line)

\* The messages at the positions K leave the line for the same reason.
Withdraw(K) ==
  /\ \E r \in Withdrawals :
       result' = [m \in Messages |-> IF m \in {line[i] : i \in K} THEN r ELSE result[m]]
  /\ line' = Keep(line, DOMAIN line \ K)

Next ==
  \/ \E m \in Messages : Accept(m) \/ Dismiss(m)
  \/ Serve
  \/ \E K \in SUBSET DOMAIN line : Withdraw(K)

Spec == Init /\ [][Next]_<<line, result>>
=============================================================================
