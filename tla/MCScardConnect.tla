--------------------------- MODULE MCScardConnect ---------------------------
\* Instances of ScardConnect for TLC.
EXTENDS ScardConnect

Limit(named, newCard, timed, scope) ==
  [named |-> named, newCard |-> newCard, timed |-> timed, scope |-> scope]

\* The ways an attempt can go: any card, a card to come with and without a reader's
\* name, and the limits that are checked first.
AllLimits == {Limit(TRUE, FALSE, FALSE, "any"), Limit(FALSE, FALSE, TRUE, "any"),
              Limit(TRUE, TRUE, TRUE, "any"), Limit(FALSE, TRUE, FALSE, "any"),
              Limit(TRUE, FALSE, TRUE, "newReader"), Limit(TRUE, FALSE, FALSE, "none")}

\* Any card, with and without a time-out.
PlainLimits == {Limit(TRUE, FALSE, timed, "any") : timed \in BOOLEAN}

=============================================================================
