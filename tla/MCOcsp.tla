------------------------------- MODULE MCOcsp -------------------------------
(* OcspCheck for TLC. *)
EXTENDS OcspCheck

AllSchemes == <<"ca", "direct", "delegate">>
OneScheme == <<"delegate">>

\* One reply of each kind.
SomeReplies ==
    {[verdict |-> "malformed", says |-> "EGood", by |-> "none"],
     [verdict |-> "stale", says |-> "EGood", by |-> "direct"],
     [verdict |-> "mismatch", says |-> "EGood", by |-> "delegate"],
     [verdict |-> "missing", says |-> "EGood", by |-> "ca"],
     [verdict |-> "ok", says |-> "ERevoked", by |-> "delegate"],
     [verdict |-> "ok", says |-> "EGood", by |-> "delegate"],
     [verdict |-> "ok", says |-> "EGood", by |-> "none"]}
=============================================================================
