--------------------------- MODULE MCScardClients ---------------------------
(* Instances of ScardClients and ScardInvariant for TLC. *)
EXTENDS ScardInvariant, TLC

Request(op, chan, timed) == [op |-> op, chan |-> chan, timed |-> timed, negative |-> FALSE]

\* Commands on the basic channel, and a channel opened and closed, most of them
\* with a time-out.
TimedRequests == {Request("transmit", 0, TRUE), Request("open", 0, FALSE), Request("close", 1, TRUE)}

\* Channels are opened, used and closed.
ChannelRequests ==
  {Request("open", 0, TRUE), Request("close", 1, FALSE), Request("transmit", 1, FALSE),
   Request("transmit", 0, FALSE)}

\* Only opens, and commands on the basic channel behind them.
OpenRequests == {Request("open", 0, FALSE), Request("transmit", 0, FALSE)}

Symmetry == Permutations(Sessions) \cup Permutations(Messages)
=============================================================================
