--------------------------- MODULE ScardInvariant ---------------------------
(***************************************************************************)
(* The inductive invariants behind the properties of ScardClients, in      *)
(* named parts.  Accounted holds of BufferedSpec; the others need          *)
(* OrderlySpec.                                                            *)
(***************************************************************************)
EXTENDS ScardClients

\* An entry of st waits exactly while its message does in res; no message has
\* two entries that wait; no message has an entry before it was sent; and no
\* entry is for a GetCapabilities without room for its answer.
Accounted(st, res) ==
  /\ \A i \in DOMAIN st : /\ Buffered(st[i].req)
                          /\ res[st[i].msg] # "unsent"
                          /\ Waiting(st[i]) <=> res[st[i].msg] = "waiting"
  /\ \A i, j \in DOMAIN st : Waiting(st[i]) /\ st[i].msg = st[j].msg => i = j

StackAccounted == Accounted(stack, result)

\* The controller is active exactly when the reader has the command of entry 1,
\* into buffers that exist as long as the answer is to come.
ReaderBusy ==
  /\ readerActive <=> status # "idle"
  /\ ~readerActive => stack = << >> /\ command = NoCommand /\ reply = 0
  /\ readerActive => /\ stack # << >>
                     /\ command # NoCommand
                     /\ command.msg = stack[1].msg
                     /\ command.req = stack[1].req
                     /\ command.watched
  /\ status = "pending" => ~command.freed /\ reply = 0

\* Only entry 1 may be cancelled.
RestWaits == \A i \in DOMAIN stack : i # 1 => Waiting(stack[i])

\* Every message that waits has an entry.
NoneForgotten ==
  \A m \in Messages :
    result[m] = "waiting" => \E i \in DOMAIN stack : stack[i].msg = m /\ Waiting(stack[i])

\* Every entry has a well-formed command, on a channel its session is on; the
\* session of an entry that waits is attached.
WellFormed(q) ==
  /\ q.op \notin {"rawManage", "noBuffer", "capsNoBuffer", "status"}
  /\ ~q.negative
  /\ q.op = "close" => q.chan \in LogicalChannels
OnItsChannel ==
  \A i \in DOMAIN stack :
    LET e == stack[i] IN
    /\ WellFormed(e.req)
    /\ e.chan = ChannelOf(e.req)
    /\ e.sid \in channels[e.chan]
    /\ Waiting(e) => Attached(registry, e.sid)

\* An attached session is on the basic channel.
OnBasicChannel == \A s \in Sessions : registry[s] # 0 => registry[s] \in channels[0]

\* An open that waits will not be refused.
RoomToOpen ==
  /\ \A i \in DOMAIN stack :
       Waiting(stack[i]) /\ stack[i].req.op = "open" => \E c \in LogicalChannels : channels[c] = {}
  /\ \A i, j \in DOMAIN stack :
       /\ Waiting(stack[i]) /\ stack[i].req.op = "open"
       /\ Waiting(stack[j]) /\ stack[j].req.op = "open"
       => i = j

\* A close that is still to reach the card: the server has given up the channel,
\* the card has not, and no other close is on its way for it.
Closing(i) == stack[i].req.op = "close" /\ (i # 1 \/ status = "pending")
ClosesPending ==
  /\ \A i \in DOMAIN stack : Closing(i) => channels[stack[i].req.chan] = {}
  /\ \A i \in DOMAIN stack : Closing(i) /\ i # 1 => stack[i].req.chan \in cardChannels
  /\ \A i, j \in DOMAIN stack :
       Closing(i) /\ Closing(j) /\ stack[i].req.chan = stack[j].req.chan => i = j

\* A channel the card has just opened belongs to nobody yet.
ReplyIsFree ==
  reply # 0 /\ Waiting(stack[1]) =>
    /\ channels[reply] = {}
    /\ reply \in cardChannels
    /\ \A i \in DOMAIN stack : i # 1 /\ stack[i].req.op = "close" => stack[i].req.chan # reply

Inductive ==
  /\ TypeOK
  /\ ServerAlive
  /\ StackAccounted
  /\ ReaderBusy
  /\ RestWaits
  /\ NoneForgotten
  /\ OnItsChannel
  /\ OnBasicChannel
  /\ RoomToOpen
  /\ ClosesPending
  /\ ReplyIsFree
  /\ ChannelOwned
  /\ OwnAnswer
=============================================================================
