----------------------------- MODULE HostCommand -----------------------------
(***************************************************************************)
(* The host's command handlers (tools/openlst_tools/commands.py) over the  *)
(* radio multiplexer (radio_mux.py) or over a serial port: a command is    *)
(* sent again until a message with its hwid and sequence number comes back *)
(* or its retries are used up.                                             *)
(*                                                                         *)
(* A sequence number comes round again after Range commands.  Each message *)
(* carries, as history, the handler whose command it belongs to and its    *)
(* age, the number of commands this handler has given since.               *)
(***************************************************************************)
EXTENDS Integers, FiniteSets

CONSTANTS
  Client,      \* the command handlers in use
  Node,        \* the hwids of the nodes
  Printing,    \* the nodes that print debug texts
  Target,      \* the hwid each handler addresses
  Cmd, Re,     \* the commands given and the replies they may have
  SEQNUM_MIN, SEQNUM_MAX,
  RetryLimit,  \* the retries each handler's caller may ask for
  NoLimit,     \* retries=None
  NoClient,    \* no handler: a message no command asked for
  LineSize,    \* bound: messages under way, both ways together
  InboxSize    \* bound: messages waiting for a handler

Range == SEQNUM_MAX - SEQNUM_MIN

\* Handlers that talk to the same node would take each other's replies (every
\* handler starts at SEQNUM_MIN); dprintf sends messages with number 0.
ASSUME HandlerAssumption ==
  /\ Target \in [Client -> Node]
  /\ \A c, d \in Client : Target[c] = Target[d] => c = d
  /\ NoClient \notin Client
  /\ Printing \subseteq Node
  /\ SEQNUM_MIN \in Nat \ {0} /\ SEQNUM_MAX \in Nat /\ SEQNUM_MIN < SEQNUM_MAX
  /\ RetryLimit \in [Client -> SUBSET (Nat \cup {NoLimit})] /\ NoLimit \notin Nat
  /\ {LineSize, InboxSize} \subseteq Nat

VARIABLES
  connection,  \* how the host is connected, "zmq" or "serial"
  seqnum,      \* CommandHandler.seqnum
  phase,       \* send_cmd waits for a reply, or has returned
  cmd,         \* its argument
  limit,       \* its argument "retries"
  tries,       \* its local variable
  got,         \* the message it took for the reply, {} if none
  down,        \* commands on their way to a node
  up,          \* messages on their way to the host
  inbox,       \* messages that wait for poll_message
  done         \* history: the handler's last command was carried out

callVars == <<phase, cmd, limit, tries, got>>
netVars  == <<down, up, inbox>>
vars == <<connection, seqnum, callVars, netVars, done>>

Command == [client : Client, age : 0 .. Range - 1, hwid : Node,
            seq : SEQNUM_MIN .. SEQNUM_MAX - 1, cmd : Cmd]
Message == [client : Client \cup {NoClient}, age : 0 .. Range - 1, hwid : Node,
            seq : 0 .. SEQNUM_MAX - 1, re : Re]

Limits == {f \in [Client -> UNION {RetryLimit[c] : c \in Client}] :
             \A c \in Client : f[c] \in RetryLimit[c]}

TypeOK ==
  /\ connection \in {"zmq", "serial"}
  /\ seqnum \in [Client -> SEQNUM_MIN .. SEQNUM_MAX - 1]
  /\ phase \in [Client -> {"poll", "returned"}]
  /\ cmd \in [Client -> Cmd]
  /\ limit \in Limits
  /\ tries \in [Client -> Nat]
  /\ got \in [Client -> SUBSET Message]
  /\ down \in SUBSET Command
  /\ up \in SUBSET Message
  /\ inbox \in [Client -> SUBSET Message]
  /\ done \in [Client -> BOOLEAN]

Init ==
  /\ connection \in {"zmq", "serial"}
  /\ seqnum = [c \in Client |-> SEQNUM_MIN]
  /\ phase = [c \in Client |-> "returned"]
  /\ cmd \in [Client -> Cmd]
  /\ limit \in Limits
  /\ tries = [c \in Client |-> 0]
  /\ got = [c \in Client |-> {}]
  /\ down = {}
  /\ up = {}
  /\ inbox = [c \in Client |-> {}]
  /\ done = [c \in Client |-> TRUE]

-----------------------------------------------------------------------------
(***************************************************************************)
(* send_cmd and send_cmd_once (which is send_cmd without retries).         *)
(***************************************************************************)

\* Variant: the number is not kept above the reserved ones.
IncSeqnumPlain(s) == (s + 1) % SEQNUM_MAX

\* _inc_seqnum.
IncSeqnum(s) ==
  LET next == (s + 1) % SEQNUM_MAX
  IN IF next < SEQNUM_MIN THEN SEQNUM_MIN ELSE next

\* The handlers that find a message in the queue c reads: those of a process
\* share the listener of a serial port, and what one takes the others miss.
Sharing(c) == IF connection = "serial" THEN Client ELSE {c}

\* flush discards all messages in the queue of a serial listener, but at most
\* one of those ZMQ holds.
Flush(c, S) ==
  IF connection = "serial" THEN {[d \in Client |-> {}]}
  ELSE IF S[c] = {} THEN {S}
  ELSE {[S EXCEPT ![c] = @ \ {m}] : m \in S[c]}

LineFree == Cardinality(down) + Cardinality(up) < LineSize

\* The command handler c sends with number s for x.
CommandOf(c, s, x) ==
  [client |-> c, age |-> 0, hwid |-> Target[c], seq |-> s, cmd |-> x]

\* The messages of S after handler c has given another command.  Assumed of
\* the network: none is under way any more when its number comes round again.
Older(S, c) ==
  {IF m.client = c THEN [m EXCEPT !.age = m.age + 1] ELSE m :
     m \in {o \in S : o.client = c => o.age + 1 < Range}}

\* A tool calls send_cmd, which takes a number, flushes and sends the command.
Call(c, x, retries) ==
  /\ phase[c] = "returned"
  /\ LineFree
  /\ seqnum' = [seqnum EXCEPT ![c] = IncSeqnum(@)]
  /\ phase' = [phase EXCEPT ![c] = "poll"]
  /\ cmd' = [cmd EXCEPT ![c] = x]
  /\ limit' = [limit EXCEPT ![c] = retries]
  /\ got' = [got EXCEPT ![c] = {}]
  /\ down' = Older(down, c) \cup {CommandOf(c, seqnum'[c], x)}
  /\ up' = Older(up, c)
  /\ \E S \in Flush(c, inbox) : inbox' = [d \in Client |-> Older(S[d], c)]
  /\ done' = [done EXCEPT ![c] = FALSE]
  /\ UNCHANGED <<connection, tries>>

\* Variants: the hwid, or the number, is not compared.
IsReplySeqnum(c, m) == m.seq = seqnum[c]
IsReplyHwid(c, m) == m.hwid = Target[c]

\* _is_reply compares the first four bytes, hwid and sequence number.
IsReply(c, m) == m.hwid = Target[c] /\ m.seq = seqnum[c]

\* poll_message gives a message; one that is no reply is dropped.
Poll(c, m) ==
  /\ phase[c] = "poll"
  /\ m \in inbox[c]
  /\ inbox' = [d \in Client |-> IF d \in Sharing(c) THEN inbox[d] \ {m} ELSE inbox[d]]
  /\ IF IsReply(c, m)
     THEN /\ phase' = [phase EXCEPT ![c] = "returned"]
          /\ tries' = [tries EXCEPT ![c] = 0]
          /\ got' = [got EXCEPT ![c] = {m}]
     ELSE UNCHANGED <<phase, tries, got>>
  /\ UNCHANGED <<connection, seqnum, cmd, limit, down, up, done>>

\* The time of a try is up, and there is another: what has come too late is
\* flushed, and the command sent again under its number.  Tries are counted
\* only if they are limited.
Retry(c) ==
  /\ phase[c] = "poll"
  /\ LineFree
  /\ limit[c] # NoLimit => tries[c] + 1 <= limit[c]
  /\ tries' = [tries EXCEPT ![c] = IF limit[c] = NoLimit THEN @ ELSE @ + 1]
  /\ down' = down \cup {CommandOf(c, seqnum[c], cmd[c])}
  /\ inbox' \in Flush(c, inbox)
  /\ UNCHANGED <<connection, seqnum, phase, cmd, limit, got, up, done>>

\* The time of the last try is up.
GiveUp(c) ==
  /\ phase[c] = "poll"
  /\ limit[c] # NoLimit
  /\ tries[c] + 1 > limit[c]
  /\ tries' = [tries EXCEPT ![c] = 0]
  /\ phase' = [phase EXCEPT ![c] = "returned"]
  /\ UNCHANGED <<connection, seqnum, cmd, limit, got, netVars, done>>

-----------------------------------------------------------------------------
(***************************************************************************)
(* The way to the nodes and back, which may lose, reorder and delay.       *)
(***************************************************************************)

\* The messages of S that belong to the last command of handler c.
Own(c, S) == {m \in S : m.client = c /\ m.age = 0}

LoseCommand == \E m \in down :
  /\ down' = down \ {m}
  /\ UNCHANGED <<connection, seqnum, callVars, up, inbox, done>>

LoseMessage == \E m \in up :
  /\ up' = up \ {m}
  /\ UNCHANGED <<connection, seqnum, callVars, down, inbox, done>>

\* radio_mux publishes a message to every handler; a serial listener puts it
\* into its queue.  InboxSize bounds what waits besides the reply
\* the handler is waiting for.
Deliver(m) ==
  /\ m \in up
  /\ up' = up \ {m}
  /\ inbox' = [c \in Client |->
       IF Own(c, {m}) # {} \/ Cardinality(inbox[c]) < InboxSize
       THEN inbox[c] \cup {m} ELSE inbox[c]]
  /\ UNCHANGED <<connection, seqnum, callVars, down, done>>

-----------------------------------------------------------------------------
(***************************************************************************)
(* The nodes, as far as the host can tell.                                 *)
(***************************************************************************)

\* Variant: the reply goes out under a number of the node's own.
ReplyUnnumbered(m, re) ==
  [client |-> m.client, age |-> m.age, hwid |-> m.hwid, seq |-> SEQNUM_MIN, re |-> re]

\* commands_handle_command starts every reply with the node's hwid and the
\* command's sequence number.
Reply(m, re) ==
  [client |-> m.client, age |-> m.age, hwid |-> m.hwid, seq |-> m.seq, re |-> re]

\* A node takes a command and answers.  A copy may stay under way: a set holds
\* one of equal messages, and the host repeats its commands.
Handle(m, keep, re) ==
  /\ m \in down
  /\ keep => LineFree
  /\ down' = IF keep THEN down ELSE down \ {m}
  /\ up' = up \cup {Reply(m, re)}
  /\ done' = IF m.age = 0 THEN [done EXCEPT ![m.client] = TRUE] ELSE done
  /\ UNCHANGED <<connection, seqnum, callVars, inbox>>

\* dprintf: a text nobody asked for, with sequence number 0.
SendText(n, text) ==
  /\ LineFree
  /\ up' = up \cup {[client |-> NoClient, age |-> 0, hwid |-> n, seq |-> 0, re |-> text]}
  /\ UNCHANGED <<connection, seqnum, callVars, down, inbox, done>>

Tool(c) ==
  \/ \E x \in Cmd, retries \in RetryLimit[c] : Call(c, x, retries)
  \/ \E m \in inbox[c] : Poll(c, m)
  \/ Retry(c)
  \/ GiveUp(c)

Network ==
  \/ LoseCommand
  \/ LoseMessage
  \/ \E m \in up : Deliver(m)

Nodes ==
  \/ \E m \in down, keep \in BOOLEAN, re \in Re : Handle(m, keep, re)
  \/ \E n \in Printing, text \in Re : SendText(n, text)

Next == (\E c \in Client : Tool(c)) \/ Network \/ Nodes

Spec == Init /\ [][Next]_vars

\* What the environment owes a handler that does not give up: again and again
\* a try reaches the node, the reply comes back, and this handler takes it,
\* each before the try's time is up.
Reached(c) ==
  /\ phase[c] = "poll"
  /\ \E m \in Own(c, down), keep \in BOOLEAN, re \in Re : Handle(m, keep, re)
Returned(c) == phase[c] = "poll" /\ \E m \in Own(c, up) : Deliver(m)
Taken(c) == \E m \in Own(c, inbox[c]) : Poll(c, m)

FairSpec ==
  /\ Spec
  /\ WF_vars(Network)
  /\ \A c \in Client :
       /\ SF_vars(Retry(c))  \* LineFree is a bound: the host need not wait
       /\ WF_vars(GiveUp(c))
       /\ NoLimit \in RetryLimit[c] =>
            SF_vars(Reached(c)) /\ SF_vars(Returned(c)) /\ SF_vars(Taken(c))

-----------------------------------------------------------------------------
(***************************************************************************)
(* Correctness.                                                            *)
(***************************************************************************)

\* A call returns a reply to its own command: never that of another handler's
\* command or of an earlier one, nor a text, however late they come
\* (commands.py:65-68 compares the first four bytes only).
ReplyIsOwn ==
  \A c \in Client : \A m \in got[c] : m.client = c /\ m.age = 0

\* The number handler c used n commands ago.
Earlier(c, n) ==
  IF seqnum[c] - n >= SEQNUM_MIN THEN seqnum[c] - n ELSE seqnum[c] - n + Range

\* The inductive invariant: whatever is under way has the hwid and the number
\* of its command, and a reply to the last one shows that it was carried out.
MessageInv ==
  /\ \A m \in down :
       m.hwid = Target[m.client] /\ m.seq = Earlier(m.client, m.age)
  /\ \A c \in Client : \A m \in up \cup inbox[c] :
       IF m.client = NoClient THEN m.seq = 0
       ELSE /\ m.hwid = Target[m.client]
            /\ m.seq = Earlier(m.client, m.age)
            /\ m.age = 0 => done[m.client]

IInv == TypeOK /\ MessageInv /\ ReplyIsOwn

\* Each call implements RemoteCall: a reply means that the node has carried
\* out the command since the call began, not only at some time before.
Promise == INSTANCE RemoteCall WITH
  state <- [c \in Client |-> IF phase[c] = "poll" THEN "calling"
                             ELSE IF got[c] = {} THEN "none" ELSE "answered"]
ImplementsRemoteCall == Promise!Spec

\* Every call returns: one with a limit because its tries are counted
\* (commands.py:116), one without when a reply gets through in time.
CallReturns == \A c \in Client : phase[c] = "poll" ~> phase[c] = "returned"
=============================================================================
