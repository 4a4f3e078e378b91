-------------------------- MODULE HostCommandProofs --------------------------
(***************************************************************************)
(* Proofs about HostCommand: for any handlers, nodes, number ranges and    *)
(* bounds, a call returns only a reply to its own command, and the         *)
(* handlers implement RemoteCall.                                          *)
(***************************************************************************)
EXTENDS HostCommand, TLAPS

\* The range of _inc_seqnum: it never leaves the numbers handlers use, and
\* steps one back from it lead to where it came from.
LEMMA IncSeqnumRange ==
  ASSUME NEW s \in SEQNUM_MIN .. SEQNUM_MAX - 1
  PROVE  /\ IncSeqnum(s) \in SEQNUM_MIN .. SEQNUM_MAX - 1
         /\ IncSeqnum(s) = IF s + 1 = SEQNUM_MAX THEN SEQNUM_MIN ELSE s + 1
<1>1. CASE s + 1 = SEQNUM_MAX
  <2>1. SEQNUM_MAX % SEQNUM_MAX = 0
    BY HandlerAssumption, SMT
  <2>. QED
    BY <1>1, <2>1, HandlerAssumption DEF IncSeqnum
<1>2. CASE s + 1 # SEQNUM_MAX
  <2>1. (s + 1) % SEQNUM_MAX = s + 1
    BY <1>2, HandlerAssumption, SMT
  <2>. QED
    BY <1>2, <2>1, HandlerAssumption DEF IncSeqnum
<1>. QED
  BY <1>1, <1>2

\* Flushing only takes messages out of the inboxes.
LEMMA FlushTakes ==
  ASSUME NEW c \in Client, NEW S \in [Client -> SUBSET Message], NEW T \in Flush(c, S)
  PROVE  /\ T \in [Client -> SUBSET Message]
         /\ \A d \in Client : T[d] \subseteq S[d]
BY DEF Flush

\* The number used n commands ago is one commands may have.
LEMMA EarlierRange ==
  ASSUME TypeOK, NEW c \in Client, NEW n \in 0 .. Range - 1
  PROVE  Earlier(c, n) \in SEQNUM_MIN .. SEQNUM_MAX - 1
<1>1. seqnum[c] \in SEQNUM_MIN .. SEQNUM_MAX - 1
  BY DEF TypeOK
<1>. QED
  BY <1>1, HandlerAssumption, SMT DEF Earlier, Range

\* Giving a command makes every earlier one one command older.
LEMMA EarlierAges ==
  ASSUME NEW s \in SEQNUM_MIN .. SEQNUM_MAX - 1, NEW t, t = IncSeqnum(s),
         NEW n \in 0 .. Range - 1, n + 1 < Range
  PROVE  (IF t - (n + 1) >= SEQNUM_MIN THEN t - (n + 1) ELSE t - (n + 1) + Range)
         = IF s - n >= SEQNUM_MIN THEN s - n ELSE s - n + Range
<1>1. t = IF s + 1 = SEQNUM_MAX THEN SEQNUM_MIN ELSE s + 1
  BY IncSeqnumRange
<1>. QED
  BY <1>1, HandlerAssumption, SMT DEF Range

\* Older keeps everything but the age of its messages.
LEMMA OlderCommand ==
  ASSUME NEW S \in SUBSET Command, NEW c \in Client, NEW m \in Older(S, c)
  PROVE  /\ m \in Command
         /\ \E o \in S : /\ o.client = c => o.age + 1 < Range
                         /\ m.client = o.client /\ m.hwid = o.hwid /\ m.seq = o.seq
                         /\ m.age = IF o.client = c THEN o.age + 1 ELSE o.age
<1>1. PICK o \in S : /\ o.client = c => o.age + 1 < Range
                     /\ m = IF o.client = c THEN [o EXCEPT !.age = o.age + 1] ELSE o
  BY Zenon DEF Older
<1>2. o \in Command
  OBVIOUS
<1>3. o.age + 1 \in 0 .. Range - 1 \/ o.client # c
  BY <1>1, <1>2, HandlerAssumption DEF Command, Range
<1>4. CASE o.client = c
  <2>1. m = [o EXCEPT !.age = o.age + 1]
    BY <1>1, <1>4
  <2>. QED
    BY <1>1, <1>2, <1>3, <1>4, <2>1 DEF Command
<1>5. CASE o.client # c
  <2>1. m = o
    BY <1>1, <1>5
  <2>. QED
    BY <1>2, <1>5, <2>1
<1>. QED
  BY <1>4, <1>5

\* The same of the messages for the host.
LEMMA OlderMessage ==
  ASSUME NEW S \in SUBSET Message, NEW c \in Client, NEW m \in Older(S, c)
  PROVE  /\ m \in Message
         /\ \E o \in S : /\ o.client = c => o.age + 1 < Range
                         /\ m.client = o.client /\ m.hwid = o.hwid /\ m.seq = o.seq
                         /\ m.age = IF o.client = c THEN o.age + 1 ELSE o.age
<1>1. PICK o \in S : /\ o.client = c => o.age + 1 < Range
                     /\ m = IF o.client = c THEN [o EXCEPT !.age = o.age + 1] ELSE o
  BY Zenon DEF Older
<1>2. o \in Message
  OBVIOUS
<1>3. o.age + 1 \in 0 .. Range - 1 \/ o.client # c
  BY <1>1, <1>2, HandlerAssumption DEF Message, Range
<1>4. CASE o.client = c
  <2>1. m = [o EXCEPT !.age = o.age + 1]
    BY <1>1, <1>4
  <2>. QED
    BY <1>1, <1>2, <1>3, <1>4, <2>1 DEF Message
<1>5. CASE o.client # c
  <2>1. m = o
    BY <1>1, <1>5
  <2>. QED
    BY <1>2, <1>5, <2>1
<1>. QED
  BY <1>4, <1>5

\* The initial states satisfy the invariant.
LEMMA InitInv == Init => IInv
<1>. SUFFICES ASSUME Init PROVE IInv
  OBVIOUS
<1>1. SEQNUM_MIN \in SEQNUM_MIN .. SEQNUM_MAX - 1
  BY HandlerAssumption
<1>2. TypeOK
  BY <1>1 DEF Init, TypeOK
<1>3. MessageInv /\ ReplyIsOwn
  BY DEF Init, MessageInv, ReplyIsOwn
<1>. QED
  BY <1>2, <1>3 DEF IInv

\* Giving a command: every message under way stays that of its command.
LEMMA CallInv ==
  ASSUME IInv, NEW c \in Client, NEW x \in Cmd, NEW r \in RetryLimit[c], Call(c, x, r)
  PROVE  IInv'
<1>. USE DEF IInv
<1>1. /\ IncSeqnum(seqnum[c]) \in SEQNUM_MIN .. SEQNUM_MAX - 1
      /\ seqnum' = [seqnum EXCEPT ![c] = IncSeqnum(seqnum[c])]
      /\ seqnum' \in [Client -> SEQNUM_MIN .. SEQNUM_MAX - 1]
  BY IncSeqnumRange DEF Call, TypeOK
<1>2. 0 \in 0 .. Range - 1
  BY HandlerAssumption DEF Range
<1>3. CommandOf(c, seqnum'[c], x) \in Command
  BY <1>1, <1>2, HandlerAssumption DEF CommandOf, Command, TypeOK
<1>4. PICK S \in Flush(c, inbox) :
        inbox' = [d \in Client |-> Older(S[d], c)]
  BY DEF Call
<1>5. /\ down \in SUBSET Command /\ up \in SUBSET Message
      /\ S \in [Client -> SUBSET Message] /\ \A d \in Client : S[d] \subseteq inbox[d]
  <2>1. inbox \in [Client -> SUBSET Message]
    BY DEF TypeOK
  <2>. QED
    BY <2>1, FlushTakes DEF TypeOK
<1>6. Older(down, c) \in SUBSET Command
  BY <1>5, OlderCommand
<1>7. /\ Older(up, c) \in SUBSET Message
      /\ \A d \in Client : Older(S[d], c) \in SUBSET Message
  BY <1>5, OlderMessage
<1>8. inbox' \in [Client -> SUBSET Message]
  BY <1>4, <1>7
<1>9. TypeOK'
  <2>1. /\ connection' \in {"zmq", "serial"}
        /\ phase' \in [Client -> {"poll", "returned"}]
        /\ cmd' \in [Client -> Cmd]
        /\ tries' \in [Client -> Nat]
        /\ done' \in [Client -> BOOLEAN]
    BY DEF Call, TypeOK
  <2>2. got' \in [Client -> SUBSET Message]
    BY DEF Call, TypeOK
  <2>3. limit' \in Limits
    <3>1. limit \in Limits /\ limit' = [limit EXCEPT ![c] = r]
      BY DEF Call, TypeOK
    <3>. QED
      BY <3>1 DEF Limits
  <2>4. down' \in SUBSET Command /\ up' \in SUBSET Message
    BY <1>3, <1>6, <1>7 DEF Call
  <2>. QED
    BY <2>1, <2>2, <2>3, <2>4, <1>1, <1>8 DEF TypeOK
<1>10. ASSUME NEW d \in Client, NEW n \in 0 .. Range - 1, d = c => n + 1 < Range
       PROVE  Earlier(d, n) = Earlier(d, IF d = c THEN n + 1 ELSE n)'
  <2>1. CASE d = c
    <3>1. seqnum[c] \in SEQNUM_MIN .. SEQNUM_MAX - 1 /\ seqnum'[c] = IncSeqnum(seqnum[c])
      BY <1>1 DEF TypeOK
    <3>2. n + 1 < Range
      BY <2>1, <1>10
    <3>3. (IF seqnum'[c] - (n + 1) >= SEQNUM_MIN THEN seqnum'[c] - (n + 1)
           ELSE seqnum'[c] - (n + 1) + Range)
          = IF seqnum[c] - n >= SEQNUM_MIN THEN seqnum[c] - n ELSE seqnum[c] - n + Range
      BY <3>1, <3>2, EarlierAges
    <3>. QED
      BY <2>1, <3>3 DEF Earlier
  <2>2. CASE d # c
    BY <2>2, <1>1 DEF Earlier, TypeOK
  <2>. QED
    BY <2>1, <2>2
<1>11. ASSUME NEW m \in down'
       PROVE  m.hwid = Target[m.client] /\ m.seq = Earlier(m.client, m.age)'
  <2>1. CASE m = CommandOf(c, seqnum'[c], x)
    <3>1. m.client = c /\ m.age = 0 /\ m.hwid = Target[c] /\ m.seq = seqnum'[c]
      BY <2>1 DEF CommandOf
    <3>2. seqnum'[c] \in SEQNUM_MIN .. SEQNUM_MAX - 1
      BY <1>1
    <3>. QED
      BY <3>1, <3>2, HandlerAssumption DEF Earlier
  <2>2. CASE m \in Older(down, c)
    <3>1. PICK o \in down : /\ o.client = c => o.age + 1 < Range
                            /\ m.client = o.client /\ m.hwid = o.hwid /\ m.seq = o.seq
                            /\ m.age = IF o.client = c THEN o.age + 1 ELSE o.age
      BY <2>2, <1>5, OlderCommand
    <3>2. o.client \in Client /\ o.age \in 0 .. Range - 1
      BY <1>5 DEF Command
    <3>3. o.hwid = Target[o.client] /\ o.seq = Earlier(o.client, o.age)
      BY DEF MessageInv
    <3>. QED
      BY <3>1, <3>2, <3>3, <1>10
  <2>. QED
    BY <2>1, <2>2 DEF Call
<1>12. ASSUME NEW d \in Client, NEW m \in up' \cup inbox'[d]
       PROVE  IF m.client = NoClient THEN m.seq = 0
              ELSE /\ m.hwid = Target[m.client]
                   /\ m.seq = Earlier(m.client, m.age)'
                   /\ m.age = 0 => done'[m.client]
  <2>1. PICK o \in up \cup S[d] :
            /\ o.client = c => o.age + 1 < Range
            /\ m.client = o.client /\ m.hwid = o.hwid /\ m.seq = o.seq
            /\ m.age = IF o.client = c THEN o.age + 1 ELSE o.age
    <3>1. m \in Older(up, c) \/ m \in Older(S[d], c)
      BY <1>4 DEF Call
    <3>. QED
      BY <3>1, <1>5, OlderMessage
  <2>2. o.client \in Client \cup {NoClient} /\ o.age \in 0 .. Range - 1
    BY <1>5 DEF Message
  <2>4. CASE o.client = NoClient
    BY <2>1, <2>4, <1>5, HandlerAssumption DEF MessageInv
  <2>5. CASE o.client # NoClient
    <3>1. /\ o.hwid = Target[o.client] /\ o.seq = Earlier(o.client, o.age)
          /\ o.age = 0 => done[o.client]
      BY <2>5, <1>5 DEF MessageInv
    <3>2. m.seq = Earlier(m.client, m.age)'
      BY <3>1, <2>1, <2>2, <2>5, <1>10
    <3>3. m.age = 0 => done'[m.client]
      <4>1. m.age = 0 => o.client # c /\ o.age = 0
        BY <2>1, <2>2
      <4>2. done' = [done EXCEPT ![c] = FALSE] /\ done \in [Client -> BOOLEAN]
        BY DEF Call, TypeOK
      <4>. QED
        BY <4>1, <4>2, <3>1, <2>1, <2>2, <2>5
    <3>. QED
      BY <3>1, <3>2, <3>3, <2>1, <2>2, <2>5
  <2>. QED
    BY <2>4, <2>5
<1>13. MessageInv'
  BY <1>11, <1>12 DEF MessageInv
<1>14. ReplyIsOwn'
  BY DEF Call, ReplyIsOwn, TypeOK
<1>. QED
  BY <1>9, <1>13, <1>14

\* What every other step leaves as it is, and what that preserves.
LEMMA QuietInv ==
  ASSUME IInv, UNCHANGED <<connection, seqnum, cmd, limit>>,
         phase' \in [Client -> {"poll", "returned"}], tries' \in [Client -> Nat],
         got' \in [Client -> SUBSET Message], ReplyIsOwn',
         down' \in SUBSET Command, up' \in SUBSET Message,
         inbox' \in [Client -> SUBSET Message], done' \in [Client -> BOOLEAN],
         \A c \in Client : done[c] => done'[c],
         \A m \in down' : m.hwid = Target[m.client] /\ m.seq = Earlier(m.client, m.age),
         \A c \in Client : \A m \in up' \cup inbox'[c] :
           \/ \E d \in Client : m \in up \cup inbox[d]
           \/ m.client = NoClient /\ m.seq = 0
           \/ /\ m.client # NoClient /\ m.hwid = Target[m.client]
              /\ m.seq = Earlier(m.client, m.age) /\ (m.age = 0 => done'[m.client])
  PROVE  IInv'
<1>1. TypeOK'
  BY DEF IInv, TypeOK
<1>2. \A d, n : Earlier(d, n)' = Earlier(d, n)
  BY DEF Earlier
<1>3. ASSUME NEW m \in down'
      PROVE  m.hwid = Target[m.client] /\ m.seq = Earlier(m.client, m.age)'
  BY <1>2
<1>4. ASSUME NEW c \in Client, NEW m \in up' \cup inbox'[c]
      PROVE  IF m.client = NoClient THEN m.seq = 0
             ELSE /\ m.hwid = Target[m.client]
                  /\ m.seq = Earlier(m.client, m.age)'
                  /\ m.age = 0 => done'[m.client]
  <2>1. CASE \E d \in Client : m \in up \cup inbox[d]
    <3>1. IF m.client = NoClient THEN m.seq = 0
          ELSE /\ m.hwid = Target[m.client]
               /\ m.seq = Earlier(m.client, m.age)
               /\ m.age = 0 => done[m.client]
      BY <2>1 DEF IInv, MessageInv
    <3>2. m.client \in Client \cup {NoClient}
      BY <2>1 DEF IInv, TypeOK, Message
    <3>. QED
      BY <3>1, <3>2, <1>2
  <2>2. CASE m.client = NoClient /\ m.seq = 0
    BY <2>2
  <2>3. CASE /\ m.client # NoClient /\ m.hwid = Target[m.client]
             /\ m.seq = Earlier(m.client, m.age) /\ (m.age = 0 => done'[m.client])
    BY <2>3, <1>2
  <2>. QED
    BY <2>1, <2>2, <2>3
<1>5. MessageInv'
  BY <1>3, <1>4 DEF MessageInv
<1>. QED
  BY <1>1, <1>5 DEF IInv

\* A message whose hwid and number are those of the handler's command is a
\* reply to it: hwids tell the handlers apart, and the age is less than Range.
LEMMA ReplyBelongs ==
  ASSUME IInv, NEW c \in Client, NEW m \in inbox[c], IsReply(c, m)
  PROVE  m.client = c /\ m.age = 0 /\ done[c]
<1>1. m \in Message /\ seqnum[c] \in SEQNUM_MIN .. SEQNUM_MAX - 1
  BY DEF IInv, TypeOK
<1>2. m.client # NoClient
  <2>1. m.client = NoClient => m.seq = 0
    BY DEF IInv, MessageInv
  <2>. QED
    BY <1>1, <2>1, HandlerAssumption DEF IsReply
<1>3. m.client \in Client /\ m.age \in 0 .. Range - 1
  BY <1>1, <1>2 DEF Message
<1>4. /\ m.hwid = Target[m.client] /\ m.seq = Earlier(m.client, m.age)
      /\ m.age = 0 => done[m.client]
  BY <1>2 DEF IInv, MessageInv
<1>5. m.client = c
  BY <1>3, <1>4, HandlerAssumption DEF IsReply
<1>6. m.age = 0
  <2>1. Earlier(c, m.age) = seqnum[c]
    BY <1>4, <1>5 DEF IsReply
  <2>. QED
    BY <2>1, <1>1, <1>3, HandlerAssumption, SMT DEF Earlier, Range
<1>. QED
  BY <1>4, <1>5, <1>6

\* Taking a message, the reply or another, keeps the invariant.
LEMMA PollInv == ASSUME IInv, NEW c \in Client, NEW m \in inbox[c], Poll(c, m) PROVE IInv'
<1>1. /\ phase' \in [Client -> {"poll", "returned"}] /\ tries' \in [Client -> Nat]
      /\ got' \in [Client -> SUBSET Message]
  BY DEF Poll, IInv, TypeOK
<1>2. /\ inbox' \in [Client -> SUBSET Message]
      /\ \A d \in Client : inbox'[d] \subseteq inbox[d]
  BY DEF Poll, IInv, TypeOK
<1>3. ReplyIsOwn'
  <2>1. CASE IsReply(c, m)
    <3>1. m.client = c /\ m.age = 0
      BY <2>1, ReplyBelongs
    <3>2. got' = [got EXCEPT ![c] = {m}]
      BY <2>1 DEF Poll
    <3>. QED
      BY <3>1, <3>2 DEF IInv, TypeOK, ReplyIsOwn
  <2>2. CASE ~IsReply(c, m)
    BY <2>2 DEF Poll, IInv, ReplyIsOwn
  <2>. QED
    BY <2>1, <2>2
<1>4. /\ UNCHANGED <<connection, seqnum, cmd, limit, down, up, done>>
      /\ done \in [Client -> BOOLEAN] /\ down \in SUBSET Command /\ up \in SUBSET Message
  BY DEF Poll, IInv, TypeOK
<1>5. \A o \in down' : o.hwid = Target[o.client] /\ o.seq = Earlier(o.client, o.age)
  BY <1>4 DEF IInv, MessageInv
<1>. QED
  BY <1>1, <1>2, <1>3, <1>4, <1>5, QuietInv

\* So does sending the command again,
LEMMA RetryInv == ASSUME IInv, NEW c \in Client, Retry(c) PROVE IInv'
<1>1. /\ phase' \in [Client -> {"poll", "returned"}]
      /\ got' \in [Client -> SUBSET Message] /\ ReplyIsOwn'
  BY DEF Retry, IInv, TypeOK, ReplyIsOwn
<1>2. tries' \in [Client -> Nat]
  BY DEF Retry, IInv, TypeOK
<1>3. /\ inbox' \in [Client -> SUBSET Message]
      /\ \A d \in Client : inbox'[d] \subseteq inbox[d]
  BY FlushTakes DEF Retry, IInv, TypeOK
<1>4. /\ UNCHANGED <<connection, seqnum, cmd, limit, up, done>>
      /\ done \in [Client -> BOOLEAN] /\ up \in SUBSET Message
      /\ down' = down \cup {CommandOf(c, seqnum[c], cmd[c])}
  BY DEF Retry, IInv, TypeOK
<1>5. /\ CommandOf(c, seqnum[c], cmd[c]) \in Command
      /\ CommandOf(c, seqnum[c], cmd[c]).client = c
      /\ CommandOf(c, seqnum[c], cmd[c]).hwid = Target[c]
      /\ CommandOf(c, seqnum[c], cmd[c]).seq = seqnum[c]
      /\ CommandOf(c, seqnum[c], cmd[c]).age = 0
  <2>1. 0 \in 0 .. Range - 1
    BY HandlerAssumption DEF Range
  <2>. QED
    BY <2>1, HandlerAssumption DEF CommandOf, Command, IInv, TypeOK
<1>6. Earlier(c, 0) = seqnum[c]
  BY HandlerAssumption DEF Earlier, IInv, TypeOK
<1>7. \A o \in down' : o.hwid = Target[o.client] /\ o.seq = Earlier(o.client, o.age)
  BY <1>4, <1>5, <1>6 DEF IInv, MessageInv
<1>8. down' \in SUBSET Command
  BY <1>4, <1>5 DEF IInv, TypeOK
<1>. QED
  BY <1>1, <1>2, <1>3, <1>4, <1>7, <1>8, QuietInv

\* giving up,
LEMMA GiveUpInv == ASSUME IInv, NEW c \in Client, GiveUp(c) PROVE IInv'
<1>1. /\ phase' \in [Client -> {"poll", "returned"}] /\ tries' \in [Client -> Nat]
      /\ UNCHANGED <<connection, seqnum, cmd, limit, got, down, up, inbox, done>>
  BY DEF GiveUp, netVars, IInv, TypeOK
<1>2. TypeOK /\ ReplyIsOwn'
  BY <1>1 DEF IInv, ReplyIsOwn
<1>3. \A o \in down' : o.hwid = Target[o.client] /\ o.seq = Earlier(o.client, o.age)
  BY <1>1 DEF IInv, MessageInv
<1>. QED
  BY <1>1, <1>2, <1>3, QuietInv DEF TypeOK

\* a loss,
LEMMA LoseInv == ASSUME IInv, LoseCommand \/ LoseMessage PROVE IInv'
<1>1. /\ UNCHANGED <<connection, seqnum, phase, cmd, limit, tries, got, inbox, done>>
      /\ down' \subseteq down /\ up' \subseteq up
  BY DEF LoseCommand, LoseMessage, callVars
<1>2. TypeOK /\ ReplyIsOwn'
  BY <1>1 DEF IInv, ReplyIsOwn
<1>3. \A o \in down' : o.hwid = Target[o.client] /\ o.seq = Earlier(o.client, o.age)
  BY <1>1 DEF IInv, MessageInv
<1>4. down' \in SUBSET Command /\ up' \in SUBSET Message
  BY <1>1, <1>2 DEF TypeOK
<1>. QED
  BY <1>1, <1>2, <1>3, <1>4, QuietInv DEF TypeOK

\* a delivery,
LEMMA DeliverInv == ASSUME IInv, NEW m \in up, Deliver(m) PROVE IInv'
<1>1. /\ UNCHANGED <<connection, seqnum, phase, cmd, limit, tries, got, down, done>>
      /\ up' \subseteq up
      /\ \A c \in Client : inbox'[c] \subseteq inbox[c] \cup {m}
  BY DEF Deliver, callVars
<1>2. TypeOK /\ ReplyIsOwn'
  BY <1>1 DEF IInv, ReplyIsOwn
<1>3. inbox' \in [Client -> SUBSET Message]
  BY <1>2 DEF Deliver, TypeOK
<1>4. \A o \in down' : o.hwid = Target[o.client] /\ o.seq = Earlier(o.client, o.age)
  BY <1>1 DEF IInv, MessageInv
<1>5. up' \in SUBSET Message
  BY <1>1, <1>2 DEF TypeOK
<1>. QED
  BY <1>1, <1>2, <1>3, <1>4, <1>5, QuietInv DEF TypeOK

\* A reply has the hwid, the number and the age of the command it answers.
LEMMA HandleInv ==
  ASSUME IInv, NEW m \in down, NEW keep \in BOOLEAN, NEW re \in Re, Handle(m, keep, re)
  PROVE  IInv'
<1>1. m \in Command /\ m.client \in Client
  BY DEF IInv, TypeOK, Command
<1>2. /\ UNCHANGED <<connection, seqnum, phase, cmd, limit, tries, got, inbox>>
      /\ down' \subseteq down /\ up' = up \cup {Reply(m, re)}
  BY DEF Handle, callVars
<1>3. done' \in [Client -> BOOLEAN] /\ \A c \in Client : done[c] => done'[c]
  BY <1>1 DEF Handle, IInv, TypeOK
<1>4. m.age = 0 => done'[m.client]
  BY <1>1 DEF Handle, IInv, TypeOK
<1>5. /\ Reply(m, re).client = m.client /\ Reply(m, re).age = m.age
      /\ Reply(m, re).hwid = m.hwid /\ Reply(m, re).seq = m.seq
  BY DEF Reply
<1>6. Reply(m, re) \in Message
  <2>1. SEQNUM_MIN .. SEQNUM_MAX - 1 \subseteq 0 .. SEQNUM_MAX - 1
    BY HandlerAssumption
  <2>. QED
    BY <1>1, <2>1 DEF Reply, Command, Message
<1>7. m.hwid = Target[m.client] /\ m.seq = Earlier(m.client, m.age)
  BY DEF IInv, MessageInv
<1>8. m.client # NoClient
  BY <1>1, HandlerAssumption
<1>9. TypeOK /\ ReplyIsOwn'
  BY <1>2 DEF IInv, ReplyIsOwn
<1>10. \A o \in down' : o.hwid = Target[o.client] /\ o.seq = Earlier(o.client, o.age)
  BY <1>2 DEF IInv, MessageInv
<1>11. down' \in SUBSET Command /\ up' \in SUBSET Message
  BY <1>2, <1>6, <1>9 DEF TypeOK
<1>12. \A c \in Client : \A o \in up' \cup inbox'[c] :
           \/ \E d \in Client : o \in up \cup inbox[d]
           \/ o.client = NoClient /\ o.seq = 0
           \/ /\ o.client # NoClient /\ o.hwid = Target[o.client]
              /\ o.seq = Earlier(o.client, o.age) /\ (o.age = 0 => done'[o.client])
  BY <1>2, <1>4, <1>5, <1>7, <1>8
<1>. QED
  BY <1>2, <1>3, <1>9, <1>10, <1>11, <1>12, QuietInv DEF TypeOK

\* A text keeps it, because no command has its number.
LEMMA SendTextInv == ASSUME IInv, NEW n \in Printing, NEW text \in Re, SendText(n, text) PROVE IInv'
<1>. DEFINE t == [client |-> NoClient, age |-> 0, hwid |-> n, seq |-> 0, re |-> text]
<1>1. /\ UNCHANGED <<connection, seqnum, phase, cmd, limit, tries, got, down, inbox, done>>
      /\ up' = up \cup {t}
  BY DEF SendText, callVars
<1>2. t \in Message
  <2>1. 0 \in 0 .. Range - 1 /\ 0 \in 0 .. SEQNUM_MAX - 1 /\ n \in Node
    BY HandlerAssumption DEF Range
  <2>. QED
    BY <2>1 DEF Message
<1>3. t.client = NoClient /\ t.seq = 0
  OBVIOUS
<1>. HIDE DEF t
<1>4. TypeOK /\ ReplyIsOwn'
  BY <1>1 DEF IInv, ReplyIsOwn
<1>5. \A o \in down' : o.hwid = Target[o.client] /\ o.seq = Earlier(o.client, o.age)
  BY <1>1 DEF IInv, MessageInv
<1>6. up' \in SUBSET Message
  BY <1>1, <1>2, <1>4 DEF TypeOK
<1>. QED
  BY <1>1, <1>3, <1>4, <1>5, <1>6, QuietInv DEF TypeOK

\* No step falsifies the invariant.
LEMMA NextInv == IInv /\ [Next]_vars => IInv'
<1>. SUFFICES ASSUME IInv, [Next]_vars PROVE IInv'
  OBVIOUS
<1>1. ASSUME NEW c \in Client, NEW x \in Cmd, NEW r \in RetryLimit[c], Call(c, x, r) PROVE IInv'
  BY <1>1, CallInv
<1>2. ASSUME NEW c \in Client, NEW m \in inbox[c], Poll(c, m) PROVE IInv'
  BY <1>2, PollInv
<1>3. ASSUME NEW c \in Client, Retry(c) PROVE IInv'
  BY <1>3, RetryInv
<1>4. ASSUME NEW c \in Client, GiveUp(c) PROVE IInv'
  BY <1>4, GiveUpInv
<1>5. CASE LoseCommand \/ LoseMessage
  BY <1>5, LoseInv
<1>6. ASSUME NEW m \in up, Deliver(m) PROVE IInv'
  BY <1>6, DeliverInv
<1>7. ASSUME NEW m \in down, NEW keep \in BOOLEAN, NEW re \in Re, Handle(m, keep, re) PROVE IInv'
  BY <1>7, HandleInv
<1>8. ASSUME NEW n \in Printing, NEW text \in Re, SendText(n, text) PROVE IInv'
  BY <1>8, SendTextInv
<1>9. CASE UNCHANGED vars
  BY <1>9
     DEF vars, callVars, netVars, IInv, TypeOK, MessageInv, ReplyIsOwn, Earlier, Limits
<1>. QED
  BY <1>1, <1>2, <1>3, <1>4, <1>5, <1>6, <1>7, <1>8, <1>9
     DEF Next, Tool, Network, Nodes

\* The messages under way always belong to the commands their hwids and
\* numbers say (commands.py:62-63, radio/commands.c:42-52).
THEOREM HostInvariant == Spec => []IInv
<1>1. Init => IInv
  BY InitInv
<1>2. IInv /\ [Next]_vars => IInv'
  BY NextInv
<1>. QED
  BY <1>1, <1>2, PTL DEF Spec

\* Sequence numbers stay above the reserved ones and within 16 bits.
THEOREM TypeCorrect == Spec => []TypeOK
<1>1. IInv => TypeOK
  BY DEF IInv
<1>. QED
  BY <1>1, HostInvariant, PTL

\* A call returns only a reply to its own command (commands.py:65-68).
THEOREM OwnReplies == Spec => []ReplyIsOwn
<1>1. IInv => ReplyIsOwn
  BY DEF IInv
<1>. QED
  BY <1>1, HostInvariant, PTL

-----------------------------------------------------------------------------
\* The state of RemoteCall that a state of the handlers stands for.
CallState == [c \in Client |-> IF phase[c] = "poll" THEN "calling"
                              ELSE IF got[c] = {} THEN "none" ELSE "answered"]

\* A call under way has no reply yet.
NothingGot == \A c \in Client : phase[c] = "poll" => got[c] = {}

\* It is kept by every step.
LEMMA NothingGotStep == IInv /\ NothingGot /\ [Next]_vars => NothingGot'
<1>. SUFFICES ASSUME IInv, NothingGot, [Next]_vars PROVE NothingGot'
  OBVIOUS
<1>0. /\ phase \in [Client -> {"poll", "returned"}] /\ got \in [Client -> SUBSET Message]
  BY DEF IInv, TypeOK
<1>1. ASSUME NEW c \in Client, NEW x \in Cmd, NEW r \in RetryLimit[c], Call(c, x, r) PROVE NothingGot'
  BY <1>0, <1>1 DEF Call, NothingGot
<1>2. ASSUME NEW c \in Client, NEW m \in inbox[c], Poll(c, m) PROVE NothingGot'
  BY <1>0, <1>2 DEF Poll, NothingGot
<1>3. ASSUME NEW c \in Client, GiveUp(c) PROVE NothingGot'
  BY <1>0, <1>3 DEF GiveUp, NothingGot
<1>4. CASE UNCHANGED <<phase, got>>
  BY <1>4 DEF NothingGot
<1>. QED
  BY <1>1, <1>2, <1>3, <1>4
     DEF Next, Tool, Network, Nodes, Retry, LoseCommand, LoseMessage,
     Deliver, Handle, SendText, callVars, vars

\* Every step of a handler, the network or a node is one step of RemoteCall or
\* leaves its state alone.
LEMMA StepPromised ==
  ASSUME IInv, NothingGot, [Next]_vars
  PROVE  [Promise!Next]_(Promise!promiseVars)
<1>. USE DEF CallState
<1>0. /\ phase \in [Client -> {"poll", "returned"}] /\ got \in [Client -> SUBSET Message]
      /\ done \in [Client -> BOOLEAN]
  BY DEF IInv, TypeOK
<1>1. ASSUME NEW c \in Client, NEW x \in Cmd, NEW r \in RetryLimit[c], Call(c, x, r)
      PROVE  Promise!Call(c)
  BY <1>0, <1>1 DEF Call, Promise!Call
<1>2. ASSUME NEW c \in Client, NEW m \in inbox[c], Poll(c, m)
      PROVE  Promise!Answer(c) \/ UNCHANGED <<CallState, done>>
  <2>1. CASE IsReply(c, m)
    <3>1. done[c]
      BY <2>1, ReplyBelongs
    <3>2. /\ phase[c] = "poll" /\ phase' = [phase EXCEPT ![c] = "returned"]
          /\ got' = [got EXCEPT ![c] = {m}] /\ UNCHANGED done
      BY <1>2, <2>1 DEF Poll
    <3>3. CallState' = [CallState EXCEPT ![c] = "answered"]
      BY <1>0, <3>2
    <3>. QED
      BY <1>0, <3>1, <3>2, <3>3 DEF Promise!Answer
  <2>2. CASE ~IsReply(c, m)
    BY <1>2, <2>2 DEF Poll
  <2>. QED
    BY <2>1, <2>2
<1>3. ASSUME NEW c \in Client, Retry(c) PROVE UNCHANGED <<CallState, done>>
  BY <1>3 DEF Retry
<1>4. ASSUME NEW c \in Client, GiveUp(c) PROVE Promise!GiveUp(c)
  <2>1. /\ phase[c] = "poll" /\ phase' = [phase EXCEPT ![c] = "returned"]
        /\ UNCHANGED <<got, done>> /\ got[c] = {}
    BY <1>4 DEF GiveUp, NothingGot
  <2>2. CallState' = [CallState EXCEPT ![c] = "none"]
    BY <1>0, <2>1
  <2>. QED
    BY <1>0, <2>1, <2>2 DEF Promise!GiveUp
<1>5. ASSUME LoseCommand \/ LoseMessage PROVE UNCHANGED <<CallState, done>>
  BY <1>5 DEF LoseCommand, LoseMessage, callVars
<1>6. ASSUME NEW m \in up, Deliver(m) PROVE UNCHANGED <<CallState, done>>
  BY <1>6 DEF Deliver, callVars
<1>7. ASSUME NEW m \in down, NEW keep \in BOOLEAN, NEW re \in Re, Handle(m, keep, re)
      PROVE  m.client \in Client /\ (Promise!CarryOut(m.client) \/ UNCHANGED <<CallState, done>>)
  <2>1. m.client \in Client
    BY DEF IInv, TypeOK, Command
  <2>2. UNCHANGED <<phase, got>>
    BY <1>7 DEF Handle, callVars
  <2>. QED
    BY <1>7, <2>1, <2>2 DEF Handle, Promise!CarryOut
<1>8. ASSUME NEW n \in Printing, NEW text \in Re, SendText(n, text)
      PROVE  UNCHANGED <<CallState, done>>
  BY <1>8 DEF SendText, callVars
<1>9. CASE UNCHANGED vars
  BY <1>9 DEF vars, callVars, Promise!promiseVars
<1>10. CASE Next
  <2>1. UNCHANGED <<CallState, done>> => UNCHANGED Promise!promiseVars
    BY DEF Promise!promiseVars
  <2>. HIDE DEF CallState
  <2>2. \A c \in Client : Promise!Call(c) \/ Promise!CarryOut(c) \/ Promise!Answer(c)
                           \/ Promise!GiveUp(c) => Promise!Next
    BY DEF Promise!Next
  <2>. QED
    BY <1>1, <1>2, <1>3, <1>4, <1>5, <1>6, <1>7, <1>8, <1>10, <2>1, <2>2
       DEF Next, Tool, Network, Nodes
<1>. QED
  BY <1>9, <1>10

\* A call that returns a reply was carried out by the node since it began
\* (commands.py:112-124 with radio/commands.c:42-52).
THEOREM Refinement == Spec => ImplementsRemoteCall
<1>1. Init => Promise!Init
  BY DEF Init, Promise!Init
<1>2. IInv /\ NothingGot /\ [Next]_vars => [Promise!Next]_(Promise!promiseVars)
  BY StepPromised
<1>3. Spec => []NothingGot
  <2>1. Init => NothingGot
    BY DEF Init, NothingGot
  <2>2. IInv /\ NothingGot /\ [Next]_vars => NothingGot'
    BY NothingGotStep
  <2>. QED
    BY <2>1, <2>2, HostInvariant, PTL DEF Spec
<1>. QED
  BY <1>1, <1>2, <1>3, HostInvariant, PTL DEF Spec, ImplementsRemoteCall, Promise!Spec
=============================================================================
