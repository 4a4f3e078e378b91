---------------------------- MODULE UartRxProofs ----------------------------
(***************************************************************************)
(* Proofs about the serial receiver: its inductive invariant, that a       *)
(* finished message is never overwritten, and that the receiver implements *)
(* the mailbox.  All of it holds for any set of bytes, any payload limit   *)
(* and any number of buffers.                                              *)
(***************************************************************************)
EXTENDS UartRx, TLAPS

\* The receiver starts in its invariant.
LEMMA InitInv == Init => IInv
  BY SizeAssumption, ByteAssumption
  DEF Init, IInv, TypeOK, FillingIsPrivate, CopyIsFaithful, FinishedIsNotEmpty,
      EspState, Buffer, Position

\* One step of the interrupt or of the main loop keeps the invariant.
LEMMA NextInv == IInv /\ [Next]_vars => IInv'
<1> SUFFICES ASSUME IInv, [Next]_vars PROVE IInv'
  OBVIOUS
<1> USE SizeAssumption, ByteAssumption
    DEF IInv, TypeOK, FillingIsPrivate, CopyIsFaithful, FinishedIsNotEmpty,
        EspState, Buffer, Position, isrVars, mainVars
<1>1. ASSUME NEW c \in Byte, WaitForStart0(c) PROVE IInv'
  BY <1>1 DEF WaitForStart0
<1>2. ASSUME NEW c \in Byte, WaitForStart1(c) PROVE IInv'
  BY <1>2 DEF WaitForStart1
<1>3. ASSUME NEW c \in Byte, RejectLength(c) PROVE IInv'
  BY <1>3 DEF RejectLength
<1>4. ASSUME NEW c \in Byte, Overrun(c) PROVE IInv'
  BY <1>4 DEF Overrun
<1>5. ASSUME NEW c \in Byte, ClaimBuffer(c) PROVE IInv'
  <2>1. PICK b \in Buffer : FirstFree(b) /\ rx_active_buffer' = b
                            /\ rx_buffer_len' = [rx_buffer_len EXCEPT ![b] = c]
    BY <1>5 DEF ClaimBuffer
  <2> QED
    BY <1>5, <2>1 DEF ClaimBuffer, FirstFree, LengthOK
<1>6. ASSUME NEW c \in Byte, ReceiveData(c) PROVE IInv'
  <2>1. rx_buffer_offset \in Position /\ rx_buffer_offset' \in 0 .. ESP_MAX_PAYLOAD
    BY <1>6 DEF ReceiveData
  <2>2. TypeOK'
    BY <1>6, <2>1 DEF ReceiveData
  <2>3. FillingIsPrivate'
    BY <1>6, <2>1 DEF ReceiveData
  <2>4. CopyIsFaithful'
    <3>1. CASE pc = "copy"
      <4>1. i # rx_active_buffer
        BY <1>6, <3>1 DEF ReceiveData
      <4>2. rx_buffer'[i] = rx_buffer[i] /\ rx_buffer_ready'[i]
        BY <1>6, <3>1, <4>1 DEF ReceiveData
      <4> QED
        BY <1>6, <3>1, <4>2 DEF ReceiveData
    <3>2. CASE pc # "copy"
      BY <1>6, <3>2 DEF ReceiveData
    <3> QED
      BY <3>1, <3>2
  <2>5. FinishedIsNotEmpty'
    BY <1>6 DEF ReceiveData
  <2> QED
    BY <2>2, <2>3, <2>4, <2>5
<1>7. CASE GetMessage
  BY <1>7 DEF GetMessage
<1>8. CASE NotReady
  BY <1>8 DEF NotReady
<1>9. CASE NoMessage
  BY <1>9 DEF NoMessage
<1>10. CASE Found
  BY <1>10 DEF Found
<1>11. CASE CopyByte
  <2>1. copied \in Position
    BY <1>11 DEF CopyByte
  <2> QED
    BY <1>11, <2>1 DEF CopyByte
<1>12. CASE Release
  BY <1>12 DEF Release
<1>13. CASE Handled
  BY <1>13 DEF Handled
<1>14. CASE UNCHANGED vars
  BY <1>14 DEF vars
<1> QED
  BY <1>1, <1>2, <1>3, <1>4, <1>5, <1>6, <1>7, <1>8, <1>9, <1>10, <1>11,
     <1>12, <1>13, <1>14
  DEF Next, RxIsr, MainLoop

\* The invariant of the receiver holds in every reachable state.
THEOREM ReceiverInvariant == Spec => []IInv
  BY InitInv, NextInv, PTL DEF Spec

\* Type correctness alone is not inductive (the offset stays in range only
\* because a buffer is never filled beyond its length), so it is a corollary.
THEOREM TypeCorrect == Spec => []TypeOK
<1>1. IInv => TypeOK
  BY DEF IInv
<1> QED
  BY <1>1, ReceiverInvariant, PTL

\* The interrupt never fills the buffer the main loop is copying from.
THEOREM DisjointBuffers == Spec => []BuffersDisjoint
<1>1. IInv => BuffersDisjoint
  BY DEF IInv, FillingIsPrivate, CopyIsFaithful, BuffersDisjoint
<1> QED
  BY <1>1, ReceiverInvariant, PTL

\* What the main loop has copied is what the buffer it copies holds.
THEOREM FaithfulCopy == Spec => []CopyIsFaithful
<1>1. IInv => CopyIsFaithful
  BY DEF IInv
<1> QED
  BY <1>1, ReceiverInvariant, PTL

-----------------------------------------------------------------------------

\* One step of the receiver leaves a finished message as it is: the bytes and
\* the length of a ready buffer do not change.
LEMMA StepKeepsFinished ==
  ASSUME IInv, [Next]_vars
  PROVE  \A b \in Buffer : rx_buffer_ready[b] =>
           /\ rx_buffer'[b] = rx_buffer[b]
           /\ rx_buffer_len'[b] = rx_buffer_len[b]
<1> SUFFICES ASSUME NEW b \in Buffer, rx_buffer_ready[b]
             PROVE  /\ rx_buffer'[b] = rx_buffer[b]
                    /\ rx_buffer_len'[b] = rx_buffer_len[b]
  OBVIOUS
<1> USE DEF IInv, TypeOK
<1>1. ASSUME NEW c \in Byte, ClaimBuffer(c)
      PROVE  rx_buffer' = rx_buffer /\ rx_buffer_len'[b] = rx_buffer_len[b]
  BY <1>1 DEF ClaimBuffer, FirstFree
<1>2. ASSUME NEW c \in Byte, ReceiveData(c)
      PROVE  rx_buffer'[b] = rx_buffer[b] /\ rx_buffer_len' = rx_buffer_len
  BY <1>2 DEF ReceiveData, FillingIsPrivate
<1>3. ASSUME NEW c \in Byte,
             WaitForStart0(c) \/ WaitForStart1(c) \/ RejectLength(c) \/ Overrun(c)
      PROVE  UNCHANGED <<rx_buffer, rx_buffer_len>>
  BY <1>3 DEF WaitForStart0, WaitForStart1, RejectLength, Overrun
<1>4. CASE MainLoop \/ UNCHANGED vars
  BY <1>4 DEF MainLoop, GetMessage, NotReady, NoMessage, Found, CopyByte,
              Release, Handled, vars, isrVars
<1> QED
  BY <1>1, <1>2, <1>3, <1>4 DEF Next, RxIsr

\* A finished message is never overwritten before it is released.
THEOREM NeverOverwritten == Spec => NoOverwrite
<1>1. IInv /\ [Next]_vars =>
        [\A b \in Buffer : rx_buffer_ready[b] =>
           /\ rx_buffer'[b] = rx_buffer[b]
           /\ rx_buffer_len'[b] = rx_buffer_len[b]]_vars
  BY StepKeepsFinished
<1> QED
  BY <1>1, ReceiverInvariant, PTL DEF Spec, NoOverwrite

-----------------------------------------------------------------------------
\* The receiver implements the mailbox.

\* A message with at least one byte is a message, and is not Nothing.
LEMMA PrefixIsMessage ==
  ASSUME NEW bytes \in [Position -> Byte], NEW n \in 1 .. ESP_MAX_PAYLOAD
  PROVE  Prefix(bytes, n) \in Message /\ Prefix(bytes, n) # Nothing
<1>1. Prefix(bytes, n) \in [0 .. n - 1 -> Byte]
  BY SizeAssumption DEF Prefix, Position
<1>2. 0 \in DOMAIN Prefix(bytes, n)
  BY DEF Prefix
<1>3. DOMAIN Nothing = {}
  BY DEF Nothing
<1> QED
  BY <1>1, <1>2, <1>3 DEF Message

\* The constants of the mailbox satisfy its assumption.
LEMMA NothingIsNoMessage == Nothing \notin Message
<1> SUFFICES ASSUME NEW n \in 1 .. ESP_MAX_PAYLOAD, Nothing \in [0 .. n - 1 -> Byte]
             PROVE  FALSE
  BY DEF Message
<1>1. DOMAIN Nothing = {} /\ 0 \in 0 .. n - 1
  BY DEF Nothing
<1> QED
  BY <1>1

\* The initial states of the receiver are empty mailboxes.
LEMMA InitMaps == Init => Box!Init
  BY DEF Init, Box!Init, slotBar, takenBar

\* The last byte of a message puts the message into the mailbox, and every
\* other byte of it leaves the mailbox alone.
LEMMA ReceiveMaps ==
  ASSUME IInv, NEW c \in Byte, ReceiveData(c)
  PROVE  [Box!Next]_(Box!mailboxVars)
<1> DEFINE a == rx_active_buffer
<1> USE DEF IInv, TypeOK
<1>1. takenBar' = takenBar
  BY DEF ReceiveData, takenBar, mainVars, Prefix
<1>2. ~ rx_buffer_ready[a] /\ a \in Buffer
  BY DEF ReceiveData, FillingIsPrivate
<1>3. \A b \in Buffer : b # a => slotBar'[b] = slotBar[b]
  BY DEF ReceiveData, slotBar, Prefix
<1>4. CASE rx_buffer_ready' = rx_buffer_ready
  <2>1. slotBar'[a] = slotBar[a]
    BY <1>2, <1>4 DEF slotBar
  <2>2. slotBar' = slotBar
    BY <2>1, <1>3 DEF slotBar
  <2> QED
    BY <1>1, <2>2 DEF Box!mailboxVars
<1>5. CASE rx_buffer_ready' = [rx_buffer_ready EXCEPT ![a] = TRUE]
  <2> DEFINE m == Prefix(rx_buffer'[a], rx_buffer_len[a])
  <2>1. rx_buffer'[a] \in [Position -> Byte]
    BY DEF ReceiveData, FillingIsPrivate, Position
  <2>2. rx_buffer_len[a] \in 1 .. ESP_MAX_PAYLOAD
    BY <1>2, SizeAssumption DEF ReceiveData, FillingIsPrivate
  <2>3. m \in Message
    BY <2>1, <2>2, PrefixIsMessage
  <2>4. slotBar[a] = Nothing
    BY <1>2 DEF slotBar
  <2>5. slotBar'[a] = m
    BY <1>2, <1>5 DEF ReceiveData, slotBar
  <2>6. slotBar' = [slotBar EXCEPT ![a] = m]
    BY <2>5, <1>2, <1>3 DEF slotBar
  <2>7. Box!Put(a, m)
    BY <2>4, <2>6, <1>1 DEF Box!Put
  <2> QED
    BY <2>3, <2>7, <1>2 DEF Box!Next
<1> QED
  BY <1>4, <1>5 DEF ReceiveData

\* Releasing a buffer takes its message out of the mailbox: the copy in buf
\* is the message the buffer held.
LEMMA ReleaseMaps ==
  ASSUME IInv, Release
  PROVE  Box!Next
<1> USE DEF IInv, TypeOK
<1>1. i \in Buffer /\ rx_buffer_ready[i] /\ len = rx_buffer_len[i] /\ copied = len
  BY DEF Release, CopyIsFaithful
<1>2. len \in 1 .. ESP_MAX_PAYLOAD
  BY <1>1 DEF FinishedIsNotEmpty
<1>3. slotBar[i] = Prefix(rx_buffer[i], len)
  BY <1>1 DEF slotBar
<1>4. Prefix(buf, len) = Prefix(rx_buffer[i], len)
  BY <1>1 DEF Prefix, CopyIsFaithful, Release
<1>5. takenBar = Nothing /\ takenBar' = slotBar[i]
  BY <1>3, <1>4 DEF takenBar, Release
<1>6. slotBar[i] # Nothing
  BY <1>1, <1>2, <1>3, PrefixIsMessage
<1>7. slotBar' = [slotBar EXCEPT ![i] = Nothing]
  BY <1>1 DEF Release, slotBar, isrVars
<1>8. Box!Take(i)
  BY <1>5, <1>6, <1>7 DEF Box!Take
<1> QED
  BY <1>1, <1>8 DEF Box!Next

\* Every step of the receiver is a step of the mailbox or leaves it alone.
LEMMA NextMaps ==
  ASSUME IInv, [Next]_vars
  PROVE  [Box!Next]_(Box!mailboxVars)
<1> USE DEF IInv, TypeOK, mainVars, isrVars
<1>1. ASSUME NEW c \in Byte,
             WaitForStart0(c) \/ WaitForStart1(c) \/ RejectLength(c) \/ Overrun(c)
      PROVE  UNCHANGED Box!mailboxVars
  BY <1>1 DEF WaitForStart0, WaitForStart1, RejectLength, Overrun,
              Box!mailboxVars, slotBar, takenBar
<1>2. ASSUME NEW c \in Byte, ClaimBuffer(c)
      PROVE  UNCHANGED Box!mailboxVars
  <2>1. \A b \in Buffer : slotBar'[b] = slotBar[b]
    BY <1>2 DEF ClaimBuffer, FirstFree, slotBar
  <2>2. slotBar' = slotBar
    BY <2>1 DEF slotBar
  <2> QED
    BY <1>2, <2>2 DEF ClaimBuffer, takenBar, Box!mailboxVars
<1>3. CASE GetMessage \/ NotReady \/ NoMessage \/ Found
  BY <1>3 DEF GetMessage, NotReady, NoMessage, Found, Box!mailboxVars,
              slotBar, takenBar
<1>4. CASE CopyByte
  BY <1>4 DEF CopyByte, Box!mailboxVars, slotBar, takenBar
<1>5. CASE Handled
  <2>1. takenBar # Nothing
    BY <1>5, PrefixIsMessage DEF Handled, takenBar, FinishedIsNotEmpty
  <2>2. takenBar' = Nothing /\ slotBar' = slotBar
    BY <1>5 DEF Handled, takenBar, slotBar
  <2> QED
    BY <2>1, <2>2 DEF Box!Next, Box!Done
<1>6. CASE UNCHANGED vars
  BY <1>6 DEF vars, Box!mailboxVars, slotBar, takenBar
<1> QED
  BY <1>1, <1>2, <1>3, <1>4, <1>5, <1>6, ReceiveMaps, ReleaseMaps
  DEF Next, RxIsr, MainLoop

\* Refinement: every behaviour of the receiver is a behaviour of the mailbox,
\* so messages reach the input handler whole, unmixed and at most once.
THEOREM Refinement == Spec => ImplementsMailbox
<1>1. IInv /\ [Next]_vars => [Box!Next]_(Box!mailboxVars)
  BY NextMaps
<1> QED
  BY <1>1, InitMaps, ReceiverInvariant, PTL DEF Spec, ImplementsMailbox, Box!Spec
=============================================================================
