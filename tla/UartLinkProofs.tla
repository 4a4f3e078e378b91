--------------------------- MODULE UartLinkProofs ---------------------------
(***************************************************************************)
(* Proofs about the serial receiver at the end of a line: it finds the     *)
(* frame boundary again after any losses, and, on a line that loses        *)
(* nothing, gives its handler no message that was not sent, nor one more   *)
(* often than it was sent.  Both hold for any number of buffers, frames    *)
(* and losses and any payload limit.                                       *)
(***************************************************************************)
EXTENDS UartLink, UartRxProofs, FiniteSetTheorems, SequenceTheorems

\* The message whose frame is being sent, and how much of the frame has left.
Current == sent[Len(sent)]
Pos == Len(Current) + 3 - Len(wire)

\* What is left on the wire is the end of the frame of the last message sent.
WireInv ==
  /\ wire \in Seq(Byte)
  /\ sent \in Seq(Payloads)
  /\ clean \in 0 .. CleanBound
  /\ lost \in Nat
  /\ overruns \in Nat
  /\ wire # <<>> =>
       /\ Len(sent) > 0
       /\ Pos \in 0 .. Len(Current) + 2
       /\ \A j \in 1 .. Len(wire) : wire[j] = Frame(Current)[Pos + j]

\* The constants are numbers.
LEMMA Sizes ==
  /\ ESP_MAX_PAYLOAD \in Nat \ {0}
  /\ Byte \subseteq Nat
  /\ ESP_START_BYTE_0 \in Byte /\ ESP_START_BYTE_1 \in Byte
  /\ ESP_START_BYTE_0 # ESP_START_BYTE_1
  /\ CleanBound = 2 * ESP_MAX_PAYLOAD + 3
  BY SizeAssumption, ByteAssumption DEF CleanBound

\* The bytes of a frame.
LEMMA FrameBytes ==
  ASSUME NEW m \in Payloads
  PROVE  /\ m \in Seq(Byte) /\ Len(m) \in 1 .. ESP_MAX_PAYLOAD
         /\ Frame(m) \in Seq(Byte)
         /\ Len(Frame(m)) = Len(m) + 3
         /\ Frame(m)[1] = ESP_START_BYTE_0
         /\ Frame(m)[2] = ESP_START_BYTE_1
         /\ Frame(m)[3] = Len(m)
         /\ \A j \in 1 .. Len(m) : Frame(m)[3 + j] = m[j]
<1> DEFINE h == <<ESP_START_BYTE_0, ESP_START_BYTE_1, Len(m)>>
<1>1. m \in Seq(Byte) /\ Len(m) \in 1 .. ESP_MAX_PAYLOAD /\ Len(m) \in Byte
  BY PayloadAssumption
<1>2. h \in Seq(Byte) /\ Len(h) = 3 /\ h[1] = ESP_START_BYTE_0
      /\ h[2] = ESP_START_BYTE_1 /\ h[3] = Len(m)
  BY <1>1, Sizes
<1> HIDE DEF h
<1>3. Frame(m) = h \o m
  BY DEF Frame, h
<1>4. /\ h \o m \in Seq(Byte) /\ Len(h \o m) = Len(h) + Len(m)
      /\ \A j \in 1 .. Len(h) + Len(m) :
           (h \o m)[j] = IF j <= Len(h) THEN h[j] ELSE m[j - Len(h)]
  BY <1>1, <1>2, ConcatProperties
<1>5. \A j \in 1 .. 3 : (h \o m)[j] = h[j]
  BY <1>1, <1>2, <1>4
<1>6. ASSUME NEW j \in 1 .. Len(m) PROVE (h \o m)[3 + j] = m[j]
  <2>1. 3 + j \in 1 .. Len(h) + Len(m) /\ ~ (3 + j <= Len(h)) /\ 3 + j - Len(h) = j
    BY <1>1, <1>2
  <2> QED
    BY <1>4, <2>1
<1> QED
  BY <1>1, <1>2, <1>3, <1>4, <1>5, <1>6

\* Taking the first byte off a sequence.
LEMMA TailBytes ==
  ASSUME NEW S, NEW s \in Seq(S), s # <<>>
  PROVE  /\ Tail(s) \in Seq(S) /\ Len(s) \in Nat \ {0}
         /\ Len(Tail(s)) = Len(s) - 1
         /\ Head(s) = s[1] /\ Head(s) \in S
         /\ \A j \in 1 .. Len(s) - 1 : Tail(s)[j] = s[j + 1]
         /\ Tail(s) = <<>> <=> Len(s) = 1
<1>1. Tail(s) \in Seq(S) /\ Len(Tail(s)) = Len(s) - 1 /\ Head(s) \in S
  BY HeadTailProperties
<1>2. Len(s) \in Nat \ {0}
  BY EmptySeq
<1>3. \A j \in 1 .. Len(s) - 1 : Tail(s)[j] = s[j + 1]
  BY <1>1, HeadTailProperties
<1>4. Tail(s) = <<>> <=> Len(Tail(s)) = 0
  BY <1>1, EmptySeq
<1>5. Head(s) = s[1]
  OBVIOUS
<1> QED
  BY <1>1, <1>2, <1>3, <1>4, <1>5

\* What the byte at the front of the wire is.
LEMMA FrontByte ==
  ASSUME WireInv, wire # <<>>
  PROVE  /\ Head(wire) \in Byte
         /\ Current \in Payloads
         /\ Len(Current) \in 1 .. ESP_MAX_PAYLOAD
         /\ Pos \in 0 .. Len(Current) + 2
         /\ Len(wire) = Len(Current) + 3 - Pos
         /\ Pos = 0 => Head(wire) = ESP_START_BYTE_0
         /\ Pos = 1 => Head(wire) = ESP_START_BYTE_1
         /\ Pos = 2 => Head(wire) = Len(Current)
         /\ Pos >= 3 => /\ Pos - 2 \in 1 .. Len(Current)
                        /\ Head(wire) = Current[Pos - 2]
<1>1. Len(sent) > 0 /\ Pos \in 0 .. Len(Current) + 2
  BY DEF WireInv
<1>2. Current \in Payloads
  BY <1>1 DEF Current, WireInv
<1>3. Len(wire) \in Nat \ {0} /\ Head(wire) = wire[1] /\ Head(wire) \in Byte
  BY TailBytes DEF WireInv
<1>4. Head(wire) = Frame(Current)[Pos + 1]
  BY <1>3 DEF WireInv
<1>5. Len(Current) \in 1 .. ESP_MAX_PAYLOAD
  BY <1>2, FrameBytes
<1>6. Len(wire) = Len(Current) + 3 - Pos
  BY <1>3, <1>5 DEF Pos
<1>7. ASSUME Pos >= 3
      PROVE  Pos - 2 \in 1 .. Len(Current) /\ Head(wire) = Current[Pos - 2]
  <2>1. Pos - 2 \in 1 .. Len(Current) /\ 3 + (Pos - 2) = Pos + 1
    BY <1>1, <1>5, <1>7
  <2> QED
    BY <1>2, <1>4, <2>1, FrameBytes
<1> QED
  BY <1>1, <1>2, <1>3, <1>4, <1>5, <1>6, <1>7, FrameBytes

\* The first byte leaves the wire.
LEMMA ByteLeaves ==
  ASSUME WireInv, wire # <<>>, wire' = Tail(wire), sent' = sent,
         clean' \in 0 .. CleanBound, lost' \in Nat, overruns' \in Nat
  PROVE  /\ WireInv'
         /\ Current' = Current /\ Pos' = Pos + 1
         /\ Len(wire') = Len(wire) - 1
         /\ wire' = <<>> <=> Len(wire) = 1
<1>1. Current' = Current
  BY DEF Current
<1>2. /\ wire' \in Seq(Byte) /\ Len(wire') = Len(wire) - 1 /\ Len(wire) \in Nat \ {0}
      /\ \A j \in 1 .. Len(wire) - 1 : wire'[j] = wire[j + 1]
      /\ wire' = <<>> <=> Len(wire) = 1
  BY TailBytes DEF WireInv
<1>3. Pos \in 0 .. Len(Current) + 2 /\ Len(Current) \in Nat /\ Len(sent) > 0
      /\ Len(wire) = Len(Current) + 3 - Pos
  BY FrontByte DEF WireInv
<1>4. Pos' = Pos + 1
  BY <1>1, <1>2, <1>3 DEF Pos
<1>5. ASSUME wire' # <<>>, NEW j \in 1 .. Len(wire')
      PROVE  wire'[j] = Frame(Current)[Pos + 1 + j]
  <2>1. j + 1 \in 1 .. Len(wire) /\ Pos + (j + 1) = Pos + 1 + j /\ wire'[j] = wire[j + 1]
    BY <1>2, <1>3, <1>5
  <2>2. wire[j + 1] = Frame(Current)[Pos + (j + 1)]
    BY <2>1 DEF WireInv
  <2> QED
    BY <2>1, <2>2
<1>6. wire' # <<>> => Pos' \in 0 .. Len(Current) + 2
  BY <1>2, <1>3, <1>4
<1>7. sent' \in Seq(Payloads)
  BY DEF WireInv
<1> QED
  BY <1>1, <1>2, <1>3, <1>4, <1>5, <1>6, <1>7 DEF WireInv

-----------------------------------------------------------------------------
(***************************************************************************)
(* The receiver under the link: a step of the link is a step of the        *)
(* receiver, or leaves it alone.                                           *)
(***************************************************************************)

\* Sending a message puts its whole frame on the wire.
LEMMA SendWire ==
  ASSUME WireInv, NEW m \in Payloads, SendMessage(m)
  PROVE  /\ WireInv' /\ Current' = m /\ Pos' = 0
         /\ Len(wire') = Len(m) + 3 /\ wire' # <<>>
<1>1. Frame(m) \in Seq(Byte) /\ Len(Frame(m)) = Len(m) + 3 /\ Len(m) \in 1 .. ESP_MAX_PAYLOAD
  BY FrameBytes
<1>2. wire' = Frame(m) /\ wire' # <<>>
  BY <1>1, EmptySeq DEF SendMessage
<1>3. /\ sent' \in Seq(Payloads) /\ Len(sent') = Len(sent) + 1 /\ Len(sent) \in Nat
      /\ sent'[Len(sent) + 1] = m
  BY AppendProperties, LenProperties DEF SendMessage, WireInv
<1>4. Current' = m
  BY <1>3 DEF Current
<1>5. Pos' = 0
  BY <1>1, <1>2, <1>4 DEF Pos
<1>6. \A j \in 1 .. Len(wire') : wire'[j] = Frame(m)[0 + j]
  BY <1>1, <1>2
<1>7. UNCHANGED <<clean, lost, overruns>>
  BY DEF SendMessage
<1> QED
  BY <1>1, <1>2, <1>3, <1>4, <1>5, <1>6, <1>7 DEF WireInv

\* One byte is received.
LEMMA TransmitWire ==
  ASSUME WireInv, TransmitByte
  PROVE  /\ WireInv' /\ Current' = Current /\ Pos' = Pos + 1
         /\ Len(wire') = Len(wire) - 1 /\ (wire' = <<>> <=> Len(wire) = 1)
         /\ clean \in 0 .. CleanBound /\ clean' \in {clean, clean + 1}
         /\ clean < CleanBound => clean' = clean + 1
<1>1. clean \in 0 .. CleanBound /\ clean' \in 0 .. CleanBound
      /\ clean' \in {clean, clean + 1} /\ (clean < CleanBound => clean' = clean + 1)
  BY Sizes DEF TransmitByte, WireInv
<1>2. lost' \in Nat /\ overruns' \in Nat /\ sent' = sent /\ wire' = Tail(wire) /\ wire # <<>>
  BY DEF TransmitByte, WireInv
<1> QED
  BY <1>1, <1>2, ByteLeaves

\* One byte is lost.
LEMMA LoseWire ==
  ASSUME WireInv, LoseByte
  PROVE  /\ WireInv' /\ Current' = Current /\ Pos' = Pos + 1
         /\ Len(wire') = Len(wire) - 1 /\ (wire' = <<>> <=> Len(wire) = 1)
<1>1. lost' \in Nat /\ overruns' \in Nat /\ sent' = sent /\ wire' = Tail(wire) /\ wire # <<>>
      /\ clean' \in 0 .. CleanBound
  BY Sizes DEF LoseByte, WireInv
<1> QED
  BY <1>1, ByteLeaves

\* The main loop and a stutter leave the wire alone.
LEMMA QuietWire ==
  ASSUME WireInv, Receive \/ UNCHANGED allVars
  PROVE  WireInv' /\ UNCHANGED <<wire, sent, clean, lost, overruns, Pos, Current>>
<1>1. UNCHANGED <<wire, sent, clean, lost, overruns>>
  BY DEF Receive, allVars, linkVars
<1> QED
  BY <1>1 DEF WireInv, Pos, Current

\* Every step of the link keeps the end of the last frame on the wire.
LEMMA NextWire == WireInv /\ [LinkNext]_allVars => WireInv'
  BY SendWire, TransmitWire, LoseWire, QuietWire DEF LinkNext

\* Every step of the link is one of the receiver, or none.
LEMMA LinkStep == WireInv /\ [LinkNext]_allVars => [Next]_vars
<1> SUFFICES ASSUME WireInv, [LinkNext]_allVars PROVE [Next]_vars
  OBVIOUS
<1>1. CASE TransmitByte
  <2>1. RxIsr(Head(wire)) /\ Head(wire) \in Byte
    BY <1>1, FrontByte DEF TransmitByte
  <2> QED
    BY <2>1 DEF Next
<1>2. CASE Receive
  BY <1>2 DEF Receive, Next
<1>3. CASE \/ \E m \in Payloads : SendMessage(m)
           \/ LoseByte
           \/ UNCHANGED allVars
  BY <1>3 DEF SendMessage, LoseByte, allVars
<1> QED
  BY <1>1, <1>2, <1>3 DEF LinkNext

\* At the start the wire is empty.
LEMMA InitWire == LinkInit => IInv /\ WireInv
<1> SUFFICES ASSUME LinkInit PROVE IInv /\ WireInv
  OBVIOUS
<1>1. IInv
  BY InitInv DEF LinkInit
<1>2. WireInv
  BY EmptySeq, Sizes DEF LinkInit, WireInv
<1> QED
  BY <1>1, <1>2

\* The receiver's invariant and the wire's hold throughout.
LEMMA LinkInvariant == LinkSpec => [](IInv /\ WireInv)
<1>1. IInv /\ WireInv /\ [LinkNext]_allVars => IInv' /\ WireInv'
  BY NextWire, LinkStep, NextInv
<1> QED
  BY <1>1, InitWire, PTL DEF LinkSpec

\* What the interrupt does with a character c, by the parser's state; Rem is
\* what it still expects of the message it fills in.
Rem == rx_buffer_len[rx_active_buffer] - rx_buffer_offset

\* The outcomes of one interrupt.
LEMMA IsrOutcome ==
  ASSUME IInv, NEW c \in Byte, RxIsr(c)
  PROVE  \/ /\ rx_esp_state = "wait_for_start0"
            /\ rx_esp_state' = IF c = ESP_START_BYTE_0 THEN "wait_for_start1"
                                                        ELSE "wait_for_start0"
         \/ /\ rx_esp_state = "wait_for_start1"
            /\ rx_esp_state' = IF c = ESP_START_BYTE_1 THEN "wait_for_length"
                                                        ELSE "wait_for_start1"
         \/ /\ rx_esp_state = "wait_for_length"
            /\ c \notin 1 .. ESP_MAX_PAYLOAD
            /\ rx_esp_state' = "wait_for_start1"
         \/ /\ rx_esp_state = "wait_for_length"
            /\ c \in 1 .. ESP_MAX_PAYLOAD
            /\ Overrun(c)
            /\ rx_esp_state' = "wait_for_start0"
         \/ /\ rx_esp_state = "wait_for_length"
            /\ c \in 1 .. ESP_MAX_PAYLOAD
            /\ rx_esp_state' = "receive_data" /\ Rem' = c
         \/ /\ rx_esp_state = "receive_data" /\ Rem = 1
            /\ rx_esp_state' = "wait_for_start0"
         \/ /\ rx_esp_state = "receive_data" /\ Rem \in Nat /\ Rem > 1
            /\ rx_esp_state' = "receive_data" /\ Rem' = Rem - 1
<1>1. CASE WaitForStart0(c) \/ WaitForStart1(c) \/ RejectLength(c) \/ Overrun(c)
  BY <1>1 DEF WaitForStart0, WaitForStart1, RejectLength, Overrun, LengthOK
<1>2. CASE ClaimBuffer(c)
  <2>1. PICK b \in Buffer : rx_active_buffer' = b
                            /\ rx_buffer_len' = [rx_buffer_len EXCEPT ![b] = c]
    BY <1>2 DEF ClaimBuffer
  <2>2. rx_buffer_len'[rx_active_buffer'] = c /\ rx_buffer_offset' = 0
    BY <1>2, <2>1 DEF ClaimBuffer, IInv, TypeOK
  <2>3. Rem' = c
    BY <2>2, Sizes DEF Rem
  <2> QED
    BY <1>2, <2>3 DEF ClaimBuffer, LengthOK
<1>3. CASE ReceiveData(c)
  <2> DEFINE n == rx_buffer_len[rx_active_buffer]
             o == rx_buffer_offset
  <2>1. n \in Nat /\ o \in Nat /\ o < n
    BY <1>3, Sizes DEF ReceiveData, IInv, TypeOK, FillingIsPrivate
  <2>2. rx_buffer_len' = rx_buffer_len /\ rx_active_buffer' = rx_active_buffer
        /\ rx_buffer_offset' = o + 1 /\ rx_esp_state = "receive_data"
    BY <1>3 DEF ReceiveData
  <2>3. Rem = n - o /\ Rem' = n - (o + 1)
    BY <2>2 DEF Rem
  <2>4. CASE o + 1 = n
    BY <1>3, <2>1, <2>2, <2>3, <2>4 DEF ReceiveData
  <2>5. CASE o + 1 # n
    BY <1>3, <2>1, <2>2, <2>3, <2>5 DEF ReceiveData
  <2> QED
    BY <2>4, <2>5
<1> QED
  BY <1>1, <1>2, <1>3 DEF RxIsr

-----------------------------------------------------------------------------
(***************************************************************************)
(* Finding the frame boundary again.  For each state of the parser, where  *)
(* in a frame it may still be out of step, and for how long after the last *)
(* loss.                                                                   *)
(***************************************************************************)

\* A wrong message ended in the middle of a header.
AwaitStart0 ==
  wire # <<>> =>
    /\ Pos = 1 => clean <= ESP_MAX_PAYLOAD + 2
    /\ Pos = 2 => clean <= ESP_MAX_PAYLOAD + 3

\* The next header ends this wait; a length byte that is the second start byte
\* (possible only if it is a length) ends it too early.
AwaitStart1 ==
  IF wire = <<>>
  THEN clean <= 2 * ESP_MAX_PAYLOAD + 2
  ELSE /\ Pos = 2 => \/ clean = 0
                     \/ clean <= 2 /\ ESP_START_BYTE_1 \notin 1 .. ESP_MAX_PAYLOAD
       /\ Pos >= 3 => clean + Len(wire) <= 2 * ESP_MAX_PAYLOAD + 2

\* The wrong byte is taken for a length.
AwaitLength == wire = <<>> \/ Pos # 2 => clean <= 1

\* The rest of the message is the rest of the frame, or a wrong message has
\* gone on since at most two bytes after the last loss.
AwaitData ==
  \/ wire # <<>> /\ Pos >= 3 /\ Rem = Len(wire)
  \/ clean + Rem <= ESP_MAX_PAYLOAD + 2

SyncInv ==
  /\ rx_esp_state = "wait_for_start0" => AwaitStart0
  /\ rx_esp_state = "wait_for_start1" => AwaitStart1
  /\ rx_esp_state = "wait_for_length" => AwaitLength
  /\ rx_esp_state = "receive_data" => AwaitData

\* A byte of the frame as the plain sender sends it.
LEMMA PlainByte ==
  ASSUME Plain, WireInv, wire # <<>>, Pos >= 3
  PROVE  Head(wire) # ESP_START_BYTE_0 /\ Head(wire) # ESP_START_BYTE_1
  BY FrontByte DEF Plain

\* What is expected of a message is at least a byte and at most a payload.
LEMMA RemType ==
  ASSUME IInv, rx_esp_state = "receive_data"
  PROVE  Rem \in 1 .. ESP_MAX_PAYLOAD
<1> DEFINE n == rx_buffer_len[rx_active_buffer]
<1>1. n \in 0 .. ESP_MAX_PAYLOAD /\ rx_buffer_offset \in Nat /\ rx_buffer_offset < n
  BY Sizes DEF IInv, TypeOK, FillingIsPrivate
<1> QED
  BY <1>1, Sizes DEF Rem

\* A received byte keeps the parser no further out of step.
LEMMA TransmitSync ==
  ASSUME Plain, IInv, WireInv, SyncInv, TransmitByte
  PROVE  SyncInv'
<1> DEFINE c == Head(wire)
           n == Len(wire)
           L == Len(Current)
           M == ESP_MAX_PAYLOAD
           k == clean'
<1>1. /\ wire # <<>> /\ c \in Byte /\ RxIsr(c)
      /\ M \in Nat \ {0} /\ L \in 1 .. M /\ Pos \in 0 .. L + 2 /\ n = L + 3 - Pos
      /\ Pos = 0 => c = ESP_START_BYTE_0
      /\ Pos = 1 => c = ESP_START_BYTE_1
      /\ Pos = 2 => c = L
      /\ Pos >= 3 => c # ESP_START_BYTE_0 /\ c # ESP_START_BYTE_1
      /\ c \in Nat /\ ESP_START_BYTE_0 # ESP_START_BYTE_1
  BY Sizes, FrontByte, PlainByte DEF TransmitByte
<1>2. /\ Pos' = Pos + 1 /\ Len(wire') = n - 1 /\ (wire' = <<>> <=> n = 1)
      /\ clean \in 0 .. 2 * M + 3 /\ clean' \in {clean, clean + 1}
  BY TransmitWire, Sizes
<1>3. ESP_START_BYTE_0 \in 1 .. M => ESP_START_BYTE_0 <= M - 2
  BY StartByteAssumption
<1>0. n \in Nat /\ L \in Nat /\ M \in Nat /\ Pos \in Nat /\ clean \in Nat /\ k \in Nat
      /\ k <= clean + 1
  BY <1>1, <1>2
<1> HIDE DEF c, n, L, M, k
<1>8. ASSUME Pos >= 2, k + (n - 1) <= 2 * M + 2 PROVE AwaitStart1'
  <2>1. n \in Nat \ {0} /\ Pos' >= 3 /\ Pos' # 2
    BY <1>0, <1>1, <1>2, <1>8
  <2>2. k <= 2 * M + 2
    BY <1>0, <1>8, <2>1
  <2>3. k + Len(wire') <= 2 * M + 2
    BY <1>2, <1>8
  <2> QED
    BY <2>1, <2>2, <2>3 DEF AwaitStart1, M, k
<1>4. CASE rx_esp_state = "wait_for_start0"
  <2>1. AwaitStart0
    BY <1>4 DEF SyncInv
  <2>2. CASE c = ESP_START_BYTE_0
    <3>1. rx_esp_state' = "wait_for_start1"
      BY <1>1, <1>4, <2>2, IsrOutcome
    <3>2. Pos \in {0, 2}
      BY <1>1, <2>2
    <3>3. AwaitStart1'
      <4>1. CASE Pos = 0
        BY <1>1, <1>2, <4>1 DEF AwaitStart1
      <4>2. CASE Pos = 2
        <5>1. clean <= M + 3 /\ c = L /\ L <= M - 2 /\ n = L + 1
          BY <1>1, <1>3, <2>1, <2>2, <4>2 DEF AwaitStart0, M
        <5>2. k + (n - 1) <= 2 * M + 2
          BY <1>0, <5>1
        <5> QED
          BY <1>8, <4>2, <5>2
      <4> QED
        BY <3>2, <4>1, <4>2
    <3> QED
      BY <3>1, <3>3 DEF SyncInv
  <2>3. CASE c # ESP_START_BYTE_0
    <3>1. rx_esp_state' = "wait_for_start0"
      BY <1>1, <1>4, <2>3, IsrOutcome
    <3>2. AwaitStart0'
      BY <1>1, <1>2, <2>1, <2>3 DEF AwaitStart0, M
    <3> QED
      BY <3>1, <3>2 DEF SyncInv
  <2> QED
    BY <2>2, <2>3
<1>5. CASE rx_esp_state = "wait_for_start1"
  <2>1. AwaitStart1
    BY <1>5 DEF SyncInv
  <2>2. CASE c = ESP_START_BYTE_1
    <3>1. rx_esp_state' = "wait_for_length"
      BY <1>1, <1>5, <2>2, IsrOutcome
    <3>2. Pos \in {1, 2}
      BY <1>1, <2>2
    <3>3. AwaitLength'
      BY <1>1, <1>2, <2>1, <2>2, <3>2 DEF AwaitStart1, AwaitLength, M
    <3> QED
      BY <3>1, <3>3 DEF SyncInv
  <2>3. CASE c # ESP_START_BYTE_1
    <3>1. rx_esp_state' = "wait_for_start1"
      BY <1>1, <1>5, <2>3, IsrOutcome
    <3>2. AwaitStart1'
      <4>1. CASE Pos = 0
        BY <1>1, <1>2, <4>1 DEF AwaitStart1
      <4>2. CASE Pos >= 2
        <5>1. clean + n <= 2 * M + 2
          BY <1>0, <1>1, <2>1, <4>2 DEF AwaitStart1, M, n
        <5>2. k + (n - 1) <= 2 * M + 2
          BY <1>0, <5>1
        <5> QED
          BY <1>8, <4>2, <5>2
      <4>3. Pos # 1
        BY <1>1, <2>3
      <4> QED
        BY <1>1, <4>1, <4>2, <4>3
    <3> QED
      BY <3>1, <3>2 DEF SyncInv
  <2> QED
    BY <2>2, <2>3
<1>6. CASE rx_esp_state = "wait_for_length"
  <2>1. AwaitLength
    BY <1>6 DEF SyncInv
  <2>2. CASE c \notin 1 .. M
    <3>1. rx_esp_state' = "wait_for_start1"
      BY <1>1, <1>6, <2>2, IsrOutcome DEF M
    <3>2. AwaitStart1'
      <4>1. Pos # 2 /\ clean <= 1
        BY <1>1, <2>1, <2>2 DEF AwaitLength
      <4>2. CASE Pos >= 3
        <5>1. k + (n - 1) <= 2 * M + 2
          BY <1>0, <1>1, <4>1, <4>2
        <5> QED
          BY <1>0, <1>8, <4>2, <5>1
      <4>3. CASE Pos = 1
        <5>1. k <= 2 /\ ESP_START_BYTE_1 \notin 1 .. M /\ wire' # <<>> /\ Pos' = 2
          BY <1>0, <1>1, <1>2, <2>2, <4>1, <4>3
        <5> QED
          BY <5>1 DEF AwaitStart1, M, k
      <4>4. CASE Pos = 0
        BY <1>1, <1>2, <4>4 DEF AwaitStart1
      <4> QED
        BY <1>1, <4>1, <4>2, <4>3, <4>4
    <3> QED
      BY <3>1, <3>2 DEF SyncInv
  <2>3. CASE rx_esp_state' = "wait_for_start0"
    <3>1. AwaitStart0'
      BY <1>1, <1>2, <2>1 DEF AwaitStart0, AwaitLength, M
    <3> QED
      BY <2>3, <3>1 DEF SyncInv
  <2>4. CASE rx_esp_state' = "receive_data" /\ Rem' = c /\ c \in 1 .. M
    <3>1. AwaitData'
      <4>1. CASE Pos = 2
        <5>1. wire' # <<>> /\ Pos' = 3 /\ Len(wire') = L /\ Rem' = L
          BY <1>1, <1>2, <2>4, <4>1
        <5> QED
          BY <5>1 DEF AwaitData
      <4>2. CASE Pos # 2
        <5>1. k <= 2 /\ c <= M /\ c \in Nat
          BY <1>0, <1>1, <2>1, <2>4, <4>2 DEF AwaitLength
        <5>2. k + c <= M + 2
          BY <1>0, <5>1
        <5> QED
          BY <2>4, <5>2 DEF AwaitData, M, k
      <4> QED
        BY <4>1, <4>2
    <3> QED
      BY <2>4, <3>1 DEF SyncInv
  <2> QED
    BY <1>1, <1>6, <2>2, <2>3, <2>4, IsrOutcome DEF M
<1>7. CASE rx_esp_state = "receive_data"
  <2>1. AwaitData /\ Rem \in 1 .. M
    BY <1>7, RemType DEF SyncInv, M
  <2>2. CASE Rem = 1 /\ rx_esp_state' = "wait_for_start0"
    <3>1. AwaitStart0'
      BY <1>1, <1>2, <2>1, <2>2 DEF AwaitStart0, AwaitData, M, n
    <3> QED
      BY <2>2, <3>1 DEF SyncInv
  <2>3. CASE Rem > 1 /\ rx_esp_state' = "receive_data" /\ Rem' = Rem - 1
    <3>1. AwaitData'
      <4>1. CASE Pos >= 3 /\ Rem = n
        BY <1>1, <1>2, <2>1, <2>3, <4>1 DEF AwaitData
      <4>2. CASE clean + Rem <= M + 2
        <5> DEFINE r == Rem'
        <5>1. r = Rem - 1 /\ Rem \in Nat
          BY <2>1, <2>3
        <5> HIDE DEF r
        <5>2. k + r <= M + 2
          BY <1>0, <4>2, <5>1
        <5> QED
          BY <5>2 DEF AwaitData, M, k, r
      <4> QED
        BY <2>1, <4>1, <4>2 DEF AwaitData, M, n
    <3> QED
      BY <2>3, <3>1 DEF SyncInv
  <2> QED
    BY <1>1, <1>7, <2>2, <2>3, IsrOutcome
<1> QED
  BY <1>4, <1>5, <1>6, <1>7 DEF IInv, TypeOK, EspState

\* A lost byte starts the count again.
LEMMA LoseSync ==
  ASSUME IInv, WireInv, SyncInv, LoseByte
  PROVE  SyncInv'
<1> DEFINE n == Len(wire)
           L == Len(Current)
           M == ESP_MAX_PAYLOAD
<1>1. M \in Nat \ {0} /\ L \in 1 .. M /\ Pos \in 0 .. L + 2 /\ n = L + 3 - Pos
  BY Sizes, FrontByte DEF LoseByte
<1>2. /\ Pos' = Pos + 1 /\ Len(wire') = n - 1 /\ (wire' = <<>> <=> n = 1)
      /\ clean' = 0 /\ rx_esp_state' = rx_esp_state /\ Rem' = Rem
  BY LoseWire DEF LoseByte, vars, isrVars, Rem
<1> HIDE DEF n, L, M
<1>3. AwaitStart0' /\ AwaitStart1' /\ AwaitLength'
  BY <1>1, <1>2 DEF AwaitStart0, AwaitStart1, AwaitLength, M
<1>4. rx_esp_state = "receive_data" => AwaitData'
  BY <1>1, <1>2, RemType DEF AwaitData, M
<1> QED
  BY <1>2, <1>3, <1>4 DEF SyncInv

\* A new frame is put on an empty wire.
LEMMA SendSync ==
  ASSUME IInv, WireInv, SyncInv, NEW m \in Payloads, SendMessage(m)
  PROVE  SyncInv'
<1>1. wire = <<>> /\ wire' # <<>> /\ Pos' = 0
  BY SendWire DEF SendMessage
<1>2. UNCHANGED <<clean, rx_esp_state, Rem>>
  BY DEF SendMessage, vars, isrVars, Rem
<1> QED
  BY <1>1, <1>2 DEF SyncInv, AwaitStart0, AwaitStart1, AwaitLength, AwaitData

\* The main loop does not touch the parser.
LEMMA MainLoopKeepsParser ==
  ASSUME MainLoop \/ UNCHANGED vars
  PROVE  UNCHANGED <<rx_esp_state, rx_active_buffer, rx_buffer_offset, rx_buffer_len,
                     rx_buffer, Rem>>
<1>1. UNCHANGED isrVars
  BY DEF MainLoop, GetMessage, NotReady, NoMessage, Found, CopyByte, Release, Handled,
     vars
<1> QED
  BY <1>1 DEF isrVars, Rem

\* Every step of the link with a plain sender keeps the bounds.
LEMMA NextSync ==
  ASSUME Plain, IInv, WireInv, SyncInv, [LinkNext]_allVars
  PROVE  SyncInv'
<1>1. CASE Receive \/ UNCHANGED allVars
  <2>1. UNCHANGED <<rx_esp_state, Rem, wire, clean, Pos>>
    BY <1>1, QuietWire, MainLoopKeepsParser DEF Receive, allVars
  <2> QED
    BY <2>1 DEF SyncInv, AwaitStart0, AwaitStart1, AwaitLength, AwaitData
<1> QED
  BY <1>1, TransmitSync, LoseSync, SendSync DEF LinkNext

\* After any losses, of any number of bytes, the receiver is in step with a
\* plain sender again once a longest message and a longest frame have come.
THEOREM BackInStep == ASSUME Plain PROVE LinkSpec => []Resynchronises
<1>1. LinkInit => SyncInv
  BY DEF LinkInit, Init, SyncInv, AwaitStart0
<1>2. IInv /\ WireInv /\ SyncInv /\ [LinkNext]_allVars => SyncInv'
  BY NextSync
<1>3. IInv /\ SyncInv => Resynchronises
  <2> SUFFICES ASSUME IInv, SyncInv, wire = <<>>, clean = CleanBound
               PROVE  rx_esp_state = "wait_for_start0"
    BY DEF Resynchronises
  <2>1. rx_esp_state # "wait_for_start1" /\ rx_esp_state # "wait_for_length"
    BY Sizes DEF SyncInv, AwaitStart1, AwaitLength
  <2>2. rx_esp_state # "receive_data"
    BY Sizes, RemType DEF SyncInv, AwaitData
  <2> QED
    BY <2>1, <2>2 DEF IInv, TypeOK, EspState
<1> QED
  BY <1>1, <1>2, <1>3, LinkInvariant, PTL DEF LinkSpec

-----------------------------------------------------------------------------
(***************************************************************************)
(* Nothing invented.  On a line that loses nothing, the parser follows the *)
(* frames; a message is counted where it is: coming in, held in a buffer,  *)
(* or given to the handler.                                                *)
(***************************************************************************)

\* What keeps the parser in step: nothing is lost, and what is skipped for
\* want of a buffer holds no header.
Unharmed == lost = 0 /\ (overruns = 0 \/ Plain)

\* The frame's payload goes into the active buffer.
Filling ==
  /\ rx_esp_state = "receive_data"
  /\ rx_buffer_len[rx_active_buffer] = Len(Current)
  /\ rx_buffer_offset = Pos - 3
  /\ \A p \in 0 .. Pos - 4 : rx_buffer[rx_active_buffer][p] = Current[p + 1]

InStep ==
  /\ wire = <<>> \/ Pos = 0 => rx_esp_state = "wait_for_start0"
  /\ wire # <<>> /\ Pos = 1 => rx_esp_state = "wait_for_start1"
  /\ wire # <<>> /\ Pos = 2 => rx_esp_state = "wait_for_length"
  /\ wire # <<>> /\ Pos >= 3 => Filling \/ (rx_esp_state = "wait_for_start0" /\ Plain)

MessageIn(b) == [p \in 1 .. rx_buffer_len[b] |-> rx_buffer[b][p - 1]]

Holding(x) == {b \in Buffer : rx_buffer_ready[b] /\ MessageIn(b) = x}

IsComing(x) ==
  wire # <<>> /\ Current = x /\ (Pos < 3 \/ rx_esp_state = "receive_data")

Coming(x) == IF IsComing(x) THEN 1 ELSE 0

CountInv ==
  \A x \in Seq(Byte) :
    Count(got, x) + Cardinality(Holding(x)) + Coming(x) <= Count(sent, x)

\* A message as the handler is given it.
Given == [p \in 1 .. len |-> buf[p - 1]]

\* Appending to a sequence counts one more of what is appended.
LEMMA CountAppend ==
  ASSUME NEW S, NEW s \in Seq(S), NEW e \in S, NEW x
  PROVE  /\ Count(s, x) \in Nat
         /\ Count(Append(s, e), x) = Count(s, x) + (IF e = x THEN 1 ELSE 0)
<1> DEFINE n == Len(s)
           T == {k \in 1 .. n : s[k] = x}
           U == {k \in 1 .. Len(Append(s, e)) : Append(s, e)[k] = x}
<1>1. /\ n \in Nat /\ Len(Append(s, e)) = n + 1
      /\ \A k \in 1 .. n : Append(s, e)[k] = s[k]
      /\ Append(s, e)[n + 1] = e
  BY AppendProperties, LenProperties
<1> HIDE DEF n
<1>2. IsFiniteSet(1 .. n)
  BY <1>1, FS_Interval
<1>3. IsFiniteSet(T)
  BY <1>2, FS_Subset
<1>4. Cardinality(T) \in Nat
  BY <1>3, FS_CardinalityType
<1>5. U = IF e = x THEN T \cup {n + 1} ELSE T
  BY <1>1
<1>6. n + 1 \notin T
  BY <1>1
<1>7. Cardinality(T \cup {n + 1}) = Cardinality(T) + 1
  BY <1>3, <1>6, FS_AddElement
<1>8. Count(s, x) = Cardinality(T) /\ Count(Append(s, e), x) = Cardinality(U)
  BY DEF Count, n
<1> HIDE DEF T, U
<1>9. CASE e = x
  BY <1>4, <1>5, <1>7, <1>8, <1>9
<1>10. CASE e # x
  BY <1>4, <1>5, <1>8, <1>10
<1> QED
  BY <1>9, <1>10

\* How often a message occurs in a sequence is a number.
LEMMA CountType == ASSUME NEW S, NEW s \in Seq(S), NEW x PROVE Count(s, x) \in Nat
<1> DEFINE T == {k \in 1 .. Len(s) : s[k] = x}
<1>1. IsFiniteSet(1 .. Len(s)) /\ T \subseteq 1 .. Len(s)
  BY LenProperties, FS_Interval
<1>2. IsFiniteSet(T)
  <2> HIDE DEF T
  <2> QED
    BY <1>1, FS_Subset
<1> QED
  BY <1>2, FS_CardinalityType DEF Count

\* Only finitely many buffers hold a message.
LEMMA HoldingFinite == ASSUME NEW x PROVE IsFiniteSet(Holding(x)) /\ Cardinality(Holding(x)) \in Nat
<1>1. IsFiniteSet(Buffer)
  BY SizeAssumption, FS_Interval DEF Buffer
<1>2. IsFiniteSet(Holding(x))
  BY <1>1, FS_Subset DEF Holding
<1> QED
  BY <1>2, FS_CardinalityType

\* A finite sequence of bytes, given by its elements.
LEMMA BytesAreSeq ==
  ASSUME NEW n \in Nat, NEW f \in [1 .. n -> Byte]
  PROVE  f \in Seq(Byte)
  BY SeqDef

\* What the handler is given is a sequence of bytes.
LEMMA GivenType == IInv => Given \in Seq(Byte)
<1> SUFFICES ASSUME IInv PROVE Given \in Seq(Byte)
  OBVIOUS
<1>1. len \in Nat /\ len <= ESP_MAX_PAYLOAD
  BY Sizes DEF IInv, TypeOK
<1>2. \A p \in 1 .. len : buf[p - 1] \in Byte
  BY <1>1, Sizes DEF IInv, TypeOK, Position
<1>3. Given \in [1 .. len -> Byte]
  BY <1>2 DEF Given
<1> QED
  BY <1>1, <1>3, BytesAreSeq

\* The line is unharmed only if it was so before.
LEMMA UnharmedBefore ==
  ASSUME WireInv, [LinkNext]_allVars, Unharmed'
  PROVE  Unharmed /\ ~ LoseByte
<1>1. lost \in Nat /\ overruns \in Nat
  BY DEF WireInv
<1>2. ~ LoseByte /\ lost' = lost
  BY <1>1 DEF Unharmed, LinkNext, SendMessage, TransmitByte, LoseByte, Receive, allVars,
              linkVars
<1>3. overruns' = 0 => overruns = 0
  BY <1>1 DEF LinkNext, SendMessage, TransmitByte, LoseByte, Receive, allVars, linkVars
<1> QED
  BY <1>2, <1>3 DEF Unharmed

\* A ready buffer is left alone by the interrupt.
LEMMA IsrKeepsMessages ==
  ASSUME IInv, NEW c \in Byte, RxIsr(c), NEW b \in Buffer, rx_buffer_ready[b]
  PROVE  MessageIn(b)' = MessageIn(b)
<1>1. rx_buffer'[b] = rx_buffer[b] /\ rx_buffer_len'[b] = rx_buffer_len[b]
  BY StepKeepsFinished DEF Next
<1> QED
  BY <1>1 DEF MessageIn

\* A byte that does not finish a message changes no buffer's readiness.
LEMMA HoldingSame ==
  ASSUME IInv, NEW c \in Byte, RxIsr(c), UNCHANGED rx_buffer_ready, NEW x
  PROVE  Holding(x)' = Holding(x)
  BY IsrKeepsMessages DEF Holding

\* A claimed buffer is filled from its start.
LEMMA ClaimStarts ==
  ASSUME IInv, NEW c \in Byte, ClaimBuffer(c)
  PROVE  /\ rx_esp_state' = "receive_data" /\ UNCHANGED rx_buffer_ready
         /\ rx_buffer_len'[rx_active_buffer'] = c /\ rx_buffer_offset' = 0
  BY DEF ClaimBuffer, IInv, TypeOK

\* A received byte keeps the parser in step.
LEMMA TransmitInStep ==
  ASSUME IInv, WireInv, InStep, TransmitByte, Unharmed'
  PROVE  InStep'
<1> DEFINE c == Head(wire)
           n == Len(wire)
           L == Len(Current)
           a == rx_active_buffer
<1>1. /\ wire # <<>> /\ c \in Byte /\ RxIsr(c)
      /\ ESP_MAX_PAYLOAD \in Nat /\ L \in 1 .. ESP_MAX_PAYLOAD
      /\ Pos \in 0 .. L + 2 /\ n = L + 3 - Pos
      /\ Pos = 0 => c = ESP_START_BYTE_0
      /\ Pos = 1 => c = ESP_START_BYTE_1
      /\ Pos = 2 => c = L
      /\ Pos >= 3 => c = Current[Pos - 2]
  BY Sizes, FrontByte DEF TransmitByte
<1>2. /\ Pos' = Pos + 1 /\ Current' = Current /\ (wire' = <<>> <=> n = 1)
  BY TransmitWire
<1>3. CASE Pos < 2
  <2>1. wire' # <<>> /\ Pos' \in {1, 2}
    BY <1>1, <1>2, <1>3
  <2>2. Pos = 0 => rx_esp_state' = "wait_for_start1"
    BY <1>1, IsrOutcome DEF InStep
  <2>3. Pos = 1 => rx_esp_state' = "wait_for_length"
    BY <1>1, IsrOutcome DEF InStep
  <2> QED
    BY <1>1, <1>2, <1>3, <2>1, <2>2, <2>3 DEF InStep
<1>4. CASE Pos = 2
  <2>1. wire' # <<>> /\ Pos' = 3 /\ rx_esp_state = "wait_for_length"
    BY <1>1, <1>2, <1>4 DEF InStep
  <2>2. ClaimBuffer(c) \/ Overrun(c)
    BY <1>1, <1>4, <2>1 DEF RxIsr, WaitForStart0, WaitForStart1, RejectLength, LengthOK,
                           ReceiveData
  <2>3. CASE ClaimBuffer(c)
    <3>1. Filling'
      BY <1>1, <1>2, <1>4, <2>1, <2>3, ClaimStarts DEF Filling
    <3> QED
      BY <2>1, <3>1 DEF InStep
  <2>4. CASE Overrun(c)
    <3>1. rx_esp_state' = "wait_for_start0"
      BY <2>4 DEF Overrun
    <3>2. overruns' # 0
      BY <2>4 DEF TransmitByte, WireInv
    <3>3. Plain
      BY <3>2 DEF Unharmed
    <3> QED
      BY <2>1, <3>1, <3>3 DEF InStep
  <2> QED
    BY <2>2, <2>3, <2>4
<1>5. CASE Pos >= 3 /\ Filling
  <2>1. /\ ReceiveData(c) /\ rx_buffer_len[a] = L /\ rx_buffer_offset = Pos - 3
        /\ a \in Buffer /\ c = Current[Pos - 2]
    BY <1>1, <1>5 DEF Filling, RxIsr, WaitForStart0, WaitForStart1, RejectLength, Overrun,
                      ClaimBuffer, IInv, TypeOK
  <2>2. rx_buffer_offset' = Pos - 2
    BY <1>1, <1>5, <2>1 DEF ReceiveData
  <2>3. CASE Pos - 2 = L
    <3>1. rx_esp_state' = "wait_for_start0" /\ wire' = <<>>
      BY <1>1, <1>2, <2>1, <2>2, <2>3 DEF ReceiveData
    <3> QED
      BY <3>1 DEF InStep
  <2>4. CASE Pos - 2 # L
    <3>1. rx_esp_state' = "receive_data" /\ wire' # <<>>
      BY <1>1, <1>2, <1>5, <2>1, <2>2, <2>4 DEF ReceiveData
    <3>2. a' = a /\ rx_buffer_len' = rx_buffer_len
      BY <2>1 DEF ReceiveData
    <3>3. Pos - 3 \in Position
      BY <1>1, <1>5 DEF Position
    <3>4. /\ rx_buffer'[a][Pos - 3] = c
          /\ \A p \in 0 .. Pos - 4 : rx_buffer'[a][p] = rx_buffer[a][p]
      BY <1>1, <1>5, <2>1, <3>3 DEF ReceiveData, IInv, TypeOK, Position
    <3>5. \A p \in 0 .. Pos' - 4 : rx_buffer'[a'][p] = Current'[p + 1]
      <4> SUFFICES ASSUME NEW p \in 0 .. Pos - 3 PROVE rx_buffer'[a][p] = Current[p + 1]
        BY <1>1, <1>2, <3>2
      <4>1. CASE p = Pos - 3
        BY <1>1, <1>5, <2>1, <3>4, <4>1
      <4>2. CASE p \in 0 .. Pos - 4
        BY <1>5, <3>4, <4>2 DEF Filling
      <4> QED
        BY <1>1, <1>5, <4>1, <4>2
    <3>6. Filling'
      BY <1>1, <1>2, <2>1, <2>2, <3>1, <3>2, <3>5 DEF Filling
    <3> QED
      BY <1>1, <1>2, <1>5, <3>1, <3>6 DEF InStep
  <2> QED
    BY <2>3, <2>4
<1>6. CASE Pos >= 3 /\ rx_esp_state = "wait_for_start0" /\ Plain
  <2>1. c # ESP_START_BYTE_0
    BY <1>1, <1>6, PlainByte
  <2>2. rx_esp_state' = "wait_for_start0"
    BY <1>1, <1>6, <2>1, IsrOutcome
  <2> QED
    BY <1>1, <1>2, <1>6, <2>2 DEF InStep
<1> QED
  BY <1>1, <1>3, <1>4, <1>5, <1>6 DEF InStep

\* A byte that ends a message puts the message that is coming in into a
\* buffer; any other byte leaves every buffer as it is.
LEMMA TransmitHolds ==
  ASSUME IInv, WireInv, InStep, TransmitByte, Unharmed', NEW x
  PROVE  \/ Holding(x)' = Holding(x) /\ (IsComing(x)' => IsComing(x))
         \/ /\ IsComing(x) /\ ~ IsComing(x)'
            /\ \E b \in Buffer : b \notin Holding(x) /\ Holding(x)' = Holding(x) \cup {b}
<1> DEFINE c == Head(wire)
           n == Len(wire)
           L == Len(Current)
           a == rx_active_buffer
<1>1. /\ wire # <<>> /\ c \in Byte /\ RxIsr(c)
      /\ L \in Nat /\ Pos \in 0 .. L + 2 /\ n = L + 3 - Pos
      /\ Pos >= 3 => c = Current[Pos - 2]
      /\ Current \in Seq(Byte)
  BY FrontByte, FrameBytes, Sizes DEF TransmitByte
<1>2. /\ Pos' = Pos + 1 /\ Current' = Current /\ (wire' = <<>> <=> n = 1)
  BY TransmitWire
<1>3. CASE UNCHANGED rx_buffer_ready
  <2>1. Holding(x)' = Holding(x)
    BY <1>1, <1>3, HoldingSame
  <2>2. ASSUME IsComing(x)' PROVE IsComing(x)
    <3>1. Current = x /\ (Pos < 3 \/ rx_esp_state' = "receive_data")
      BY <1>1, <1>2, <2>2 DEF IsComing
    <3>2. CASE Pos >= 3 /\ rx_esp_state = "wait_for_start0"
      <4>1. rx_esp_state' # "receive_data"
        BY <1>1, <3>2, IsrOutcome
      <4> QED
        BY <1>1, <3>1, <3>2, <4>1
    <3>3. Pos >= 3 => rx_esp_state \in {"receive_data", "wait_for_start0"}
      BY <1>1 DEF InStep, Filling
    <3> QED
      BY <1>1, <3>1, <3>2, <3>3 DEF IsComing
  <2> QED
    BY <2>1, <2>2
<1>4. CASE ~ UNCHANGED rx_buffer_ready
  <2>1. ReceiveData(c) /\ rx_buffer_offset' = rx_buffer_len[a]
    BY <1>1, <1>4 DEF RxIsr, WaitForStart0, WaitForStart1, RejectLength, Overrun,
                      ClaimBuffer, ReceiveData
  <2>2. Pos >= 3 /\ Filling
    <3>1. rx_esp_state = "receive_data"
      BY <2>1 DEF ReceiveData
    <3> QED
      BY <1>1, <3>1 DEF InStep
  <2>3. /\ a \in Buffer /\ ~ rx_buffer_ready[a]
        /\ rx_buffer_len[a] = L /\ rx_buffer_offset = Pos - 3
        /\ rx_buffer_ready' = [rx_buffer_ready EXCEPT ![a] = TRUE]
        /\ rx_esp_state' = "wait_for_start0" /\ rx_buffer_len' = rx_buffer_len /\ a' = a
    BY <2>1, <2>2 DEF ReceiveData, Filling, IInv, TypeOK, FillingIsPrivate
  <2>4. Pos - 2 = L /\ wire' = <<>>
    BY <1>1, <1>2, <2>1, <2>2, <2>3 DEF ReceiveData
  <2>5. Pos - 3 \in Position
    BY <2>1, <2>3, <2>2, <1>1, Sizes
       DEF Position, IInv, TypeOK, FillingIsPrivate, ReceiveData
  <2>6. \A p \in 0 .. L - 1 : rx_buffer'[a][p] = Current[p + 1]
    <3>1. /\ rx_buffer'[a][Pos - 3] = c
          /\ \A p \in 0 .. Pos - 4 : rx_buffer'[a][p] = rx_buffer[a][p]
      <4>1. rx_buffer' = [rx_buffer EXCEPT ![a][Pos - 3] = c]
        BY <2>1, <2>3 DEF ReceiveData
      <4>2. rx_buffer \in [Buffer -> [Position -> Byte]]
        BY DEF IInv, TypeOK
      <4>3. Pos - 3 \notin 0 .. Pos - 4
        BY <1>1
      <4> HIDE DEF a, c
      <4> QED
        BY <2>3, <2>5, <4>1, <4>2, <4>3
    <3>2. ASSUME NEW p \in 0 .. L - 1 PROVE rx_buffer'[a][p] = Current[p + 1]
      <4>1. CASE p = Pos - 3
        BY <1>1, <2>2, <3>1, <4>1
      <4>2. CASE p \in 0 .. Pos - 4
        BY <2>2, <3>1, <4>2 DEF Filling
      <4> QED
        BY <1>1, <2>2, <2>4, <4>1, <4>2
    <3> QED
      BY <3>2
  <2>7. MessageIn(a)' = Current
    <3>1. MessageIn(a)' = [p \in 1 .. L |-> rx_buffer'[a][p - 1]]
      BY <2>3 DEF MessageIn
    <3>2. Current = [p \in 1 .. L |-> Current[p]]
      BY <1>1, LenProperties
    <3>3. \A p \in 1 .. L : rx_buffer'[a][p - 1] = Current[p]
      <4> TAKE p \in 1 .. L
      <4>1. p - 1 \in 0 .. L - 1 /\ p - 1 + 1 = p
        BY <1>1
      <4> QED
        BY <2>6, <4>1
    <3> HIDE DEF L
    <3> QED
      BY <3>1, <3>2, <3>3
  <2>8. \A b \in Buffer \ {a} : rx_buffer_ready'[b] = rx_buffer_ready[b]
    BY <2>3 DEF IInv, TypeOK
  <2>9. \A b \in Buffer : rx_buffer_ready[b] => MessageIn(b)' = MessageIn(b)
    BY <1>1, IsrKeepsMessages
  <2>10. rx_buffer_ready'[a] = TRUE
    BY <2>3 DEF IInv, TypeOK
  <2>11. a \notin Holding(x)
    BY <2>3 DEF Holding
  <2>12. Holding(x)' = IF x = Current THEN Holding(x) \cup {a} ELSE Holding(x)
    <3>1. Holding(x)' = {b \in Buffer : rx_buffer_ready'[b] /\ MessageIn(b)' = x}
      BY DEF Holding
    <3>2. \A b \in Buffer \ {a} :
            rx_buffer_ready'[b] /\ MessageIn(b)' = x <=> rx_buffer_ready[b] /\ MessageIn(b) = x
      BY <2>8, <2>9
    <3>3. rx_buffer_ready'[a] /\ MessageIn(a)' = x <=> x = Current
      BY <2>7, <2>10
    <3> HIDE DEF a
    <3>4. \A b \in Buffer : b \in Holding(x)' <=> b \in Holding(x) \/ (b = a /\ x = Current)
      <4> TAKE b \in Buffer
      <4>1. CASE b = a
        <5>1. MessageIn(b)' = MessageIn(a)'
          BY <2>3, <4>1
        <5> QED
          BY <2>10, <2>11, <3>1, <3>3, <4>1, <5>1
      <4>2. CASE b # a
        BY <3>1, <3>2, <4>2 DEF Holding
      <4> QED
        BY <4>1, <4>2
    <3>5. Holding(x)' \subseteq Buffer /\ Holding(x) \subseteq Buffer
      BY DEF Holding
    <3> QED
      BY <2>3, <3>4, <3>5
  <2>13. ~ IsComing(x)'
    BY <2>4 DEF IsComing
  <2>14. x = Current => IsComing(x)
    BY <1>1, <2>2 DEF IsComing, Filling
  <2> QED
    BY <2>3, <2>11, <2>12, <2>13, <2>14
<1> QED
  BY <1>3, <1>4

\* Four numbers that balance.
LEMMA Balance ==
  ASSUME NEW g \in Nat, NEW h \in Nat, NEW k \in Nat, NEW s \in Nat, g + h + k <= s
  PROVE  /\ g + h + 0 <= s
         /\ k = 0 => g + h + 1 <= s + 1
         /\ k = 1 => g + (h + 1) + 0 <= s
         /\ h > 0 => (g + 1) + (h - 1) + k <= s
  OBVIOUS

\* A received byte moves at most the message that is coming in, to a buffer.
LEMMA TransmitCount ==
  ASSUME IInv, WireInv, InStep, got \in Seq(Seq(Byte)), CountInv, TransmitByte, Unharmed'
  PROVE  CountInv'
<1> SUFFICES ASSUME NEW x \in Seq(Byte)
             PROVE  Count(got, x)' + Cardinality(Holding(x))' + Coming(x)' <= Count(sent, x)'
  BY DEF CountInv
<1> DEFINE g == Count(got, x)
           h == Cardinality(Holding(x))
           s == Count(sent, x)
           k == Coming(x)
<1>1. g \in Nat /\ h \in Nat /\ s \in Nat /\ k \in {0, 1}
  BY CountType, HoldingFinite DEF WireInv, Coming
<1>2. g + h + k <= s
  BY DEF CountInv
<1>3. got' = got /\ sent' = sent
  BY DEF TransmitByte
<1>4. Count(got, x)' = g /\ Count(sent, x)' = s
  BY <1>3 DEF Count
<1>5. CASE Holding(x)' = Holding(x) /\ (IsComing(x)' => IsComing(x))
  <2>1. Coming(x)' = 0 \/ Coming(x)' = k
    BY <1>5 DEF Coming
  <2>2. Cardinality(Holding(x))' = h
    BY <1>5
  <2> HIDE DEF g, h, s, k
  <2>3. g + h + 0 <= s
    BY <1>1, <1>2, Balance
  <2> QED
    BY <1>2, <1>4, <2>1, <2>2, <2>3
<1>6. CASE /\ IsComing(x) /\ ~ IsComing(x)'
           /\ \E b \in Buffer : b \notin Holding(x) /\ Holding(x)' = Holding(x) \cup {b}
  <2>1. k = 1 /\ Coming(x)' = 0
    BY <1>6 DEF Coming
  <2>2. PICK b \in Buffer : b \notin Holding(x) /\ Holding(x)' = Holding(x) \cup {b}
    BY <1>6
  <2>3. Cardinality(Holding(x) \cup {b}) = Cardinality(Holding(x)) + 1
    BY <2>2, HoldingFinite, FS_AddElement
  <2>4. Cardinality(Holding(x))' = h + 1
    BY <2>2, <2>3
  <2> HIDE DEF g, h, s, k
  <2>5. g + (h + 1) + 0 <= s
    BY <1>1, <1>2, <2>1, Balance
  <2> QED
    BY <1>4, <2>1, <2>4, <2>5
<1> QED
  BY <1>5, <1>6, TransmitHolds

\* A message that is sent is coming in.
LEMMA SendCount ==
  ASSUME IInv, WireInv, got \in Seq(Seq(Byte)), CountInv,
         NEW m \in Payloads, SendMessage(m)
  PROVE  CountInv'
<1> SUFFICES ASSUME NEW x \in Seq(Byte)
             PROVE  Count(got, x)' + Cardinality(Holding(x))' + Coming(x)' <= Count(sent, x)'
  BY DEF CountInv
<1> DEFINE g == Count(got, x)
           h == Cardinality(Holding(x))
           s == Count(sent, x)
<1>1. g \in Nat /\ h \in Nat /\ s \in Nat
  BY CountType, HoldingFinite DEF WireInv
<1>2. wire = <<>> /\ Coming(x) = 0
  BY DEF SendMessage, Coming, IsComing
<1>3. g + h + 0 <= s
  BY <1>2 DEF CountInv
<1>4. got' = got /\ sent' = Append(sent, m) /\ UNCHANGED vars
  BY DEF SendMessage
<1>5. Count(got, x)' = g /\ Cardinality(Holding(x))' = h
  BY <1>4 DEF Count, Holding, MessageIn, vars, isrVars
<1>6. Count(sent, x)' = s + (IF m = x THEN 1 ELSE 0)
  <2>1. Count(Append(sent, m), x) = s + (IF m = x THEN 1 ELSE 0)
    BY CountAppend DEF WireInv
  <2>2. Count(sent, x)' = Count(Append(sent, m), x)
    BY <1>4 DEF Count
  <2> QED
    BY <2>1, <2>2
<1>7. Coming(x)' = IF m = x THEN 1 ELSE 0
  BY SendWire DEF Coming, IsComing
<1> HIDE DEF g, h, s
<1>8. CASE m = x
  BY <1>1, <1>3, <1>5, <1>6, <1>7, <1>8
<1>9. CASE m # x
  BY <1>1, <1>3, <1>5, <1>6, <1>7, <1>9
<1> QED
  BY <1>8, <1>9

\* Releasing a buffer gives its message to the handler.
LEMMA ReceiveCount ==
  ASSUME IInv, WireInv, got \in Seq(Seq(Byte)), CountInv, Receive
  PROVE  got' \in Seq(Seq(Byte)) /\ CountInv'
<1>1. UNCHANGED <<wire, sent, Pos, Current, rx_esp_state, rx_buffer_len, rx_buffer>>
  BY QuietWire, MainLoopKeepsParser DEF Receive
<1>2. \A x : Coming(x)' = Coming(x)
  BY <1>1 DEF Coming, IsComing
<1>3. \A b \in Buffer : MessageIn(b)' = MessageIn(b)
  BY <1>1 DEF MessageIn
<1>4. CASE Release
  <2> DEFINE e == Given
  <2>1. e \in Seq(Byte)
    BY GivenType
  <2>2. got' = Append(got, e)
    BY <1>4 DEF Receive, Given
  <2>3. got' \in Seq(Seq(Byte))
    BY <2>1, <2>2, AppendProperties
  <2>4. /\ i \in Buffer /\ rx_buffer_ready[i] /\ len = rx_buffer_len[i]
        /\ \A p \in 0 .. len - 1 : buf[p] = rx_buffer[i][p]
        /\ rx_buffer_ready' = [rx_buffer_ready EXCEPT ![i] = FALSE]
    BY <1>4 DEF Release, IInv, CopyIsFaithful
  <2>5. e = MessageIn(i)
    <3>1. \A p \in 1 .. len : buf[p - 1] = rx_buffer[i][p - 1]
      <4> TAKE p \in 1 .. len
      <4>1. p - 1 \in 0 .. len - 1
        BY Sizes DEF IInv, TypeOK
      <4> QED
        BY <2>4, <4>1
    <3> QED
      BY <2>4, <3>1 DEF Given, MessageIn
  <2> HIDE DEF e
  <2>6. rx_buffer_ready'[i] = FALSE
        /\ \A b \in Buffer \ {i} : rx_buffer_ready'[b] = rx_buffer_ready[b]
    BY <2>4 DEF IInv, TypeOK
  <2> SUFFICES ASSUME NEW x \in Seq(Byte)
               PROVE  Count(got, x)' + Cardinality(Holding(x))' + Coming(x)'
                        <= Count(sent, x)'
    BY <2>3 DEF CountInv
  <2> DEFINE g == Count(got, x)
             h == Cardinality(Holding(x))
             s == Count(sent, x)
             k == Coming(x)
  <2>7. g \in Nat /\ h \in Nat /\ s \in Nat /\ k \in Nat
    BY CountType, HoldingFinite DEF WireInv, Coming
  <2>8. g + h + k <= s
    BY DEF CountInv
  <2>9. Count(sent, x)' = s /\ Coming(x)' = k
    BY <1>1, <1>2 DEF Count
  <2>10. Count(got, x)' = g + (IF e = x THEN 1 ELSE 0)
    <3>1. Count(Append(got, e), x) = g + (IF e = x THEN 1 ELSE 0)
      BY <2>1, CountAppend
    <3>2. Count(got, x)' = Count(Append(got, e), x)
      BY <2>2 DEF Count
    <3> QED
      BY <3>1, <3>2
  <2>11. Holding(x)' = Holding(x) \ {i}
    <3>1. \A b \in Buffer : b \in Holding(x)' <=> b \in Holding(x) /\ b # i
      BY <1>3, <2>6 DEF Holding
    <3>2. Holding(x)' \subseteq Buffer /\ Holding(x) \subseteq Buffer
      BY DEF Holding
    <3> QED
      BY <3>1, <3>2
  <2>12. i \in Holding(x) <=> e = x
    BY <2>4, <2>5 DEF Holding
  <2>13. CASE e = x
    <3>1. Cardinality(Holding(x) \ {i}) = Cardinality(Holding(x)) - 1
      BY <2>12, <2>13, HoldingFinite, FS_RemoveElement
    <3>2. Cardinality(Holding(x))' = h - 1
      BY <2>11, <3>1
    <3>3. Count(got, x)' = g + 1
      BY <2>10, <2>13
    <3> HIDE DEF g, h, s, k
    <3>4. (g + 1) + (h - 1) + k <= s
      BY <2>7, <2>8
    <3> QED
      BY <2>9, <3>2, <3>3, <3>4
  <2>14. CASE e # x
    <3>1. Holding(x)' = Holding(x)
      BY <2>11, <2>12, <2>14
    <3>2. Cardinality(Holding(x))' = h /\ Count(got, x)' = g + 0
      BY <2>10, <2>14, <3>1
    <3>3. g + 0 = g
      BY <2>7
    <3> QED
      BY <2>8, <2>9, <3>2, <3>3
  <2> QED
    BY <2>13, <2>14
<1>5. CASE ~ Release
  <2>1. got' = got
    BY <1>5 DEF Receive
  <2>2. rx_buffer_ready' = rx_buffer_ready
    BY <1>5
       DEF Receive, MainLoop, GetMessage, NotReady, NoMessage, Found, CopyByte, Handled
  <2>3. \A x : Holding(x)' = Holding(x)
    BY <1>3, <2>2 DEF Holding
  <2>4. \A x : Count(got, x)' = Count(got, x) /\ Count(sent, x)' = Count(sent, x)
    BY <1>1, <2>1 DEF Count
  <2> QED
    BY <1>2, <2>1, <2>3, <2>4 DEF CountInv
<1> QED
  BY <1>4, <1>5

\* While the line is unharmed, the parser is in step and nothing is counted
\* twice.
FaithfulInv ==
  /\ got \in Seq(Seq(Byte))
  /\ Unharmed => InStep /\ CountInv

\* At the start nothing has been sent.
LEMMA InitFaithful == LinkInit => FaithfulInv
<1> SUFFICES ASSUME LinkInit PROVE FaithfulInv
  OBVIOUS
<1>1. got = <<>> /\ sent = <<>> /\ wire = <<>> /\ \A b \in Buffer : ~ rx_buffer_ready[b]
  BY DEF LinkInit, Init
<1>2. InStep
  BY <1>1 DEF LinkInit, Init, InStep
<1>3. got \in Seq(Seq(Byte)) /\ Len(got) = 0 /\ Len(sent) = 0
  BY <1>1, EmptySeq
<1>4. ASSUME NEW x \in Seq(Byte)
      PROVE  Count(got, x) + Cardinality(Holding(x)) + Coming(x) <= Count(sent, x)
  <2>1. {k \in 1 .. 0 : got[k] = x} = {} /\ {k \in 1 .. 0 : sent[k] = x} = {}
    OBVIOUS
  <2>2. Holding(x) = {} /\ Coming(x) = 0
    BY <1>1 DEF Holding, Coming, IsComing
  <2>3. Cardinality({}) = 0
    BY FS_EmptySet
  <2>4. Count(got, x) = 0 /\ Count(sent, x) = 0
    BY <1>3, <2>1, <2>3 DEF Count
  <2> QED
    BY <2>2, <2>3, <2>4
<1> QED
  BY <1>2, <1>3, <1>4 DEF FaithfulInv, CountInv

\* A frame put on the wire, the main loop and a stutter keep the parser in step.
LEMMA OthersInStep ==
  ASSUME IInv, WireInv, InStep,
         Receive \/ UNCHANGED allVars \/ \E m \in Payloads : SendMessage(m)
  PROVE  InStep'
<1>1. CASE Receive \/ UNCHANGED allVars
  <2>1. UNCHANGED <<wire, Pos, Current, rx_esp_state, rx_buffer_len, rx_active_buffer,
                    rx_buffer_offset, rx_buffer>>
    BY <1>1, QuietWire, MainLoopKeepsParser DEF Receive, allVars
  <2> QED
    BY <2>1 DEF InStep, Filling
<1>2. ASSUME NEW m \in Payloads, SendMessage(m) PROVE InStep'
  <2>1. wire = <<>> /\ wire' # <<>> /\ Pos' = 0 /\ rx_esp_state' = rx_esp_state
    BY <1>2, SendWire DEF SendMessage, vars, isrVars
  <2> QED
    BY <2>1 DEF InStep
<1> QED
  BY <1>1, <1>2

\* Every step of the link keeps what is counted.
LEMMA NextFaithful ==
  ASSUME IInv, WireInv, FaithfulInv, [LinkNext]_allVars
  PROVE  FaithfulInv'
<1>1. got' \in Seq(Seq(Byte))
  <2>1. CASE Receive
    <3>1. got' = got \/ got' = Append(got, Given)
      BY <2>1 DEF Receive, Given
    <3> QED
      BY <3>1, GivenType, AppendProperties DEF FaithfulInv
  <2> QED
    BY <2>1 DEF FaithfulInv, LinkNext, SendMessage, TransmitByte, LoseByte, allVars,
       linkVars
<1>2. ASSUME Unharmed' PROVE InStep' /\ CountInv'
  <2>1. ~ LoseByte /\ InStep /\ CountInv /\ got \in Seq(Seq(Byte))
    BY <1>2, UnharmedBefore DEF FaithfulInv
  <2>2. CASE TransmitByte
    BY <1>2, <2>1, <2>2, TransmitInStep, TransmitCount
  <2>3. CASE \E m \in Payloads : SendMessage(m)
    BY <2>1, <2>3, OthersInStep, SendCount
  <2>4. CASE Receive
    BY <2>1, <2>4, OthersInStep, ReceiveCount
  <2>5. CASE UNCHANGED allVars
    <3>1. CountInv'
      BY <2>1, <2>5
         DEF CountInv, Count, Holding, Coming, IsComing, MessageIn, Pos, Current,
                        allVars, linkVars, vars, isrVars
    <3> QED
      BY <2>1, <2>5, <3>1, OthersInStep
  <2> QED
    BY <2>1, <2>2, <2>3, <2>4, <2>5 DEF LinkNext
<1> QED
  BY <1>1, <1>2 DEF FaithfulInv

\* On a line that loses nothing, and while no frame was skipped for want of a
\* buffer or none holds a start byte, every message the handler is given was
\* sent, and is given at most as often as it was sent.
THEOREM HandledWasSentUnharmed == LinkSpec => [](Unharmed => HandledWasSent)
<1>1. IInv /\ WireInv /\ FaithfulInv /\ [LinkNext]_allVars => FaithfulInv'
  BY NextFaithful
<1>2. WireInv /\ FaithfulInv => (Unharmed => HandledWasSent)
  <2> SUFFICES ASSUME WireInv, FaithfulInv, Unharmed, NEW j \in 1 .. Len(got)
               PROVE  Count(got, got[j]) <= Count(sent, got[j])
    BY DEF HandledWasSent
  <2> DEFINE x == got[j]
  <2>1. x \in Seq(Byte)
    BY ElementOfSeq DEF FaithfulInv
  <2>2. Count(got, x) + Cardinality(Holding(x)) + Coming(x) <= Count(sent, x)
    BY <2>1 DEF FaithfulInv, CountInv
  <2>3. /\ Count(got, x) \in Nat /\ Count(sent, x) \in Nat
        /\ Cardinality(Holding(x)) \in Nat /\ Coming(x) \in Nat
    BY CountType, HoldingFinite DEF FaithfulInv, WireInv, Coming
  <2> HIDE DEF x
  <2>4. Count(got, x) <= Count(sent, x)
    BY <2>2, <2>3
  <2> QED
    BY <2>4 DEF x
<1> QED
  BY <1>1, <1>2, InitFaithful, LinkInvariant, PTL DEF LinkSpec

\* With a plain sender nothing is invented, however many frames are skipped.
THEOREM NothingInventedPlain == ASSUME Plain PROVE LinkSpec => []NothingInvented
<1>1. (Unharmed => HandledWasSent) => NothingInvented
  BY DEF Unharmed, NothingInvented
<1> QED
  BY <1>1, HandledWasSentUnharmed, PTL

-----------------------------------------------------------------------------
(***************************************************************************)
(* Nothing lost silently.  Each message sent is in one place: given to the *)
(* handler, waiting in a buffer, still coming in, or counted as one that   *)
(* found no free buffer.                                                   *)
(***************************************************************************)

Waiting == {b \in Buffer : rx_buffer_ready[b]}

\* The frame on the wire is going to fill a buffer, or to find none.
Arriving == wire # <<>> /\ (Pos < 3 \/ rx_esp_state = "receive_data")

Accounted ==
  Len(got) + overruns + Cardinality(Waiting) + (IF Arriving THEN 1 ELSE 0) = Len(sent)

\* A set of buffers is finite.
LEMMA WaitingFinite ==
  /\ IsFiniteSet(Waiting) /\ Cardinality(Waiting) \in Nat
<1>1. IsFiniteSet(Buffer)
  BY SizeAssumption, FS_Interval DEF Buffer
<1>2. IsFiniteSet(Waiting)
  BY <1>1, FS_Subset DEF Waiting
<1> QED
  BY <1>2, FS_CardinalityType

\* The last byte of a frame fills the buffer it goes to.
LEMMA LastByteFills ==
  ASSUME IInv, WireInv, InStep, wire # <<>>, NEW c \in Byte, ReceiveData(c)
  PROVE  /\ Pos >= 3 /\ Filling
         /\ IF Pos - 2 = Len(Current)
            THEN \E b \in Buffer \ Waiting : Waiting' = Waiting \cup {b}
            ELSE Waiting' = Waiting /\ rx_esp_state' = "receive_data"
<1> DEFINE a == rx_active_buffer
<1>1. Pos \in 0 .. Len(Current) + 2 /\ Len(Current) \in Nat
  BY FrontByte, Sizes
<1>2. rx_esp_state = "receive_data"
  BY DEF ReceiveData
<1>3. Pos >= 3 /\ Filling
  BY <1>1, <1>2 DEF InStep
<1>4. /\ a \in Buffer /\ ~ rx_buffer_ready[a]
      /\ rx_buffer_len[a] = Len(Current) /\ rx_buffer_offset = Pos - 3
  BY <1>2, <1>3 DEF Filling, IInv, TypeOK, FillingIsPrivate
<1>5. rx_buffer_offset' = Pos - 2
  BY <1>1, <1>3, <1>4 DEF ReceiveData
<1>6. CASE Pos - 2 = Len(Current)
  <2>1. rx_buffer_ready' = [rx_buffer_ready EXCEPT ![a] = TRUE]
    BY <1>4, <1>5, <1>6 DEF ReceiveData
  <2>2. \A b \in Buffer : b \in Waiting' <=> b \in Waiting \/ b = a
    BY <1>4, <2>1 DEF Waiting, IInv, TypeOK
  <2>3. Waiting' \subseteq Buffer /\ Waiting \subseteq Buffer /\ a \notin Waiting
    BY <1>4 DEF Waiting
  <2> HIDE DEF a
  <2>4. Waiting' = Waiting \cup {a}
    BY <1>4, <2>2, <2>3
  <2> QED
    BY <1>3, <1>4, <1>6, <2>3, <2>4
<1>7. CASE Pos - 2 # Len(Current)
  BY <1>2, <1>3, <1>4, <1>5, <1>7 DEF ReceiveData, Waiting
<1> QED
  BY <1>6, <1>7

\* A received byte leaves every message where it is, or moves the one that is
\* coming in, to a buffer or to the overruns.
LEMMA TransmitMoves ==
  ASSUME IInv, WireInv, InStep, TransmitByte
  PROVE  \/ overruns' = overruns /\ Waiting' = Waiting /\ Arriving' = Arriving
         \/ overruns' = overruns + 1 /\ Waiting' = Waiting /\ Arriving /\ ~ Arriving'
         \/ /\ overruns' = overruns /\ Arriving /\ ~ Arriving'
            /\ \E b \in Buffer \ Waiting : Waiting' = Waiting \cup {b}
<1> DEFINE c == Head(wire)
           n == Len(wire)
           L == Len(Current)
<1>1. /\ wire # <<>> /\ c \in Byte /\ RxIsr(c)
      /\ L \in 1 .. ESP_MAX_PAYLOAD /\ ESP_MAX_PAYLOAD \in Nat
      /\ Pos \in 0 .. L + 2 /\ n = L + 3 - Pos /\ overruns \in Nat
      /\ Pos = 2 => c = L
  BY Sizes, FrontByte DEF TransmitByte, WireInv
<1>2. Pos' = Pos + 1 /\ Current' = Current /\ (wire' = <<>> <=> n = 1)
  BY TransmitWire
<1>3. /\ rx_esp_state = "wait_for_start0" => Pos = 0 \/ Pos >= 3
      /\ rx_esp_state = "wait_for_start1" => Pos = 1
      /\ rx_esp_state = "wait_for_length" => Pos = 2
  BY <1>1 DEF InStep, Filling
<1>4. overruns' = IF Overrun(c) THEN overruns + 1 ELSE overruns
  BY <1>1 DEF TransmitByte
<1>5. CASE Overrun(c)
  <2>1. /\ rx_esp_state = "wait_for_length" /\ rx_esp_state' = "wait_for_start0"
        /\ Waiting' = Waiting
    BY <1>5 DEF Overrun, Waiting
  <2> QED
    BY <1>1, <1>2, <1>3, <1>4, <1>5, <2>1 DEF Arriving
<1>6. CASE ReceiveData(c)
  <2>1. overruns' = overruns
    BY <1>4, <1>6 DEF ReceiveData, Overrun
  <2>2. Arriving
    BY <1>1, <1>6 DEF ReceiveData, Arriving
  <2>3. CASE Pos - 2 = L
    <3>1. wire' = <<>> /\ ~ Arriving'
      BY <1>1, <1>2, <2>3 DEF Arriving
    <3> QED
      BY <1>1, <1>6, <2>1, <2>2, <2>3, <3>1, LastByteFills
  <2>4. CASE Pos - 2 # L
    <3>1. wire' # <<>> /\ Waiting' = Waiting /\ rx_esp_state' = "receive_data"
      BY <1>1, <1>2, <1>6, <2>4, LastByteFills
    <3> QED
      BY <2>1, <2>2, <3>1 DEF Arriving
  <2> QED
    BY <2>3, <2>4
<1>7. CASE WaitForStart0(c) \/ WaitForStart1(c) \/ ClaimBuffer(c)
  <2>1. overruns' = overruns /\ Waiting' = Waiting
    BY <1>4, <1>7
       DEF WaitForStart0, WaitForStart1, ClaimBuffer, Overrun, Waiting, FirstFree
  <2>2. CASE Pos < 3
    <3>1. Pos < 2 \/ rx_esp_state' = "receive_data"
      BY <1>1, <1>3, <1>7, <2>2 DEF WaitForStart0, WaitForStart1, ClaimBuffer
    <3> QED
      BY <1>1, <1>2, <2>1, <2>2, <3>1 DEF Arriving
  <2>3. CASE Pos >= 3
    <3>1. rx_esp_state = "wait_for_start0" /\ rx_esp_state' # "receive_data"
      BY <1>1, <1>3, <1>7, <2>3 DEF WaitForStart0, WaitForStart1, ClaimBuffer
    <3> QED
      BY <1>1, <1>2, <2>1, <2>3, <3>1 DEF Arriving
  <2> QED
    BY <1>1, <2>2, <2>3
<1>8. ~ RejectLength(c)
  BY <1>1, <1>3 DEF RejectLength, LengthOK
<1> QED
  BY <1>1, <1>5, <1>6, <1>7, <1>8 DEF RxIsr

\* So a received byte keeps the account,
LEMMA TransmitAccounted ==
  ASSUME IInv, WireInv, InStep, got \in Seq(Seq(Byte)), Accounted, TransmitByte
  PROVE  Accounted'
<1> DEFINE g == Len(got)
           s == Len(sent)
           w == Cardinality(Waiting)
           o == overruns
<1>1. g \in Nat /\ s \in Nat /\ w \in Nat /\ o \in Nat
  BY WaitingFinite, LenProperties DEF WireInv
<1>2. g + o + w + (IF Arriving THEN 1 ELSE 0) = s
  BY DEF Accounted
<1>3. Len(got)' = g /\ Len(sent)' = s
  BY DEF TransmitByte
<1>4. Accounted' <=>
        Len(got)' + overruns' + Cardinality(Waiting)' + (IF Arriving' THEN 1 ELSE 0)
          = Len(sent)'
  BY DEF Accounted
<1>5. CASE overruns' = o /\ Waiting' = Waiting /\ Arriving' = Arriving
  <2>1. Cardinality(Waiting)' = w
    BY <1>5
  <2> QED
    BY <1>2, <1>3, <1>4, <1>5, <2>1
<1>6. CASE overruns' = o + 1 /\ Waiting' = Waiting /\ Arriving /\ ~ Arriving'
  <2>1. Cardinality(Waiting)' = w
    BY <1>6
  <2> HIDE DEF g, s, w, o
  <2>2. g + (o + 1) + w + 0 = s
    BY <1>1, <1>2, <1>6
  <2> QED
    BY <1>3, <1>4, <1>6, <2>1, <2>2
<1>7. CASE /\ overruns' = o /\ Arriving /\ ~ Arriving'
           /\ \E b \in Buffer \ Waiting : Waiting' = Waiting \cup {b}
  <2>1. PICK b \in Buffer \ Waiting : Waiting' = Waiting \cup {b}
    BY <1>7
  <2>2. Cardinality(Waiting \cup {b}) = Cardinality(Waiting) + 1
    BY <2>1, WaitingFinite, FS_AddElement
  <2>3. Cardinality(Waiting)' = w + 1
    BY <2>1, <2>2
  <2> HIDE DEF g, s, w, o
  <2>4. g + o + (w + 1) + 0 = s
    BY <1>1, <1>2, <1>7
  <2> QED
    BY <1>3, <1>4, <1>7, <2>3, <2>4
<1> QED
  BY <1>5, <1>6, <1>7, TransmitMoves

\* so does a message that is sent,
LEMMA SendAccounted ==
  ASSUME WireInv, got \in Seq(Seq(Byte)), Accounted, NEW m \in Payloads, SendMessage(m)
  PROVE  Accounted'
<1>1. ~ Arriving /\ Arriving'
  BY SendWire DEF SendMessage, Arriving
<1>2. got' = got /\ overruns' = overruns /\ Waiting' = Waiting /\ sent' = Append(sent, m)
  BY DEF SendMessage, vars, Waiting
<1>3. Len(sent') = Len(sent) + 1
  BY <1>2, AppendProperties DEF WireInv
<1>4. Len(got) \in Nat /\ overruns \in Nat /\ Cardinality(Waiting) \in Nat /\ Len(sent) \in Nat
  BY WaitingFinite, LenProperties DEF WireInv
<1>5. Len(got') = Len(got) /\ Cardinality(Waiting)' = Cardinality(Waiting)
  BY <1>2
<1> QED
  BY <1>1, <1>2, <1>3, <1>4, <1>5 DEF Accounted

\* and the main loop, which gives the handler what it takes from a buffer.
LEMMA ReceiveAccounted ==
  ASSUME IInv, WireInv, got \in Seq(Seq(Byte)), Accounted, Receive
  PROVE  Accounted'
<1>1. UNCHANGED <<wire, sent, overruns, Pos, rx_esp_state>>
  BY QuietWire, MainLoopKeepsParser DEF Receive
<1>2. Arriving' = Arriving
  BY <1>1 DEF Arriving
<1>3. CASE Release
  <2>1. got' = Append(got, Given)
    BY <1>3 DEF Receive, Given
  <2>2. Len(got') = Len(got) + 1
    BY <2>1, GivenType, AppendProperties
  <2>3. i \in Waiting /\ rx_buffer_ready' = [rx_buffer_ready EXCEPT ![i] = FALSE]
    BY <1>3 DEF Release, IInv, CopyIsFaithful, Waiting
  <2>4. Waiting' = Waiting \ {i}
    <3>1. \A b \in Buffer : b \in Waiting' <=> b \in Waiting /\ b # i
      BY <2>3 DEF Waiting, IInv, TypeOK
    <3>2. Waiting' \subseteq Buffer /\ Waiting \subseteq Buffer
      BY DEF Waiting
    <3> QED
      BY <3>1, <3>2
  <2>5. Cardinality(Waiting \ {i}) = Cardinality(Waiting) - 1
    BY <2>3, WaitingFinite, FS_RemoveElement
  <2>6. Cardinality(Waiting)' = Cardinality(Waiting) - 1
    BY <2>4, <2>5
  <2>7. Len(got) \in Nat /\ overruns \in Nat /\ Cardinality(Waiting) \in Nat
    BY WaitingFinite, LenProperties DEF WireInv
  <2> QED
    BY <1>1, <1>2, <2>2, <2>6, <2>7 DEF Accounted
<1>4. CASE ~ Release
  <2>1. got' = got /\ Waiting' = Waiting
    BY <1>4 DEF Receive, MainLoop, GetMessage, NotReady, NoMessage, Found, CopyByte,
       Handled,
                Waiting
  <2> QED
    BY <1>1, <1>2, <2>1 DEF Accounted
<1> QED
  BY <1>3, <1>4

\* On a line that loses nothing, once a frame has been read to its end and no
\* buffer waits, every message sent was given to the handler or found every
\* buffer taken: none disappears on the way.
THEOREM NoneLostSilently ==
  LinkSpec => [](Unharmed => /\ Accounted
                             /\ wire = <<>> /\ Waiting = {} => Len(got) + overruns = Len(sent))
<1> DEFINE AccountInv == Unharmed => Accounted
<1>1. LinkInit => AccountInv
  <2> SUFFICES ASSUME LinkInit PROVE Accounted
    OBVIOUS
  <2>1. got = <<>> /\ sent = <<>> /\ wire = <<>> /\ overruns = 0
    BY DEF LinkInit
  <2>2. Waiting = {} /\ Cardinality({}) = 0
    BY FS_EmptySet DEF LinkInit, Init, Waiting
  <2>3. Len(got) = 0 /\ Len(sent) = 0
    BY <2>1, EmptySeq
  <2> QED
    BY <2>1, <2>2, <2>3 DEF Accounted, Arriving
<1>2. IInv /\ WireInv /\ FaithfulInv /\ AccountInv /\ [LinkNext]_allVars => AccountInv'
  <2> SUFFICES ASSUME IInv, WireInv, FaithfulInv, AccountInv, [LinkNext]_allVars, Unharmed'
               PROVE  Accounted'
    OBVIOUS
  <2>1. ~ LoseByte /\ InStep /\ Accounted /\ got \in Seq(Seq(Byte))
    BY UnharmedBefore DEF FaithfulInv
  <2>2. CASE UNCHANGED allVars
    BY <2>1, <2>2 DEF Accounted, Waiting, Arriving, Pos, Current, allVars, linkVars, vars,
                      isrVars
  <2> QED
    BY <2>1, <2>2, TransmitAccounted, SendAccounted, ReceiveAccounted DEF LinkNext
<1>3. WireInv /\ FaithfulInv /\ AccountInv =>
        (Unharmed => /\ Accounted
                     /\ wire = <<>> /\ Waiting = {} => Len(got) + overruns = Len(sent))
  <2> SUFFICES ASSUME WireInv, FaithfulInv, Accounted, wire = <<>>, Waiting = {}
               PROVE  Len(got) + overruns = Len(sent)
    OBVIOUS
  <2>1. Cardinality(Waiting) = 0 /\ ~ Arriving
    BY FS_EmptySet DEF Arriving
  <2>2. Len(got) \in Nat /\ overruns \in Nat /\ Len(sent) \in Nat
    BY LenProperties DEF FaithfulInv, WireInv
  <2> QED
    BY <2>1, <2>2 DEF Accounted
<1>4. IInv /\ WireInv /\ FaithfulInv /\ [LinkNext]_allVars => FaithfulInv'
  BY NextFaithful
<1> QED
  BY <1>1, <1>2, <1>3, <1>4, InitFaithful, LinkInvariant, PTL DEF LinkSpec
=============================================================================
