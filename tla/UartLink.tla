------------------------------ MODULE UartLink ------------------------------
(***************************************************************************)
(* The serial receiver at the end of a line on which another node sends    *)
(* with uart1_send_message.  The receiver is UartRx, unchanged; here the   *)
(* bytes it sees are those of well-formed frames, except that the line may *)
(* lose some (flash_erase_app keeps interrupts off for about 600 ms, and   *)
(* the UART holds only two bytes).  History variables record what was      *)
(* sent and what the input handler was given.                              *)
(***************************************************************************)
EXTENDS UartRx, Sequences, FiniteSets

CONSTANTS
  Payloads,   \* the messages a sender may send, sequences of bytes
  MaxFrames,  \* bound: frames sent in a behaviour
  MaxLost     \* bound: bytes lost in a behaviour

ASSUME PayloadAssumption ==
  /\ 1 .. ESP_MAX_PAYLOAD \subseteq Byte
  /\ \A m \in Payloads : m \in Seq(Byte) /\ Len(m) \in 1 .. ESP_MAX_PAYLOAD

\* The first start byte, taken for a length, is no length or leaves room (in
\* uart.h it is 34, of 251).
ASSUME StartByteAssumption ==
  ESP_START_BYTE_0 \in 1 .. ESP_MAX_PAYLOAD => ESP_START_BYTE_0 <= ESP_MAX_PAYLOAD - 2

ASSUME BoundAssumption == {MaxFrames, MaxLost} \subseteq Nat

VARIABLES
  wire,      \* what is left to transmit of the frame being sent
  sent,      \* history: the messages sent, in order
  got,       \* history: the messages the input handler was given, in order
  overruns,  \* history: frames that found every buffer taken
  lost,      \* history: bytes lost
  clean      \* history: bytes received since the last loss, up to CleanBound

linkVars == <<wire, sent, got, overruns, lost, clean>>
allVars  == <<vars, linkVars>>

\* After this many bytes without a loss the receiver must be in step with the
\* sender again: a message it wrongly believes in, and the rest of the frame
\* in which that message ends.
CleanBound == ESP_MAX_PAYLOAD + (3 + ESP_MAX_PAYLOAD)

LinkInit ==
  /\ Init
  /\ wire = <<>>
  /\ sent = <<>>
  /\ got = <<>>
  /\ overruns = 0
  /\ lost = 0
  /\ clean = CleanBound

\* uart1_send_message puts the header, the length and the payload.
Frame(m) == <<ESP_START_BYTE_0, ESP_START_BYTE_1, Len(m)>> \o m

SendMessage(m) ==
  /\ wire = <<>>
  /\ Len(sent) < MaxFrames
  /\ wire' = Frame(m)
  /\ sent' = Append(sent, m)
  /\ UNCHANGED <<vars, got, overruns, lost, clean>>

TransmitByte ==
  /\ wire # <<>>
  /\ RxIsr(Head(wire))
  /\ wire' = Tail(wire)
  /\ overruns' = overruns + (IF Overrun(Head(wire)) THEN 1 ELSE 0)
  /\ clean' = IF clean < CleanBound THEN clean + 1 ELSE clean
  /\ UNCHANGED <<sent, got, lost>>

LoseByte ==
  /\ wire # <<>>
  /\ lost < MaxLost
  /\ wire' = Tail(wire)
  /\ lost' = lost + 1
  /\ clean' = 0
  /\ UNCHANGED <<vars, sent, got, overruns>>

\* The main loop of the receiving node.
Receive ==
  /\ MainLoop
  /\ got' = IF Release THEN Append(got, [p \in 1 .. len |-> buf[p - 1]]) ELSE got
  /\ UNCHANGED <<wire, sent, overruns, lost, clean>>

LinkNext ==
  \/ \E m \in Payloads : SendMessage(m)
  \/ TransmitByte
  \/ LoseByte
  \/ Receive

LinkSpec == LinkInit /\ [][LinkNext]_allVars

\* The sender's bytes arrive (or are lost) at the baud rate; the main loop
\* runs whenever no interrupt does.
FairLinkSpec ==
  /\ LinkSpec
  /\ WF_allVars(TransmitByte)
  /\ WF_allVars(Receive)

-----------------------------------------------------------------------------
Count(s, m) == Cardinality({k \in 1 .. Len(s) : s[k] = m})

\* On a line that loses nothing, every message the input handler is given was
\* sent, and is given at most as often as it was sent.  uart1.c:206 says of a
\* frame that finds no free buffer "just skip this packet".
HandledWasSent == \A k \in 1 .. Len(got) : Count(got, got[k]) <= Count(sent, got[k])

NothingInvented == lost = 0 => HandledWasSent

\* A frame is lost only when it finds every buffer taken: on a line that loses
\* nothing, every other frame reaches the handler.
Quiet == wire = <<>> /\ Len(sent) = MaxFrames
EveryFrameAccountedFor ==
  Quiet /\ lost = 0 ~> Len(got) + overruns = Len(sent)

\* No start byte occurs in a message.  Without this, a header inside a message
\* may keep a receiver that is out of step so for ever.
Plain ==
  \A m \in Payloads : \A k \in 1 .. Len(m) :
    m[k] \notin {ESP_START_BYTE_0, ESP_START_BYTE_1}

\* The receiver finds the frame boundary again.  A lost byte may make it take
\* the following frames for the rest of a message; once it has received
\* CleanBound bytes, the end of a frame finds it waiting for a new one.
Resynchronises ==
  wire = <<>> /\ clean = CleanBound => rx_esp_state = "wait_for_start0"
=============================================================================
