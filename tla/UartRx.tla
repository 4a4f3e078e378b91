------------------------------- MODULE UartRx -------------------------------
(***************************************************************************)
(* The serial receiver of open-lst/common/uart1.c (uart0.c is the same     *)
(* code with one buffer): the receive interrupt, which parses the ESP      *)
(* framing byte by byte into a free buffer, and uart1_get_message, which   *)
(* the main loop calls to copy a finished message out.  There is no lock:  *)
(* the interrupt may run between any two steps of the main loop, and       *)
(* rx_buffer_ready is all that keeps the two out of each other's buffers.  *)
(*                                                                         *)
(* A step of this module is one interrupt, or one access of the main loop  *)
(* to a variable it shares with the interrupt.  Bytes lost on the wire     *)
(* need no action here: a lost byte is an interrupt that does not happen.  *)
(***************************************************************************)
EXTENDS Naturals

CONSTANTS
  Byte,                \* the values of a received character
  ESP_START_BYTE_0,
  ESP_START_BYTE_1,
  ESP_MAX_PAYLOAD,     \* longest payload a buffer holds
  UART_RX_BUFFERS      \* UART1_RX_BUFFERS or UART0_RX_BUFFERS

ASSUME ByteAssumption ==
  /\ Byte \subseteq Nat
  /\ 0 \in Byte
  /\ {ESP_START_BYTE_0, ESP_START_BYTE_1} \subseteq Byte
  /\ ESP_START_BYTE_0 # ESP_START_BYTE_1

ASSUME SizeAssumption ==
  /\ ESP_MAX_PAYLOAD \in Nat \ {0}
  /\ UART_RX_BUFFERS \in Nat \ {0}

Buffer == 0 .. UART_RX_BUFFERS - 1
Position == 0 .. ESP_MAX_PAYLOAD - 1

VARIABLES
  rx_esp_state,      \* the parser's state, esp_state_t
  rx_buffer_ready,   \* which buffers hold a finished message
  rx_buffer_len,     \* length byte of the message in each buffer
  rx_active_buffer,  \* the buffer the interrupt fills
  rx_buffer_offset,  \* where in that buffer the next byte goes
  rx_buffer,         \* the bytes, [Buffer -> [Position -> Byte]]
  pc,                \* where the main loop is
  i,                 \* uart1_get_message: the buffer looked at
  len,               \* uart1_get_message: length of the message found
  copied,            \* memcpyx: bytes copied so far
  buf                \* the caller's message buffer, [Position -> Byte]

isrVars  == <<rx_esp_state, rx_active_buffer, rx_buffer_offset,
              rx_buffer_len, rx_buffer>>
mainVars == <<pc, i, len, copied, buf>>
vars     == <<isrVars, rx_buffer_ready, mainVars>>

EspState == {"wait_for_start0", "wait_for_start1", "wait_for_length",
             "receive_data"}

TypeOK ==
  /\ rx_esp_state \in EspState
  /\ rx_buffer_ready \in [Buffer -> BOOLEAN]
  /\ rx_buffer_len \in [Buffer -> 0 .. ESP_MAX_PAYLOAD]
  /\ rx_active_buffer \in Buffer
  /\ rx_buffer_offset \in 0 .. ESP_MAX_PAYLOAD
  /\ rx_buffer \in [Buffer -> [Position -> Byte]]
  /\ pc \in {"idle", "scan", "copy", "handle"}
  /\ i \in 0 .. UART_RX_BUFFERS
  /\ len \in 0 .. ESP_MAX_PAYLOAD
  /\ copied \in 0 .. ESP_MAX_PAYLOAD
  /\ buf \in [Position -> Byte]

\* RAM is cleared by the C startup code before main; uart1_init then clears
\* the ready flags.
Init ==
  /\ rx_esp_state = "wait_for_start0"
  /\ rx_buffer_ready = [b \in Buffer |-> FALSE]
  /\ rx_buffer_len = [b \in Buffer |-> 0]
  /\ rx_active_buffer = 0
  /\ rx_buffer_offset = 0
  /\ rx_buffer = [b \in Buffer |-> [p \in Position |-> 0]]
  /\ pc = "idle"
  /\ i = 0
  /\ len = 0
  /\ copied = 0
  /\ buf = [p \in Position |-> 0]

-----------------------------------------------------------------------------
(***************************************************************************)
(* The receive interrupt: one action per case of its switch statement,     *)
(* and one per outcome of the length byte.                                 *)
(***************************************************************************)

WaitForStart0(c) ==
  /\ rx_esp_state = "wait_for_start0"
  /\ rx_esp_state' = IF c = ESP_START_BYTE_0 THEN "wait_for_start1"
                                             ELSE "wait_for_start0"
  /\ UNCHANGED <<rx_active_buffer, rx_buffer_offset, rx_buffer_len,
                 rx_buffer, rx_buffer_ready, mainVars>>

\* Variant: the second start byte is not checked.
WaitForStart1Any(c) ==
  /\ rx_esp_state = "wait_for_start1"
  /\ rx_esp_state' = "wait_for_length"
  /\ UNCHANGED <<rx_active_buffer, rx_buffer_offset, rx_buffer_len,
                 rx_buffer, rx_buffer_ready, mainVars>>

\* Any byte but the second start byte leaves the state as it is.
WaitForStart1(c) ==
  /\ rx_esp_state = "wait_for_start1"
  /\ rx_esp_state' = IF c = ESP_START_BYTE_1 THEN "wait_for_length"
                                             ELSE "wait_for_start1"
  /\ UNCHANGED <<rx_active_buffer, rx_buffer_offset, rx_buffer_len,
                 rx_buffer, rx_buffer_ready, mainVars>>

\* Variant: the longest payload is refused.
LengthOKShort(c) == c \in 1 .. ESP_MAX_PAYLOAD - 1

LengthOK(c) == c \in 1 .. ESP_MAX_PAYLOAD

RejectLength(c) ==
  /\ rx_esp_state = "wait_for_length"
  /\ ~ LengthOK(c)
  /\ rx_esp_state' = "wait_for_start1"
  /\ UNCHANGED <<rx_active_buffer, rx_buffer_offset, rx_buffer_len,
                 rx_buffer, rx_buffer_ready, mainVars>>

\* Every buffer is taken.  The search loop then reads past the end of
\* rx_buffer_ready until it meets a zero byte; wherever that is, the index is
\* out of range and the handler ends the same way.
Overrun(c) ==
  /\ rx_esp_state = "wait_for_length"
  /\ LengthOK(c)
  /\ \A b \in Buffer : rx_buffer_ready[b]
  /\ rx_active_buffer' = 0
  /\ rx_esp_state' = "wait_for_start0"
  /\ UNCHANGED <<rx_buffer_offset, rx_buffer_len, rx_buffer,
                 rx_buffer_ready, mainVars>>

\* Variants: the search does not look at the ready flags; it always ends at
\* the first buffer.
FirstFreeAny(b) == b \in Buffer

FirstFreeZero(b) == b = 0

FirstFree(b) ==
  /\ ~ rx_buffer_ready[b]
  /\ \A a \in 0 .. b - 1 : rx_buffer_ready[a]

ClaimBuffer(c) ==
  /\ rx_esp_state = "wait_for_length"
  /\ LengthOK(c)
  /\ \E b \in Buffer :
       /\ FirstFree(b)
       /\ rx_active_buffer' = b
       /\ rx_buffer_len' = [rx_buffer_len EXCEPT ![b] = c]
  /\ rx_buffer_offset' = 0
  /\ rx_esp_state' = "receive_data"
  /\ UNCHANGED <<rx_buffer, rx_buffer_ready, mainVars>>

\* Variant: the offset is compared before it is incremented.
ReceiveDataOffByOne(c) ==
  /\ rx_esp_state = "receive_data"
  /\ rx_buffer' = [rx_buffer EXCEPT ![rx_active_buffer][rx_buffer_offset] = c]
  /\ rx_buffer_offset' = rx_buffer_offset + 1
  /\ IF rx_buffer_offset = rx_buffer_len[rx_active_buffer]
     THEN /\ rx_buffer_ready' = [rx_buffer_ready EXCEPT ![rx_active_buffer] = TRUE]
          /\ rx_esp_state' = "wait_for_start0"
     ELSE UNCHANGED <<rx_buffer_ready, rx_esp_state>>
  /\ UNCHANGED <<rx_active_buffer, rx_buffer_len, mainVars>>

ReceiveData(c) ==
  /\ rx_esp_state = "receive_data"
  /\ rx_buffer' = [rx_buffer EXCEPT ![rx_active_buffer][rx_buffer_offset] = c]
  /\ rx_buffer_offset' = rx_buffer_offset + 1
  /\ IF rx_buffer_offset' = rx_buffer_len[rx_active_buffer]
     THEN /\ rx_buffer_ready' = [rx_buffer_ready EXCEPT ![rx_active_buffer] = TRUE]
          /\ rx_esp_state' = "wait_for_start0"
     ELSE UNCHANGED <<rx_buffer_ready, rx_esp_state>>
  /\ UNCHANGED <<rx_active_buffer, rx_buffer_len, mainVars>>

\* uart1_rx_isr with the character c in U1DBUF.
RxIsr(c) ==
  \/ WaitForStart0(c)
  \/ WaitForStart1(c)
  \/ RejectLength(c)
  \/ Overrun(c)
  \/ ClaimBuffer(c)
  \/ ReceiveData(c)

-----------------------------------------------------------------------------
(***************************************************************************)
(* The main loop: uart1_get_message, called again and again.  While pc is  *)
(* "handle" the input handler works on the message in buf.                 *)
(***************************************************************************)

\* Variant: the search starts at the second buffer.
GetMessageFromOne ==
  /\ pc = "idle"
  /\ pc' = "scan"
  /\ i' = 1
  /\ UNCHANGED <<isrVars, rx_buffer_ready, len, copied, buf>>

GetMessage ==
  /\ pc = "idle"
  /\ pc' = "scan"
  /\ i' = 0
  /\ UNCHANGED <<isrVars, rx_buffer_ready, len, copied, buf>>

NotReady ==
  /\ pc = "scan"
  /\ i < UART_RX_BUFFERS
  /\ ~ rx_buffer_ready[i]
  /\ i' = i + 1
  /\ UNCHANGED <<isrVars, rx_buffer_ready, pc, len, copied, buf>>

\* Variant: the search may end before the last buffer.
NoMessageEarly ==
  /\ pc = "scan"
  /\ i >= UART_RX_BUFFERS - 1
  /\ pc' = "idle"
  /\ UNCHANGED <<isrVars, rx_buffer_ready, i, len, copied, buf>>

NoMessage ==
  /\ pc = "scan"
  /\ i = UART_RX_BUFFERS
  /\ pc' = "idle"
  /\ UNCHANGED <<isrVars, rx_buffer_ready, i, len, copied, buf>>

\* Variant: the buffer is released before it is copied.
FoundReleasing ==
  /\ pc = "scan"
  /\ i < UART_RX_BUFFERS
  /\ rx_buffer_ready[i]
  /\ len' = rx_buffer_len[i]
  /\ copied' = 0
  /\ pc' = "copy"
  /\ rx_buffer_ready' = [rx_buffer_ready EXCEPT ![i] = FALSE]
  /\ UNCHANGED <<isrVars, i, buf>>

Found ==
  /\ pc = "scan"
  /\ i < UART_RX_BUFFERS
  /\ rx_buffer_ready[i]
  /\ len' = rx_buffer_len[i]
  /\ copied' = 0
  /\ pc' = "copy"
  /\ UNCHANGED <<isrVars, rx_buffer_ready, i, buf>>

\* One turn of the loop in memcpyx.
CopyByte ==
  /\ pc = "copy"
  /\ copied < len
  /\ buf' = [buf EXCEPT ![copied] = rx_buffer[i][copied]]
  /\ copied' = copied + 1
  /\ UNCHANGED <<isrVars, rx_buffer_ready, pc, i, len>>

\* Variants: the buffer is released before its last byte is copied; it is not
\* released at all.
ReleaseEarly ==
  /\ pc = "copy"
  /\ copied + 1 >= len
  /\ rx_buffer_ready' = [rx_buffer_ready EXCEPT ![i] = FALSE]
  /\ pc' = "handle"
  /\ UNCHANGED <<isrVars, i, len, copied, buf>>

ReleaseForgotten ==
  /\ pc = "copy"
  /\ copied = len
  /\ pc' = "handle"
  /\ UNCHANGED <<isrVars, rx_buffer_ready, i, len, copied, buf>>

Release ==
  /\ pc = "copy"
  /\ copied = len
  /\ rx_buffer_ready' = [rx_buffer_ready EXCEPT ![i] = FALSE]
  /\ pc' = "handle"
  /\ UNCHANGED <<isrVars, i, len, copied, buf>>

Handled ==
  /\ pc = "handle"
  /\ pc' = "idle"
  /\ UNCHANGED <<isrVars, rx_buffer_ready, i, len, copied, buf>>

MainLoop ==
  GetMessage \/ NotReady \/ NoMessage \/ Found \/ CopyByte \/ Release \/ Handled

Next ==
  \/ \E c \in Byte : RxIsr(c)
  \/ MainLoop

Spec == Init /\ [][Next]_vars

\* The interrupt returns and the processor goes on with the main loop.
FairSpec == Spec /\ WF_vars(MainLoop)

-----------------------------------------------------------------------------
(***************************************************************************)
(* Correctness.                                                            *)
(***************************************************************************)

\* While the interrupt fills a buffer, that buffer is not marked ready, and
\* there is room for the next byte of the message announced by its length.
FillingIsPrivate ==
  rx_esp_state = "receive_data" =>
    /\ ~ rx_buffer_ready[rx_active_buffer]
    /\ rx_buffer_offset < rx_buffer_len[rx_active_buffer]

\* While the main loop copies a buffer, the buffer stays marked ready, its
\* length is the one that was read before the copy began, and what has been
\* copied is what the buffer holds.
CopyIsFaithful ==
  pc = "copy" =>
    /\ i \in Buffer
    /\ rx_buffer_ready[i]
    /\ len = rx_buffer_len[i]
    /\ copied <= len
    /\ \A p \in 0 .. copied - 1 : buf[p] = rx_buffer[i][p]

\* A finished message is never empty, so uart1_get_message never returns 0
\* for one: 0 is its answer for "no message".
FinishedIsNotEmpty ==
  /\ \A b \in Buffer : rx_buffer_ready[b] => rx_buffer_len[b] > 0
  /\ pc = "handle" => len > 0

\* The buffer being filled and the buffer being copied are different ones
\* (uart1.c has no lock around either access).
BuffersDisjoint ==
  rx_esp_state = "receive_data" /\ pc = "copy" => rx_active_buffer # i

\* The inductive invariant of the receiver.
IInv == TypeOK /\ FillingIsPrivate /\ CopyIsFaithful /\ FinishedIsNotEmpty

\* Between the step that marks a buffer ready and the one that releases it,
\* no step changes the buffer's bytes or its length.
NoOverwrite ==
  [][\A b \in Buffer : rx_buffer_ready[b] =>
       /\ rx_buffer'[b] = rx_buffer[b]
       /\ rx_buffer_len'[b] = rx_buffer_len[b]]_vars

\* The receiver implements a mailbox: although bytes arrive and are copied
\* one by one, each message the input handler sees is, whole and unmixed,
\* what a ready buffer held.
Prefix(bytes, n) == [p \in 0 .. n - 1 |-> bytes[p]]

Message == UNION {[0 .. n - 1 -> Byte] : n \in 1 .. ESP_MAX_PAYLOAD}

\* The empty message, which no sender can produce.
Nothing == [p \in {} |-> 0]

slotBar == [b \in Buffer |->
              IF rx_buffer_ready[b] THEN Prefix(rx_buffer[b], rx_buffer_len[b])
                                    ELSE Nothing]
takenBar == IF pc = "handle" THEN Prefix(buf, len) ELSE Nothing

Box == INSTANCE Mailbox WITH Slot <- Buffer, slot <- slotBar, taken <- takenBar

ImplementsMailbox == Box!Spec

\* With the main loop running, a finished message is not left waiting while
\* none is delivered: some message reaches the input handler.
SomeMessageDelivered ==
  (\E b \in Buffer : rx_buffer_ready[b]) ~> (pc = "handle")

\* The first buffer is looked at first by every call, so it is always served.
FirstBufferServed == rx_buffer_ready[0] ~> ~ rx_buffer_ready[0]
=============================================================================
