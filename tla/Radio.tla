------------------------------- MODULE Radio -------------------------------
(***************************************************************************)
(* The half-duplex radio of open-lst/common/radio.c: the RF interrupt,     *)
(* radio_listen, radio_send_packet and radio_get_message, as the main loop *)
(* calls them (input_handlers.c, the periodic radio_listen of schedule.c,  *)
(* the ranging reply of radio/commands.c), with the timer channel that     *)
(* captures and triggers RF events (radio/timers.c).                       *)
(*                                                                         *)
(* The transceiver hardware, the rest of the world on the air and the      *)
(* millisecond timer run concurrently with the program.  The program runs  *)
(* one thread: the main loop stops while an interrupt is served, and goes  *)
(* on between two interrupts.  An interrupt that is enabled and pending is *)
(* taken before the main loop goes on.                                     *)
(*                                                                         *)
(* Not kept: rf_rx_underway (never read), the counters for telemetry, the  *)
(* register settings and the bytes of a packet.                            *)
(***************************************************************************)
EXTENDS Integers, Sequences

CONSTANTS
  Packet,                   \* packets on the air, each heard at most once
  Short,                    \* those too short for a header and a footer
  Damaged,                  \* those whose CRC does not match
  Nothing,                  \* rf_rx_buffer without a whole packet
  BOOTLOADER,               \* the image: TRUE has no schedule and no timer
  MAX_RX_TICKS,
  RF_PRECISE_TIMING_DELAY,
  PROMPT                    \* assumption of radio.c:333: a ranging reply is
                            \* ready before its timer runs out

ASSUME PacketAssumption ==
  /\ Short \subseteq Packet
  /\ Damaged \subseteq Packet
  /\ Nothing \notin Packet

ASSUME TimingAssumption ==
  /\ {BOOTLOADER, PROMPT} \subseteq BOOLEAN
  /\ MAX_RX_TICKS \in Nat \ {0}
  /\ RF_PRECISE_TIMING_DELAY \in Nat \ {0}

VARIABLES
  \* the transceiver, its DMA channel and its interrupt registers
  marc,            \* what the radio does
  receiving,       \* the packet being received
  dma,             \* what the radio's DMA channel is armed for
  rf_rx_buffer,    \* what the DMA channel last wrote there
  RFIF,            \* RF events not yet cleared
  RFIM,            \* RF events that raise the interrupt
  RFIE,            \* the RF interrupt is enabled
  pending,         \* the RF interrupt is requested (S1CON)
  \* timer 1, channel 1
  channel1,        \* T1CCTL1
  channel1_flag,   \* T1CTL_CH1IF
  captured,        \* T1CC1: the event whose time was captured last
  transmit_delay,
  due,             \* timer_count_ms = 0: the 10 Hz events are due
  \* the driver and the main loop
  rf_mode_tx, rf_rx_complete, last_rx_ticks,
  isr,             \* where rf_isr is
  pc,              \* where the main loop is
  back,            \* where it goes on after radio_listen
  precise,         \* argument precise_timing of radio_send_packet
  cmd,             \* the message radio_get_message copied out last
  \* history
  heard,           \* packets whose reception has begun
  givenUp,         \* packets lost to a reset of the receiver, or to RFIF = 0
  delivered        \* messages handed to the input handler, in order

radioVars  == <<marc, receiving, dma, rf_rx_buffer, heard, givenUp>>
irqVars    == <<RFIF, RFIM, RFIE, pending>>
timerVars  == <<channel1, channel1_flag, captured, transmit_delay, due>>
flagVars   == <<rf_mode_tx, rf_rx_complete>>
loopVars   == <<pc, back, precise, cmd, last_rx_ticks, delivered>>
vars == <<radioVars, irqVars, timerVars, flagVars, isr, loopVars>>

Event == {"SFD", "DONE", "TXUNF", "CS"}
RxMask == {"DONE", "SFD", "CS"}
TxMask == {"TXUNF", "DONE"}

ListenPc == {"listen_idle", "listen_enable", "listen_start"}
SendPc   == {"trigger", "send_idle", "send_enable", "send_start", "wait"}
LoopPc   == {"schedule", "uart0", "uart1", "rf", "handle"}

RadioType ==
  /\ marc \in {"idle", "rx", "rx_frame", "tx"}
  /\ receiving \in Packet \cup {Nothing}
  /\ dma \in {"off", "rx", "tx"}
  /\ rf_rx_buffer \in Packet \cup {Nothing}
  /\ heard \subseteq Packet
  /\ givenUp \subseteq Packet

IrqType ==
  /\ RFIF \subseteq Event
  /\ RFIM \in {{}, RxMask, TxMask}
  /\ RFIE \in BOOLEAN
  /\ pending \in BOOLEAN
  /\ isr \in {"none", "events", "clear"}

TimerType ==
  /\ channel1 \in {"off", "capture", "compare"}
  /\ channel1_flag \in BOOLEAN
  /\ captured \in [event : Event \cup {"none"}, packet : Packet \cup {Nothing}]
  /\ transmit_delay \in 0 .. RF_PRECISE_TIMING_DELAY
  /\ due \in BOOLEAN

LoopType ==
  /\ rf_mode_tx \in BOOLEAN
  /\ rf_rx_complete \in BOOLEAN
  /\ last_rx_ticks \in 0 .. MAX_RX_TICKS
  /\ pc \in ListenPc \cup SendPc \cup LoopPc
  /\ back \in LoopPc
  /\ precise \in BOOLEAN
  /\ cmd \in Packet \cup {Nothing}
  /\ delivered \in Seq(Packet)

TypeOK == RadioType /\ IrqType /\ TimerType /\ LoopType

\* What the bootloader, which was receiving, leaves to the application: its
\* DMA channel armed, events it has not served, the interrupt disabled.
LeftByBootloader ==
  /\ dma \in {"off", "rx"}
  /\ RFIF \in SUBSET RxMask
  /\ RFIM \in {{}, RxMask}
  /\ pending \in BOOLEAN

AfterReset == dma = "off" /\ RFIF = {} /\ RFIM = {} /\ pending = FALSE

\* After radio_init, about to listen for the first time.
Init ==
  /\ IF BOOTLOADER THEN AfterReset ELSE LeftByBootloader
  /\ marc = "idle"
  /\ receiving = Nothing
  /\ rf_rx_buffer = Nothing
  /\ RFIE = FALSE
  /\ channel1 = "off"
  /\ channel1_flag = FALSE
  /\ captured = [event |-> "none", packet |-> Nothing]
  /\ transmit_delay = 0
  /\ due = FALSE
  /\ rf_mode_tx = FALSE
  /\ rf_rx_complete = FALSE
  /\ last_rx_ticks = 0
  /\ isr = "none"
  /\ pc = "listen_idle"
  /\ back = "schedule"
  /\ precise = FALSE
  /\ cmd = Nothing
  /\ heard = {}
  /\ givenUp = {}
  /\ delivered = <<>>

-----------------------------------------------------------------------------
(***************************************************************************)
(* The transceiver and the air.                                            *)
(***************************************************************************)

\* An event sets its flag, requests the interrupt if its mask bit is set, and
\* is what an armed capture records.
Raise(e, p) ==
  /\ RFIF' = RFIF \cup {e}
  /\ pending' = (pending \/ e \in RFIM)
  /\ IF channel1 = "capture" /\ e \in RFIM
     THEN channel1_flag' = TRUE /\ captured' = [event |-> e, packet |-> p]
     ELSE UNCHANGED <<channel1_flag, captured>>
  /\ UNCHANGED <<RFIM, RFIE, channel1, transmit_delay, due, flagVars, isr, loopVars>>

Carrier ==
  /\ marc \in {"rx", "rx_frame"}
  /\ Raise("CS", receiving)
  /\ UNCHANGED radioVars

\* From the sync word on, the DMA channel writes the packet's bytes.
FrameStart(p) ==
  /\ marc = "rx"
  /\ p \notin heard
  /\ heard' = heard \cup {p}
  /\ marc' = "rx_frame"
  /\ receiving' = p
  /\ rf_rx_buffer' = IF dma = "rx" THEN Nothing ELSE rf_rx_buffer
  /\ Raise("SFD", p)
  /\ UNCHANGED <<dma, givenUp>>

\* The radio is configured to go to the idle state after a packet.  A frame
\* lasts longer than the interrupt its start has raised.  A packet that ends
\* between the tests of rf_isr and its RFIF = 0 will never be reported.
FrameEnd ==
  /\ marc = "rx_frame"
  /\ "SFD" \notin RFIF
  /\ marc' = "idle"
  /\ receiving' = Nothing
  /\ rf_rx_buffer' = IF dma = "rx" THEN receiving ELSE rf_rx_buffer
  /\ dma' = IF dma = "rx" THEN "off" ELSE dma
  /\ givenUp' = IF isr = "clear" THEN givenUp \cup {receiving} ELSE givenUp
  /\ Raise("DONE", receiving)
  /\ UNCHANGED heard

\* Without data from an armed DMA channel the transmission underflows.
TxEnd ==
  /\ marc = "tx"
  /\ marc' = "idle"
  /\ dma' = IF dma = "tx" THEN "off" ELSE dma
  /\ Raise(IF dma = "tx" THEN "DONE" ELSE "TXUNF", Nothing)
  /\ UNCHANGED <<receiving, rf_rx_buffer, heard, givenUp>>

-----------------------------------------------------------------------------
(***************************************************************************)
(* The interrupts.                                                         *)
(***************************************************************************)

Interrupted == isr # "none" \/ (RFIE /\ pending)

\* rf_isr begins: S1CON = 0.
RfIsr ==
  /\ isr = "none"
  /\ RFIE /\ pending
  /\ isr' = "events"
  /\ pending' = FALSE
  /\ UNCHANGED <<radioVars, RFIF, RFIM, RFIE, timerVars, flagVars, loopVars>>

\* Variant: only an underflow ends a transmission.
RfIsrEventsTx ==
  /\ isr = "events"
  /\ isr' = "clear"
  /\ rf_mode_tx' = (rf_mode_tx /\ RFIF \cap {"TXUNF"} = {})
  /\ rf_rx_complete' = (rf_rx_complete \/ "DONE" \in RFIF)
  /\ RFIF' = RFIF \ {"DONE"}
  /\ UNCHANGED <<radioVars, RFIM, RFIE, pending, timerVars, loopVars>>

\* Variant: a packet's end is looked at only if there is no carrier event.
RfIsrEventsElse ==
  /\ isr = "events"
  /\ isr' = "clear"
  /\ rf_mode_tx' = (rf_mode_tx /\ RFIF \cap {"TXUNF", "DONE"} = {})
  /\ rf_rx_complete' = (rf_rx_complete \/ ("DONE" \in RFIF /\ "CS" \notin RFIF))
  /\ RFIF' = RFIF \ {"DONE"}
  /\ UNCHANGED <<radioVars, RFIM, RFIE, pending, timerVars, loopVars>>

\* Its tests of RFIF.  DONE ends a transmission, and the test after that one
\* takes it for a received packet, too: rf_mode_tx is 0 by then.
RfIsrEvents ==
  /\ isr = "events"
  /\ isr' = "clear"
  /\ rf_mode_tx' = (rf_mode_tx /\ RFIF \cap {"TXUNF", "DONE"} = {})
  /\ rf_rx_complete' = (rf_rx_complete \/ "DONE" \in RFIF)
  /\ RFIF' = RFIF \ {"DONE"}
  /\ UNCHANGED <<radioVars, RFIM, RFIE, pending, timerVars, loopVars>>

\* RFIF = 0, which also forgets what happened since the tests.
RfIsrClear ==
  /\ isr = "clear"
  /\ isr' = "none"
  /\ RFIF' = {}
  /\ UNCHANGED <<radioVars, RFIM, RFIE, pending, timerVars, flagVars, loopVars>>

\* t1_isr after a capture: no further one.
CaptureIsr ==
  /\ isr = "none"
  /\ channel1 = "capture"
  /\ channel1_flag
  /\ channel1' = "off"
  /\ UNCHANGED <<radioVars, irqVars, channel1_flag, captured, transmit_delay, due, flagVars, isr, loopVars>>

\* t1_isr on a compare match, once a millisecond: the last one strobes STX.
\* From the receiving state the radio may refuse, the channel being busy.
TriggerIsr ==
  /\ isr = "none"
  /\ channel1 = "compare"
  /\ PROMPT => (transmit_delay > 1 \/ pc = "wait")
  /\ transmit_delay' = transmit_delay - 1
  /\ IF transmit_delay' = 0
     THEN /\ channel1' = "off"
          /\ marc' \in IF marc = "idle" THEN {"tx"} ELSE {marc, "tx"}
     ELSE UNCHANGED <<channel1, marc>>
  /\ UNCHANGED <<receiving, dma, rf_rx_buffer, heard, givenUp, irqVars, channel1_flag,
                 captured, due, flagVars, isr, loopVars>>

\* t1_isr counts timer_count_ms down to 0.
TimerDue ==
  /\ ~ BOOTLOADER
  /\ ~ due
  /\ due' = TRUE
  /\ UNCHANGED <<radioVars, irqVars, channel1, channel1_flag, captured,
                 transmit_delay, flagVars, isr, loopVars>>

-----------------------------------------------------------------------------
(***************************************************************************)
(* radio_listen.                                                           *)
(***************************************************************************)

At(place) == pc = place /\ ~ Interrupted

CallListen(place) == pc' = "listen_idle" /\ back' = place

\* A packet on its way to radio_get_message.
Unread ==
  ({receiving} \cup
     (IF rf_rx_complete \/ "DONE" \in RFIF THEN {rf_rx_buffer} ELSE {})) \ {Nothing}

\* Called by the schedule, it gives up what is on its way.

ListenIdle ==
  /\ At("listen_idle")
  /\ RFIE' = FALSE
  /\ marc' = "idle"
  /\ receiving' = Nothing
  /\ dma' = "rx"
  /\ givenUp' = IF back = "uart0" THEN givenUp \cup Unread ELSE givenUp
  /\ pc' = "listen_enable"
  /\ UNCHANGED <<rf_rx_buffer, heard, RFIF, RFIM, pending, timerVars, flagVars, isr,
                 back, precise, cmd, last_rx_ticks, delivered>>

ListenEnable ==
  /\ At("listen_enable")
  /\ RFIF' = {}
  /\ RFIM' = RxMask
  /\ RFIE' = TRUE
  /\ pc' = "listen_start"
  /\ UNCHANGED <<radioVars, pending, timerVars, flagVars, isr,
                 back, precise, cmd, last_rx_ticks, delivered>>

\* Variant: a packet already received is kept.
ListenStartKeeping ==
  /\ At("listen_start")
  /\ rf_mode_tx' = FALSE
  /\ UNCHANGED rf_rx_complete
  /\ channel1' = IF BOOTLOADER THEN "off" ELSE "capture"
  /\ channel1_flag' = FALSE
  /\ marc' = "rx"
  /\ pc' = back
  /\ UNCHANGED <<receiving, dma, rf_rx_buffer, heard, givenUp, irqVars, captured, transmit_delay,
                 due, isr, back, precise, cmd, last_rx_ticks, delivered>>

ListenStart ==
  /\ At("listen_start")
  /\ rf_mode_tx' = FALSE
  /\ rf_rx_complete' = FALSE
  /\ channel1' = IF BOOTLOADER THEN "off" ELSE "capture"
  /\ channel1_flag' = FALSE
  /\ marc' = "rx"
  /\ pc' = back
  /\ UNCHANGED <<receiving, dma, rf_rx_buffer, heard, givenUp, irqVars, captured, transmit_delay,
                 due, isr, back, precise, cmd, last_rx_ticks, delivered>>

-----------------------------------------------------------------------------
(***************************************************************************)
(* radio_send_packet, which returns through radio_listen.                  *)
(***************************************************************************)

CallSend(p, place) ==
  /\ precise' = p
  /\ back' = place
  /\ pc' = IF p THEN "trigger" ELSE "send_idle"

\* timers_trigger_for_RF.
SendTrigger ==
  /\ At("trigger")
  /\ channel1' = "compare"
  /\ channel1_flag' = FALSE
  /\ transmit_delay' = RF_PRECISE_TIMING_DELAY
  /\ pc' = "send_idle"
  /\ UNCHANGED <<radioVars, irqVars, captured, due, flagVars, isr,
                 back, precise, cmd, last_rx_ticks, delivered>>

\* A forwarded message may be too long for a packet; a reply never is.
SendTooLong ==
  /\ At("send_idle")
  /\ ~ precise
  /\ back # "schedule"
  /\ pc' = back
  /\ UNCHANGED <<radioVars, irqVars, timerVars, flagVars, isr,
                 back, precise, cmd, last_rx_ticks, delivered>>

\* A packet on its way to radio_get_message is given up.
SendIdle ==
  /\ At("send_idle")
  /\ RFIE' = FALSE
  /\ marc' = "idle"
  /\ receiving' = Nothing
  /\ dma' = "off"
  /\ givenUp' = givenUp \cup Unread
  /\ pc' = "send_enable"
  /\ UNCHANGED <<rf_rx_buffer, heard, RFIF, RFIM, pending, timerVars, flagVars, isr,
                 back, precise, cmd, last_rx_ticks, delivered>>

\* Variant: the DMA channel is not armed again.
SendEnableUnarmed ==
  /\ At("send_enable")
  /\ RFIM' = TxMask
  /\ RFIF' = {}
  /\ RFIE' = TRUE
  /\ UNCHANGED dma
  /\ pc' = "send_start"
  /\ UNCHANGED <<marc, receiving, rf_rx_buffer, heard, givenUp, pending, timerVars, flagVars, isr,
                 back, precise, cmd, last_rx_ticks, delivered>>

SendEnable ==
  /\ At("send_enable")
  /\ RFIM' = TxMask
  /\ RFIF' = {}
  /\ RFIE' = TRUE
  /\ dma' = "tx"
  /\ pc' = "send_start"
  /\ UNCHANGED <<marc, receiving, rf_rx_buffer, heard, givenUp, pending, timerVars, flagVars, isr,
                 back, precise, cmd, last_rx_ticks, delivered>>

SendStart ==
  /\ At("send_start")
  /\ rf_mode_tx' = TRUE
  /\ marc' = IF precise THEN marc ELSE "tx"
  /\ pc' = "wait"
  /\ UNCHANGED <<receiving, dma, rf_rx_buffer, heard, givenUp, irqVars, timerVars, rf_rx_complete,
                 isr, back, precise, cmd, last_rx_ticks, delivered>>

SendDone ==
  /\ At("wait")
  /\ ~ rf_mode_tx
  /\ pc' = "listen_idle"
  /\ UNCHANGED <<radioVars, irqVars, timerVars, flagVars, isr,
                 back, precise, cmd, last_rx_ticks, delivered>>

-----------------------------------------------------------------------------
(***************************************************************************)
(* A turn of the main loop: the 10 Hz events, the two UARTs, the radio.    *)
(***************************************************************************)

ScheduleNothing ==
  /\ At("schedule")
  /\ ~ due
  /\ pc' = "uart0"
  /\ UNCHANGED <<radioVars, irqVars, timerVars, flagVars, isr,
                 back, precise, cmd, last_rx_ticks, delivered>>

ScheduleTick ==
  /\ At("schedule")
  /\ due
  /\ last_rx_ticks + 1 < MAX_RX_TICKS
  /\ due' = FALSE
  /\ last_rx_ticks' = last_rx_ticks + 1
  /\ pc' = "uart0"
  /\ UNCHANGED <<radioVars, irqVars, channel1, channel1_flag, captured, transmit_delay,
                 flagVars, isr, back, precise, cmd, delivered>>

\* Variants: the count goes on; the receiver is not reset.
ScheduleListenCounting ==
  /\ At("schedule")
  /\ due
  /\ last_rx_ticks + 1 >= MAX_RX_TICKS
  /\ due' = FALSE
  /\ last_rx_ticks' = last_rx_ticks + 1
  /\ CallListen("uart0")
  /\ UNCHANGED <<radioVars, irqVars, channel1, channel1_flag, captured, transmit_delay,
                 flagVars, isr, precise, cmd, delivered>>

ScheduleListenNever ==
  /\ At("schedule")
  /\ due
  /\ last_rx_ticks + 1 >= MAX_RX_TICKS
  /\ due' = FALSE
  /\ last_rx_ticks' = 0
  /\ pc' = "uart0"
  /\ UNCHANGED <<radioVars, irqVars, channel1, channel1_flag, captured, transmit_delay,
                 flagVars, isr, back, precise, cmd, delivered>>

ScheduleListen ==
  /\ At("schedule")
  /\ due
  /\ last_rx_ticks + 1 >= MAX_RX_TICKS
  /\ due' = FALSE
  /\ last_rx_ticks' = 0
  /\ CallListen("uart0")
  /\ UNCHANGED <<radioVars, irqVars, channel1, channel1_flag, captured, transmit_delay,
                 flagVars, isr, precise, cmd, delivered>>

AfterUart == [uart0 |-> "uart1", uart1 |-> "rf"]

\* No message, or one that is answered on the UART.
UartQuiet ==
  /\ pc \in DOMAIN AfterUart /\ ~ Interrupted
  /\ pc' = AfterUart[pc]
  /\ UNCHANGED <<radioVars, irqVars, timerVars, flagVars, isr,
                 back, precise, cmd, last_rx_ticks, delivered>>

\* A message for another node is forwarded over the radio; a ranging command
\* is answered over the radio.
UartSend ==
  /\ ~ BOOTLOADER
  /\ pc \in DOMAIN AfterUart /\ ~ Interrupted
  /\ \E p \in BOOLEAN : CallSend(p, AfterUart[pc])
  /\ cmd' = Nothing
  /\ UNCHANGED <<radioVars, irqVars, timerVars, flagVars, isr, last_rx_ticks, delivered>>

\* radio_get_message.
GetNothing ==
  /\ At("rf")
  /\ ~ rf_rx_complete
  /\ pc' = "schedule"
  /\ UNCHANGED <<radioVars, irqVars, timerVars, flagVars, isr,
                 back, precise, cmd, last_rx_ticks, delivered>>

GetShort ==
  /\ At("rf")
  /\ rf_rx_complete
  /\ rf_rx_buffer \in Short \cup {Nothing}
  /\ rf_rx_complete' = FALSE
  /\ pc' = "schedule"
  /\ UNCHANGED <<radioVars, irqVars, timerVars, rf_mode_tx, isr,
                 back, precise, cmd, last_rx_ticks, delivered>>

GetDamaged ==
  /\ At("rf")
  /\ rf_rx_complete
  /\ rf_rx_buffer \in (Damaged \ Short) \cup {Nothing}
  /\ rf_rx_complete' = FALSE
  /\ CallListen("schedule")
  /\ UNCHANGED <<radioVars, irqVars, timerVars, rf_mode_tx, isr,
                 precise, cmd, last_rx_ticks, delivered>>

\* input_handle_rf_rx listens again before it looks at the message.
GetGood ==
  /\ At("rf")
  /\ rf_rx_complete
  /\ rf_rx_buffer \in Packet \ (Short \cup Damaged)
  /\ last_rx_ticks' = 0
  /\ cmd' = rf_rx_buffer
  /\ delivered' = Append(delivered, rf_rx_buffer)
  /\ rf_rx_complete' = FALSE
  /\ CallListen("handle")
  /\ UNCHANGED <<radioVars, irqVars, timerVars, rf_mode_tx, isr, precise>>

\* A message without a reply, or one forwarded to the UART.
HandleQuiet ==
  /\ At("handle")
  /\ pc' = "schedule"
  /\ UNCHANGED <<radioVars, irqVars, timerVars, flagVars, isr,
                 back, precise, cmd, last_rx_ticks, delivered>>

HandleReply ==
  /\ At("handle")
  /\ CallSend(FALSE, "schedule")
  /\ UNCHANGED <<radioVars, irqVars, timerVars, flagVars, isr, cmd, last_rx_ticks, delivered>>

HandleRanging ==
  /\ ~ BOOTLOADER
  /\ At("handle")
  /\ CallSend(TRUE, "schedule")
  /\ UNCHANGED <<radioVars, irqVars, timerVars, flagVars, isr, cmd, last_rx_ticks, delivered>>

Listen == ListenIdle \/ ListenEnable \/ ListenStart
Send == SendTrigger \/ SendTooLong \/ SendIdle \/ SendEnable \/ SendStart \/ SendDone
Schedule == ScheduleNothing \/ ScheduleTick \/ ScheduleListen
GetMessage == GetNothing \/ GetShort \/ GetDamaged \/ GetGood
Handle == HandleQuiet \/ HandleReply \/ HandleRanging
MainLoop == Listen \/ Send \/ Schedule \/ UartQuiet \/ UartSend \/ GetMessage \/ Handle

Interrupts == RfIsr \/ RfIsrEvents \/ RfIsrClear \/ CaptureIsr \/ TriggerIsr
Air == Carrier \/ \E p \in Packet : FrameStart(p)

Next == MainLoop \/ Interrupts \/ TimerDue \/ FrameEnd \/ TxEnd \/ Air

Spec == Init /\ [][Next]_vars

\* The processor runs, the timer counts, and packets come to an end.
FairSpec ==
  /\ Spec
  /\ WF_vars(MainLoop)
  /\ WF_vars(Interrupts)
  /\ WF_vars(TimerDue)
  /\ WF_vars(FrameEnd)
  /\ WF_vars(TxEnd)

-----------------------------------------------------------------------------
(***************************************************************************)
(* Correctness.                                                            *)
(***************************************************************************)

Handed == {delivered[m] : m \in DOMAIN delivered}

\* No message is handed to the input handler that was not received whole and
\* intact, and none twice.  The interrupt marks the end of every transmission
\* as a received packet, and rf_rx_buffer then still holds the last one
\* received: only the order of the calls keeps that packet from being handled
\* again (radio.c:256-260, 310-312 and 416).
DeliveredOnce ==
  \A m \in DOMAIN delivered :
    /\ delivered[m] \in heard \ (Short \cup Damaged)
    /\ \A n \in DOMAIN delivered : delivered[n] = delivered[m] => n = m

\* Nothing is transmitted but a packet radio_send_packet has prepared.
TransmitsPrepared == marc = "tx" => dma = "tx" /\ pc = "wait" /\ rf_mode_tx

\* radio_send_packet does not wait in vain (radio.c:414): while it waits, the
\* end of the transmission is yet to come, or on its way through the
\* interrupt.
NoLostWakeup ==
  pc = "wait" /\ rf_mode_tx =>
    \/ marc = "tx"
    \/ channel1 = "compare"
    \/ RFIF \cap {"DONE", "TXUNF"} # {} /\ RFIE /\ (pending \/ isr = "events")

\* A good packet is lost after its start was heard for three reasons only: the
\* receiver was reset under it, by the periodic radio_listen (schedule.c:64)
\* or by a send, which resets it before and after (radio.c:355, 416); or its
\* end came in the last moment of an interrupt for something else
\* (radio.c:273).  Every other packet was handed to the input handler, or is
\* still on its way: none is overwritten, none is dropped by the radio_listen
\* that follows every packet (radio.c:222, 230, input_handlers.c:120), and none
\* goes down with a damaged or a short one.
PacketsAccountedFor ==
  heard \ (Short \cup Damaged \cup givenUp) \subseteq Handed \cup Unread

\* Every call of radio_send_packet that starts to wait returns.
SendEnds == pc = "wait" ~> pc # "wait"

\* The receiver is never deaf for good, whatever packets it refuses and
\* whatever events the interrupt loses (schedule.c:60-65).
Listening == marc \in {"rx", "rx_frame"} /\ dma = "rx"
ListensAgain == []<>Listening

\* The bootloader is to "Listen over the radio for updates" (bootloader/
\* main.c:55): in every turn of its loop the radio receives, or has a packet.
ListensForUpdates ==
  pc = "uart0" => Listening \/ rf_rx_complete \/ "DONE" \in RFIF

\* "Set timer 1 to watch for the frame start and capture precise timing for
\* ranging" (radio.c:315-316): the reply to a ranging request is timed from
\* the start of the request's frame.
RangingFromFrameStart ==
  pc = "trigger" /\ cmd # Nothing => captured = [event |-> "SFD", packet |-> cmd]
-----------------------------------------------------------------------------
(***************************************************************************)
(* The inductive invariants behind the safety properties: IInv whether or  *)
(* not a ranging reply is ready in time, PromptInv if it is.               *)
(***************************************************************************)

\* Where the radio receives, or has received, for radio_get_message.
Receiving == LoopPc \cup {"trigger", "send_idle"}

Sending == {"send_idle", "send_enable", "send_start", "wait"}

Ends == {"DONE", "TXUNF"}

\* The radio receives only for the main loop, and transmits only for
\* radio_send_packet, which has not seen an end of it yet.
AirInv ==
  /\ marc \in {"rx", "rx_frame"} => pc \in Receiving \cup {"listen_idle"} /\ dma = "rx"
  /\ pc \in {"listen_enable", "listen_start"} => dma = "rx"
  /\ pc \in Receiving => dma # "tx"
  /\ marc = "tx" => pc \in Sending /\ (precise \/ pc = "wait") /\ channel1 # "compare"
  /\ pc \in {"send_start", "wait"} /\ (marc = "tx" \/ channel1 = "compare") =>
       RFIF \cap Ends = {}
  /\ pc = "send_start" /\ ~ precise => RFIF \cap Ends = {}
  /\ pc = "wait" /\ marc = "tx" => rf_mode_tx

\* A packet being received was not handed out yet; while the radio is the
\* receiver's, nor was one that was received; radio_listen starts without one.
FreshInv ==
  /\ marc = "rx_frame" => receiving \in heard \ Handed
  /\ pc \in Receiving =>
       /\ rf_rx_complete \/ "DONE" \in RFIF => rf_rx_buffer \in heard \ Handed
       /\ ~ (rf_rx_complete /\ "DONE" \in RFIF)
  /\ pc \in Receiving \cup {"listen_idle"} =>
       (rf_rx_complete \/ "DONE" \in RFIF => marc \in {"idle", "tx"})
  /\ pc = "listen_start" => "DONE" \notin RFIF

\* Where no packet is on its way: all were handed out or given up.
Settled ==
  \/ pc \in {"listen_enable", "listen_start", "send_enable", "send_start", "wait"}
  \/ pc = "listen_idle" /\ back # "uart0"

\* What became of the good packets.
AccountInv ==
  /\ PacketsAccountedFor
  /\ Settled => /\ heard \ (Short \cup Damaged \cup givenUp) \subseteq Handed
                /\ marc \notin {"rx", "rx_frame"}
  /\ receiving # Nothing =>
       marc = "rx_frame" \/ (marc # "rx" /\ pc = "send_idle" /\ precise)
  /\ isr = "clear" /\ "DONE" \in RFIF /\ ~ Settled => rf_rx_buffer \in givenUp

\* The trigger is set only while a ranging reply is under way.
TriggerInv ==
  /\ pc = "trigger" => precise
  /\ channel1 = "compare" =>
       /\ pc \in Sending
       /\ precise
       /\ transmit_delay > 0
       /\ pc = "wait" => rf_mode_tx

IInv ==
  /\ TypeOK
  /\ AirInv
  /\ FreshInv
  /\ TriggerInv
  /\ AccountInv
  /\ DeliveredOnce

\* The trigger does not come before its packet is prepared.
OnTimeInv ==
  /\ TransmitsPrepared
  /\ pc = "send_start" \/ (pc = "wait" /\ channel1 = "compare") => dma = "tx"
  /\ pc = "wait" /\ channel1 = "compare" => marc = "idle"

\* A transmission that has yet to end finds the interrupt enabled and idle.
WaitInv ==
  /\ pc \in {"send_start", "wait"} => RFIE /\ RFIM = TxMask
  /\ pc = "send_start" => RFIF \cap Ends = {}
  /\ pc \in {"send_idle", "send_enable", "send_start"} /\ precise => channel1 = "compare"
  /\ pc = "wait" /\ (marc = "tx" \/ channel1 = "compare") => isr = "none" /\ ~ pending
  /\ pc = "wait" /\ isr = "clear" => ~ rf_mode_tx
  /\ NoLostWakeup

PromptInv == IInv /\ OnTimeInv /\ WaitInv
=============================================================================
