---------------------------- MODULE RadioProofs ----------------------------
(***************************************************************************)
(* The safety properties of Radio, proved for any packets and any delays.  *)
(*                                                                         *)
(* IInv is inductive whether or not a ranging reply is ready before its    *)
(* timer runs out: AirInv relates what the transceiver does to where the   *)
(* program is, and FreshInv says why the packet radio_get_message finds is *)
(* a new one although the interrupt reports every transmission as a        *)
(* reception.  AccountInv follows each good packet until it is handed out  *)
(* or given up.  PromptInv adds what follows from the assumption the       *)
(* driver states at radio.c:333 (PROMPT): OnTimeInv and WaitInv follow the *)
(* one-shot timer and the interrupt that ends a wait.  Without it          *)
(* NoLostWakeup and TransmitsPrepared are false: a late reply waits for a  *)
(* trigger that was spent.                                                 *)
(***************************************************************************)
EXTENDS Radio, TLAPS

\* The two bounds, as the SMT backend wants them.
LEMMA Delays == MAX_RX_TICKS \in Nat \ {0} /\ RF_PRECISE_TIMING_DELAY \in Nat \ {0}
  BY TimingAssumption

\* An event leaves the timer's variables well-typed.
LEMMA RaiseType ==
  ASSUME TimerType, NEW e \in Event, NEW p \in Packet \cup {Nothing}, Raise(e, p)
  PROVE  TimerType'
<1>1. CASE channel1 = "capture" /\ e \in RFIM
  <2>1. captured' \in [event : Event \cup {"none"}, packet : Packet \cup {Nothing}]
    BY <1>1 DEF Raise
  <2> QED
    BY <1>1, <2>1 DEF Raise, TimerType
<1>2. CASE ~ (channel1 = "capture" /\ e \in RFIM)
  BY <1>2 DEF Raise, TimerType
<1> QED
  BY <1>1, <1>2

\* Every step keeps the transceiver's variables well-typed.
LEMMA RadioTypeStep ==
  ASSUME TypeOK, FreshInv, [Next]_vars
  PROVE  RadioType'
<1> USE DEF TypeOK, RadioType, LoopType, radioVars, irqVars, timerVars,
           flagVars, loopVars
<1>0. Unread \subseteq Packet
  BY DEF Unread
<1>1. CASE Listen
  BY <1>0, <1>1 DEF Listen, ListenIdle, ListenEnable, ListenStart
<1>2. CASE Send
  BY <1>0, <1>2
     DEF Send, SendTrigger, SendTooLong, SendIdle, SendEnable, SendStart, SendDone
<1>3. CASE Schedule
  BY <1>3 DEF Schedule, ScheduleNothing, ScheduleTick, ScheduleListen, CallListen
<1>4. CASE UartQuiet \/ UartSend
  BY <1>4 DEF UartQuiet, UartSend, CallSend, AfterUart
<1>5. CASE GetMessage
  BY <1>5 DEF GetMessage, GetNothing, GetShort, GetDamaged, GetGood, CallListen
<1>6. CASE Handle
  BY <1>6 DEF Handle, HandleQuiet, HandleReply, HandleRanging, CallSend
<1>7. CASE RfIsr \/ RfIsrEvents \/ RfIsrClear
  BY <1>7 DEF RfIsr, RfIsrEvents, RfIsrClear
<1>8. CASE CaptureIsr
  BY <1>8 DEF CaptureIsr
<1>9. CASE TriggerIsr
  BY <1>9 DEF TriggerIsr
<1>10. CASE TimerDue
  BY <1>10 DEF TimerDue
<1>11. CASE FrameEnd
  <2>1. receiving \in Packet
    BY <1>11 DEF FrameEnd, FreshInv
  <2> QED
    BY <1>11, <2>1 DEF FrameEnd, Raise
<1>12. CASE TxEnd
  BY <1>12 DEF TxEnd, Raise
<1>13. CASE Carrier
  BY <1>13 DEF Carrier, Raise
<1>14. ASSUME NEW p \in Packet, FrameStart(p) PROVE RadioType'
  BY <1>14 DEF FrameStart, Raise
<1>15. CASE UNCHANGED vars
  BY <1>15 DEF vars
<1> QED
    BY <1>1, <1>2, <1>3, <1>4, <1>5, <1>6, <1>7, <1>8, <1>9, <1>10, <1>11, <1>12,
     <1>13, <1>14, <1>15
     DEF Next, MainLoop, Interrupts, Air

\* Every step keeps the interrupt registers well-typed.
LEMMA IrqTypeStep ==
  ASSUME TypeOK, [Next]_vars
  PROVE  IrqType'
<1> USE DEF TypeOK, IrqType, Event, RxMask, TxMask, radioVars, irqVars,
           timerVars, flagVars, loopVars
<1>1. CASE Listen
  BY <1>1 DEF Listen, ListenIdle, ListenEnable, ListenStart
<1>2. CASE Send
    BY <1>2 DEF Send, SendTrigger, SendTooLong, SendIdle, SendEnable, SendStart,
     SendDone
<1>3. CASE Schedule
  BY <1>3 DEF Schedule, ScheduleNothing, ScheduleTick, ScheduleListen, CallListen
<1>4. CASE UartQuiet \/ UartSend
  BY <1>4 DEF UartQuiet, UartSend, CallSend, AfterUart
<1>5. CASE GetMessage
  BY <1>5 DEF GetMessage, GetNothing, GetShort, GetDamaged, GetGood, CallListen
<1>6. CASE Handle
  BY <1>6 DEF Handle, HandleQuiet, HandleReply, HandleRanging, CallSend
<1>7. CASE RfIsr \/ RfIsrEvents \/ RfIsrClear
  BY <1>7 DEF RfIsr, RfIsrEvents, RfIsrClear
<1>8. CASE CaptureIsr
  BY <1>8 DEF CaptureIsr
<1>9. CASE TriggerIsr
  BY <1>9 DEF TriggerIsr
<1>10. CASE TimerDue
  BY <1>10 DEF TimerDue
<1>11. CASE FrameEnd
  BY <1>11 DEF FrameEnd, Raise
<1>12. CASE TxEnd
  BY <1>12 DEF TxEnd, Raise
<1>13. CASE Carrier
  BY <1>13 DEF Carrier, Raise
<1>14. ASSUME NEW p \in Packet, FrameStart(p) PROVE IrqType'
  BY <1>14 DEF FrameStart, Raise
<1>15. CASE UNCHANGED vars
  BY <1>15 DEF vars
<1> QED
    BY <1>1, <1>2, <1>3, <1>4, <1>5, <1>6, <1>7, <1>8, <1>9, <1>10, <1>11, <1>12,
     <1>13, <1>14, <1>15
     DEF Next, MainLoop, Interrupts, Air

\* Every step keeps the timer's variables well-typed: the compare channel is on
\* only while there is a delay left to count down.
LEMMA TimerTypeStep ==
  ASSUME TypeOK, TriggerInv, [Next]_vars
  PROVE  TimerType'
<1> USE Delays DEF TypeOK, TimerType, TriggerInv, radioVars, irqVars, timerVars,
           flagVars, loopVars
<1>1. CASE Listen
  BY <1>1 DEF Listen, ListenIdle, ListenEnable, ListenStart
<1>2. CASE Send
  <2>1. CASE SendTrigger
    <3>1. transmit_delay' \in 0 .. RF_PRECISE_TIMING_DELAY
      BY <2>1 DEF SendTrigger
    <3> QED
      BY <2>1, <3>1 DEF SendTrigger
  <2> QED
    BY <1>2, <2>1 DEF Send, SendTooLong, SendIdle, SendEnable, SendStart, SendDone
<1>3. CASE Schedule
  BY <1>3 DEF Schedule, ScheduleNothing, ScheduleTick, ScheduleListen, CallListen
<1>4. CASE UartQuiet \/ UartSend
  BY <1>4 DEF UartQuiet, UartSend, CallSend, AfterUart
<1>5. CASE GetMessage
  BY <1>5 DEF GetMessage, GetNothing, GetShort, GetDamaged, GetGood, CallListen
<1>6. CASE Handle
  BY <1>6 DEF Handle, HandleQuiet, HandleReply, HandleRanging, CallSend
<1>7. CASE RfIsr \/ RfIsrEvents \/ RfIsrClear
  BY <1>7 DEF RfIsr, RfIsrEvents, RfIsrClear
<1>8. CASE CaptureIsr
  BY <1>8 DEF CaptureIsr
<1>9. CASE TriggerIsr
  BY <1>9 DEF TriggerIsr
<1>10. CASE TimerDue
  BY <1>10 DEF TimerDue
<1>11. CASE FrameEnd
  BY <1>11, RaiseType DEF FrameEnd, RadioType, Event
<1>12. CASE TxEnd
  BY <1>12, RaiseType DEF TxEnd, RadioType, Event
<1>13. CASE Carrier
  BY <1>13, RaiseType DEF Carrier, RadioType, Event
<1>14. ASSUME NEW p \in Packet, FrameStart(p) PROVE TimerType'
  BY <1>14, RaiseType DEF FrameStart, Event
<1>15. CASE UNCHANGED vars
  BY <1>15 DEF vars
<1> QED
    BY <1>1, <1>2, <1>3, <1>4, <1>5, <1>6, <1>7, <1>8, <1>9, <1>10, <1>11, <1>12,
     <1>13, <1>14, <1>15
     DEF Next, MainLoop, Interrupts, Air

\* Every step keeps the main loop's variables well-typed.
LEMMA LoopTypeStep ==
  ASSUME TypeOK, [Next]_vars
  PROVE  LoopType'
<1> USE Delays DEF TypeOK, LoopType, ListenPc, SendPc, LoopPc, radioVars,
           irqVars, timerVars, flagVars, loopVars
<1>1. CASE Listen
  BY <1>1 DEF Listen, ListenIdle, ListenEnable, ListenStart
<1>2. CASE Send
    BY <1>2 DEF Send, SendTrigger, SendTooLong, SendIdle, SendEnable, SendStart,
     SendDone
<1>3. CASE Schedule
  BY <1>3 DEF Schedule, ScheduleNothing, ScheduleTick, ScheduleListen, CallListen
<1>4. CASE UartQuiet \/ UartSend
  BY <1>4 DEF UartQuiet, UartSend, CallSend, AfterUart
<1>5. CASE GetMessage
  <2>1. CASE GetGood
    <3>1. rf_rx_buffer \in Packet
      BY <2>1 DEF GetGood
    <3>2. delivered' \in Seq(Packet)
      BY <2>1, <3>1 DEF GetGood
    <3>3. cmd' \in Packet \cup {Nothing} /\ last_rx_ticks' \in 0 .. MAX_RX_TICKS
      BY <2>1, <3>1 DEF GetGood
    <3> QED
      BY <2>1, <3>2, <3>3 DEF GetGood, CallListen
  <2> QED
    BY <1>5, <2>1 DEF GetMessage, GetNothing, GetShort, GetDamaged, CallListen
<1>6. CASE Handle
  BY <1>6 DEF Handle, HandleQuiet, HandleReply, HandleRanging, CallSend
<1>7. CASE RfIsr \/ RfIsrEvents \/ RfIsrClear
  BY <1>7 DEF RfIsr, RfIsrEvents, RfIsrClear
<1>8. CASE CaptureIsr
  BY <1>8 DEF CaptureIsr
<1>9. CASE TriggerIsr
  BY <1>9 DEF TriggerIsr
<1>10. CASE TimerDue
  BY <1>10 DEF TimerDue
<1>11. CASE FrameEnd
  BY <1>11 DEF FrameEnd, Raise
<1>12. CASE TxEnd
  BY <1>12 DEF TxEnd, Raise
<1>13. CASE Carrier
  BY <1>13 DEF Carrier, Raise
<1>14. ASSUME NEW p \in Packet, FrameStart(p) PROVE LoopType'
  BY <1>14 DEF FrameStart, Raise
<1>15. CASE UNCHANGED vars
  BY <1>15 DEF vars
<1> QED
    BY <1>1, <1>2, <1>3, <1>4, <1>5, <1>6, <1>7, <1>8, <1>9, <1>10, <1>11, <1>12,
     <1>13, <1>14, <1>15
     DEF Next, MainLoop, Interrupts, Air

\* The radio goes on doing only what the program has asked for.
LEMMA AirStep ==
  ASSUME TypeOK, AirInv, FreshInv, TriggerInv, [Next]_vars
  PROVE  AirInv'
<1> USE DEF TypeOK, RadioType, LoopType, AirInv, TriggerInv, ListenPc, SendPc,
           LoopPc, Receiving, Sending, Ends, At,
           Interrupted, radioVars, irqVars, timerVars, flagVars, loopVars
<1>1. CASE Listen
  BY <1>1 DEF Listen, ListenIdle, ListenEnable, ListenStart
<1>2. CASE Send
    BY <1>2 DEF Send, SendTrigger, SendTooLong, SendIdle, SendEnable, SendStart,
     SendDone
<1>3. CASE Schedule
  BY <1>3 DEF Schedule, ScheduleNothing, ScheduleTick, ScheduleListen, CallListen
<1>4. CASE UartQuiet \/ UartSend
  BY <1>4 DEF UartQuiet, UartSend, CallSend, AfterUart
<1>5. CASE GetMessage
  BY <1>5 DEF GetMessage, GetNothing, GetShort, GetDamaged, GetGood, CallListen
<1>6. CASE Handle
  BY <1>6 DEF Handle, HandleQuiet, HandleReply, HandleRanging, CallSend
<1>7. CASE RfIsr \/ RfIsrEvents \/ RfIsrClear
  BY <1>7 DEF RfIsr, RfIsrEvents, RfIsrClear
<1>8. CASE CaptureIsr
  BY <1>8 DEF CaptureIsr
<1>9. CASE TriggerIsr
  BY <1>9 DEF TriggerIsr
<1>10. CASE TimerDue
  BY <1>10 DEF TimerDue
<1>11. CASE FrameEnd
  BY <1>11 DEF FrameEnd, Raise
<1>12. CASE TxEnd
  BY <1>12 DEF TxEnd, Raise
<1>13. CASE Carrier
  BY <1>13 DEF Carrier, Raise
<1>14. ASSUME NEW p \in Packet, FrameStart(p) PROVE AirInv'
  BY <1>14 DEF FrameStart, Raise
<1>15. CASE UNCHANGED vars
  BY <1>15 DEF vars
<1> QED
    BY <1>1, <1>2, <1>3, <1>4, <1>5, <1>6, <1>7, <1>8, <1>9, <1>10, <1>11, <1>12,
     <1>13, <1>14, <1>15
     DEF Next, MainLoop, Interrupts, Air

\* What radio_get_message may find was not handed out before.
LEMMA FreshStep ==
  ASSUME TypeOK, AirInv, FreshInv, TriggerInv, DeliveredOnce, [Next]_vars
  PROVE  FreshInv'
<1> USE DEF TypeOK, RadioType, LoopType, AirInv, FreshInv, TriggerInv, Handed,
           ListenPc, SendPc, LoopPc, Receiving, Sending, At,
           Interrupted, radioVars, irqVars, timerVars, flagVars, loopVars
<1>1. CASE Listen
  BY <1>1 DEF Listen, ListenIdle, ListenEnable, ListenStart
<1>2. CASE Send
    BY <1>2 DEF Send, SendTrigger, SendTooLong, SendIdle, SendEnable, SendStart,
     SendDone
<1>3. CASE Schedule
  BY <1>3 DEF Schedule, ScheduleNothing, ScheduleTick, ScheduleListen, CallListen
<1>4. CASE UartQuiet \/ UartSend
  BY <1>4 DEF UartQuiet, UartSend, CallSend, AfterUart
<1>5. CASE GetMessage
  BY <1>5 DEF GetMessage, GetNothing, GetShort, GetDamaged, GetGood, CallListen
<1>6. CASE Handle
  BY <1>6 DEF Handle, HandleQuiet, HandleReply, HandleRanging, CallSend
<1>7. CASE RfIsr \/ RfIsrEvents \/ RfIsrClear
  BY <1>7 DEF RfIsr, RfIsrEvents, RfIsrClear
<1>8. CASE CaptureIsr
  BY <1>8 DEF CaptureIsr
<1>9. CASE TriggerIsr
  BY <1>9 DEF TriggerIsr
<1>10. CASE TimerDue
  BY <1>10 DEF TimerDue
<1>11. CASE FrameEnd
  BY <1>11 DEF FrameEnd, Raise
<1>12. CASE TxEnd
  BY <1>12 DEF TxEnd, Raise
<1>13. CASE Carrier
  BY <1>13 DEF Carrier, Raise
<1>14. ASSUME NEW p \in Packet, FrameStart(p) PROVE FreshInv'
  BY <1>14 DEF FrameStart, Raise, DeliveredOnce
<1>15. CASE UNCHANGED vars
  BY <1>15 DEF vars
<1> QED
    BY <1>1, <1>2, <1>3, <1>4, <1>5, <1>6, <1>7, <1>8, <1>9, <1>10, <1>11, <1>12,
     <1>13, <1>14, <1>15
     DEF Next, MainLoop, Interrupts, Air

\* What is appended to delivered is handed out, like what was in it before.
LEMMA HandedAppend ==
  ASSUME TypeOK, NEW p \in Packet, delivered' = Append(delivered, p)
  PROVE  Handed \cup {p} \subseteq Handed'
<1>1. delivered \in Seq(Packet)
  BY DEF TypeOK, LoopType
<1>2. \A m \in DOMAIN delivered : m \in DOMAIN delivered' /\ delivered'[m] = delivered[m]
  BY <1>1
<1>3. Len(delivered) + 1 \in DOMAIN delivered' /\ delivered'[Len(delivered) + 1] = p
  BY <1>1
<1> QED
  BY <1>2, <1>3 DEF Handed

\* No packet is lost but to a reset of the receiver or to RFIF = 0.
LEMMA AccountStep ==
  ASSUME TypeOK, AirInv, FreshInv, TriggerInv, AccountInv, [Next]_vars
  PROVE  AccountInv'
<1> USE PacketAssumption
    DEF TypeOK, RadioType, IrqType, LoopType, AirInv, FreshInv, TriggerInv, AccountInv,
        PacketsAccountedFor, Unread, Settled, Receiving, Sending, ListenPc, SendPc,
        LoopPc, At, Interrupted, radioVars, irqVars, timerVars, flagVars, loopVars
<1>0. delivered' = delivered => Handed' = Handed
  BY DEF Handed
<1>1. CASE Listen
  BY <1>0, <1>1 DEF Listen, ListenIdle, ListenEnable, ListenStart
<1>2. CASE Send
  BY <1>0, <1>2
     DEF Send, SendTrigger, SendTooLong, SendIdle, SendEnable, SendStart, SendDone
<1>3. CASE Schedule
  BY <1>0, <1>3 DEF Schedule, ScheduleNothing, ScheduleTick, ScheduleListen, CallListen
<1>4. CASE UartQuiet \/ UartSend
  BY <1>0, <1>4 DEF UartQuiet, UartSend, CallSend, AfterUart
<1>5. CASE GetNothing \/ GetShort \/ GetDamaged
  BY <1>0, <1>5 DEF GetNothing, GetShort, GetDamaged, CallListen
<1>6. CASE GetGood
  <2>1. Handed \cup {rf_rx_buffer} \subseteq Handed'
    BY <1>6, HandedAppend DEF GetGood
  <2>2. heard \ (Short \cup Damaged \cup givenUp) \subseteq Handed'
    BY <1>6, <2>1 DEF GetGood
  <2> QED
    BY <1>6, <2>2 DEF GetGood, CallListen
<1>7. CASE Handle
  BY <1>0, <1>7 DEF Handle, HandleQuiet, HandleReply, HandleRanging, CallSend
<1>8. CASE RfIsr \/ RfIsrEvents \/ RfIsrClear
  BY <1>0, <1>8 DEF RfIsr, RfIsrEvents, RfIsrClear
<1>9. CASE CaptureIsr
  BY <1>0, <1>9 DEF CaptureIsr
<1>10. CASE TriggerIsr
  BY <1>0, <1>10 DEF TriggerIsr
<1>11. CASE TimerDue
  BY <1>0, <1>11 DEF TimerDue
<1>12. CASE FrameEnd
  BY <1>0, <1>12 DEF FrameEnd, Raise
<1>13. CASE TxEnd
  BY <1>0, <1>13 DEF TxEnd, Raise
<1>14. CASE Carrier
  BY <1>0, <1>14 DEF Carrier, Raise
<1>15. ASSUME NEW p \in Packet, FrameStart(p) PROVE AccountInv'
  <2>1. Unread = {} /\ ~ Settled /\ "DONE" \notin RFIF /\ ~ rf_rx_complete
    <3>1. marc = "rx" /\ pc \in Receiving \cup {"listen_idle"}
      BY <1>15 DEF FrameStart
    <3>2. "DONE" \notin RFIF /\ ~ rf_rx_complete
      BY <3>1
    <3>3. receiving = Nothing
      BY <3>1
    <3>4. ~ Settled
      BY <3>1
    <3> QED
      BY <3>2, <3>3, <3>4
  <2>2. Unread' = {p} /\ ~ Settled' /\ "DONE" \notin RFIF'
    BY <1>15, <2>1 DEF FrameStart, Raise
  <2>3. heard' = heard \cup {p} /\ givenUp' = givenUp /\ Handed' = Handed
    BY <1>0, <1>15 DEF FrameStart, Raise
  <2>4. PacketsAccountedFor'
    BY <2>1, <2>2, <2>3
  <2>5. marc' = "rx_frame"
    BY <1>15 DEF FrameStart
  <2> QED
    BY <2>2, <2>4, <2>5
<1>16. CASE UNCHANGED vars
  BY <1>0, <1>16 DEF vars
<1> QED
  BY <1>1, <1>2, <1>3, <1>4, <1>5, <1>6, <1>7, <1>8, <1>9, <1>10, <1>11, <1>12,
     <1>13, <1>14, <1>15, <1>16
     DEF Next, MainLoop, GetMessage, Interrupts, Air

\* A trigger that is set belongs to the ranging reply under way.
LEMMA TriggerStep ==
  ASSUME TypeOK, AirInv, TriggerInv, [Next]_vars
  PROVE  TriggerInv'
<1> USE Delays DEF TypeOK, TimerType, LoopType, RadioType, AirInv, TriggerInv,
           ListenPc, SendPc, LoopPc, Receiving, Sending, Ends, At,
           Interrupted, radioVars, irqVars, timerVars, flagVars, loopVars
<1>1. CASE Listen
  BY <1>1 DEF Listen, ListenIdle, ListenEnable, ListenStart
<1>2. CASE Send
    BY <1>2 DEF Send, SendTrigger, SendTooLong, SendIdle, SendEnable, SendStart,
     SendDone
<1>3. CASE Schedule
  BY <1>3 DEF Schedule, ScheduleNothing, ScheduleTick, ScheduleListen, CallListen
<1>4. CASE UartQuiet \/ UartSend
  BY <1>4 DEF UartQuiet, UartSend, CallSend, AfterUart
<1>5. CASE GetMessage
  BY <1>5 DEF GetMessage, GetNothing, GetShort, GetDamaged, GetGood, CallListen
<1>6. CASE Handle
  BY <1>6 DEF Handle, HandleQuiet, HandleReply, HandleRanging, CallSend
<1>7. CASE RfIsr \/ RfIsrEvents \/ RfIsrClear
  BY <1>7 DEF RfIsr, RfIsrEvents, RfIsrClear
<1>8. CASE CaptureIsr
  BY <1>8 DEF CaptureIsr
<1>9. CASE TriggerIsr
  BY <1>9 DEF TriggerIsr
<1>10. CASE TimerDue
  BY <1>10 DEF TimerDue
<1>11. CASE FrameEnd
  BY <1>11 DEF FrameEnd, Raise
<1>12. CASE TxEnd
  BY <1>12 DEF TxEnd, Raise
<1>13. CASE Carrier
  BY <1>13 DEF Carrier, Raise
<1>14. ASSUME NEW p \in Packet, FrameStart(p) PROVE TriggerInv'
  BY <1>14 DEF FrameStart, Raise
<1>15. CASE UNCHANGED vars
  BY <1>15 DEF vars
<1> QED
    BY <1>1, <1>2, <1>3, <1>4, <1>5, <1>6, <1>7, <1>8, <1>9, <1>10, <1>11, <1>12,
     <1>13, <1>14, <1>15
     DEF Next, MainLoop, Interrupts, Air

\* A prompt reply is prepared when its trigger comes (radio.c:333).
LEMMA OnTimeStep ==
  ASSUME IInv, OnTimeInv, WaitInv, PROMPT, [Next]_vars
  PROVE  OnTimeInv'
<1> USE DEF IInv, TypeOK, LoopType, RadioType, AirInv, TriggerInv, OnTimeInv, WaitInv,
           TransmitsPrepared, ListenPc, SendPc, LoopPc, Receiving, Sending, At,
           Interrupted, radioVars, irqVars, timerVars, flagVars, loopVars
<1>1. CASE Listen
  BY <1>1 DEF Listen, ListenIdle, ListenEnable, ListenStart
<1>2. CASE Send
    BY <1>2 DEF Send, SendTrigger, SendTooLong, SendIdle, SendEnable, SendStart,
     SendDone
<1>3. CASE Schedule
  BY <1>3 DEF Schedule, ScheduleNothing, ScheduleTick, ScheduleListen, CallListen
<1>4. CASE UartQuiet \/ UartSend
  BY <1>4 DEF UartQuiet, UartSend, CallSend, AfterUart
<1>5. CASE GetMessage
  BY <1>5 DEF GetMessage, GetNothing, GetShort, GetDamaged, GetGood, CallListen
<1>6. CASE Handle
  BY <1>6 DEF Handle, HandleQuiet, HandleReply, HandleRanging, CallSend
<1>7. CASE RfIsr \/ RfIsrEvents \/ RfIsrClear
  BY <1>7 DEF RfIsr, RfIsrEvents, RfIsrClear
<1>8. CASE CaptureIsr
  BY <1>8 DEF CaptureIsr
<1>9. CASE TriggerIsr
  BY <1>9 DEF TriggerIsr
<1>10. CASE TimerDue
  BY <1>10 DEF TimerDue
<1>11. CASE FrameEnd
  BY <1>11 DEF FrameEnd, Raise
<1>12. CASE TxEnd
  BY <1>12 DEF TxEnd, Raise
<1>13. CASE Carrier
  BY <1>13 DEF Carrier, Raise
<1>14. ASSUME NEW p \in Packet, FrameStart(p) PROVE OnTimeInv'
  BY <1>14 DEF FrameStart, Raise
<1>15. CASE UNCHANGED vars
  BY <1>15 DEF vars
<1> QED
    BY <1>1, <1>2, <1>3, <1>4, <1>5, <1>6, <1>7, <1>8, <1>9, <1>10, <1>11, <1>12,
     <1>13, <1>14, <1>15
     DEF Next, MainLoop, Interrupts, Air

\* The RF interrupt ends a wait only when the transmission has ended, and never
\* forgets an end nobody has seen (radio.c:256-273).
LEMMA WaitIsr ==
  ASSUME IInv, WaitInv, RfIsr \/ RfIsrEvents \/ RfIsrClear
  PROVE  WaitInv'
<1> USE DEF IInv, TypeOK, IrqType, LoopType, AirInv, WaitInv, NoLostWakeup, Ends,
            RxMask, TxMask, ListenPc, SendPc, LoopPc, radioVars, timerVars, flagVars, loopVars
<1>1. CASE RfIsr
  BY <1>1 DEF RfIsr
<1>2. CASE RfIsrEvents
  <2>1. pc = "wait" => ~ rf_mode_tx'
    BY <1>2 DEF RfIsrEvents
  <2>2. RFIF' \subseteq RFIF
    BY <1>2 DEF RfIsrEvents
  <2>3. pc = "wait" => marc # "tx" /\ channel1 # "compare"
    BY <1>2 DEF RfIsrEvents
  <2> QED
    BY <1>2, <2>1, <2>2, <2>3 DEF RfIsrEvents
<1>3. CASE RfIsrClear
  BY <1>3 DEF RfIsrClear
<1> QED
  BY <1>1, <1>2, <1>3

\* A transmission that has yet to end goes on finding its interrupt enabled.
LEMMA WaitStep ==
  ASSUME IInv, OnTimeInv, WaitInv, PROMPT, [Next]_vars
  PROVE  WaitInv'
<1> USE DEF IInv, TypeOK, IrqType, LoopType, RadioType, AirInv, TriggerInv,
           OnTimeInv, WaitInv, NoLostWakeup, TransmitsPrepared, RxMask, TxMask,
           ListenPc, SendPc, LoopPc, Receiving, Sending, Ends, At, Interrupted,
           radioVars, irqVars, timerVars, flagVars, loopVars
<1>1. CASE Listen
  BY <1>1 DEF Listen, ListenIdle, ListenEnable, ListenStart
<1>2. CASE Send
    BY <1>2 DEF Send, SendTrigger, SendTooLong, SendIdle, SendEnable, SendStart,
     SendDone
<1>3. CASE Schedule
  BY <1>3 DEF Schedule, ScheduleNothing, ScheduleTick, ScheduleListen, CallListen
<1>4. CASE UartQuiet \/ UartSend
  BY <1>4 DEF UartQuiet, UartSend, CallSend, AfterUart
<1>5. CASE GetMessage
  BY <1>5 DEF GetMessage, GetNothing, GetShort, GetDamaged, GetGood, CallListen
<1>6. CASE Handle
  BY <1>6 DEF Handle, HandleQuiet, HandleReply, HandleRanging, CallSend
<1>7. CASE RfIsr \/ RfIsrEvents \/ RfIsrClear
  BY <1>7, WaitIsr
<1>8. CASE CaptureIsr
  BY <1>8 DEF CaptureIsr
<1>9. CASE TriggerIsr
  BY <1>9 DEF TriggerIsr
<1>10. CASE TimerDue
  BY <1>10 DEF TimerDue
<1>11. CASE FrameEnd
  BY <1>11 DEF FrameEnd, Raise
<1>12. CASE TxEnd
  BY <1>12 DEF TxEnd, Raise
<1>13. CASE Carrier
  BY <1>13 DEF Carrier, Raise
<1>14. ASSUME NEW p \in Packet, FrameStart(p) PROVE WaitInv'
  BY <1>14 DEF FrameStart, Raise
<1>15. CASE UNCHANGED vars
  BY <1>15 DEF vars
<1> QED
    BY <1>1, <1>2, <1>3, <1>4, <1>5, <1>6, <1>7, <1>8, <1>9, <1>10, <1>11, <1>12,
     <1>13, <1>14, <1>15
     DEF Next, MainLoop, Interrupts, Air

\* No packet is handed out twice: the only step that hands one out takes it from
\* rf_rx_buffer, where FreshInv says it is new.
LEMMA OnceStep ==
  ASSUME TypeOK, FreshInv, DeliveredOnce, [Next]_vars
  PROVE  DeliveredOnce'
<1> USE DEF DeliveredOnce
<1>1. CASE delivered' = delivered /\ heard \subseteq heard'
  BY <1>1
<1>2. CASE GetGood
  <2>1. rf_rx_buffer \in heard \ Handed /\ rf_rx_buffer \notin Short \cup Damaged
    BY <1>2 DEF GetGood, FreshInv, At, Receiving, LoopPc
  <2>2. delivered \in Seq(Packet) /\ rf_rx_buffer \in Packet
    BY <1>2 DEF GetGood, TypeOK, LoopType
  <2>3. heard' = heard /\ delivered' = Append(delivered, rf_rx_buffer)
    BY <1>2 DEF GetGood, radioVars
  <2>4. /\ Len(delivered') = Len(delivered) + 1
        /\ DOMAIN delivered' = 1 .. Len(delivered) + 1
        /\ DOMAIN delivered = 1 .. Len(delivered)
        /\ Len(delivered) \in Nat
    BY <2>2, <2>3
  <2>5. /\ \A m \in DOMAIN delivered : delivered'[m] = delivered[m]
        /\ delivered'[Len(delivered) + 1] = rf_rx_buffer
    BY <2>2, <2>3
  <2>6. \A m \in DOMAIN delivered' : m \in DOMAIN delivered \/ m = Len(delivered) + 1
    BY <2>4
  <2>7. \A m \in DOMAIN delivered : delivered[m] # rf_rx_buffer
    BY <2>1 DEF Handed
  <2> QED
    BY <2>1, <2>3, <2>4, <2>5, <2>6, <2>7
<1>3. (delivered' = delivered /\ heard \subseteq heard') \/ GetGood
  <2> USE DEF radioVars, loopVars
  <2>1. CASE Listen \/ Send
    BY <2>1 DEF Listen, ListenIdle, ListenEnable, ListenStart,
         Send, SendTrigger, SendTooLong, SendIdle, SendEnable, SendStart, SendDone
  <2>2. CASE Schedule \/ UartQuiet \/ UartSend
    BY <2>2
       DEF Schedule, ScheduleNothing, ScheduleTick, ScheduleListen, UartQuiet, UartSend
  <2>3. CASE GetMessage \/ Handle
    BY <2>3 DEF GetMessage, GetNothing, GetShort, GetDamaged,
         Handle, HandleQuiet, HandleReply, HandleRanging
  <2>4. CASE Interrupts \/ TimerDue
    BY <2>4
       DEF Interrupts, RfIsr, RfIsrEvents, RfIsrClear, CaptureIsr, TriggerIsr, TimerDue
  <2>5. CASE FrameEnd \/ TxEnd \/ Air
    BY <2>5 DEF FrameEnd, TxEnd, Air, Carrier, FrameStart, Raise
  <2>6. CASE UNCHANGED vars
    BY <2>6 DEF vars
  <2> QED
    BY <2>1, <2>2, <2>3, <2>4, <2>5, <2>6 DEF Next, MainLoop
<1> QED
  BY <1>1, <1>2, <1>3

\* The radio after radio_init.
LEMMA IInvInit == Init => IInv
<1> SUFFICES ASSUME Init PROVE IInv
  OBVIOUS
<1> USE DEF Init
<1>1. TypeOK
  <2>1. RadioType /\ IrqType
    <3>1. /\ dma \in {"off", "rx"} /\ RFIF \subseteq Event
          /\ RFIM \in {{}, RxMask, TxMask} /\ pending \in BOOLEAN
      BY DEF LeftByBootloader, AfterReset, RxMask, Event
    <3>. QED
      BY <3>1 DEF RadioType, IrqType
  <2>2. captured \in [event : Event \cup {"none"}, packet : Packet \cup {Nothing}]
    OBVIOUS
  <2>3. TimerType
    <3>1. transmit_delay \in 0 .. RF_PRECISE_TIMING_DELAY
      BY TimingAssumption
    <3>2. channel1 = "off" /\ channel1_flag = FALSE /\ due = FALSE
      BY DEF Init
    <3> HIDE DEF Init
    <3> QED
      BY <2>2, <3>1, <3>2 DEF TimerType
  <2>4. delivered \in Seq(Packet)
    OBVIOUS
  <2>5. LoopType
    <3>1. last_rx_ticks \in 0 .. MAX_RX_TICKS
      BY TimingAssumption
    <3>2. /\ pc = "listen_idle" /\ back = "schedule" /\ cmd = Nothing
          /\ ~ rf_mode_tx /\ ~ rf_rx_complete /\ ~ precise
          /\ {rf_mode_tx, rf_rx_complete, precise} \subseteq BOOLEAN
      BY DEF Init
    <3> HIDE DEF Init
    <3> QED
      BY <2>4, <3>1, <3>2 DEF LoopType, ListenPc, SendPc, LoopPc
  <2> QED
    BY <2>1, <2>3, <2>5 DEF TypeOK
<1>2. DeliveredOnce
  BY DEF DeliveredOnce
<1>3. AirInv /\ TriggerInv
  BY DEF AirInv, TriggerInv, Receiving, LoopPc
<1>4. FreshInv
  BY DEF FreshInv, Receiving, LoopPc
<1>5. AccountInv
  BY DEF AccountInv, PacketsAccountedFor, Settled
<1> QED
  BY <1>1, <1>2, <1>3, <1>4, <1>5 DEF IInv

\* Nothing is being sent, either.
LEMMA PromptInit == Init => OnTimeInv /\ WaitInv
  BY DEF Init, OnTimeInv, TransmitsPrepared, WaitInv, NoLostWakeup

\* Every step preserves the inductive invariant.
LEMMA IInvStep ==
  ASSUME IInv, [Next]_vars
  PROVE  IInv'
<1> USE DEF IInv
<1>1. TypeOK'
  BY RadioTypeStep, IrqTypeStep, TimerTypeStep, LoopTypeStep DEF TypeOK
<1>2. AirInv' /\ FreshInv' /\ TriggerInv'
  BY AirStep, FreshStep, TriggerStep
<1>3. AccountInv'
  BY AccountStep
<1>4. DeliveredOnce'
  BY OnceStep
<1> QED
  BY <1>1, <1>2, <1>3, <1>4

\* The invariant behind the theorems below, prompt or not.
THEOREM RadioInvariant == Spec => []IInv
<1>1. IInv /\ [Next]_vars => IInv'
  BY IInvStep
<1> QED
  BY <1>1, IInvInit, PTL DEF Spec

\* The invariant if ranging replies are ready in time.
THEOREM PromptInvariant ==
  ASSUME PROMPT
  PROVE  Spec => []PromptInv
<1>1. IInv /\ OnTimeInv /\ WaitInv /\ [Next]_vars => (OnTimeInv /\ WaitInv)'
  BY OnTimeStep, WaitStep
<1>2. IInv /\ OnTimeInv /\ WaitInv => PromptInv
  BY DEF PromptInv
<1> QED
  BY <1>1, <1>2, PromptInit, RadioInvariant, PTL DEF Spec

\* Every variable keeps to its type, whatever the interleaving of the radio, the
\* timer, the interrupts and the main loop.
THEOREM TypeCorrect == Spec => []TypeOK
<1>1. IInv => TypeOK
  BY DEF IInv
<1> QED
  BY <1>1, RadioInvariant, PTL

\* No packet reaches the input handler twice, and none that is damaged or too
\* short, although rf_isr takes the end of a transmission for a packet, too
\* (radio.c:256-265).
THEOREM NoPacketTwice == Spec => []DeliveredOnce
<1>1. IInv => DeliveredOnce
  BY DEF IInv
<1> QED
  BY <1>1, RadioInvariant, PTL

\* Every good packet heard is handed to the input handler or on its way there,
\* but those a reset of the receiver (schedule.c:64, radio.c:355) or RFIF = 0
\* (radio.c:273) has cost: an unread one is not overwritten, and the
\* radio_listen that follows each packet drops none.
THEOREM NoneDroppedUnread == Spec => []PacketsAccountedFor
<1>1. IInv => PacketsAccountedFor
  BY DEF IInv, AccountInv
<1> QED
  BY <1>1, RadioInvariant, PTL

\* The radio never transmits but while radio_send_packet waits for it, with the
\* DMA channel armed for the packet.
THEOREM NoStrayTransmission ==
  ASSUME PROMPT
  PROVE  Spec => []TransmitsPrepared
<1>1. PromptInv => TransmitsPrepared
  BY DEF PromptInv, OnTimeInv
<1> QED
  BY <1>1, PromptInvariant, PTL

\* While radio_send_packet waits (radio.c:414), the event that ends the wait is
\* still to come, or on its way through the interrupt.
THEOREM NeverWaitsInVain ==
  ASSUME PROMPT
  PROVE  Spec => []NoLostWakeup
<1>1. PromptInv => NoLostWakeup
  BY DEF PromptInv, WaitInv
<1> QED
  BY <1>1, PromptInvariant, PTL
=============================================================================
