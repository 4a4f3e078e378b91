------------------------------- MODULE AppLoop -------------------------------
(***************************************************************************)
(* The main loop of the application (open-lst/radio): the ten times a      *)
(* second it copies the last round of ADC samples to the telemetry and     *)
(* starts the next one (schedule.c, telemetry.c, adc.c), and the commands  *)
(* that read and set the clock (commands.c, timers.c).                     *)
(*                                                                         *)
(* It shares its variables with two interrupts and the counter of timer 1. *)
(* A sample is <<channel, fresh>>, fresh if its conversion was started in  *)
(* the current round; a time is in ticks of the counter, and rtc_seconds   *)
(* wraps at SECONDS in place of 2^32.                                      *)
(***************************************************************************)
EXTENDS Integers, Sequences

CONSTANTS
  ADC_NUM_CHANNELS,
  TIMER_COUNT_PERIOD,   \* milliseconds between rounds
  T1_PERIOD,            \* ticks in a millisecond
  MS_PER_SECOND,        \* 1000 in timers.c
  SECONDS,
  T1_TICK,              \* nanoseconds in a tick, rounded down
  NS_PER_MS             \* nanoseconds in a millisecond

ASSUME LoopAssumption ==
  /\ {ADC_NUM_CHANNELS, TIMER_COUNT_PERIOD, T1_PERIOD, MS_PER_SECOND, SECONDS,
      T1_TICK, NS_PER_MS} \subseteq Nat \ {0}
  /\ TIMER_COUNT_PERIOD > 1
  /\ T1_PERIOD * T1_TICK <= NS_PER_MS

VARIABLES
  T1CNT, CH0IF, T1IE,               \* counter, its flag, the interrupt's enable bit
  rtc_seconds, rtc_milliseconds, rtc_set, timer_count_ms,
  ADCIE, ADCIF,                     \* enable bit and flag of the ADC's interrupt
  conversions,                      \* of the ADC, the one under way first
  ADC,                              \* result of the last one
  adc_channel_index, adc_sample_ready, adc_buffer,
  telemetry,                        \* telemetry.adc
  pc,                               \* where the main loop is
  copied,                           \* samples copied to the telemetry
  time,                             \* what timers_get_time has read
  clock,                            \* history: the time by the ticks since set_time
  queues                            \* whether the ADC finishes a conversion it is
                                    \* told to replace

counter == <<T1CNT, CH0IF>>
rtc == <<rtc_seconds, rtc_milliseconds, rtc_set>>
timerVars == <<counter, T1IE, rtc, clock, timer_count_ms>>
round == <<ADCIE, adc_channel_index, adc_sample_ready>>
adcVars == <<round, ADCIF, conversions, ADC, adc_buffer>>
data == <<telemetry, copied, time, queues>>
vars == <<timerVars, adcVars, pc, data>>

Channel == 0 .. ADC_NUM_CHANNELS - 1
NoSample == <<>>
Sample == Channel \X BOOLEAN
Zero == [seconds |-> 0, milliseconds |-> 0, fine |-> 0]

\* A day: the time after which rtc_seconds wraps.
Day == SECONDS * MS_PER_SECOND * T1_PERIOD
Ticks(t) == (t.seconds * MS_PER_SECOND + t.milliseconds) * T1_PERIOD + t.fine

TypeOK ==
  /\ T1CNT \in 0 .. T1_PERIOD - 1
  /\ CH0IF \in BOOLEAN /\ T1IE \in BOOLEAN /\ rtc_set \in BOOLEAN
  /\ ADCIE \in BOOLEAN /\ ADCIF \in BOOLEAN /\ adc_sample_ready \in BOOLEAN
  /\ queues \in BOOLEAN
  /\ rtc_seconds \in 0 .. SECONDS - 1
  /\ rtc_milliseconds \in 0 .. MS_PER_SECOND - 1
  /\ timer_count_ms \in 0 .. TIMER_COUNT_PERIOD
  /\ conversions \in Seq(Sample)
  /\ ADC \in Sample \cup {NoSample}
  /\ adc_channel_index \in 0 .. ADC_NUM_CHANNELS
  /\ adc_buffer \in [Channel -> Sample \cup {NoSample}]
  /\ telemetry \in [Channel -> Sample \cup {NoSample}]
  /\ pc \in {"init", "events", "telemetry", "copy", "stop", "start", "clear", "enable",
             "inputs", "time_seconds", "time_milliseconds", "time_fine", "time_read"}
  /\ copied \in Channel
  /\ time \in [seconds : 0 .. SECONDS - 1, milliseconds : 0 .. MS_PER_SECOND - 1,
               fine : 0 .. T1_PERIOD - 1]
  /\ clock \in 0 .. Day - 1

\* After timers_init and telemetry_init.
Init ==
  /\ T1CNT = 0 /\ CH0IF = FALSE /\ T1IE = TRUE
  /\ rtc_seconds = 0 /\ rtc_milliseconds = 0 /\ rtc_set = FALSE
  /\ timer_count_ms = 0
  /\ ADCIE = FALSE /\ ADCIF = FALSE /\ conversions = <<>> /\ ADC = NoSample
  /\ adc_channel_index = 0 /\ adc_sample_ready = FALSE
  /\ adc_buffer = [c \in Channel |-> NoSample]
  /\ telemetry = [c \in Channel |-> NoSample]
  /\ pc = "init" /\ copied = 0 /\ time = Zero
  /\ clock = 0
  /\ queues \in BOOLEAN

-----------------------------------------------------------------------------
(***************************************************************************)
(* Timer 1.                                                                *)
(***************************************************************************)

\* The number after x, of those below n.
After(x, n) == IF x + 1 < n THEN x + 1 ELSE 0

\* A round is being copied, started or sampled.
Sampling ==
  \/ pc \in {"telemetry", "copy", "stop", "start", "clear", "enable"}
  \/ conversions # <<>>
  \/ ADCIE /\ ADCIF

\* The counter.  Its interrupt is served within a millisecond.  With an ADC
\* that finishes what it is told to replace, the samples are only those of
\* one round if the round takes less than the 100 ms the code assumes.
Tick ==
  /\ T1CNT = T1_PERIOD - 1 => ~ CH0IF /\ (queues /\ timer_count_ms <= 1 => ~ Sampling)
  /\ T1CNT' = After(T1CNT, T1_PERIOD)
  /\ CH0IF' = (CH0IF \/ T1CNT' = 0)
  /\ clock' = After(clock, Day)
  /\ UNCHANGED <<T1IE, rtc, timer_count_ms, adcVars, pc, data>>

CountMillisecond ==
  /\ T1IE /\ CH0IF
  /\ CH0IF' = FALSE
  /\ rtc_milliseconds' = After(rtc_milliseconds, MS_PER_SECOND)
  /\ rtc_seconds' = IF rtc_milliseconds' = 0 THEN After(rtc_seconds, SECONDS) ELSE rtc_seconds
  /\ UNCHANGED <<T1CNT, T1IE, rtc_set, clock, adcVars, pc, data>>

\* Variant: the countdown goes on below zero.
T1IsrWrapping ==
  /\ CountMillisecond
  /\ timer_count_ms' = (timer_count_ms - 1) % (TIMER_COUNT_PERIOD + 1)

\* The compare branch of t1_isr.
T1Isr ==
  /\ CountMillisecond
  /\ timer_count_ms' = IF timer_count_ms # 0 THEN timer_count_ms - 1 ELSE 0

-----------------------------------------------------------------------------
(***************************************************************************)
(* The ADC.                                                                *)
(***************************************************************************)

\* A write to ADCCON3 starts a conversion of channel c.
StartConversion(pending, c) ==
  conversions' = IF queues THEN Append(pending, <<c, TRUE>>) ELSE <<<<c, TRUE>>>>

\* A conversion ends.
Convert ==
  /\ conversions # <<>>
  /\ ADC' = Head(conversions)
  /\ conversions' = Tail(conversions)
  /\ ADCIF' = TRUE
  /\ UNCHANGED <<round, adc_buffer, timerVars, pc, data>>

AdcCompleteIsr ==
  /\ ADCIE /\ ADCIF
  /\ ADCIF' = FALSE
  /\ adc_buffer' = [adc_buffer EXCEPT ![adc_channel_index] = ADC]
  /\ adc_channel_index' = adc_channel_index + 1
  /\ IF adc_channel_index' >= ADC_NUM_CHANNELS
     THEN adc_sample_ready' = TRUE /\ ADCIE' = FALSE /\ UNCHANGED conversions
     ELSE StartConversion(conversions, adc_channel_index') /\ UNCHANGED <<adc_sample_ready, ADCIE>>
  /\ UNCHANGED <<ADC, timerVars, pc, data>>

-----------------------------------------------------------------------------
(***************************************************************************)
(* The main loop.                                                          *)
(***************************************************************************)

Goto(from, to) == pc = from /\ pc' = to

\* adc_init, and what else comes before the loop.
Initialize ==
  /\ Goto("init", "events")
  /\ ADCIE' = FALSE
  /\ adc_sample_ready' = FALSE
  /\ UNCHANGED <<timerVars, ADCIF, conversions, ADC, adc_channel_index, adc_buffer, data>>

\* schedule_handle_events: ten times a second, telemetry and the next round.
NotDue ==
  /\ timer_count_ms # 0
  /\ Goto("events", "inputs")
  /\ UNCHANGED <<timerVars, adcVars, data>>

Due ==
  /\ timer_count_ms = 0
  /\ timer_count_ms' = TIMER_COUNT_PERIOD
  /\ Goto("events", "telemetry")
  /\ UNCHANGED <<counter, T1IE, rtc, clock, adcVars, data>>

\* update_telemetry: the samples, if they are complete, one by one.
NotReady ==
  /\ ~ adc_sample_ready
  /\ Goto("telemetry", "stop")
  /\ UNCHANGED <<timerVars, adcVars, data>>

Ready ==
  /\ adc_sample_ready
  /\ Goto("telemetry", "copy")
  /\ copied' = 0
  /\ UNCHANGED <<timerVars, adcVars, telemetry, time, queues>>

CopySample ==
  /\ pc = "copy"
  /\ telemetry' = [telemetry EXCEPT ![copied] = adc_buffer[copied]]
  /\ IF copied + 1 = ADC_NUM_CHANNELS
     THEN pc' = "stop" /\ copied' = 0
     ELSE copied' = copied + 1 /\ UNCHANGED pc
  /\ UNCHANGED <<timerVars, adcVars, time, queues>>

\* Variant: the channel index is left where the last round ended.
StopRoundHalf ==
  /\ Goto("stop", "start")
  /\ ADCIE' = FALSE
  /\ adc_sample_ready' = FALSE
  /\ UNCHANGED <<timerVars, ADCIF, conversions, ADC, adc_channel_index, adc_buffer, data>>

\* adc_start_sample: stop what is left of the last round, ...
StopRound ==
  /\ Goto("stop", "start")
  /\ ADCIE' = FALSE
  /\ adc_sample_ready' = FALSE
  /\ adc_channel_index' = 0
  /\ UNCHANGED <<timerVars, ADCIF, conversions, ADC, adc_buffer, data>>

\* ... start the first conversion (the samples there are become old), ...
Old(s) == IF s = NoSample THEN s ELSE <<s[1], FALSE>>

StartRound ==
  /\ Goto("start", "clear")
  /\ StartConversion([i \in DOMAIN conversions |-> Old(conversions[i])], 0)
  /\ ADC' = Old(ADC)
  /\ adc_buffer' = [c \in Channel |-> Old(adc_buffer[c])]
  /\ UNCHANGED <<timerVars, round, ADCIF, data>>

\* Variant: the flag is not cleared.
ClearFlagNever ==
  /\ Goto("clear", "enable")
  /\ UNCHANGED <<timerVars, adcVars, data>>

\* ... forget the flag an old conversion may have raised, ...
ClearFlag ==
  /\ Goto("clear", "enable")
  /\ ADCIF' = FALSE
  /\ UNCHANGED <<timerVars, round, conversions, ADC, adc_buffer, data>>

\* ... and enable the interrupt.
EnableRound ==
  /\ Goto("enable", "inputs")
  /\ ADCIE' = TRUE
  /\ UNCHANGED <<timerVars, ADCIF, conversions, ADC, adc_channel_index, adc_sample_ready, adc_buffer, data>>

\* The rest of a turn: no command, or one that does not use the clock.
OtherInput ==
  /\ Goto("inputs", "events")
  /\ UNCHANGED <<timerVars, adcVars, data>>

\* A set_time command; timers_set_time has the timer's interrupt disabled.
SetTime(seconds, milliseconds) ==
  /\ Goto("inputs", "events")
  /\ rtc_seconds' = seconds
  /\ rtc_milliseconds' = milliseconds
  /\ rtc_set' = TRUE
  /\ clock' = Ticks([seconds |-> seconds, milliseconds |-> milliseconds, fine |-> 0])
  /\ UNCHANGED <<counter, T1IE, timer_count_ms, adcVars, data>>

\* Variant: the timer's interrupt stays enabled.
GetTimeUnlocked ==
  /\ rtc_set
  /\ Goto("inputs", "time_seconds")
  /\ UNCHANGED <<timerVars, adcVars, data>>

\* A get_time command: timers_get_time disables the timer's interrupt, ...
GetTime ==
  /\ rtc_set
  /\ Goto("inputs", "time_seconds")
  /\ T1IE' = FALSE
  /\ UNCHANGED <<counter, rtc, timer_count_ms, clock, adcVars, data>>

ReadSeconds ==
  /\ Goto("time_seconds", "time_milliseconds")
  /\ time' = [time EXCEPT !.seconds = rtc_seconds]
  /\ UNCHANGED <<timerVars, adcVars, telemetry, copied, queues>>

ReadMilliseconds ==
  /\ Goto("time_milliseconds", "time_fine")
  /\ time' = [time EXCEPT !.milliseconds = rtc_milliseconds]
  /\ UNCHANGED <<timerVars, adcVars, telemetry, copied, queues>>

\* ... reads the counter, which runs on, and enables the interrupt.
ReadCounter ==
  /\ Goto("time_fine", "time_read")
  /\ time' = [time EXCEPT !.fine = T1CNT]
  /\ T1IE' = TRUE
  /\ UNCHANGED <<counter, rtc, timer_count_ms, clock, adcVars, telemetry, copied, queues>>

\* The reply is on its way.
ReplyTime ==
  /\ Goto("time_read", "events")
  /\ time' = Zero
  /\ UNCHANGED <<timerVars, adcVars, telemetry, copied, queues>>

MainLoop ==
  \/ Initialize
  \/ NotDue \/ Due
  \/ NotReady \/ Ready \/ CopySample
  \/ StopRound \/ StartRound \/ ClearFlag \/ EnableRound
  \/ OtherInput
  \/ ReadSeconds \/ ReadMilliseconds \/ ReadCounter \/ ReplyTime

Command ==
  \/ GetTime
  \/ \E s \in 0 .. SECONDS - 1, ms \in 0 .. MS_PER_SECOND - 1 : SetTime(s, ms)

Next == Tick \/ T1Isr \/ Convert \/ AdcCompleteIsr \/ MainLoop \/ Command

Spec == Init /\ [][Next]_vars

\* Time goes on, both interrupts are served once enabled, the main loop goes on, and so
\* does the ADC; now and then, if not always, a round's first conversion is
\* still under way when the flag is cleared.
FairSpec ==
  /\ Spec
  /\ WF_vars(Tick) /\ SF_vars(T1Isr) /\ WF_vars(AdcCompleteIsr) /\ WF_vars(MainLoop)
  /\ WF_vars(Convert) /\ SF_vars(conversions # <<>> /\ ClearFlag)

-----------------------------------------------------------------------------
(***************************************************************************)
(* A timespec_t, with seconds modulo SECONDS, and the arithmetic on it.    *)
(***************************************************************************)

BILLION == MS_PER_SECOND * NS_PER_MS
Time == [seconds : 0 .. SECONDS - 1, nanoseconds : 0 .. BILLION - 1]

\* What timers_get_time makes of what it has read.
Timespec(t) ==
  [seconds |-> t.seconds, nanoseconds |-> t.milliseconds * NS_PER_MS + t.fine * T1_TICK]

\* Variant: no carry.
AddTimeUncarried(t1, t2) ==
  [seconds |-> (t1.seconds + t2.seconds) % SECONDS,
   nanoseconds |-> t1.nanoseconds + t2.nanoseconds]

AddTime(t1, t2) ==
  LET sum == t1.nanoseconds + t2.nanoseconds
      carry == IF sum > BILLION THEN 1 ELSE 0
  IN [seconds |-> (t1.seconds + t2.seconds + carry) % SECONDS,
      nanoseconds |-> sum - carry * BILLION]

SubtractTime(t1, t2) ==
  LET borrow == IF t1.nanoseconds < t2.nanoseconds THEN 1 ELSE 0
  IN [seconds |-> (t1.seconds - t2.seconds - borrow) % SECONDS,
      nanoseconds |-> t1.nanoseconds - t2.nanoseconds + borrow * BILLION]

-----------------------------------------------------------------------------
(***************************************************************************)
(* Correctness.                                                            *)
(***************************************************************************)

\* The telemetry never mixes rounds or channels, except while it is copied:
\* a round that was cut off, and a conversion of it that ends while the next
\* one is started, leave no sample in it (adc.c:48-64, telemetry.c:43-54).
WholeRounds ==
  \/ pc = "copy"
  \/ \A c \in Channel : telemetry[c] = NoSample
  \/ \A c \in Channel : telemetry[c] = <<c, TRUE>>

\* Why WholeRounds holds.  While the interrupt is enabled, and from the moment
\* it is about to be, only the sample of the current channel can come in.
Expects(c) ==
  \/ conversions = <<<<c, TRUE>>>> /\ ~ ADCIF
  \/ conversions = <<>> /\ (ADCIF => ADC = <<c, TRUE>>)
Stored(n) == \A c \in Channel : c < n => adc_buffer[c] = <<c, TRUE>>

RoundInv ==
  /\ ADCIE =>
       /\ pc \notin {"start", "clear", "enable"}
       /\ ~ adc_sample_ready
       /\ adc_channel_index < ADC_NUM_CHANNELS
       /\ Expects(adc_channel_index)
       /\ Stored(adc_channel_index)
  /\ adc_sample_ready =>
       /\ pc \notin {"start", "clear", "enable"}
       /\ conversions = <<>> /\ ~ ADCIF
       /\ Stored(ADC_NUM_CHANNELS)
  /\ pc \in {"start", "clear", "enable"} => adc_channel_index = 0
  /\ pc = "clear" => conversions \in {<<>>, <<<<0, TRUE>>>>}
  /\ pc = "enable" => Expects(0)

\* An ADC that finishes what it is told to replace is idle when a round starts.
QueueInv ==
  queues =>
    /\ timer_count_ms = 0 \/ (CH0IF /\ timer_count_ms <= 1) => ~ Sampling
    /\ pc \in {"telemetry", "copy", "stop", "start"} =>
         conversions = <<>> /\ ~ (ADCIE /\ ADCIF)

CopyInv ==
  pc = "copy" =>
    adc_sample_ready /\ \A c \in Channel : c < copied => telemetry[c] = <<c, TRUE>>

IInv == TypeOK /\ RoundInv /\ QueueInv /\ CopyInv /\ WholeRounds

\* Why TimeReadIsClose holds.  The clock and the counter together show the time
\* passed since it was set, and the up to two milliseconds that the counter and its
\* flag held at that moment: timers_set_time resets neither (timers.c:78-86).
Shown == Ticks([seconds |-> rtc_seconds, milliseconds |-> rtc_milliseconds, fine |-> T1CNT])
Pending == IF CH0IF THEN T1_PERIOD ELSE 0
ClockInv == (Shown + Pending - clock) % Day < 2 * T1_PERIOD

\* The clock stands still while it is read.
LockInv ==
  /\ pc \in {"time_seconds", "time_milliseconds", "time_fine"} => ~ T1IE
  /\ pc \in {"time_milliseconds", "time_fine"} => time.seconds = rtc_seconds
  /\ pc = "time_fine" => time.milliseconds = rtc_milliseconds

TimeInv == ClockInv /\ LockInv

\* The time read is at most a millisecond late and less than two ahead of the
\* time set and what has passed since: the interrupt held off in
\* timers_get_time costs a wrap of the counter, never a carry to the seconds
\* (timers.c:56-68).
TimeReadIsClose ==
  [][pc # "time_read" /\ pc' = "time_read" =>
       (Ticks(time') - clock + T1_PERIOD) % Day \in 0 .. 3 * T1_PERIOD - 1]_vars

\* If rounds are as short as the code assumes (schedule.c:57), the telemetry
\* is renewed again and again, although the start of a round may forget its
\* first conversion (adc.c:60).
Renewed == pc = "stop" /\ adc_sample_ready
TelemetryRenewed == queues => []<> Renewed

\* What is added to a time read can be subtracted again, and the sum is a
\* proper time unless its nanoseconds are exactly BILLION, which are not
\* carried (timers.c:67 and 88-104).
TimesAddUp ==
  pc = "time_read" =>
    \A t \in Time :
      LET sum == AddTime(Timespec(time), t)
      IN /\ sum \in Time \/ sum.nanoseconds = BILLION
         /\ SubtractTime(sum, t) = Timespec(time)
=============================================================================
