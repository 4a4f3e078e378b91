---------------------------- MODULE AppLoopProofs ----------------------------
(***************************************************************************)
(* Proofs about AppLoop: for any number of channels, any time between      *)
(* rounds and both kinds of ADC, the telemetry holds whole rounds; for any *)
(* units of time, the time read is close to the time that has passed, and  *)
(* the arithmetic on times can be undone.                                  *)
(***************************************************************************)
EXTENDS AppLoop, TLAPS

\* The constants' ranges (LoopAssumption).
LEMMA Parameters ==
  /\ ADC_NUM_CHANNELS \in Nat \ {0} /\ TIMER_COUNT_PERIOD \in Nat \ {0}
  /\ T1_PERIOD \in Nat \ {0} /\ MS_PER_SECOND \in Nat \ {0} /\ SECONDS \in Nat \ {0}
  /\ TIMER_COUNT_PERIOD > 1
  /\ 0 \in Channel
<1>1. ADC_NUM_CHANNELS \in Nat \ {0}
  BY LoopAssumption
<1>. QED
  BY <1>1, LoopAssumption DEF Channel

\* A conversion that is put into, or taken from, the empty queue of the ADC.
LEMMA OneConversion ==
  \A x : Head(<<x>>) = x /\ Tail(<<x>>) = <<>> /\ Append(<<>>, x) = <<x>> /\ <<x>> # <<>>
OBVIOUS

\* A digit below its base keeps a number below the next multiple.
LEMMA DigitBelow ==
  ASSUME NEW a \in Nat, NEW b \in Nat, NEW n \in Nat, NEW d \in Nat, a < b, d < n
  PROVE  a * n + d \in 0 .. b * n - 1
<1>. DEFINE gap == b - 1 - a
<1>1. gap \in Nat
  BY SMT
<1>2. a * n \in Nat /\ b * n \in Nat /\ gap * n \in Nat
  BY <1>1, SMT
<1>3. b * n = a * n + gap * n + n
  BY <1>1, SMT
<1>. QED
  BY <1>2, <1>3, SMT

\* The length of a day, and that every time of day is within it (Ticks).
LEMMA DayLength ==
  /\ Day \in Nat \ {0}
  /\ \A s \in 0 .. SECONDS - 1, ms \in 0 .. MS_PER_SECOND - 1 :
       Ticks([seconds |-> s, milliseconds |-> ms, fine |-> 0]) \in 0 .. Day - 1
<1>1. ASSUME NEW s \in 0 .. SECONDS - 1, NEW ms \in 0 .. MS_PER_SECOND - 1
      PROVE  (s * MS_PER_SECOND + ms) * T1_PERIOD + 0 \in 0 .. Day - 1
  <2>1. s * MS_PER_SECOND + ms \in 0 .. SECONDS * MS_PER_SECOND - 1
    BY DigitBelow, Parameters
  <2>2. SECONDS * MS_PER_SECOND \in Nat
    BY Parameters, SMT
  <2>. HIDE DEF Day
  <2>3. s * MS_PER_SECOND + ms \in Nat /\ s * MS_PER_SECOND + ms < SECONDS * MS_PER_SECOND
    BY <2>1, <2>2, SMT
  <2>. QED
    BY <2>2, <2>3, DigitBelow, Parameters DEF Day
<1>2. 0 \in 0 .. SECONDS - 1 /\ 0 \in 0 .. MS_PER_SECOND - 1
  BY Parameters, SMT
<1>3. Day \in Int
  BY Parameters, SMT DEF Day
<1>4. 0 .. Day - 1 # {}
  BY <1>1, <1>2
<1>5. Day \in Nat \ {0}
  BY <1>3, <1>4, SMT
<1>. QED
  BY <1>1, <1>5 DEF Ticks

\* After stays below its bound.
LEMMA AfterBelow ==
  ASSUME NEW n \in Nat \ {0}, NEW x \in 0 .. n - 1
  PROVE  After(x, n) \in 0 .. n - 1
BY SMT DEF After

\* The oldest conversions become old ones, and stay conversions.
LEMMA OldTypes ==
  /\ \A s \in Sample : Old(s) \in Sample
  /\ \A s \in Sample \cup {NoSample} : Old(s) \in Sample \cup {NoSample}
BY DEF Old, Sample, NoSample

-----------------------------------------------------------------------------
\* A step of the main loop outside adc_start_sample leaves the round alone.
LEMMA RoundKept ==
  ASSUME RoundInv, UNCHANGED adcVars, pc' \notin {"start", "clear", "enable"}
  PROVE  RoundInv'
<1>1. \A c : (Expects(c)' <=> Expects(c)) /\ (Stored(c)' <=> Stored(c))
  BY DEF Expects, Stored, adcVars
<1>. QED
  BY <1>1 DEF RoundInv, adcVars, round

\* Initially no sample has been taken.
LEMMA InitInv == Init => IInv
<1>. SUFFICES ASSUME Init PROVE IInv
  OBVIOUS
<1>1. 0 \in 0 .. Day - 1
  BY DayLength, SMT
<1>2. Zero \in [seconds : 0 .. SECONDS - 1, milliseconds : 0 .. MS_PER_SECOND - 1,
                fine : 0 .. T1_PERIOD - 1]
  BY Parameters DEF Zero
<1>3. conversions \in Seq(Sample)
  BY DEF Init
<1>4. /\ adc_buffer \in [Channel -> Sample \cup {NoSample}]
      /\ telemetry \in [Channel -> Sample \cup {NoSample}]
      /\ ADC \in Sample \cup {NoSample}
  BY DEF Init
<1>5. /\ 0 \in 0 .. T1_PERIOD - 1 /\ 0 \in 0 .. SECONDS - 1 /\ 0 \in 0 .. MS_PER_SECOND - 1
      /\ 0 \in 0 .. TIMER_COUNT_PERIOD /\ 0 \in 0 .. ADC_NUM_CHANNELS
  BY Parameters
<1>6. TypeOK
  BY <1>1, <1>2, <1>3, <1>4, <1>5, Parameters DEF Init, TypeOK
<1>. QED
  BY <1>6 DEF Init, IInv, RoundInv, QueueInv, CopyInv, WholeRounds, Sampling

\* Timer 1 counts, and a round that is not over keeps the last millisecond
\* before the next one from passing (Tick).
LEMMA TickInv == ASSUME IInv, Tick PROVE IInv'
<1>1. T1CNT' \in 0 .. T1_PERIOD - 1 /\ clock' \in 0 .. Day - 1
  BY AfterBelow, DayLength, Parameters DEF IInv, TypeOK, Tick
<1>2. CH0IF' \in BOOLEAN
  BY DEF Tick
<1>3. TypeOK'
  BY <1>1, <1>2 DEF IInv, TypeOK, Tick, adcVars, round, rtc, data
<1>4. CH0IF' /\ ~ CH0IF => T1CNT = T1_PERIOD - 1
  BY Parameters DEF IInv, TypeOK, Tick, After
<1>5. QueueInv'
  BY <1>4 DEF IInv, TypeOK, Tick, QueueInv, Sampling, adcVars, round, rtc, data
<1>. QED
  BY <1>3, <1>5 DEF IInv, RoundInv, Expects, Stored, CopyInv, WholeRounds, Tick, adcVars,
     round, rtc, data

\* t1_isr counts down to the next round (T1Isr).
LEMMA T1IsrInv == ASSUME IInv, T1Isr PROVE IInv'
<1>1. /\ rtc_milliseconds' \in 0 .. MS_PER_SECOND - 1
      /\ rtc_seconds' \in 0 .. SECONDS - 1
  BY AfterBelow, Parameters DEF IInv, TypeOK, T1Isr, CountMillisecond
<1>2. timer_count_ms' \in 0 .. TIMER_COUNT_PERIOD
  BY Parameters DEF IInv, TypeOK, T1Isr, CountMillisecond
<1>3. TypeOK'
  BY <1>1, <1>2 DEF IInv, TypeOK, T1Isr, CountMillisecond, adcVars, round, data
<1>4. QueueInv'
  BY Parameters DEF IInv, TypeOK, T1Isr, CountMillisecond, QueueInv, Sampling, adcVars,
     round, data
<1>. QED
  BY <1>3, <1>4 DEF IInv, RoundInv, Expects, Stored, CopyInv, WholeRounds, T1Isr,
     CountMillisecond, adcVars, round, data

\* While the round is on, only the conversion it waits for can end (Convert).
LEMMA ConvertInv == ASSUME IInv, Convert PROVE IInv'
<1>1. /\ ADC' \in Sample /\ conversions' \in Seq(Sample)
  BY DEF IInv, TypeOK, Convert
<1>2. TypeOK'
  BY <1>1 DEF IInv, TypeOK, Convert, timerVars, counter, rtc, data, round
<1>3. \A c \in Channel : Expects(c) => Expects(c)'
  BY OneConversion DEF Expects, Convert
<1>4. adc_channel_index < ADC_NUM_CHANNELS => adc_channel_index \in Channel
  BY Parameters DEF IInv, TypeOK, Channel
<1>5. 0 \in Channel
  BY Parameters DEF Channel
<1>6. Tail(<<<<0, TRUE>>>>) = <<>>
  BY OneConversion
<1>7. RoundInv'
  BY <1>3, <1>4, <1>5, <1>6 DEF IInv, RoundInv, Expects, Stored, Convert, round
<1>8. QueueInv'
  BY DEF IInv, QueueInv, Sampling, Convert, round, timerVars, counter, data
<1>. QED
  BY <1>2, <1>7, <1>8 DEF IInv, CopyInv, WholeRounds, Convert, round, data

\* adc_complete_isr stores the sample of the current channel (AdcCompleteIsr).
LEMMA AdcCompleteIsrInv == ASSUME IInv, AdcCompleteIsr PROVE IInv'
<1>. DEFINE c == adc_channel_index
<1>1. /\ c \in Channel /\ c + 1 \in 0 .. ADC_NUM_CHANNELS
      /\ conversions = <<>> /\ ADC = <<c, TRUE>>
      /\ ~ adc_sample_ready /\ Stored(c)
      /\ pc \notin {"start", "clear", "enable", "copy"}
  <2>1. ADCIE /\ ADCIF
    BY DEF AdcCompleteIsr
  <2>2. /\ c < ADC_NUM_CHANNELS /\ Expects(c) /\ Stored(c) /\ ~ adc_sample_ready
        /\ pc \notin {"start", "clear", "enable"}
    BY <2>1 DEF IInv, RoundInv
  <2>3. pc # "copy"
    BY <2>2 DEF IInv, CopyInv
  <2>4. conversions = <<>> /\ ADC = <<c, TRUE>>
    BY <2>1, <2>2 DEF Expects
  <2>5. c \in Channel /\ c + 1 \in 0 .. ADC_NUM_CHANNELS
    BY <2>2, Parameters DEF IInv, TypeOK, Channel
  <2>. QED
    BY <2>2, <2>3, <2>4, <2>5
<1>2. c' = c + 1 /\ adc_buffer' = [adc_buffer EXCEPT ![c] = <<c, TRUE>>] /\ ~ ADCIF'
  BY <1>1 DEF AdcCompleteIsr
<1>3. Stored(c)'
  <2>1. adc_buffer \in [Channel -> Sample \cup {NoSample}]
    BY DEF IInv, TypeOK
  <2>2. ASSUME NEW d \in Channel, d < c + 1 PROVE adc_buffer'[d] = <<d, TRUE>>
    <3>1. d = c \/ d < c
      BY <1>1, <2>2 DEF Channel
    <3>. QED
      BY <1>1, <1>2, <2>1, <3>1 DEF Stored
  <2>. QED
    BY <1>2, <2>2 DEF Stored
<1>4. CASE c + 1 >= ADC_NUM_CHANNELS
  <2>1. adc_sample_ready' /\ ~ ADCIE' /\ conversions' = <<>>
    BY <1>1, <1>2, <1>4 DEF AdcCompleteIsr
  <2>2. Stored(ADC_NUM_CHANNELS)'
    <3>1. \A d \in Channel : d < c'
      BY <1>1, <1>2, <1>4, Parameters DEF Channel
    <3>. QED
      BY <1>3, <3>1 DEF Stored
  <2>3. RoundInv'
    BY <1>1, <1>2, <2>1, <2>2 DEF RoundInv, AdcCompleteIsr, data
  <2>4. TypeOK'
    BY <1>1, <1>2, <2>1 DEF IInv, TypeOK, AdcCompleteIsr, timerVars, counter, rtc, data
  <2>. QED
    BY <1>1, <1>2, <2>1, <2>3, <2>4
       DEF IInv, QueueInv, Sampling, CopyInv, WholeRounds, AdcCompleteIsr, timerVars, counter, data
<1>5. CASE ~ (c + 1 >= ADC_NUM_CHANNELS)
  <2>1. c + 1 \in Channel
    BY <1>1, <1>5, Parameters DEF Channel
  <2>2. conversions' = <<<<c + 1, TRUE>>>>
    BY OneConversion, <1>1, <1>2, <1>5 DEF AdcCompleteIsr, StartConversion
  <2>3. ADCIE' /\ ~ adc_sample_ready'
    BY <1>1, <1>2, <1>5 DEF AdcCompleteIsr
  <2>4. RoundInv'
    <3>1. Expects(c)' /\ (c < ADC_NUM_CHANNELS)'
      BY <1>2, <2>1, <2>2, Parameters DEF Expects, Channel
    <3>2. pc' = pc
      BY DEF AdcCompleteIsr
    <3>. QED
      BY <1>1, <1>3, <2>3, <3>1, <3>2 DEF RoundInv
  <2>5. <<c + 1, TRUE>> \in Sample
    BY <2>1 DEF Sample
  <2>6. TypeOK'
    <3>1. conversions' \in Seq(Sample)
      BY <2>2, <2>5
    <3>2. adc_buffer' \in [Channel -> Sample \cup {NoSample}]
      BY <1>1, <1>2 DEF IInv, TypeOK, Sample
    <3>. QED
      BY <1>1, <1>2, <2>3, <3>1, <3>2
         DEF IInv, TypeOK, AdcCompleteIsr, timerVars, counter, rtc, data
  <2>7. QueueInv'
    BY <1>1, <1>2 DEF IInv, QueueInv, Sampling, AdcCompleteIsr, timerVars, counter, data
  <2>. QED
    BY <1>1, <2>4, <2>6, <2>7
       DEF IInv, CopyInv, WholeRounds, AdcCompleteIsr, timerVars, counter, data
<1>. QED
  BY <1>4, <1>5

\* adc_init and the rest of the start (Initialize).
LEMMA InitializeInv == ASSUME IInv, Initialize PROVE IInv'
<1>1. TypeOK'
  BY DEF IInv, TypeOK, Initialize, Goto, timerVars, counter, rtc, data
<1>. QED
  BY <1>1 DEF IInv, RoundInv, QueueInv, Sampling, CopyInv, WholeRounds, Initialize, Goto,
     timerVars, counter, rtc, data

\* A turn in which the 100 ms are not over (NotDue), and the other inputs.
LEMMA QuietInv == ASSUME IInv, NotDue \/ OtherInput PROVE IInv'
<1>1. TypeOK'
  BY DEF IInv, TypeOK, NotDue, OtherInput, Goto, timerVars, counter, rtc, adcVars,
     round, data
<1>2. RoundInv'
  BY RoundKept DEF IInv, NotDue, OtherInput, Goto
<1>3. QueueInv'
  BY DEF IInv, QueueInv, Sampling, NotDue, OtherInput, Goto, timerVars, counter,
     adcVars, round,
     data
<1>4. CopyInv' /\ WholeRounds'
  BY DEF IInv, CopyInv, WholeRounds, NotDue, OtherInput, Goto, data
<1>. QED
  BY <1>1, <1>2, <1>3, <1>4 DEF IInv

\* The 100 ms are over: the last round is too, if rounds are short (Due).
LEMMA DueInv == ASSUME IInv, Due PROVE IInv'
<1>1. TypeOK'
  BY Parameters DEF IInv, TypeOK, Due, Goto, counter, rtc, adcVars, round, data
<1>2. RoundInv'
  BY RoundKept DEF IInv, Due, Goto
<1>3. QueueInv'
  BY Parameters DEF IInv, QueueInv, Sampling, Due, Goto, counter, adcVars, round, data
<1>. QED
  BY <1>1, <1>2, <1>3 DEF IInv, CopyInv, WholeRounds, Due, Goto, adcVars, round, data

\* The samples are not ready, and the copy is left out (NotReady).
LEMMA NotReadyInv == ASSUME IInv, NotReady PROVE IInv'
<1>1. TypeOK'
  BY DEF IInv, TypeOK, NotReady, Goto, timerVars, counter, rtc, adcVars, round, data
<1>2. RoundInv'
  BY RoundKept DEF IInv, NotReady, Goto
<1>. QED
  BY <1>1, <1>2
     DEF IInv, QueueInv, Sampling, CopyInv, WholeRounds, NotReady, Goto, timerVars,
     counter, adcVars, round, data

\* The samples are ready, and the copy begins (Ready).
LEMMA ReadyInv == ASSUME IInv, Ready PROVE IInv'
<1>1. TypeOK'
  BY Parameters
     DEF IInv, TypeOK, Ready, Goto, timerVars, counter, rtc, adcVars, round, data, Channel
<1>2. RoundInv' /\ QueueInv'
  BY RoundKept
     DEF IInv, QueueInv, Sampling, Ready, Goto, timerVars, counter, adcVars, round
<1>3. \A c \in Channel : ~ (c < 0)
  BY Parameters DEF Channel
<1>4. CopyInv' /\ WholeRounds'
  BY <1>3 DEF CopyInv, WholeRounds, Ready, Goto, adcVars, round
<1>. QED
  BY <1>1, <1>2, <1>4 DEF IInv

\* memcpyx copies a sample, or the last one (CopySample).
LEMMA CopySampleInv == ASSUME IInv, CopySample PROVE IInv'
<1>1. /\ adc_sample_ready /\ adc_buffer[copied] = <<copied, TRUE>> /\ copied \in Channel
      /\ \A c \in Channel : c < copied => telemetry[c] = <<c, TRUE>>
  <2>1. copied \in Channel /\ copied < ADC_NUM_CHANNELS
    BY Parameters DEF IInv, TypeOK, Channel
  <2>2. adc_sample_ready /\ \A c \in Channel : c < copied => telemetry[c] = <<c, TRUE>>
    BY DEF IInv, CopyInv, CopySample
  <2>3. Stored(ADC_NUM_CHANNELS)
    BY <2>2 DEF IInv, RoundInv
  <2>. QED
    BY <2>1, <2>2, <2>3 DEF Stored
<1>2. /\ telemetry' = [telemetry EXCEPT ![copied] = <<copied, TRUE>>]
      /\ <<copied, TRUE>> \in Sample
  BY <1>1 DEF CopySample, Sample
<1>3. ASSUME NEW c \in Channel, c < copied + 1 PROVE telemetry'[c] = <<c, TRUE>>
  <2>1. c = copied \/ c < copied
    BY <1>1, <1>3 DEF Channel
  <2>. QED
    BY <1>1, <1>2, <2>1 DEF IInv, TypeOK
<1>4. telemetry' \in [Channel -> Sample \cup {NoSample}]
  BY <1>1, <1>2 DEF IInv, TypeOK
<1>5. copied' \in Channel /\ pc' \in {"copy", "stop"}
  BY <1>1, Parameters DEF CopySample, Channel
<1>6. TypeOK'
  BY <1>4, <1>5 DEF IInv, TypeOK, CopySample, timerVars, counter, rtc, adcVars, round
<1>7. RoundInv' /\ QueueInv'
  BY <1>5, RoundKept
     DEF IInv, QueueInv, Sampling, CopySample, timerVars, counter, adcVars, round
<1>8. CopyInv' /\ WholeRounds'
  <2>1. CASE copied + 1 = ADC_NUM_CHANNELS
    <3>1. \A c \in Channel : c < copied + 1
      BY <2>1, Parameters DEF Channel
    <3>. QED
      BY <1>3, <2>1, <3>1 DEF CopyInv, WholeRounds, CopySample
  <2>2. CASE copied + 1 # ADC_NUM_CHANNELS
    <3>1. pc' = "copy" /\ copied' = copied + 1 /\ adc_sample_ready'
      BY <1>1, <2>2 DEF CopySample, adcVars, round
    <3>. QED
      BY <1>3, <3>1 DEF CopyInv, WholeRounds
  <2>. QED
    BY <2>1, <2>2
<1>. QED
  BY <1>6, <1>7, <1>8 DEF IInv

\* adc_start_sample stops the round that may be under way (StopRound).
LEMMA StopRoundInv == ASSUME IInv, StopRound PROVE IInv'
<1>. 0 \in 0 .. ADC_NUM_CHANNELS
  BY Parameters
<1>1. TypeOK'
  BY DEF IInv, TypeOK, StopRound, Goto, timerVars, counter, rtc, data
<1>. QED
  BY <1>1 DEF IInv, RoundInv, QueueInv, Sampling, CopyInv, WholeRounds, StopRound,
     Goto, timerVars,
     counter, rtc, data

\* The first conversion of a round replaces the last of the round before it,
\* if there is one (StartRound).
LEMMA StartRoundInv == ASSUME IInv, StartRound PROVE IInv'
<1>1. ~ ADCIE /\ ~ adc_sample_ready /\ adc_channel_index = 0
  BY DEF IInv, RoundInv, StartRound, Goto
<1>2. conversions' = <<<<0, TRUE>>>>
  <2>1. CASE queues
    <3>1. conversions = <<>>
      BY <2>1 DEF IInv, QueueInv, StartRound, Goto
    <3>2. [i \in DOMAIN conversions |-> Old(conversions[i])] = <<>>
      BY <3>1
    <3>. QED
      BY OneConversion, <2>1, <3>2 DEF StartRound, StartConversion
  <2>2. CASE ~ queues
    BY <2>2 DEF StartRound, StartConversion
  <2>. QED
    BY <2>1, <2>2 DEF IInv, TypeOK
<1>3. <<<<0, TRUE>>>> \in Seq(Sample)
  <2>1. <<0, TRUE>> \in Sample
    BY Parameters DEF Sample, Channel
  <2>. QED
    BY <2>1
<1>4. /\ ADC' \in Sample \cup {NoSample}
      /\ adc_buffer' \in [Channel -> Sample \cup {NoSample}]
  BY OldTypes DEF IInv, TypeOK, StartRound
<1>5. TypeOK'
  BY <1>2, <1>3, <1>4
     DEF IInv, TypeOK, StartRound, Goto, timerVars, counter, rtc, round, data
<1>6. RoundInv' /\ QueueInv'
  BY <1>1, <1>2 DEF IInv, RoundInv, QueueInv, Sampling, StartRound, Goto, timerVars,
     counter, round,
     data
<1>. QED
  BY <1>5, <1>6 DEF IInv, CopyInv, WholeRounds, StartRound, Goto, data

\* The flag is forgotten: if the first conversion of the round raised it, the
\* round stands still, but nothing wrong can come in (ClearFlag).
LEMMA ClearFlagInv == ASSUME IInv, ClearFlag PROVE IInv'
<1>1. TypeOK'
  BY DEF IInv, TypeOK, ClearFlag, Goto, timerVars, counter, rtc, round, data
<1>. QED
  BY <1>1 DEF IInv, RoundInv, Expects, QueueInv, Sampling, CopyInv, WholeRounds,
     ClearFlag, Goto,
     timerVars, counter, rtc, round, data

\* The interrupt is enabled with channel 0 expected (EnableRound).
LEMMA EnableRoundInv == ASSUME IInv, EnableRound PROVE IInv'
<1>1. TypeOK'
  BY DEF IInv, TypeOK, EnableRound, Goto, timerVars, counter, rtc, data
<1>2. Expects(0) /\ ~ adc_sample_ready /\ adc_channel_index = 0
  BY DEF IInv, RoundInv, EnableRound, Goto
<1>3. Expects(0)' /\ Stored(0)'
  <2>1. \A c \in Channel : ~ (c < 0)
    BY Parameters DEF Channel
  <2>2. Stored(0)'
    BY <2>1 DEF Stored
  <2>. QED
    BY <1>2, <2>2 DEF Expects, EnableRound
<1>4. RoundInv'
  BY <1>2, <1>3, Parameters DEF RoundInv, EnableRound, Goto
<1>. QED
  BY <1>1, <1>4
     DEF IInv, QueueInv, Sampling, CopyInv, WholeRounds, EnableRound, Goto, timerVars,
     counter, rtc, data

\* The commands that set and read the time leave the round alone (SetTime,
\* GetTime, ReadSeconds, ReadMilliseconds, ReadCounter, ReplyTime).
LEMMA TimeCommandInv ==
  ASSUME IInv,
         \/ GetTime \/ ReadSeconds \/ ReadMilliseconds \/ ReadCounter \/ ReplyTime
         \/ \E s \in 0 .. SECONDS - 1, ms \in 0 .. MS_PER_SECOND - 1 : SetTime(s, ms)
  PROVE  IInv'
<1>1. ASSUME NEW s \in 0 .. SECONDS - 1, NEW ms \in 0 .. MS_PER_SECOND - 1, SetTime(s, ms)
      PROVE  IInv'
  <2>1. clock' \in 0 .. Day - 1
    BY <1>1, DayLength DEF SetTime
  <2>2. TypeOK'
    BY <1>1, <2>1 DEF IInv, TypeOK, SetTime, Goto, counter, adcVars, round, data
  <2>. QED
    BY <1>1, <2>2, RoundKept
       DEF IInv, QueueInv, Sampling, CopyInv, WholeRounds, SetTime, Goto,
       counter, adcVars, round, data
<1>2. CASE GetTime
  <2>1. TypeOK'
    BY <1>2 DEF IInv, TypeOK, GetTime, Goto, counter, rtc, adcVars, round, data
  <2>. QED
    BY <1>2, <2>1, RoundKept
       DEF IInv, QueueInv, Sampling, CopyInv, WholeRounds, GetTime, Goto,
       counter, adcVars, round, data
<1>3. CASE ReadSeconds \/ ReadMilliseconds \/ ReadCounter \/ ReplyTime
  <2>1. time' \in [seconds : 0 .. SECONDS - 1, milliseconds : 0 .. MS_PER_SECOND - 1,
                    fine : 0 .. T1_PERIOD - 1]
    <3>1. 0 \in 0 .. SECONDS - 1 /\ 0 \in 0 .. MS_PER_SECOND - 1 /\ 0 \in 0 .. T1_PERIOD - 1
      BY Parameters
    <3>2. CASE ReplyTime
      BY <3>1, <3>2 DEF ReplyTime, Zero
    <3>3. CASE ReadSeconds \/ ReadMilliseconds \/ ReadCounter
      BY <3>3 DEF IInv, TypeOK, ReadSeconds, ReadMilliseconds, ReadCounter
    <3>. QED
      BY <1>3, <3>2, <3>3
  <2>2. /\ UNCHANGED <<timer_count_ms, counter, rtc, clock, adcVars, telemetry, copied, queues>>
        /\ T1IE' \in BOOLEAN
        /\ pc' \in {"time_milliseconds", "time_fine", "time_read", "events"}
        /\ pc \in {"time_seconds", "time_milliseconds", "time_fine", "time_read"}
    BY <1>3 DEF IInv, TypeOK, ReadSeconds, ReadMilliseconds, ReadCounter, ReplyTime,
       Goto, timerVars
  <2>3. TypeOK'
    BY <2>1, <2>2 DEF IInv, TypeOK, counter, rtc, adcVars, round
  <2>. QED
    BY <2>2, <2>3, RoundKept
       DEF IInv, QueueInv, Sampling, CopyInv, WholeRounds, counter, adcVars,
       round
<1>. QED
  BY <1>1, <1>2, <1>3

\* Every step keeps the invariant.
LEMMA NextInv == IInv /\ [Next]_vars => IInv'
<1>. SUFFICES ASSUME IInv, [Next]_vars PROVE IInv'
  OBVIOUS
<1>1. CASE UNCHANGED vars
  <2>1. TypeOK'
    BY <1>1 DEF IInv, TypeOK, vars, timerVars, counter, rtc, adcVars, round, data
  <2>2. \A c : (Expects(c)' <=> Expects(c)) /\ (Stored(c)' <=> Stored(c))
    BY <1>1 DEF Expects, Stored, vars, adcVars
  <2>3. RoundInv'
    BY <1>1, <2>2 DEF IInv, RoundInv, vars, adcVars, round
  <2>. QED
    BY <1>1, <2>1, <2>3
       DEF IInv, QueueInv, Sampling, CopyInv, WholeRounds, vars, timerVars,
       counter, adcVars, round, data
<1>2. CASE Tick \/ T1Isr \/ Convert \/ AdcCompleteIsr
  BY <1>2, TickInv, T1IsrInv, ConvertInv, AdcCompleteIsrInv
<1>3. CASE MainLoop
  BY <1>3, InitializeInv, QuietInv, DueInv, NotReadyInv, ReadyInv, CopySampleInv,
     StopRoundInv,
     StartRoundInv, ClearFlagInv, EnableRoundInv, TimeCommandInv DEF MainLoop
<1>4. CASE Command
  BY <1>4, TimeCommandInv DEF Command
<1>. QED
  BY <1>1, <1>2, <1>3, <1>4 DEF Next

-----------------------------------------------------------------------------
\* IInv is an invariant of the main loop and its interrupts.
THEOREM LoopInvariant == Spec => []IInv
BY InitInv, NextInv, PTL DEF Spec

\* Counters, indexes and times keep to their ranges: the ADC's interrupt never
\* stores behind the last channel (adc.c:72-91).
THEOREM TypeCorrect == Spec => []TypeOK
<1>1. IInv => TypeOK
  BY DEF IInv
<1>. QED
  BY <1>1, LoopInvariant, PTL

\* The telemetry never mixes rounds or channels, for any number of channels
\* and whether or not the ADC finishes a conversion it is told to replace.
THEOREM TelemetryIsWhole == Spec => []WholeRounds
<1>1. IInv => WholeRounds
  BY DEF IInv
<1>. QED
  BY <1>1, LoopInvariant, PTL

-----------------------------------------------------------------------------
\* Remainders are unique.
LEMMA Remainder ==
  ASSUME NEW n \in Nat \ {0}, NEW q \in Int, NEW r \in 0 .. n - 1
  PROVE  (q * n + r) % n = r
<1>. DEFINE x == q * n + r
<1>. DEFINE a == x % n
            b == x \div n
<1>1. x = b * n + a /\ a \in 0 .. n - 1 /\ b \in Int
  BY SMT
<1>. HIDE DEF a, b
<1>2. (b - q) * n = r - a
  BY <1>1, SMT
<1>3. b = q
  BY <1>1, <1>2, SMT
<1>. QED
  BY <1>1, <1>2, <1>3, SMT DEF a

\* A number that is not negative is no less than its remainder.
LEMMA RemainderBelow ==
  ASSUME NEW n \in Nat \ {0}, NEW y \in Nat
  PROVE  \E p \in Int, s \in 0 .. n - 1 : y = p * n + s /\ s <= y
<1>. DEFINE s == y % n
            p == y \div n
<1>1. y = p * n + s /\ s \in 0 .. n - 1 /\ p \in Int
  BY SMT
<1>. HIDE DEF s, p
<1>2. CASE p >= 0
  <2>1. p * n >= 0
    BY <1>1, <1>2, SMT
  <2>2. s <= y
    BY <1>1, <2>1, SMT
  <2>. QED
    BY <1>1, <2>2
<1>3. CASE p < 0
  <2>. DEFINE g == -1 - p
              m == g * n
  <2>1. g \in Nat /\ p = -1 - g
    BY <1>1, <1>3, SMT
  <2>. HIDE DEF g
  <2>2. p * n = - n - m /\ m \in Nat
    BY <2>1, SMT
  <2>. HIDE DEF m
  <2>3. y = - n - m + s
    BY <1>1, <2>2
  <2>. QED
    BY <1>1, <2>2, <2>3, SMT
<1>. QED
  BY <1>1, <1>2, <1>3

\* A whole day more or less leaves the remainder, and k more adds at most k to it.
LEMMA Modulo ==
  ASSUME NEW n \in Nat \ {0}, NEW x \in Int
  PROVE  /\ x % n \in 0 .. n - 1
         /\ (x + n) % n = x % n
         /\ (x - n) % n = x % n
         /\ x \in 0 .. n - 1 => x % n = x
         /\ \A k \in Nat : (x + k) % n <= (x % n) + k
<1>. DEFINE r == x % n
            q == x \div n
<1>1. x = q * n + r /\ r \in 0 .. n - 1 /\ q \in Int
  BY SMT
<1>. HIDE DEF r, q
<1>2. (q + 1) * n = q * n + n /\ (q - 1) * n = q * n - n /\ 0 * n = 0
  BY <1>1, SMT
<1>3. (x + n) % n = r
  <2>1. x + n = (q + 1) * n + r
    BY <1>1, <1>2, SMT
  <2>2. q + 1 \in Int
    BY <1>1
  <2>3. ((q + 1) * n + r) % n = r
    BY <1>1, <2>2, Remainder
  <2>. QED
    BY <2>1, <2>3
<1>4. (x - n) % n = r
  <2>1. x - n = (q - 1) * n + r
    BY <1>1, <1>2, SMT
  <2>2. q - 1 \in Int
    BY <1>1
  <2>3. ((q - 1) * n + r) % n = r
    BY <1>1, <2>2, Remainder
  <2>. QED
    BY <2>1, <2>3
<1>5. ASSUME x \in 0 .. n - 1 PROVE x % n = x
  <2>1. (0 * n + x) % n = x
    BY <1>5, Remainder
  <2>2. 0 * n + x = x
    BY <1>2, SMT
  <2>. QED
    BY <2>1, <2>2
<1>6. ASSUME NEW k \in Nat PROVE (x + k) % n <= r + k
  <2>. DEFINE y == r + k
  <2>1. y \in Nat
    BY <1>1
  <2>. HIDE DEF y
  <2>2. PICK p \in Int, s \in 0 .. n - 1 : y = p * n + s /\ s <= y
    BY <2>1, RemainderBelow
  <2>3. (q + p) * n = q * n + p * n /\ q + p \in Int
    BY <1>1, SMT
  <2>4. x + k = q * n + y
    BY <1>1, SMT DEF y
  <2>5. x + k = (q + p) * n + s
    BY <1>1, <2>2, <2>3, <2>4, SMT
  <2>6. ((q + p) * n + s) % n = s
    BY <2>3, Remainder
  <2>. QED
    BY <2>2, <2>5, <2>6 DEF y
<1>. QED
  BY <1>1, <1>3, <1>4, <1>5, <1>6 DEF r
-----------------------------------------------------------------------------
\* The numbers the clock is made of.
LEMMA ClockTypes ==
  ASSUME TypeOK
  PROVE  /\ rtc_seconds \in 0 .. SECONDS - 1 /\ rtc_milliseconds \in 0 .. MS_PER_SECOND - 1
         /\ T1CNT \in 0 .. T1_PERIOD - 1 /\ clock \in 0 .. Day - 1
         /\ Shown \in Int /\ Pending \in {0, T1_PERIOD}
<1>1. /\ rtc_seconds \in 0 .. SECONDS - 1 /\ rtc_milliseconds \in 0 .. MS_PER_SECOND - 1
      /\ T1CNT \in 0 .. T1_PERIOD - 1 /\ clock \in 0 .. Day - 1
  BY DEF TypeOK
<1>2. (rtc_seconds * MS_PER_SECOND + rtc_milliseconds) * T1_PERIOD + T1CNT \in Int
  BY <1>1, Parameters, SMT
<1>. QED
  BY <1>1, <1>2 DEF Shown, Ticks, Pending

\* A tick moves both times on (Tick).
LEMMA TickClock == ASSUME TypeOK, ClockInv, Tick PROVE ClockInv'
<1>. DEFINE H == (rtc_seconds * MS_PER_SECOND + rtc_milliseconds) * T1_PERIOD
            x == Shown + Pending - clock
<1>1. H \in Int /\ Shown = H + T1CNT /\ T1CNT \in Nat
  <2>1. H \in Int
    BY ClockTypes, Parameters, SMT
  <2>. QED
    BY <2>1, ClockTypes DEF Shown, Ticks
<1>2. UNCHANGED <<rtc_seconds, rtc_milliseconds>>
  BY DEF Tick, rtc
<1>3. Shown' = H + T1CNT'
  BY <1>2 DEF Shown, Ticks
<1>. HIDE DEF H
<1>4. T1CNT' + Pending' = T1CNT + Pending + 1 /\ T1CNT' \in Int /\ Pending' \in Int
  <2>1. T1CNT \in 0 .. T1_PERIOD - 1 /\ T1_PERIOD \in Nat \ {0}
    BY ClockTypes, Parameters
  <2>2. T1CNT' = After(T1CNT, T1_PERIOD) /\ CH0IF' = (CH0IF \/ T1CNT' = 0)
    BY DEF Tick
  <2>3. CASE T1CNT + 1 < T1_PERIOD
    <3>1. T1CNT' = T1CNT + 1 /\ T1CNT + 1 # 0
      BY <2>1, <2>2, <2>3 DEF After
    <3>2. Pending' = Pending
      BY <2>2, <3>1 DEF Pending
    <3>. QED
      BY <2>1, <3>1, <3>2 DEF Pending
  <2>4. CASE ~ (T1CNT + 1 < T1_PERIOD)
    <3>1. T1CNT = T1_PERIOD - 1 /\ T1CNT' = 0
      BY <2>1, <2>2, <2>4 DEF After
    <3>2. Pending = 0 /\ Pending' = T1_PERIOD
      BY <2>2, <3>1 DEF Pending, Tick
    <3>. QED
      BY <2>1, <3>1, <3>2
  <2>. QED
    BY <2>3, <2>4
<1>5. clock' = clock + 1 \/ clock' = clock + 1 - Day
  BY ClockTypes, DayLength DEF Tick, After
<1>6. x \in Int /\ clock \in Int /\ Day \in Int
  BY ClockTypes, DayLength, Parameters, SMT
<1>7. (Shown + Pending - clock)' \in {x, x + Day}
  <2>. DEFINE a == T1CNT'
              b == Pending'
              d == clock'
  <2>1. a + b = T1CNT + Pending + 1 /\ a \in Int /\ b \in Int
    BY <1>4
  <2>2. d = clock + 1 \/ d = clock + 1 - Day
    BY <1>5
  <2>. HIDE DEF a, b, d
  <2>3. Pending \in Int
    BY ClockTypes, Parameters
  <2>4. (H + a) + b - d \in {H + T1CNT + Pending - clock, H + T1CNT + Pending - clock + Day}
    BY <1>1, <1>6, <2>1, <2>2, <2>3, SMT
  <2>. QED
    BY <1>1, <1>3, <2>4 DEF a, b, d
<1>. HIDE DEF x
<1>8. (Shown + Pending - clock)' % Day = x % Day
  BY <1>6, <1>7, Modulo, DayLength
<1>. QED
  BY <1>8 DEF ClockInv, x

\* t1_isr moves the clock on by the millisecond its flag stood for, and over
\* the end of the day (T1Isr).
LEMMA T1IsrClock == ASSUME TypeOK, ClockInv, T1Isr PROVE ClockInv'
<1>. DEFINE x == Shown + Pending - clock
            M == MS_PER_SECOND
            P == T1_PERIOD
            s == rtc_seconds
            ms == rtc_milliseconds
            S == rtc_seconds'
            MS == rtc_milliseconds'
<1>0. /\ M \in Nat \ {0} /\ P \in Nat \ {0} /\ SECONDS \in Nat \ {0}
      /\ s \in 0 .. SECONDS - 1 /\ ms \in 0 .. M - 1 /\ T1CNT \in Int /\ clock \in Int
  BY ClockTypes, Parameters
<1>1. \/ MS = ms + 1 /\ S = s
      \/ MS = 0 /\ ms = M - 1 /\ S = s + 1
      \/ MS = 0 /\ ms = M - 1 /\ S = 0 /\ s = SECONDS - 1
  <2>1. MS = After(ms, M) /\ S = IF MS = 0 THEN After(s, SECONDS) ELSE s
    BY DEF T1Isr, CountMillisecond
  <2>2. CASE ms + 1 < M
    BY <1>0, <2>1, <2>2 DEF After
  <2>3. CASE ~ (ms + 1 < M)
    BY <1>0, <2>1, <2>3 DEF After
  <2>. QED
    BY <2>2, <2>3
<1>2. /\ Pending = P /\ Pending' = 0 /\ T1CNT' = T1CNT /\ clock' = clock
      /\ Shown = (s * M + ms) * P + T1CNT /\ Shown' = (S * M + MS) * P + T1CNT
  BY DEF T1Isr, CountMillisecond, Pending, Shown, Ticks
<1>3. Day = SECONDS * M * P
  BY DEF Day
<1>. HIDE DEF M, P, s, ms, S, MS
<1>. DEFINE A == (s * M + ms) * P
            B == (S * M + MS) * P
<1>4. A \in Int /\ B \in {A + P, A + P - Day} /\ B \in Int
  <2>. DEFINE k == s * M
  <2>0. k \in Int
    BY <1>0, SMT
  <2>1. CASE MS = ms + 1 /\ S = s
    <3>. HIDE DEF k
    <3>1. (k + (ms + 1)) * P = (k + ms) * P + P /\ (k + ms) * P \in Int
      BY <1>0, <2>0, SMT
    <3>. QED
      BY <1>0, <2>1, <3>1 DEF k
  <2>2. CASE MS = 0 /\ ms = M - 1 /\ S = s + 1
    <3>1. (s + 1) * M + 0 = k + (M - 1) + 1
      BY <1>0, SMT
    <3>. HIDE DEF k
    <3>2. (k + (M - 1) + 1) * P = (k + (M - 1)) * P + P /\ (k + (M - 1)) * P \in Int
      BY <1>0, <2>0, SMT
    <3>. QED
      BY <1>0, <2>2, <3>1, <3>2 DEF k
  <2>3. CASE MS = 0 /\ ms = M - 1 /\ S = 0 /\ s = SECONDS - 1
    <3>1. 0 * M + 0 = 0 /\ SECONDS * M = k + (M - 1) + 1
      BY <1>0, <2>3, SMT
    <3>. HIDE DEF k
    <3>2. /\ (k + (M - 1) + 1) * P = (k + (M - 1)) * P + P
          /\ (k + (M - 1)) * P \in Int /\ 0 * P = 0
      BY <1>0, <2>0, SMT
    <3>3. Day = (k + (M - 1)) * P + P
      BY <1>3, <3>1, <3>2
    <3>. DEFINE w == (k + (M - 1)) * P
    <3>4. w \in Int /\ Day = w + P /\ 0 = w + P - Day
      <4>1. w \in Int /\ Day = w + P
        BY <3>2, <3>3
      <4>. HIDE DEF w
      <4>. QED
        BY <1>0, <4>1
    <3>5. A = w /\ B = 0
      BY <2>3, <3>1, <3>2 DEF k
    <3>. QED
      BY <3>4, <3>5
  <2>. QED
    BY <1>1, <2>1, <2>2, <2>3
<1>. HIDE DEF A, B
<1>5. x = A + T1CNT + P - clock /\ (Shown + Pending - clock)' = B + T1CNT + 0 - clock
  BY <1>2 DEF A, B
<1>6. Day \in Int
  BY DayLength
<1>7. x \in Int /\ (Shown + Pending - clock)' \in {x, x - Day}
  <2>. DEFINE y == (Shown + Pending - clock)'
  <2>1. y = B + T1CNT + 0 - clock
    BY <1>5
  <2>. HIDE DEF x, y
  <2>2. x \in Int /\ y \in {x, x - Day}
    BY <1>0, <1>4, <1>5, <1>6, <2>1, SMT
  <2>. QED
    BY <2>2 DEF y
<1>. HIDE DEF x
<1>8. (Shown + Pending - clock)' % Day = x % Day
  BY <1>7, Modulo, DayLength
<1>9. x % Day < 2 * T1_PERIOD
  BY DEF ClockInv, x
<1>. QED
  BY <1>8, <1>9 DEF ClockInv

\* After the clock is set, the counter is as far ahead of it as it happens to
\* be (SetTime).
LEMMA SetTimeClock ==
  ASSUME TypeOK, NEW s \in 0 .. SECONDS - 1, NEW ms \in 0 .. MS_PER_SECOND - 1, SetTime(s, ms)
  PROVE  ClockInv'
<1>. DEFINE h == (s * MS_PER_SECOND + ms) * T1_PERIOD
<1>1. /\ rtc_seconds' = s /\ rtc_milliseconds' = ms /\ T1CNT' = T1CNT /\ CH0IF' = CH0IF
      /\ clock' = h + 0
  BY DEF SetTime, counter, Ticks
<1>2. Shown' = h + T1CNT /\ Pending' = Pending
  BY <1>1 DEF Shown, Ticks, Pending
<1>3. h \in Int
  BY Parameters, SMT
<1>. HIDE DEF h
<1>4. (Shown + Pending - clock)' = T1CNT + Pending /\ T1CNT + Pending \in 0 .. 2 * T1_PERIOD - 1
  <2>1. /\ h + T1CNT + Pending - (h + 0) = T1CNT + Pending
        /\ T1CNT + Pending \in 0 .. 2 * T1_PERIOD - 1
    BY <1>3, ClockTypes, Parameters, SMT
  <2>. QED
    BY <1>1, <1>2, <2>1
<1>5. (T1CNT + Pending) % Day < 2 * T1_PERIOD
  <2>. DEFINE y == T1CNT + Pending
  <2>1. y \in 0 .. 2 * T1_PERIOD - 1 /\ y \in Nat
    BY <1>4, Parameters
  <2>. HIDE DEF y
  <2>2. PICK p \in Int, r \in 0 .. Day - 1 : y = p * Day + r /\ r <= y
    BY <2>1, RemainderBelow, DayLength
  <2>3. y % Day = r
    BY <2>2, Remainder, DayLength
  <2>4. y % Day < 2 * T1_PERIOD
    BY <2>1, <2>2, <2>3, DayLength, Parameters, SMT
  <2>. QED
    BY <2>4 DEF y
<1>. QED
  BY <1>4, <1>5 DEF ClockInv

\* No other step moves the clock, the counter or its flag.
LEMMA StillClock ==
  ASSUME ClockInv, UNCHANGED <<T1CNT, CH0IF, rtc_seconds, rtc_milliseconds, clock>>
  PROVE  ClockInv'
<1>1. Shown' = Shown /\ Pending' = Pending
  BY DEF Shown, Ticks, Pending
<1>. QED
  BY <1>1 DEF ClockInv

\* Initially both times are zero.
LEMMA InitTime == Init => TimeInv
<1>. SUFFICES ASSUME Init PROVE TimeInv
  OBVIOUS
<1>1. Shown = 0 /\ Pending = 0 /\ clock = 0
  <2>1. (0 * MS_PER_SECOND + 0) * T1_PERIOD + 0 = 0
    BY Parameters, SMT
  <2>. QED
    BY <2>1 DEF Init, Shown, Ticks, Pending
<1>2. 0 % Day = 0
  BY Modulo, DayLength
<1>3. 0 + 0 - 0 = 0 /\ 0 < 2 * T1_PERIOD
  BY Parameters
<1>. QED
  BY <1>1, <1>2, <1>3 DEF TimeInv, ClockInv, LockInv, Init

\* The interrupt is held off from the moment the clock is about to be read.
LEMMA NextLock == TypeOK /\ LockInv /\ [Next]_vars => LockInv'
<1>. SUFFICES ASSUME TypeOK, LockInv, [Next]_vars PROVE LockInv'
  OBVIOUS
<1>1. CASE UNCHANGED vars
  BY <1>1 DEF LockInv, vars, timerVars, rtc, data
<1>2. CASE Tick \/ Convert \/ AdcCompleteIsr
  BY <1>2 DEF LockInv, Tick, Convert, AdcCompleteIsr, timerVars, rtc, data
<1>3. CASE T1Isr
  BY <1>3 DEF LockInv, T1Isr, CountMillisecond, data
<1>4. CASE GetTime \/ ReadSeconds \/ ReadMilliseconds
  BY <1>4 DEF LockInv, TypeOK, GetTime, ReadSeconds, ReadMilliseconds, Goto,
     timerVars, rtc, data
<1>5. CASE \/ ReadCounter \/ ReplyTime
           \/ \E s \in 0 .. SECONDS - 1, ms \in 0 .. MS_PER_SECOND - 1 : SetTime(s, ms)
  BY <1>5 DEF LockInv, ReadCounter, ReplyTime, SetTime, Goto
<1>6. CASE pc' \notin {"time_seconds", "time_milliseconds", "time_fine"}
  BY <1>6 DEF LockInv
<1>7. ASSUME \/ Initialize \/ NotDue \/ Due \/ NotReady \/ Ready \/ CopySample
             \/ StopRound \/ StartRound \/ ClearFlag \/ EnableRound \/ OtherInput
      PROVE  pc' \notin {"time_seconds", "time_milliseconds", "time_fine"}
  BY <1>7 DEF Initialize, NotDue, Due, NotReady, Ready, CopySample, StopRound, StartRound,
     ClearFlag, EnableRound, OtherInput, Goto
<1>. QED
  BY <1>1, <1>2, <1>3, <1>4, <1>5, <1>6, <1>7 DEF Next, MainLoop, Command

\* Every step keeps the relation between the clock and the ticks.
LEMMA NextClock == TypeOK /\ ClockInv /\ [Next]_vars => ClockInv'
<1>. SUFFICES ASSUME TypeOK, ClockInv, [Next]_vars PROVE ClockInv'
  OBVIOUS
<1>1. CASE Tick \/ T1Isr
  BY <1>1, TickClock, T1IsrClock
<1>2. CASE \E s \in 0 .. SECONDS - 1, ms \in 0 .. MS_PER_SECOND - 1 : SetTime(s, ms)
  BY <1>2, SetTimeClock
<1>3. CASE UNCHANGED vars \/ Convert \/ AdcCompleteIsr \/ MainLoop \/ GetTime
  <2>1. UNCHANGED <<T1CNT, CH0IF, rtc_seconds, rtc_milliseconds, clock>>
    BY <1>3 DEF vars, Convert, AdcCompleteIsr, MainLoop, Initialize, NotDue, Due,
       NotReady, Ready,
       CopySample, StopRound, StartRound, ClearFlag, EnableRound, OtherInput, GetTime,
       ReadSeconds, ReadMilliseconds, ReadCounter, ReplyTime, timerVars, counter, rtc
  <2>. QED
    BY <2>1, StillClock
<1>. QED
  BY <1>1, <1>2, <1>3 DEF Next, Command

-----------------------------------------------------------------------------
\* TimeInv, which says how far the clock and the ticks may be apart and that
\* the clock stands still while it is read, is an invariant.
LEMMA ClockInvariant == Spec => [](TypeOK /\ TimeInv)
<1>1. TypeOK /\ TimeInv /\ [Next]_vars => TimeInv'
  BY NextLock, NextClock DEF TimeInv
<1>. QED
  BY <1>1, InitTime, TypeCorrect, PTL DEF Spec

\* The time read is the one the clock and the counter show, less what the flag stands
\* for: at most a millisecond late and less than two ahead of the ticks since the
\* time was set, whatever the counter and its flag held when it was set, and however
\* the two ran on during the read (timers.c:56-68).
THEOREM TimeReadClose == Spec => TimeReadIsClose
<1>. DEFINE A == pc # "time_read" /\ pc' = "time_read" =>
                 (Ticks(time') - clock + T1_PERIOD) % Day \in 0 .. 3 * T1_PERIOD - 1
<1>1. ASSUME TypeOK, TimeInv, [Next]_vars, pc # "time_read", pc' = "time_read"
      PROVE  (Ticks(time') - clock + T1_PERIOD) % Day \in 0 .. 3 * T1_PERIOD - 1
  <2>. DEFINE x == Shown + Pending - clock
              k == T1_PERIOD - Pending
  <2>1. ReadCounter
    BY <1>1 DEF Next, Tick, T1Isr, CountMillisecond, Convert, AdcCompleteIsr,
       MainLoop, Command,
       Initialize, NotDue, Due, NotReady, Ready, CopySample, StopRound, StartRound, ClearFlag,
       EnableRound, OtherInput, SetTime, GetTime, ReadSeconds, ReadMilliseconds, ReplyTime,
       Goto, vars
  <2>2. time.seconds = rtc_seconds /\ time.milliseconds = rtc_milliseconds
    BY <1>1, <2>1 DEF TimeInv, LockInv, ReadCounter, Goto
  <2>3. /\ time'.seconds = rtc_seconds /\ time'.milliseconds = rtc_milliseconds
        /\ time'.fine = T1CNT
    BY <1>1, <2>1, <2>2 DEF TypeOK, ReadCounter
  <2>4. Ticks(time') = Shown
    BY <2>3 DEF Ticks, Shown
  <2>5. x \in Int /\ k \in Nat /\ k <= T1_PERIOD /\ Shown - clock + T1_PERIOD = x + k
    BY <1>1, ClockTypes, Parameters
  <2>6. x % Day < 2 * T1_PERIOD
    BY <1>1 DEF TimeInv, ClockInv
  <2>. HIDE DEF x, k
  <2>7. /\ (x + k) % Day <= (x % Day) + k
        /\ x % Day \in Int
        /\ (x + k) % Day \in Int /\ (x + k) % Day >= 0
    <3>1. x + k \in Int
      BY <2>5
    <3>2. x % Day \in 0 .. Day - 1 /\ (x + k) % Day \in 0 .. Day - 1
      BY <2>5, <3>1, Modulo, DayLength
    <3>3. (x + k) % Day <= (x % Day) + k
      BY <2>5, Modulo, DayLength
    <3>. QED
      BY <3>2, <3>3, DayLength
  <2>. DEFINE y == (x + k) % Day
              z == x % Day
  <2>8. y <= z + k /\ z \in Int /\ y \in Int /\ y >= 0 /\ z < 2 * T1_PERIOD
    BY <2>6, <2>7
  <2>. HIDE DEF y, z
  <2>9. y \in 0 .. 3 * T1_PERIOD - 1
    BY <2>5, <2>8, Parameters
  <2>. QED
    BY <2>4, <2>5, <2>9 DEF y
<1>2. TypeOK /\ TimeInv /\ [Next]_vars => [A]_vars
  BY <1>1
<1>. QED
  BY <1>2, ClockInvariant, PTL DEF Spec, TimeReadIsClose

-----------------------------------------------------------------------------
\* timers_add_time and timers_subtract_time on proper times.
LEMMA SumAndDifference ==
  ASSUME NEW t1 \in Time, NEW t2 \in Time
  PROVE  LET sum == AddTime(t1, t2)
         IN  /\ sum \in Time \/ sum.nanoseconds = BILLION
             /\ SubtractTime(sum, t2) = t1
<1>. DEFINE B == BILLION
            n1 == t1.nanoseconds
            n2 == t2.nanoseconds
            s1 == t1.seconds
            s2 == t2.seconds
            sum == AddTime(t1, t2)
<1>0. /\ B \in Nat \ {0}
      /\ SECONDS \in Nat \ {0}
      /\ n1 \in 0 .. B - 1 /\ n2 \in 0 .. B - 1
      /\ s1 \in 0 .. SECONDS - 1 /\ s2 \in 0 .. SECONDS - 1
      /\ t1 = [seconds |-> s1, nanoseconds |-> n1]
  <2>1. B \in Nat \ {0}
    BY LoopAssumption, SMT DEF BILLION
  <2>. QED
    BY <2>1, Parameters DEF Time
<1>1. PICK carry \in {0, 1} :
        /\ carry = 1 <=> n1 + n2 > B
        /\ sum = [seconds |-> (s1 + s2 + carry) % SECONDS, nanoseconds |-> n1 + n2 - carry * B]
  <2>1. CASE n1 + n2 > B
    <3>1. sum = [seconds |-> (s1 + s2 + 1) % SECONDS, nanoseconds |-> n1 + n2 - 1 * B]
      BY <1>0, <2>1 DEF AddTime
    <3>. QED
      BY <2>1, <3>1
  <2>2. CASE ~ (n1 + n2 > B)
    <3>1. sum = [seconds |-> (s1 + s2 + 0) % SECONDS, nanoseconds |-> n1 + n2 - 0 * B]
      BY <1>0, <2>2 DEF AddTime
    <3>. QED
      BY <2>2, <3>1
  <2>. QED
    BY <2>1, <2>2
<1>. HIDE DEF B, n1, n2, s1, s2
<1>. DEFINE s == s1 + s2 + carry
            n == n1 + n2 - carry * B
<1>2. /\ n \in 0 .. B
      /\ n < n2 <=> carry = 1
      /\ n - n2 + carry * B = n1
  <2>1. CASE carry = 1
    BY <1>0, <1>1, <2>1
  <2>2. CASE carry = 0
    BY <1>0, <1>1, <2>2
  <2>. QED
    BY <2>1, <2>2
<1>3. s \in Int /\ s % SECONDS \in 0 .. SECONDS - 1
  <2>1. s \in Int
    BY <1>0
  <2>. HIDE DEF s
  <2>. QED
    BY <1>0, <2>1, Modulo
<1>. HIDE DEF n
<1>4. sum \in Time \/ sum.nanoseconds = B
  <2>1. n \in 0 .. B - 1 \/ n = B
    BY <1>0, <1>2
  <2>2. sum = [seconds |-> s % SECONDS, nanoseconds |-> n]
    BY <1>1 DEF n
  <2>. HIDE DEF s, sum
  <2>. QED
    BY <1>3, <2>1, <2>2 DEF Time, B
<1>5. ((s % SECONDS) - s2 - carry) % SECONDS = s1
  <2>. DEFINE r == s % SECONDS
              k == s2 + carry
  <2>1. k \in Nat /\ k <= SECONDS /\ s = s1 + k
    BY <1>0, <1>2
  <2>. HIDE DEF s, k
  <2>2. r \in {s1 + k, s1 + k - SECONDS}
    <3>1. CASE s < SECONDS
      <4>1. s \in 0 .. SECONDS - 1
        BY <1>0, <1>3, <2>1, <3>1
      <4>2. s % SECONDS = s
        BY <1>0, <1>3, <4>1, Modulo
      <4>. QED
        BY <2>1, <4>2
    <3>2. CASE ~ (s < SECONDS)
      <4>1. s - SECONDS \in 0 .. SECONDS - 1
        BY <1>0, <2>1, <3>2
      <4>2. (s - SECONDS) % SECONDS = s - SECONDS /\ (s - SECONDS) % SECONDS = s % SECONDS
        <5>1. s - SECONDS \in Int
          BY <4>1
        <5>2. (s - SECONDS) % SECONDS = s - SECONDS
          BY <1>0, <4>1, <5>1, Modulo
        <5>3. (s - SECONDS) % SECONDS = s % SECONDS
          BY <1>0, <1>3, Modulo
        <5>. QED
          BY <5>2, <5>3
      <4>. QED
        BY <1>0, <1>3, <2>1, <4>2
    <3>. QED
      BY <3>1, <3>2
  <2>. HIDE DEF r
  <2>3. r - k \in {s1, s1 - SECONDS}
    BY <1>0, <2>1, <2>2
  <2>4. s1 % SECONDS = s1 /\ (s1 - SECONDS) % SECONDS = s1
    <3>1. s1 \in Int
      BY <1>0
    <3>2. s1 % SECONDS = s1
      BY <1>0, <3>1, Modulo
    <3>3. (s1 - SECONDS) % SECONDS = s1 % SECONDS
      BY <1>0, <3>1, Modulo
    <3>. QED
      BY <3>2, <3>3
  <2>5. r - s2 - carry = r - k
    <3>1. r \in Int
      BY <1>3 DEF r
    <3>. QED
      BY <1>0, <1>2, <3>1 DEF k
  <2>6. (r - s2 - carry) % SECONDS = s1
    BY <2>3, <2>4, <2>5
  <2>. QED
    BY <2>6 DEF r
<1>6. SubtractTime(sum, t2) = t1
  <2>. DEFINE r == s % SECONDS
              borrow == IF n < n2 THEN 1 ELSE 0
  <2>1. borrow = carry
    BY <1>2
  <2>2. SubtractTime(sum, t2) =
          [seconds |-> (r - s2 - borrow) % SECONDS, nanoseconds |-> n - n2 + borrow * B]
    BY <1>1 DEF SubtractTime, n2, s2, B, n
  <2>3. (r - s2 - carry) % SECONDS = s1
    BY <1>5
  <2>4. n - n2 + carry * B = n1
    BY <1>2
  <2>. HIDE DEF borrow, r
  <2>. QED
    BY <1>0, <2>1, <2>2, <2>3, <2>4
<1>. QED
  BY <1>4, <1>6 DEF B

\* What timers_get_time makes of the time it has read is a proper time.
LEMMA TimespecProper ==
  ASSUME TypeOK
  PROVE  Timespec(time) \in Time
<1>. DEFINE ms == time.milliseconds
            f == time.fine
            N == NS_PER_MS
            T == T1_TICK
            P == T1_PERIOD
            M == MS_PER_SECOND
<1>1. /\ time.seconds \in 0 .. SECONDS - 1 /\ ms \in 0 .. M - 1 /\ f \in 0 .. P - 1
      /\ N \in Nat \ {0} /\ T \in Nat \ {0} /\ P \in Nat \ {0} /\ M \in Nat \ {0}
      /\ P * T <= N
  BY LoopAssumption DEF TypeOK
<1>. HIDE DEF ms, f, N, T, P, M
<1>2. f * T \in Nat /\ f * T < N
  <2>. DEFINE g == P - 1 - f
  <2>1. g \in Nat /\ P = f + g + 1
    BY <1>1
  <2>. HIDE DEF g
  <2>2. f * T \in Nat /\ g * T \in Nat /\ P * T = f * T + g * T + T
    BY <1>1, <2>1, SMT
  <2>. QED
    BY <1>1, <2>2
<1>3. ms * N + f * T \in 0 .. M * N - 1
  BY <1>1, <1>2, DigitBelow
<1>4. BILLION = M * N
  BY DEF BILLION, M, N
<1>. QED
  BY <1>1, <1>3, <1>4 DEF Timespec, Time, ms, f, N, T

\* Any proper time can be added to the time read and subtracted again, and the sum
\* is a proper time unless its nanoseconds are exactly BILLION (timers.c:67, 88-104).
THEOREM TimesAddUpAlways == Spec => []TimesAddUp
<1>1. TypeOK => TimesAddUp
  BY TimespecProper, SumAndDifference DEF TimesAddUp
<1>. QED
  BY <1>1, TypeCorrect, PTL
=============================================================================
