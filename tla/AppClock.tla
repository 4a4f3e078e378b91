------------------------------ MODULE AppClock ------------------------------
(***************************************************************************)
(* The application's one-second clock and the automatic reboot:            *)
(* open-lst/radio/timers.c (the millisecond interrupt, timers_set_time)    *)
(* and schedule.c (schedule_init, schedule_postpone_reboot and the reboot  *)
(* check of schedule_handle_events).                                       *)
(*                                                                         *)
(* uptime has 32 bits and the processor 8: the main loop reads it byte by  *)
(* byte, lowest first, with the timer interrupt enabled, so the interrupt  *)
(* may count on in the middle.  A number here has WIDTH digits of base     *)
(* BASE, in place of 4 bytes.                                              *)
(***************************************************************************)
EXTENDS Integers

CONSTANTS
  BASE, WIDTH,
  MS_PER_SECOND,          \* 1000 in timers.c
  AUTO_REBOOT_SECONDS,
  AUTO_REBOOT_MAX,        \* 0 for no limit
  Postpone,               \* seconds a reboot command may carry
  SetMs,                  \* milliseconds a set_time command may carry
  INPUTS,                 \* message sources polled per turn: two UARTs, the radio
  MaxUptime,              \* bound: seconds counted in a behaviour
  MaxSets                 \* bound: set_time commands in a behaviour

\* The weight of each digit, and one past the largest number.
Place[n \in 0 .. WIDTH] == IF n = 0 THEN 1 ELSE BASE * Place[n - 1]
Limit == Place[WIDTH]

ASSUME ClockAssumption ==
  /\ {BASE, WIDTH, MS_PER_SECOND, INPUTS} \subseteq Nat \ {0}
  /\ {AUTO_REBOOT_SECONDS, AUTO_REBOOT_MAX} \cup Postpone \subseteq 0 .. Limit - 1
  /\ SetMs \subseteq Nat
  /\ MaxUptime \in 0 .. Limit - 1
  /\ MaxSets \in Nat

VARIABLES
  uptime,            \* seconds, counted by the interrupt
  rtc_milliseconds,  \* milliseconds of the clock that set_time sets
  auto_reboot,       \* uptime at which to reboot, 0 for never
  pc,                \* where the main loop is
  polled,            \* message sources polled in this turn of the loop
  postpone,          \* argument of schedule_postpone_reboot
  digit,             \* digits of uptime read so far
  value,             \* what they add up to
  began,             \* history: uptime when the read began
  elapsed,           \* history: milliseconds since timers_init
  sets               \* history: set_time commands handled

timerVars == <<uptime, rtc_milliseconds, elapsed>>
readVars  == <<digit, value, began>>
vars == <<timerVars, auto_reboot, pc, polled, postpone, readVars, sets>>

TypeOK ==
  /\ uptime \in 0 .. Limit - 1
  /\ rtc_milliseconds \in Nat
  /\ auto_reboot \in 0 .. Limit - 1
  /\ pc \in {"init", "events", "check", "inputs", "postpone", "reboot", "reboot_now"}
  /\ polled \in 0 .. INPUTS
  /\ postpone \in 0 .. Limit - 1
  /\ digit \in 0 .. WIDTH
  /\ value \in 0 .. Limit - 1
  /\ began \in 0 .. Limit - 1
  /\ elapsed \in Nat
  /\ sets \in 0 .. MaxSets

\* After timers_init, with interrupts enabled, before schedule_init.
Init ==
  /\ uptime = 0
  /\ rtc_milliseconds = 0
  /\ auto_reboot = 0
  /\ pc = "init"
  /\ polled = INPUTS
  /\ postpone = 0
  /\ digit = 0
  /\ value = 0
  /\ began = 0
  /\ elapsed = 0
  /\ sets = 0

-----------------------------------------------------------------------------
\* Variant: the second ends one millisecond late.
T1IsrLate ==
  /\ uptime < MaxUptime
  /\ elapsed' = elapsed + 1
  /\ IF rtc_milliseconds + 1 > MS_PER_SECOND
     THEN rtc_milliseconds' = 0 /\ uptime' = uptime + 1
     ELSE rtc_milliseconds' = rtc_milliseconds + 1 /\ UNCHANGED uptime
  /\ UNCHANGED <<auto_reboot, pc, polled, postpone, readVars, sets>>

\* The compare branch of t1_isr, once a millisecond.
T1Isr ==
  /\ uptime < MaxUptime
  /\ elapsed' = elapsed + 1
  /\ IF rtc_milliseconds + 1 >= MS_PER_SECOND
     THEN rtc_milliseconds' = 0 /\ uptime' = uptime + 1
     ELSE rtc_milliseconds' = rtc_milliseconds + 1 /\ UNCHANGED uptime
  /\ UNCHANGED <<auto_reboot, pc, polled, postpone, readVars, sets>>

\* Reading uptime starts with its lowest digit.
BeginRead ==
  /\ digit' = 0
  /\ value' = 0
  /\ began' = uptime

\* Variant: the highest digit first.
ReadDigitDown ==
  /\ pc \in {"check", "postpone"}
  /\ digit < WIDTH
  /\ LET place == Place[WIDTH - 1 - digit]
     IN value' = value + ((uptime \div place) % BASE) * place
  /\ digit' = digit + 1
  /\ UNCHANGED <<timerVars, auto_reboot, pc, polled, postpone, began, sets>>

ReadDigit ==
  /\ pc \in {"check", "postpone"}
  /\ digit < WIDTH
  /\ value' = value + ((uptime \div Place[digit]) % BASE) * Place[digit]
  /\ digit' = digit + 1
  /\ UNCHANGED <<timerVars, auto_reboot, pc, polled, postpone, began, sets>>

-----------------------------------------------------------------------------
\* Where the program goes on after a call of schedule_postpone_reboot, or
\* after it has handled a message.
After(n) == IF n = INPUTS THEN "events" ELSE "inputs"

\* schedule_init.
ScheduleInit ==
  /\ pc = "init"
  /\ IF AUTO_REBOOT_SECONDS = 0
     THEN pc' = "events" /\ UNCHANGED <<postpone, readVars>>
     ELSE pc' = "postpone" /\ postpone' = AUTO_REBOOT_SECONDS /\ BeginRead
  /\ UNCHANGED <<timerVars, auto_reboot, polled, sets>>

\* The next message source has nothing for us.
NoInput ==
  /\ pc = "inputs"
  /\ polled < INPUTS
  /\ polled' = polled + 1
  /\ pc' = After(polled')
  /\ UNCHANGED <<timerVars, auto_reboot, postpone, readVars, sets>>

\* The next message source has a command.
Input ==
  /\ pc = "inputs"
  /\ polled < INPUTS
  /\ polled' = polled + 1

TooLong(seconds) == AUTO_REBOOT_MAX # 0 /\ seconds > AUTO_REBOOT_MAX

\* A reboot command without an argument is not answered: the watchdog is armed
\* and resets the device.
RebootNow ==
  /\ Input
  /\ pc' = "reboot_now"
  /\ UNCHANGED <<timerVars, auto_reboot, postpone, readVars, sets>>

\* A reboot command with its argument.
RebootTooLong(seconds) ==
  /\ Input
  /\ TooLong(seconds)
  /\ pc' = After(polled')
  /\ UNCHANGED <<timerVars, auto_reboot, postpone, readVars, sets>>

PostponeReboot(seconds) ==
  /\ Input
  /\ ~ TooLong(seconds)
  /\ pc' = "postpone"
  /\ postpone' = seconds
  /\ BeginRead
  /\ UNCHANGED <<timerVars, auto_reboot, sets>>

\* Variant: the sum is not cut to the width of auto_reboot.
StorePostponeWide ==
  /\ pc = "postpone"
  /\ digit = WIDTH
  /\ auto_reboot' = value + postpone
  /\ pc' = After(polled)
  /\ UNCHANGED <<timerVars, polled, postpone, readVars, sets>>

\* The end of schedule_postpone_reboot.
StorePostpone ==
  /\ pc = "postpone"
  /\ digit = WIDTH
  /\ auto_reboot' = (value + postpone) % Limit
  /\ pc' = After(polled)
  /\ UNCHANGED <<timerVars, polled, postpone, readVars, sets>>

\* A set_time command.  Only the milliseconds matter here: they are those
\* from which the interrupt also counts uptime.
SetTime(ms) ==
  /\ Input
  /\ sets < MaxSets
  /\ rtc_milliseconds' = ms
  /\ sets' = sets + 1
  /\ pc' = After(polled')
  /\ UNCHANGED <<uptime, elapsed, auto_reboot, postpone, readVars>>

-----------------------------------------------------------------------------
\* The reboot check of schedule_handle_events, at the top of the main loop.
NoRebootSet ==
  /\ pc = "events"
  /\ auto_reboot = 0
  /\ pc' = "inputs"
  /\ polled' = 0
  /\ UNCHANGED <<timerVars, auto_reboot, postpone, readVars, sets>>

CheckReboot ==
  /\ pc = "events"
  /\ auto_reboot # 0
  /\ pc' = "check"
  /\ BeginRead
  /\ UNCHANGED <<timerVars, auto_reboot, polled, postpone, sets>>

\* Variant: a reboot is due only at the very second it was scheduled for.
CompareEqual ==
  /\ pc = "check"
  /\ digit = WIDTH
  /\ pc' = IF value = auto_reboot THEN "reboot" ELSE "inputs"
  /\ polled' = 0
  /\ UNCHANGED <<timerVars, auto_reboot, postpone, readVars, sets>>

Compare ==
  /\ pc = "check"
  /\ digit = WIDTH
  /\ pc' = IF value >= auto_reboot THEN "reboot" ELSE "inputs"
  /\ polled' = 0
  /\ UNCHANGED <<timerVars, auto_reboot, postpone, readVars, sets>>

MainLoop ==
  \/ ScheduleInit
  \/ ReadDigit
  \/ StorePostpone
  \/ NoRebootSet
  \/ CheckReboot
  \/ Compare
  \/ NoInput

Command ==
  \/ RebootNow
  \/ \E s \in Postpone : RebootTooLong(s) \/ PostponeReboot(s)
  \/ \E ms \in SetMs : SetTime(ms)

Next == T1Isr \/ MainLoop \/ Command

Spec == Init /\ [][Next]_vars

\* Each millisecond's interrupt is served, and the main loop runs on.
FairSpec == Spec /\ WF_vars(T1Isr) /\ WF_vars(MainLoop)

-----------------------------------------------------------------------------
(***************************************************************************)
(* Correctness.                                                            *)
(***************************************************************************)

ReadDone == pc \in {"check", "postpone"} /\ digit = WIDTH

\* A read of uptime that an interrupt falls into is never too low (so a
\* reboot is never missed for it), and too high only by what the lower
\* digits can hold.
TornReadBounds ==
  ReadDone => began <= value /\ value < uptime + Place[WIDTH - 1]

\* The milliseconds uptime accounts for: the seconds counted and the part of
\* the next one, which the interrupt ends early if set_time set too many.
Counted ==
  uptime * MS_PER_SECOND +
  (IF rtc_milliseconds < MS_PER_SECOND THEN rtc_milliseconds ELSE MS_PER_SECOND - 1)

\* uptime follows the time that has passed, except that each set_time, which
\* moves the milliseconds uptime is counted from, may put it off by less than
\* a second, either way (timers.c:156-163 and 82).
UptimeDrift ==
  /\ elapsed <= Counted + sets * (MS_PER_SECOND - 1)
  /\ Counted <= elapsed + sets * (MS_PER_SECOND - 1)

\* A reboot that is due is carried out, unless a command postpones it.
RebootDue == auto_reboot # 0 /\ uptime >= auto_reboot
RebootNotMissed == RebootDue ~> (pc \in {"reboot", "reboot_now"} \/ ~ RebootDue)
=============================================================================
