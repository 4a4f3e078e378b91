--------------------------- MODULE AppClockProofs ---------------------------
(***************************************************************************)
(* Proofs about the application's clock, for any length of a second, any   *)
(* set_time commands and numbers of any width: its uptime follows the time *)
(* that has passed, and a read of it that the timer interrupt falls into   *)
(* is not too low, nor too high by more than the lower digits can hold.    *)
(***************************************************************************)
EXTENDS AppClock, WellFoundedInduction, TLAPS

\* The counters are numbers; that, and the drift itself, is inductive.
DriftInv ==
  /\ {uptime, rtc_milliseconds, elapsed, sets} \subseteq Nat
  /\ UptimeDrift

\* The constants the proof uses are numbers.
LEMMA Numbers == MS_PER_SECOND \in Nat \ {0} /\ SetMs \subseteq Nat
  BY ClockAssumption

\* A millisecond adds one to both sides.
LEMMA TickDrift == ASSUME DriftInv, T1Isr PROVE DriftInv'
<1> USE Numbers DEF DriftInv
<1>1. CASE rtc_milliseconds + 1 >= MS_PER_SECOND
  <2>1. Counted = uptime * MS_PER_SECOND + MS_PER_SECOND - 1
    BY <1>1 DEF Counted
  <2>2. Counted' = (uptime + 1) * MS_PER_SECOND
    BY <1>1 DEF Counted, T1Isr
  <2>3. (uptime + 1) * MS_PER_SECOND = uptime * MS_PER_SECOND + MS_PER_SECOND
    OBVIOUS
  <2>4. Counted' = Counted + 1 /\ Counted \in Nat
    BY <2>1, <2>2, <2>3
  <2> QED
    BY <1>1, <2>4 DEF T1Isr, UptimeDrift
<1>2. CASE ~ (rtc_milliseconds + 1 >= MS_PER_SECOND)
  <2>1. Counted' = Counted + 1 /\ Counted \in Nat
    BY <1>2 DEF Counted, T1Isr
  <2> QED
    BY <1>2, <2>1 DEF T1Isr, UptimeDrift
<1> QED
  BY <1>1, <1>2

\* Two counts within k of each other are within k + m of each other after one
\* of them has moved by at most m.
LEMMA WithinAfterMove ==
  ASSUME NEW e \in Nat, NEW c \in Nat, NEW d \in Nat, NEW k \in Nat, NEW m \in Nat,
         e <= c + k, c <= e + k, c <= d + m, d <= c + m
  PROVE  e <= d + (k + m) /\ d <= e + (k + m)
  OBVIOUS

\* A set_time moves what is counted by less than a second.
LEMMA SetDrift == ASSUME DriftInv, NEW ms \in SetMs, SetTime(ms) PROVE DriftInv'
<1> DEFINE c == Counted
           d == Counted'
           k == sets * (MS_PER_SECOND - 1)
           m == MS_PER_SECOND - 1
<1>1. elapsed \in Nat /\ c \in Nat /\ d \in Nat /\ k \in Nat /\ m \in Nat
  BY Numbers DEF DriftInv, Counted, SetTime
<1>2. c <= d + m /\ d <= c + m
  BY Numbers DEF DriftInv, Counted, SetTime
<1>3. elapsed <= c + k /\ c <= elapsed + k
  BY DEF DriftInv, UptimeDrift
<1>4. elapsed <= d + (k + m) /\ d <= elapsed + (k + m)
  <2> HIDE DEF c, d, k, m
  <2> QED
    BY <1>1, <1>2, <1>3, WithinAfterMove
<1>5. sets' * (MS_PER_SECOND - 1) = k + m
  BY Numbers DEF DriftInv, SetTime
<1>6. {uptime', rtc_milliseconds', elapsed', sets'} \subseteq Nat /\ elapsed' = elapsed
  BY Numbers DEF DriftInv, SetTime
<1> QED
  BY <1>4, <1>5, <1>6 DEF DriftInv, UptimeDrift

\* Every step keeps the drift within its bounds.
LEMMA NextDrift == DriftInv /\ [Next]_vars => DriftInv'
<1> SUFFICES ASSUME DriftInv, [Next]_vars PROVE DriftInv'
  OBVIOUS
<1>1. CASE T1Isr
  BY <1>1, TickDrift
<1>2. ASSUME NEW ms \in SetMs, SetTime(ms) PROVE DriftInv'
  BY <1>2, SetDrift
<1>3. CASE MainLoop \/ RebootNow \/ \E s \in Postpone : RebootTooLong(s) \/ PostponeReboot(s)
  <2>1. UNCHANGED <<uptime, rtc_milliseconds, elapsed, sets>>
    BY <1>3 DEF MainLoop, ScheduleInit, ReadDigit, StorePostpone, NoRebootSet,
                CheckReboot, Compare, NoInput, RebootNow, Input, RebootTooLong,
                PostponeReboot, timerVars
  <2> QED
    BY <2>1 DEF DriftInv, UptimeDrift, Counted
<1>4. CASE UNCHANGED vars
  BY <1>4 DEF vars, timerVars, DriftInv, UptimeDrift, Counted
<1> QED
  BY <1>1, <1>2, <1>3, <1>4 DEF Next, Command

\* uptime is never off by more than a second per set_time command.
THEOREM UptimeFollowsTime == Spec => []UptimeDrift
<1>1. Init => DriftInv
  BY Numbers DEF Init, DriftInv, UptimeDrift, Counted
<1>2. DriftInv => UptimeDrift
  BY DEF DriftInv
<1> QED
  BY <1>1, <1>2, NextDrift, PTL DEF Spec
-----------------------------------------------------------------------------
(***************************************************************************)
(* The weights of the digits.                                              *)
(***************************************************************************)

\* A set of numbers that is not empty has a least element.
LEMMA LeastNumber ==
  ASSUME NEW S \in SUBSET Nat, S # {}
  PROVE  \E n \in S : \A m \in S : n <= m
<1> DEFINE R == OpToRel(<, Nat)
<1>1. IsWellFoundedOn(R, Nat)
  BY NatLessThanWellFounded
<1>2. PICK n \in S : \A m \in S : ~ (<<m, n>> \in R)
  <2> HIDE DEF R
  <2> QED
    BY <1>1, WFMin
<1>3. \A m \in S : ~ (m < n)
  BY <1>2 DEF OpToRel
<1> QED
  BY <1>3

\* Induction, over a set in place of a formula: the numbers of a set with 0 in
\* it and, with every number up to some k, the next one.
LEMMA UpwardClosure ==
  ASSUME NEW S, NEW k \in Nat, 0 \in S, \A n \in 0 .. k - 1 : n \in S => n + 1 \in S
  PROVE  0 .. k \subseteq S
<1> SUFFICES ASSUME (0 .. k) \ S # {} PROVE FALSE
  OBVIOUS
<1>1. (0 .. k) \ S \in SUBSET Nat
  OBVIOUS
<1>2. PICK n \in (0 .. k) \ S : \A m \in (0 .. k) \ S : n <= m
  BY <1>1, LeastNumber
<1>3. n # 0 /\ n - 1 \in 0 .. k - 1
  OBVIOUS
<1>4. n - 1 \in S /\ n - 1 + 1 = n
  BY <1>2, <1>3
<1> QED
  BY <1>3, <1>4

\* What the constants of the read are.
LEMMA Digits ==
  /\ BASE \in Nat \ {0} /\ WIDTH \in Nat \ {0}
  /\ AUTO_REBOOT_SECONDS \in 0 .. Limit - 1
  /\ Postpone \subseteq 0 .. Limit - 1
  /\ MaxUptime \in 0 .. Limit - 1
  /\ MaxSets \in Nat
  /\ INPUTS \in Nat \ {0}
  BY ClockAssumption

\* The recursion that defines the weights has a solution.
LEMMA PlaceExists ==
  \E f : f = [n \in 0 .. WIDTH |-> IF n = 0 THEN 1 ELSE BASE * f[n - 1]]
<1> DEFINE Weights(f, k) ==
             /\ f[0] = 1
             /\ \A n \in 0 .. k - 1 : f[n + 1] = BASE * f[n]
           S == {k \in 0 .. WIDTH : \E f \in [0 .. k -> Nat] : Weights(f, k)}
<1>1. 0 \in S
  <2> DEFINE f == [n \in 0 .. 0 |-> 1]
  <2>1. f \in [0 .. 0 -> Nat] /\ Weights(f, 0) /\ 0 \in 0 .. WIDTH
    BY Digits
  <2> HIDE DEF f, Weights
  <2> QED
    BY <2>1
<1>2. ASSUME NEW k \in 0 .. WIDTH - 1, k \in S PROVE k + 1 \in S
  <2>1. PICK f \in [0 .. k -> Nat] : Weights(f, k)
    BY <1>2
  <2> DEFINE g == [n \in 0 .. k + 1 |-> IF n = k + 1 THEN BASE * f[k] ELSE f[n]]
  <2>2. k \in Nat /\ k + 1 \in 0 .. WIDTH /\ 0 \in 0 .. k /\ k \in 0 .. k
    BY Digits
  <2>3. BASE * f[k] \in Nat
    BY <2>2, Digits
  <2>4. g \in [0 .. k + 1 -> Nat]
    BY <2>2, <2>3
  <2>5. g[0] = 1
    BY <2>1, <2>2
  <2>6. ASSUME NEW n \in 0 .. k PROVE g[n + 1] = BASE * g[n]
    BY <2>1, <2>2
  <2>7. Weights(g, k + 1)
    <3>1. (k + 1) - 1 = k
      BY <2>2
    <3> HIDE DEF g
    <3> QED
      BY <2>5, <2>6, <3>1
  <2> HIDE DEF g, Weights
  <2> QED
    BY <2>2, <2>4, <2>7
<1>3. WIDTH \in S
  <2> HIDE DEF S
  <2> QED
    BY <1>1, <1>2, Digits, UpwardClosure
<1>4. PICK f \in [0 .. WIDTH -> Nat] : Weights(f, WIDTH)
  BY <1>3
<1>5. f = [n \in 0 .. WIDTH |-> f[n]]
  OBVIOUS
<1>6. ASSUME NEW n \in 0 .. WIDTH PROVE f[n] = IF n = 0 THEN 1 ELSE BASE * f[n - 1]
  <2>1. CASE n = 0
    BY <1>4, <2>1
  <2>2. CASE n # 0
    <3>1. n - 1 \in 0 .. WIDTH - 1 /\ n - 1 + 1 = n
      BY <2>2, Digits
    <3> QED
      BY <1>4, <2>2, <3>1
  <2> QED
    BY <2>1, <2>2
<1>7. f = [n \in 0 .. WIDTH |-> IF n = 0 THEN 1 ELSE BASE * f[n - 1]]
  <2> HIDE DEF Weights
  <2> QED
    BY <1>5, <1>6
<1> QED
  BY <1>7

\* The recursion that defines the weights.
LEMMA PlaceStep ==
  /\ Place[0] = 1
  /\ \A n \in 0 .. WIDTH - 1 : Place[n + 1] = BASE * Place[n]
<1>1. Place = [n \in 0 .. WIDTH |-> IF n = 0 THEN 1 ELSE BASE * Place[n - 1]]
  BY PlaceExists, Zenon DEF Place
<1>2. \A n \in 0 .. WIDTH : Place[n] = IF n = 0 THEN 1 ELSE BASE * Place[n - 1]
  BY <1>1, Zenon
<1>3. 0 \in 0 .. WIDTH
  BY Digits
<1>4. Place[0] = 1
  BY <1>2, <1>3
<1>5. ASSUME NEW n \in 0 .. WIDTH - 1 PROVE Place[n + 1] = BASE * Place[n]
  <2>1. n + 1 \in 0 .. WIDTH /\ n + 1 # 0 /\ n + 1 - 1 = n
    BY Digits
  <2>2. Place[n + 1] = BASE * Place[n + 1 - 1]
    BY <1>2, <2>1
  <2> QED
    BY <2>1, <2>2
<1> QED
  BY <1>4, <1>5

\* Every weight is a number above 0.
LEMMA PlaceType == \A n \in 0 .. WIDTH : Place[n] \in Nat \ {0}
<1> DEFINE S == {n \in 0 .. WIDTH : Place[n] \in Nat \ {0}}
<1>1. 0 \in S
  BY PlaceStep, Digits
<1>2. \A n \in 0 .. WIDTH - 1 : n \in S => n + 1 \in S
  <2> SUFFICES ASSUME NEW n \in 0 .. WIDTH - 1, n \in S PROVE n + 1 \in S
    OBVIOUS
  <2>1. Place[n + 1] = BASE * Place[n] /\ Place[n] \in Nat \ {0}
    BY PlaceStep
  <2>2. \A p \in Nat \ {0} : BASE * p \in Nat \ {0}
    BY Digits
  <2> QED
    BY <2>1, <2>2, Digits
<1>3. 0 .. WIDTH \subseteq S
  <2> HIDE DEF S
  <2> QED
    BY <1>1, <1>2, Digits, UpwardClosure
<1> QED
  BY <1>3

\* No weight is above the one past the last digit.
LEMMA PlaceLimit == \A n \in 0 .. WIDTH : Place[n] <= Limit
<1> DEFINE S == {n \in 0 .. WIDTH : Place[WIDTH - n] <= Limit}
<1>1. 0 \in S
  BY PlaceType, Digits DEF Limit
<1>2. \A n \in 0 .. WIDTH - 1 : n \in S => n + 1 \in S
  <2> SUFFICES ASSUME NEW n \in 0 .. WIDTH - 1, n \in S PROVE n + 1 \in S
    OBVIOUS
  <2> DEFINE i == WIDTH - n - 1
  <2>1. i \in 0 .. WIDTH - 1 /\ i + 1 = WIDTH - n /\ i = WIDTH - (n + 1)
    BY Digits
  <2>2. Place[i + 1] = BASE * Place[i] /\ Place[i] \in Nat \ {0} /\ Place[i + 1] <= Limit
    BY <2>1, PlaceStep, PlaceType, Digits
  <2>3. \A p \in Nat : p <= BASE * p
    BY Digits
  <2>4. Place[i] <= Place[i + 1]
    BY <2>2, <2>3
  <2>5. Limit \in Nat /\ Place[i + 1] \in Nat
    BY <2>1, PlaceType, Digits DEF Limit
  <2> QED
    BY <2>1, <2>2, <2>4, <2>5, Digits
<1>3. 0 .. WIDTH \subseteq S
  <2> HIDE DEF S
  <2> QED
    BY <1>1, <1>2, Digits, UpwardClosure
<1>4. ASSUME NEW n \in 0 .. WIDTH PROVE Place[n] <= Limit
  <2>1. WIDTH - n \in S /\ WIDTH - (WIDTH - n) = n
    BY <1>3, Digits
  <2> QED
    BY <2>1
<1> QED
  BY <1>4

-----------------------------------------------------------------------------
(***************************************************************************)
(* The read of uptime, digit by digit.                                     *)
(***************************************************************************)

\* A multiple of p that leaves less than p is the quotient's.
LEMMA Quotient ==
  ASSUME NEW p \in Nat \ {0}, NEW u \in Nat, NEW q \in Nat, q * p <= u, u < q * p + p
  PROVE  u \div p = q
<1> DEFINE k == u \div p
<1>1. k \in Nat /\ k * p <= u /\ u < k * p + p
  OBVIOUS
<1> HIDE DEF k
<1>2. ASSUME NEW a \in Nat, NEW b \in Nat, a < b PROVE a * p + p <= b * p
  <2>1. (a + 1) * p <= b * p /\ (a + 1) * p = a * p + p
    BY <1>2
  <2> QED
    BY <2>1
<1>3. ~ (k < q)
  BY <1>1, <1>2
<1>4. ~ (q < k)
  BY <1>1, <1>2
<1> QED
  BY <1>1, <1>3, <1>4 DEF k

\* The multiple of p below u.
LEMMA Multiple ==
  ASSUME NEW p \in Nat \ {0}, NEW u \in Nat
  PROVE  /\ u \div p \in Nat
         /\ (u \div p) * p \in Nat
         /\ (u \div p) * p <= u
         /\ u < (u \div p) * p + p
  OBVIOUS

\* It does not shrink when u grows.
LEMMA MultipleGrows ==
  ASSUME NEW p \in Nat \ {0}, NEW u \in Nat
  PROVE  (u \div p) * p <= ((u + 1) \div p) * p
<1> DEFINE k == u \div p
           m == (u + 1) \div p
<1>1. k \in Nat /\ m \in Nat /\ k * p <= u /\ u + 1 < m * p + p
  BY Multiple
<1> HIDE DEF k, m
<1>2. ASSUME m < k PROVE FALSE
  <2>1. (m + 1) * p <= k * p /\ (m + 1) * p = m * p + p
    BY <1>1, <1>2
  <2>2. m * p \in Nat /\ k * p \in Nat
    BY <1>1
  <2> QED
    BY <1>1, <2>1, <2>2
<1>3. k <= m
  BY <1>1, <1>2
<1>4. k * p <= m * p
  BY <1>1, <1>3
<1> QED
  BY <1>4 DEF k, m

\* A digit is what the multiple at its place has over that at the next place.
LEMMA DigitSplits ==
  ASSUME NEW b \in Nat \ {0}, NEW p \in Nat \ {0}, NEW u \in Nat
  PROVE  LET d == (u \div p) % b
         IN  /\ d \in 0 .. b - 1
             /\ d * p \in Nat
             /\ d * p + (u \div (b * p)) * (b * p) = (u \div p) * p
<1> DEFINE q == u \div p
           d == q % b
           r == q \div b
           bp == b * p
<1>1. q \in Nat /\ q * p <= u /\ u < q * p + p
  BY Multiple
<1> HIDE DEF q
<1>2. d \in 0 .. b - 1 /\ r \in Nat /\ q = r * b + d
  BY <1>1
<1> HIDE DEF d, r
<1>3. q * p = r * bp + d * p
  <2>1. (r * b + d) * p = (r * b) * p + d * p
    BY <1>2
  <2>2. (r * b) * p = r * (b * p)
    BY <1>2
  <2> QED
    BY <1>2, <2>1, <2>2
<1>4. d * p \in Nat /\ r * bp \in Nat /\ bp \in Nat \ {0} /\ q * p \in Nat
  BY <1>1, <1>2
<1>5. d * p + p <= bp
  <2>1. (d + 1) * p <= b * p /\ (d + 1) * p = d * p + p
    BY <1>2
  <2> QED
    BY <2>1
<1>6. r * bp <= u /\ u < r * bp + bp
  <2> HIDE DEF bp
  <2> QED
    BY <1>1, <1>3, <1>4, <1>5
<1>7. u \div bp = r
  <2> HIDE DEF bp
  <2> QED
    BY <1>2, <1>4, <1>6, Quotient
<1>8. d * p + (u \div bp) * bp = q * p
  <2> HIDE DEF bp
  <2> QED
    BY <1>3, <1>4, <1>7
<1> QED
  BY <1>2, <1>4, <1>8 DEF q, d

\* What is read so far fits the digits read; with the digits still to be read
\* it makes up the uptime the read began with, or more; and it exceeds the
\* uptime of now by less than the last digit read can count.
ReadInv ==
  /\ value < Place[digit]
  /\ began <= value + (uptime \div Place[digit]) * Place[digit]
  /\ digit > 0 => value < uptime + Place[digit - 1]

\* A read begins with nothing read.
LEMMA BeginReadInv ==
  ASSUME TypeOK, BeginRead, uptime' = uptime
  PROVE  ReadInv' /\ digit' \in 0 .. WIDTH /\ value' \in 0 .. Limit - 1
                  /\ began' \in 0 .. Limit - 1
<1>1. Place[0] = 1 /\ uptime \in Nat /\ (uptime \div 1) * 1 = uptime
  BY PlaceStep DEF TypeOK
<1>2. Limit \in Nat \ {0}
  BY PlaceType, Digits DEF Limit
<1> QED
  BY <1>1, <1>2, Digits DEF BeginRead, ReadInv, TypeOK

\* The interrupt may count in the middle of a read.
LEMMA TickReadInv ==
  ASSUME TypeOK, ReadInv, uptime' \in {uptime, uptime + 1}, UNCHANGED readVars
  PROVE  ReadInv'
<1> DEFINE p == Place[digit]
<1>1. p \in Nat \ {0} /\ uptime \in Nat /\ value \in Nat /\ began \in Nat
  BY PlaceType DEF TypeOK
<1>2. CASE uptime' = uptime
  BY <1>2 DEF ReadInv, readVars
<1>3. CASE uptime' = uptime + 1
  <2>1. (uptime \div p) * p <= ((uptime + 1) \div p) * p
    BY <1>1, MultipleGrows
  <2>2. (uptime \div p) * p \in Nat /\ ((uptime + 1) \div p) * p \in Nat
    BY <1>1, Multiple
  <2>3. began <= value + (uptime \div p) * p
    BY DEF ReadInv
  <2>4. began <= value + ((uptime + 1) \div p) * p
    <3> DEFINE a == (uptime \div p) * p
               b == ((uptime + 1) \div p) * p
    <3> HIDE DEF a, b
    <3>1. a \in Nat /\ b \in Nat /\ a <= b /\ began <= value + a
      BY <2>1, <2>2, <2>3 DEF a, b
    <3>2. began <= value + b
      BY <1>1, <3>1
    <3> QED
      BY <3>2 DEF b
  <2>5. ASSUME digit > 0 PROVE value < uptime + 1 + Place[digit - 1]
    <3>1. value < uptime + Place[digit - 1]
      BY <2>5 DEF ReadInv
    <3>2. Place[digit - 1] \in Nat
      BY <2>5, PlaceType, Digits DEF TypeOK
    <3> QED
      BY <1>1, <3>1, <3>2
  <2> QED
    BY <1>3, <2>4, <2>5 DEF ReadInv, readVars
<1> QED
  BY <1>2, <1>3

\* The next digit.
LEMMA ReadDigitInv ==
  ASSUME TypeOK, ReadInv, ReadDigit
  PROVE  ReadInv' /\ digit' \in 0 .. WIDTH /\ value' \in 0 .. Limit - 1
<1> DEFINE p == Place[digit]
           d == (uptime \div p) % BASE
           dp == d * p
           rest == (uptime \div (BASE * p)) * (BASE * p)
           now == (uptime \div p) * p
<1>1. /\ p \in Nat \ {0} /\ uptime \in Nat /\ value \in Nat /\ began \in Nat
      /\ digit \in 0 .. WIDTH - 1
  BY PlaceType, Digits DEF TypeOK, ReadDigit
<1>2. value' = value + dp /\ digit' = digit + 1 /\ began' = began /\ uptime' = uptime
  BY DEF ReadDigit, timerVars
<1>3. digit' \in 0 .. WIDTH /\ digit' - 1 = digit /\ Place[digit'] = BASE * p
  BY <1>1, <1>2, PlaceStep, Digits
<1>4. d \in 0 .. BASE - 1 /\ dp \in Nat /\ dp + rest = now
  BY <1>1, Digits, DigitSplits
<1>5. now \in Nat /\ now <= uptime /\ rest \in Nat
  <2>1. BASE * p \in Nat \ {0}
    BY <1>1, Digits
  <2> QED
    BY <1>1, <2>1, Multiple
<1>6. dp + p <= BASE * p
  <2>1. (d + 1) * p <= BASE * p /\ (d + 1) * p = dp + p
    <3> HIDE DEF d, p
    <3> QED
      BY <1>1, <1>4, Digits
  <2> QED
    BY <2>1
<1>7. value < p /\ began <= value + now
  BY DEF ReadInv
<1>8. BASE * p \in Nat /\ BASE * p <= Limit /\ Limit \in Nat
  BY <1>1, <1>3, PlaceLimit, PlaceType, Digits DEF Limit
<1> HIDE DEF dp, rest, now, p
<1>9. value + dp < BASE * p
  <2> DEFINE bp == BASE * p
  <2> HIDE DEF bp
  <2>1. bp \in Nat /\ dp + p <= bp
    BY <1>6, <1>8 DEF bp
  <2>2. value + dp < bp
    BY <1>1, <1>4, <1>7, <2>1
  <2> QED
    BY <2>2 DEF bp
<1>10. began <= (value + dp) + rest
  BY <1>1, <1>4, <1>5, <1>7
<1>11. value + dp < uptime + p
  BY <1>1, <1>4, <1>5, <1>7
<1>12. ReadInv'
  <2>1. value' < Place[digit']
    BY <1>2, <1>3, <1>9
  <2>2. began' <= value' + (uptime' \div Place[digit']) * Place[digit']
    BY <1>2, <1>3, <1>10 DEF rest
  <2>3. value' < uptime' + Place[digit' - 1]
    BY <1>2, <1>3, <1>11 DEF p
  <2> QED
    BY <2>1, <2>2, <2>3 DEF ReadInv
<1>13. value' \in 0 .. Limit - 1
  <2> DEFINE bp == BASE * p
  <2> HIDE DEF bp
  <2>1. bp \in Nat /\ bp <= Limit /\ Limit \in Nat /\ value + dp < bp
    BY <1>8, <1>9 DEF bp
  <2> QED
    BY <1>1, <1>2, <1>4, <2>1
<1> QED
  BY <1>3, <1>12, <1>13

\* Every step keeps the types and the bounds of the read.
LEMMA NextRead == TypeOK /\ ReadInv /\ [Next]_vars => TypeOK' /\ ReadInv'
<1> SUFFICES ASSUME TypeOK, ReadInv, [Next]_vars PROVE TypeOK' /\ ReadInv'
  OBVIOUS
<1> DEFINE Kept == UNCHANGED <<uptime, readVars>>
           Others == /\ rtc_milliseconds' \in Nat
                     /\ auto_reboot' \in 0 .. Limit - 1
                     /\ pc' \in {"init", "events", "check", "inputs", "postpone",
                                "reboot", "reboot_now"}
                     /\ polled' \in 0 .. INPUTS
                     /\ postpone' \in 0 .. Limit - 1
                     /\ elapsed' \in Nat
                     /\ sets' \in 0 .. MaxSets
           ReadType == /\ digit' \in 0 .. WIDTH
                       /\ value' \in 0 .. Limit - 1
                       /\ began' \in 0 .. Limit - 1
<1> USE Digits, Numbers
<1>1. Limit \in Nat \ {0}
  BY PlaceType DEF Limit
<1>2. ASSUME Kept PROVE ReadType /\ ReadInv' /\ uptime' \in 0 .. Limit - 1
  BY <1>2, TickReadInv DEF TypeOK, readVars
<1>3. ASSUME BeginRead, UNCHANGED uptime
      PROVE  ReadType /\ ReadInv' /\ uptime' \in 0 .. Limit - 1
  BY <1>3, BeginReadInv DEF TypeOK
<1>4. ASSUME Others, ReadType, ReadInv', uptime' \in 0 .. Limit - 1
      PROVE  TypeOK' /\ ReadInv'
  BY <1>4 DEF TypeOK
<1>5. CASE T1Isr
  <2>1. Others
    BY <1>5 DEF T1Isr, TypeOK
  <2>2. uptime' \in {uptime, uptime + 1} /\ UNCHANGED readVars /\ uptime < MaxUptime
    BY <1>5 DEF T1Isr
  <2>3. ReadInv'
    BY <2>2, TickReadInv
  <2>4. ReadType /\ uptime' \in 0 .. Limit - 1
    BY <1>1, <2>2 DEF TypeOK, readVars
  <2> QED
    BY <1>4, <2>1, <2>3, <2>4
<1>6. CASE ScheduleInit
  <2>1. Others
    BY <1>6 DEF ScheduleInit, TypeOK, timerVars
  <2>2. UNCHANGED uptime /\ (BeginRead \/ UNCHANGED readVars)
    BY <1>6 DEF ScheduleInit, timerVars
  <2> QED
    BY <1>2, <1>3, <1>4, <2>1, <2>2
<1>7. CASE ReadDigit
  <2>1. Others /\ uptime' \in 0 .. Limit - 1 /\ began' \in 0 .. Limit - 1
    BY <1>7 DEF ReadDigit, TypeOK, timerVars
  <2> QED
    BY <1>4, <1>7, <2>1, ReadDigitInv
<1>8. CASE StorePostpone
  <2>1. auto_reboot' \in 0 .. Limit - 1
    <3>1. value + postpone \in Nat /\ auto_reboot' = (value + postpone) % Limit
      BY <1>1, <1>8 DEF StorePostpone, TypeOK
    <3> QED
      BY <1>1, <3>1
  <2>2. Others
    BY <1>8, <2>1 DEF StorePostpone, After, TypeOK, timerVars
  <2> QED
    BY <1>2, <1>4, <1>8, <2>2 DEF StorePostpone, timerVars
<1>9. CASE NoRebootSet \/ Compare
  <2>1. Others
    BY <1>9 DEF NoRebootSet, Compare, TypeOK, timerVars
  <2> QED
    BY <1>2, <1>4, <1>9, <2>1 DEF NoRebootSet, Compare, timerVars
<1>10. CASE CheckReboot
  <2>1. Others
    BY <1>10 DEF CheckReboot, TypeOK, timerVars
  <2> QED
    BY <1>3, <1>4, <1>10, <2>1 DEF CheckReboot, timerVars
<1>11. CASE NoInput \/ RebootNow \/ \E s \in Postpone : RebootTooLong(s)
  <2>1. Others
    BY <1>11 DEF NoInput, RebootNow, RebootTooLong, Input, After, TypeOK, timerVars
  <2> QED
    BY <1>2, <1>4, <1>11, <2>1 DEF NoInput, RebootNow, RebootTooLong, timerVars
<1>12. ASSUME NEW s \in Postpone, PostponeReboot(s) PROVE TypeOK' /\ ReadInv'
  <2>1. Others
    BY <1>12 DEF PostponeReboot, Input, TypeOK, timerVars
  <2> QED
    BY <1>3, <1>4, <1>12, <2>1 DEF PostponeReboot, timerVars
<1>13. ASSUME NEW ms \in SetMs, SetTime(ms) PROVE TypeOK' /\ ReadInv'
  <2>1. Others
    BY <1>13 DEF SetTime, Input, After, TypeOK
  <2> QED
    BY <1>2, <1>4, <1>13, <2>1 DEF SetTime
<1>14. CASE UNCHANGED vars
  <2>1. Others
    BY <1>14 DEF vars, TypeOK, timerVars
  <2> QED
    BY <1>2, <1>4, <1>14, <2>1 DEF vars, timerVars
<1> QED
  BY <1>5, <1>6, <1>7, <1>8, <1>9, <1>10, <1>11, <1>12, <1>13, <1>14
     DEF Next, MainLoop, Command

\* At the start nothing is read.
LEMMA InitRead == Init => TypeOK /\ ReadInv
<1> SUFFICES ASSUME Init PROVE TypeOK /\ ReadInv
  OBVIOUS
<1>1. Limit \in Nat \ {0} /\ Place[0] = 1
  BY PlaceType, PlaceStep, Digits DEF Limit
<1> QED
  BY <1>1, Digits DEF Init, TypeOK, ReadInv

\* What is read so far is bounded at every step of the read.
LEMMA ReadBounded == Spec => [](TypeOK /\ ReadInv)
  BY InitRead, NextRead, PTL DEF Spec

\* Types, among them that neither the sum of the digits read nor the time of
\* the reboot exceeds its width.
THEOREM TypeCorrect == Spec => []TypeOK
  BY ReadBounded, PTL

\* Whenever the interrupt comes, a read of uptime yields no less than uptime
\* was when the read began, and exceeds what it is by less than the weight of
\* the highest digit.
THEOREM ReadsWithinBounds == Spec => []TornReadBounds
<1>1. TypeOK /\ ReadInv => TornReadBounds
  <2> SUFFICES ASSUME TypeOK, ReadInv, digit = WIDTH
               PROVE  began <= value /\ value < uptime + Place[WIDTH - 1]
    BY DEF TornReadBounds, ReadDone
  <2>1. Limit \in Nat \ {0} /\ Place[WIDTH] = Limit /\ uptime \in 0 .. Limit - 1
    BY PlaceType, Digits DEF Limit, TypeOK
  <2>2. 0 * Limit <= uptime /\ uptime < 0 * Limit + Limit
    BY <2>1
  <2>3. uptime \div Limit = 0
    BY <2>1, <2>2, Quotient
  <2>4. value + (uptime \div Place[WIDTH]) * Place[WIDTH] = value
    BY <2>1, <2>3 DEF TypeOK
  <2> QED
    BY <2>4, Digits DEF ReadInv
<1> QED
  BY <1>1, ReadBounded, PTL

\* The reboot check.
RebootDecided ==
  Compare => /\ began >= auto_reboot => pc' = "reboot"
             /\ pc' = "reboot" => auto_reboot < uptime + Place[WIDTH - 1]

\* A reboot due when the check of it began is taken, although the check reads
\* uptime while the interrupt counts it; and none is taken that is not due
\* within the weight of the highest digit (schedule.c:49).
THEOREM RebootInTime == Spec => [][RebootDecided]_vars
<1>1. TypeOK /\ TornReadBounds /\ [Next]_vars => [RebootDecided]_vars
  <2> SUFFICES ASSUME TypeOK, TornReadBounds, Compare PROVE RebootDecided
    BY DEF RebootDecided
  <2>1. began <= value /\ value < uptime + Place[WIDTH - 1]
    BY DEF Compare, TornReadBounds, ReadDone
  <2>2. pc' = "reboot" <=> value >= auto_reboot
    BY DEF Compare
  <2>3. {value, began, uptime, auto_reboot} \subseteq Nat
    BY DEF TypeOK
  <2>4. Place[WIDTH - 1] \in Nat
    BY PlaceType, Digits
  <2> QED
    BY <2>1, <2>2, <2>3, <2>4 DEF RebootDecided
<1> QED
  BY <1>1, TypeCorrect, ReadsWithinBounds, PTL DEF Spec
=============================================================================
