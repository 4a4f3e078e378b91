----------------------------- MODULE MCAppClock -----------------------------
(***************************************************************************)
(* AppClock with numbers of three digits of base 3 and two milliseconds to *)
(* the second.  The automatic reboot is after 5 seconds, between two       *)
(* carries, as 600 is with bytes.                                          *)
(***************************************************************************)
EXTENDS AppClock

\* With these, uptime plus a delay may not fit the width of auto_reboot.
LongPostpone == {0, 3, 20, 21}

MCSetMs == {0, 1, 3}
=============================================================================
