------------------------------ MODULE MCRadio ------------------------------
(***************************************************************************)
(* Radio with a few packets on the air: good ones, one that is too short,  *)
(* and one whose CRC does not match.                                       *)
(***************************************************************************)
EXTENDS Radio

CONSTANTS p1, p2, short, damaged

GoodPackets == {p1, p2}
OneEach == {p1, short, damaged}
ShortPackets == {short}
DamagedPackets == {damaged}
NoPackets == {}

\* The behaviours without a carrier event, in which RFIF = 0 forgets nothing.
QuietSpec == Init /\ [][Next /\ ~ Carrier]_vars
=============================================================================
