------------------------------ MODULE MCAppLoop ------------------------------
(***************************************************************************)
(* AppLoop with three channels, two milliseconds between rounds, two ticks   *)
(* to the millisecond and three milliseconds to the second.                *)
(***************************************************************************)
EXTENDS AppLoop
=============================================================================
