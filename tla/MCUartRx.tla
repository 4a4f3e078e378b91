------------------------------ MODULE MCUartRx ------------------------------
(***************************************************************************)
(* UartRx on small instances.  The start bytes are 1 and 2, which are also *)
(* valid lengths, as 0x22 and 0x69 are.  Byte 0 is a length that is too    *)
(* short; with payloads of at most one byte, 2 is one that is too long.    *)
(***************************************************************************)
EXTENDS UartRx

MCByte == 0 .. 2
=============================================================================
