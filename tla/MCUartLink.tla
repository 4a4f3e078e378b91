----------------------------- MODULE MCUartLink -----------------------------
(***************************************************************************)
(* UartLink on small instances.  The start bytes 1 and 2 are also valid    *)
(* lengths, and 3 (or 4) is the length of the longest payload.             *)
(***************************************************************************)
EXTENDS UartLink

MCByte == 0 .. 4

\* Messages in which no start byte occurs.
PlainPayloads == {<<0>>, <<3, 0>>, <<0, 3, 3>>}

\* A message that contains the header of a one-byte message.
NestedPayloads == {<<0>>, <<1, 2, 1, 0>>}

=============================================================================
