---------------------------- MODULE MCHostCommand ----------------------------
(***************************************************************************)
(* HostCommand with two handlers that talk to different nodes.  Sequence   *)
(* numbers are 2 and 3, so that the second command after a command has its *)
(* number again; 0 and 1 are the reserved ones.                            *)
(***************************************************************************)
EXTENDS HostCommand

CONSTANTS h1, h2, n1, n2

MCTarget == [c \in Client |-> IF c = h1 THEN n1 ELSE n2]

\* One tool never gives up, the other sends a command at most twice.
MCRetryLimit == [c \in Client |-> IF c = h1 THEN {NoLimit} ELSE {1}]
=============================================================================
