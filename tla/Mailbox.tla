------------------------------- MODULE Mailbox -------------------------------
(***************************************************************************)
(* What a serial receiver promises to the main loop: a few slots, each of  *)
(* which is empty or holds one whole message.  The receiver puts a message *)
(* into an empty slot in one step, the main loop takes a message out of a  *)
(* slot in one step, and a message is taken exactly as it was put.  The    *)
(* order in which slots are emptied is not promised.                       *)
(***************************************************************************)

CONSTANTS
  Slot,     \* the receive buffers
  Message,  \* the messages a slot can hold
  Nothing   \* an empty slot, or no message being handled;
            \* not a member of Message

VARIABLES
  slot,     \* [Slot -> Message \cup {Nothing}]
  taken     \* the message the main loop is handling, or Nothing

mailboxVars == <<slot, taken>>

Init ==
  /\ slot = [s \in Slot |-> Nothing]
  /\ taken = Nothing

Put(s, m) ==
  /\ slot[s] = Nothing
  /\ slot' = [slot EXCEPT ![s] = m]
  /\ UNCHANGED taken

Take(s) ==
  /\ taken = Nothing
  /\ slot[s] # Nothing
  /\ taken' = slot[s]
  /\ slot' = [slot EXCEPT ![s] = Nothing]

Done ==
  /\ taken # Nothing
  /\ taken' = Nothing
  /\ UNCHANGED slot

Next ==
  \/ \E s \in Slot, m \in Message : Put(s, m)
  \/ \E s \in Slot : Take(s)
  \/ Done

Spec == Init /\ [][Next]_mailboxVars

=============================================================================
