------------------------------ MODULE RemoteCall ------------------------------
(***************************************************************************)
(* What a command handler promises to the tool that calls it: when a call  *)
(* returns a reply, the node has carried out the command of this very call *)
(* at least once.  How often, and whether it was carried out when the call *)
(* gives up, is not promised.                                              *)
(***************************************************************************)

CONSTANT Client

VARIABLES
  state,  \* [Client -> {"calling", "answered", "none"}]: a call is under way,
          \* or the last one has returned a reply, or none
  done    \* [Client -> BOOLEAN]: the last command was carried out

promiseVars == <<state, done>>

Init ==
  /\ state = [c \in Client |-> "none"]
  /\ done = [c \in Client |-> TRUE]

Call(c) ==
  /\ state[c] # "calling"
  /\ state' = [state EXCEPT ![c] = "calling"]
  /\ done' = [done EXCEPT ![c] = FALSE]

CarryOut(c) ==
  /\ done' = [done EXCEPT ![c] = TRUE]
  /\ UNCHANGED state

Answer(c) ==
  /\ state[c] = "calling"
  /\ done[c]
  /\ state' = [state EXCEPT ![c] = "answered"]
  /\ UNCHANGED done

GiveUp(c) ==
  /\ state[c] = "calling"
  /\ state' = [state EXCEPT ![c] = "none"]
  /\ UNCHANGED done

Next == \E c \in Client : Call(c) \/ CarryOut(c) \/ Answer(c) \/ GiveUp(c)

Spec == Init /\ [][Next]_promiseVars
=============================================================================
