---------------------------- MODULE ChatService ----------------------------
(***************************************************************************)
(* What a chat server promises, with no threads, lock or sockets in sight:  *)
(* it takes up one message at a time, each once and only after it was said, *)
(* and tells it to clients until it drops it.  So all clients hear the      *)
(* messages in the order in which they are taken up, although a client may  *)
(* miss one, or hear it more than once before the next.                     *)
(***************************************************************************)
EXTENDS Sequences

CONSTANTS Clients, Messages, NoMsg

VARIABLES
  said, taken,       \* messages that were said, that were taken up
  topic,             \* the one that is being told, or NoMsg
  heard              \* client -> all it has been told

vars == <<said, taken, topic, heard>>

Init ==
  /\ said = {} /\ taken = {} /\ topic = NoMsg
  /\ heard = [c \in Clients |-> <<>>]

Say(m) ==
  /\ m \notin said /\ said' = said \cup {m}
  /\ UNCHANGED <<taken, topic, heard>>

TakeUp(m) ==
  /\ topic = NoMsg /\ topic' = m
  /\ m \in said \ taken /\ taken' = taken \cup {m}
  /\ UNCHANGED <<said, heard>>

Tell(c) ==
  /\ topic # NoMsg
  /\ heard' = [heard EXCEPT ![c] = Append(@, topic)]
  /\ UNCHANGED <<said, taken, topic>>

Drop ==
  /\ topic # NoMsg /\ topic' = NoMsg
  /\ UNCHANGED <<said, taken, heard>>

Next ==
  \/ \E m \in Messages : Say(m) \/ TakeUp(m)
  \/ \E c \in Clients : Tell(c)
  \/ Drop

Spec == Init /\ [][Next]_vars
=============================================================================
