---------------------------- MODULE EchoService ----------------------------
(***************************************************************************)
(* What an echo server promises, with no processes, descriptors or buffers  *)
(* in sight: what each client has been answered is a first part of what it  *)
(* has asked; the answer only grows, for one client at a time, and never    *)
(* runs ahead of the question.                                              *)
(***************************************************************************)
EXTENDS Naturals, Sequences

CONSTANT Clients

VARIABLES asked, answered      \* client -> all it has said, all it has got back

vars == <<asked, answered>>

Begins(s, t) == Len(s) <= Len(t) /\ \A i \in 1 .. Len(s) : s[i] = t[i]

Init ==
  /\ asked = [c \in Clients |-> <<>>]
  /\ answered = [c \in Clients |-> <<>>]

Ask(c) ==
  /\ Begins(asked[c], asked'[c])
  /\ asked' = [asked EXCEPT ![c] = asked'[c]]
  /\ UNCHANGED answered

Answer(c) ==
  /\ Begins(answered[c], answered'[c]) /\ Begins(answered'[c], asked[c])
  /\ answered' = [answered EXCEPT ![c] = answered'[c]]
  /\ UNCHANGED asked

Next == \E c \in Clients : Ask(c) \/ Answer(c)

Spec == Init /\ [][Next]_vars
=============================================================================
