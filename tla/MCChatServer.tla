---------------------------- MODULE MCChatServer ----------------------------
(* ChatServer for TLC: the clients are interchangeable.                     *)
EXTENDS ChatServer, TLC

Symmetry == Permutations(Clients)
=============================================================================
