----------------------------- MODULE ForkServer -----------------------------
(***************************************************************************)
(* Processes/concurrent_server.cpp: an echo server that forks a process for *)
(* each client.  A socket lives until every process that holds a descriptor *)
(* of it has closed it; holds[p] is the set of sockets process p holds.     *)
(*                                                                          *)
(* External: clients connect, talk and hang up; a child may be stopped and  *)
(* continued from outside; fork may fail; a write to a client that hung up  *)
(* is lost or ends the process by SIGPIPE; a message is what one read       *)
(* returns, named by its number.                                            *)
(***************************************************************************)
EXTENDS ChildReaper, Sequences

CONSTANTS
  Server,        \* the parent process
  Listener,      \* serv_sock
  MaxMsgs        \* bound on the messages of a client

Clients == Kids                    \* the child forked for client c is named c
Procs == {Server} \cup Kids

ASSUME ForkAssumption ==
  Server \notin Kids /\ Listener \notin Kids /\ MaxMsgs \in Nat

VARIABLES
  ppc, clnt_sock,    \* the server: where it is, the client it has accepted
  holds,             \* process -> sockets it holds a descriptor of
  kpc, message,      \* children: where they are, what they have read
  client,            \* "away", "queued", "in", "gone"
  said, unread, got  \* messages sent, not yet read by the child, echoed back

server == <<ppc, clnt_sock>>
child == <<kpc, message>>
talk == <<client, said, unread, got>>
vars == <<reaper, server, holds, child, talk>>

Init ==
  /\ ReaperInit
  /\ ppc = "accept" /\ clnt_sock = Listener
  /\ holds = [p \in Procs |-> IF p = Server THEN {Listener} ELSE {}]
  /\ kpc = [k \in Kids |-> "none"] /\ message = [k \in Kids |-> 0]
  /\ client = [c \in Clients |-> "away"] /\ said = [c \in Clients |-> 0]
  /\ unread = [c \in Clients |-> <<>>] /\ got = [c \in Clients |-> <<>>]

Closes(p, s) == holds' = [holds EXCEPT ![p] = @ \ {s}]
-----------------------------------------------------------------------------
(* The server, while no signal handler runs.                                *)

ServerStep(from, to) == hpc = "out" /\ ppc = from /\ ppc' = to

Accept(c) ==
  /\ ServerStep("accept", "fork")
  /\ client[c] = "queued"
  /\ client' = [client EXCEPT ![c] = "in"]
  /\ clnt_sock' = c
  /\ holds' = [holds EXCEPT ![Server] = @ \cup {c}]
  /\ UNCHANGED <<reaper, child, said, unread, got>>

Fork ==
  /\ ServerStep("fork", "close")
  /\ Forks(clnt_sock)
  /\ holds' = [holds EXCEPT ![clnt_sock] = holds[Server]]
  /\ kpc' = [kpc EXCEPT ![clnt_sock] = "born"]
  /\ UNCHANGED <<clnt_sock, message, talk>>

ForkFails ==
  /\ ServerStep("fork", "accept")
  /\ Closes(Server, clnt_sock)
  /\ clnt_sock' = Listener
  /\ UNCHANGED <<reaper, child, talk>>

KeepClient ==   \* mutant of CloseClient: the server keeps the descriptor
  /\ ServerStep("close", "accept")
  /\ clnt_sock' = Listener
  /\ UNCHANGED <<reaper, holds, child, talk>>

CloseClient ==
  /\ ServerStep("close", "accept")
  /\ Closes(Server, clnt_sock)
  /\ clnt_sock' = Listener
  /\ UNCHANGED <<reaper, child, talk>>
-----------------------------------------------------------------------------
(* A child.                                                                 *)

(* A stopped process takes no step.                                         *)
ChildStep(k, from, to) ==
  kid[k] = "running" /\ kpc[k] = from /\ kpc' = [kpc EXCEPT ![k] = to]

CloseListener(k) ==
  /\ ChildStep(k, "born", "read")
  /\ Closes(k, Listener)
  /\ UNCHANGED <<reaper, server, message, talk>>

ReadLast(k) ==   \* mutant of Read: what was sent first is skipped
  /\ ChildStep(k, "read", "write")
  /\ unread[k] # <<>>
  /\ message' = [message EXCEPT ![k] = unread[k][Len(unread[k])]]
  /\ unread' = [unread EXCEPT ![k] = <<>>]
  /\ UNCHANGED <<reaper, server, holds, client, said, got>>

(* Mutant of Read: a read that got nothing is taken for message 0.          *)
ReadUntested(k) ==
  /\ ChildStep(k, "read", "write")
  /\ message' = [message EXCEPT ![k] = IF unread[k] = <<>> THEN 0 ELSE Head(unread[k])]
  /\ unread' = [unread EXCEPT ![k] = IF @ = <<>> THEN @ ELSE Tail(@)]
  /\ UNCHANGED <<reaper, server, holds, client, said, got>>

Read(k) ==
  /\ ChildStep(k, "read", "write")
  /\ unread[k] # <<>>
  /\ message' = [message EXCEPT ![k] = Head(unread[k])]
  /\ unread' = [unread EXCEPT ![k] = Tail(unread[k])]
  /\ UNCHANGED <<reaper, server, holds, client, said, got>>

(* read returns 0.  A connection that was reset may return -1 first, which  *)
(* the loop takes for data; its write of -1 bytes fails without effect.     *)
ReadEnd(k) ==
  /\ ChildStep(k, "read", "bye")
  /\ unread[k] = <<>> /\ client[k] = "gone"
  /\ UNCHANGED <<reaper, server, holds, message, talk>>

Write(k) ==
  /\ ChildStep(k, "write", "read")
  /\ got' = IF client[k] = "gone" THEN got ELSE [got EXCEPT ![k] = Append(@, message[k])]
  /\ UNCHANGED <<reaper, server, holds, message, client, said, unread>>

(* The kernel closes what an exiting process holds.                         *)
WriteKills(k) ==
  /\ ChildStep(k, "write", "dead")
  /\ client[k] = "gone"
  /\ Exits(k)
  /\ holds' = [holds EXCEPT ![k] = {}]
  /\ UNCHANGED <<server, message, talk>>

HangUpChild(k) ==
  /\ ChildStep(k, "bye", "exit")
  /\ Closes(k, k)
  /\ UNCHANGED <<reaper, server, message, talk>>

Exit(k) ==
  /\ ChildStep(k, "exit", "dead")
  /\ Exits(k)
  /\ holds' = [holds EXCEPT ![k] = {}]
  /\ UNCHANGED <<server, message, talk>>

ChildRuns(k) ==
  \/ CloseListener(k) \/ Read(k) \/ ReadEnd(k) \/ Write(k) \/ WriteKills(k)
  \/ HangUpChild(k) \/ Exit(k)
-----------------------------------------------------------------------------
(* Clients (external).                                                      *)

Connect(c) ==
  /\ client[c] = "away" /\ client' = [client EXCEPT ![c] = "queued"]
  /\ UNCHANGED <<reaper, server, holds, child, said, unread, got>>

Say(c) ==
  /\ client[c] = "in" /\ said[c] < MaxMsgs
  /\ said' = [said EXCEPT ![c] = @ + 1]
  /\ unread' = [unread EXCEPT ![c] = Append(@, said[c] + 1)]
  /\ UNCHANGED <<reaper, server, holds, child, client, got>>

HangUp(c) ==
  /\ client[c] = "in" /\ client' = [client EXCEPT ![c] = "gone"]
  /\ UNCHANGED <<reaper, server, holds, child, said, unread, got>>
-----------------------------------------------------------------------------
Handler == HandlerRuns /\ UNCHANGED <<server, holds, child, talk>>
JobControl ==      \* external
  (\E k \in Kids : Stops(k) \/ Continues(k)) /\ UNCHANGED <<server, holds, child, talk>>
ServerRuns == (\E c \in Clients : Accept(c)) \/ Fork \/ ForkFails \/ CloseClient

Next ==
  \/ Handler \/ JobControl \/ ServerRuns
  \/ \E k \in Kids : ChildRuns(k)
  \/ \E c \in Clients : Connect(c) \/ Say(c) \/ HangUp(c)

Spec == Init /\ [][Next]_vars

-----------------------------------------------------------------------------
(* Properties.                                                              *)

TypeOK ==
  /\ ReaperTypeOK
  /\ ppc \in {"accept", "fork", "close"} /\ clnt_sock \in Clients \cup {Listener}
  /\ holds \in [Procs -> SUBSET (Clients \cup {Listener})]
  /\ kpc \in [Kids -> {"none", "born", "read", "write", "bye", "exit", "dead"}]
  /\ message \in [Kids -> 0 .. MaxMsgs]
  /\ client \in [Clients -> {"away", "queued", "in", "gone"}]
  /\ said \in [Clients -> 0 .. MaxMsgs]
  /\ unread \in [Clients -> Seq(1 .. MaxMsgs)] /\ got \in [Clients -> Seq(1 .. MaxMsgs)]

(* A child holds at most its own client's socket and, until it has closed   *)
(* it, the listener.                                                        *)
OwnSockets(k) == holds[k] \subseteq {k, Listener} /\ (Listener \in holds[k] => kpc[k] = "born")

(* Lines 101 to 106: no child of concurrent_server holds what is not its    *)
(* business, and the server waits in accept holding the listener alone, not *)
(* a descriptor of a client that a fork, failed or not, left behind.        *)
OnlyOwnSockets ==
  /\ \A k \in Kids : OwnSockets(k)
  /\ ppc = "accept" => holds[Server] = {Listener}

(* A client gets back what it sent: in order, nothing lost in between.      *)
EchoesInOrder == \A c \in Clients : \A i \in 1 .. Len(got[c]) : got[c][i] = i

(* The server is an echo service: message n of a client is the number n.    *)
Numbers(n) == [i \in 1 .. n |-> i]
Echo == INSTANCE EchoService WITH asked <- [c \in Clients |-> Numbers(said[c])], answered <- got

(* Whatever forks, exits and signals happen, an answer is never ahead of    *)
(* its question, never taken back and never another client's (107 to 111).  *)
ServesEcho == Echo!Spec
=============================================================================
