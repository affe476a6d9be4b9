----------------------------- MODULE ChatServer -----------------------------
(***************************************************************************)
(* TCPIP_programing/thread/chat_server.cpp: the main thread accepts         *)
(* clients, records their sockets in clnt_socks and starts a detached       *)
(* thread for each; a thread writes all it reads to every recorded socket.  *)
(*                                                                          *)
(* Each accept has a number; handler h is the thread started after accept   *)
(* number h.  The thread is given the ADDRESS of main's clnt_sock and reads *)
(* it when it first runs, possibly after later accepts have replaced it.    *)
(*                                                                          *)
(* External: clients and the kernel.  accept returns the lowest free        *)
(* descriptor or fails; a client's message is what one read returns; a      *)
(* write to a client that has closed is lost, or ends the server by         *)
(* SIGPIPE; a write never blocks.  Fewer than MAX_CLNT accepts happen.      *)
(***************************************************************************)
EXTENDS Integers, Sequences, FiniteSets

CONSTANTS
  Clients,       \* each connects at most once
  NoClient,      \* a descriptor that is not open
  MaxAccepts,    \* bound on the calls of accept
  MaxMsgs        \* bound on the messages of one client

ASSUME ChatAssumption ==
  /\ IsFiniteSet(Clients) /\ NoClient \notin Clients
  /\ MaxAccepts \in Nat \ {0} /\ MaxMsgs \in Nat

Handlers == 1 .. MaxAccepts
Fds == 1 .. Cardinality(Clients)   \* enough for the lowest free one
NoFd == -1                         \* accept failed
NoMsg == <<>>                      \* what is "sent" after a failed read
Messages == Clients \X (1 .. MaxMsgs)
Free == 0                          \* mutx is free, or held by a handler

VARIABLES
  mpc, accepts, clnt_sock,         \* main: where it is, accepts done, its local
  clnt_cnt, clnt_socks, mutx,      \* the globals
  hpc, hsock, hconn, hmsg, hi,     \* handlers: where, clnt_sock, connection being
                                   \* read, message, loop index of send_msg
  fds,                             \* descriptor -> connection
  cpc, sent, outbox, inbox,        \* clients: where, messages sent, unread by the
                                   \* server, received
  up                               \* the server process is alive

main == <<mpc, accepts, clnt_sock>>
registry == <<clnt_cnt, clnt_socks>>
handler == <<hpc, hsock, hconn, hmsg, hi>>
clients == <<cpc, sent, outbox, inbox>>
vars == <<main, registry, mutx, handler, fds, clients, up>>

Init ==
  /\ mpc = "accept" /\ accepts = 0 /\ clnt_sock = NoFd
  /\ clnt_cnt = 0 /\ clnt_socks = [i \in 0 .. MaxAccepts |-> NoFd]
  /\ mutx = Free
  /\ hpc = [h \in Handlers |-> "none"] /\ hsock = [h \in Handlers |-> NoFd]
  /\ hconn = [h \in Handlers |-> NoClient] /\ hmsg = [h \in Handlers |-> NoMsg]
  /\ hi = [h \in Handlers |-> 0]
  /\ fds = [f \in Fds |-> NoClient]
  /\ cpc = [c \in Clients |-> "away"] /\ sent = [c \in Clients |-> 0]
  /\ outbox = [c \in Clients |-> <<>>] /\ inbox = [c \in Clients |-> <<>>]
  /\ up = TRUE
-----------------------------------------------------------------------------
(* The main thread.                                                         *)

LowestFree(f) == fds[f] = NoClient /\ \A g \in Fds : g < f => fds[g] # NoClient
MainStep(from, to) == mpc = from /\ mpc' = to

Accept(c, f) ==
  /\ MainStep("accept", "register") /\ accepts < MaxAccepts
  /\ cpc[c] = "knocking" /\ LowestFree(f)
  /\ cpc' = [cpc EXCEPT ![c] = "in"]
  /\ fds' = [fds EXCEPT ![f] = c]
  /\ clnt_sock' = f
  /\ accepts' = accepts + 1
  /\ UNCHANGED <<registry, mutx, handler, sent, outbox, inbox, up>>

(* The result of accept is not tested.                                      *)
AcceptFails ==
  /\ MainStep("accept", "register") /\ accepts < MaxAccepts
  /\ clnt_sock' = NoFd
  /\ accepts' = accepts + 1
  /\ UNCHANGED <<registry, mutx, handler, fds, clients, up>>

RegisterUnlocked ==   \* mutant of Register: mutx is not taken
  /\ MainStep("register", "spawn")
  /\ clnt_socks' = [clnt_socks EXCEPT ![clnt_cnt] = clnt_sock]
  /\ clnt_cnt' = clnt_cnt + 1
  /\ UNCHANGED <<accepts, clnt_sock, mutx, handler, fds, clients, up>>

Register ==
  /\ MainStep("register", "spawn")
  /\ mutx = Free
  /\ clnt_socks' = [clnt_socks EXCEPT ![clnt_cnt] = clnt_sock]
  /\ clnt_cnt' = clnt_cnt + 1
  /\ UNCHANGED <<accepts, clnt_sock, mutx, handler, fds, clients, up>>

Spawn ==
  /\ MainStep("spawn", "accept")
  /\ hpc' = [hpc EXCEPT ![accepts] = "start"]
  /\ UNCHANGED <<accepts, clnt_sock, registry, mutx, hsock, hconn, hmsg, hi, fds,
                 clients, up>>
-----------------------------------------------------------------------------
(* handle_clnt and send_msg.                                                *)

HandlerStep(h, from, to) == hpc[h] = from /\ hpc' = [hpc EXCEPT ![h] = to]

ReadArg(h) ==
  /\ HandlerStep(h, "start", "call")
  /\ hsock' = [hsock EXCEPT ![h] = clnt_sock]
  /\ UNCHANGED <<main, registry, mutx, hconn, hmsg, hi, fds, clients, up>>

Connection(f) == IF f \in Fds THEN fds[f] ELSE NoClient

(* read looks the descriptor up once and then waits on that connection,     *)
(* even if the descriptor is closed or reused meanwhile.                    *)
CallRead(h) ==
  /\ Connection(hsock[h]) # NoClient
  /\ HandlerStep(h, "call", "read")
  /\ hconn' = [hconn EXCEPT ![h] = Connection(hsock[h])]
  /\ UNCHANGED <<main, registry, mutx, hsock, hmsg, hi, fds, clients, up>>

(* read returns -1, which is not 0: the handler "sends" -1 bytes.           *)
ReadFails(h) ==
  /\ Connection(hsock[h]) = NoClient
  /\ HandlerStep(h, "call", "send")
  /\ hmsg' = [hmsg EXCEPT ![h] = NoMsg]
  /\ UNCHANGED <<main, registry, mutx, hsock, hconn, hi, fds, clients, up>>

ReadMsg(h) ==
  /\ HandlerStep(h, "read", "send")
  /\ LET c == hconn[h]
     IN  /\ outbox[c] # <<>>
         /\ hmsg' = [hmsg EXCEPT ![h] = Head(outbox[c])]
         /\ outbox' = [outbox EXCEPT ![c] = Tail(outbox[c])]
  /\ hconn' = [hconn EXCEPT ![h] = NoClient]
  /\ UNCHANGED <<main, registry, mutx, hsock, hi, fds, cpc, sent, inbox, up>>

ReadEnd(h) ==
  /\ HandlerStep(h, "read", "leave")
  /\ cpc[hconn[h]] = "closed" /\ outbox[hconn[h]] = <<>>
  /\ hconn' = [hconn EXCEPT ![h] = NoClient]
  /\ UNCHANGED <<main, registry, mutx, hsock, hmsg, hi, fds, clients, up>>

LockToSendUnlocked(h) ==   \* mutant of LockToSend: mutx is not waited for
  /\ HandlerStep(h, "send", "write")
  /\ mutx' = h
  /\ hi' = [hi EXCEPT ![h] = 0]
  /\ UNCHANGED <<main, registry, hsock, hconn, hmsg, fds, clients, up>>

LockToSend(h) ==
  /\ HandlerStep(h, "send", "write")
  /\ mutx = Free /\ mutx' = h
  /\ hi' = [hi EXCEPT ![h] = 0]
  /\ UNCHANGED <<main, registry, hsock, hconn, hmsg, fds, clients, up>>

(* Mutant of Write: the loop runs once too often.                           *)
WriteOneMore(h) ==
  /\ hpc[h] = "write" /\ hi[h] <= clnt_cnt
  /\ hi' = [hi EXCEPT ![h] = @ + 1]
  /\ UNCHANGED <<main, registry, mutx, hpc, hsock, hconn, hmsg, fds, clients, up>>

(* One write of the loop.  With -1 as its length, or no open descriptor, it *)
(* fails without effect.  The descriptor is looked up without any lock.     *)
Write(h) ==
  /\ hpc[h] = "write" /\ hi[h] < clnt_cnt
  /\ hi' = [hi EXCEPT ![h] = @ + 1]
  /\ LET c == Connection(clnt_socks[hi[h]])
     IN  IF hmsg[h] = NoMsg \/ c = NoClient THEN UNCHANGED <<inbox, up>>
         ELSE IF cpc[c] = "closed" THEN up' \in BOOLEAN /\ UNCHANGED inbox
         ELSE inbox' = [inbox EXCEPT ![c] = Append(@, hmsg[h])] /\ UNCHANGED up
  /\ UNCHANGED <<main, registry, mutx, hpc, hsock, hconn, hmsg, fds, cpc, sent, outbox>>

(* Mutant of AllWritten: mutx stays locked.                                 *)
AllWrittenLocked(h) ==
  /\ hi[h] >= clnt_cnt
  /\ HandlerStep(h, "write", "call")
  /\ UNCHANGED <<main, registry, mutx, hsock, hconn, hmsg, hi, fds, clients, up>>

AllWritten(h) ==
  /\ hi[h] >= clnt_cnt
  /\ HandlerStep(h, "write", "call")
  /\ mutx' = Free
  /\ hmsg' = [hmsg EXCEPT ![h] = NoMsg]
  /\ hi' = [hi EXCEPT ![h] = 0]
  /\ UNCHANGED <<main, registry, hsock, hconn, fds, clients, up>>

(* Lines 101 to 111.  The inner loop increments i before it copies: from    *)
(* the first entry k equal to the socket, entries k+1 and up move down, so  *)
(* entry k stays and entry k+1 is lost.                                     *)
FirstEntry(s, k) == clnt_socks[k] = s /\ \A j \in 0 .. k - 1 : clnt_socks[j] # s
Removed(s) ==
  [i \in 0 .. MaxAccepts |->
    IF \E k \in 0 .. clnt_cnt - 1 : FirstEntry(s, k) /\ i \in k + 1 .. clnt_cnt - 1
    THEN clnt_socks[i + 1] ELSE clnt_socks[i]]

(* Mutant of Leave: clnt_cnt is decremented only for an entry that is found.*)
LeaveIfFound(h) ==
  /\ HandlerStep(h, "leave", "close")
  /\ mutx = Free
  /\ clnt_socks' = Removed(hsock[h])
  /\ clnt_cnt' = IF \E k \in 0 .. clnt_cnt - 1 : clnt_socks[k] = hsock[h]
                 THEN clnt_cnt - 1 ELSE clnt_cnt
  /\ UNCHANGED <<main, mutx, hsock, hconn, hmsg, hi, fds, clients, up>>

Leave(h) ==
  /\ HandlerStep(h, "leave", "close")
  /\ mutx = Free
  /\ clnt_socks' = Removed(hsock[h])
  /\ clnt_cnt' = clnt_cnt - 1
  /\ UNCHANGED <<main, mutx, hsock, hconn, hmsg, hi, fds, clients, up>>

(* close, outside the lock; it may hit a descriptor that is closed already  *)
(* or that is another client's by now.                                      *)
Close(h) ==
  /\ HandlerStep(h, "close", "done")
  /\ fds' = [f \in Fds |-> IF f = hsock[h] THEN NoClient ELSE fds[f]]
  /\ UNCHANGED <<main, registry, mutx, hsock, hconn, hmsg, hi, clients, up>>

HandlerLocks(h) == LockToSend(h) \/ Leave(h)
HandlerRuns(h) ==
  \/ ReadArg(h) \/ CallRead(h) \/ ReadFails(h) \/ ReadMsg(h) \/ ReadEnd(h)
  \/ Write(h) \/ AllWritten(h) \/ Close(h)
-----------------------------------------------------------------------------
(* Clients (external).                                                      *)

Connect(c) ==
  /\ cpc[c] = "away" /\ cpc' = [cpc EXCEPT ![c] = "knocking"]
  /\ UNCHANGED <<main, registry, mutx, handler, fds, sent, outbox, inbox, up>>

Say(c) ==
  /\ cpc[c] \in {"knocking", "in"} /\ sent[c] < MaxMsgs
  /\ sent' = [sent EXCEPT ![c] = @ + 1]
  /\ outbox' = [outbox EXCEPT ![c] = Append(@, <<c, sent[c] + 1>>)]
  /\ UNCHANGED <<main, registry, mutx, handler, fds, cpc, inbox, up>>

HangUp(c) ==
  /\ cpc[c] = "in" /\ cpc' = [cpc EXCEPT ![c] = "closed"]
  /\ UNCHANGED <<main, registry, mutx, handler, fds, sent, outbox, inbox, up>>
-----------------------------------------------------------------------------
MainRuns == (\E c \in Clients, f \in Fds : Accept(c, f)) \/ Spawn

Next ==   \* nothing happens after a SIGPIPE
  /\ up
  /\ \/ MainRuns \/ AcceptFails \/ Register
     \/ \E h \in Handlers : HandlerLocks(h) \/ HandlerRuns(h)
     \/ \E c \in Clients : Connect(c) \/ Say(c) \/ HangUp(c)

Spec == Init /\ [][Next]_vars

(* Threads that can run do; mutx, free again and again, is got by everyone  *)
(* who wants it.  Clients do nothing they do not want, accept need not fail.*)
Fairness ==
  /\ WF_vars(up /\ MainRuns) /\ SF_vars(up /\ Register)
  /\ \A h \in Handlers : SF_vars(up /\ HandlerLocks(h)) /\ WF_vars(up /\ HandlerRuns(h))

FairSpec == Spec /\ Fairness
-----------------------------------------------------------------------------
(* Properties.                                                              *)

TypeOK ==
  /\ mpc \in {"accept", "register", "spawn"} /\ accepts \in 0 .. MaxAccepts
  /\ clnt_sock \in Fds \cup {NoFd}
  /\ clnt_cnt \in 0 .. MaxAccepts
  /\ clnt_socks \in [0 .. MaxAccepts -> Fds \cup {NoFd}]
  /\ mutx \in Handlers \cup {Free}
  /\ hpc \in [Handlers -> {"none", "start", "call", "read", "send", "write", "leave",
                           "close", "done"}]
  /\ hsock \in [Handlers -> Fds \cup {NoFd}]
  /\ hconn \in [Handlers -> Clients \cup {NoClient}]
  /\ hmsg \in [Handlers -> Messages \cup {NoMsg}]
  /\ hi \in [Handlers -> 0 .. MaxAccepts]
  /\ fds \in [Fds -> Clients \cup {NoClient}]
  /\ cpc \in [Clients -> {"away", "knocking", "in", "closed"}]
  /\ sent \in [Clients -> 0 .. MaxMsgs]
  /\ outbox \in [Clients -> Seq(Messages)] /\ inbox \in [Clients -> Seq(Messages)]
  /\ up \in BOOLEAN

(* clnt_cnt is the number of accepts recorded and not yet taken back by the *)
(* handler started for them: it cannot drift, whatever descriptors the      *)
(* handlers end up with, and is at least 1 where a handler decrements it.   *)
Departed == {h \in Handlers : hpc[h] \in {"close", "done"}}
Recorded == IF mpc = "register" THEN accepts - 1 ELSE accepts
CountIsHandlers == clnt_cnt = Recorded - Cardinality(Departed)

(* Two clients that both receive two messages receive them in the same      *)
(* order: a broadcast is over before the next one starts.                   *)
Before(c, m, n) ==
  \E i, j \in 1 .. Len(inbox[c]) : i < j /\ inbox[c][i] = m /\ inbox[c][j] = n
SameOrder ==
  \A c, d \in Clients, m, n \in Messages :
    m # n /\ Before(c, m, n) => ~Before(d, n, m)

(* The server implements ChatService.  A message waits from the time it is  *)
(* said until the handler that has read it gets mutx (line 121); whoever    *)
(* holds mutx is telling its message.                                       *)
Said == {m \in Messages : m[2] <= sent[m[1]]}
Waits(m) ==
  \/ \E i \in 1 .. Len(outbox[m[1]]) : outbox[m[1]][i] = m
  \/ \E h \in Handlers : hpc[h] = "send" /\ hmsg[h] = m
Topic == IF mutx = Free THEN NoMsg ELSE hmsg[mutx]
Chat == INSTANCE ChatService WITH
  said <- Said, taken <- {m \in Said : ~Waits(m)}, topic <- Topic, heard <- inbox
ServesChat == Chat!Spec

(* The array a broadcast walks does not change under it.                    *)
RegistryStable ==
  [][(\E h \in Handlers : hpc[h] = "write") => UNCHANGED registry]_vars

(* A handler that has a message to send finishes sending it, however many   *)
(* others contend for mutx (or SIGPIPE ends the server).                    *)
BroadcastEnds ==
  \A h \in Handlers : (hpc[h] = "send") ~> (hpc[h] = "call" \/ ~up)

(* When a client is finished, its descriptor gets closed (line 99).         *)
FinishedClientIsClosed ==
  \A c \in Clients :
    (cpc[c] = "closed" /\ \E f \in Fds : fds[f] = c)
      ~> (~up \/ \A f \in Fds : fds[f] # c)
=============================================================================
