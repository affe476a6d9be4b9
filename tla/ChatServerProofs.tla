-------------------------- MODULE ChatServerProofs --------------------------
(***************************************************************************)
(* Theorems about ChatServer, and about it with the clients of ChatRoom,    *)
(* for any clients, accepts and messages: the count, the array, the one     *)
(* order in which all clients see the messages, and the service they make.  *)
(***************************************************************************)
EXTENDS ChatRoom, FiniteSetTheorems, SequenceTheorems, TLAPS

(* A thread exists from its Spawn on, after the accept of its number was    *)
(* recorded; it waits in read on a connection; it writes holding mutx.      *)
StartedAfterAccept ==
  \A h \in Handlers : hpc[h] # "none" => h <= accepts /\ (h = accepts => mpc = "accept")
ReadsFromSomeone == \A h \in Handlers : hpc[h] = "read" => hconn[h] \in Clients
WriterHoldsMutx == \A h \in Handlers : hpc[h] = "write" <=> mutx = h

ChatInv ==
  TypeOK /\ StartedAfterAccept /\ ReadsFromSomeone /\ WriterHoldsMutx /\ CountIsHandlers

LEMMA FdsAreNumbers == Cardinality(Clients) \in Nat
  BY ChatAssumption, FS_CardinalityType

LEMMA HandlerSets ==
  ASSUME NEW H \in SUBSET Handlers
  PROVE  IsFiniteSet(H) /\ Cardinality(H) \in Nat
<1>1. IsFiniteSet(Handlers)
  BY ChatAssumption, FS_Interval DEF Handlers
<1> QED
  BY <1>1, FS_Subset, FS_CardinalityType

(* A handler that is not gone leaves room under the count of the recorded.  *)
LEMMA RoomForOneMore ==
  ASSUME StartedAfterAccept, TypeOK, NEW h \in Handlers, hpc[h] \notin {"none", "close", "done"}
  PROVE  Cardinality(Departed) + 1 <= Recorded
<1> DEFINE D == Departed \cup {h}
<1>1. Recorded \in Nat /\ D \subseteq 1 .. Recorded
  <2>1. accepts \in Nat /\ h \in Nat /\ 1 <= h /\ h <= accepts /\ (h = accepts => mpc = "accept")
    BY ChatAssumption DEF StartedAfterAccept, TypeOK, Handlers
  <2>2. Recorded \in Nat
    BY <2>1 DEF Recorded
  <2>3. ASSUME NEW g \in D PROVE g \in 1 .. Recorded
    <3>1. /\ g \in Nat /\ 1 <= g /\ g <= accepts /\ (g = accepts => mpc = "accept")
      BY <2>1, <2>3, ChatAssumption DEF StartedAfterAccept, Departed, Handlers
    <3> QED
      BY <2>1, <3>1 DEF Recorded
  <2> QED
    BY <2>2, <2>3
<1>2. IsFiniteSet(1 .. Recorded) /\ Cardinality(1 .. Recorded) = Recorded
  <2>1. /\ IsFiniteSet(1 .. Recorded)
        /\ Cardinality(1 .. Recorded) = IF 1 > Recorded THEN 0 ELSE Recorded - 1 + 1
    BY <1>1, FS_Interval
  <2> QED
    BY <1>1, <2>1
<1>3. Cardinality(D) <= Recorded
  BY <1>1, <1>2, FS_Subset
<1>4. Departed \in SUBSET Handlers /\ h \notin Departed
  BY DEF Departed
<1>5. Cardinality(D) = Cardinality(Departed) + 1
  BY <1>4, HandlerSets, FS_AddElement
<1> QED
  BY <1>3, <1>5

(* The steps that are no one's departure or registration.                   *)
LEMMA CountUnchanged ==
  ASSUME CountIsHandlers, UNCHANGED <<clnt_cnt, Departed, Recorded>>
  PROVE  CountIsHandlers'
  BY DEF CountIsHandlers

LEMMA CountStep == ChatInv /\ [Next]_vars => CountIsHandlers' /\ clnt_cnt' \in 0 .. MaxAccepts
<1> SUFFICES ASSUME ChatInv, [Next]_vars
             PROVE  CountIsHandlers' /\ clnt_cnt' \in 0 .. MaxAccepts
  OBVIOUS
<1> USE ChatAssumption
<1>0. TypeOK /\ CountIsHandlers /\ StartedAfterAccept
  BY DEF ChatInv
<1>n. /\ clnt_cnt \in Nat /\ Cardinality(Departed) \in Nat /\ Recorded \in Int
      /\ accepts \in 0 .. MaxAccepts /\ clnt_cnt <= MaxAccepts
  BY <1>0, HandlerSets DEF TypeOK, Departed, Recorded
<1>q. CASE UNCHANGED <<clnt_cnt, Departed, Recorded>>
  BY <1>0, <1>n, <1>q, CountUnchanged
<1>1. CASE MainRuns \/ AcceptFails
  <2>1. Recorded' = Recorded
    BY <1>0, <1>1 DEF MainRuns, Accept, AcceptFails, Spawn, MainStep, Recorded, TypeOK
  <2>2. Departed' = Departed
    BY <1>0, <1>1 DEF MainRuns, Accept, AcceptFails, Spawn, MainStep, Departed, TypeOK, handler,
       StartedAfterAccept, Handlers
  <2> QED
    BY <1>q, <1>1, <2>1, <2>2 DEF MainRuns, Accept, AcceptFails, Spawn, registry
<1>2. CASE Register
  <2>1. Recorded' = Recorded + 1 /\ Recorded' = accepts /\ Departed' = Departed
    BY <1>0, <1>2 DEF Register, MainStep, Recorded, Departed, TypeOK, handler
  <2>2. clnt_cnt' = clnt_cnt + 1 /\ clnt_cnt = Recorded - Cardinality(Departed)
    BY <1>0, <1>2 DEF Register, CountIsHandlers
  <2>3. clnt_cnt' = Recorded' - Cardinality(Departed)
    BY <1>n, <2>1, <2>2
  <2> QED
    BY <1>n, <2>1, <2>2, <2>3 DEF CountIsHandlers
<1>3. ASSUME NEW h \in Handlers, Leave(h) PROVE CountIsHandlers' /\ clnt_cnt' \in 0 .. MaxAccepts
  <2>1. /\ hpc[h] = "leave" /\ h \notin Departed /\ Departed' = Departed \cup {h}
        /\ Departed \in SUBSET Handlers /\ Recorded' = Recorded /\ clnt_cnt' = clnt_cnt - 1
    BY <1>0, <1>3 DEF Leave, HandlerStep, Departed, Recorded, TypeOK, main
  <2>2. Cardinality(Departed') = Cardinality(Departed) + 1
    BY <2>1, HandlerSets, FS_AddElement
  <2>3. Cardinality(Departed) + 1 <= Recorded
    BY <1>0, <2>1, RoomForOneMore
  <2>4. clnt_cnt = Recorded - Cardinality(Departed)
    BY <1>0 DEF CountIsHandlers
  <2>5. clnt_cnt' = Recorded - (Cardinality(Departed) + 1)
    BY <1>n, <2>1, <2>4
  <2> QED
    BY <1>n, <2>1, <2>2, <2>3, <2>4, <2>5 DEF CountIsHandlers
<1>4. ASSUME NEW h \in Handlers, HandlerRuns(h) \/ LockToSend(h)
      PROVE  UNCHANGED <<clnt_cnt, Departed, Recorded>>
  <2>1. clnt_cnt' = clnt_cnt /\ Recorded' = Recorded
    BY <1>4 DEF HandlerRuns, ReadArg, CallRead, ReadFails, ReadMsg, ReadEnd, Write, AllWritten,
       Close, LockToSend, registry, main, Recorded
  <2>2. Departed' = Departed
    BY <1>0, <1>4 DEF HandlerRuns, ReadArg, CallRead, ReadFails, ReadMsg, ReadEnd, Write,
       AllWritten, Close, LockToSend, HandlerStep, Departed, TypeOK
  <2> QED
    BY <2>1, <2>2
<1>5. ASSUME NEW c \in Clients, Connect(c) \/ Say(c) \/ HangUp(c)
      PROVE  UNCHANGED <<clnt_cnt, Departed, Recorded>>
  BY <1>5 DEF Connect, Say, HangUp, registry, main, handler, Departed, Recorded
<1>6. CASE UNCHANGED vars
  BY <1>q, <1>6 DEF vars, registry, main, handler, Departed, Recorded
<1> QED
  BY <1>q, <1>1, <1>2, <1>3, <1>4, <1>5, <1>6 DEF Next, HandlerLocks

LEMMA TypingStep == ChatInv /\ [Next]_vars => TypeOK'
<1> SUFFICES ASSUME ChatInv, [Next]_vars PROVE TypeOK'
  OBVIOUS
<1>0. TypeOK /\ ReadsFromSomeone
  BY DEF ChatInv
<1>c. clnt_cnt' \in 0 .. MaxAccepts
  BY CountStep
<1> USE ChatAssumption, FdsAreNumbers, <1>0
<1> USE DEF TypeOK, MainStep, HandlerStep, main, registry, handler, clients
<1>1. ASSUME NEW c \in Clients, NEW f \in Fds, Accept(c, f) PROVE TypeOK'
  <2>1. clnt_sock' \in Fds \cup {NoFd} /\ accepts' \in 0 .. MaxAccepts
    BY <1>1 DEF Accept
  <2>2. fds' \in [Fds -> Clients \cup {NoClient}]
    BY <1>1 DEF Accept
  <2>3. cpc' \in [Clients -> {"away", "knocking", "in", "closed"}]
    BY <1>1 DEF Accept
  <2>4. mpc' = "register" /\ UNCHANGED <<registry, mutx, handler, sent, outbox, inbox, up>>
    BY <1>1 DEF Accept
  <2> QED
    BY <1>c, <2>1, <2>2, <2>3, <2>4
<1>2. CASE AcceptFails \/ Spawn
  <2>1. CASE AcceptFails
    BY <2>1, <1>c DEF AcceptFails
  <2>2. CASE Spawn
    BY <2>2, <1>c DEF Spawn
  <2> QED
    BY <1>2, <2>1, <2>2
<1>3. CASE Register
  <2>1. clnt_socks' \in [0 .. MaxAccepts -> Fds \cup {NoFd}]
    BY <1>3 DEF Register
  <2> QED
    BY <1>3, <1>c, <2>1 DEF Register
<1>4. ASSUME NEW h \in Handlers, ReadArg(h) PROVE TypeOK'
  BY <1>4, <1>c DEF ReadArg
<1>5. ASSUME NEW h \in Handlers, CallRead(h) PROVE TypeOK'
  BY <1>5, <1>c DEF CallRead, Connection
<1>6. ASSUME NEW h \in Handlers, ReadFails(h) PROVE TypeOK'
  BY <1>6, <1>c DEF ReadFails
<1>7. ASSUME NEW h \in Handlers, ReadMsg(h) PROVE TypeOK'
  <2>1. hconn[h] \in Clients
    BY <1>7 DEF ReadMsg, ReadsFromSomeone
  <2>2. Head(outbox[hconn[h]]) \in Messages /\ Tail(outbox[hconn[h]]) \in Seq(Messages)
    BY <1>7, <2>1 DEF ReadMsg
  <2>3. /\ hpc' = [hpc EXCEPT ![h] = "send"] /\ hconn' = [hconn EXCEPT ![h] = NoClient]
        /\ hmsg' = [hmsg EXCEPT ![h] = Head(outbox[hconn[h]])]
        /\ outbox' = [outbox EXCEPT ![hconn[h]] = Tail(outbox[hconn[h]])]
        /\ UNCHANGED <<main, registry, mutx, hsock, hi, fds, cpc, sent, inbox, up>>
    BY <1>7 DEF ReadMsg
  <2>4. hmsg' \in [Handlers -> Messages \cup {NoMsg}]
    BY <2>2, <2>3
  <2>5. outbox' \in [Clients -> Seq(Messages)]
    BY <2>1, <2>2, <2>3
  <2>6. /\ hpc' \in [Handlers -> {"none", "start", "call", "read", "send", "write", "leave",
                                  "close", "done"}]
        /\ hconn' \in [Handlers -> Clients \cup {NoClient}]
    BY <2>3
  <2>7. UNCHANGED <<main, registry, mutx, hsock, hi, fds, cpc, sent, inbox, up>>
    BY <2>3
  <2> QED
    BY <1>c, <2>4, <2>5, <2>6, <2>7
<1>8. ASSUME NEW h \in Handlers, ReadEnd(h) \/ AllWritten(h) PROVE TypeOK'
  <2>1. CASE ReadEnd(h)
    BY <2>1, <1>c DEF ReadEnd
  <2>2. CASE AllWritten(h)
    BY <2>2, <1>c DEF AllWritten
  <2> QED
    BY <1>8, <2>1, <2>2
<1>9. ASSUME NEW h \in Handlers, LockToSend(h) PROVE TypeOK'
  BY <1>9, <1>c DEF LockToSend
<1>10. ASSUME NEW h \in Handlers, Write(h) PROVE TypeOK'
  <2>1. hi' \in [Handlers -> 0 .. MaxAccepts]
    BY <1>10 DEF Write
  <2>2. inbox' \in [Clients -> Seq(Messages)] /\ up' \in BOOLEAN
    <3> DEFINE c == Connection(clnt_socks[hi[h]])
    <3>1. CASE hmsg[h] = NoMsg \/ c = NoClient \/ cpc[c] = "closed"
      BY <1>10, <3>1 DEF Write
    <3>2. CASE ~(hmsg[h] = NoMsg \/ c = NoClient \/ cpc[c] = "closed")
      <4>1. inbox' = [inbox EXCEPT ![c] = Append(@, hmsg[h])] /\ up' = up
        BY <1>10, <3>2 DEF Write
      <4>2. c \in Clients
        BY <3>2 DEF Connection
      <4>3. Append(inbox[c], hmsg[h]) \in Seq(Messages)
        BY <3>2, <4>2
      <4> HIDE DEF c
      <4> QED
        BY <4>1, <4>2, <4>3
    <3> QED
      BY <3>1, <3>2
  <2> QED
    BY <1>10, <1>c, <2>1, <2>2 DEF Write
<1>11. ASSUME NEW h \in Handlers, Leave(h) PROVE TypeOK'
  <2>1. Removed(hsock[h]) \in [0 .. MaxAccepts -> Fds \cup {NoFd}]
    BY DEF Removed
  <2> QED
    BY <1>11, <1>c, <2>1 DEF Leave
<1>12. ASSUME NEW h \in Handlers, Close(h) PROVE TypeOK'
  BY <1>12, <1>c DEF Close
<1>13. ASSUME NEW c \in Clients, Connect(c) \/ HangUp(c) PROVE TypeOK'
  BY <1>13, <1>c DEF Connect, HangUp
<1>14. ASSUME NEW c \in Clients, Say(c) PROVE TypeOK'
  <2>1. <<c, sent[c] + 1>> \in Messages
    BY <1>14 DEF Say, Messages
  <2>2. Append(outbox[c], <<c, sent[c] + 1>>) \in Seq(Messages)
    BY <2>1
  <2> QED
    BY <1>14, <1>c, <2>2 DEF Say
<1>15. CASE UNCHANGED vars
  BY <1>15, <1>c DEF vars
<1> QED
  BY <1>1, <1>2, <1>3, <1>4, <1>5, <1>6, <1>7, <1>8, <1>9, <1>10, <1>11, <1>12, <1>13, <1>14,
     <1>15 DEF Next, MainRuns, HandlerLocks, HandlerRuns
-----------------------------------------------------------------------------
LEMMA PlacesStep ==
  ChatInv /\ [Next]_vars => StartedAfterAccept' /\ ReadsFromSomeone' /\ WriterHoldsMutx'
<1> SUFFICES ASSUME ChatInv, [Next]_vars
             PROVE  StartedAfterAccept' /\ ReadsFromSomeone' /\ WriterHoldsMutx'
  OBVIOUS
<1> USE ChatAssumption, FdsAreNumbers
<1> USE DEF ChatInv, TypeOK, StartedAfterAccept, ReadsFromSomeone, WriterHoldsMutx, MainStep,
            HandlerStep, main, registry, handler, clients, Handlers, Free
<1>1. CASE MainRuns
  <2>1. ASSUME NEW c \in Clients, NEW f \in Fds, Accept(c, f)
        PROVE  StartedAfterAccept' /\ ReadsFromSomeone' /\ WriterHoldsMutx'
    BY <2>1 DEF Accept
  <2>2. CASE Spawn
    BY <2>2 DEF Spawn
  <2> QED
    BY <1>1, <2>1, <2>2 DEF MainRuns
<1>2. CASE AcceptFails \/ Register
  BY <1>2 DEF AcceptFails, Register
<1>3. ASSUME NEW h \in Handlers, HandlerLocks(h)
      PROVE  StartedAfterAccept' /\ ReadsFromSomeone' /\ WriterHoldsMutx'
  BY <1>3 DEF HandlerLocks, LockToSend, Leave
<1>4. ASSUME NEW h \in Handlers, HandlerRuns(h)
      PROVE  StartedAfterAccept' /\ ReadsFromSomeone' /\ WriterHoldsMutx'
  <2>1. CASE CallRead(h)
    <3>1. hconn'[h] \in Clients
      BY <2>1 DEF CallRead, Connection
    <3> QED
      BY <2>1, <3>1 DEF CallRead
  <2>2. CASE ReadArg(h) \/ ReadFails(h) \/ ReadMsg(h) \/ ReadEnd(h) \/ Close(h)
    BY <2>2 DEF ReadArg, ReadFails, ReadMsg, ReadEnd, Close
  <2>3. CASE Write(h)
    BY <2>3 DEF Write
  <2>4. CASE AllWritten(h)
    BY <2>4 DEF AllWritten
  <2> QED
    BY <1>4, <2>1, <2>2, <2>3, <2>4 DEF HandlerRuns
<1>5. ASSUME NEW c \in Clients, Connect(c) \/ Say(c) \/ HangUp(c)
      PROVE  StartedAfterAccept' /\ ReadsFromSomeone' /\ WriterHoldsMutx'
  BY <1>5 DEF Connect, Say, HangUp
<1>6. CASE UNCHANGED vars
  BY <1>6 DEF vars
<1> QED
  BY <1>1, <1>2, <1>3, <1>4, <1>5, <1>6 DEF Next

LEMMA ChatInvAlways == Spec => []ChatInv
<1>1. Init => ChatInv
  <2> SUFFICES ASSUME Init PROVE ChatInv
    OBVIOUS
  <2> USE ChatAssumption, FdsAreNumbers DEF Init, Handlers, Free, NoFd
  <2>1. TypeOK
    BY DEF TypeOK
  <2>2. Departed = {} /\ Recorded = 0
    BY DEF Departed, Recorded
  <2>3. CountIsHandlers
    BY <2>2, FS_EmptySet DEF CountIsHandlers
  <2> QED
    BY <2>1, <2>3 DEF ChatInv, StartedAfterAccept, ReadsFromSomeone, WriterHoldsMutx
<1>2. ChatInv /\ [Next]_vars => ChatInv'
  BY CountStep, TypingStep, PlacesStep DEF ChatInv
<1> QED
  BY <1>1, <1>2, PTL DEF Spec

(* Every variable keeps to its values; the array is never indexed out of    *)
(* its bounds as long as fewer than MAX_CLNT accepts happen.                *)
THEOREM Typing == Spec => []TypeOK
  BY ChatInvAlways, PTL DEF ChatInv

(* clnt_cnt counts the recorded clients whose handler has not left.         *)
THEOREM CountDoesNotDrift == Spec => []CountIsHandlers
  BY ChatInvAlways, PTL DEF ChatInv

(* clnt_socks and clnt_cnt do not change while a handler walks them.        *)
THEOREM NobodyMovesTheArray == Spec => RegistryStable
<1>1. ChatInv /\ [Next]_vars
      => [(\E h \in Handlers : hpc[h] = "write") => UNCHANGED registry]_vars
  <2> SUFFICES ASSUME ChatInv, Next, NEW h \in Handlers, hpc[h] = "write"
               PROVE  UNCHANGED registry
    OBVIOUS
  <2>1. mutx # Free
    BY ChatAssumption DEF ChatInv, WriterHoldsMutx, Handlers, Free
  <2>2. ~Register /\ \A g \in Handlers : ~Leave(g)
    BY <2>1 DEF Register, Leave
  <2>3. CASE MainRuns \/ AcceptFails
    BY <2>3 DEF MainRuns, Accept, Spawn, AcceptFails
  <2>4. ASSUME NEW g \in Handlers, LockToSend(g) \/ HandlerRuns(g) PROVE UNCHANGED registry
    BY <2>4 DEF LockToSend, HandlerRuns, ReadArg, CallRead, ReadFails, ReadMsg, ReadEnd, Write,
       AllWritten, Close
  <2>5. ASSUME NEW c \in Clients, Connect(c) \/ Say(c) \/ HangUp(c) PROVE UNCHANGED registry
    BY <2>5 DEF Connect, Say, HangUp
  <2> QED
    BY <2>2, <2>3, <2>4, <2>5 DEF Next, HandlerLocks
<1> QED
  BY <1>1, ChatInvAlways, PTL DEF Spec, RegistryStable
-----------------------------------------------------------------------------
(* One order.                                                               *)

(* The unread messages of a client are the last ones it has sent; what has  *)
(* been read from it are the ones before.                                   *)
ReadSoFar(c) == sent[c] - Len(outbox[c])
OutboxIsTail ==
  \A c \in Clients :
    /\ Len(outbox[c]) <= sent[c]
    /\ \A i \in 1 .. Len(outbox[c]) : outbox[c][i] = <<c, ReadSoFar(c) + i>>

(* Handlers and inboxes have messages that were read only, and no two       *)
(* handlers have the same one.                                              *)
IsRead(m) == m[2] <= ReadSoFar(m[1])
Received(c, m) == \E i \in 1 .. Len(inbox[c]) : inbox[c][i] = m
OnlyReadOnes ==
  /\ \A h \in Handlers : hmsg[h] # NoMsg => IsRead(hmsg[h])
  /\ \A c \in Clients, m \in Messages : Received(c, m) => IsRead(m)
HandlersApart ==
  \A g, h \in Handlers : hmsg[g] = hmsg[h] /\ hmsg[g] # NoMsg => g = h

(* A message that waits to be sent has reached nobody, and one that is      *)
(* being sent has nothing behind it in any inbox.                           *)
WaitingUnseen ==
  \A h \in Handlers : hpc[h] = "send" =>
    \A c \in Clients, m \in Messages : m = hmsg[h] => ~Received(c, m)
NothingBehind ==
  \A h \in Handlers : hpc[h] = "write" =>
    \A c \in Clients, m, n \in Messages : m = hmsg[h] /\ n # m => ~Before(c, m, n)

OrderInv ==
  OutboxIsTail /\ OnlyReadOnes /\ HandlersApart /\ WaitingUnseen /\ NothingBehind /\ SameOrder
-----------------------------------------------------------------------------
LEMMA Appended ==
  ASSUME NEW S, NEW s \in Seq(S), NEW e \in S
  PROVE  /\ Append(s, e) \in Seq(S) /\ Len(s) \in Nat /\ Len(Append(s, e)) = Len(s) + 1
         /\ Append(s, e)[Len(s) + 1] = e
         /\ \A i \in 1 .. Len(s) : Append(s, e)[i] = s[i]
         /\ \A i \in 1 .. Len(s) + 1 : i \in 1 .. Len(s) \/ i = Len(s) + 1
BY AppendProperties, LenProperties

LEMMA MessageParts ==
  ASSUME NEW m \in Messages
  PROVE  /\ m = <<m[1], m[2]>> /\ m[1] \in Clients /\ m[2] \in 1 .. MaxMsgs /\ m # NoMsg
BY DEF Messages, NoMsg

LEMMA InitOrder == Init => OrderInv
<1> SUFFICES ASSUME Init PROVE OrderInv
  OBVIOUS
<1>1. \A c \in Clients : /\ outbox[c] = <<>> /\ inbox[c] = <<>> /\ sent[c] = 0
                         /\ Len(outbox[c]) = 0 /\ 1 .. Len(inbox[c]) = {}
                         /\ 1 .. Len(outbox[c]) = {}
  BY DEF Init
<1>2. \A c \in Clients, m, n \in Messages : ~Received(c, m) /\ ~Before(c, m, n)
  BY <1>1 DEF Received, Before
<1>3. \A h \in Handlers : hmsg[h] = NoMsg /\ hpc[h] = "none"
  BY DEF Init
<1> QED
  BY <1>1, <1>2, <1>3 DEF OrderInv, OutboxIsTail, OnlyReadOnes, HandlersApart, WaitingUnseen,
     NothingBehind, SameOrder

(* A step in which no message moves and no handler begins to send or write. *)
LEMMA NoMessageMoves ==
  ASSUME OrderInv, UNCHANGED <<sent, outbox, inbox>>,
         \A h \in Handlers : hmsg'[h] \in {hmsg[h], NoMsg},
         \A h \in Handlers : hpc'[h] = "send" => hpc[h] = "send" \/ hmsg'[h] = NoMsg,
         \A h \in Handlers : hpc'[h] = "write" => hpc[h] = "write" /\ hmsg'[h] = hmsg[h]
  PROVE  OrderInv'
<1>1. \A c : ReadSoFar(c)' = ReadSoFar(c)
  BY DEF ReadSoFar
<1>2. /\ \A m : IsRead(m)' = IsRead(m)
      /\ \A c, m : Received(c, m)' = Received(c, m)
      /\ \A c, m, n : Before(c, m, n)' = Before(c, m, n)
  BY <1>1 DEF IsRead, Received, Before
<1>3. OutboxIsTail' /\ SameOrder'
  BY <1>1, <1>2 DEF OrderInv, OutboxIsTail, SameOrder
<1>4. OnlyReadOnes'
  BY <1>2 DEF OrderInv, OnlyReadOnes
<1>5. HandlersApart'
  BY DEF OrderInv, HandlersApart
<1>6. WaitingUnseen'
  BY <1>2, MessageParts DEF OrderInv, WaitingUnseen
<1>7. NothingBehind'
  BY <1>2 DEF OrderInv, NothingBehind
<1> QED
  BY <1>3, <1>4, <1>5, <1>6, <1>7 DEF OrderInv

LEMMA SayOrder == ASSUME ChatInv, OrderInv, NEW c \in Clients, Say(c) PROVE OrderInv'
<1>1. /\ sent' = [sent EXCEPT ![c] = sent[c] + 1]
      /\ outbox' = [outbox EXCEPT ![c] = Append(outbox[c], <<c, sent[c] + 1>>)]
      /\ UNCHANGED <<hpc, hmsg, inbox>> /\ sent[c] < MaxMsgs
  BY DEF Say, handler
<1>2. /\ outbox \in [Clients -> Seq(Messages)] /\ sent \in [Clients -> Nat]
      /\ sent[c] + 1 \in 1 .. MaxMsgs
  BY <1>1, ChatAssumption DEF ChatInv, TypeOK
<1>3. <<c, sent[c] + 1>> \in Messages
  BY <1>2 DEF Messages
<1>4. /\ sent'[c] = sent[c] + 1 /\ outbox'[c] = Append(outbox[c], <<c, sent[c] + 1>>)
      /\ \A d \in Clients : d # c => sent'[d] = sent[d] /\ outbox'[d] = outbox[d]
  BY <1>1, <1>2
<1>5. /\ Len(outbox[c]) \in Nat /\ Len(outbox'[c]) = Len(outbox[c]) + 1
      /\ outbox'[c][Len(outbox[c]) + 1] = <<c, sent[c] + 1>>
      /\ \A i \in 1 .. Len(outbox[c]) : outbox'[c][i] = outbox[c][i]
      /\ \A i \in 1 .. Len(outbox[c]) + 1 : i \in 1 .. Len(outbox[c]) \/ i = Len(outbox[c]) + 1
  BY <1>2, <1>3, <1>4, Appended
<1>6. \A d \in Clients : ReadSoFar(d)' = ReadSoFar(d)
  <2>1. sent[c] \in Int /\ sent'[c] - Len(outbox'[c]) = sent[c] - Len(outbox[c])
    BY <1>2, <1>4, <1>5
  <2> QED
    BY <1>4, <2>1 DEF ReadSoFar
<1>7. OutboxIsTail'
  <2> SUFFICES ASSUME NEW d \in Clients
               PROVE  /\ Len(outbox'[d]) <= sent'[d]
                      /\ \A i \in 1 .. Len(outbox'[d]) :
                           outbox'[d][i] = <<d, ReadSoFar(d) + i>>
    BY <1>6 DEF OutboxIsTail
  <2>1. /\ Len(outbox[d]) <= sent[d]
        /\ \A i \in 1 .. Len(outbox[d]) : outbox[d][i] = <<d, ReadSoFar(d) + i>>
    BY DEF OrderInv, OutboxIsTail
  <2>2. CASE d # c
    BY <1>4, <2>1, <2>2
  <2>3. CASE d = c
    <3>1. ReadSoFar(c) + (Len(outbox[c]) + 1) = sent[c] + 1
      BY <1>2, <1>5 DEF ReadSoFar
    <3>2. Len(outbox'[c]) <= sent'[c]
      BY <1>2, <1>4, <1>5, <2>1, <2>3
    <3>3. \A i \in 1 .. Len(outbox'[c]) : outbox'[c][i] = <<c, ReadSoFar(c) + i>>
      BY <1>5, <2>1, <2>3, <3>1
    <3> QED
      BY <2>3, <3>2, <3>3
  <2> QED
    BY <2>2, <2>3
<1>8. /\ \A m \in Messages : IsRead(m)' = IsRead(m)
      /\ \A d, m : Received(d, m)' = Received(d, m)
      /\ \A d, m, n : Before(d, m, n)' = Before(d, m, n)
  BY <1>1, <1>6, MessageParts DEF IsRead, Received, Before
<1>9. OnlyReadOnes'
  BY <1>1, <1>8 DEF ChatInv, TypeOK, OrderInv, OnlyReadOnes
<1> QED
  BY <1>1, <1>7, <1>8, <1>9
  DEF OrderInv, HandlersApart, WaitingUnseen, NothingBehind, SameOrder

LEMMA ReadMsgOrder == ASSUME ChatInv, OrderInv, NEW h \in Handlers, ReadMsg(h) PROVE OrderInv'
<1>0. PICK c \in Clients : c = hconn[h]
  BY DEF ReadMsg, HandlerStep, ChatInv, ReadsFromSomeone
<1>x. PICK x : x = <<c, ReadSoFar(c) + 1>>
  OBVIOUS
<1>1. /\ outbox[c] # <<>> /\ hpc[h] = "read"
      /\ hpc' = [hpc EXCEPT ![h] = "send"]
      /\ hmsg' = [hmsg EXCEPT ![h] = Head(outbox[c])]
      /\ outbox' = [outbox EXCEPT ![c] = Tail(outbox[c])]
      /\ UNCHANGED <<sent, inbox>>
  BY <1>0 DEF ReadMsg, HandlerStep
<1>2. /\ outbox \in [Clients -> Seq(Messages)] /\ sent \in [Clients -> Nat]
      /\ hmsg \in [Handlers -> Messages \cup {NoMsg}] /\ DOMAIN hpc = Handlers
  BY ChatAssumption DEF ChatInv, TypeOK
<1>3. /\ Len(outbox[c]) \in Nat \ {0} /\ Len(Tail(outbox[c])) = Len(outbox[c]) - 1
      /\ \A i \in 1 .. Len(Tail(outbox[c])) : Tail(outbox[c])[i] = outbox[c][i + 1]
      /\ Head(outbox[c]) = outbox[c][1] /\ Head(outbox[c]) \in Messages
  BY <1>1, <1>2, EmptySeq, HeadTailProperties
<1>4. Head(outbox[c]) = x /\ x \in Messages
  BY <1>x, <1>3 DEF OrderInv, OutboxIsTail
<1>5. /\ outbox'[c] = Tail(outbox[c])
      /\ \A d \in Clients : d # c => outbox'[d] = outbox[d]
      /\ hmsg'[h] = x /\ hpc'[h] = "send"
      /\ \A g \in Handlers : g # h => hmsg'[g] = hmsg[g] /\ hpc'[g] = hpc[g]
  BY <1>1, <1>2, <1>4
<1>6. /\ ReadSoFar(c)' = ReadSoFar(c) + 1
      /\ \A d \in Clients : d # c => ReadSoFar(d)' = ReadSoFar(d)
      /\ ReadSoFar(c) \in Int
  BY <1>1, <1>2, <1>3, <1>5 DEF ReadSoFar
<1>7. OutboxIsTail'
  <2> SUFFICES ASSUME NEW d \in Clients
               PROVE  /\ Len(outbox'[d]) <= sent[d]
                      /\ \A i \in 1 .. Len(outbox'[d]) :
                           outbox'[d][i] = <<d, ReadSoFar(d)' + i>>
    BY <1>1 DEF OutboxIsTail
  <2>1. /\ Len(outbox[d]) <= sent[d]
        /\ \A i \in 1 .. Len(outbox[d]) : outbox[d][i] = <<d, ReadSoFar(d) + i>>
    BY DEF OrderInv, OutboxIsTail
  <2>2. CASE d # c
    BY <1>5, <1>6, <2>1, <2>2
  <2>3. CASE d = c
    <3>1. ASSUME NEW i \in 1 .. Len(Tail(outbox[c]))
          PROVE  Tail(outbox[c])[i] = <<c, ReadSoFar(c)' + i>>
      <4>1. i + 1 \in 1 .. Len(outbox[c]) /\ i \in Nat
        BY <1>3
      <4>2. Tail(outbox[c])[i] = <<c, ReadSoFar(c) + (i + 1)>>
        BY <1>3, <2>1, <2>3, <4>1
      <4> QED
        BY <1>6, <4>1, <4>2
    <3>2. Len(Tail(outbox[c])) <= sent[c]
      BY <1>1, <1>2, <1>3, <2>1, <2>3
    <3> QED
      BY <1>5, <2>3, <3>1, <3>2
  <2> QED
    BY <2>2, <2>3
<1>8. ~IsRead(x) /\ IsRead(x)'
  BY <1>x, <1>6 DEF IsRead
<1>9. /\ \A m \in Messages : IsRead(m) => IsRead(m)'
      /\ \A d, m : Received(d, m)' = Received(d, m)
      /\ \A d, m, n : Before(d, m, n)' = Before(d, m, n)
  <2>1. ASSUME NEW m \in Messages, IsRead(m) PROVE IsRead(m)'
    <3>1. m[1] \in Clients /\ m[2] \in Int
      BY MessageParts
    <3> QED
      BY <1>1, <1>6, <2>1, <3>1 DEF IsRead
  <2> QED
    BY <1>1, <2>1 DEF Received, Before
<1>10. OnlyReadOnes'
  <2>1. ASSUME NEW g \in Handlers, hmsg'[g] # NoMsg PROVE IsRead(hmsg[g])'
    <3>1. CASE g = h
      BY <1>5, <1>8, <3>1
    <3>2. CASE g # h
      <4>1. hmsg'[g] = hmsg[g] /\ hmsg[g] \in Messages /\ IsRead(hmsg[g])
        BY <1>2, <1>5, <2>1, <3>2 DEF OrderInv, OnlyReadOnes
      <4> QED
        BY <1>9, <4>1
    <3> QED
      BY <3>1, <3>2
  <2> QED
    BY <1>9, <2>1 DEF OrderInv, OnlyReadOnes
<1>11. HandlersApart'
  <2>1. \A g \in Handlers : hmsg[g] # NoMsg => hmsg[g] # x
    BY <1>8 DEF OrderInv, OnlyReadOnes
  <2>2. \A g \in Handlers : g # h => hmsg'[g] = hmsg[g] /\ (hmsg'[g] # NoMsg => hmsg'[g] # x)
    BY <1>5, <2>1
  <2> QED
    BY <1>5, <2>2 DEF OrderInv, HandlersApart
<1>12. \A d \in Clients : ~Received(d, x)
  BY <1>4, <1>8 DEF OrderInv, OnlyReadOnes
<1>13. WaitingUnseen'
  BY <1>5, <1>9, <1>12 DEF OrderInv, WaitingUnseen
<1>14. NothingBehind' /\ SameOrder'
  BY <1>5, <1>9 DEF OrderInv, NothingBehind, SameOrder
<1> QED
  BY <1>7, <1>10, <1>11, <1>13, <1>14 DEF OrderInv

(* A broadcast begins with a message that nobody has seen.                  *)
LEMMA LockToSendOrder ==
  ASSUME ChatInv, OrderInv, NEW h \in Handlers, LockToSend(h) PROVE OrderInv'
<1>1. /\ hpc[h] = "send" /\ hpc'[h] = "write"
      /\ \A g \in Handlers : g # h => hpc'[g] = hpc[g]
      /\ UNCHANGED <<sent, outbox, inbox, hmsg>>
  BY DEF LockToSend, HandlerStep, ChatInv, TypeOK, clients
<1>2. /\ \A c : ReadSoFar(c)' = ReadSoFar(c)
      /\ \A c, m : Received(c, m)' = Received(c, m)
      /\ \A c, m, n : Before(c, m, n)' = Before(c, m, n)
  BY <1>1 DEF ReadSoFar, Received, Before
<1>3. \A m : IsRead(m)' = IsRead(m)
  BY <1>2 DEF IsRead
<1>4. OutboxIsTail' /\ OnlyReadOnes' /\ HandlersApart' /\ SameOrder'
  BY <1>1, <1>2, <1>3 DEF OrderInv, OutboxIsTail, OnlyReadOnes, HandlersApart, SameOrder
<1>5. WaitingUnseen'
  BY <1>1, <1>2 DEF OrderInv, WaitingUnseen
<1>6. NothingBehind'
  <2>1. \A c \in Clients, m, n \in Messages : m = hmsg[h] => ~Before(c, m, n)
    BY <1>1 DEF OrderInv, WaitingUnseen, Received, Before
  <2> QED
    BY <1>1, <1>2, <2>1 DEF OrderInv, NothingBehind
<1> QED
  BY <1>4, <1>5, <1>6 DEF OrderInv

(* What is written comes behind all else.                                   *)
LEMMA WriteOrder == ASSUME ChatInv, OrderInv, NEW h \in Handlers, Write(h) PROVE OrderInv'
<1>x. PICK x : x = hmsg[h]
  OBVIOUS
<1>d. PICK d : d = Connection(clnt_socks[hi[h]])
  OBVIOUS
<1>1. /\ hpc[h] = "write" /\ UNCHANGED <<sent, outbox, hmsg, hpc>>
      /\ \A g \in Handlers : hpc[g] = "write" => g = h
  BY ChatAssumption DEF Write, ChatInv, WriterHoldsMutx
<1>2. CASE UNCHANGED inbox
  <2>1. \A g \in Handlers : hpc'[g] = hpc[g] /\ hmsg'[g] = hmsg[g]
    BY <1>1
  <2> QED
    BY <1>1, <1>2, <2>1, NoMessageMoves
<1>3. CASE ~UNCHANGED inbox
  <2>1. inbox' = [inbox EXCEPT ![d] = Append(@, x)] /\ x # NoMsg /\ d # NoClient
    BY <1>x, <1>d, <1>3 DEF Write
  <2>2. x \in Messages /\ d \in Clients /\ inbox \in [Clients -> Seq(Messages)]
    <3>1. hmsg \in [Handlers -> Messages \cup {NoMsg}] /\ inbox \in [Clients -> Seq(Messages)]
          /\ fds \in [Fds -> Clients \cup {NoClient}]
      BY DEF ChatInv, TypeOK
    <3> QED
      BY <1>x, <1>d, <2>1, <3>1 DEF Connection
  <2>3. /\ inbox'[d] = Append(inbox[d], x)
        /\ \A c \in Clients : c # d => inbox'[c] = inbox[c]
    BY <2>1, <2>2
  <2>4. /\ Len(inbox[d]) \in Nat /\ Len(inbox'[d]) = Len(inbox[d]) + 1
        /\ inbox'[d][Len(inbox[d]) + 1] = x
        /\ \A i \in 1 .. Len(inbox[d]) : inbox'[d][i] = inbox[d][i]
        /\ \A i \in 1 .. Len(inbox[d]) + 1 : i \in 1 .. Len(inbox[d]) \/ i = Len(inbox[d]) + 1
    BY <2>2, <2>3, Appended
  <2>5. \A c \in Clients, m \in Messages : Received(c, m)' => Received(c, m) \/ m = x
    BY <2>3, <2>4 DEF Received
  <2>6. \A c \in Clients, m, n \in Messages : Before(c, m, n)' => Before(c, m, n) \/ n = x
    <3> SUFFICES ASSUME NEW c \in Clients, NEW m \in Messages, NEW n \in Messages,
                        Before(c, m, n)', n # x
                 PROVE  Before(c, m, n)
      OBVIOUS
    <3>1. CASE c # d
      BY <2>3, <3>1 DEF Before
    <3>2. CASE c = d
      <4>1. PICK i \in 1 .. Len(inbox'[d]), j \in 1 .. Len(inbox'[d]) :
              i < j /\ inbox'[d][i] = m /\ inbox'[d][j] = n
        BY <3>2 DEF Before
      <4>2. j \in 1 .. Len(inbox[d])
        BY <2>4, <4>1
      <4>3. i \in 1 .. Len(inbox[d])
        BY <2>4, <4>1, <4>2
      <4> QED
        BY <2>4, <3>2, <4>1, <4>2, <4>3 DEF Before
    <3> QED
      BY <3>1, <3>2
  <2>7. \A c \in Clients, n \in Messages : n # x => ~Before(c, x, n)
    BY <1>x, <1>1, <2>2 DEF OrderInv, NothingBehind
  <2>8. \A c \in Clients, n \in Messages : n # x => ~Before(c, x, n)'
    BY <2>2, <2>6, <2>7
  <2>9. SameOrder'
    <3> SUFFICES ASSUME NEW c \in Clients, NEW e \in Clients,
                        NEW m \in Messages, NEW n \in Messages,
                        m # n, Before(c, m, n)', Before(e, n, m)'
                 PROVE  FALSE
      BY DEF SameOrder
    <3>1. m # x /\ n # x
      BY <2>8
    <3>2. Before(c, m, n) /\ Before(e, n, m)
      BY <2>6, <3>1
    <3> QED
      BY <3>2 DEF OrderInv, SameOrder
  <2>10. NothingBehind'
    BY <1>x, <1>1, <2>8 DEF NothingBehind
  <2>11. WaitingUnseen'
    <3> SUFFICES ASSUME NEW g \in Handlers, hpc[g] = "send",
                        NEW c \in Clients, NEW m \in Messages, m = hmsg[g], Received(c, m)'
                 PROVE  FALSE
      BY <1>1 DEF WaitingUnseen
    <3>1. g # h
      BY <1>1
    <3>2. m # x
      BY <1>x, <3>1, MessageParts DEF OrderInv, HandlersApart
    <3> QED
      BY <2>5, <3>2 DEF OrderInv, WaitingUnseen
  <2>12. \A m : IsRead(m)' = IsRead(m)
    BY <1>1 DEF IsRead, ReadSoFar
  <2>13. OutboxIsTail' /\ HandlersApart'
    BY <1>1 DEF OrderInv, OutboxIsTail, HandlersApart, ReadSoFar
  <2>14. OnlyReadOnes'
    <3>1. IsRead(x)
      BY <1>x, <2>2, MessageParts DEF OrderInv, OnlyReadOnes
    <3> QED
      BY <1>1, <2>5, <2>12, <3>1 DEF OrderInv, OnlyReadOnes
  <2> QED
    BY <2>9, <2>10, <2>11, <2>13, <2>14 DEF OrderInv
<1> QED
  BY <1>2, <1>3

LEMMA OrderStep == ChatInv /\ OrderInv /\ [Next]_vars => OrderInv'
<1> SUFFICES ASSUME ChatInv, OrderInv, [Next]_vars PROVE OrderInv'
  OBVIOUS
<1>0. DOMAIN hpc = Handlers /\ DOMAIN hmsg = Handlers
  BY DEF ChatInv, TypeOK
<1>1. CASE MainRuns \/ AcceptFails \/ Register
  <2>1. UNCHANGED <<sent, outbox, inbox, hmsg>>
    BY <1>1 DEF MainRuns, Accept, Spawn, AcceptFails, Register, handler, clients
  <2>2. \A h \in Handlers : hpc'[h] \in {"start", hpc[h]}
    BY <1>0, <1>1 DEF MainRuns, Accept, Spawn, AcceptFails, Register, handler
  <2> QED
    BY <2>1, <2>2, NoMessageMoves
<1>2. ASSUME NEW h \in Handlers, Leave(h) \/ ReadArg(h) \/ CallRead(h) \/ ReadEnd(h) \/ Close(h)
      PROVE  OrderInv'
  <2>1. UNCHANGED <<sent, outbox, inbox, hmsg>>
    BY <1>2 DEF Leave, ReadArg, CallRead, ReadEnd, Close, clients
  <2>2. \A g \in Handlers : hpc'[g] \in {hpc[g], "call", "read", "leave", "close", "done"}
    BY <1>0, <1>2 DEF Leave, ReadArg, CallRead, ReadEnd, Close, HandlerStep
  <2> QED
    BY <2>1, <2>2, NoMessageMoves
<1>3. ASSUME NEW h \in Handlers, ReadFails(h) \/ AllWritten(h) PROVE OrderInv'
  <2>1. UNCHANGED <<sent, outbox, inbox>> /\ hmsg' = [hmsg EXCEPT ![h] = NoMsg]
    BY <1>3 DEF ReadFails, AllWritten, clients
  <2>2. hpc' = [hpc EXCEPT ![h] = "send"] \/ hpc' = [hpc EXCEPT ![h] = "call"]
    BY <1>3 DEF ReadFails, AllWritten, HandlerStep
  <2>3. /\ hmsg'[h] = NoMsg /\ hpc'[h] \in {"send", "call"}
        /\ \A g \in Handlers : g # h => hmsg'[g] = hmsg[g] /\ hpc'[g] = hpc[g]
    BY <1>0, <2>1, <2>2
  <2> QED
    BY <2>1, <2>3, NoMessageMoves
<1>4. ASSUME NEW c \in Clients, Connect(c) \/ HangUp(c) PROVE OrderInv'
  <2>1. UNCHANGED <<sent, outbox, inbox, hmsg, hpc>>
    BY <1>4 DEF Connect, HangUp, handler
  <2> QED
    BY <2>1, NoMessageMoves
<1>5. CASE UNCHANGED vars
  <2>1. UNCHANGED <<sent, outbox, inbox, hmsg, hpc>>
    BY <1>5 DEF vars, handler, clients
  <2> QED
    BY <2>1, NoMessageMoves
<1> QED
  BY <1>1, <1>2, <1>3, <1>4, <1>5, SayOrder, ReadMsgOrder, LockToSendOrder, WriteOrder
  DEF Next, HandlerLocks, HandlerRuns

(* No two clients receive two messages in different orders, whichever       *)
(* descriptors the handlers write to and however often the array repeats    *)
(* one: mutx is held for a whole broadcast (lines 121 to 127).              *)
THEOREM OneOrderForAll == Spec => []SameOrder
<1>1. OrderInv => SameOrder
  BY DEF OrderInv
<1> QED
  BY <1>1, InitOrder, OrderStep, ChatInvAlways, PTL DEF Spec
-----------------------------------------------------------------------------
(* The server implements ChatService.                                       *)

Sends(h, m) == hpc[h] = "send" /\ hmsg[h] = m

LEMMA ServiceQuiet ==
  ASSUME UNCHANGED <<sent, inbox, Topic>>, \A m \in Messages : Waits(m)' <=> Waits(m)
  PROVE  UNCHANGED Chat!vars
<1>1. Said' = Said
  BY DEF Said
<1>2. {m \in Said : ~Waits(m)}' = {m \in Said : ~Waits(m)}
  BY <1>1 DEF Said
<1> QED
  BY <1>1, <1>2 DEF Chat!vars

(* A step in which no message is said, read or told, and mutx stays.        *)
LEMMA QuietStep ==
  ASSUME UNCHANGED <<sent, outbox, inbox, mutx>>, mutx # Free => hmsg'[mutx] = hmsg[mutx],
         \A h \in Handlers, m \in Messages : Sends(h, m)' <=> Sends(h, m)
  PROVE  UNCHANGED Chat!vars
<1>1. Topic' = Topic
  BY DEF Topic
<1>2. ASSUME NEW m \in Messages PROVE Waits(m)' <=> Waits(m)
  BY DEF Waits, Sends
<1> QED
  BY <1>1, <1>2, ServiceQuiet

(* A message in an outbox has not been read.                                *)
LEMMA UnreadIsUnread ==
  ASSUME ChatInv, OrderInv, NEW c \in Clients, NEW i \in 1 .. Len(outbox[c])
  PROVE  outbox[c][i] \in Messages /\ ~IsRead(outbox[c][i])
<1>1. /\ outbox[c] \in Seq(Messages) /\ Len(outbox[c]) \in Nat /\ sent[c] \in Nat
  BY ChatAssumption, LenProperties DEF ChatInv, TypeOK
<1>2. outbox[c][i] = <<c, ReadSoFar(c) + i>>
  BY DEF OrderInv, OutboxIsTail
<1>3. outbox[c][i] \in Messages
  BY <1>1, ElementOfSeq
<1>4. ~(ReadSoFar(c) + i <= ReadSoFar(c))
  BY <1>1 DEF ReadSoFar
<1> QED
  BY <1>2, <1>3, <1>4 DEF IsRead

LEMMA SayServes ==
  ASSUME ChatInv, OrderInv, NEW c \in Clients, Say(c) PROVE \E m \in Messages : Chat!Say(m)
<1>x. PICK x : x = <<c, sent[c] + 1>>
  OBVIOUS
<1>1. /\ sent' = [sent EXCEPT ![c] = sent[c] + 1]
      /\ outbox' = [outbox EXCEPT ![c] = Append(outbox[c], x)]
      /\ UNCHANGED <<hpc, hmsg, inbox, mutx>> /\ sent[c] < MaxMsgs
  BY <1>x DEF Say, handler
<1>2. /\ outbox \in [Clients -> Seq(Messages)] /\ sent \in [Clients -> Nat]
      /\ sent[c] + 1 \in 1 .. MaxMsgs
  BY <1>1, ChatAssumption DEF ChatInv, TypeOK
<1>3. x \in Messages /\ x[1] = c /\ x[2] = sent[c] + 1
  BY <1>x, <1>2 DEF Messages
<1>4. /\ sent'[c] = sent[c] + 1 /\ outbox'[c] = Append(outbox[c], x)
      /\ \A d \in Clients : d # c => sent'[d] = sent[d] /\ outbox'[d] = outbox[d]
  BY <1>1, <1>2
<1>5. /\ Len(outbox[c]) \in Nat /\ Len(outbox'[c]) = Len(outbox[c]) + 1
      /\ outbox'[c][Len(outbox[c]) + 1] = x
      /\ \A i \in 1 .. Len(outbox[c]) : outbox'[c][i] = outbox[c][i]
      /\ \A i \in 1 .. Len(outbox[c]) + 1 : i \in 1 .. Len(outbox[c]) \/ i = Len(outbox[c]) + 1
  BY <1>2, <1>3, <1>4, Appended
<1>6. ASSUME NEW m \in Messages PROVE m \in Said' <=> m \in Said \/ m = x
  <2>1. m = <<m[1], m[2]>> /\ m[1] \in Clients /\ m[2] \in Int
    BY MessageParts
  <2>2. CASE m[1] # c
    BY <1>3, <1>4, <2>1, <2>2 DEF Said
  <2>3. CASE m[1] = c
    <3>1. m = x <=> m[2] = sent[c] + 1
      BY <1>x, <2>1, <2>3
    <3>2. m[2] <= sent[c] + 1 <=> m[2] <= sent[c] \/ m[2] = sent[c] + 1
      BY <1>2, <2>1
    <3> QED
      BY <1>4, <2>3, <3>1, <3>2 DEF Said
  <2> QED
    BY <2>2, <2>3
<1>7. x \notin Said
  <2>1. ~(sent[c] + 1 <= sent[c])
    BY <1>2
  <2> QED
    BY <1>3, <2>1 DEF Said
<1>8. ASSUME NEW m \in Messages PROVE Waits(m)' <=> Waits(m) \/ m = x
  <2>1. CASE m[1] # c
    <3>1. outbox'[m[1]] = outbox[m[1]] /\ m # x
      BY <1>3, <1>4, <2>1, MessageParts
    <3> QED
      BY <1>1, <3>1 DEF Waits
  <2>2. CASE m[1] = c
    <3>1. (\E i \in 1 .. Len(outbox'[c]) : outbox'[c][i] = m)
          <=> (\E i \in 1 .. Len(outbox[c]) : outbox[c][i] = m) \/ m = x
      BY <1>5
    <3> QED
      BY <1>1, <2>2, <3>1 DEF Waits
  <2> QED
    BY <2>1, <2>2
<1>9. Said' = Said \cup {x}
  BY <1>3, <1>6 DEF Said
<1>10. {m \in Said : ~Waits(m)}' = {m \in Said : ~Waits(m)}
  BY <1>3, <1>7, <1>8, <1>9 DEF Said
<1>11. Topic' = Topic
  BY <1>1 DEF Topic
<1> QED
  BY <1>1, <1>3, <1>7, <1>9, <1>10, <1>11 DEF Chat!Say

(* What is read moves from the client's outbox to the handler, and waits on.*)
LEMMA ReadMsgServes ==
  ASSUME ChatInv, OrderInv, NEW h \in Handlers, ReadMsg(h) PROVE UNCHANGED Chat!vars
<1>0. PICK c \in Clients : c = hconn[h]
  BY DEF ReadMsg, HandlerStep, ChatInv, ReadsFromSomeone
<1>1. /\ outbox[c] # <<>> /\ hpc[h] = "read"
      /\ hpc' = [hpc EXCEPT ![h] = "send"]
      /\ hmsg' = [hmsg EXCEPT ![h] = Head(outbox[c])]
      /\ outbox' = [outbox EXCEPT ![c] = Tail(outbox[c])]
      /\ UNCHANGED <<sent, inbox, mutx>>
  BY <1>0 DEF ReadMsg, HandlerStep
<1>2. /\ outbox \in [Clients -> Seq(Messages)] /\ DOMAIN hmsg = Handlers /\ DOMAIN hpc = Handlers
  BY DEF ChatInv, TypeOK
<1>3. /\ Len(outbox[c]) \in Nat \ {0} /\ Len(Tail(outbox[c])) = Len(outbox[c]) - 1
      /\ \A i \in 1 .. Len(Tail(outbox[c])) : Tail(outbox[c])[i] = outbox[c][i + 1]
      /\ Head(outbox[c]) = outbox[c][1]
  BY <1>1, <1>2, EmptySeq, HeadTailProperties
<1>4. PICK x : x = outbox[c][1]
  OBVIOUS
<1>5. x[1] = c
  BY <1>3, <1>4 DEF OrderInv, OutboxIsTail
<1>6. ASSUME NEW m PROVE (\E i \in 1 .. Len(outbox[c]) : outbox[c][i] = m)
                         <=> m = x \/ \E i \in 1 .. Len(outbox'[c]) : outbox'[c][i] = m
  <2>1. outbox'[c] = Tail(outbox[c])
    BY <1>1, <1>2
  <2>2. ASSUME NEW i \in 1 .. Len(outbox[c]), i # 1, outbox[c][i] = m
        PROVE  \E j \in 1 .. Len(outbox'[c]) : outbox'[c][j] = m
    <3>1. i - 1 \in 1 .. Len(Tail(outbox[c])) /\ (i - 1) + 1 = i
      BY <1>3, <2>2
    <3> QED
      BY <1>3, <2>1, <2>2, <3>1
  <2>3. ASSUME NEW i \in 1 .. Len(outbox'[c]), outbox'[c][i] = m
        PROVE  \E j \in 1 .. Len(outbox[c]) : outbox[c][j] = m
    <3>1. i + 1 \in 1 .. Len(outbox[c])
      BY <1>3, <2>1
    <3> QED
      BY <1>3, <2>1, <2>3, <3>1
  <2>4. 1 \in 1 .. Len(outbox[c])
    BY <1>3
  <2> QED
    BY <1>4, <2>2, <2>3, <2>4
<1>7. \A d \in Clients : d # c => outbox'[d] = outbox[d]
  BY <1>1, <1>2
<1>8. \A g \in Handlers : \A m : Sends(g, m)' <=> Sends(g, m) \/ (g = h /\ m = x)
  BY <1>1, <1>2, <1>3, <1>4 DEF Sends
<1>9. ASSUME NEW m \in Messages PROVE Waits(m)' <=> Waits(m)
  <2>1. Waits(m)' <=> (\E i \in 1 .. Len(outbox'[m[1]]) : outbox'[m[1]][i] = m)
                      \/ (\E g \in Handlers : Sends(g, m)) \/ m = x
    BY <1>8 DEF Waits, Sends
  <2>2. Waits(m) <=> (\E i \in 1 .. Len(outbox[m[1]]) : outbox[m[1]][i] = m)
                     \/ (\E g \in Handlers : Sends(g, m))
    BY DEF Waits, Sends
  <2>3. CASE m[1] = c
    BY <1>6, <2>1, <2>2, <2>3
  <2>4. CASE m[1] # c
    BY <1>5, <1>7, <2>1, <2>2, <2>4, MessageParts
  <2> QED
    BY <2>3, <2>4
<1>10. Topic' = Topic
  <2>1. mutx # h
    BY <1>1 DEF ChatInv, WriterHoldsMutx
  <2> QED
    BY <1>1, <1>2, <2>1 DEF Topic
<1> QED
  BY <1>1, <1>9, <1>10, ServiceQuiet

(* With mutx the handler takes up its message, or tells of a failed read    *)
(* to nobody.                                                               *)
LEMMA LockToSendServes ==
  ASSUME ChatInv, OrderInv, NEW h \in Handlers, LockToSend(h)
  PROVE  (\E m \in Messages : Chat!TakeUp(m)) \/ UNCHANGED Chat!vars
<1>x. PICK x : x = hmsg[h]
  OBVIOUS
<1>1. /\ hpc[h] = "send" /\ hpc'[h] = "write" /\ mutx = Free /\ mutx' = h /\ h # Free
      /\ \A g \in Handlers : g # h => hpc'[g] = hpc[g]
      /\ UNCHANGED <<sent, outbox, inbox, hmsg>>
  BY ChatAssumption DEF LockToSend, HandlerStep, ChatInv, TypeOK, clients, Handlers, Free
<1>2. Topic = NoMsg /\ Topic' = x /\ Said' = Said
  BY <1>x, <1>1 DEF Topic, Said
<1>3. \A m : Waits(m) <=> Waits(m)' \/ m = x
  BY <1>x, <1>1 DEF Waits
<1>4. CASE x = NoMsg
  <2>1. \A m \in Messages : Waits(m)' <=> Waits(m)
    BY <1>3, <1>4, MessageParts
  <2> QED
    BY <1>1, <1>2, <1>4, <2>1, ServiceQuiet
<1>5. CASE x # NoMsg
  <2>1. x \in Messages /\ IsRead(x)
    BY <1>x, <1>5 DEF ChatInv, TypeOK, OrderInv, OnlyReadOnes
  <2>2. x \in Said
    <3>1. x[1] \in Clients /\ x[2] \in Int
      BY <2>1, MessageParts
    <3>2. Len(outbox[x[1]]) \in Nat /\ sent[x[1]] \in Nat
      BY <3>1, ChatAssumption, LenProperties DEF ChatInv, TypeOK
    <3>3. x[2] <= sent[x[1]] - Len(outbox[x[1]])
      BY <2>1 DEF IsRead, ReadSoFar
    <3>4. x[2] <= sent[x[1]]
      BY <3>1, <3>2, <3>3
    <3> QED
      BY <2>1, <3>4 DEF Said
  <2>3. Waits(x)
    BY <1>3
  <2>4. ~Waits(x)'
    <3>1. \A i \in 1 .. Len(outbox[x[1]]) : outbox[x[1]][i] # x
      BY <2>1, MessageParts, UnreadIsUnread
    <3>2. \A g \in Handlers : g # h => hmsg[g] # x
      BY <1>x, <1>5 DEF OrderInv, HandlersApart
    <3> QED
      BY <1>1, <3>1, <3>2 DEF Waits
  <2>5. {m \in Said : ~Waits(m)}' = {m \in Said : ~Waits(m)} \cup {x}
    BY <1>2, <1>3, <2>2, <2>4
  <2> QED
    BY <1>1, <1>2, <2>1, <2>2, <2>3, <2>5 DEF Chat!TakeUp
<1> QED
  BY <1>4, <1>5

LEMMA WriteServes ==
  ASSUME ChatInv, NEW h \in Handlers, Write(h)
  PROVE  (\E c \in Clients : Chat!Tell(c)) \/ UNCHANGED Chat!vars
<1>d. PICK d : d = Connection(clnt_socks[hi[h]])
  OBVIOUS
<1>1. /\ hpc[h] = "write" /\ UNCHANGED <<sent, outbox, hmsg, hpc, mutx>> /\ mutx = h /\ h # Free
  BY ChatAssumption DEF Write, ChatInv, WriterHoldsMutx, Handlers, Free
<1>2. Topic = hmsg[h] /\ Topic' = Topic /\ Said' = Said /\ \A m : Waits(m)' <=> Waits(m)
  BY <1>1 DEF Topic, Said, Waits
<1>3. CASE UNCHANGED inbox
  BY <1>1, <1>2, <1>3, ServiceQuiet
<1>4. CASE ~UNCHANGED inbox
  <2>1. inbox' = [inbox EXCEPT ![d] = Append(@, Topic)] /\ Topic # NoMsg /\ d # NoClient
    BY <1>d, <1>2, <1>4 DEF Write
  <2>2. d \in Clients
    BY <1>d, <2>1 DEF Connection, ChatInv, TypeOK
  <2>3. {m \in Said : ~Waits(m)}' = {m \in Said : ~Waits(m)}
    BY <1>2
  <2> QED
    BY <1>2, <2>1, <2>2, <2>3 DEF Chat!Tell
<1> QED
  BY <1>3, <1>4

LEMMA AllWrittenServes ==
  ASSUME ChatInv, NEW h \in Handlers, AllWritten(h) PROVE Chat!Drop \/ UNCHANGED Chat!vars
<1>1. /\ hpc[h] = "write" /\ hpc'[h] = "call" /\ mutx = h /\ h # Free /\ mutx' = Free
      /\ \A g \in Handlers : g # h => hpc'[g] = hpc[g] /\ hmsg'[g] = hmsg[g]
      /\ UNCHANGED <<sent, outbox, inbox>>
  BY ChatAssumption
  DEF AllWritten, HandlerStep, ChatInv, TypeOK, WriterHoldsMutx, Handlers, Free, clients
<1>2. \A m : Waits(m)' <=> Waits(m)
  BY <1>1 DEF Waits
<1>3. Topic' = NoMsg /\ Said' = Said
  BY <1>1 DEF Topic, Said
<1>4. {m \in Said : ~Waits(m)}' = {m \in Said : ~Waits(m)}
  BY <1>2, <1>3
<1>5. CASE Topic = NoMsg
  BY <1>1, <1>2, <1>3, <1>5, ServiceQuiet
<1>6. CASE Topic # NoMsg
  BY <1>1, <1>3, <1>4, <1>6 DEF Chat!Drop
<1> QED
  BY <1>5, <1>6

LEMMA ServesStep == ChatInv /\ OrderInv /\ [Next]_vars => [Chat!Next]_(Chat!vars)
<1> SUFFICES ASSUME ChatInv, OrderInv, [Next]_vars PROVE [Chat!Next]_(Chat!vars)
  OBVIOUS
<1>0. /\ DOMAIN hpc = Handlers /\ DOMAIN hmsg = Handlers /\ mutx \in Handlers \cup {Free}
      /\ \A h \in Handlers : hpc[h] = "write" <=> mutx = h
  BY DEF ChatInv, TypeOK, WriterHoldsMutx
<1>1. CASE MainRuns \/ AcceptFails \/ Register
  <2>1. UNCHANGED <<sent, outbox, inbox, mutx, hmsg>>
    BY <1>1 DEF MainRuns, Accept, Spawn, AcceptFails, Register, handler, clients
  <2>2. hpc' = hpc \/ Spawn
    BY <1>1 DEF MainRuns, Accept, AcceptFails, Register, handler
  <2>3. ASSUME NEW h \in Handlers PROVE hpc'[h] = "send" <=> hpc[h] = "send"
    <3>1. CASE Spawn
      <4>1. hpc' = [hpc EXCEPT ![accepts] = "start"] /\ mpc = "spawn"
        BY <3>1 DEF Spawn, MainStep
      <4>2. hpc[h] # "none" => h # accepts
        BY <4>1 DEF ChatInv, StartedAfterAccept
      <4> QED
        BY <1>0, <4>1, <4>2
    <3> QED
      BY <2>2, <3>1
  <2> QED
    BY <2>1, <2>3, QuietStep DEF Sends
<1>2. ASSUME NEW h \in Handlers, Leave(h) \/ ReadArg(h) \/ CallRead(h) \/ ReadEnd(h) \/ Close(h)
      PROVE  UNCHANGED Chat!vars
  <2>1. UNCHANGED <<sent, outbox, inbox, mutx, hmsg>>
    BY <1>2 DEF Leave, ReadArg, CallRead, ReadEnd, Close, clients
  <2>2. \A g \in Handlers : hpc'[g] = "send" <=> hpc[g] = "send"
    BY <1>0, <1>2 DEF Leave, ReadArg, CallRead, ReadEnd, Close, HandlerStep
  <2> QED
    BY <2>1, <2>2, QuietStep DEF Sends
<1>3. ASSUME NEW h \in Handlers, ReadFails(h) PROVE UNCHANGED Chat!vars
  <2>1. /\ UNCHANGED <<sent, outbox, inbox, mutx>> /\ hpc[h] = "call"
        /\ hmsg'[h] = NoMsg /\ \A g \in Handlers : g # h => hmsg'[g] = hmsg[g] /\ hpc'[g] = hpc[g]
    BY <1>0, <1>3 DEF ReadFails, HandlerStep, clients
  <2>2. \A g \in Handlers, m \in Messages : Sends(g, m)' <=> Sends(g, m)
    BY <2>1, MessageParts DEF Sends
  <2>3. mutx # h
    BY <1>0, <2>1
  <2> QED
    BY <1>0, <2>1, <2>2, <2>3, QuietStep
<1>4. CASE UNCHANGED vars
  BY <1>4, QuietStep DEF vars, handler, clients, Sends
<1>5. ASSUME NEW c \in Clients, Connect(c) \/ HangUp(c) PROVE UNCHANGED Chat!vars
  <2>1. UNCHANGED <<sent, outbox, inbox, mutx, hmsg, hpc>>
    BY <1>5 DEF Connect, HangUp, handler
  <2> QED
    BY <2>1, QuietStep DEF Sends
<1> QED
  BY <1>1, <1>2, <1>3, <1>4, <1>5, SayServes, ReadMsgServes, LockToSendServes, WriteServes,
     AllWrittenServes
  DEF Next, HandlerLocks, HandlerRuns, Chat!Next

(* The chat server implements ChatService: messages are taken up one at a   *)
(* time, each once and after it was said, and nothing else is ever told.    *)
THEOREM ServerServesChat == Spec => ServesChat
<1>1. Init => Chat!Init
  <2> SUFFICES ASSUME Init PROVE Chat!Init
    OBVIOUS
  <2>1. mutx = Free /\ sent = [c \in Clients |-> 0] /\ inbox = [c \in Clients |-> <<>>]
    BY DEF Init
  <2>2. ASSUME NEW m \in Messages PROVE ~(m[2] <= sent[m[1]])
    <3>1. m[1] \in Clients /\ m[2] \in 1 .. MaxMsgs
      BY MessageParts
    <3>2. sent[m[1]] = 0
      BY <2>1, <3>1
    <3> QED
      BY <3>1, <3>2
  <2>3. Said = {}
    BY <2>2 DEF Said
  <2> QED
    BY <2>1, <2>3 DEF Chat!Init, Topic
<1> QED
  BY <1>1, InitOrder, OrderStep, ServesStep, ChatInvAlways, PTL DEF Spec, ServesChat, Chat!Spec

-----------------------------------------------------------------------------
(* With the two-threaded clients.                                           *)

LEMMA RoomSteps == [RoomNext]_roomvars => [Next]_vars
<1>1. ASSUME up, NEW c \in Clients, Starts(c) \/ Types(c) \/ Killed(c) \/ Quits(c) \/ Receives(c)
      PROVE  [Next]_vars
  <2>1. Connect(c) \/ Say(c) \/ HangUp(c) \/ UNCHANGED vars
    BY <1>1 DEF Starts, Types, Killed, Quits, Receives, CallsRead, ReadRefused, ShowsMsgs,
       ShowsNothing, ReturnsFromRead, roomvars
  <2> QED
    BY <1>1, <2>1 DEF Next
<1>2. ASSUME up, RoomServer PROVE Next
  BY <1>2 DEF RoomServer, Next
<1> QED
  BY <1>1, <1>2 DEF RoomNext, roomvars

LEMMA RoomIsServerRun == RoomSpec => Spec
<1>1. RoomInit => Init
  BY DEF RoomInit
<1> QED
  BY <1>1, RoomSteps, PTL DEF RoomSpec, Spec

(* What was proved of the server holds with chat_clnt.cpp at its other end: *)
(* all clients print one order, and the array and its count keep in step.   *)
THEOREM RoomHasOneOrder == RoomSpec => []SameOrder /\ []CountIsHandlers /\ RegistryStable
BY RoomIsServerRun, OneOrderForAll, CountDoesNotDrift, NobodyMovesTheArray, PTL

(* The chat server with chat_clnt.cpp at its other end is a chat service    *)
(* too, whatever two threads do to one socket.                              *)
THEOREM RoomServesChat == RoomSpec => ServesChat
BY RoomIsServerRun, ServerServesChat, PTL

ThreadTypes ==
  /\ snd \in [Clients -> {"none", "types", "done"}]
  /\ rcv \in [Clients -> {"none", "calls", "reads", "done"}]
RoomInv == TypeOK /\ ThreadTypes /\ ClosedWhenUnused

LEMMA RoomInvStep == TypeOK /\ TypeOK' /\ RoomInv /\ [RoomNext]_roomvars => RoomInv'
<1> SUFFICES ASSUME TypeOK', RoomInv, [RoomNext]_roomvars PROVE ThreadTypes' /\ ClosedWhenUnused'
  BY DEF RoomInv
<1>0. ThreadTypes /\ ClosedWhenUnused /\ cpc \in [Clients -> {"away", "knocking", "in", "closed"}]
  BY DEF RoomInv, TypeOK
<1> USE <1>0 DEF ThreadTypes, ClosedWhenUnused, Set, threads
<1>1. CASE RoomServer
  <2>1. \A c \in Clients : cpc'[c] = "closed" <=> cpc[c] = "closed"
    BY <1>1 DEF RoomServer, MainRuns, Accept, Spawn, AcceptFails, Register, HandlerLocks, LockToSend,
       Leave, HandlerRuns, ReadArg, CallRead, ReadFails, ReadMsg, ReadEnd, Write, AllWritten, Close,
       clients
  <2> QED
    BY <1>1, <2>1 DEF RoomServer
<1>2. ASSUME NEW c \in Clients, Starts(c) PROVE ThreadTypes' /\ ClosedWhenUnused'
  BY <1>2 DEF Starts, Connect
<1>3. ASSUME NEW c \in Clients, Types(c) PROVE ThreadTypes' /\ ClosedWhenUnused'
  BY <1>3 DEF Types, Say
<1>4. ASSUME NEW c \in Clients, Killed(c) PROVE ThreadTypes' /\ ClosedWhenUnused'
  BY <1>4 DEF Killed, HangUp
<1>5. ASSUME NEW c \in Clients, Quits(c) PROVE ThreadTypes' /\ ClosedWhenUnused'
  BY <1>5 DEF Quits, HangUp, vars, clients
<1>6. ASSUME NEW c \in Clients, CallsRead(c) \/ ReadRefused(c) PROVE ThreadTypes' /\ ClosedWhenUnused'
  BY <1>6 DEF CallsRead, ReadRefused, vars, clients
<1>7. ASSUME NEW c \in Clients, ReturnsFromRead(c) PROVE ThreadTypes' /\ ClosedWhenUnused'
  BY <1>7 DEF ReturnsFromRead, HangUp, vars, clients
<1>8. CASE UNCHANGED roomvars
  BY <1>8 DEF roomvars, vars, clients
<1> QED
  BY <1>1, <1>2, <1>3, <1>4, <1>5, <1>6, <1>7, <1>8
  DEF RoomNext, Receives, ShowsMsgs, ShowsNothing

(* A client's connection ends exactly when its two threads are done with    *)
(* the socket, whatever the server does meanwhile.                          *)
THEOREM SocketOutlivesRead == RoomSpec => []ClosedWhenUnused
<1>1. RoomInit => ThreadTypes /\ ClosedWhenUnused
  BY DEF RoomInit, Init, All, ThreadTypes, ClosedWhenUnused
<1>2. RoomSpec => []TypeOK
  BY RoomIsServerRun, Typing, PTL
<1>3. TypeOK /\ RoomInit => RoomInv
  BY <1>1 DEF RoomInv
<1> QED
  BY <1>2, <1>3, RoomInvStep, PTL DEF RoomSpec, RoomInv
=============================================================================
