-------------------------- MODULE ForkServerProofs --------------------------
(***************************************************************************)
(* Theorems about ForkServer and the SIGCHLD handler it shares with the     *)
(* other forking servers, for any number of clients and messages.           *)
(***************************************************************************)
EXTENDS ForkServer, FiniteSetTheorems, SequenceTheorems, TLAPS

(* Queues and histories of message numbers stay such.                       *)
LEMMA SequenceSteps ==
  ASSUME NEW S, NEW q \in Seq(S)
  PROVE  /\ q # <<>> => Head(q) \in S /\ Tail(q) \in Seq(S)
         /\ \A m \in S : Append(q, m) \in Seq(S)
  OBVIOUS

(* A child has something to write only after it has read it.                *)
WritesWhatItRead == \A k \in Kids : kpc[k] = "write" => message[k] \in 1 .. MaxMsgs
TypeInv == TypeOK /\ WritesWhatItRead

LEMMA InitTypes == Init => TypeInv
<1> USE ForkAssumption, ReaperAssumption DEF Clients
<1> SUFFICES ASSUME Init PROVE TypeInv
  OBVIOUS
<1> USE DEF Init, ReaperInit
<1>1. ReaperTypeOK
  <2>1. MaxJobs \in Nat /\ 0 \in 0 .. MaxJobs
    BY ReaperAssumption
  <2> QED
    BY <2>1 DEF ReaperTypeOK
<1>2. holds \in [Procs -> SUBSET (Clients \cup {Listener})]
  OBVIOUS
<1>3. unread \in [Clients -> Seq(1 .. MaxMsgs)] /\ got \in [Clients -> Seq(1 .. MaxMsgs)]
  OBVIOUS
<1>4. said \in [Clients -> 0 .. MaxMsgs] /\ message \in [Kids -> 0 .. MaxMsgs]
  OBVIOUS
<1> QED
  BY <1>1, <1>2, <1>3, <1>4 DEF TypeOK, TypeInv, WritesWhatItRead

LEMMA TypesStep == TypeInv /\ [Next]_vars => TypeInv'
<1> USE ForkAssumption, ReaperAssumption DEF Clients
<1> SUFFICES ASSUME TypeInv, [Next]_vars PROVE TypeInv'
  OBVIOUS
<1> USE DEF TypeInv, TypeOK, WritesWhatItRead, ReaperTypeOK, reaper, server, child, talk,
            ServerStep, ChildStep, Closes, Procs
<1>1. CASE Handler
  <2>1. CASE Deliver
    BY <1>1, <2>1 DEF Handler, Deliver
  <2>2. CASE Reap
    <3>1. kid' \in [Kids -> {"unborn", "running", "stopped", "zombie", "reaped"}]
      <4>1. CASE Zombies = {}
        BY <2>2, <4>1 DEF Reap
      <4>2. CASE Zombies # {}
        <5>1. PICK k \in Zombies : kid' = [kid EXCEPT ![k] = "reaped"]
          BY <2>2, <4>2 DEF Reap
        <5> QED
          BY <5>1
      <4> QED
        BY <4>1, <4>2
    <3> QED
      BY <1>1, <2>2, <3>1 DEF Handler, Reap
  <2>3. CASE HandlerReturns
    BY <1>1, <2>3 DEF Handler, HandlerReturns
  <2> QED
    BY <1>1, <2>1, <2>2, <2>3 DEF Handler, HandlerRuns
<1>2. ASSUME NEW c \in Clients, Accept(c) PROVE TypeInv'
  BY <1>2 DEF Accept
<1>3. CASE Fork
  BY <1>3 DEF Fork, Forks
<1>4. CASE ForkFails
  BY <1>4 DEF ForkFails
<1>5. CASE CloseClient
  BY <1>5 DEF CloseClient
<1>6. ASSUME NEW k \in Kids, CloseListener(k) PROVE TypeInv'
  BY <1>6 DEF CloseListener
<1>7. ASSUME NEW k \in Kids, Read(k) PROVE TypeInv'
  BY <1>7, SequenceSteps DEF Read
<1>8. ASSUME NEW k \in Kids, ReadEnd(k) PROVE TypeInv'
  BY <1>8 DEF ReadEnd
<1>9. ASSUME NEW k \in Kids, Write(k) PROVE TypeInv'
  BY <1>9, SequenceSteps DEF Write
<1>10. ASSUME NEW k \in Kids, WriteKills(k) PROVE TypeInv'
  BY <1>10 DEF WriteKills, Exits
<1>11. ASSUME NEW k \in Kids, HangUpChild(k) PROVE TypeInv'
  BY <1>11 DEF HangUpChild
<1>12. ASSUME NEW k \in Kids, Exit(k) PROVE TypeInv'
  BY <1>12 DEF Exit, Exits
<1>13. ASSUME NEW c \in Clients, Connect(c) PROVE TypeInv'
  BY <1>13 DEF Connect
<1>14. ASSUME NEW c \in Clients, Say(c) PROVE TypeInv'
  BY <1>14, SequenceSteps DEF Say
<1>15. ASSUME NEW c \in Clients, HangUp(c) PROVE TypeInv'
  BY <1>15 DEF HangUp
<1>16. CASE JobControl
  <2>1. PICK k \in Kids : Stops(k) \/ Continues(k)
    BY <1>16 DEF JobControl
  <2>2. PICK to \in {"running", "stopped"} : kid' = [kid EXCEPT ![k] = to]
    BY <2>1 DEF Stops, Continues, JobStep
  <2>3. kid' \in [Kids -> {"unborn", "running", "stopped", "zombie", "reaped"}]
    BY <2>2
  <2>4. jobs' \in 0 .. MaxJobs
    <3>1. jobs \in 0 .. MaxJobs /\ jobs < MaxJobs /\ jobs' = jobs + 1 /\ MaxJobs \in Nat
      BY <2>1 DEF Stops, Continues, JobStep
    <3> QED
      BY <3>1
  <2>5. pending' = TRUE /\ UNCHANGED <<hpc, blanks>>
    BY <2>1 DEF Stops, Continues, JobStep
  <2>6. ReaperTypeOK'
    BY <2>3, <2>4, <2>5
  <2> QED
    BY <1>16, <2>6 DEF JobControl
<1>17. CASE UNCHANGED vars
  BY <1>17 DEF vars
<1> QED
  BY <1>1, <1>2, <1>3, <1>4, <1>5, <1>6, <1>7, <1>8, <1>9, <1>10, <1>11, <1>12, <1>13,
     <1>14, <1>15, <1>16, <1>17 DEF Next, ServerRuns, ChildRuns

(* Every variable keeps to its type.                                         *)
THEOREM Typing == Spec => []TypeOK
BY InitTypes, TypesStep, PTL DEF Spec, TypeInv
-----------------------------------------------------------------------------
(* Every signal, pending or being handled, and every run of the handler     *)
(* that found nothing goes back to a stop, a continue or an exit of its     *)
(* own; what goes back to an exit has a zombie that nothing else counts on. *)
One(b) == IF b THEN 1 ELSE 0
SignalsAccounted ==
  /\ blanks <= jobs
  /\ blanks + One(pending) + One(hpc = "wait") <= jobs + Cardinality(Zombies)

(* One exit more, or one fewer after waitpid.                               *)
LEMMA ZombieCount ==
  ASSUME TypeOK
  PROVE  /\ IsFiniteSet(Zombies) /\ Cardinality(Zombies) \in Nat
         /\ \A k \in Kids \ Zombies : Cardinality(Zombies \cup {k}) = Cardinality(Zombies) + 1
         /\ \A k \in Zombies : Cardinality(Zombies \ {k}) = Cardinality(Zombies) - 1
         /\ Zombies = {} => Cardinality(Zombies) = 0
<1>1. IsFiniteSet(Zombies)
  BY ReaperAssumption, FS_Subset DEF Zombies
<1> QED
  BY <1>1, FS_CardinalityType, FS_AddElement, FS_RemoveElement, FS_EmptySet

LEMMA SignalsStep == TypeOK /\ SignalsAccounted /\ [Next]_vars => SignalsAccounted'
<1> SUFFICES ASSUME TypeOK, SignalsAccounted, [Next]_vars PROVE SignalsAccounted'
  OBVIOUS
<1>0. /\ blanks \in Nat /\ jobs \in Nat /\ Cardinality(Zombies) \in Nat
      /\ One(pending) \in 0 .. 1 /\ One(pending)' \in 0 .. 1
      /\ hpc # "wait" => One(hpc = "wait") = 0
      /\ hpc = "wait" => One(hpc = "wait") = 1
  BY ReaperAssumption, ZombieCount DEF TypeOK, ReaperTypeOK, One
<1>1. CASE Deliver
  <2>1. Zombies' = Zombies
    BY <1>1 DEF Deliver, Zombies
  <2> QED
    BY <1>0, <1>1, <2>1 DEF Deliver, SignalsAccounted, One
<1>2. CASE Reap
  <2>1. CASE Zombies = {}
    <3>1. /\ Zombies' = Zombies /\ blanks' = blanks + 1 /\ jobs' = jobs /\ pending' = pending
          /\ hpc = "wait" /\ hpc' = "print" /\ Cardinality(Zombies) = 0
      BY <1>2, <2>1, ZombieCount DEF Reap, Zombies
    <3> QED
      BY <1>0, <3>1 DEF SignalsAccounted, One
  <2>2. CASE Zombies # {}
    <3>1. PICK k \in Zombies : kid' = [kid EXCEPT ![k] = "reaped"]
      BY <1>2, <2>2 DEF Reap
    <3>2. Zombies' = Zombies \ {k}
      BY <3>1 DEF Zombies, TypeOK, ReaperTypeOK
    <3>3. Cardinality(Zombies)' = Cardinality(Zombies) - 1
      BY <3>2, ZombieCount
    <3>4. blanks' = blanks /\ jobs' = jobs /\ pending' = pending /\ hpc = "wait" /\ hpc' = "print"
      BY <1>2, <2>2 DEF Reap
    <3> QED
      BY <1>0, <3>3, <3>4 DEF SignalsAccounted, One
  <2> QED
    BY <2>1, <2>2
<1>3. CASE UNCHANGED <<Zombies, pending, jobs, blanks>> /\ (hpc' = hpc \/ hpc' = "out")
  BY <1>0, <1>3 DEF SignalsAccounted, One
<1>4. ASSUME NEW k \in Kids, Exits(k) PROVE SignalsAccounted'
  <2>1. Zombies' = Zombies \cup {k} /\ k \in Kids \ Zombies
    BY <1>4 DEF Exits, Zombies, TypeOK, ReaperTypeOK
  <2>2. Cardinality(Zombies)' = Cardinality(Zombies) + 1
    BY <2>1, ZombieCount
  <2> QED
    BY <1>0, <1>4, <2>2 DEF Exits, SignalsAccounted, One
<1>5. ASSUME NEW k \in Kids, Stops(k) \/ Continues(k) PROVE SignalsAccounted'
  <2>1. Zombies' = Zombies /\ jobs' = jobs + 1 /\ UNCHANGED <<hpc, blanks>>
    BY <1>5 DEF Stops, Continues, JobStep, Zombies, TypeOK, ReaperTypeOK
  <2> QED
    BY <1>0, <2>1 DEF SignalsAccounted, One
<1>6. CASE UNCHANGED reaper
  BY <1>3, <1>6 DEF reaper, Zombies
<1>7. CASE HandlerReturns
  BY <1>3, <1>7 DEF HandlerReturns, Zombies
<1>8. ASSUME NEW k \in Kids, ChildRuns(k) PROVE Exits(k) \/ UNCHANGED reaper
  BY <1>8 DEF ChildRuns, CloseListener, Read, ReadEnd, Write, WriteKills, HangUpChild, Exit
<1>9. ASSUME NEW c \in Clients, Connect(c) \/ Say(c) \/ HangUp(c) PROVE UNCHANGED reaper
  BY <1>9 DEF Connect, Say, HangUp
<1>10. CASE Fork
  <2>1. Zombies' = Zombies
    BY <1>10 DEF Fork, Forks, Zombies, TypeOK, ReaperTypeOK
  <2> QED
    BY <1>3, <1>10, <2>1 DEF Fork, Forks
<1>11. ASSUME ServerRuns, ~Fork PROVE UNCHANGED reaper
  BY <1>11 DEF ServerRuns, Accept, ForkFails, CloseClient
<1> QED
  BY <1>1, <1>2, <1>4, <1>5, <1>6, <1>7, <1>8, <1>9, <1>10, <1>11
  DEF Next, Handler, HandlerRuns, JobControl, vars

LEMMA SignalsInit == Init => SignalsAccounted
<1> SUFFICES ASSUME Init PROVE SignalsAccounted
  OBVIOUS
<1>1. Zombies = {} /\ Cardinality(Zombies) = 0
  BY FS_EmptySet DEF Init, ReaperInit, Zombies
<1> QED
  BY <1>1 DEF Init, ReaperInit, SignalsAccounted, One

(* read_childProc looks at a status waitpid has not set at most once for    *)
(* each stop and each continue of a child, and never for an exit.           *)
THEOREM BlanksAreJobControl == Spec => []BlankOnlyByJobControl
<1>1. SignalsAccounted => BlankOnlyByJobControl
  BY DEF SignalsAccounted, BlankOnlyByJobControl
<1> QED
  BY <1>1, SignalsInit, SignalsStep, Typing, PTL DEF Spec
-----------------------------------------------------------------------------
(* Who holds what follows from where the server and the child are.          *)
ServerHolds ==
  /\ holds[Server] = IF ppc = "accept" THEN {Listener} ELSE {Listener, clnt_sock}
  /\ ppc # "accept" => clnt_sock \in Kids
HoldInv == ServerHolds /\ \A k \in Kids : OwnSockets(k)

LEMMA HoldsStep ==
  ASSUME TypeOK, ServerHolds, [Next]_vars
  PROVE  ServerHolds' /\ \A k \in Kids : OwnSockets(k) => OwnSockets(k)'
<1> DEFINE Goal == ServerHolds' /\ \A k \in Kids : OwnSockets(k) => OwnSockets(k)'
<1> SUFFICES Goal
  OBVIOUS
<1> USE ForkAssumption
    DEF Clients, Procs, ServerHolds, OwnSockets, TypeOK, server, child, ServerStep, ChildStep, Closes
<1>1. CASE Handler \/ JobControl
  BY <1>1 DEF Handler, JobControl
<1>2. ASSUME NEW c \in Clients, Accept(c) PROVE Goal
  BY <1>2 DEF Accept
<1>3. CASE Fork
  BY <1>3 DEF Fork
<1>4. CASE ForkFails \/ CloseClient
  BY <1>4 DEF ForkFails, CloseClient
<1>5. ASSUME NEW k \in Kids, CloseListener(k) PROVE Goal
  BY <1>5 DEF CloseListener
<1>6. ASSUME NEW k \in Kids, Read(k) \/ ReadEnd(k) \/ Write(k) PROVE Goal
  BY <1>6 DEF Read, ReadEnd, Write
<1>7. ASSUME NEW k \in Kids, WriteKills(k) \/ HangUpChild(k) \/ Exit(k) PROVE Goal
  <2>1. CASE WriteKills(k)
    BY <2>1 DEF WriteKills
  <2>2. CASE HangUpChild(k)
    BY <2>2 DEF HangUpChild, reaper
  <2>3. CASE Exit(k)
    BY <2>3 DEF Exit
  <2> QED
    BY <1>7, <2>1, <2>2, <2>3
<1>8. ASSUME NEW c \in Clients, Connect(c) \/ Say(c) \/ HangUp(c) PROVE Goal
  BY <1>8 DEF Connect, Say, HangUp
<1>9. CASE UNCHANGED vars
  BY <1>9 DEF vars
<1> QED
  BY <1>1, <1>2, <1>3, <1>4, <1>5, <1>6, <1>7, <1>8, <1>9 DEF Next, ServerRuns, ChildRuns

(* Each child holds at most its own client's socket, and the server holds   *)
(* no client's while it waits for the next.                                 *)
THEOREM SocketsStayApart == Spec => []OnlyOwnSockets
<1>1. Init => HoldInv
  BY ForkAssumption DEF Init, HoldInv, ServerHolds, OwnSockets, Clients, Procs
<1>2. HoldInv => OnlyOwnSockets
  BY DEF HoldInv, ServerHolds, OnlyOwnSockets
<1>3. TypeOK /\ HoldInv /\ [Next]_vars => HoldInv'
  BY HoldsStep DEF HoldInv
<1> QED
  BY <1>1, <1>2, <1>3, Typing, PTL DEF Spec
-----------------------------------------------------------------------------
(* Until the client hangs up, what it said is what it got back, what its    *)
(* child holds in message, and what is still unread, in this order.         *)
Held(c) == IF kpc[c] = "write" THEN 1 ELSE 0
Flow(c) ==
  /\ kpc[c] = "write" => message[c] = Len(got[c]) + 1
  /\ said[c] = Len(got[c]) + Held(c) + Len(unread[c])
  /\ \A i \in 1 .. Len(unread[c]) : unread[c][i] = Len(got[c]) + Held(c) + i
EchoInv ==
  \A c \in Clients :
    /\ \A i \in 1 .. Len(got[c]) : got[c][i] = i
    /\ client[c] # "gone" => Flow(c)
    /\ kid[c] = "unborn" => kpc[c] = "none"

(* The two ways a sequence of numbers moves on.                             *)
LEMMA HeadAndTail ==
  ASSUME NEW q \in Seq(Nat), q # <<>>
  PROVE  /\ Head(q) = q[1] /\ Len(Tail(q)) = Len(q) - 1 /\ Len(q) >= 1
         /\ \A i \in 1 .. Len(Tail(q)) : Tail(q)[i] = q[i + 1]
  OBVIOUS

LEMMA AppendAtEnd ==
  ASSUME NEW q \in Seq(Nat), NEW m \in Nat
  PROVE  /\ Len(Append(q, m)) = Len(q) + 1
         /\ \A i \in 1 .. Len(q) : Append(q, m)[i] = q[i]
         /\ Append(q, m)[Len(q) + 1] = m
  OBVIOUS

(* The counting in a read: one message more is held, one fewer is unread.   *)
LEMMA OneIsHeld ==
  ASSUME NEW g \in Nat, NEW u \in Nat
  PROVE  g + 0 + u = g + 1 + (u - 1)
  OBVIOUS

LEMMA NextIsLater ==
  ASSUME NEW g \in Nat, NEW i \in Nat
  PROVE  g + 0 + (i + 1) = g + 1 + i
  OBVIOUS

LEMMA OneFewer ==
  ASSUME NEW u \in Nat, NEW v, v = u - 1, NEW i \in 1 .. v
  PROVE  i \in Nat /\ i + 1 \in 1 .. u
  OBVIOUS

LEMMA EchoInvStep == TypeOK /\ EchoInv /\ [Next]_vars => EchoInv'
<1> SUFFICES ASSUME TypeOK, EchoInv, [Next]_vars, NEW d \in Clients
             PROVE  /\ \A i \in 1 .. Len(got'[d]) : got'[d][i] = i
                    /\ client'[d] # "gone" => Flow(d)'
                    /\ kid'[d] = "unborn" => kpc'[d] = "none"
  BY DEF EchoInv
<1> DEFINE Goal == /\ \A i \in 1 .. Len(got'[d]) : got'[d][i] = i
                   /\ client'[d] # "gone" => Flow(d)'
                   /\ kid'[d] = "unborn" => kpc'[d] = "none"
<1> USE ForkAssumption DEF Clients
<1>0. unread[d] \in Seq(Nat) /\ got[d] \in Seq(Nat)
  BY DEF TypeOK
<1>n. Len(unread[d]) \in Nat /\ Len(got[d]) \in Nat /\ said[d] \in Nat
  BY DEF TypeOK
<1>1. CASE /\ UNCHANGED <<got, said, unread, message>>
           /\ client'[d] # "gone" => client[d] # "gone"
           /\ (kpc'[d] = "write" <=> kpc[d] = "write")
           /\ (kid'[d] = "unborn" => kid[d] = "unborn" /\ kpc'[d] = kpc[d])
  BY <1>1 DEF EchoInv, Flow, Held
<1>2. ASSUME NEW k \in Kids, Read(k) PROVE Goal
  <2>1. CASE k # d
    BY <1>2, <2>1 DEF Read, ChildStep, EchoInv, Flow, Held, TypeOK, reaper
  <2>2. CASE k = d
    <3>1. /\ unread[d] # <<>> /\ unread'[d] = Tail(unread[d]) /\ message'[d] = unread[d][1]
          /\ kpc[d] = "read" /\ kpc'[d] = "write" /\ UNCHANGED <<got, said, client, kid>>
      BY <1>0, <1>2, <2>2, HeadAndTail DEF Read, ChildStep, TypeOK, reaper
    <3>2. Held(d) = 0 /\ Held(d)' = 1
      BY <3>1 DEF Held
    <3>3. /\ Len(unread'[d]) = Len(unread[d]) - 1 /\ Len(unread[d]) >= 1
          /\ \A i \in 1 .. Len(unread'[d]) : unread'[d][i] = unread[d][i + 1]
      BY <1>0, <3>1, HeadAndTail
    <3>4. ASSUME client[d] # "gone" PROVE Flow(d)'
      <4>0. Flow(d)
        BY <3>4 DEF EchoInv
      <4>1. /\ said[d] = Len(got[d]) + 0 + Len(unread[d])
            /\ \A i \in 1 .. Len(unread[d]) : unread[d][i] = Len(got[d]) + 0 + i
        BY <4>0, <3>2 DEF Flow
      <4>2. message'[d] = Len(got[d]) + 1
        <5>1. 1 \in 1 .. Len(unread[d])
          BY <1>n, <3>3
        <5>2. unread[d][1] = Len(got[d]) + 0 + 1
          BY <4>1, <5>1
        <5> QED
          BY <1>n, <5>2, <3>1
      <4>3. said[d] = Len(got[d]) + 1 + Len(unread'[d])
        <5>1. said[d] = Len(got[d]) + 1 + (Len(unread[d]) - 1)
          BY <1>n, <4>1, OneIsHeld, Zenon
        <5> QED
          BY <3>3, <5>1, Zenon
      <4>4. \A i \in 1 .. Len(unread'[d]) : unread'[d][i] = Len(got[d]) + 1 + i
        <5> TAKE i \in 1 .. Len(unread'[d])
        <5>1. i \in Nat /\ i + 1 \in 1 .. Len(unread[d])
          <6>1. Len(unread'[d]) = Len(unread[d]) - 1
            BY <3>3
          <6> QED
            BY <1>n, <6>1, OneFewer, Zenon
        <5>2. unread[d][i + 1] = Len(got[d]) + 0 + (i + 1)
          BY <5>1, <4>1
        <5>3. unread'[d][i] = Len(got[d]) + 0 + (i + 1)
          BY <5>2, <3>3, Zenon
        <5> QED
          BY <1>n, <5>1, <5>3, NextIsLater, Zenon
      <4> QED
        BY <3>1, <3>2, <4>2, <4>3, <4>4 DEF Flow
    <3> QED
      BY <3>1, <3>4 DEF EchoInv
  <2> QED
    BY <2>1, <2>2
<1>3. ASSUME NEW k \in Kids, Write(k) PROVE Goal
  <2>1. CASE k # d
    BY <1>3, <2>1 DEF Write, ChildStep, EchoInv, Flow, Held, TypeOK, reaper
  <2>2. CASE k = d /\ client[d] # "gone"
    <3>1. /\ got'[d] = Append(got[d], message[d]) /\ message[d] \in Nat
          /\ kpc[d] = "write" /\ kpc'[d] = "read" /\ UNCHANGED <<message, said, unread, client, kid>>
      BY <1>3, <2>2 DEF Write, ChildStep, TypeOK, reaper
    <3>2. Flow(d) /\ Held(d) = 1 /\ Held(d)' = 0
      BY <2>2, <3>1 DEF EchoInv, Held
    <3>3. message[d] = Len(got[d]) + 1
      BY <3>1, <3>2 DEF Flow
    <3>4. /\ Len(got'[d]) = Len(got[d]) + 1
          /\ \A i \in 1 .. Len(got'[d]) : got'[d][i] = i
      BY <1>0, <3>1, <3>3, AppendAtEnd DEF EchoInv
    <3>5. Flow(d)'
      <4>1. /\ said[d] = Len(got[d]) + 1 + Len(unread[d])
            /\ \A i \in 1 .. Len(unread[d]) : unread[d][i] = Len(got[d]) + 1 + i
        BY <3>2 DEF Flow
      <4>2. said[d] = Len(got'[d]) + 0 + Len(unread[d])
        BY <1>n, <3>4, <4>1
      <4>3. ASSUME NEW i \in 1 .. Len(unread[d]) PROVE unread[d][i] = Len(got'[d]) + 0 + i
        BY <1>n, <3>4, <4>1
      <4> QED
        BY <3>1, <3>2, <4>2, <4>3 DEF Flow
    <3> QED
      BY <3>1, <3>4, <3>5 DEF EchoInv
  <2>3. CASE k = d /\ client[d] = "gone"
    BY <1>3, <2>3 DEF Write, ChildStep, EchoInv, TypeOK, reaper
  <2> QED
    BY <2>1, <2>2, <2>3
<1>4. ASSUME NEW c \in Clients, Say(c) PROVE Goal
  <2>1. CASE c # d
    BY <1>4, <2>1 DEF Say, EchoInv, Flow, Held, TypeOK, reaper, child
  <2>2. CASE c = d
    <3>1. /\ unread'[d] = Append(unread[d], said[d] + 1) /\ said'[d] = said[d] + 1
          /\ client[d] = "in" /\ UNCHANGED <<kpc, message, got, client, kid>>
      BY <1>4, <2>2 DEF Say, TypeOK, reaper, child
    <3>2. /\ Len(unread'[d]) = Len(unread[d]) + 1
          /\ \A i \in 1 .. Len(unread[d]) : unread'[d][i] = unread[d][i]
          /\ unread'[d][Len(unread[d]) + 1] = said[d] + 1
      BY <1>0, <3>1, AppendAtEnd
    <3>3. Flow(d)
      BY <3>1 DEF EchoInv
    <3>4. Held(d)' = Held(d) /\ Held(d) \in Nat
      BY <3>1 DEF Held
    <3>5. \A i \in 1 .. Len(unread'[d]) : unread'[d][i] = Len(got[d]) + Held(d) + i
      <4> TAKE i \in 1 .. Len(unread'[d])
      <4>1. CASE i \in 1 .. Len(unread[d])
        BY <3>2, <3>3, <4>1 DEF Flow
      <4>2. CASE i = Len(unread[d]) + 1
        <5>1. said[d] = Len(got[d]) + Held(d) + Len(unread[d])
          BY <3>3 DEF Flow
        <5>2. unread'[d][i] = said[d] + 1
          BY <3>2, <4>2
        <5>3. said[d] + 1 = Len(got[d]) + Held(d) + i
          BY <1>n, <3>4, <4>2, <5>1
        <5> QED
          BY <5>2, <5>3
      <4> QED
        BY <1>n, <3>2, <4>1, <4>2
    <3>6. said'[d] = Len(got[d]) + Held(d) + Len(unread'[d])
      <4>1. said[d] = Len(got[d]) + Held(d) + Len(unread[d])
        BY <3>3 DEF Flow
      <4>2. said'[d] = said[d] + 1 /\ Len(unread'[d]) = Len(unread[d]) + 1
        BY <3>1, <3>2
      <4> QED
        BY <1>n, <3>4, <4>1, <4>2
    <3>7. Flow(d)'
      BY <3>1, <3>3, <3>4, <3>5, <3>6 DEF Flow
    <3> QED
      BY <3>1, <3>7 DEF EchoInv
  <2> QED
    BY <2>1, <2>2
<1>5. CASE Handler
  <2>1. kid'[d] = "unborn" => kid[d] = "unborn"
    BY <1>5 DEF Handler, HandlerRuns, Deliver, Reap, HandlerReturns, Zombies, TypeOK, ReaperTypeOK
  <2> QED
    BY <1>1, <1>5, <2>1 DEF Handler, talk, child
<1>6. ASSUME NEW c \in Clients, Accept(c) PROVE Goal
  BY <1>1, <1>6 DEF Accept, TypeOK, reaper, child
<1>7. CASE Fork
  BY <1>1, <1>7 DEF Fork, Forks, EchoInv, TypeOK, ReaperTypeOK, talk
<1>8. CASE ForkFails \/ CloseClient
  BY <1>1, <1>8 DEF ForkFails, CloseClient, reaper, child, talk
<1>9. ASSUME NEW k \in Kids, CloseListener(k) \/ ReadEnd(k) \/ HangUpChild(k) PROVE Goal
  BY <1>1, <1>9 DEF CloseListener, ReadEnd, HangUpChild, ChildStep, EchoInv, TypeOK, reaper, talk
<1>10. ASSUME NEW k \in Kids, WriteKills(k) PROVE Goal
  BY <1>1, <1>10 DEF WriteKills, Exits, ChildStep, EchoInv, TypeOK, ReaperTypeOK, talk
<1>11. ASSUME NEW k \in Kids, Exit(k) PROVE Goal
  BY <1>1, <1>11 DEF Exit, Exits, ChildStep, EchoInv, TypeOK, ReaperTypeOK, talk
<1>12. ASSUME NEW c \in Clients, Connect(c) \/ HangUp(c) PROVE Goal
  BY <1>1, <1>12 DEF Connect, HangUp, TypeOK, reaper, child
<1>13. CASE JobControl
  BY <1>1, <1>13 DEF JobControl, Stops, Continues, JobStep, TypeOK, ReaperTypeOK, child, talk
<1>14. CASE UNCHANGED vars
  BY <1>1, <1>14 DEF vars, reaper, child, talk
<1> QED
  BY <1>2, <1>3, <1>4, <1>5, <1>6, <1>7, <1>8, <1>9, <1>10, <1>11, <1>12, <1>13, <1>14
  DEF Next, ServerRuns, ChildRuns

(* Every client gets back what it sent, in order and without a gap.         *)
THEOREM EchoIsFaithful == Spec => []EchoesInOrder
<1>1. Init => EchoInv
  BY DEF Init, ReaperInit, EchoInv, Flow, Held, Clients
<1>2. EchoInv => EchoesInOrder
  BY DEF EchoInv, EchoesInOrder
<1> QED
  BY <1>1, <1>2, EchoInvStep, Typing, PTL DEF Spec
-----------------------------------------------------------------------------
(* The server implements EchoService: a client that speaks asks, a child    *)
(* that writes to a client that is there answers, and all else is a         *)
(* stutter.                                                                 *)
NeverAhead == \A c \in Clients : Len(got[c]) <= said[c]

LEMMA NumbersBegin ==
  ASSUME NEW m \in Nat, NEW n \in Nat, m <= n
  PROVE  /\ Len(Numbers(m)) = m /\ Echo!Begins(Numbers(m), Numbers(n))
         /\ \A q \in Seq(Nat) : Len(q) = m /\ (\A i \in 1 .. m : q[i] = i) => Echo!Begins(q, Numbers(n))
<1>1. Len(Numbers(m)) = m /\ Len(Numbers(n)) = n
  BY DEF Numbers
<1>2. \A i \in 1 .. m : i \in 1 .. n /\ Numbers(m)[i] = i /\ Numbers(n)[i] = i
  BY DEF Numbers
<1> QED
  BY <1>1, <1>2 DEF Echo!Begins

(* All but Write and Say leave the two histories alone.                     *)
LEMMA SayAsks ==
  ASSUME TypeOK, NeverAhead, NEW c \in Clients, Say(c)
  PROVE  NeverAhead' /\ Echo!Next
<1>1. /\ said' = [said EXCEPT ![c] = @ + 1] /\ got' = got /\ said[c] \in Nat
      /\ said \in [Clients -> 0 .. MaxMsgs] /\ said'[c] = said[c] + 1
  BY ForkAssumption DEF Say, TypeOK
<1>2. NeverAhead'
  <2>1. ASSUME NEW d \in Clients PROVE Len(got'[d]) <= said'[d]
    <3>1. got[d] \in Seq(1 .. MaxMsgs) /\ Len(got[d]) \in Nat /\ Len(got[d]) <= said[d]
      BY LenProperties DEF TypeOK, NeverAhead
    <3>2. said[d] \in Nat /\ said'[d] \in {said[d], said[d] + 1}
      BY <1>1, ForkAssumption
    <3> QED
      BY <1>1, <3>1, <3>2
  <2> QED
    BY <2>1 DEF NeverAhead
<1>3. Echo!Begins(Numbers(said[c]), Numbers(said'[c]))
  BY <1>1, NumbersBegin
<1>4. [d \in Clients |-> Numbers(said'[d])]
        = [[d \in Clients |-> Numbers(said[d])] EXCEPT ![c] = Numbers(said'[c])]
  BY <1>1
<1>5. Echo!Ask(c)
  BY <1>1, <1>3, <1>4 DEF Echo!Ask
<1> QED
  BY <1>2, <1>5 DEF Echo!Next

LEMMA WriteAnswers ==
  ASSUME TypeOK, EchoInv, NeverAhead, NEW c \in Clients, Write(c), client[c] # "gone"
  PROVE  NeverAhead' /\ Echo!Next
<1> USE DEF Clients
<1>0. /\ got[c] \in Seq(Nat) /\ Len(got[c]) \in Nat /\ Len(unread[c]) \in Nat
      /\ said[c] \in Nat /\ message[c] \in Nat
  <2>1. got[c] \in Seq(Nat) /\ unread[c] \in Seq(Nat)
    BY ForkAssumption DEF TypeOK
  <2>2. said[c] \in Nat /\ message[c] \in Nat
    BY ForkAssumption DEF TypeOK
  <2> QED
    BY <2>1, <2>2, LenProperties
<1>1. /\ got' = [got EXCEPT ![c] = Append(@, message[c])] /\ UNCHANGED said /\ kpc[c] = "write"
      /\ got'[c] = Append(got[c], message[c])
  BY DEF Write, ChildStep, TypeOK
<1>2. message[c] = Len(got[c]) + 1 /\ Len(got[c]) + 1 <= said[c]
  <2>1. message[c] = Len(got[c]) + 1 /\ said[c] = Len(got[c]) + 1 + Len(unread[c])
    BY <1>1 DEF EchoInv, Flow, Held
  <2>2. \A g, u, n \in Nat : n = g + 1 + u => g + 1 <= n
    OBVIOUS
  <2>3. Len(got[c]) + 1 <= said[c]
    BY <1>0, <2>1, <2>2, Zenon
  <2> QED
    BY <2>1, <2>3
<1>3. /\ got'[c] \in Seq(Nat) /\ Len(got'[c]) = Len(got[c]) + 1
      /\ \A i \in 1 .. Len(got[c]) : got'[c][i] = got[c][i]
      /\ \A i \in 1 .. Len(got[c]) + 1 : got'[c][i] = i
  BY <1>0, <1>1, <1>2, AppendAtEnd DEF EchoInv
<1>4. NeverAhead'
  <2>1. ASSUME NEW d \in Clients PROVE Len(got'[d]) <= said'[d]
    BY <1>1, <1>2, <1>3 DEF NeverAhead, TypeOK
  <2> QED
    BY <2>1 DEF NeverAhead
<1>5. Echo!Begins(got[c], got'[c])
  BY <1>0, <1>3 DEF Echo!Begins
<1>6. Echo!Begins(got'[c], Numbers(said[c]))
  BY <1>0, <1>2, <1>3, NumbersBegin
<1>7. got' = [got EXCEPT ![c] = got'[c]]
  BY <1>1
<1>8. Echo!Answer(c)
  BY <1>1, <1>5, <1>6, <1>7 DEF Echo!Answer
<1> QED
  BY <1>4, <1>8 DEF Echo!Next

LEMMA EchoServiceStep ==
  TypeOK /\ EchoInv /\ NeverAhead /\ [Next]_vars => NeverAhead' /\ [Echo!Next]_(Echo!vars)
<1> SUFFICES ASSUME TypeOK, EchoInv, NeverAhead, [Next]_vars
             PROVE  NeverAhead' /\ [Echo!Next]_(Echo!vars)
  OBVIOUS
<1>1. CASE UNCHANGED <<got, said>>
  BY <1>1 DEF NeverAhead, Echo!vars
<1>2. ASSUME NEW c \in Clients, Say(c) PROVE NeverAhead' /\ Echo!Next
  BY <1>2, SayAsks
<1>3. ASSUME NEW c \in Kids, Write(c) PROVE NeverAhead' /\ [Echo!Next]_(Echo!vars)
  <2>1. CASE client[c] = "gone"
    BY <1>1, <1>3, <2>1 DEF Write
  <2>2. CASE client[c] # "gone"
    BY <1>3, <2>2, WriteAnswers DEF Clients
  <2> QED
    BY <2>1, <2>2
<1>4. CASE Handler \/ JobControl \/ ServerRuns
  BY <1>1, <1>4 DEF Handler, JobControl, ServerRuns, Accept, Fork, ForkFails, CloseClient, talk
<1>5. ASSUME NEW k \in Kids, ChildRuns(k), ~Write(k) PROVE UNCHANGED <<got, said>>
  BY <1>5 DEF ChildRuns, CloseListener, Read, ReadEnd, WriteKills, HangUpChild, Exit, talk
<1>6. ASSUME NEW c \in Clients, Connect(c) \/ HangUp(c) PROVE UNCHANGED <<got, said>>
  BY <1>6 DEF Connect, HangUp
<1>7. CASE UNCHANGED vars
  BY <1>1, <1>7 DEF vars, talk
<1> QED
  BY <1>1, <1>2, <1>3, <1>4, <1>5, <1>6, <1>7 DEF Next

LEMMA EchoServiceInit == Init => NeverAhead /\ Echo!Init
<1> SUFFICES ASSUME Init PROVE NeverAhead /\ Echo!Init
  OBVIOUS
<1>1. \A c \in Clients : said[c] = 0 /\ got[c] = <<>>
  BY DEF Init
<1>2. Numbers(0) = <<>>
  BY DEF Numbers
<1>3. [c \in Clients |-> Numbers(said[c])] = [c \in Clients |-> <<>>]
  BY <1>1, <1>2
<1> QED
  BY <1>1, <1>3 DEF Init, NeverAhead, Echo!Init

(* The forking server is an echo service for each of its clients.           *)
THEOREM ForkServesEcho == Spec => ServesEcho
<1>1. Init => EchoInv
  BY DEF Init, ReaperInit, EchoInv, Flow, Held, Clients
<1> QED
  BY <1>1, EchoInvStep, EchoServiceInit, EchoServiceStep, Typing, PTL
  DEF Spec, ServesEcho, Echo!Spec
=============================================================================
