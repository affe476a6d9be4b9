-------------------------- MODULE PipeServerProofs --------------------------
(***************************************************************************)
(* What is proved of ForkServer holds with the saver beside it, and the     *)
(* saver's file misses nothing, for any clients, messages, pipe and number  *)
(* of reads.                                                                *)
(***************************************************************************)
EXTENDS PipeServer, ForkServerProofs

(* The saver is forked before the first accept.  Without a saver nothing    *)
(* is written; a child writes to the pipe between Write and its next Read.  *)
SaverFirst ==
  /\ spc = "unforked" => ppc = "accept"
  /\ saving \in BOOLEAN /\ (~saving => saved = <<>> /\ pipe = <<>> /\ owes = {})
  /\ owes \subseteq Kids /\ \A k \in owes : k # Saver /\ kpc[k] = "read"

(* The saver is forked once, for no client, and never runs a child's code.  *)
SaverApart ==
  /\ \A k \in Kids \ {Saver} : OwnSockets(k)
  /\ holds[Saver] = IF spc = "reads" THEN {Listener} ELSE {}
  /\ client[Saver] = "away" /\ (ppc # "accept" => clnt_sock # Saver)

PipeBase ==
  TypeInv /\ SignalsAccounted /\ ServerHolds /\ SaverApart /\ EchoInv /\ SaverFirst
-----------------------------------------------------------------------------
(* Every step is one of ForkServer, except the two that make and end the    *)
(* saver.                                                                   *)
LEMMA StepsOfTwoServers ==
  ASSUME [PipeNext]_allvars
  PROVE  [Next]_vars \/ ForkSaver \/ SaverExits
<1>1. ASSUME NEW k \in Kids, PipeChildRuns(k) PROVE [Next]_vars
  BY <1>1 DEF PipeChildRuns, ClientChild, WritesPipe, OtherChildStep, Next, ChildRuns
<1>2. CASE PipeServerRuns \/ PipeHandler \/ PipeJobControl
  BY <1>2 DEF PipeServerRuns, PipeHandler, PipeJobControl, Next
<1>3. ASSUME NEW c \in Clients, Connect(c) \/ Say(c) \/ HangUp(c) PROVE Next
  BY <1>3 DEF Next
<1>4. CASE ForkSaverFails \/ SaverReads
  BY <1>4 DEF ForkSaverFails, SaverReads
<1>5. CASE UNCHANGED allvars
  BY <1>5 DEF allvars
<1> QED
  BY <1>1, <1>2, <1>3, <1>4, <1>5 DEF PipeNext, SaverRuns

LEMMA PipeInitBase == PipeInit => PipeBase
<1> SUFFICES ASSUME PipeInit PROVE PipeBase
  OBVIOUS
<1>1. TypeInv
  BY InitTypes DEF PipeInit
<1>2. ServerHolds
  BY ForkAssumption DEF PipeInit, Init, ServerHolds, Clients, Procs
<1>3. EchoInv
  BY DEF PipeInit, Init, ReaperInit, EchoInv, Flow, Held, Clients
<1>4. SignalsAccounted
  BY SignalsInit DEF PipeInit
<1>5. SaverFirst
  BY DEF PipeInit, Init, SaverFirst
<1>6. SaverApart
  BY ForkAssumption, PipeAssumption DEF PipeInit, Init, SaverApart, OwnSockets, Clients, Procs
<1> QED
  BY <1>1, <1>2, <1>3, <1>4, <1>5, <1>6 DEF PipeBase

LEMMA ForkSaverBase ==
  ASSUME PipeBase, ForkSaver
  PROVE  TypeInv' /\ SignalsAccounted' /\ ServerHolds' /\ EchoInv'
<1> USE ForkAssumption, PipeAssumption DEF Clients, Procs
<1>1. /\ kid[Saver] = "unborn" /\ kid' = [kid EXCEPT ![Saver] = "running"]
      /\ holds' = [holds EXCEPT ![Saver] = holds[Server]]
      /\ UNCHANGED <<hpc, pending, jobs, blanks, ppc, clnt_sock, kpc, message, client, said, unread, got>>
  BY DEF ForkSaver, Forks, server, child, talk
<1>2. ppc = "accept" /\ holds[Server] = {Listener}
  BY DEF PipeBase, SaverFirst, ForkSaver, ServerHolds
<1>3. TypeInv'
  BY <1>1 DEF PipeBase, TypeInv, TypeOK, ReaperTypeOK, WritesWhatItRead
<1>4. SignalsAccounted'
  <2>1. Zombies' = Zombies
    BY <1>1 DEF Zombies, PipeBase, TypeInv, TypeOK, ReaperTypeOK
  <2> QED
    BY <1>1, <2>1 DEF PipeBase, SignalsAccounted, One
<1>5. ServerHolds'
  BY <1>1, <1>2 DEF PipeBase, ServerHolds, TypeInv, TypeOK
<1>6. EchoInv'
  BY <1>1 DEF PipeBase, EchoInv, Flow, Held, TypeInv, TypeOK, ReaperTypeOK
<1> QED
  BY <1>3, <1>4, <1>5, <1>6

LEMMA SaverExitsBase ==
  ASSUME PipeBase, SaverExits
  PROVE  TypeInv' /\ SignalsAccounted' /\ ServerHolds' /\ EchoInv'
<1> USE ForkAssumption, PipeAssumption DEF Clients, Procs
<1>1. /\ kid[Saver] = "running" /\ kid' = [kid EXCEPT ![Saver] = "zombie"] /\ pending' = TRUE
      /\ holds' = [holds EXCEPT ![Saver] = {}]
      /\ UNCHANGED <<hpc, jobs, blanks, ppc, clnt_sock, kpc, message, client, said, unread, got>>
  BY DEF SaverExits, Exits, server, child, talk
<1>2. TypeInv'
  BY <1>1 DEF PipeBase, TypeInv, TypeOK, ReaperTypeOK, WritesWhatItRead, SaverExits, Exits
<1>3. SignalsAccounted'
  <2>1. Zombies' = Zombies \cup {Saver} /\ Saver \in Kids \ Zombies
    BY <1>1 DEF Zombies, PipeBase, TypeInv, TypeOK, ReaperTypeOK
  <2>2. TypeOK
    BY DEF PipeBase, TypeInv
  <2>3. Cardinality(Zombies)' = Cardinality(Zombies) + 1 /\ Cardinality(Zombies) \in Nat
    BY <2>1, <2>2, ZombieCount
  <2>4. blanks \in Nat /\ jobs \in Nat
    BY <2>2, ReaperAssumption DEF TypeOK, ReaperTypeOK
  <2> QED
    BY <1>1, <2>3, <2>4 DEF PipeBase, SignalsAccounted, One
<1>4. ServerHolds'
  BY <1>1 DEF PipeBase, ServerHolds, TypeInv, TypeOK
<1>5. EchoInv'
  BY <1>1 DEF PipeBase, EchoInv, Flow, Held, TypeInv, TypeOK, ReaperTypeOK
<1> QED
  BY <1>2, <1>3, <1>4, <1>5

(* The saver gets the listener by its fork and loses it by its exit; no     *)
(* other step is the saver's.                                               *)
LEMMA SaverApartStep == PipeBase /\ [PipeNext]_allvars => SaverApart'
<1> SUFFICES ASSUME PipeBase, [PipeNext]_allvars PROVE SaverApart'
  OBVIOUS
<1> USE ForkAssumption, PipeAssumption DEF Clients, Procs
<1>0. TypeOK /\ ServerHolds /\ SaverApart /\ SaverFirst /\ holds \in [Procs -> SUBSET (Clients \cup {Listener})]
  BY DEF PipeBase, TypeInv, TypeOK
<1>1. CASE ForkSaver
  <2>1. /\ ppc = "accept" /\ ppc' = ppc /\ client' = client /\ kpc' = kpc /\ spc' = "reads"
        /\ holds[Server] = {Listener} /\ holds' = [holds EXCEPT ![Saver] = holds[Server]]
    BY <1>0, <1>1 DEF ForkSaver, SaverFirst, ServerHolds, server, child, talk
  <2> QED
    BY <1>0, <2>1 DEF SaverApart, OwnSockets
<1>2. CASE SaverExits
  <2>1. /\ UNCHANGED <<ppc, clnt_sock, client, kpc>> /\ spc' = "gone"
        /\ holds' = [holds EXCEPT ![Saver] = {}]
    BY <1>2 DEF SaverExits, server, child, talk
  <2> QED
    BY <1>0, <2>1 DEF SaverApart, OwnSockets
<1>3. ASSUME [Next]_vars, holds'[Saver] = holds[Saver], (spc' = "reads" <=> spc = "reads"),
             client'[Saver] = "away", ppc' # "accept" => clnt_sock' # Saver
      PROVE  SaverApart'
  BY <1>0, <1>3, HoldsStep DEF SaverApart
<1>4. CASE ForkSaverFails
  BY <1>0, <1>3, <1>4 DEF ForkSaverFails, SaverApart, vars, server, talk
<1>5. CASE PipeServerRuns
  <2>1. spc' = spc /\ Next
    BY <1>5 DEF PipeServerRuns, saver, Next
  <2>2. ASSUME NEW c \in Clients, Accept(c) PROVE SaverApart'
    <3>1. c # Saver
      BY <1>0, <2>2 DEF Accept, SaverApart
    <3>2. holds'[Saver] = holds[Saver] /\ client'[Saver] = "away" /\ clnt_sock' # Saver
      BY <1>0, <2>2, <3>1 DEF Accept, SaverApart, TypeOK
    <3> QED
      BY <1>3, <2>1, <3>2
  <2>3. CASE Fork
    <3>1. clnt_sock # Saver /\ UNCHANGED <<client, clnt_sock>>
      BY <1>0, <2>3 DEF Fork, ServerStep, SaverApart, talk
    <3>2. holds'[Saver] = holds[Saver]
      BY <1>0, <2>3, <3>1 DEF Fork
    <3> QED
      BY <1>0, <1>3, <2>1, <3>1, <3>2 DEF SaverApart
  <2>4. CASE ForkFails \/ CloseClient
    BY <1>0, <1>3, <2>1, <2>4 DEF ForkFails, CloseClient, ServerStep, Closes, SaverApart, talk
  <2> QED
    BY <1>5, <2>2, <2>3, <2>4 DEF PipeServerRuns, ServerRuns
<1>6. CASE PipeHandler \/ PipeJobControl
  BY <1>0, <1>3, <1>6 DEF PipeHandler, PipeJobControl, Handler, JobControl, Next, SaverApart,
     saver, server, talk
<1>7. CASE SaverReads
  BY <1>0, <1>3, <1>7 DEF SaverReads, SaverApart, vars, server, talk
<1>8. ASSUME NEW k \in Kids, PipeChildRuns(k) PROVE SaverApart'
  <2>1. CASE ClientChild(k)
    <3>1. ChildRuns(k) /\ k # Saver /\ spc' = spc
      BY <2>1 DEF ClientChild, OtherChildStep, ChildRuns, saver
    <3>2. UNCHANGED <<ppc, clnt_sock, client>> /\ (\A p \in Procs \ {k} : holds'[p] = holds[p])
      BY <1>0, <3>1 DEF ChildRuns, CloseListener, Read, ReadEnd, Write, WriteKills, HangUpChild, Exit,
         Closes, server, talk
    <3>3. Next
      BY <3>1 DEF Next
    <3> QED
      BY <1>0, <1>3, <3>1, <3>2, <3>3 DEF SaverApart
  <2>2. CASE WritesPipe(k)
    BY <1>0, <1>3, <2>2 DEF WritesPipe, SaverApart, vars, saver, server, talk
  <2> QED
    BY <1>8, <2>1, <2>2 DEF PipeChildRuns
<1>9. ASSUME NEW c \in Clients \ {Saver}, Connect(c) \/ Say(c) \/ HangUp(c), spc' = spc
      PROVE  SaverApart'
  <2>1. Next
    BY <1>9 DEF Next
  <2>2. UNCHANGED <<holds, ppc, clnt_sock>> /\ client'[Saver] = client[Saver]
    BY <1>0, <1>9 DEF Connect, Say, HangUp, server, TypeOK
  <2> QED
    BY <1>0, <1>3, <1>9, <2>1, <2>2 DEF SaverApart
<1>10. CASE UNCHANGED allvars
  BY <1>0, <1>3, <1>10 DEF allvars, saver, SaverApart, vars, server, talk
<1> QED
  BY <1>1, <1>2, <1>4, <1>5, <1>6, <1>7, <1>8, <1>9, <1>10 DEF PipeNext, SaverRuns, saver

LEMMA SaverFirstStep == PipeBase /\ [PipeNext]_allvars => SaverFirst'
<1> SUFFICES ASSUME PipeBase, [PipeNext]_allvars PROVE SaverFirst'
  OBVIOUS
<1> USE PipeAssumption DEF PipeBase, SaverFirst, TypeInv, TypeOK
<1>1. CASE ForkSaver
  BY <1>1 DEF ForkSaver, server, child
<1>2. CASE ForkSaverFails
  BY <1>2 DEF ForkSaverFails, vars, server, child
<1>3. CASE PipeServerRuns
  <2>1. ASSUME NEW k \in owes PROVE kpc'[k] = kpc[k]
    <3>1. kpc[k] = "read" /\ k \in Kids
      BY <2>1
    <3>2. CASE Fork
      <4>1. kpc[clnt_sock] = "none" /\ clnt_sock \in Kids
        BY <3>2, ForkAssumption DEF Fork, Forks, EchoInv, ServerHolds, ServerStep, Clients
      <4> QED
        BY <3>1, <3>2, <4>1 DEF Fork
    <3>3. CASE ~Fork
      BY <1>3, <3>3 DEF PipeServerRuns, ServerRuns, Accept, ForkFails, CloseClient, child
    <3> QED
      BY <3>2, <3>3
  <2> QED
    BY <1>3, <2>1 DEF PipeServerRuns, saver
<1>4. CASE PipeHandler \/ PipeJobControl
  BY <1>4 DEF PipeHandler, PipeJobControl, Handler, JobControl, server, child, saver
<1>5. CASE SaverReads
  BY <1>5 DEF SaverReads, vars, server, child
<1>6. CASE SaverExits
  BY <1>6 DEF SaverExits, server, child
<1>7. ASSUME NEW k \in Kids, ClientChild(k) PROVE SaverFirst'
  <2>1. kpc' = [kpc EXCEPT ![k] = kpc'[k]] /\ UNCHANGED server /\ (Write(k) => kpc'[k] = "read")
    BY <1>7 DEF ClientChild, OtherChildStep, Write, CloseListener, Read, ReadEnd, WriteKills,
       HangUpChild, Exit, ChildStep
  <2>2. \A j \in owes : kpc'[j] = kpc[j]
    BY <1>7, <2>1 DEF ClientChild
  <2> QED
    BY <1>7, <2>1, <2>2 DEF ClientChild, saver, server
<1>8. ASSUME NEW k \in Kids, WritesPipe(k) PROVE SaverFirst'
  BY <1>8 DEF WritesPipe, vars, server, child, saver
<1>9. ASSUME NEW c \in Clients, Connect(c) \/ Say(c) \/ HangUp(c),
             UNCHANGED <<saving, saver, pipe, owes>>
      PROVE  SaverFirst'
  BY <1>9 DEF Connect, Say, HangUp, server, child, saver
<1>10. CASE UNCHANGED allvars
  BY <1>10 DEF allvars, vars, server, child, saver
<1> QED
  BY <1>1, <1>2, <1>3, <1>4, <1>5, <1>6, <1>7, <1>8, <1>9, <1>10
  DEF PipeNext, SaverRuns, PipeChildRuns

LEMMA PipeBaseStep == PipeBase /\ [PipeNext]_allvars => PipeBase'
<1> SUFFICES ASSUME PipeBase, [PipeNext]_allvars PROVE PipeBase'
  OBVIOUS
<1>1. TypeInv' /\ SignalsAccounted' /\ ServerHolds' /\ EchoInv'
  <2>1. CASE [Next]_vars
    BY <2>1, TypesStep, SignalsStep, HoldsStep, EchoInvStep DEF PipeBase, TypeInv
  <2>2. CASE ForkSaver \/ SaverExits
    BY <2>2, ForkSaverBase, SaverExitsBase
  <2> QED
    BY <2>1, <2>2, StepsOfTwoServers
<1> QED
  BY <1>1, SaverApartStep, SaverFirstStep DEF PipeBase

LEMMA PipeBaseAlways == PipeSpec => []PipeBase
BY PipeInitBase, PipeBaseStep, PTL DEF PipeSpec

(* With the saver's exit, stops and continues, too, the handler finds       *)
(* status unset no more often than children were stopped or continued.      *)
THEOREM PipeBlanksAreJobControl == PipeSpec => []BlankOnlyByJobControl
<1>1. PipeBase => BlankOnlyByJobControl
  BY DEF PipeBase, SignalsAccounted, BlankOnlyByJobControl
<1> QED
  BY <1>1, PipeBaseAlways, PTL

(* The saver holds the listener all its life and never a client's socket;   *)
(* the clients' children and the server are as in concurrent_server.        *)
THEOREM PipeSocketsStayApart == PipeSpec => []OnlySaverKeepsListener
<1>1. PipeBase => OnlySaverKeepsListener
  BY DEF PipeBase, ServerHolds, SaverApart, OnlySaverKeepsListener
<1> QED
  BY <1>1, PipeBaseAlways, PTL

(* A child that waits for room in the pipe still echoes in order.           *)
THEOREM PipeEchoIsFaithful == PipeSpec => []EchoesInOrder
<1>1. PipeBase => EchoesInOrder
  BY DEF PipeBase, EchoInv, EchoesInOrder
<1> QED
  BY <1>1, PipeBaseAlways, PTL
(* The program with the saver is the same echo service: the saver and the   *)
(* pipe change nothing that a client sees but the time it waits.            *)
THEOREM PipeServesEcho == PipeSpec => ServesEcho
<1>1. PipeInit => NeverAhead /\ Echo!Init
  BY EchoServiceInit DEF PipeInit
<1>2. PipeBase /\ NeverAhead /\ [PipeNext]_allvars => NeverAhead' /\ [Echo!Next]_(Echo!vars)
  <2> SUFFICES ASSUME PipeBase, NeverAhead, [PipeNext]_allvars
               PROVE  NeverAhead' /\ [Echo!Next]_(Echo!vars)
    OBVIOUS
  <2>1. CASE [Next]_vars
    BY <2>1, EchoServiceStep DEF PipeBase, TypeInv
  <2>2. CASE ForkSaver \/ SaverExits
    <3>1. UNCHANGED <<got, said>>
      BY <2>2 DEF ForkSaver, SaverExits, talk
    <3> QED
      BY <3>1 DEF NeverAhead, Echo!vars
  <2> QED
    BY <2>1, <2>2, StepsOfTwoServers
<1> QED
  BY <1>1, <1>2, PipeBaseAlways, PTL DEF PipeSpec, ServesEcho, Echo!Spec
-----------------------------------------------------------------------------
(* What is written.                                                         *)

Entries == Kids \X (1 .. MaxMsgs)
PipeTypes ==
  /\ spc \in {"unforked", "reads", "gone"} /\ reads \in 0 .. MaxReads
  /\ saved \in Seq(Entries) /\ pipe \in Seq(Entries) /\ Len(pipe) <= Capacity
  /\ \A k \in owes : message[k] \in 1 .. MaxMsgs

LEMMA Joined == ASSUME NEW S PROVE \A s, t, u \in Seq(S) : (s \o t) \o u = s \o (t \o u)
  BY ConcatAssociative

(* A read takes the first part of the pipe and leaves the rest.             *)
LEMMA CutAnywhere ==
  ASSUME NEW S, NEW s \in Seq(S), NEW t \in Seq(S), NEW n \in 1 .. Len(t)
  PROVE  /\ s \o SubSeq(t, 1, n) \in Seq(S) /\ SubSeq(t, n + 1, Len(t)) \in Seq(S)
         /\ Len(SubSeq(t, n + 1, Len(t))) <= Len(t)
         /\ (s \o SubSeq(t, 1, n)) \o SubSeq(t, n + 1, Len(t)) = s \o t
<1>1. Len(t) \in Nat /\ \A i \in 1 .. Len(t) : t[i] \in S
  BY LenProperties, ElementOfSeq
<1>2. SubSeq(t, 1, n) \in Seq(S)
  <2>1. \A i \in 1 .. n : t[i] \in S
    BY <1>1
  <2> QED
    BY <2>1, SubSeqProperties
<1>3. SubSeq(t, n + 1, Len(t)) \in Seq(S) /\ Len(SubSeq(t, n + 1, Len(t))) <= Len(t)
  <2>1. \A i \in n + 1 .. Len(t) : t[i] \in S
    BY <1>1
  <2>2. /\ SubSeq(t, n + 1, Len(t)) \in Seq(S)
        /\ Len(SubSeq(t, n + 1, Len(t)))
             = IF n + 1 <= Len(t) THEN Len(t) - (n + 1) + 1 ELSE 0
    BY <1>1, <2>1, SubSeqProperties
  <2> QED
    BY <1>1, <2>2
<1>4. SubSeq(t, 1, n) \o SubSeq(t, n + 1, Len(t)) = t
  <2>1. 1 \in 1 .. Len(t) + 1 /\ n \in 1 - 1 .. Len(t) /\ Len(t) \in n .. Len(t)
    BY <1>1
  <2>2. SubSeq(t, 1, n) \o SubSeq(t, n + 1, Len(t)) = SubSeq(t, 1, Len(t))
    BY <2>1, ConcatAdjacentSubSeq
  <2> QED
    BY <2>2, SubSeqFull
<1>5. (s \o SubSeq(t, 1, n)) \o SubSeq(t, n + 1, Len(t))
       = s \o (SubSeq(t, 1, n) \o SubSeq(t, n + 1, Len(t)))
  <2>1. ASSUME NEW u \in Seq(S), NEW v \in Seq(S) PROVE (s \o u) \o v = s \o (u \o v)
    BY Joined
  <2>2. SubSeq(t, 1, n) \in Seq(S) /\ SubSeq(t, n + 1, Len(t)) \in Seq(S)
    BY <1>2, <1>3
  <2> QED
    BY <2>1, <2>2, Zenon
<1>6. s \o SubSeq(t, 1, n) \in Seq(S)
  BY <1>2, ConcatProperties
<1> QED
  BY <1>3, <1>4, <1>5, <1>6

LEMMA AppendedBehind ==
  ASSUME NEW S, NEW s \in Seq(S), NEW t \in Seq(S), NEW e \in S
  PROVE  s \o Append(t, e) = Append(s \o t, e)
<1>1. Append(t, e) = t \o <<e>> /\ <<e>> \in Seq(S)
  BY AppendIsConcat
<1>2. s \o t \in Seq(S)
  BY ConcatProperties
<1>3. Append(s \o t, e) = (s \o t) \o <<e>>
  BY <1>2, AppendIsConcat
<1> QED
  BY <1>1, <1>3, ConcatAssociative

LEMMA PipeTypesStep == PipeBase /\ PipeTypes /\ [PipeNext]_allvars => PipeTypes'
<1> SUFFICES ASSUME PipeBase, PipeTypes, [PipeNext]_allvars PROVE PipeTypes'
  OBVIOUS
<1> USE PipeAssumption DEF PipeTypes
<1>0. TypeOK /\ SaverFirst /\ WritesWhatItRead
  BY DEF PipeBase, TypeInv
<1>1. CASE ForkSaver \/ ForkSaverFails \/ SaverExits
  BY <1>1 DEF ForkSaver, ForkSaverFails, SaverExits, vars, child
<1>2. CASE SaverReads
  <2>1. PICK n \in 1 .. Len(pipe) :
          saved' = saved \o SubSeq(pipe, 1, n) /\ pipe' = SubSeq(pipe, n + 1, Len(pipe))
    BY <1>2 DEF SaverReads
  <2>2. saved' \in Seq(Entries) /\ pipe' \in Seq(Entries) /\ Len(pipe') <= Len(pipe)
    BY <2>1, CutAnywhere
  <2>3. Len(pipe') \in Nat /\ Len(pipe) \in Nat
    BY <2>2, LenProperties
  <2> QED
    BY <1>2, <2>2, <2>3 DEF SaverReads, vars, child
<1>3. CASE PipeServerRuns \/ PipeHandler \/ PipeJobControl
  BY <1>3 DEF PipeServerRuns, ServerRuns, PipeHandler, Handler, PipeJobControl, JobControl, Accept, Fork, ForkFails,
     CloseClient, child, saver
<1>4. ASSUME NEW k \in Kids, ClientChild(k) PROVE PipeTypes'
  <2>1. UNCHANGED <<saver, pipe>>
    BY <1>4 DEF ClientChild
  <2>2. CASE Write(k)
    <3>1. owes' \subseteq owes \cup {k} /\ message[k] \in 1 .. MaxMsgs /\ message' = message
      BY <1>0, <1>4, <2>2 DEF ClientChild, OtherChildStep, Write, CloseListener, Read, ReadEnd,
         WriteKills, HangUpChild, Exit, ChildStep, WritesWhatItRead
    <3> QED
      BY <2>1, <3>1 DEF saver
  <2>3. CASE OtherChildStep(k) /\ UNCHANGED owes
    <3>1. \A j \in owes : message'[j] = message[j]
      BY <1>0, <1>4, <2>3 DEF ClientChild, OtherChildStep, CloseListener, Read, ReadEnd,
         WriteKills, HangUpChild, Exit, TypeOK, SaverFirst
    <3> QED
      BY <2>1, <2>3, <3>1 DEF saver
  <2> QED
    BY <1>4, <2>2, <2>3 DEF ClientChild
<1>5. ASSUME NEW k \in Kids, WritesPipe(k) PROVE PipeTypes'
  <2>1. <<k, message[k]>> \in Entries
    BY <1>5 DEF WritesPipe, Entries
  <2>2. pipe' \in Seq(Entries) /\ Len(pipe') = Len(pipe) + 1 /\ Len(pipe) \in Nat
    BY <1>5, <2>1, AppendProperties, LenProperties DEF WritesPipe
  <2> QED
    BY <1>5, <2>2 DEF WritesPipe, vars, child, saver
<1>6. ASSUME NEW c \in Clients, Connect(c) \/ Say(c) \/ HangUp(c),
             UNCHANGED <<saving, saver, pipe, owes>>
      PROVE  PipeTypes'
  BY <1>6 DEF Connect, Say, HangUp, child, saver
<1>7. CASE UNCHANGED allvars
  BY <1>7 DEF allvars, vars, child, saver
<1> QED
  BY <1>1, <1>2, <1>3, <1>4, <1>5, <1>6, <1>7 DEF PipeNext, SaverRuns, PipeChildRuns

(* Every variable keeps to its type, and the pipe to its capacity.          *)
THEOREM PipeTyping == PipeSpec => []PipeTypeOK
<1>1. PipeInit => PipeTypes
  BY PipeAssumption DEF PipeInit, PipeTypes
<1>2. PipeBase /\ PipeTypes => PipeTypeOK
  BY DEF PipeBase, PipeTypes, TypeInv, SaverFirst, PipeTypeOK, Entries
<1> QED
  BY <1>1, <1>2, PipeTypesStep, PipeBaseAlways, PTL DEF PipeSpec
-----------------------------------------------------------------------------
(* As long as a child lives, what its client said is what the child has     *)
(* written to the pipe, what it holds between read and that write, and what *)
(* is still unread, in this order.  A child killed by SIGPIPE takes what it *)
(* holds with it.                                                           *)
Behind(k) == IF kpc[k] = "write" \/ k \in owes THEN 1 ELSE 0
PipeFlow(k) ==
  /\ Behind(k) = 1 => message[k] = Count(k) + 1
  /\ said[k] = Count(k) + Behind(k) + Len(unread[k])
  /\ \A i \in 1 .. Len(unread[k]) : unread[k][i] = Count(k) + Behind(k) + i
Saves(k) ==
  /\ kpc[k] # "dead" => PipeFlow(k)
  /\ Len(got[k]) <= Count(k) + Owed(k)
Numbered == \A i \in 1 .. Len(Written) : Written[i][2] = Cardinality(Places(Written[i][1], i))

PipeInv == PipeBase /\ PipeTypes /\ Numbered /\ (saving => \A k \in Kids : Saves(k))

LEMMA WrittenIsSeq ==
  ASSUME PipeTypes
  PROVE  Written \in Seq(Entries) /\ Len(Written) \in Nat /\ \A k : Count(k) \in Nat
<1>1. Written \in Seq(Entries) /\ Len(Written) \in Nat
  BY ConcatProperties, LenProperties DEF PipeTypes, Written
<1>2. ASSUME NEW k PROVE Count(k) \in Nat
  <2>1. IsFiniteSet(1 .. Len(Written))
    BY <1>1, FS_Interval
  <2>2. Places(k, Len(Written)) \subseteq 1 .. Len(Written)
    BY DEF Places
  <2> QED
    BY <2>1, <2>2, FS_Subset, FS_CardinalityType DEF Count
<1> QED
  BY <1>1, <1>2

LEMMA SameWritten ==
  ASSUME Written' = Written
  PROVE  (Numbered => Numbered') /\ \A k : Count(k)' = Count(k)
BY DEF Numbered, Count, Places

(* One entry more changes the count of its child alone.                     *)
LEMMA OneMoreEntry ==
  ASSUME NEW w \in Seq(Entries), NEW e \in Entries, NEW v, v = Append(w, e)
  PROVE  /\ v \in Seq(Entries) /\ Len(w) \in Nat /\ Len(v) = Len(w) + 1 /\ v[Len(v)] = e
         /\ \A i \in 1 .. Len(w) : v[i] = w[i]
         /\ \A k : \A n \in 1 .. Len(w) : {i \in 1 .. n : v[i][1] = k} = {i \in 1 .. n : w[i][1] = k}
         /\ \A k : {i \in 1 .. Len(v) : v[i][1] = k}
                   = {i \in 1 .. Len(w) : w[i][1] = k} \cup IF e[1] = k THEN {Len(v)} ELSE {}
<1>1. v \in Seq(Entries) /\ Len(w) \in Nat /\ Len(v) = Len(w) + 1 /\ v[Len(v)] = e
  BY AppendProperties, LenProperties
<1>2. \A i \in 1 .. Len(w) : v[i] = w[i]
  BY AppendProperties
<1>3. ASSUME NEW k, NEW n \in 1 .. Len(w)
      PROVE  {i \in 1 .. n : v[i][1] = k} = {i \in 1 .. n : w[i][1] = k}
  <2>1. 1 .. n \subseteq 1 .. Len(w)
    BY <1>1
  <2> QED
    BY <1>2, <2>1
<1>4. ASSUME NEW k
      PROVE  {i \in 1 .. Len(v) : v[i][1] = k}
               = {i \in 1 .. Len(w) : w[i][1] = k} \cup IF e[1] = k THEN {Len(v)} ELSE {}
  <2>1. 1 .. Len(v) = 1 .. Len(w) \cup {Len(v)}
    BY <1>1
  <2> QED
    BY <1>1, <1>2, <2>1
<1> QED
  BY <1>1, <1>2, <1>3, <1>4

LEMMA CountGrows ==
  ASSUME PipeTypes, PipeTypes', NEW k \in Kids, message[k] = Count(k) + 1,
         <<k, message[k]>> \in Entries, Written' = Append(Written, <<k, message[k]>>)
  PROVE  /\ Count(k)' = Count(k) + 1 /\ \A j \in Kids : j # k => Count(j)' = Count(j)
         /\ Numbered => Numbered'
<1>0. Written \in Seq(Entries) /\ Len(Written) \in Nat /\ \A j : Count(j) \in Nat
  BY WrittenIsSeq
<1> DEFINE e == <<k, message[k]>>
<1>1. /\ Written' \in Seq(Entries) /\ Len(Written') = Len(Written) + 1 /\ Written'[Len(Written')] = e
      /\ \A i \in 1 .. Len(Written) : Written'[i] = Written[i]
      /\ \A j : \A n \in 1 .. Len(Written) :
           {i \in 1 .. n : Written'[i][1] = j} = {i \in 1 .. n : Written[i][1] = j}
      /\ \A j : {i \in 1 .. Len(Written') : Written'[i][1] = j}
                = {i \in 1 .. Len(Written) : Written[i][1] = j}
                  \cup IF e[1] = j THEN {Len(Written')} ELSE {}
  BY <1>0, OneMoreEntry
<1>2. ASSUME NEW j \in Kids, j # k PROVE Count(j)' = Count(j)
  <2>1. {i \in 1 .. Len(Written') : Written'[i][1] = j} = {i \in 1 .. Len(Written) : Written[i][1] = j}
    BY <1>1, <1>2
  <2> QED
    BY <2>1 DEF Count, Places
<1>3. Count(k)' = Count(k) + 1
  <2> DEFINE P == {i \in 1 .. Len(Written) : Written[i][1] = k}
  <2>1. {i \in 1 .. Len(Written') : Written'[i][1] = k} = P \cup {Len(Written')}
    BY <1>1
  <2>2. IsFiniteSet(P) /\ Len(Written') \notin P
    <3>1. IsFiniteSet(1 .. Len(Written)) /\ P \subseteq 1 .. Len(Written)
      BY <1>0, FS_Interval
    <3>2. Len(Written') \notin 1 .. Len(Written)
      BY <1>0, <1>1
    <3> QED
      BY <3>1, <3>2, FS_Subset
  <2>3. Cardinality(P \cup {Len(Written')}) = Cardinality(P) + 1
    BY <2>2, FS_AddElement
  <2> QED
    BY <2>1, <2>3 DEF Count, Places
<1>4. ASSUME Numbered PROVE Numbered'
  <2> SUFFICES ASSUME NEW i \in 1 .. Len(Written')
               PROVE  Written'[i][2] = Cardinality({j \in 1 .. i : Written'[j][1] = Written'[i][1]})
    BY DEF Numbered, Places
  <2>1. CASE i \in 1 .. Len(Written)
    BY <1>1, <1>4, <2>1 DEF Numbered, Places
  <2>2. CASE i = Len(Written')
    <3>1. Written'[i][1] = k /\ Written'[i][2] = Count(k) + 1
      BY <1>1, <2>2
    <3>2. Count(k)' = Cardinality({j \in 1 .. i : Written'[j][1] = k})
      BY <2>2 DEF Count, Places
    <3> QED
      BY <1>3, <3>1, <3>2
  <2>3. i \in 1 .. Len(Written) \/ i = Len(Written')
    BY <1>0, <1>1
  <2> QED
    BY <2>1, <2>2, <2>3
<1> QED
  BY <1>2, <1>3, <1>4

(* What a step leaves as it was for child d.                                *)
Untouched(d) ==
  /\ message'[d] = message[d] /\ said'[d] = said[d] /\ unread'[d] = unread[d] /\ got'[d] = got[d]
  /\ (kpc'[d] = "write" <=> kpc[d] = "write") /\ (kpc[d] = "dead" => kpc'[d] = "dead")
  /\ (d \in owes' <=> d \in owes)

LEMMA UntouchedSaves ==
  ASSUME NEW d \in Kids, Untouched(d), Count(d)' = Count(d), Saves(d)
  PROVE  Saves(d)'
<1>1. Behind(d)' = Behind(d) /\ Owed(d)' = Owed(d)
  BY DEF Untouched, Behind, Owed
<1> QED
  BY <1>1 DEF Untouched, Saves, PipeFlow

LEMMA ChildTypes ==
  ASSUME PipeBase, PipeTypes, NEW d \in Kids
  PROVE  /\ unread[d] \in Seq(Nat) /\ Len(unread[d]) \in Nat
         /\ got[d] \in Seq(Nat) /\ Len(got[d]) \in Nat
         /\ said[d] \in Nat /\ message[d] \in Nat /\ Count(d) \in Nat
<1>1. unread[d] \in Seq(Nat) /\ got[d] \in Seq(Nat)
  BY ForkAssumption DEF PipeBase, TypeInv, TypeOK, Clients
<1>2. said[d] \in Nat /\ message[d] \in Nat
  BY ForkAssumption DEF PipeBase, TypeInv, TypeOK, Clients
<1> QED
  BY <1>1, <1>2, WrittenIsSeq, LenProperties

LEMMA ReadSaves ==
  ASSUME PipeBase, PipeTypes, NEW d \in Kids, d \notin owes, Saves(d), Read(d),
         Count(d)' = Count(d), owes' = owes
  PROVE  Saves(d)'
<1> USE DEF Clients
<1>0. unread[d] \in Seq(Nat) /\ Len(unread[d]) \in Nat /\ Count(d) \in Nat
  BY ChildTypes
<1>1. /\ unread[d] # <<>> /\ unread'[d] = Tail(unread[d]) /\ message'[d] = unread[d][1]
      /\ kpc[d] = "read" /\ kpc'[d] = "write" /\ said'[d] = said[d] /\ got'[d] = got[d]
  BY <1>0, HeadAndTail DEF Read, ChildStep, PipeBase, TypeInv, TypeOK
<1>2. Behind(d) = 0 /\ Behind(d)' = 1 /\ Owed(d)' = Owed(d)
  BY <1>1 DEF Behind, Owed
<1>3. /\ Len(unread'[d]) = Len(unread[d]) - 1 /\ Len(unread[d]) >= 1
      /\ \A i \in 1 .. Len(unread'[d]) : unread'[d][i] = unread[d][i + 1]
  BY <1>0, <1>1, HeadAndTail
<1>4. /\ said[d] = Count(d) + 0 + Len(unread[d])
      /\ \A i \in 1 .. Len(unread[d]) : unread[d][i] = Count(d) + 0 + i
  BY <1>1, <1>2 DEF Saves, PipeFlow
<1>5. message'[d] = Count(d) + 1
  <2>1. 1 \in 1 .. Len(unread[d])
    BY <1>0, <1>3
  <2>2. unread[d][1] = Count(d) + 0 + 1
    BY <1>4, <2>1
  <2> QED
    BY <1>0, <1>1, <2>2
<1>6. said[d] = Count(d) + 1 + Len(unread'[d])
  <2>1. said[d] = Count(d) + 1 + (Len(unread[d]) - 1)
    BY <1>0, <1>4, OneIsHeld, Zenon
  <2> QED
    BY <1>3, <2>1, Zenon
<1>7. \A i \in 1 .. Len(unread'[d]) : unread'[d][i] = Count(d) + 1 + i
  <2> TAKE i \in 1 .. Len(unread'[d])
  <2>1. i \in Nat /\ i + 1 \in 1 .. Len(unread[d])
    <3>1. Len(unread'[d]) = Len(unread[d]) - 1
      BY <1>3
    <3> QED
      BY <1>0, <3>1, OneFewer, Zenon
  <2>2. unread[d][i + 1] = Count(d) + 0 + (i + 1)
    BY <2>1, <1>4
  <2>3. unread'[d][i] = Count(d) + 0 + (i + 1)
    BY <2>2, <1>3, Zenon
  <2> QED
    BY <1>0, <2>1, <2>3, NextIsLater, Zenon
<1>8. PipeFlow(d)'
  BY <1>1, <1>2, <1>5, <1>6, <1>7 DEF PipeFlow
<1> QED
  BY <1>1, <1>2, <1>8 DEF Saves

(* A message echoed is a message owed to the pipe.                          *)
LEMMA WriteSaves ==
  ASSUME PipeBase, PipeTypes, NEW d \in Kids, d \notin owes, Saves(d), Write(d),
         Count(d)' = Count(d), owes' = owes \cup {d}
  PROVE  Saves(d)'
<1> USE DEF Clients
<1>0. got[d] \in Seq(Nat) /\ Len(got[d]) \in Nat /\ Count(d) \in Nat /\ message[d] \in Nat
  BY ChildTypes
<1>1. /\ kpc[d] = "write" /\ kpc'[d] = "read"
      /\ UNCHANGED <<message, said, unread>>
      /\ got'[d] = got[d] \/ got'[d] = Append(got[d], message[d])
  BY DEF Write, ChildStep, PipeBase, TypeInv, TypeOK
<1>2. Behind(d) = 1 /\ Behind(d)' = 1 /\ Owed(d) = 0 /\ Owed(d)' = 1
  BY <1>1 DEF Behind, Owed
<1>3. PipeFlow(d)'
  BY <1>1, <1>2 DEF Saves, PipeFlow
<1>4. Len(got'[d]) <= Len(got[d]) + 1
  BY <1>0, <1>1, AppendAtEnd
<1>5. Len(got'[d]) \in Nat
  BY <1>0, <1>1, AppendAtEnd
<1>6. Len(got'[d]) <= Count(d) + 1
  BY <1>0, <1>2, <1>4, <1>5 DEF Saves
<1> QED
  BY <1>1, <1>2, <1>3, <1>6 DEF Saves

(* What was owed is written: one place further, nothing held.               *)
LEMMA WritesPipeSaves ==
  ASSUME PipeBase, PipeTypes, NEW d \in Kids, Saves(d), WritesPipe(d), Count(d)' = Count(d) + 1
  PROVE  Saves(d)'
<1> USE DEF Clients
<1>0. /\ Len(unread[d]) \in Nat /\ Len(got[d]) \in Nat /\ Count(d) \in Nat /\ said[d] \in Nat
      /\ \A i \in 1 .. Len(unread[d]) : i \in Nat
  BY ChildTypes
<1>1. d \in owes /\ owes' = owes \ {d} /\ kpc[d] = "read" /\ UNCHANGED <<kpc, message, talk>>
  BY DEF WritesPipe, vars, child, PipeBase, SaverFirst
<1>2. Behind(d) = 1 /\ Behind(d)' = 0 /\ Owed(d) = 1 /\ Owed(d)' = 0
  BY <1>1 DEF Behind, Owed
<1>3. /\ said[d] = Count(d) + 1 + Len(unread[d])
      /\ \A i \in 1 .. Len(unread[d]) : unread[d][i] = Count(d) + 1 + i
      /\ Len(got[d]) <= Count(d) + 1
  BY <1>1, <1>2 DEF Saves, PipeFlow
<1>4. said[d] = Count(d)' + 0 + Len(unread[d])
  BY <1>0, <1>3
<1>5. ASSUME NEW i \in 1 .. Len(unread[d]) PROVE unread[d][i] = Count(d)' + 0 + i
  BY <1>0, <1>3
<1>6. PipeFlow(d)'
  BY <1>1, <1>2, <1>4, <1>5 DEF PipeFlow, talk
<1>7. Len(got[d]) <= Count(d)' + 0
  BY <1>0, <1>3
<1> QED
  BY <1>1, <1>2, <1>6, <1>7 DEF Saves, talk

LEMMA SaySaves ==
  ASSUME PipeBase, PipeTypes, NEW d \in Kids, Saves(d), Say(d), Count(d)' = Count(d), owes' = owes
  PROVE  Saves(d)'
<1> USE DEF Clients
<1>0. /\ unread[d] \in Seq(Nat) /\ Len(unread[d]) \in Nat /\ said[d] \in Nat
      /\ Count(d) \in Nat
  BY ChildTypes
<1>1. /\ unread'[d] = Append(unread[d], said[d] + 1) /\ said'[d] = said[d] + 1
      /\ UNCHANGED <<kpc, message, got>>
  BY DEF Say, PipeBase, TypeInv, TypeOK, child
<1>2. Behind(d)' = Behind(d) /\ Behind(d) \in Nat /\ Owed(d)' = Owed(d)
  BY <1>1 DEF Behind, Owed
<1>3. /\ Len(unread'[d]) = Len(unread[d]) + 1
      /\ \A i \in 1 .. Len(unread[d]) : unread'[d][i] = unread[d][i]
      /\ unread'[d][Len(unread[d]) + 1] = said[d] + 1
  BY <1>0, <1>1, AppendAtEnd
<1>4. ASSUME PipeFlow(d) PROVE PipeFlow(d)'
  <2>1. said[d] = Count(d) + Behind(d) + Len(unread[d])
    BY <1>4 DEF PipeFlow
  <2>2. said'[d] = Count(d) + Behind(d) + Len(unread'[d])
    BY <1>0, <1>1, <1>2, <1>3, <2>1
  <2>3. \A i \in 1 .. Len(unread'[d]) : unread'[d][i] = Count(d) + Behind(d) + i
    <3> TAKE i \in 1 .. Len(unread'[d])
    <3>1. CASE i \in 1 .. Len(unread[d])
      BY <1>3, <1>4, <3>1 DEF PipeFlow
    <3>2. CASE i = Len(unread[d]) + 1
      <4>1. unread'[d][i] = said[d] + 1
        BY <1>3, <3>2
      <4>2. said[d] + 1 = Count(d) + Behind(d) + i
        BY <1>0, <1>2, <2>1, <3>2
      <4> QED
        BY <4>1, <4>2
    <3> QED
      BY <1>0, <1>3, <3>1, <3>2
  <2> QED
    BY <1>1, <1>2, <1>4, <2>2, <2>3 DEF PipeFlow
<1> QED
  BY <1>1, <1>2, <1>4 DEF Saves

(* Each step, for the child that takes it and for the others.               *)
LEMMA SavesStep ==
  ASSUME PipeInv, PipeTypes', [PipeNext]_allvars, saving
  PROVE  Numbered' /\ \A d \in Kids : Saves(d)'
<1> USE DEF Clients
<1>0. PipeBase /\ PipeTypes /\ Numbered /\ SaverFirst /\ TypeOK /\ \A d \in Kids : Saves(d)
  BY DEF PipeInv, PipeBase, TypeInv
<1>1. ASSUME Written' = Written, \A d \in Kids : Untouched(d)
      PROVE  Numbered' /\ \A d \in Kids : Saves(d)'
  BY <1>0, <1>1, SameWritten, UntouchedSaves
<1>2. CASE SaverReads
  <2>1. PICK n \in 1 .. Len(pipe) :
          saved' = saved \o SubSeq(pipe, 1, n) /\ pipe' = SubSeq(pipe, n + 1, Len(pipe))
    BY <1>2 DEF SaverReads
  <2>2. Written' = Written
    <3>1. saved \in Seq(Entries) /\ pipe \in Seq(Entries)
      BY <1>0 DEF PipeTypes
    <3>2. (saved \o SubSeq(pipe, 1, n)) \o SubSeq(pipe, n + 1, Len(pipe)) = saved \o pipe
      BY <3>1, CutAnywhere
    <3> QED
      BY <2>1, <3>2 DEF Written
  <2>3. ASSUME NEW d \in Kids PROVE Untouched(d)
    BY <1>2 DEF SaverReads, Untouched, vars, child, talk
  <2> QED
    BY <1>1, <2>2, <2>3
<1>3. ASSUME NEW k \in Kids, WritesPipe(k) PROVE Numbered' /\ \A d \in Kids : Saves(d)'
  <2>1. k \in owes /\ kpc[k] = "read" /\ message[k] \in 1 .. MaxMsgs
    BY <1>0, <1>3 DEF WritesPipe, SaverFirst, PipeTypes
  <2>2. <<k, message[k]>> \in Entries
    BY <2>1 DEF Entries
  <2>3. message[k] = Count(k) + 1
    BY <1>0, <2>1 DEF Saves, PipeFlow, Behind
  <2>4. Written' = Append(Written, <<k, message[k]>>)
    BY <1>0, <1>3, <2>2, AppendedBehind DEF WritesPipe, Written, saver, PipeTypes
  <2>5. /\ Count(k)' = Count(k) + 1 /\ \A j \in Kids : j # k => Count(j)' = Count(j)
        /\ Numbered'
    BY <1>0, <2>2, <2>3, <2>4, CountGrows
  <2>6. ASSUME NEW d \in Kids PROVE Saves(d)'
    <3>1. CASE d = k
      BY <1>0, <1>3, <2>5, <3>1, WritesPipeSaves
    <3>2. CASE d # k
      <4>1. Untouched(d)
        BY <1>3, <3>2 DEF WritesPipe, Untouched, vars, child, talk
      <4> QED
        BY <1>0, <2>5, <3>2, <4>1, UntouchedSaves
    <3> QED
      BY <3>1, <3>2
  <2> QED
    BY <2>5, <2>6
<1>4. ASSUME NEW k \in Kids, ClientChild(k) PROVE Numbered' /\ \A d \in Kids : Saves(d)'
  <2>1. Written' = Written /\ k \notin owes
    BY <1>4 DEF ClientChild, Written, saver
  <2>2. \A d \in Kids : Count(d)' = Count(d)
    BY <2>1, SameWritten
  <2>3. ASSUME NEW d \in Kids, d # k PROVE Untouched(d)
    BY <1>0, <1>4, <2>3 DEF ClientChild, OtherChildStep, Write, CloseListener, Read, ReadEnd,
       WriteKills, HangUpChild, Exit, ChildStep, Untouched, TypeOK, talk
  <2>4. Saves(k)'
    <3>1. CASE Write(k) /\ owes' = owes \cup {k}
      BY <1>0, <2>1, <2>2, <3>1, WriteSaves
    <3>2. CASE Read(k) /\ owes' = owes
      BY <1>0, <2>1, <2>2, <3>2, ReadSaves
    <3>3. CASE WriteKills(k) /\ owes' = owes
      <4>1. kpc'[k] = "dead" /\ got'[k] = got[k] /\ Owed(k)' = Owed(k)
        BY <1>0, <3>3 DEF WriteKills, ChildStep, TypeOK, talk, Owed
      <4> QED
        BY <1>0, <2>2, <4>1 DEF Saves
    <3>4. CASE (CloseListener(k) \/ ReadEnd(k) \/ HangUpChild(k) \/ Exit(k)) /\ owes' = owes
      <4>1. Untouched(k)
        BY <1>0, <3>4 DEF CloseListener, ReadEnd, HangUpChild, Exit, ChildStep, Untouched, TypeOK, talk
      <4> QED
        BY <1>0, <2>2, <4>1, UntouchedSaves
    <3> QED
      BY <1>4, <3>1, <3>2, <3>3, <3>4 DEF ClientChild, OtherChildStep
  <2> QED
    BY <1>0, <2>1, <2>2, <2>3, <2>4, SameWritten, UntouchedSaves
<1>5. ASSUME NEW c \in Clients, Say(c), UNCHANGED <<saving, saver, pipe, owes>>
      PROVE  Numbered' /\ \A d \in Kids : Saves(d)'
  <2>1. Written' = Written /\ owes' = owes
    BY <1>5 DEF Written, saver
  <2>2. \A d \in Kids : Count(d)' = Count(d)
    BY <2>1, SameWritten
  <2>3. ASSUME NEW d \in Kids, d # c PROVE Untouched(d)
    BY <1>0, <1>5, <2>1, <2>3 DEF Say, Untouched, TypeOK, child
  <2>4. Saves(c)'
    BY <1>0, <1>5, <2>1, <2>2, SaySaves
  <2> QED
    BY <1>0, <2>1, <2>2, <2>3, <2>4, SameWritten, UntouchedSaves
<1>6. ASSUME NEW c \in Clients, Connect(c) \/ HangUp(c), UNCHANGED <<saving, saver, pipe, owes>>
      PROVE  Numbered' /\ \A d \in Kids : Saves(d)'
  <2>1. Written' = Written
    BY <1>6 DEF Written, saver
  <2>2. ASSUME NEW d \in Kids PROVE Untouched(d)
    BY <1>6 DEF Connect, HangUp, Untouched, child
  <2> QED
    BY <1>1, <2>1, <2>2
<1>7. CASE PipeServerRuns \/ PipeHandler \/ PipeJobControl
  <2>1. Written' = Written /\ owes' = owes
    BY <1>7 DEF PipeServerRuns, PipeHandler, PipeJobControl, Written, saver
  <2>2. ASSUME NEW d \in Kids PROVE Untouched(d)
    <3>1. CASE Fork
      <4>1. kpc[clnt_sock] = "none" /\ clnt_sock \in Kids
        BY <1>0, <3>1, ForkAssumption DEF Fork, Forks, PipeBase, EchoInv, ServerHolds, ServerStep
      <4> QED
        BY <1>0, <2>1, <3>1, <4>1 DEF Fork, Untouched, TypeOK, talk
    <3>2. CASE ~Fork
      BY <1>7, <2>1, <3>2 DEF PipeServerRuns, ServerRuns, PipeHandler, Handler, PipeJobControl,
         JobControl, Accept, ForkFails, CloseClient, Untouched, child, talk
    <3> QED
      BY <3>1, <3>2
  <2> QED
    BY <1>1, <2>1, <2>2
<1>8. CASE ForkSaver
  <2>1. Written' = Written
    BY <1>8 DEF ForkSaver, Written
  <2>2. ASSUME NEW d \in Kids PROVE Untouched(d)
    BY <1>8 DEF ForkSaver, Untouched, child, talk
  <2> QED
    BY <1>1, <2>1, <2>2
<1>9. CASE SaverExits
  <2>1. Written' = Written
    BY <1>9 DEF SaverExits, Written
  <2>2. ASSUME NEW d \in Kids PROVE Untouched(d)
    BY <1>9 DEF SaverExits, Untouched, child, talk
  <2> QED
    BY <1>1, <2>1, <2>2
<1>10. CASE ForkSaverFails \/ UNCHANGED allvars
  <2>1. Written' = Written
    BY <1>10 DEF ForkSaverFails, allvars, saver, Written
  <2>2. ASSUME NEW d \in Kids PROVE Untouched(d)
    BY <1>10 DEF ForkSaverFails, allvars, Untouched, vars, child, talk
  <2> QED
    BY <1>1, <2>1, <2>2
<1> QED
  BY <1>2, <1>3, <1>4, <1>5, <1>6, <1>7, <1>8, <1>9, <1>10
  DEF PipeNext, SaverRuns, PipeChildRuns

(* Without a saver nothing is ever written.                                 *)
LEMMA NothingWritten == ASSUME SaverFirst, ~saving PROVE Numbered
<1>1. saved = <<>> /\ pipe = <<>>
  BY DEF SaverFirst
<1>2. Written = <<>> /\ 1 .. Len(Written) = {}
  BY <1>1 DEF Written
<1> QED
  BY <1>2 DEF Numbered

LEMMA PipeInvStep == PipeInv /\ [PipeNext]_allvars => PipeInv'
<1> SUFFICES ASSUME PipeInv, [PipeNext]_allvars PROVE PipeInv'
  OBVIOUS
<1>1. PipeBase' /\ PipeTypes'
  BY PipeBaseStep, PipeTypesStep DEF PipeInv
<1>2. saving' = saving
  BY DEF PipeNext, ForkSaver, ForkSaverFails, PipeServerRuns, PipeHandler, SaverRuns, SaverReads,
     SaverExits, PipeJobControl, PipeChildRuns, ClientChild, WritesPipe, allvars
<1>3. CASE saving
  BY <1>1, <1>2, <1>3, SavesStep DEF PipeInv
<1>4. CASE ~saving
  <2>1. SaverFirst' /\ ~saving'
    BY <1>1, <1>2, <1>4 DEF PipeBase
  <2>2. Numbered'
    BY <2>1, NothingWritten, PTL
  <2> QED
    BY <1>1, <1>4, <1>2, <2>2 DEF PipeInv
<1> QED
  BY <1>3, <1>4

LEMMA PipeInitInv == PipeInit => PipeInv
<1> SUFFICES ASSUME PipeInit PROVE PipeInv
  OBVIOUS
<1>1. PipeBase /\ PipeTypes
  BY PipeInitBase, PipeAssumption DEF PipeInit, PipeTypes
<1>2. Written = <<>> /\ 1 .. Len(Written) = {}
  BY DEF PipeInit, Written
<1>3. Numbered
  BY <1>2 DEF Numbered
<1>4. ASSUME NEW k \in Kids PROVE Saves(k)
  <2>1. Places(k, Len(Written)) = {}
    BY <1>2 DEF Places
  <2>2. Count(k) = 0
    BY <2>1, FS_EmptySet DEF Count
  <2>3. Behind(k) = 0 /\ Owed(k) = 0 /\ got[k] = <<>> /\ unread[k] = <<>> /\ said[k] = 0
    BY DEF PipeInit, Init, Behind, Owed, Clients
  <2> QED
    BY <2>2, <2>3 DEF Saves, PipeFlow
<1> QED
  BY <1>1, <1>3, <1>4 DEF PipeInv

(* The file and the pipe hold every echo, each client's in order, whichever *)
(* children write when and however the saver cuts what it reads.            *)
THEOREM FileMissesNothing == PipeSpec => []FileHasAllEchoes
<1>1. PipeInv => FileHasAllEchoes
  BY DEF PipeInv, Numbered, Saves, FileHasAllEchoes
<1> QED
  BY <1>1, PipeInitInv, PipeInvStep, PTL DEF PipeSpec
=============================================================================
