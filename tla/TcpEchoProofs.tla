--------------------------- MODULE TcpEchoProofs ---------------------------
(***************************************************************************)
(* Theorems about the TCP echo programs, for any clients, line length and   *)
(* number of lines.                                                         *)
(***************************************************************************)
EXTENDS TcpEcho, SequenceTheorems, FiniteSetTheorems, TLAPS

Byte == (Users \cup {Nobody}) \X Nat
StreamsOK ==
  /\ message \in Seq(Byte) /\ Len(message) <= LineLen
  /\ up \in [Users -> Seq(Byte)] /\ down \in [Users -> Seq(Byte)]
  /\ got \in [Users -> Seq(Byte)]

(* A server that runs and accepts has not served its last client, and the   *)
(* one it serves is connected.                                              *)
OneServed ==
  /\ alive /\ spc = "accept" => served < MaxServed
  /\ spc = "serve" => clnt_sock \in Users /\ conn[clnt_sock] = "in"

(* The descriptors of the event loops are of different, connected clients.  *)
FdsApart ==
  /\ style \in {"tcp", "stdio"} => ready = {} /\ \A f \in Fds : fds[f] = Nobody
  /\ \A f \in Fds : fds[f] # Nobody => conn[fds[f]] = "in"
  /\ \A f, g \in Fds : fds[f] = fds[g] /\ fds[f] # Nobody => f = g

Shape == EchoTypeOK /\ StreamsOK /\ OneServed /\ FdsApart /\ WatchedAreOpen
-----------------------------------------------------------------------------
(* Streams.                                                                 *)

LEMMA FdNumbers == Cardinality(Users) \in Nat /\ Listener \notin Fds /\ Fds \subseteq Nat
  BY EchoAssumption, FS_CardinalityType DEF Fds, Listener

LEMMA Cut ==
  ASSUME NEW S, NEW s \in Seq(S), NEW n \in Nat, n <= Len(s)
  PROVE  /\ SubSeq(s, 1, n) \in Seq(S) /\ Len(SubSeq(s, 1, n)) = n
         /\ Drop(s, n) \in Seq(S) /\ Len(Drop(s, n)) = Len(s) - n
         /\ SubSeq(s, 1, n) \o Drop(s, n) = s
<1>1. Len(s) \in Nat /\ \A i \in 1 .. Len(s) : s[i] \in S
  BY LenProperties, ElementOfSeq
<1>2. SubSeq(s, 1, n) \in Seq(S) /\ Len(SubSeq(s, 1, n)) = n
  <2>1. \A i \in 1 .. n : s[i] \in S
    BY <1>1
  <2>2. /\ SubSeq(s, 1, n) \in Seq(S)
        /\ Len(SubSeq(s, 1, n)) = IF 1 <= n THEN n - 1 + 1 ELSE 0
    BY <2>1, SubSeqProperties
  <2> QED
    BY <2>2
<1>3. Drop(s, n) \in Seq(S) /\ Len(Drop(s, n)) = Len(s) - n
  <2>1. \A i \in n + 1 .. Len(s) : s[i] \in S
    BY <1>1
  <2>2. /\ SubSeq(s, n + 1, Len(s)) \in Seq(S)
        /\ Len(SubSeq(s, n + 1, Len(s)))
             = IF n + 1 <= Len(s) THEN Len(s) - (n + 1) + 1 ELSE 0
    BY <1>1, <2>1, SubSeqProperties
  <2> QED
    BY <1>1, <2>2 DEF Drop
<1>4. SubSeq(s, 1, n) \o Drop(s, n) = s
  <2>1. 1 \in 1 .. Len(s) + 1 /\ n \in 1 - 1 .. Len(s) /\ Len(s) \in n .. Len(s)
    BY <1>1
  <2>2. SubSeq(s, 1, n) \o SubSeq(s, n + 1, Len(s)) = SubSeq(s, 1, Len(s))
    BY <2>1, ConcatAdjacentSubSeq
  <2> QED
    BY <2>2, SubSeqFull DEF Drop
<1> QED
  BY <1>2, <1>3, <1>4

LEMMA LineIsBytes ==
  ASSUME NEW c \in Users, NEW n \in Nat \ {0}
  PROVE  Line(c, n) \in Seq(Byte) /\ Len(Line(c, n)) = LineLen
<1>1. LineLen \in Nat
  BY EchoAssumption
<1>2. ASSUME NEW i \in 1 .. LineLen PROVE <<c, (n - 1) * LineLen + i>> \in Byte
  <2>1. (n - 1) * LineLen \in Nat
    BY <1>1
  <2> QED
    BY <2>1 DEF Byte
<1>3. Line(c, n) \in [1 .. LineLen -> Byte]
  BY <1>2 DEF Line
<1> QED
  BY <1>1, <1>3

(* What sending and reading do to the streams.                              *)
LEMMA EchoPartStreams ==
  ASSUME EchoTypeOK, StreamsOK, NEW c \in Users, NEW n \in 1 .. Len(up[c]), EchoPart(c, n)
  PROVE  /\ up' \in [Users -> Seq(Byte)] /\ down' \in [Users -> Seq(Byte)]
         /\ got' = got /\ alive' \in BOOLEAN
         /\ UNCHANGED <<style, program, cpc, said>>
<1>1. n \in Nat /\ n <= Len(up[c]) /\ up[c] \in Seq(Byte) /\ down[c] \in Seq(Byte)
  BY LenProperties DEF StreamsOK
<1>2. SubSeq(up[c], 1, n) \in Seq(Byte) /\ Drop(up[c], n) \in Seq(Byte)
  BY <1>1, Cut
<1>3. up' \in [Users -> Seq(Byte)]
  BY <1>2 DEF EchoPart, At, StreamsOK
<1>4. down[c] \o SubSeq(up[c], 1, n) \in Seq(Byte)
  BY <1>1, <1>2, ConcatProperties
<1>5. down' \in [Users -> Seq(Byte)] /\ alive' \in BOOLEAN
  BY <1>4 DEF EchoPart, Send, At, StreamsOK, EchoTypeOK
<1> QED
  BY <1>3, <1>5 DEF EchoPart

LEMMA WritesStreams ==
  ASSUME EchoTypeOK, StreamsOK, NEW c \in Users, NEW p, NEW then, Writes(c, p, then)
  PROVE  up' \in [Users -> Seq(Byte)] /\ up'[c] = up[c] \o Line(c, said[c] + 1)
<1>1. said[c] + 1 \in Nat \ {0} /\ up[c] \in Seq(Byte)
  BY EchoAssumption DEF EchoTypeOK, StreamsOK
<1>2. up[c] \o Line(c, said[c] + 1) \in Seq(Byte)
  BY <1>1, LineIsBytes, ConcatProperties
<1> QED
  BY <1>2 DEF Writes, At, StreamsOK

LEMMA ReadsStreams ==
  ASSUME StreamsOK, NEW c \in Users, NEW p, NEW n \in Nat, Reads(c, p, n)
  PROVE  down' \in [Users -> Seq(Byte)] /\ got' \in [Users -> Seq(Byte)]
<1>1. down[c] \in Seq(Byte) /\ got[c] \in Seq(Byte) /\ n <= Len(down[c])
  BY DEF StreamsOK, Reads
<1>2. /\ SubSeq(down[c], 1, n) \in Seq(Byte) /\ Drop(down[c], n) \in Seq(Byte)
  BY <1>1, Cut
<1>3. got[c] \o SubSeq(down[c], 1, n) \in Seq(Byte)
  BY <1>1, <1>2, ConcatProperties
<1> QED
  BY <1>2, <1>3 DEF Reads, At, StreamsOK
LEMMA Truth == ASSUME NEW b, NEW P, P \in BOOLEAN, b = P PROVE b \in BOOLEAN /\ (b => P)
  BY Zenon
-----------------------------------------------------------------------------
LEMMA InitShape == EchoInit => Shape
<1> SUFFICES ASSUME EchoInit PROVE Shape
  OBVIOUS
<1> USE EchoAssumption, FdNumbers
<1>1. Garbage \in Seq(Byte) /\ Len(Garbage) = LineLen
  <2>1. Garbage \in [1 .. LineLen -> Byte]
    BY DEF Garbage, Byte
  <2> QED
    BY <2>1
<1>2. message \in Seq(Byte) /\ Len(message) <= LineLen
  <2>1. <<>> \in Seq(Byte) /\ Len(<<>>) = 0 /\ 0 <= LineLen /\ LineLen <= LineLen
    OBVIOUS
  <2>2. message = <<>> \/ message = Garbage
    BY DEF EchoInit, TcpSetUp, StdioSetUp, EpollSetUp, SelectSetUp
  <2> QED
    BY <1>1, <2>1, <2>2
<1>3. StreamsOK
  BY <1>2 DEF StreamsOK, EchoInit, Each
<1>4. EchoTypeOK
  <2>1. /\ style \in {"tcp", "stdio", "epoll", "select"} /\ spc \in {"accept", "wait"}
        /\ watched \subseteq {Listener}
    BY DEF EchoInit, TcpSetUp, StdioSetUp, EpollSetUp, SelectSetUp
  <2>2. /\ alive = TRUE /\ program \in [Users -> {"echo", "lines", "split"}]
        /\ clnt_sock = Nobody /\ served \in 0 .. MaxServed /\ ready = {}
        /\ fds \in [Fds -> Users \cup {Nobody}] /\ fd_max = Listener
    BY DEF EchoInit
  <2>3. /\ conn \in [Users -> {"away", "queued", "in", "shut"}]
        /\ cpc \in [Users -> {"types", "awaits", "half", "closed"}]
        /\ said \in [Users -> 0 .. MaxLines]
    BY DEF EchoInit, Each
  <2> QED
    BY <2>1, <2>2, <2>3 DEF EchoTypeOK
<1>5. OneServed /\ FdsApart
  BY DEF OneServed, FdsApart, EchoInit, TcpSetUp, StdioSetUp, EpollSetUp, SelectSetUp
<1>6. WatchedAreOpen
  BY DEF WatchedAreOpen, EchoInit, TcpSetUp, StdioSetUp, EpollSetUp, SelectSetUp, Listener
<1> QED
  BY <1>3, <1>4, <1>5, <1>6 DEF Shape

(* A server that takes one client after the other.                          *)
LEMMA LoopShape ==
  ASSUME Shape, TcpAccept \/ TcpServe \/ TcpHangUp \/ StdioAccept \/ StdioServe \/ StdioHangUp
                  \/ AcceptError
  PROVE  Shape'
<1> USE EchoAssumption, FdNumbers
<1>0. EchoTypeOK /\ StreamsOK /\ OneServed /\ FdsApart /\ WatchedAreOpen
  BY DEF Shape
<1>1. CASE AcceptError
  BY <1>0, <1>1 DEF Shape, AcceptError, EchoTypeOK, StreamsOK, OneServed, FdsApart, WatchedAreOpen,
     loop, poll, streams
<1>2. ASSUME NEW s \in {"tcp", "stdio"}, NextClient(s) PROVE Shape'
  BY <1>0, <1>2 DEF Shape, NextClient, EchoTypeOK, StreamsOK, OneServed, FdsApart, WatchedAreOpen,
     poll, streams, At
<1>3. ASSUME NEW s \in {"tcp", "stdio"}, HangsUp(s), alive' \in BOOLEAN,
             alive' => served < MaxServed, down' \in [Users -> Seq(Byte)]
      PROVE  Shape'
  <2>1. clnt_sock \in Users
    BY <1>0, <1>3 DEF HangsUp, OneServed
  <2>2. EchoTypeOK' /\ StreamsOK'
    BY <1>0, <1>3, <2>1 DEF HangsUp, EchoTypeOK, StreamsOK, loop, poll, At
  <2>3. OneServed' /\ FdsApart' /\ WatchedAreOpen'
    BY <1>0, <1>3, <2>1 DEF HangsUp, OneServed, FdsApart, WatchedAreOpen, loop, poll, At
  <2> QED
    BY <2>2, <2>3 DEF Shape
<1>4. CASE TcpServe
  <2>1. PICK n \in 1 .. Len(up[clnt_sock]) : EchoPart(clnt_sock, n)
    BY <1>4 DEF TcpServe
  <2>2. clnt_sock \in Users /\ UNCHANGED <<spc, loop, poll, conn>>
    BY <1>0, <1>4 DEF TcpServe, OneServed
  <2>3. /\ up' \in [Users -> Seq(Byte)] /\ down' \in [Users -> Seq(Byte)]
        /\ got' = got /\ alive' \in BOOLEAN
        /\ UNCHANGED <<style, program, cpc, said>>
    BY <1>0, <2>1, <2>2, EchoPartStreams
  <2> QED
    BY <1>0, <1>4, <2>2, <2>3 DEF TcpServe, Shape, EchoTypeOK, StreamsOK, OneServed, FdsApart,
       WatchedAreOpen, loop, poll
<1>5. CASE StdioServe
  <2>1. clnt_sock \in Users /\ UNCHANGED <<spc, clnt_sock, served, poll, conn>>
    BY <1>0, <1>5 DEF StdioServe, OneServed
  <2>2. up[clnt_sock] \in Seq(Byte) /\ LineLen \in 1 .. Len(up[clnt_sock])
    BY <1>0, <1>5, <2>1, LenProperties DEF StreamsOK, StdioServe
  <2>3. /\ up' \in [Users -> Seq(Byte)] /\ down' \in [Users -> Seq(Byte)]
        /\ got' = got /\ alive' \in BOOLEAN
        /\ UNCHANGED <<style, program, cpc, said>>
    BY <1>0, <1>5, <2>1, <2>2, EchoPartStreams DEF StdioServe
  <2>4. message' \in Seq(Byte) /\ Len(message') = LineLen
    BY <1>5, <2>2, Cut DEF StdioServe
  <2>5. StreamsOK'
    BY <1>0, <2>3, <2>4 DEF StreamsOK
  <2> QED
    BY <1>0, <1>5, <2>1, <2>3, <2>5 DEF StdioServe, Shape, EchoTypeOK, OneServed, FdsApart,
       WatchedAreOpen, poll
<1>6. (served < MaxServed) \in BOOLEAN
  BY <1>0, SMT DEF EchoTypeOK
<1>7. CASE TcpHangUp
  <2>1. HangsUp("tcp") /\ alive' = (served < MaxServed) /\ down' = down
    BY <1>7 DEF TcpHangUp
  <2>2. alive' \in BOOLEAN /\ (alive' => served < MaxServed)
    BY <1>6, <2>1, Truth, Zenon
  <2>3. down' \in [Users -> Seq(Byte)]
    BY <1>0, <2>1 DEF StreamsOK
  <2> QED
    BY <1>3, <2>1, <2>2, <2>3
<1>8. CASE StdioHangUp
  <2>1. clnt_sock \in Users /\ down[clnt_sock] \o message \in Seq(Byte)
    BY <1>0, <1>8, ConcatProperties DEF StdioHangUp, HangsUp, OneServed, StreamsOK
  <2>2. down' \in [Users -> Seq(Byte)]
    BY <1>0, <1>8, <2>1 DEF StdioHangUp, StreamsOK, At
  <2>3. alive' \in BOOLEAN /\ (alive' => served < MaxServed)
    <3>1. alive' = (served < MaxServed) \/ alive' = FALSE
      BY <1>8 DEF StdioHangUp
    <3> QED
      BY <1>6, <3>1, Truth, Zenon
  <2> QED
    BY <1>3, <1>8, <2>2, <2>3 DEF StdioHangUp
<1> QED
  BY <1>1, <1>2, <1>4, <1>5, <1>7, <1>8 DEF TcpAccept, StdioAccept

(* The event loops.                                                         *)
LEMMA WaitShape ==
  ASSUME Shape, NEW s \in {"epoll", "select"}, NEW S \in SUBSET watched, Waits(s, S)
  PROVE  Shape'
<1>0. EchoTypeOK /\ StreamsOK /\ OneServed /\ FdsApart /\ WatchedAreOpen
  BY DEF Shape
<1>1. ready' \subseteq watched
  BY DEF Waits
<1> QED
  BY <1>0, <1>1 DEF Waits, Shape, EchoTypeOK, StreamsOK, OneServed, FdsApart, WatchedAreOpen,
     loop, streams

LEMMA TakeShape ==
  ASSUME Shape, NEW s \in {"epoll", "select"}, Turn(s, Listener),
         NEW c \in Users, NEW f \in Fds, TakeClient(c, f), fd_max' \in {Listener} \cup Fds,
         s = "select" => fd_max <= fd_max' /\ f <= fd_max'
  PROVE  Shape'
<1> USE EchoAssumption, FdNumbers
<1>0. EchoTypeOK /\ StreamsOK /\ OneServed /\ FdsApart /\ WatchedAreOpen
  BY DEF Shape
<1>1. /\ fds[f] = Nobody /\ fds' = [fds EXCEPT ![f] = c] /\ watched' = watched \cup {f}
      /\ conn[c] = "queued" /\ conn' = [conn EXCEPT ![c] = "in"]
      /\ UNCHANGED <<alive, cpc, streams>>
  BY DEF TakeClient, Lowest, At
<1>2. /\ style = s /\ ready' = ready \ {Listener} /\ spc' \in {"wait", "dispatch"}
      /\ UNCHANGED <<style, program, loop>>
  BY DEF Turn
<1>3. EchoTypeOK'
  BY <1>0, <1>1, <1>2 DEF EchoTypeOK, loop, streams
<1>4. StreamsOK' /\ OneServed'
  BY <1>0, <1>1, <1>2 DEF StreamsOK, OneServed, loop, streams
<1>5. fds \in [Fds -> Users \cup {Nobody}] /\ conn \in [Users -> {"away", "queued", "in", "shut"}]
  BY <1>0 DEF EchoTypeOK
<1>6. \A g \in Fds : fds[g] # c
  BY <1>0, <1>1 DEF FdsApart
<1>7. FdsApart'
  <2>1. \A g \in Fds : fds'[g] # Nobody => conn'[fds'[g]] = "in"
    BY <1>0, <1>1, <1>5, <1>6 DEF FdsApart
  <2>2. \A g, h \in Fds : fds'[g] = fds'[h] /\ fds'[g] # Nobody => g = h
    BY <1>0, <1>1, <1>5, <1>6 DEF FdsApart
  <2> QED
    BY <1>2, <2>1, <2>2 DEF FdsApart
<1>8. WatchedAreOpen'
  <2>1. watched = {Listener} \cup {g \in Fds : fds[g] # Nobody}
    BY <1>0, <1>2 DEF WatchedAreOpen
  <2>2. {g \in Fds : fds'[g] # Nobody} = {g \in Fds : fds[g] # Nobody} \cup {f}
    BY <1>1, <1>5
  <2>3. watched' = {Listener} \cup {g \in Fds : fds'[g] # Nobody}
    BY <1>1, <2>1, <2>2
  <2>4. ASSUME s = "select", NEW g \in watched' PROVE g <= fd_max'
    <3>1. g \in Nat /\ fd_max \in Nat /\ fd_max' \in Nat /\ f \in Nat
      BY <1>1, <2>1, <2>4, <1>0 DEF EchoTypeOK, Listener
    <3>2. g = f \/ g <= fd_max
      BY <1>0, <1>1, <1>2, <2>4 DEF WatchedAreOpen
    <3> QED
      BY <2>4, <3>1, <3>2
  <2> QED
    BY <1>2, <2>3, <2>4 DEF WatchedAreOpen
<1> QED
  BY <1>3, <1>4, <1>7, <1>8 DEF Shape

LEMMA ServeShape ==
  ASSUME Shape, NEW s \in {"epoll", "select"}, NEW f \in ready \ {Listener}, Turn(s, f),
         ServeOne(f)
  PROVE  Shape'
<1> USE EchoAssumption, FdNumbers
<1>0. EchoTypeOK /\ StreamsOK /\ OneServed /\ FdsApart /\ WatchedAreOpen
  BY DEF Shape
<1>1. f \in Fds /\ fds[f] \in Users
  BY <1>0 DEF EchoTypeOK, WatchedAreOpen, Turn
<1>2. PICK n \in 1 .. Len(up[fds[f]]) : EchoPart(fds[f], n)
  BY DEF ServeOne
<1>3. /\ up' \in [Users -> Seq(Byte)] /\ down' \in [Users -> Seq(Byte)]
      /\ got' = got /\ alive' \in BOOLEAN
      /\ UNCHANGED <<style, program, cpc, said>>
  BY <1>0, <1>1, <1>2, EchoPartStreams
<1>4. /\ ready' \subseteq ready /\ spc' \in {"wait", "dispatch"} /\ UNCHANGED loop
      /\ UNCHANGED <<watched, fds, fd_max, conn>>
  BY DEF Turn, ServeOne
<1> QED
  BY <1>0, <1>3, <1>4 DEF Shape, EchoTypeOK, StreamsOK, OneServed, FdsApart, WatchedAreOpen, loop

LEMMA DropShape ==
  ASSUME Shape, NEW s \in {"epoll", "select"}, NEW f \in ready \ {Listener}, Turn(s, f),
         DropClient(f)
  PROVE  Shape'
<1> USE EchoAssumption, FdNumbers
<1>0. EchoTypeOK /\ StreamsOK /\ OneServed /\ FdsApart /\ WatchedAreOpen
  BY DEF Shape
<1>1. f \in Fds /\ fds[f] \in Users /\ f # Listener
  BY <1>0 DEF EchoTypeOK, WatchedAreOpen, Turn
<1>2. /\ fds' = [fds EXCEPT ![f] = Nobody] /\ watched' = watched \ {f}
      /\ conn' = [conn EXCEPT ![fds[f]] = "shut"]
      /\ UNCHANGED <<fd_max, alive, cpc, streams>>
  BY DEF DropClient, At
<1>3. /\ style = s /\ ready' = ready \ {f} /\ spc' \in {"wait", "dispatch"}
      /\ UNCHANGED <<style, program, loop>>
  BY DEF Turn
<1>4. EchoTypeOK'
  BY <1>0, <1>1, <1>2, <1>3 DEF EchoTypeOK, loop, streams
<1>5. StreamsOK' /\ OneServed'
  BY <1>0, <1>2, <1>3 DEF StreamsOK, OneServed, loop, streams
<1>6. fds \in [Fds -> Users \cup {Nobody}] /\ conn \in [Users -> {"away", "queued", "in", "shut"}]
  BY <1>0 DEF EchoTypeOK
<1>7. FdsApart'
  <2>1. \A g \in Fds : fds'[g] # Nobody => conn'[fds'[g]] = "in"
    BY <1>0, <1>1, <1>2, <1>6 DEF FdsApart
  <2>2. \A g, h \in Fds : fds'[g] = fds'[h] /\ fds'[g] # Nobody => g = h
    BY <1>0, <1>2, <1>6 DEF FdsApart
  <2> QED
    BY <1>3, <2>1, <2>2 DEF FdsApart
<1>8. WatchedAreOpen'
  <2>1. watched = {Listener} \cup {g \in Fds : fds[g] # Nobody}
    BY <1>0, <1>3 DEF WatchedAreOpen
  <2>2. {g \in Fds : fds'[g] # Nobody} = {g \in Fds : fds[g] # Nobody} \ {f}
    BY <1>1, <1>2, <1>6
  <2>3. watched' = {Listener} \cup {g \in Fds : fds'[g] # Nobody}
    BY <1>1, <1>2, <2>1, <2>2
  <2> QED
    BY <1>0, <1>2, <1>3, <2>3, Zenon DEF WatchedAreOpen
<1> QED
  BY <1>4, <1>5, <1>7, <1>8 DEF Shape

LEMMA EventLoopShape ==
  ASSUME Shape, EpollWait \/ EpollAccept \/ EpollRead \/ SelectWait \/ SelectAccept \/ SelectRead
  PROVE  Shape'
<1> USE EchoAssumption, FdNumbers
<1>0. EchoTypeOK /\ StreamsOK /\ OneServed /\ FdsApart /\ WatchedAreOpen
  BY DEF Shape
<1>1. CASE EpollWait
  BY <1>1, WaitShape DEF EpollWait
<1>2. CASE SelectWait
  <2>1. {f \in watched : f <= fd_max} \in SUBSET watched
    OBVIOUS
  <2> QED
    BY <1>2, <2>1, WaitShape DEF SelectWait
<1>3. ASSUME NEW s \in {"epoll", "select"}, Turn(s, Listener), alive' \in BOOLEAN,
             UNCHANGED <<watched, fds, fd_max, conn, cpc, streams>>
      PROVE  Shape'
  BY <1>0, <1>3 DEF Turn, Shape, EchoTypeOK, StreamsOK, OneServed, FdsApart, WatchedAreOpen,
     loop, streams
<1>4. CASE EpollAccept
  <2>1. CASE \E c \in Users, f \in Fds : TakeClient(c, f) /\ UNCHANGED fd_max
    BY <1>0, <1>4, <2>1, TakeShape DEF EpollAccept, EchoTypeOK
  <2>2. CASE UNCHANGED <<watched, fds, fd_max, conn, alive, cpc, streams>>
    BY <1>0, <1>3, <1>4, <2>2 DEF EpollAccept, EchoTypeOK
  <2> QED
    BY <1>4, <2>1, <2>2 DEF EpollAccept
<1>5. CASE SelectAccept
  <2>1. ASSUME NEW c \in Users, NEW f \in Fds, TakeClient(c, f),
               fd_max' = IF fd_max < f THEN f ELSE fd_max
        PROVE  Shape'
    <3>1. fd_max \in {Listener} \cup Fds /\ fd_max \in Nat /\ f \in Nat
      BY <1>0 DEF EchoTypeOK, Listener
    <3>2. fd_max' \in {Listener} \cup Fds /\ fd_max <= fd_max' /\ f <= fd_max'
      BY <2>1, <3>1
    <3> QED
      BY <1>5, <2>1, <3>2, TakeShape DEF SelectAccept
  <2>2. CASE alive' \in BOOLEAN /\ UNCHANGED <<watched, fds, fd_max, conn, cpc, streams>>
    BY <1>3, <1>5, <2>2 DEF SelectAccept
  <2> QED
    BY <1>5, <2>1, <2>2 DEF SelectAccept
<1>6. CASE EpollRead
  BY <1>6, ServeShape, DropShape DEF EpollRead
<1>7. CASE SelectRead
  <2>1. PICK f \in ready \ {Listener} : Turn("select", f) /\ (ServeOne(f) \/ DropClient(f))
    BY <1>7 DEF SelectRead, Lowest
  <2> QED
    BY <2>1, ServeShape, DropShape
<1> QED
  BY <1>1, <1>2, <1>4, <1>5, <1>6, <1>7

(* The clients.                                                             *)
LEMMA ClientShape ==
  ASSUME Shape, NEW c \in Users, ClientActs(c) \/ ClientReads(c)
  PROVE  Shape'
<1> USE EchoAssumption, FdNumbers
<1>0. EchoTypeOK /\ StreamsOK /\ OneServed /\ FdsApart /\ WatchedAreOpen
  BY DEF Shape
<1>1. ASSUME NEW p, Connects(c, p) PROVE Shape'
  <2>1. /\ conn[c] = "away" /\ conn' = [conn EXCEPT ![c] = "queued"]
        /\ UNCHANGED <<server, cpc, streams>>
    BY <1>1 DEF Connects, At
  <2> QED
    BY <1>0, <2>1 DEF Shape, EchoTypeOK, StreamsOK, OneServed, FdsApart, WatchedAreOpen, server,
       loop, poll, streams
<1>2. ASSUME NEW p, NEW then \in {"types", "awaits"}, Writes(c, p, then) PROVE Shape'
  <2>1. up' \in [Users -> Seq(Byte)]
    BY <1>0, <1>2, WritesStreams
  <2>2. /\ cpc' = [cpc EXCEPT ![c] = then] \/ cpc' = [cpc EXCEPT ![c] = "closed"]
        /\ said[c] < MaxLines /\ said' = [said EXCEPT ![c] = said[c] + 1]
        /\ UNCHANGED <<server, conn, down, got>>
    BY <1>2 DEF Writes, At
  <2>3. said' \in [Users -> 0 .. MaxLines]
    BY <1>0, <2>2 DEF EchoTypeOK
  <2>4. EchoTypeOK' /\ StreamsOK'
    BY <1>0, <2>1, <2>2, <2>3 DEF EchoTypeOK, StreamsOK, server, loop, poll
  <2>5. OneServed' /\ FdsApart' /\ WatchedAreOpen'
    BY <1>0, <2>2 DEF OneServed, FdsApart, WatchedAreOpen, server, loop, poll
  <2> QED
    BY <2>4, <2>5 DEF Shape
<1>3. ASSUME NEW p, NEW n \in Nat, Reads(c, p, n),
             cpc' \in {cpc, [cpc EXCEPT ![c] = "types"]}
      PROVE  Shape'
  <2>1. down' \in [Users -> Seq(Byte)] /\ got' \in [Users -> Seq(Byte)]
    BY <1>0, <1>3, ReadsStreams
  <2>2. UNCHANGED <<server, conn, said, up>>
    BY <1>3 DEF Reads
  <2> QED
    BY <1>0, <1>3, <2>1, <2>2 DEF Shape, EchoTypeOK, StreamsOK, OneServed, FdsApart,
       WatchedAreOpen, server, loop, poll
<1>4. ASSUME NEW p, NEW from, NEW to \in {"half", "closed"}, Becomes(c, p, from, to)
      PROVE  Shape'
  BY <1>0, <1>4 DEF Becomes, Shape, EchoTypeOK, StreamsOK, OneServed, FdsApart, WatchedAreOpen,
     server, loop, poll, streams, At
<1>5. CASE ClientActs(c)
  BY <1>1, <1>2, <1>4, <1>5 DEF ClientActs, EchoConnects, EchoWrites, EchoQuits, LinesConnects,
     LinesWrites, LinesQuits, SplitConnects, SplitWrites, SplitShutsDown
<1>6. Len(down[c]) \in Nat /\ LineLen \in Nat
  BY <1>0, LenProperties DEF StreamsOK
<1>7. CASE EchoReads(c)
  BY <1>3, <1>6, <1>7 DEF EchoReads, At
<1>8. CASE LinesReads(c)
  BY <1>3, <1>6, <1>8 DEF LinesReads, At
<1>9. CASE SplitReads(c)
  BY <1>3, <1>4, <1>6, <1>9 DEF SplitReads
<1> QED
  BY <1>5, <1>7, <1>8, <1>9 DEF ClientReads

LEMMA NextShape == Shape /\ [EchoNext]_echovars => Shape'
<1> SUFFICES ASSUME Shape, [EchoNext]_echovars PROVE Shape'
  OBVIOUS
<1>1. CASE EchoNext
  BY <1>1, LoopShape, EventLoopShape, ClientShape DEF EchoNext, EchoServerRuns
<1>2. CASE UNCHANGED echovars
  BY <1>2 DEF echovars, loop, poll, streams, Shape, EchoTypeOK, StreamsOK, OneServed, FdsApart,
     WatchedAreOpen
<1> QED
  BY <1>1, <1>2

LEMMA ShapeAlways == EchoSpec => []Shape
  BY InitShape, NextShape, PTL DEF EchoSpec

(* EchoTypeOK is never broken: the numbers of served clients, descriptors   *)
(* and lines stay within their bounds, whichever server runs.               *)
THEOREM TcpTypes == EchoSpec => []EchoTypeOK
<1>1. Shape => EchoTypeOK
  BY DEF Shape
<1> QED
  BY <1>1, ShapeAlways, PTL

(* The descriptors that epoll_wait and select are given are exactly the     *)
(* open ones, and fd_max covers them: WatchedAreOpen is never broken.       *)
THEOREM WatchIsExact == EchoSpec => []WatchedAreOpen
<1>1. Shape => WatchedAreOpen
  BY DEF Shape
<1> QED
  BY <1>1, ShapeAlways, PTL
-----------------------------------------------------------------------------
(* Reported events.  What is reported about a client stays true while other *)
(* clients are handled, and nobody but the event loop takes it away.        *)
LEMMA Kept ==
  ASSUME NEW f \in Fds, Readable(f), fds'[f] = fds[f],
         up'[fds[f]] = up[fds[f]] \/ up'[fds[f]] # <<>>,
         cpc[fds[f]] \in {"half", "closed"} => cpc'[fds[f]] \in {"half", "closed"}
  PROVE  Readable(f)'
<1>1. f # Listener
  BY FdNumbers
<1> QED
  BY <1>1 DEF Readable, Ended

LEMMA ServerKeepsEvents ==
  ASSUME Shape, EventsNeverBlock, EchoServerRuns \/ AcceptError
  PROVE  EventsNeverBlock'
<1>0. EchoTypeOK /\ StreamsOK /\ OneServed /\ FdsApart /\ WatchedAreOpen
  BY DEF Shape
<1>1. ASSUME style \in {"tcp", "stdio"}, ready' = ready PROVE EventsNeverBlock'
  BY <1>0, <1>1 DEF FdsApart, EventsNeverBlock
<1>2. CASE \/ TcpAccept \/ TcpServe \/ TcpHangUp \/ StdioAccept \/ StdioServe \/ StdioHangUp
  BY <1>1, <1>2 DEF TcpAccept, TcpServe, TcpHangUp, StdioAccept, StdioServe, StdioHangUp,
     NextClient, HangsUp, poll
<1>3. CASE AcceptError
  BY <1>3 DEF AcceptError, EventsNeverBlock, Readable, Ended, poll, streams
<1>4. ASSUME NEW s, NEW S, Waits(s, S) PROVE EventsNeverBlock'
  BY <1>4 DEF Waits, EventsNeverBlock, Readable, Ended, streams
<1>5. ASSUME NEW s \in {"epoll", "select"}, NEW f, Turn(s, f), NEW g \in ready', g # Listener
      PROVE  g \in Fds /\ g # f /\ fds[g] \in Users /\ Readable(g)
  <2>1. g \in ready /\ g # f /\ style = s
    BY <1>5 DEF Turn
  <2>2. g \in Fds /\ fds[g] # Nobody /\ Readable(g)
    BY <1>0, <1>5, <2>1 DEF EchoTypeOK, WatchedAreOpen, EventsNeverBlock
  <2> QED
    BY <1>0, <2>1, <2>2 DEF EchoTypeOK
<1>6. ASSUME NEW s \in {"epoll", "select"}, Turn(s, Listener),
             NEW c \in Users, NEW f \in Fds, TakeClient(c, f)
      PROVE  EventsNeverBlock'
  <2> SUFFICES ASSUME NEW g \in ready' PROVE Readable(g)'
    BY DEF EventsNeverBlock
  <2>1. g # Listener
    BY <1>6 DEF Turn
  <2>2. g \in Fds /\ fds[g] \in Users /\ Readable(g)
    BY <1>5, <1>6, <2>1
  <2>3. fds[f] = Nobody /\ fds' = [fds EXCEPT ![f] = c] /\ UNCHANGED <<cpc, streams>>
    BY <1>6 DEF TakeClient, Lowest, At
  <2>4. fds'[g] = fds[g] /\ up' = up /\ cpc' = cpc
    BY <1>0, <2>2, <2>3, EchoAssumption DEF EchoTypeOK, streams
  <2> QED
    BY <2>2, <2>4, Kept
<1>7. ASSUME NEW s \in {"epoll", "select"}, Turn(s, Listener),
             UNCHANGED <<fds, cpc, streams>>
      PROVE  EventsNeverBlock'
  <2> SUFFICES ASSUME NEW g \in ready' PROVE Readable(g)'
    BY DEF EventsNeverBlock
  <2>1. g # Listener
    BY <1>7 DEF Turn
  <2>2. g \in Fds /\ Readable(g)
    BY <1>5, <1>7, <2>1
  <2> QED
    BY <1>7, <2>2, Kept DEF streams
<1>8. ASSUME NEW s \in {"epoll", "select"}, NEW f \in ready \ {Listener}, Turn(s, f), ServeOne(f)
      PROVE  EventsNeverBlock'
  <2> SUFFICES ASSUME NEW g \in ready' PROVE Readable(g)'
    BY DEF EventsNeverBlock
  <2>1. PICK n \in 1 .. Len(up[fds[f]]) : EchoPart(fds[f], n)
    BY <1>8 DEF ServeOne
  <2>2. UNCHANGED <<fds, conn>> /\ UNCHANGED cpc
    BY <1>8, <2>1 DEF ServeOne, EchoPart
  <2>3. CASE g = Listener
    BY <1>8, <2>2, <2>3 DEF Turn, EventsNeverBlock, Readable
  <2>4. CASE g # Listener
    <3>1. f \in Fds
      BY <1>0, <1>8 DEF EchoTypeOK
    <3>2. g \in Fds /\ g # f /\ fds[g] \in Users /\ Readable(g)
      BY <1>5, <1>8, <2>4
    <3>3. fds[g] # fds[f]
      BY <1>0, <3>1, <3>2, EchoAssumption DEF FdsApart
    <3>4. up'[fds[g]] = up[fds[g]]
      BY <1>0, <2>1, <3>2, <3>3 DEF EchoPart, At, StreamsOK
    <3> QED
      BY <2>2, <3>2, <3>4, Kept
  <2> QED
    BY <2>3, <2>4
<1>9. ASSUME NEW s \in {"epoll", "select"}, NEW f \in ready \ {Listener}, Turn(s, f),
             DropClient(f)
      PROVE  EventsNeverBlock'
  <2> SUFFICES ASSUME NEW g \in ready' PROVE Readable(g)'
    BY DEF EventsNeverBlock
  <2>1. f \in Fds /\ fds[f] # Nobody
    BY <1>0, <1>9 DEF EchoTypeOK, WatchedAreOpen, Turn
  <2>2. /\ fds' = [fds EXCEPT ![f] = Nobody] /\ conn' = [conn EXCEPT ![fds[f]] = "shut"]
        /\ UNCHANGED <<cpc, streams>>
    BY <1>9 DEF DropClient, At
  <2>3. CASE g = Listener
    <3>1. PICK c \in Users : conn[c] = "queued"
      BY <1>9, <2>3 DEF Turn, EventsNeverBlock, Readable
    <3>2. c # fds[f]
      BY <1>0, <2>1, <3>1 DEF FdsApart
    <3>3. conn'[c] = "queued"
      BY <1>0, <2>2, <3>1, <3>2 DEF EchoTypeOK
    <3> QED
      BY <2>3, <3>3 DEF Readable
  <2>4. CASE g # Listener
    <3>1. g \in Fds /\ g # f /\ fds[g] \in Users /\ Readable(g)
      BY <1>5, <1>9, <2>4
    <3>2. fds'[g] = fds[g] /\ up' = up /\ cpc' = cpc
      BY <1>0, <2>2, <3>1 DEF EchoTypeOK, streams
    <3> QED
      BY <3>1, <3>2, Kept
  <2> QED
    BY <2>3, <2>4
<1>10. CASE EpollAccept \/ SelectAccept
  BY <1>6, <1>7, <1>10 DEF EpollAccept, SelectAccept
<1>11. CASE EpollRead \/ SelectRead
  BY <1>8, <1>9, <1>11 DEF EpollRead, SelectRead, Lowest
<1> QED
  BY <1>2, <1>3, <1>4, <1>10, <1>11 DEF EchoServerRuns, EpollWait, SelectWait

LEMMA ClientKeepsEvents ==
  ASSUME Shape, EventsNeverBlock, NEW c \in Users, ClientActs(c) \/ ClientReads(c)
  PROVE  EventsNeverBlock'
<1>0. EchoTypeOK /\ StreamsOK /\ OneServed /\ FdsApart /\ WatchedAreOpen
  BY DEF Shape
<1>1. conn \in [Users -> {"away", "queued", "in", "shut"}]
      /\ cpc \in [Users -> {"types", "awaits", "half", "closed"}]
  BY <1>0 DEF EchoTypeOK
<1>2. ASSUME ready' = ready, fds' = fds,
             \A d \in Users : conn[d] = "queued" => conn'[d] = "queued",
             \A d \in Users : up'[d] = up[d] \/ up'[d] # <<>>,
             \A d \in Users : cpc[d] \in {"half", "closed"} => cpc'[d] \in {"half", "closed"}
      PROVE  EventsNeverBlock'
  <2> SUFFICES ASSUME NEW g \in ready PROVE Readable(g)'
    BY <1>2 DEF EventsNeverBlock
  <2>1. Readable(g)
    BY DEF EventsNeverBlock
  <2>2. CASE g = Listener
    BY <1>2, <2>1, <2>2 DEF Readable
  <2>3. CASE g # Listener
    <3>1. g \in Fds /\ fds[g] \in Users
      BY <1>0, <2>1, <2>3 DEF EchoTypeOK, Readable
    <3> QED
      BY <1>2, <2>1, <3>1, Kept
  <2> QED
    BY <2>2, <2>3
<1>3. ASSUME NEW p, Connects(c, p) PROVE EventsNeverBlock'
  <2>1. /\ conn[c] = "away" /\ conn' = [conn EXCEPT ![c] = "queued"]
        /\ ready' = ready /\ fds' = fds /\ cpc' = cpc /\ up' = up
    BY <1>3 DEF Connects, At, server, poll, streams
  <2> QED
    BY <1>1, <1>2, <2>1
<1>4. ASSUME NEW p, NEW then \in {"types", "awaits"}, Writes(c, p, then)
      PROVE  EventsNeverBlock'
  <2>1. /\ cpc' = [cpc EXCEPT ![c] = then] \/ cpc' = [cpc EXCEPT ![c] = "closed"]
        /\ cpc[c] = "types" /\ ready' = ready /\ fds' = fds /\ conn' = conn
    BY <1>4 DEF Writes, At, server, poll
  <2>2. up'[c] # <<>>
    <3>1. said[c] + 1 \in Nat \ {0} /\ up[c] \in Seq(Byte)
      BY <1>0, EchoAssumption DEF EchoTypeOK, StreamsOK
    <3>2. Line(c, said[c] + 1) \in Seq(Byte) /\ Len(Line(c, said[c] + 1)) = LineLen
      BY <3>1, LineIsBytes
    <3>3. Len(up[c] \o Line(c, said[c] + 1)) = Len(up[c]) + LineLen /\ Len(up[c]) \in Nat
      BY <3>1, <3>2, ConcatProperties, LenProperties
    <3>4. LineLen \in Nat /\ LineLen # 0
      BY EchoAssumption
    <3>5. up'[c] = up[c] \o Line(c, said[c] + 1)
      BY <1>0, <1>4, WritesStreams
    <3>6. Len(up'[c]) # Len(<<>>)
      <4>1. Len(up[c]) + LineLen # 0
        BY <3>3, <3>4
      <4>2. Len(<<>>) = 0
        OBVIOUS
      <4> QED
        BY <3>3, <3>5, <4>1, <4>2
    <3> QED
      BY <3>6
  <2>3. \A d \in Users : up'[d] = up[d] \/ up'[d] # <<>>
    BY <1>0, <1>4, <2>2 DEF Writes, At, StreamsOK
  <2> QED
    BY <1>1, <1>2, <2>1, <2>3
<1>5. ASSUME NEW p, NEW n, Reads(c, p, n),
             cpc' = cpc \/ (cpc[c] = "awaits" /\ cpc' = [cpc EXCEPT ![c] = "types"])
      PROVE  EventsNeverBlock'
  <2>1. ready' = ready /\ fds' = fds /\ conn' = conn /\ up' = up
    BY <1>5 DEF Reads, server, poll
  <2> QED
    BY <1>1, <1>2, <1>5, <2>1
<1>6. ASSUME NEW p, NEW from, NEW to \in {"half", "closed"}, Becomes(c, p, from, to)
      PROVE  EventsNeverBlock'
  <2>1. /\ cpc' = [cpc EXCEPT ![c] = to]
        /\ ready' = ready /\ fds' = fds /\ conn' = conn /\ up' = up
    BY <1>6 DEF Becomes, At, server, poll, streams
  <2> QED
    BY <1>1, <1>2, <2>1
<1>7. CASE ClientActs(c)
  BY <1>3, <1>4, <1>6, <1>7 DEF ClientActs, EchoConnects, EchoWrites, EchoQuits, LinesConnects,
     LinesWrites, LinesQuits, SplitConnects, SplitWrites, SplitShutsDown
<1>8. CASE EchoReads(c)
  BY <1>5, <1>8 DEF EchoReads, At
<1>9. CASE LinesReads(c)
  BY <1>5, <1>9 DEF LinesReads, At
<1>10. CASE SplitReads(c)
  BY <1>5, <1>6, <1>10 DEF SplitReads
<1> QED
  BY <1>7, <1>8, <1>9, <1>10 DEF ClientReads

(* EventsNeverBlock is never broken: in one thread that calls accept and    *)
(* read for what epoll_wait or select reported, none of the calls can       *)
(* block, since only the loop itself takes away what made a descriptor      *)
(* readable, and it handles each descriptor once.                           *)
THEOREM NoCallBlocks == EchoSpec => []EventsNeverBlock
<1>1. EchoInit => EventsNeverBlock
  BY DEF EchoInit, EventsNeverBlock
<1>2. Shape /\ EventsNeverBlock /\ [EchoNext]_echovars => EventsNeverBlock'
  <2> SUFFICES ASSUME Shape, EventsNeverBlock, [EchoNext]_echovars PROVE EventsNeverBlock'
    OBVIOUS
  <2>1. CASE EchoNext
    BY <2>1, ServerKeepsEvents, ClientKeepsEvents DEF EchoNext
  <2>2. CASE UNCHANGED echovars
    BY <2>2 DEF echovars, poll, streams, EventsNeverBlock, Readable, Ended
  <2> QED
    BY <2>1, <2>2
<1> QED
  BY <1>1, <1>2, ShapeAlways, PTL DEF EchoSpec
-----------------------------------------------------------------------------
(* What clients are sent.  While a client can still write, and the stdio    *)
(* server has not hung up on it, the bytes it has read, those on the way    *)
(* back and those on the way to the server are together what it has said.   *)
Sent(c) == got[c] \o down[c]
Padded(c) == style = "stdio" /\ conn[c] = "shut"
FlowOf(c) ==
  /\ conn[c] = "shut" => cpc[c] \in {"half", "closed"}
  /\ cpc[c] # "closed" /\ ~Padded(c) => Sent(c) \o up[c] = Own(c, said[c] * LineLen)
Echoed(c) ==
  /\ \A i \in 1 .. Len(Sent(c)) : i <= said[c] * LineLen => Sent(c)[i] = <<c, i>>
  /\ Len(Sent(c)) <= said[c] * LineLen + IF Padded(c) THEN LineLen ELSE 0

EchoInv == Shape /\ \A c \in Users : FlowOf(c) /\ Echoed(c)

LEMMA Joined == \A s, t, u \in Seq(Byte) : s \o (t \o u) = (s \o t) \o u
  BY ConcatAssociative

LEMMA StreamTypes ==
  ASSUME Shape, NEW c \in Users
  PROVE  /\ up[c] \in Seq(Byte) /\ down[c] \in Seq(Byte) /\ got[c] \in Seq(Byte)
         /\ Sent(c) \in Seq(Byte) /\ Len(Sent(c)) \in Nat
         /\ said[c] \in Nat /\ LineLen \in Nat /\ said[c] * LineLen \in Nat
<1>1. up[c] \in Seq(Byte) /\ down[c] \in Seq(Byte) /\ got[c] \in Seq(Byte)
  BY DEF Shape, StreamsOK
<1>2. Sent(c) \in Seq(Byte) /\ Len(Sent(c)) \in Nat
  BY <1>1, ConcatProperties, LenProperties DEF Sent
<1>3. said[c] \in Nat /\ LineLen \in Nat
  BY EchoAssumption DEF Shape, EchoTypeOK
<1>4. said[c] * LineLen \in Nat
  BY <1>3
<1> QED
  BY <1>1, <1>2, <1>3, <1>4

LEMMA OwnPrefix ==
  \A c \in Users, n \in Nat, s, t \in Seq(Byte) :
    s \o t = Own(c, n) => Len(s) + Len(t) = n /\ \A i \in 1 .. Len(s) : s[i] = <<c, i>>
<1> SUFFICES ASSUME NEW c \in Users, NEW n \in Nat, NEW s \in Seq(Byte), NEW t \in Seq(Byte),
                    s \o t = Own(c, n)
             PROVE  Len(s) + Len(t) = n /\ \A i \in 1 .. Len(s) : s[i] = <<c, i>>
  OBVIOUS
<1>1. /\ Len(s) \in Nat /\ Len(t) \in Nat /\ Len(s \o t) = Len(s) + Len(t)
      /\ \A i \in 1 .. Len(s) + Len(t) :
           (s \o t)[i] = IF i <= Len(s) THEN s[i] ELSE t[i - Len(s)]
  BY ConcatProperties, LenProperties
<1>2. Len(Own(c, n)) = n
  BY DEF Own
<1>3. ASSUME NEW i \in 1 .. Len(s) PROVE s[i] = <<c, i>>
  <2>1. i \in 1 .. Len(s) + Len(t) /\ i <= Len(s) /\ i \in 1 .. n
    BY <1>1, <1>2
  <2>2. (s \o t)[i] = s[i]
    BY <1>1, <2>1
  <2>3. Own(c, n)[i] = <<c, i>>
    BY <2>1 DEF Own
  <2> QED
    BY <2>2, <2>3
<1> QED
  BY <1>1, <1>2, <1>3

LEMMA NextLine ==
  ASSUME NEW c \in Users, NEW k \in Nat
  PROVE  Own(c, k * LineLen) \o Line(c, k + 1) = Own(c, (k + 1) * LineLen)
<1>1. PICK m \in Nat : m = k * LineLen
  BY EchoAssumption
<1>2. LineLen \in Nat /\ (k + 1) * LineLen = m + LineLen /\ (k + 1 - 1) * LineLen = m
  BY <1>1, EchoAssumption
<1>3. Line(c, k + 1) = [i \in 1 .. LineLen |-> <<c, m + i>>]
  BY <1>2 DEF Line
<1>4. Own(c, m) \in Seq(Users \X Nat) /\ Len(Own(c, m)) = m
  <2>1. Own(c, m) \in [1 .. m -> Users \X Nat]
    BY <1>1 DEF Own
  <2> QED
    BY <1>1, <2>1
<1>5. Line(c, k + 1) \in Seq(Users \X Nat) /\ Len(Line(c, k + 1)) = LineLen
  <2>1. Line(c, k + 1) \in [1 .. LineLen -> Users \X Nat]
    <3> SUFFICES ASSUME NEW i \in 1 .. LineLen PROVE <<c, m + i>> \in Users \X Nat
      BY <1>3
    <3> QED
      BY <1>1, <1>2
  <2> QED
    BY <1>2, <2>1
<1>6. Own(c, m + LineLen) \in Seq(Users \X Nat) /\ Len(Own(c, m + LineLen)) = m + LineLen
  <2>1. Own(c, m + LineLen) \in [1 .. m + LineLen -> Users \X Nat]
    BY <1>1, <1>2 DEF Own
  <2> QED
    BY <1>1, <1>2, <2>1
<1>7. /\ Own(c, m) \o Line(c, k + 1) \in Seq(Users \X Nat)
      /\ Len(Own(c, m) \o Line(c, k + 1)) = m + LineLen
      /\ \A i \in 1 .. m + LineLen :
           (Own(c, m) \o Line(c, k + 1))[i]
             = IF i <= m THEN Own(c, m)[i] ELSE Line(c, k + 1)[i - m]
  <2>1. ASSUME NEW s \in Seq(Users \X Nat), NEW t \in Seq(Users \X Nat),
               Len(s) = m, Len(t) = LineLen
        PROVE  /\ s \o t \in Seq(Users \X Nat) /\ Len(s \o t) = m + LineLen
               /\ \A i \in 1 .. m + LineLen :
                    (s \o t)[i] = IF i <= m THEN s[i] ELSE t[i - m]
    BY <2>1, ConcatProperties
  <2> QED
    BY <1>4, <1>5, <2>1
<1>8. ASSUME NEW i \in 1 .. m + LineLen
      PROVE  (Own(c, m) \o Line(c, k + 1))[i] = Own(c, m + LineLen)[i]
  <2>1. Own(c, m + LineLen)[i] = <<c, i>>
    BY DEF Own
  <2>2. CASE i <= m
    <3>1. i \in 1 .. m
      BY <1>1, <1>2, <2>2
    <3>2. Own(c, m)[i] = <<c, i>>
      BY <3>1 DEF Own
    <3> QED
      BY <1>7, <2>1, <2>2, <3>2
  <2>3. CASE ~(i <= m)
    <3>1. i - m \in 1 .. LineLen /\ m + (i - m) = i
      BY <1>1, <1>2, <2>3
    <3>2. Line(c, k + 1)[i - m] = <<c, i>>
      BY <1>3, <3>1
    <3> QED
      BY <1>7, <2>1, <2>3, <3>2
  <2> QED
    BY <2>2, <2>3
<1>9. Own(c, m) \o Line(c, k + 1) = Own(c, m + LineLen)
  <2>1. /\ Len(Own(c, m) \o Line(c, k + 1)) = Len(Own(c, m + LineLen))
        /\ \A i \in 1 .. Len(Own(c, m) \o Line(c, k + 1)) :
             (Own(c, m) \o Line(c, k + 1))[i] = Own(c, m + LineLen)[i]
    BY <1>6, <1>7, <1>8
  <2> QED
    BY <1>6, <1>7, <2>1, SeqEqual
<1> QED
  BY <1>1, <1>2, <1>9, Zenon

(* A client nothing new is sent to, and which says nothing.                 *)
LEMMA Steady ==
  ASSUME Shape, NEW c \in Users, FlowOf(c), Echoed(c), style' = style,
         Sent(c)' = Sent(c), up'[c] = up[c], said'[c] = said[c],
         cpc[c] \in {"half", "closed"} => cpc'[c] \in {"half", "closed"},
         cpc[c] = "closed" => cpc'[c] = "closed",
         conn[c] = "shut" => conn'[c] = "shut",
         conn'[c] = "shut" => conn[c] = "shut" \/ cpc[c] \in {"half", "closed"}
  PROVE  FlowOf(c)' /\ Echoed(c)'
<1>1. Padded(c) => Padded(c)'
  BY DEF Padded
<1>2. FlowOf(c)'
  BY <1>1 DEF FlowOf, Padded
<1>3. Len(Sent(c)') <= said'[c] * LineLen + IF Padded(c)' THEN LineLen ELSE 0
  <2>1. PICK k \in Nat : k = said[c] * LineLen
    BY StreamTypes
  <2>2. /\ Len(Sent(c)) <= k + IF Padded(c) THEN LineLen ELSE 0
        /\ Len(Sent(c)) \in Nat /\ LineLen \in Nat
    BY <2>1, StreamTypes DEF Echoed
  <2>3. Len(Sent(c)) <= k + IF Padded(c)' THEN LineLen ELSE 0
    BY <1>1, <2>2
  <2> QED
    BY <2>1, <2>3
<1>4. Echoed(c)'
  BY <1>3 DEF Echoed
<1> QED
  BY <1>2, <1>4

(* A client whose bytes are sent back.                                      *)
LEMMA EchoFlow ==
  ASSUME Shape, NEW c \in Users, FlowOf(c), Echoed(c), conn[c] = "in", conn'[c] = "in",
         NEW n \in 1 .. Len(up[c]), EchoPart(c, n)
  PROVE  FlowOf(c)' /\ Echoed(c)'
<1>0. /\ up[c] \in Seq(Byte) /\ down[c] \in Seq(Byte) /\ got[c] \in Seq(Byte)
      /\ Sent(c) \in Seq(Byte) /\ said[c] * LineLen \in Nat
      /\ n \in Nat /\ n <= Len(up[c])
  BY StreamTypes, LenProperties
<1>1. /\ up'[c] = Drop(up[c], n) /\ got' = got /\ said' = said /\ style' = style
      /\ cpc' = cpc
  BY DEF EchoPart, At, Shape, StreamsOK
<1>2. ~Padded(c) /\ ~Padded(c)'
  BY DEF Padded
<1>3. CASE cpc[c] = "closed"
  <2>1. Sent(c)' = Sent(c)
    BY <1>1, <1>3 DEF EchoPart, Send, Sent
  <2>2. FlowOf(c)'
    BY <1>1, <1>3 DEF FlowOf
  <2> QED
    BY <1>1, <1>2, <2>1, <2>2 DEF Echoed
<1>4. CASE cpc[c] # "closed"
  <2>1. PICK a \in Seq(Byte), b \in Seq(Byte) :
          a = SubSeq(up[c], 1, n) /\ b = Drop(up[c], n) /\ up[c] = a \o b
    <3>1. /\ SubSeq(up[c], 1, n) \in Seq(Byte) /\ Drop(up[c], n) \in Seq(Byte)
          /\ SubSeq(up[c], 1, n) \o Drop(up[c], n) = up[c]
      BY <1>0, Cut
    <3> QED
      BY <3>1, Zenon
  <2>2. down'[c] = down[c] \o a /\ up'[c] = b /\ b \in Seq(Byte)
    BY <1>1, <1>4, <2>1 DEF EchoPart, Send, At, Shape, StreamsOK
  <2>3. Sent(c)' = Sent(c) \o a /\ Sent(c)' \in Seq(Byte)
    <3>1. got[c] \o (down[c] \o a) = (got[c] \o down[c]) \o a
      BY <1>0, Joined, Zenon
    <3>2. Sent(c) \o a \in Seq(Byte)
      BY <1>0, ConcatProperties
    <3> QED
      BY <1>1, <2>2, <3>1, <3>2, Zenon DEF Sent
  <2>4. Sent(c)' \o up'[c] = Sent(c) \o up[c]
    <3>1. Sent(c) \o (a \o b) = (Sent(c) \o a) \o b
      BY <1>0, Joined, Zenon
    <3> QED
      BY <2>1, <2>2, <2>3, <3>1, Zenon
  <2>5. Sent(c)' \o up'[c] = Own(c, said[c] * LineLen)
    BY <1>2, <1>4, <2>4 DEF FlowOf
  <2>6. FlowOf(c)'
    BY <1>1, <1>2, <2>5 DEF FlowOf
  <2>7. Echoed(c)'
    <3>1. PICK k \in Nat : k = said[c] * LineLen
      BY <1>0
    <3>2. /\ Len(Sent(c)') + Len(up'[c]) = k
          /\ \A i \in 1 .. Len(Sent(c)') : Sent(c)'[i] = <<c, i>>
      <4>1. PICK x \in Seq(Byte), y \in Seq(Byte) :
              x = Sent(c)' /\ y = up'[c] /\ x \o y = Own(c, k)
        BY <2>2, <2>3, <2>5, <3>1, Zenon
      <4>2. x \o y = Own(c, k)
        BY <4>1
      <4>3. Len(x) + Len(y) = k /\ \A i \in 1 .. Len(x) : x[i] = <<c, i>>
        BY <4>2, OwnPrefix
      <4> QED
        BY <4>1, <4>3, Zenon
    <3>3. Len(Sent(c)') \in Nat /\ Len(up'[c]) \in Nat
      BY <2>2, <2>3, LenProperties
    <3>4. Len(Sent(c)') <= k + 0
      BY <3>2, <3>3
    <3> QED
      BY <1>1, <1>2, <3>1, <3>2, <3>4 DEF Echoed
  <2> QED
    BY <2>6, <2>7
<1> QED
  BY <1>3, <1>4

(* The client the stdio server hangs up on.                                 *)
LEMMA PadFlow ==
  ASSUME Shape, StdioHangUp, FlowOf(clnt_sock), Echoed(clnt_sock)
  PROVE  FlowOf(clnt_sock)' /\ Echoed(clnt_sock)'
<1>0. clnt_sock \in Users /\ conn[clnt_sock] = "in"
  BY DEF StdioHangUp, HangsUp, Shape, OneServed
<1>1. /\ conn'[clnt_sock] = "shut" /\ cpc[clnt_sock] \in {"half", "closed"}
      /\ up[clnt_sock] = <<>> /\ style = "stdio"
      /\ UNCHANGED <<style, cpc, said, up, got, clnt_sock>>
  BY <1>0 DEF StdioHangUp, HangsUp, Ended, At, Shape, EchoTypeOK, loop
<1>2. CASE cpc[clnt_sock] = "closed"
  <2>1. Sent(clnt_sock)' = Sent(clnt_sock)
    BY <1>1, <1>2 DEF StdioHangUp, Sent
  <2> QED
    BY <1>0, <1>1, <1>2, <2>1, Steady
<1>3. CASE cpc[clnt_sock] # "closed"
  <2>0. /\ got[clnt_sock] \in Seq(Byte) /\ down[clnt_sock] \in Seq(Byte)
        /\ Sent(clnt_sock) \in Seq(Byte) /\ message \in Seq(Byte) /\ Len(message) <= LineLen
        /\ said[clnt_sock] * LineLen \in Nat /\ LineLen \in Nat
    BY <1>0, StreamTypes DEF Shape, StreamsOK
  <2>1. down'[clnt_sock] = down[clnt_sock] \o message
    BY <1>0, <1>3 DEF StdioHangUp, At, Shape, StreamsOK
  <2>2. Sent(clnt_sock)' = Sent(clnt_sock) \o message
    <3>1. got[clnt_sock] \o (down[clnt_sock] \o message)
            = (got[clnt_sock] \o down[clnt_sock]) \o message
      BY <2>0, Joined, Zenon
    <3> QED
      BY <1>1, <2>1, <3>1, Zenon DEF Sent
  <2>3. PICK k \in Nat : k = said[clnt_sock] * LineLen
    BY <2>0
  <2>4. Sent(clnt_sock) \o <<>> = Own(clnt_sock, k)
    BY <1>0, <1>1, <1>3, <2>3 DEF FlowOf, Padded
  <2>5. <<>> \in Seq(Byte) /\ Len(<<>>) = 0
    OBVIOUS
  <2>6. /\ Len(Sent(clnt_sock)) + 0 = k
        /\ \A i \in 1 .. Len(Sent(clnt_sock)) : Sent(clnt_sock)[i] = <<clnt_sock, i>>
    <3>1. PICK x \in Seq(Byte), y \in Seq(Byte) :
            x = Sent(clnt_sock) /\ y = <<>> /\ x \o y = Own(clnt_sock, k)
      BY <2>0, <2>4, <2>5, Zenon
    <3>2. x \o y = Own(clnt_sock, k)
      BY <3>1
    <3>3. Len(x) + Len(y) = k /\ \A i \in 1 .. Len(x) : x[i] = <<clnt_sock, i>>
      BY <1>0, <3>2, OwnPrefix
    <3> QED
      BY <2>5, <3>1, <3>3, Zenon
  <2>7. Len(Sent(clnt_sock)) \in Nat /\ Len(message) \in Nat
    BY <2>0, LenProperties
  <2>8. /\ Len(Sent(clnt_sock)') = k + Len(message)
        /\ \A i \in 1 .. k : Sent(clnt_sock)'[i] = <<clnt_sock, i>>
    <3>1. /\ Len(Sent(clnt_sock) \o message) = Len(Sent(clnt_sock)) + Len(message)
          /\ \A i \in 1 .. Len(Sent(clnt_sock)) + Len(message) :
               (Sent(clnt_sock) \o message)[i]
                 = IF i <= Len(Sent(clnt_sock)) THEN Sent(clnt_sock)[i]
                   ELSE message[i - Len(Sent(clnt_sock))]
      BY <2>0, ConcatProperties
    <3>2. Len(Sent(clnt_sock)) = k
      BY <2>6, <2>7
    <3>3. ASSUME NEW i \in 1 .. k
          PROVE  i \in 1 .. Len(Sent(clnt_sock)) + Len(message) /\ i <= Len(Sent(clnt_sock))
      BY <2>7, <3>2
    <3> QED
      BY <2>2, <2>6, <3>1, <3>2, <3>3
  <2>9. Len(Sent(clnt_sock)') <= k + LineLen
    BY <2>0, <2>7, <2>8
  <2>10. Padded(clnt_sock)'
    BY <1>1 DEF Padded
  <2>11. FlowOf(clnt_sock)'
    BY <1>1, <2>10 DEF FlowOf
  <2>12. Echoed(clnt_sock)'
    <3>1. said'[clnt_sock'] * LineLen = k /\ clnt_sock' = clnt_sock
      BY <1>1, <2>3
    <3>2. ASSUME NEW i \in 1 .. Len(Sent(clnt_sock)'), i <= k
          PROVE  Sent(clnt_sock)'[i] = <<clnt_sock, i>>
      <4>1. i \in 1 .. k
        BY <3>2
      <4> QED
        BY <2>8, <4>1
    <3> QED
      BY <2>9, <2>10, <3>1, <3>2 DEF Echoed
  <2> QED
    BY <2>11, <2>12
<1> QED
  BY <1>2, <1>3

(* A client that writes a line.                                             *)
LEMMA WriteFlow ==
  ASSUME Shape, NEW c \in Users, FlowOf(c), Echoed(c),
         NEW p, NEW then \in {"types", "awaits"}, Writes(c, p, then)
  PROVE  FlowOf(c)' /\ Echoed(c)'
<1>0. /\ up[c] \in Seq(Byte) /\ Sent(c) \in Seq(Byte) /\ Len(Sent(c)) \in Nat
      /\ said[c] \in Nat /\ LineLen \in Nat
  BY StreamTypes
<1>1. /\ cpc[c] = "types" /\ said'[c] = said[c] + 1 /\ UNCHANGED <<style, conn, down, got>>
  BY DEF Writes, At, server, Shape, EchoTypeOK
<1>2. conn[c] # "shut" /\ ~Padded(c) /\ ~Padded(c)'
  BY <1>1 DEF FlowOf, Padded
<1>3. PICK x \in Seq(Byte), l \in Seq(Byte) :
        x = Sent(c) /\ l = Line(c, said[c] + 1) /\ up'[c] = up[c] \o l
  <2>1. said[c] + 1 \in Nat \ {0}
    BY <1>0
  <2>2. Line(c, said[c] + 1) \in Seq(Byte)
    BY <2>1, LineIsBytes
  <2> QED
    BY <1>0, <2>2, WritesStreams DEF Shape
<1>4. Sent(c)' = x
  BY <1>1, <1>3 DEF Sent
<1>5. PICK k \in Nat : k = said[c] * LineLen
  BY <1>0
<1>6. x \o up[c] = Own(c, k)
  BY <1>1, <1>2, <1>3, <1>5 DEF FlowOf
<1>7. x \o (up[c] \o l) = Own(c, (said[c] + 1) * LineLen)
  <2>1. Own(c, said[c] * LineLen) \o Line(c, said[c] + 1) = Own(c, (said[c] + 1) * LineLen)
    BY <1>0, NextLine, Zenon
  <2>2. x \o (up[c] \o l) = (x \o up[c]) \o l
    BY <1>0, Joined, Zenon
  <2> QED
    BY <1>3, <1>5, <1>6, <2>1, <2>2, Zenon
<1>8. FlowOf(c)'
  BY <1>1, <1>2, <1>3, <1>4, <1>7, Zenon DEF FlowOf
<1>9. Echoed(c)'
  <2>1. Len(x) + Len(up[c]) = k /\ \A i \in 1 .. Len(x) : x[i] = <<c, i>>
    BY <1>0, <1>6, OwnPrefix
  <2>2. Len(x) \in Nat /\ Len(up[c]) \in Nat
    BY <1>0, LenProperties
  <2>3. PICK j \in Nat : j = said'[c] * LineLen
    BY <1>0, <1>1
  <2>4. j = k + LineLen
    BY <1>0, <1>1, <1>5, <2>3
  <2>5. Len(x) <= j + 0
    BY <1>0, <2>1, <2>2, <2>4
  <2> QED
    BY <1>2, <1>4, <2>1, <2>3, <2>5 DEF Echoed
<1> QED
  BY <1>8, <1>9

(* A client that reads: what is on the way to it becomes what it has read.  *)
LEMMA ReadFlow ==
  ASSUME Shape, NEW c \in Users, NEW p, NEW n \in Nat, Reads(c, p, n)
  PROVE  Sent(c)' = Sent(c)
<1>1. down[c] \in Seq(Byte) /\ got[c] \in Seq(Byte) /\ n <= Len(down[c])
  BY StreamTypes DEF Reads
<1>2. PICK a \in Seq(Byte), b \in Seq(Byte) :
        a = SubSeq(down[c], 1, n) /\ b = Drop(down[c], n) /\ down[c] = a \o b
  <2>1. /\ SubSeq(down[c], 1, n) \in Seq(Byte) /\ Drop(down[c], n) \in Seq(Byte)
        /\ SubSeq(down[c], 1, n) \o Drop(down[c], n) = down[c]
    BY <1>1, Cut
  <2> QED
    BY <2>1, Zenon
<1>3. got'[c] = got[c] \o a /\ down'[c] = b
  BY <1>2 DEF Reads, At, Shape, StreamsOK
<1>4. got[c] \o (a \o b) = (got[c] \o a) \o b
  BY <1>1, Joined, Zenon
<1> QED
  BY <1>2, <1>3, <1>4, Zenon DEF Sent

(* One step.                                                                *)
LEMMA ServerEchoes ==
  ASSUME EchoInv, EchoServerRuns \/ AcceptError, NEW d \in Users
  PROVE  FlowOf(d)' /\ Echoed(d)'
<1>0. Shape /\ EchoTypeOK /\ StreamsOK /\ OneServed /\ FdsApart /\ WatchedAreOpen
  BY DEF EchoInv, Shape
<1>1. FlowOf(d) /\ Echoed(d)
  BY DEF EchoInv
<1>2. ASSUME UNCHANGED <<style, cpc>>, UNCHANGED <<up[d], down[d], got[d], said[d]>>,
             conn[d] = "shut" => conn'[d] = "shut",
             conn'[d] = "shut" => conn[d] = "shut" \/ cpc[d] \in {"half", "closed"}
      PROVE  FlowOf(d)' /\ Echoed(d)'
  BY <1>0, <1>1, <1>2, Steady DEF Sent
<1>3. ASSUME NEW c \in Users, conn[c] = "queued" /\ conn' = [conn EXCEPT ![c] = "in"],
             UNCHANGED <<style, cpc, up, down, got, said>>
      PROVE  FlowOf(d)' /\ Echoed(d)'
  BY <1>0, <1>2, <1>3 DEF EchoTypeOK
<1>4. ASSUME NEW c \in Users, Ended(c), conn' = [conn EXCEPT ![c] = "shut"],
             UNCHANGED <<style, cpc, up, got, said>>, UNCHANGED down[d]
      PROVE  FlowOf(d)' /\ Echoed(d)'
  BY <1>0, <1>2, <1>4 DEF EchoTypeOK, Ended
<1>5. ASSUME NEW c \in Users, conn[c] = "in", UNCHANGED conn,
             NEW n \in 1 .. Len(up[c]), EchoPart(c, n)
      PROVE  FlowOf(d)' /\ Echoed(d)'
  <2>1. CASE d = c
    BY <1>0, <1>1, <1>5, <2>1, EchoFlow
  <2>2. CASE d # c
    <3>1. UNCHANGED <<style, cpc>> /\ UNCHANGED <<up[d], down[d], got[d], said[d]>>
      BY <1>0, <1>5, <2>2 DEF EchoPart, Send, At, StreamsOK
    <3> QED
      BY <1>2, <1>5, <3>1
  <2> QED
    BY <2>1, <2>2
<1>6. CASE \/ AcceptError \/ EpollWait \/ SelectWait
  <2>1. UNCHANGED <<style, conn, cpc, said, up, down, got>>
    BY <1>6 DEF AcceptError, EpollWait, SelectWait, Waits, streams
  <2> QED
    BY <1>2, <2>1
<1>7. CASE TcpAccept \/ StdioAccept
  BY <1>3, <1>7 DEF TcpAccept, StdioAccept, NextClient, At, streams
<1>8. CASE TcpServe \/ StdioServe
  <2>1. /\ clnt_sock \in Users /\ conn[clnt_sock] = "in" /\ UNCHANGED conn
        /\ up[clnt_sock] \in Seq(Byte)
    BY <1>0, <1>8 DEF TcpServe, StdioServe, OneServed, StreamsOK
  <2>2. CASE TcpServe
    BY <1>5, <2>1, <2>2 DEF TcpServe
  <2>3. CASE StdioServe
    <3>1. LineLen \in 1 .. Len(up[clnt_sock])
      BY <2>1, <2>3, EchoAssumption, LenProperties DEF StdioServe
    <3> QED
      BY <1>5, <2>1, <2>3, <3>1 DEF StdioServe
  <2> QED
    BY <1>8, <2>2, <2>3
<1>9. CASE TcpHangUp
  BY <1>0, <1>4, <1>9 DEF TcpHangUp, HangsUp, OneServed, At
<1>10. CASE StdioHangUp
  <2>1. clnt_sock \in Users /\ clnt_sock' = clnt_sock
    BY <1>0, <1>10 DEF StdioHangUp, HangsUp, OneServed, loop
  <2>2. CASE d = clnt_sock
    BY <1>0, <1>1, <1>10, <2>1, <2>2, PadFlow
  <2>3. CASE d # clnt_sock
    <3>1. down'[d] = down[d]
      BY <1>0, <1>10, <2>1, <2>3 DEF StdioHangUp, At, StreamsOK
    <3> QED
      BY <1>4, <1>10, <2>1, <3>1 DEF StdioHangUp, HangsUp, At
  <2> QED
    BY <2>2, <2>3
<1>11. CASE EpollAccept \/ SelectAccept
  <2>1. ASSUME NEW s, Turn(s, Listener), NEW c \in Users, NEW f \in Fds, TakeClient(c, f)
        PROVE  FlowOf(d)' /\ Echoed(d)'
    BY <1>3, <2>1 DEF Turn, TakeClient, At, streams
  <2>2. ASSUME NEW s, Turn(s, Listener), UNCHANGED <<conn, cpc, streams>>
        PROVE  FlowOf(d)' /\ Echoed(d)'
    BY <1>2, <2>2 DEF Turn, streams
  <2> QED
    BY <1>11, <2>1, <2>2 DEF EpollAccept, SelectAccept
<1>12. CASE EpollRead \/ SelectRead
  <2>1. PICK s \in {"epoll", "select"}, f \in ready \ {Listener} :
          Turn(s, f) /\ (ServeOne(f) \/ DropClient(f))
    BY <1>12 DEF EpollRead, SelectRead, Lowest
  <2>2. f \in Fds /\ fds[f] \in Users /\ conn[fds[f]] = "in" /\ UNCHANGED style
    BY <1>0, <2>1 DEF EchoTypeOK, WatchedAreOpen, FdsApart, Turn
  <2>3. CASE ServeOne(f)
    BY <1>5, <2>2, <2>3 DEF ServeOne
  <2>4. CASE DropClient(f)
    BY <1>4, <2>2, <2>4 DEF DropClient, At, streams
  <2> QED
    BY <2>1, <2>3, <2>4
<1> QED
  BY <1>6, <1>7, <1>8, <1>9, <1>10, <1>11, <1>12 DEF EchoServerRuns

LEMMA ClientEchoes ==
  ASSUME EchoInv, NEW c \in Users, ClientActs(c) \/ ClientReads(c), NEW d \in Users
  PROVE  FlowOf(d)' /\ Echoed(d)'
<1>0. Shape /\ EchoTypeOK /\ StreamsOK
  BY DEF EchoInv, Shape
<1>1. FlowOf(d) /\ Echoed(d)
  BY DEF EchoInv
<1>2. conn \in [Users -> {"away", "queued", "in", "shut"}]
      /\ cpc \in [Users -> {"types", "awaits", "half", "closed"}]
  BY <1>0 DEF EchoTypeOK
<1>3. ASSUME UNCHANGED style, Sent(d)' = Sent(d), UNCHANGED <<up[d], said[d]>>,
             cpc[d] \in {"half", "closed"} => cpc'[d] \in {"half", "closed"},
             cpc[d] = "closed" => cpc'[d] = "closed",
             conn'[d] = "shut" <=> conn[d] = "shut"
      PROVE  FlowOf(d)' /\ Echoed(d)'
  BY <1>0, <1>1, <1>3, Steady
<1>4. ASSUME NEW p, Connects(c, p) PROVE FlowOf(d)' /\ Echoed(d)'
  BY <1>2, <1>3, <1>4 DEF Connects, At, server, streams, Sent
<1>5. ASSUME NEW p, NEW then \in {"types", "awaits"}, Writes(c, p, then)
      PROVE  FlowOf(d)' /\ Echoed(d)'
  <2>1. CASE d = c
    BY <1>0, <1>1, <1>5, <2>1, WriteFlow
  <2>2. CASE d # c
    <3>1. UNCHANGED <<style, conn, down, got>> /\ UNCHANGED <<up[d], said[d], cpc[d]>>
      BY <1>0, <1>2, <1>5, <2>2 DEF Writes, At, server, StreamsOK, EchoTypeOK
    <3> QED
      BY <1>3, <3>1 DEF Sent
  <2> QED
    BY <2>1, <2>2
<1>6. ASSUME NEW p, NEW n \in Nat, Reads(c, p, n),
             cpc' = cpc \/ (cpc[c] = "awaits" /\ cpc' = [cpc EXCEPT ![c] = "types"])
      PROVE  FlowOf(d)' /\ Echoed(d)'
  <2>1. UNCHANGED <<style, conn, up, said>>
    BY <1>6 DEF Reads, server
  <2>2. Sent(d)' = Sent(d)
    <3>1. CASE d = c
      BY <1>0, <1>6, <3>1, ReadFlow
    <3>2. CASE d # c
      BY <1>0, <1>6, <3>2 DEF Reads, At, StreamsOK, Sent
    <3> QED
      BY <3>1, <3>2
  <2> QED
    BY <1>2, <1>3, <1>6, <2>1, <2>2
<1>7. ASSUME NEW p, NEW from \in {"types", "half"}, NEW to \in {"half", "closed"},
             Becomes(c, p, from, to)
      PROVE  FlowOf(d)' /\ Echoed(d)'
  BY <1>2, <1>3, <1>7 DEF Becomes, At, server, streams, Sent
<1>8. CASE ClientActs(c)
  BY <1>4, <1>5, <1>7, <1>8 DEF ClientActs, EchoConnects, EchoWrites, EchoQuits, LinesConnects,
     LinesWrites, LinesQuits, SplitConnects, SplitWrites, SplitShutsDown
<1>9. Len(down[c]) \in Nat /\ LineLen \in Nat
  BY <1>0, StreamTypes, LenProperties
<1>10. CASE EchoReads(c)
  BY <1>6, <1>9, <1>10 DEF EchoReads, At
<1>11. CASE LinesReads(c)
  BY <1>6, <1>9, <1>11 DEF LinesReads, At
<1>12. CASE SplitReads(c)
  BY <1>6, <1>7, <1>9, <1>12 DEF SplitReads
<1> QED
  BY <1>8, <1>10, <1>11, <1>12 DEF ClientReads

LEMMA EchoInvBegins == EchoInit => EchoInv
<1> SUFFICES ASSUME EchoInit PROVE EchoInv
  OBVIOUS
<1>1. ASSUME NEW c \in Users PROVE FlowOf(c) /\ Echoed(c)
  <2>1. /\ conn[c] = "away" /\ said[c] = 0 /\ up[c] = <<>>
        /\ down[c] = <<>> /\ got[c] = <<>>
    BY DEF EchoInit, Each
  <2>2. 0 * LineLen = 0 /\ Own(c, 0) = <<>> /\ <<>> \o <<>> = <<>> /\ Len(<<>>) = 0
    BY EchoAssumption DEF Own
  <2>3. Sent(c) = <<>> /\ ~Padded(c)
    BY <2>1, <2>2 DEF Sent, Padded
  <2> QED
    BY <2>1, <2>2, <2>3 DEF FlowOf, Echoed
<1> QED
  BY <1>1, InitShape DEF EchoInv

LEMMA EchoInvStep == EchoInv /\ [EchoNext]_echovars => EchoInv'
<1> SUFFICES ASSUME EchoInv, [EchoNext]_echovars PROVE EchoInv'
  OBVIOUS
<1>1. Shape'
  BY NextShape DEF EchoInv
<1>2. ASSUME NEW d \in Users PROVE FlowOf(d)' /\ Echoed(d)'
  <2>1. CASE EchoNext
    BY <2>1, ServerEchoes, ClientEchoes DEF EchoNext
  <2>2. CASE UNCHANGED echovars
    BY <2>2 DEF EchoInv, echovars, streams, FlowOf, Echoed, Sent, Padded
  <2> QED
    BY <2>1, <2>2
<1> QED
  BY <1>1, <1>2 DEF EchoInv

LEMMA EchoInvAlways == EchoSpec => []EchoInv
  BY EchoInvBegins, EchoInvStep, PTL DEF EchoSpec

(* EchoIsOwn is never broken: for any number of clients and lines, whatever *)
(* the reads and writes are split into, each client is sent what it said,   *)
(* in order and once, and nothing of anybody else, except for the one line  *)
(* that the stdio server adds when it hangs up.                             *)
THEOREM EachItsOwn == EchoSpec => []EchoIsOwn
<1>1. EchoInv => EchoIsOwn
  BY DEF EchoInv, EchoIsOwn, Echoed, Sent, Padded
<1> QED
  BY <1>1, EchoInvAlways, PTL
-----------------------------------------------------------------------------
(* The servers are echo services: a client that writes asks, a client that  *)
(* reads is answered, and all else is a stutter.                            *)
LEMMA FirstBytes ==
  \A s \in Seq(Byte), n \in Nat :
    /\ Len(FirstOf(s, n)) = IF Len(s) < n THEN Len(s) ELSE n
    /\ \A i \in 1 .. Len(FirstOf(s, n)) : FirstOf(s, n)[i] = s[i]
    /\ Len(s) <= n => FirstOf(s, n) = s
<1> SUFFICES ASSUME NEW s \in Seq(Byte), NEW n \in Nat
             PROVE  /\ Len(FirstOf(s, n)) = IF Len(s) < n THEN Len(s) ELSE n
                    /\ \A i \in 1 .. Len(FirstOf(s, n)) : FirstOf(s, n)[i] = s[i]
                    /\ Len(s) <= n => FirstOf(s, n) = s
  OBVIOUS
<1>1. Len(s) \in Nat /\ \A i \in 1 .. Len(s) : s[i] \in Byte
  BY LenProperties, ElementOfSeq
<1>2. PICK m \in Nat : m = IF Len(s) < n THEN Len(s) ELSE n
  BY <1>1
<1>3. m <= Len(s) /\ FirstOf(s, n) = SubSeq(s, 1, m)
  BY <1>1, <1>2 DEF FirstOf
<1>4. Len(SubSeq(s, 1, m)) = m
  BY <1>3, Cut
<1>5. ASSUME NEW i \in 1 .. m PROVE SubSeq(s, 1, m)[i] = s[i]
  OBVIOUS
<1>6. Len(s) <= n => m = Len(s)
  BY <1>1, <1>2
<1>7. SubSeq(s, 1, Len(s)) = s
  BY SubSeqFull
<1> QED
  BY <1>2, <1>3, <1>4, <1>5, <1>6, <1>7

LEMMA WriteAsks ==
  ASSUME EchoInv, NEW c \in Users, NEW p, NEW then, Writes(c, p, then)
  PROVE  Echo!Ask(c)
<1>0. /\ Shape /\ FlowOf(c) /\ Echoed(c)
      /\ said \in [Users -> 0 .. MaxLines] /\ said[c] \in Nat /\ LineLen \in Nat
  BY EchoAssumption DEF EchoInv, Shape, EchoTypeOK
<1>1. /\ said' = [said EXCEPT ![c] = said[c] + 1] /\ said'[c] = said[c] + 1
      /\ got' = got /\ cpc[c] = "types"
  BY <1>0 DEF Writes, At
<1>2. PICK k \in Nat, m \in Nat :
        k = said[c] * LineLen /\ m = said'[c] * LineLen /\ k <= m
  <2>1. PICK k \in Nat : k = said[c] * LineLen
    BY <1>0
  <2>2. (said[c] + 1) * LineLen = k + LineLen
    BY <1>0, <2>1
  <2> QED
    BY <1>0, <1>1, <2>1, <2>2
<1>3. Echo!Begins(Own(c, k), Own(c, m))
  BY <1>2 DEF Echo!Begins, Own
<1>4. [d \in Users |-> Own(d, said'[d] * LineLen)]
        = [[d \in Users |-> Own(d, said[d] * LineLen)] EXCEPT ![c] = Own(c, m)]
  BY <1>0, <1>1, <1>2
<1>5. FirstOf(got[c], k) = got[c] /\ FirstOf(got[c], m) = got[c]
  <2>1. ~Padded(c)
    BY <1>0, <1>1 DEF FlowOf, Padded
  <2>2. Len(Sent(c)) <= k
    <3>1. Len(Sent(c)) <= k + 0
      BY <1>0, <1>2, <2>1 DEF Echoed
    <3>2. Len(Sent(c)) \in Nat
      BY <1>0, StreamTypes
    <3> QED
      BY <3>1, <3>2
  <2>3. /\ got[c] \in Seq(Byte) /\ down[c] \in Seq(Byte)
        /\ Len(got[c]) \in Nat /\ Len(down[c]) \in Nat
    BY <1>0, StreamTypes, LenProperties
  <2>4. Len(Sent(c)) = Len(got[c]) + Len(down[c])
    BY <2>3, ConcatProperties DEF Sent
  <2>5. Len(got[c]) <= k /\ Len(got[c]) <= m
    <3>1. \A x, y \in Nat : x + y <= k => x <= k /\ x <= m
      BY <1>2
    <3>2. Len(got[c]) + Len(down[c]) <= k
      BY <2>2, <2>4, Zenon
    <3> QED
      BY <2>3, <3>1, <3>2, Zenon
  <2> QED
    BY <2>3, <2>5, FirstBytes
<1>6. ASSUME NEW d \in Users
      PROVE  FirstOf(got'[d], said'[d] * LineLen) = FirstOf(got[d], said[d] * LineLen)
  <2>1. CASE d = c
    BY <1>1, <1>2, <1>5, <2>1
  <2>2. CASE d # c
    BY <1>0, <1>1, <2>2
  <2> QED
    BY <2>1, <2>2
<1>7. [d \in Users |-> FirstOf(got'[d], said'[d] * LineLen)]
        = [d \in Users |-> FirstOf(got[d], said[d] * LineLen)]
  BY <1>6
<1> QED
  BY <1>2, <1>3, <1>4, <1>7 DEF Echo!Ask

LEMMA ReadAnswers ==
  ASSUME EchoInv, NEW c \in Users, Echoed(c)', NEW p, NEW n \in Nat, Reads(c, p, n)
  PROVE  Echo!Answer(c)
<1>0. Shape /\ said[c] \in Nat /\ LineLen \in Nat
  BY StreamTypes DEF EchoInv
<1>1. PICK a \in Seq(Byte), g \in Seq(Byte), e \in Seq(Byte), h \in Seq(Byte) :
        /\ g = got[c] /\ h = got'[c] /\ h = g \o a
        /\ e = down'[c] /\ got' = [got EXCEPT ![c] = h]
  <2>1. got[c] \in Seq(Byte) /\ SubSeq(down[c], 1, n) \in Seq(Byte)
    BY <1>0, StreamTypes, Cut DEF Reads
  <2>2. got' = [got EXCEPT ![c] = got[c] \o SubSeq(down[c], 1, n)]
        /\ got'[c] = got[c] \o SubSeq(down[c], 1, n)
    BY <1>0 DEF Reads, At, Shape, StreamsOK
  <2>3. down'[c] \in Seq(Byte) /\ got'[c] \in Seq(Byte)
    BY <1>0, ReadsStreams DEF Shape
  <2> QED
    BY <2>1, <2>2, <2>3, Zenon
<1>2. said' = said
  BY DEF Reads
<1>3. PICK k \in Nat : k = said[c] * LineLen
  BY <1>0
<1>4. /\ Len(g) \in Nat /\ Len(a) \in Nat /\ Len(h) = Len(g) + Len(a)
      /\ \A i \in 1 .. Len(g) + Len(a) : h[i] = IF i <= Len(g) THEN g[i] ELSE a[i - Len(g)]
  BY <1>1, ConcatProperties, LenProperties
<1>5. /\ Len(FirstOf(g, k)) = IF Len(g) < k THEN Len(g) ELSE k
      /\ Len(FirstOf(h, k)) = IF Len(h) < k THEN Len(h) ELSE k
      /\ \A i \in 1 .. Len(FirstOf(g, k)) : FirstOf(g, k)[i] = g[i]
      /\ \A i \in 1 .. Len(FirstOf(h, k)) : FirstOf(h, k)[i] = h[i]
  BY FirstBytes
<1>6. Echo!Begins(FirstOf(g, k), FirstOf(h, k))
  <2>1. Len(FirstOf(g, k)) <= Len(FirstOf(h, k)) /\ Len(FirstOf(g, k)) <= Len(g)
    BY <1>4, <1>5
  <2>2. ASSUME NEW i \in 1 .. Len(FirstOf(g, k))
        PROVE  i \in 1 .. Len(FirstOf(h, k)) /\ i \in 1 .. Len(g) + Len(a) /\ i <= Len(g)
    BY <1>4, <1>5, <2>1
  <2>3. ASSUME NEW i \in 1 .. Len(FirstOf(g, k)) PROVE FirstOf(g, k)[i] = FirstOf(h, k)[i]
    BY <1>4, <1>5, <2>2, Zenon
  <2> QED
    BY <2>1, <2>3 DEF Echo!Begins
<1>7. \A i \in 1 .. Len(h) : i <= k => h[i] = <<c, i>>
  <2>1. Sent(c)' = h \o e
    BY <1>1 DEF Sent
  <2>2. /\ Len(h) \in Nat /\ Len(e) \in Nat /\ Len(h \o e) = Len(h) + Len(e)
        /\ \A i \in 1 .. Len(h) + Len(e) : (h \o e)[i] = IF i <= Len(h) THEN h[i] ELSE e[i - Len(h)]
    BY ConcatProperties, LenProperties
  <2>3. \A i \in 1 .. Len(h \o e) : i <= k => (h \o e)[i] = <<c, i>>
    BY <1>2, <1>3, <2>1 DEF Echoed
  <2>4. ASSUME NEW i \in 1 .. Len(h)
        PROVE  i \in 1 .. Len(h) + Len(e) /\ i <= Len(h)
    BY <2>2
  <2> QED
    BY <2>2, <2>3, <2>4, Zenon
<1>8. Echo!Begins(FirstOf(h, k), Own(c, k))
  <2>1. Len(Own(c, k)) = k /\ \A i \in 1 .. k : Own(c, k)[i] = <<c, i>>
    BY DEF Own
  <2>2. Len(FirstOf(h, k)) <= k /\ Len(FirstOf(h, k)) <= Len(h) /\ Len(h) \in Nat
        /\ Len(FirstOf(h, k)) \in Nat
    BY <1>4, <1>5
  <2>3. ASSUME NEW i \in 1 .. Len(FirstOf(h, k))
        PROVE  i \in 1 .. k /\ i \in 1 .. Len(h) /\ i <= k
    BY <2>2
  <2>4. ASSUME NEW i \in 1 .. Len(FirstOf(h, k)) PROVE FirstOf(h, k)[i] = Own(c, k)[i]
    BY <1>5, <1>7, <2>1, <2>3, Zenon
  <2> QED
    BY <2>1, <2>2, <2>4 DEF Echo!Begins
<1>9. [d \in Users |-> FirstOf(got'[d], said'[d] * LineLen)]
        = [[d \in Users |-> FirstOf(got[d], said[d] * LineLen)] EXCEPT ![c] = FirstOf(h, k)]
  BY <1>0, <1>1, <1>2, <1>3 DEF Shape, StreamsOK
<1> QED
  BY <1>1, <1>2, <1>3, <1>6, <1>8, <1>9 DEF Echo!Answer

LEMMA EchoServiceStep == EchoInv /\ [EchoNext]_echovars => [Echo!Next]_(Echo!vars)
<1> SUFFICES ASSUME EchoInv, [EchoNext]_echovars PROVE [Echo!Next]_(Echo!vars)
  OBVIOUS
<1>0. \A d \in Users : Len(down[d]) \in Nat /\ LineLen \in Nat
  BY StreamTypes, LenProperties DEF EchoInv
<1>1. CASE UNCHANGED <<got, said>>
  BY <1>1 DEF Echo!vars
<1>2. ASSUME NEW c \in Users, NEW p, NEW then, Writes(c, p, then) PROVE Echo!Next
  BY <1>2, WriteAsks DEF Echo!Next
<1>3. ASSUME NEW c \in Users, NEW p, NEW n \in Nat, Reads(c, p, n) PROVE Echo!Next
  <2>1. ASSUME NEW d \in Users PROVE Echoed(d)'
    BY EchoInvStep DEF EchoInv
  <2> QED
    BY <1>3, <2>1, ReadAnswers DEF Echo!Next
<1>4. CASE EchoServerRuns \/ AcceptError
  <2>1. ASSUME NEW x, NEW n, EchoPart(x, n) PROVE UNCHANGED <<got, said>>
    BY <2>1 DEF EchoPart
  <2>2. UNCHANGED <<got, said>>
    BY <1>4, <2>1 DEF EchoServerRuns, AcceptError, TcpAccept, StdioAccept, NextClient, TcpServe,
       StdioServe, TcpHangUp, StdioHangUp, HangsUp, EpollWait, SelectWait, Waits, EpollAccept,
       SelectAccept, EpollRead, SelectRead, TakeClient, ServeOne, DropClient, streams
  <2> QED
    BY <1>1, <2>2
<1>5. ASSUME NEW c \in Users, ClientActs(c) PROVE [Echo!Next]_(Echo!vars)
  BY <1>1, <1>2, <1>5 DEF ClientActs, EchoConnects, EchoWrites, EchoQuits, LinesConnects,
     LinesWrites, LinesQuits, SplitConnects, SplitWrites, SplitShutsDown, Connects, Becomes,
     streams
<1>6. ASSUME NEW c \in Users, ClientReads(c) PROVE [Echo!Next]_(Echo!vars)
  <2>1. CASE EchoReads(c)
    BY <1>0, <1>3, <2>1 DEF EchoReads
  <2>2. CASE LinesReads(c)
    BY <1>0, <1>3, <2>2 DEF LinesReads
  <2>3. CASE SplitReads(c)
    BY <1>0, <1>1, <1>3, <2>3 DEF SplitReads, Becomes, streams
  <2> QED
    BY <1>6, <2>1, <2>2, <2>3 DEF ClientReads
<1>7. CASE UNCHANGED echovars
  BY <1>1, <1>7 DEF echovars, streams
<1> QED
  BY <1>4, <1>5, <1>6, <1>7 DEF EchoNext

(* ServesEcho: each of the four servers, with clients of the three          *)
(* programs, implements the service that promises each client a first part  *)
(* of what it said, growing and never ahead of the question.                *)
THEOREM TcpServesEcho == EchoSpec => ServesEcho
<1>1. EchoInit => Echo!Init
  <2> SUFFICES ASSUME EchoInit PROVE Echo!Init
    OBVIOUS
  <2>1. ASSUME NEW c \in Users
        PROVE  Own(c, said[c] * LineLen) = <<>> /\ FirstOf(got[c], said[c] * LineLen) = <<>>
    <3>1. said[c] = 0 /\ got[c] = <<>>
      BY DEF EchoInit, Each
    <3>2. 0 * LineLen = 0
      BY EchoAssumption
    <3>3. <<>> \in Seq(Byte) /\ Len(<<>>) <= 0 /\ 0 \in Nat
      OBVIOUS
    <3>4. FirstOf(<<>>, 0) = <<>>
      BY <3>3, FirstBytes, Zenon
    <3>5. Own(c, 0) = <<>>
      BY DEF Own
    <3> QED
      BY <3>1, <3>2, <3>4, <3>5
  <2> QED
    BY <2>1 DEF Echo!Init
<1> QED
  BY <1>1, EchoServiceStep, EchoInvAlways, PTL DEF EchoSpec, ServesEcho, Echo!Spec
=============================================================================
