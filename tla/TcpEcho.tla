------------------------------ MODULE TcpEcho ------------------------------
(***************************************************************************)
(* Four echo servers, each one process with one thread:                     *)
(*   "tcp"    TCP_prictise/echo_server.cpp    one client after the other    *)
(*   "stdio"  std_IO/echo_stdIO_server.cpp    the same, by lines            *)
(*   "epoll"  epoll/echo_epollserv.cpp        "select" multi-plexing/select *)
(* and the programs that talk to them:                                      *)
(*   "echo"   TCP_prictise/echo_client.cpp    a line, then its answer       *)
(*   "lines"  std_IO/echo_stdIO_client.cpp    the same, by lines            *)
(*   "split"  Processes/splitIO_client.cpp    one process reads, one writes *)
(*                                                                          *)
(* A line is LineLen bytes, the last a newline; byte n of client c is       *)
(* <<c, n>>.  External: the users type lines and q; a connection is two     *)
(* streams, a read returns any non-empty part of what has arrived; a write  *)
(* to a side that has closed is lost, or ends the writer by SIGPIPE; accept *)
(* takes the lowest free descriptor, or fails.  The -1 of a read from a     *)
(* connection that was reset is taken for data, sent without effect (-1     *)
(* bytes), and followed by the end of the stream.                           *)
(***************************************************************************)
EXTENDS Integers, Sequences, FiniteSets

CONSTANTS
  Users, Nobody,     \* the clients; a descriptor that is not open
  LineLen,
  MaxLines,          \* bound on the lines of a client
  MaxServed          \* clients the "tcp" and "stdio" servers serve (5)

ASSUME EchoAssumption ==
  /\ IsFiniteSet(Users) /\ Nobody \notin Users
  /\ LineLen \in Nat \ {0} /\ MaxLines \in Nat /\ MaxServed \in Nat \ {0}

Listener == 0
Fds == 1 .. Cardinality(Users)

VARIABLES
  style, program,    \* which server, and which program each client is
  spc, alive,        \* the server: "accept", "serve"; "wait", "dispatch"
  clnt_sock, served, message,  \* "tcp", "stdio": client, number of clients, buffer
  ready, watched, fds, fd_max, \* "epoll", "select": reported descriptors, watched
                               \* ones, descriptor -> client, select's bound
  conn,              \* connections: "away", "queued", "in", "shut" by the server
  cpc,               \* clients: "types", "awaits", "half", "closed"
  said, up, down, got          \* lines written, bytes on the way, bytes read

loop == <<clnt_sock, served, message>>
poll == <<ready, watched, fds, fd_max>>
streams == <<said, up, down, got>>
echovars == <<style, program, spc, alive, loop, poll, conn, cpc, streams>>

At(f, x, v) == [f EXCEPT ![x] = v]
Each(v) == [c \in Users |-> v]
Line(c, n) == [i \in 1 .. LineLen |-> <<c, (n - 1) * LineLen + i>>]
Garbage == [i \in 1 .. LineLen |-> <<Nobody, i>>]
Drop(s, n) == SubSeq(s, n + 1, Len(s))

(* What the main functions have set up when their loops begin.              *)
TcpSetUp == style = "tcp" /\ spc = "accept" /\ watched = {} /\ message = <<>>
StdioSetUp ==
  style = "stdio" /\ spc = "accept" /\ watched = {} /\ message \in {<<>>, Garbage}
EpollSetUp == style = "epoll" /\ spc = "wait" /\ watched = {Listener} /\ message = <<>>
SelectSetUp == style = "select" /\ spc = "wait" /\ watched = {Listener} /\ message = <<>>

EchoInit ==
  /\ TcpSetUp \/ StdioSetUp \/ EpollSetUp \/ SelectSetUp
  /\ program \in [Users -> {"echo", "lines", "split"}]
  /\ alive = TRUE /\ clnt_sock = Nobody /\ served = 0
  /\ ready = {} /\ fds = [f \in Fds |-> Nobody] /\ fd_max = Listener
  /\ conn = Each("away") /\ cpc = Each("types")
  /\ said = Each(0) /\ up = Each(<<>>) /\ down = Each(<<>>) /\ got = Each(<<>>)
-----------------------------------------------------------------------------
(* Reading and writing on the server's side.                                *)

Ended(c) == up[c] = <<>> /\ cpc[c] \in {"half", "closed"}

Send(c, bytes) ==
  IF cpc[c] = "closed" THEN alive' \in BOOLEAN /\ UNCHANGED down
  ELSE down' = At(down, c, down[c] \o bytes) /\ UNCHANGED alive

EchoPartTwice(c, n) ==   \* mutant of EchoPart: the last byte read stays for the next read
  /\ up' = At(up, c, Drop(up[c], IF n > 1 THEN n - 1 ELSE n))
  /\ Send(c, SubSeq(up[c], 1, n))
  /\ UNCHANGED <<style, program, cpc, said, got>>

EchoPart(c, n) ==
  /\ up' = At(up, c, Drop(up[c], n))
  /\ Send(c, SubSeq(up[c], 1, n))
  /\ UNCHANGED <<style, program, cpc, said, got>>

(* One client after the other.                                              *)
NextClient(s) ==
  \E c \in Users :
    /\ style = s /\ alive /\ spc = "accept" /\ spc' = "serve"
    /\ conn[c] = "queued" /\ conn' = At(conn, c, "in")
    /\ clnt_sock' = c /\ served' = served + 1
    /\ UNCHANGED <<style, program, alive, message, poll, cpc, streams>>

(* A failed accept ends the program.                                        *)
AcceptError ==
  /\ alive /\ spc = "accept" /\ alive' = FALSE
  /\ UNCHANGED <<style, program, spc, loop, poll, conn, cpc, streams>>

HangsUp(s) ==
  /\ style = s /\ alive /\ spc = "serve" /\ Ended(clnt_sock) /\ spc' = "accept"
  /\ conn' = At(conn, clnt_sock, "shut")
  /\ UNCHANGED <<style, program, loop, poll, cpc, said, up, got>>

TcpAccept == NextClient("tcp")
TcpServe ==
  /\ style = "tcp" /\ alive /\ spc = "serve"
  /\ \E n \in 1 .. Len(up[clnt_sock]) : EchoPart(clnt_sock, n)
  /\ UNCHANGED <<spc, loop, poll, conn>>
TcpHangUp == HangsUp("tcp") /\ alive' = (served < MaxServed) /\ UNCHANGED down

StdioAccept == NextClient("stdio")
StdioServe ==
  /\ style = "stdio" /\ alive /\ spc = "serve" /\ Len(up[clnt_sock]) >= LineLen
  /\ message' = SubSeq(up[clnt_sock], 1, LineLen)
  /\ EchoPart(clnt_sock, LineLen)
  /\ UNCHANGED <<spc, clnt_sock, served, poll, conn>>

(* The end of the stream is noticed after fgets has failed, and what is     *)
(* still in message is sent once more, whoever it came from.                *)
StdioHangUp ==
  /\ HangsUp("stdio")
  /\ IF cpc[clnt_sock] = "closed" THEN UNCHANGED down
     ELSE down' = At(down, clnt_sock, down[clnt_sock] \o message)
  /\ alive' \in {served < MaxServed} \cup IF cpc[clnt_sock] = "closed" THEN {FALSE} ELSE {}

(* The two event loops.  select's timeout only begins the wait again.       *)
Readable(f) ==
  IF f = Listener THEN \E c \in Users : conn[c] = "queued"
  ELSE fds[f] # Nobody /\ (up[fds[f]] # <<>> \/ Ended(fds[f]))

Waits(s, S) ==
  /\ style = s /\ alive /\ spc = "wait" /\ spc' = "dispatch"
  /\ ready' = {f \in S : Readable(f)} /\ ready' # {}
  /\ UNCHANGED <<style, program, alive, loop, watched, fds, fd_max, conn, cpc, streams>>

Lowest(S) == {f \in S : \A g \in S : f <= g}
Turn(s, f) ==
  /\ style = s /\ alive /\ spc = "dispatch"
  /\ ready' = ready \ {f} /\ spc' = IF ready' = {} THEN "wait" ELSE "dispatch"
  /\ UNCHANGED <<style, program, loop>>

TakeClient(c, f) ==
  /\ conn[c] = "queued" /\ f \in Lowest({g \in Fds : fds[g] = Nobody})
  /\ conn' = At(conn, c, "in") /\ fds' = At(fds, f, c) /\ watched' = watched \cup {f}
  /\ UNCHANGED <<alive, cpc, streams>>

ServeOne(f) ==
  /\ \E n \in 1 .. Len(up[fds[f]]) : EchoPart(fds[f], n)
  /\ UNCHANGED <<watched, fds, fd_max, conn>>

DropUnwatched(f) ==   \* mutant of DropClient: the descriptor is not removed from the set
  /\ Ended(fds[f])
  /\ fds' = At(fds, f, Nobody) /\ conn' = At(conn, fds[f], "shut")
  /\ UNCHANGED <<watched, fd_max, alive, cpc, streams>>

DropClient(f) ==
  /\ Ended(fds[f])
  /\ watched' = watched \ {f} /\ fds' = At(fds, f, Nobody)
  /\ conn' = At(conn, fds[f], "shut")
  /\ UNCHANGED <<fd_max, alive, cpc, streams>>

EpollWait == Waits("epoll", watched)
EpollAccept ==
  /\ Listener \in ready /\ Turn("epoll", Listener)
  /\ \/ \E c \in Users, f \in Fds : TakeClient(c, f) /\ UNCHANGED fd_max
     \/ UNCHANGED <<watched, fds, fd_max, conn, alive, cpc, streams>>
EpollRead ==
  \E f \in ready \ {Listener} : Turn("epoll", f) /\ (ServeOne(f) \/ DropClient(f))

SelectWaitAll ==   \* mutant of SelectWait: reads is tested, not the copy select changes
  /\ style = "select" /\ alive /\ spc = "wait" /\ spc' = "dispatch"
  /\ \E f \in watched : f <= fd_max /\ Readable(f)
  /\ ready' = {f \in watched : f <= fd_max}
  /\ UNCHANGED <<style, program, alive, loop, watched, fds, fd_max, conn, cpc, streams>>

SelectWaitFdMax ==   \* mutant of SelectWait: the numbers below fd_max only
  Waits("select", {f \in watched : f < fd_max \/ f = Listener})

(* fd_max may grow during the scan, the copy that is scanned does not.      *)
(* If accept fails, FD_SET(-1) is undefined: it sets a bit far above fd_max *)
(* or ends the program.                                                     *)
SelectWait == Waits("select", {f \in watched : f <= fd_max})
SelectAccept ==
  /\ Listener \in ready /\ Turn("select", Listener)
  /\ \/ \E c \in Users, f \in Fds :
          TakeClient(c, f) /\ fd_max' = IF fd_max < f THEN f ELSE fd_max
     \/ alive' \in BOOLEAN /\ UNCHANGED <<watched, fds, fd_max, conn, cpc, streams>>
SelectRead ==
  \E f \in Lowest(ready) \ {Listener} : Turn("select", f) /\ (ServeOne(f) \/ DropClient(f))

EchoServerRuns ==
  \/ TcpAccept \/ TcpServe \/ TcpHangUp \/ StdioAccept \/ StdioServe \/ StdioHangUp
  \/ EpollWait \/ EpollAccept \/ EpollRead \/ SelectWait \/ SelectAccept \/ SelectRead
-----------------------------------------------------------------------------
(* The clients.                                                             *)

Shut(c) == conn[c] = "shut" \/ ~alive
server == <<style, program, spc, alive, loop, poll>>

Connects(c, p) ==
  /\ program[c] = p /\ alive /\ conn[c] = "away" /\ conn' = At(conn, c, "queued")
  /\ UNCHANGED <<server, cpc, streams>>

Writes(c, p, then) ==
  /\ program[c] = p /\ cpc[c] = "types" /\ conn[c] # "away" /\ said[c] < MaxLines
  /\ said' = At(said, c, said[c] + 1)
  /\ up' = At(up, c, up[c] \o Line(c, said[c] + 1))
  /\ cpc' \in {At(cpc, c, then)} \cup IF Shut(c) THEN {At(cpc, c, "closed")} ELSE {}
  /\ UNCHANGED <<server, conn, down, got>>

Reads(c, p, n) ==
  /\ program[c] = p /\ n <= Len(down[c])
  /\ got' = At(got, c, got[c] \o SubSeq(down[c], 1, n))
  /\ down' = At(down, c, Drop(down[c], n))
  /\ UNCHANGED <<server, conn, said, up>>

Becomes(c, p, from, to) ==
  /\ program[c] = p /\ conn[c] # "away" /\ cpc[c] = from /\ cpc' = At(cpc, c, to)
  /\ UNCHANGED <<server, conn, streams>>

(* Lines 69 to 82: until all bytes are back; after a 0 for ever.            *)
EchoConnects(c) == Connects(c, "echo")
EchoWrites(c) == Writes(c, "echo", "awaits")
EchoReads(c) ==
  /\ cpc[c] = "awaits"
  /\ \E n \in 1 .. Len(down[c]) : Reads(c, "echo", n)
  /\ cpc' = IF Len(got'[c]) < said[c] * LineLen THEN cpc ELSE At(cpc, c, "types")
EchoQuits(c) == Becomes(c, "echo", "types", "closed")

(* At the end of the stream fgets takes what there is.  If that is nothing, *)
(* the line typed is still in message and is printed as the answer.         *)
LinesConnects(c) == Connects(c, "lines")
LinesWrites(c) == Writes(c, "lines", "awaits")
LinesReads(c) ==
  /\ cpc[c] = "awaits" /\ cpc' = At(cpc, c, "types")
  /\ \/ Reads(c, "lines", LineLen)
     \/ Shut(c) /\ Len(down[c]) < LineLen /\ Reads(c, "lines", Len(down[c]))
LinesQuits(c) == Becomes(c, "lines", "types", "closed")

SplitConnects(c) == Connects(c, "split")
SplitWrites(c) == Writes(c, "split", "types")
SplitShutsDown(c) == Becomes(c, "split", "types", "half")
SplitReads(c) ==
  \/ /\ cpc[c] \in {"types", "half"}
     /\ \E n \in 1 .. Len(down[c]) : Reads(c, "split", n)
     /\ UNCHANGED cpc
  \/ /\ Shut(c) /\ down[c] = <<>>
     /\ Becomes(c, "split", "half", "closed") \/ Becomes(c, "split", "types", "closed")

ClientReads(c) == EchoReads(c) \/ LinesReads(c) \/ SplitReads(c)
ClientActs(c) ==
  \/ EchoConnects(c) \/ EchoWrites(c) \/ EchoQuits(c)
  \/ LinesConnects(c) \/ LinesWrites(c) \/ LinesQuits(c)
  \/ SplitConnects(c) \/ SplitWrites(c) \/ SplitShutsDown(c)

EchoNext ==
  \/ EchoServerRuns \/ AcceptError
  \/ \E c \in Users : ClientActs(c) \/ ClientReads(c)

(* The server runs on, and clients read what is there for them.             *)
EchoFairness == WF_echovars(EchoServerRuns) /\ \A c \in Users : WF_echovars(ClientReads(c))
EchoSpec == EchoInit /\ [][EchoNext]_echovars /\ EchoFairness
-----------------------------------------------------------------------------
(* Properties.                                                              *)

EchoTypeOK ==
  /\ style \in {"tcp", "stdio", "epoll", "select"} /\ alive \in BOOLEAN
  /\ program \in [Users -> {"echo", "lines", "split"}]
  /\ spc \in {"accept", "serve", "wait", "dispatch"}
  /\ clnt_sock \in Users \cup {Nobody} /\ served \in 0 .. MaxServed
  /\ ready \subseteq watched /\ watched \subseteq {Listener} \cup Fds
  /\ fds \in [Fds -> Users \cup {Nobody}] /\ fd_max \in {Listener} \cup Fds
  /\ conn \in [Users -> {"away", "queued", "in", "shut"}]
  /\ cpc \in [Users -> {"types", "awaits", "half", "closed"}]
  /\ said \in [Users -> 0 .. MaxLines]

(* Whatever a client is sent is what it said, in order and once.  The stdio *)
(* server adds one line of its buffer when it hangs up (lines 71 to 77).    *)
EchoIsOwn ==
  \A c \in Users :
    LET s == got[c] \o down[c]
    IN  /\ \A i \in 1 .. Len(s) : i <= said[c] * LineLen => s[i] = <<c, i>>
        /\ Len(s) <= said[c] * LineLen
                     + IF style = "stdio" /\ conn[c] = "shut" THEN LineLen ELSE 0

(* The four servers are echo services, each byte an answer of its own; the  *)
(* line the stdio server adds is left out.  Bytes come back in the order in *)
(* which they were said, to the client that said them, and never before.    *)
Own(c, n) == [i \in 1 .. n |-> <<c, i>>]
FirstOf(s, n) == SubSeq(s, 1, IF Len(s) < n THEN Len(s) ELSE n)
Echo == INSTANCE EchoService WITH
          Clients <- Users,
          asked <- [c \in Users |-> Own(c, said[c] * LineLen)],
          answered <- [c \in Users |-> FirstOf(got[c], said[c] * LineLen)]
ServesEcho == Echo!Spec

(* The event loops never block in accept or read: whatever was handled      *)
(* before it in the list, a reported descriptor still has something to read.*)
EventsNeverBlock == \A f \in ready : Readable(f)

(* The descriptors watched are the open ones, and within select's bound.    *)
WatchedAreOpen ==
  style \in {"epoll", "select"} =>
    /\ watched = {Listener} \cup {f \in Fds : fds[f] # Nobody}
    /\ style = "select" => \A f \in watched : f <= fd_max

(* A client the server has accepted gets its answer, and one that has shut  *)
(* its direction down ends: the last bytes arrive and then the end of the   *)
(* stream (splitIO_client.cpp:73-79, 94), unless the server dies.           *)
AcceptedAreServed ==
  \A c \in Users :
    (conn[c] = "in" /\ cpc[c] \in {"awaits", "half"})
      ~> (~alive \/ cpc[c] \in {"types", "closed"})
=============================================================================
