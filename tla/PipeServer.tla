----------------------------- MODULE PipeServer -----------------------------
(***************************************************************************)
(* Processes/pipesavemsg_server.cpp: the forking echo server with one child *)
(* more, forked first, that saves what the others write to a pipe.  The     *)
(* rest of the program is that of concurrent_server.cpp, and with saving    *)
(* FALSE this is that program.                                              *)
(*                                                                          *)
(* Nobody closes either end of the pipe, so it never ends: once the saver   *)
(* has gone, the pipe fills and a write to it blocks.                       *)
(*                                                                          *)
(* External: a read of the pipe returns one or more of the messages in it.  *)
(***************************************************************************)
EXTENDS ForkServer

CONSTANTS
  Saver,             \* the first child; not forked for a client
  MaxReads,          \* reads the saver does (10)
  Capacity           \* messages the pipe takes

ASSUME PipeAssumption ==
  Saver \in Kids /\ MaxReads \in Nat \ {0} /\ Capacity \in Nat \ {0}

VARIABLES
  saving,            \* which of the two programs
  spc, reads, saved, \* the saver: "unforked", "reads", "gone"; reads done; its file
  pipe,              \* <<child, message>> in the pipe
  owes               \* children between write(clnt_sock) and write(fds[1])

saver == <<spc, reads, saved>>
allvars == <<vars, saving, saver, pipe, owes>>

PipeInit ==
  /\ Init /\ saving \in BOOLEAN
  /\ spc = IF saving THEN "unforked" ELSE "gone"
  /\ reads = 0 /\ saved = <<>> /\ pipe = <<>> /\ owes = {}

(* The saver inherits serv_sock and keeps it: it runs none of the code of   *)
(* the clients' children.                                                   *)
ForkSaver ==
  /\ spc = "unforked" /\ spc' = "reads"
  /\ Forks(Saver)
  /\ holds' = [holds EXCEPT ![Saver] = holds[Server]]
  /\ UNCHANGED <<server, child, talk, saving, reads, saved, pipe, owes>>

(* pid is -1, which is not 0: the server goes on without a saver.           *)
ForkSaverFails ==
  /\ spc = "unforked" /\ spc' = "gone"
  /\ UNCHANGED <<vars, saving, reads, saved, pipe, owes>>

SaverOverwrites ==   \* mutant of SaverReads: the file holds the last read only
  /\ kid[Saver] = "running" /\ spc = "reads" /\ reads < MaxReads
  /\ \E n \in 1 .. Len(pipe) :
       saved' = SubSeq(pipe, 1, n) /\ pipe' = SubSeq(pipe, n + 1, Len(pipe))
  /\ reads' = reads + 1
  /\ UNCHANGED <<vars, saving, spc, owes>>

SaverReads ==
  /\ kid[Saver] = "running" /\ spc = "reads" /\ reads < MaxReads
  /\ \E n \in 1 .. Len(pipe) :
       saved' = saved \o SubSeq(pipe, 1, n) /\ pipe' = SubSeq(pipe, n + 1, Len(pipe))
  /\ reads' = reads + 1
  /\ UNCHANGED <<vars, saving, spc, owes>>

SaverExits ==
  /\ spc = "reads" /\ reads = MaxReads /\ spc' = "gone"
  /\ Exits(Saver)
  /\ holds' = [holds EXCEPT ![Saver] = {}]
  /\ UNCHANGED <<server, child, talk, saving, reads, saved, pipe, owes>>

OtherChildStep(k) ==
  CloseListener(k) \/ Read(k) \/ ReadEnd(k) \/ WriteKills(k) \/ HangUpChild(k) \/ Exit(k)

(* The loop of a child writes to the pipe after it has written to the       *)
(* client.                                                                  *)
ClientChild(k) ==
  /\ k # Saver /\ k \notin owes
  /\ \/ Write(k) /\ owes' = IF saving THEN owes \cup {k} ELSE owes
     \/ OtherChildStep(k) /\ UNCHANGED owes
  /\ UNCHANGED <<saving, saver, pipe>>

WritesToSaver(k) ==   \* mutant of WritesPipe: it is done for a saver only
  /\ kid[k] = "running" /\ k \in owes /\ Len(pipe) < Capacity /\ spc = "reads"
  /\ pipe' = Append(pipe, <<k, message[k]>>) /\ owes' = owes \ {k}
  /\ UNCHANGED <<vars, saving, saver>>

WritesPipe(k) ==
  /\ kid[k] = "running" /\ k \in owes /\ Len(pipe) < Capacity
  /\ pipe' = Append(pipe, <<k, message[k]>>) /\ owes' = owes \ {k}
  /\ UNCHANGED <<vars, saving, saver>>
-----------------------------------------------------------------------------
PipeServerRuns ==
  /\ spc # "unforked" /\ ServerRuns
  /\ UNCHANGED <<saving, saver, pipe, owes>>
PipeHandler == Handler /\ UNCHANGED <<saving, saver, pipe, owes>>
PipeJobControl == JobControl /\ UNCHANGED <<saving, saver, pipe, owes>>
PipeChildRuns(k) == ClientChild(k) \/ WritesPipe(k)
SaverRuns == SaverReads \/ SaverExits

PipeNext ==
  \/ ForkSaver \/ ForkSaverFails \/ PipeServerRuns \/ PipeHandler \/ PipeJobControl
  \/ SaverRuns
  \/ \E k \in Kids : PipeChildRuns(k)
  \/ /\ \E c \in Clients \ {Saver} : Connect(c) \/ Say(c) \/ HangUp(c)
     /\ UNCHANGED <<saving, saver, pipe, owes>>

PipeSpec == PipeInit /\ [][PipeNext]_allvars

(* The server, its handler and every child run on unless stopped; clients   *)
(* may fall silent, and nobody need continue a stopped child.               *)
PipeFairSpec ==
  /\ PipeSpec
  /\ WF_allvars(ForkSaver \/ PipeServerRuns) /\ WF_allvars(PipeHandler)
  /\ WF_allvars(SaverRuns)
  /\ \A k \in Kids : WF_allvars(PipeChildRuns(k))
-----------------------------------------------------------------------------
(* Properties.                                                              *)

PipeTypeOK ==
  /\ TypeOK
  /\ saving \in BOOLEAN /\ spc \in {"unforked", "reads", "gone"} /\ reads \in 0 .. MaxReads
  /\ saved \in Seq(Kids \X (1 .. MaxMsgs)) /\ pipe \in Seq(Kids \X (1 .. MaxMsgs))
  /\ Len(pipe) <= Capacity /\ owes \subseteq Kids

(* All that was written to the pipe, and where in it child k's messages are *)
(* among the first n.                                                       *)
Written == saved \o pipe
Places(k, n) == {i \in 1 .. n : Written[i][1] = k}
Count(k) == Cardinality(Places(k, Len(Written)))
Owed(k) == IF k \in owes THEN 1 ELSE 0

(* The file and the pipe hold each client's messages in order with none     *)
(* missing, and all that was echoed, whichever children write when: the     *)
(* n-th message of a child is numbered n, and at most the message a child   *)
(* still owes is not there yet.                                             *)
FileHasAllEchoes ==
  /\ \A i \in 1 .. Len(Written) : Written[i][2] = Cardinality(Places(Written[i][1], i))
  /\ saving => \A k \in Kids : Len(got[k]) <= Count(k) + Owed(k)

(* The children of the clients and the server keep to OnlyOwnSockets.  The  *)
(* saver, which closes nothing (lines 83 to 98), has the listener as long   *)
(* as it lives, but never a client's socket: it cannot keep a connection    *)
(* open.  Without a saver this is OnlyOwnSockets.                           *)
OnlySaverKeepsListener ==
  /\ \A k \in Kids \ {Saver} : OwnSockets(k)
  /\ holds[Saver] = IF spc = "reads" THEN {Listener} ELSE {}
  /\ ppc = "accept" => holds[Server] = {Listener}

(* Nothing but a full pipe that no saver empties, or being stopped itself,  *)
(* keeps a child from reading what its client sent (lines 89 and 123).      *)
Stopped(k) == kid[k] = "stopped"
Stuck == saving /\ Len(pipe) = Capacity /\ (spc = "gone" \/ Stopped(Saver))
Unheld(c) == \A p \in Procs : c \notin holds[p]
EveryMessageIsRead ==
  \A c \in Clients \ {Saver} :
    (unread[c] # <<>>) ~> (unread[c] = <<>> \/ Unheld(c) \/ Stuck \/ Stopped(c))

(* A client that hangs up has its socket destroyed, unless its child is     *)
(* stuck or stopped: both descriptors of it, the child's and the server's,  *)
(* are closed in the end.                                                   *)
SocketDestroyed ==
  \A c \in Clients \ {Saver} : (client[c] = "gone") ~> (Unheld(c) \/ Stuck \/ Stopped(c))
=============================================================================
