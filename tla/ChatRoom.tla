------------------------------ MODULE ChatRoom ------------------------------
(***************************************************************************)
(* TCPIP_programing/thread/chat_clnt.cpp at the other end of ChatServer:    *)
(* each client is the program with its sending and its receiving thread,    *)
(* which share the socket.                                                  *)
(*                                                                          *)
(* External: the user types lines and, once the client has been accepted,   *)
(* may type q.  A read in progress keeps a connection alive after close, on *)
(* either side, so the other side sees the end only when that read has      *)
(* returned.  A write to a connection the server has closed is lost, or     *)
(* ends the client by SIGPIPE.                                              *)
(***************************************************************************)
EXTENDS ChatServer

VARIABLES
  snd, rcv,          \* the threads: "none", then "types" or "calls", "reads"; "done"
  shown              \* messages of the inbox that were printed

threads == <<snd, rcv, shown>>
roomvars == <<vars, threads>>

Set(f, c, v) == [f EXCEPT ![c] = v]
All(v) == [c \in Clients |-> v]

RoomInit == Init /\ snd = All("none") /\ rcv = All("none") /\ shown = All(0)

(* The server has closed its descriptor and no thread of it reads from c.   *)
ServerLeft(c) ==
  cpc[c] = "in" /\ (\A f \in Fds : fds[f] # c) /\ (\A h \in Handlers : hconn[h] # c)

Starts(c) ==
  /\ Connect(c)
  /\ snd' = Set(snd, c, "types") /\ rcv' = Set(rcv, c, "calls") /\ UNCHANGED shown

Types(c) == snd[c] = "types" /\ Say(c) /\ UNCHANGED threads

Killed(c) ==
  /\ snd[c] = "types" /\ ServerLeft(c)
  /\ HangUp(c)
  /\ snd' = Set(snd, c, "done") /\ rcv' = Set(rcv, c, "done") /\ UNCHANGED shown

(* close by the sending thread.  The connection ends with it unless the     *)
(* other thread is in read.                                                 *)
Quits(c) ==
  /\ snd[c] = "types" /\ cpc[c] = "in"
  /\ snd' = Set(snd, c, "done")
  /\ IF rcv[c] = "reads" THEN UNCHANGED vars ELSE HangUp(c)
  /\ UNCHANGED <<rcv, shown>>

CallsRead(c) ==
  /\ rcv[c] = "calls" /\ snd[c] # "done"
  /\ rcv' = Set(rcv, c, "reads")
  /\ UNCHANGED <<vars, snd, shown>>

(* Mutant of ReadRefused: -1 is not looked at, read is called again.        *)
ReadRefusedIgnored(c) ==
  /\ rcv[c] = "calls" /\ snd[c] = "done"
  /\ UNCHANGED roomvars

(* read on the closed descriptor returns -1: the thread returns.            *)
ReadRefused(c) ==
  /\ rcv[c] = "calls" /\ snd[c] = "done"
  /\ rcv' = Set(rcv, c, "done")
  /\ UNCHANGED <<vars, snd, shown>>

ReturnsFromRead(c) ==
  /\ rcv[c] = "reads" /\ rcv' = Set(rcv, c, "calls")
  /\ IF snd[c] = "done" THEN HangUp(c) ELSE UNCHANGED vars
  /\ UNCHANGED snd

ShowsMsgs(c) ==
  /\ shown[c] < Len(inbox[c]) /\ shown' = Set(shown, c, Len(inbox[c]))
  /\ ReturnsFromRead(c)

(* read returns 0, which only ends a line: it is called again and again.    *)
ShowsNothing(c) ==
  /\ ServerLeft(c) /\ shown[c] = Len(inbox[c]) /\ UNCHANGED shown
  /\ ReturnsFromRead(c)

Receives(c) == CallsRead(c) \/ ReadRefused(c) \/ ShowsMsgs(c) \/ ShowsNothing(c)

RoomServer ==
  /\ MainRuns \/ AcceptFails \/ Register \/ \E h \in Handlers : HandlerLocks(h) \/ HandlerRuns(h)
  /\ UNCHANGED threads

RoomNext ==
  /\ up
  /\ \/ RoomServer
     \/ \E c \in Clients : Starts(c) \/ Types(c) \/ Killed(c) \/ Quits(c) \/ Receives(c)

(* The fairness of the server, and every receiving thread runs on.          *)
RoomSpec ==
  /\ RoomInit /\ [][RoomNext]_roomvars
  /\ Fairness
  /\ \A c \in Clients : WF_roomvars(up /\ Receives(c))
-----------------------------------------------------------------------------
(* Properties.                                                              *)

(* Lines 81 and 105: a connection ends when neither thread of its client    *)
(* uses the socket any more, not before and not later, although one thread  *)
(* closes it while the other may be in read.                                *)
ClosedWhenUnused ==
  \A c \in Clients : cpc[c] = "closed" <=> snd[c] = "done" /\ rcv[c] # "reads"

(* Line 105: after q the program ends (the join at 63 returns) if anything  *)
(* arrives for it or the server closes; it may hang for ever otherwise.     *)
Ended(c) == snd[c] = "done" /\ rcv[c] = "done"
QuitterEndsWhenSpokenTo ==
  \A c \in Clients :
    (snd[c] = "done" /\ (shown[c] < Len(inbox[c]) \/ ServerLeft(c))) ~> (Ended(c) \/ ~up)
=============================================================================
