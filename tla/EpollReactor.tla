---------------------------- MODULE EpollReactor ----------------------------
(***************************************************************************)
(* TCPIP_programing/epoll_reactor/epoll_ET.cpp: one thread, a table of      *)
(* events with a callback each, epoll, and a scan for idle connections.     *)
(* The file is read with the least repairs that make it compile: len is a   *)
(* local of recvdata, accpetconn is acceptconn, send takes ev->buf.         *)
(*                                                                          *)
(* External: clients connect, talk and hang up; accept, fcntl and           *)
(* EPOLL_CTL_ADD may fail, EPOLL_CTL_DEL of what is registered does not;    *)
(* the clock is the wall clock.  epoll reports a registered descriptor that *)
(* is ready until it is closed; closing a descriptor ends its registration. *)
(* What lies behind the table reads as unused entries, or faults.           *)
(***************************************************************************)
EXTENDS Integers, FiniteSets

CONSTANTS
  Clients, None,     \* each connects at most once
  MaxEvents,         \* entries for connections; one more is the listener's
  Batch,             \* entries looked at in one scan (100)
  Timeout,           \* idle time after which the scan closes (60)
  MaxTime            \* bound on the clock

ASSUME ReactorAssumption ==
  /\ IsFiniteSet(Clients) /\ None \notin Clients \cup {0} /\ 0 \notin Clients
  /\ MaxEvents \in Nat \ {0} /\ Batch \in Nat \ {0}
  /\ Timeout \in Nat /\ MaxTime \in Nat

Entries == 0 .. MaxEvents
Fds == 0 .. Cardinality(Clients)   \* the lowest free one always exists
Listener == 0                      \* the listener, and its descriptor
myevent_s ==
  [fd : Fds, events : SUBSET {"IN", "OUT"}, status : {0, 1}, len : {0, 1},
   call_back : {"none", "acceptconn", "recvdata", "senddata"}, last_active : 0 .. MaxTime]
Registrations == [ptr : Entries, mask : SUBSET {"IN", "OUT"}]

ASSUME NoneAssumption == None \notin Registrations

VARIABLES
  pc,                \* "scan", "wait", "dispatch", "crashed"
  g_events,          \* the table
  events,            \* what epoll_wait returned and is not handled yet
  checkpos, now,     \* scan index, clock
  fds,               \* descriptor -> client, Listener or None
  interest,          \* descriptor -> its registration in g_efd, or None
  lost,              \* history: connections a failure left open and unwatched
  client, unread, answered  \* "away", "queued", "in", "gone"; has sent what the
                            \* server has not read; clients that got an answer

server == <<pc, events, checkpos>>
table == <<g_events, fds, interest, lost>>
world == <<client, unread, answered>>
vars == <<server, table, now, world>>

eventsetKeeping(fd, call_back) ==   \* mutant of eventset: len is kept
  [fd |-> fd, events |-> {}, call_back |-> call_back, status |-> 0, len |-> 1,
   last_active |-> now]

eventsetDeadline(fd, call_back) ==   \* mutant of eventset: the time it runs out
  [fd |-> fd, events |-> {}, call_back |-> call_back, status |-> 0, len |-> 0,
   last_active |-> now + Timeout]

eventset(fd, call_back) ==
  [fd |-> fd, events |-> {}, call_back |-> call_back, status |-> 0, len |-> 0,
   last_active |-> now]

eventaddBoth(evs, ev) ==   \* mutant of eventadd: registered for in and out
  [ev EXCEPT !.events = {"IN", "OUT"}, !.status = 1]

(* status is 0 after eventset, so op is EPOLL_CTL_ADD, never uninitialised. *)
eventadd(evs, ev) == [ev EXCEPT !.events = evs, !.status = 1]

eventdel(ev) == [ev EXCEPT !.status = 0]

Registration(i, ev) == [ptr |-> i, mask |-> ev.events]

(* eventset, then eventadd, on entry i.  If EPOLL_CTL_ADD fails (167 to     *)
(* 169), as it always does on a descriptor registered still, by reg, only   *)
(* the registration is missing: the entry looks as if all had gone well.    *)
Watch(i, fd, call_back, evs, reg) ==
  LET ev == eventadd(evs, eventset(fd, call_back))
  IN  /\ g_events' = [g_events EXCEPT ![i] = ev]
      /\ \/ /\ reg[fd] = None /\ interest' = [reg EXCEPT ![fd] = Registration(i, ev)]
            /\ UNCHANGED lost
         \/ /\ interest' = reg
            /\ lost' = IF reg[fd] = None THEN lost \cup {fd} ELSE lost

Unregistered(fd) == [interest EXCEPT ![fd] = None]

close(fd) ==
  /\ fds' = [fds EXCEPT ![fd] = None]
  /\ interest' = Unregistered(fd)

unused ==
  [fd |-> 0, events |-> {}, call_back |-> "none", status |-> 0, len |-> 0, last_active |-> 0]
listening ==
  [fd |-> Listener, events |-> {"IN"}, call_back |-> "acceptconn", status |-> 1, len |-> 0,
   last_active |-> 0]

Init ==
  /\ pc = "scan" /\ events = {} /\ checkpos = 0 /\ now = 0
  /\ g_events = [i \in Entries |-> IF i = MaxEvents THEN listening ELSE unused]
  /\ fds = [f \in Fds |-> IF f = Listener THEN Listener ELSE None]
  /\ \E reg \in {Registration(MaxEvents, listening), None} :
       interest = [f \in Fds |-> IF f = Listener THEN reg ELSE None]
  /\ lost = {}
  /\ client = [c \in Clients |-> "away"] /\ unread = [c \in Clients |-> FALSE]
  /\ answered = {}
-----------------------------------------------------------------------------
(* main.                                                                    *)

(* Lines 225 to 248: close, then eventdel, whose EPOLL_CTL_DEL then fails.  *)
(* checkpos == 0 at 229 sets nothing: the scan goes on behind the table.    *)
Idle(i) == g_events[i].status = 1 /\ now - g_events[i].last_active >= Timeout
IdleFds(P) == {g_events[i].fd : i \in P}

ScanThen(P) ==
  /\ pc = "scan"
  /\ checkpos' = IF checkpos + Batch > MaxEvents THEN MaxEvents + 1 ELSE checkpos + Batch
  /\ pc' \in IF checkpos + Batch > MaxEvents + 1 THEN {"wait", "crashed"} ELSE {"wait"}
  /\ g_events' = [i \in Entries |-> IF i \in P THEN eventdel(g_events[i]) ELSE g_events[i]]
  /\ interest' = [f \in Fds |-> IF f \in IdleFds(P) THEN None ELSE interest[f]]
  /\ UNCHANGED <<lost, events, now, world>>

Scan ==
  LET P == {i \in Entries : i \in checkpos .. checkpos + Batch - 1 /\ Idle(i)}
  IN  /\ ScanThen(P)
      /\ fds' = [f \in Fds |-> IF f \in IdleFds(P) THEN None ELSE fds[f]]

Arrived(f) ==
  IF fds[f] = Listener THEN \E c \in Clients : client[c] = "queued"
  ELSE unread[fds[f]] \/ client[fds[f]] = "gone"
Possible(f) == {"OUT"} \cup IF Arrived(f) THEN {"IN"} ELSE {}
Ready(f) == interest[f] # None /\ Possible(f) \cap interest[f].mask # {}

Wait ==
  /\ pc = "wait" /\ pc' = "dispatch"
  /\ events' = {[ptr |-> interest[f].ptr, mask |-> Possible(f) \cap interest[f].mask] :
                f \in {f \in Fds : Ready(f)}}
  /\ UNCHANGED <<checkpos, table, now, world>>

LoopEnds ==
  /\ pc = "dispatch" /\ events = {} /\ pc' = "scan"
  /\ UNCHANGED <<events, checkpos, table, now, world>>
-----------------------------------------------------------------------------
(* Callbacks: entry ev is at index i, its descriptor is a connection of c.  *)

UnusedAny == Entries \ {MaxEvents}   \* mutant of Unused: status is not looked at

UnusedLast ==   \* mutant of Unused: it is looked for from the end
  {i \in Entries \ {MaxEvents} :
     g_events[i].status = 0 /\ \A j \in i + 1 .. MaxEvents - 1 : g_events[j].status # 0}

Unused == {i \in Entries \ {MaxEvents} : g_events[i].status = 0}
Lowest(S) == {i \in S : \A j \in S : i <= j}
Free == {f \in Fds : fds[f] = None}

(* With no unused entry (132 to 137), or if fcntl fails (139 to 144), the   *)
(* new descriptor is neither watched nor closed.                            *)
acceptconn ==
  \E c \in Clients, f \in Lowest(Free) :
    /\ client[c] = "queued" /\ client' = [client EXCEPT ![c] = "in"]
    /\ fds' = [fds EXCEPT ![f] = c]
    /\ \/ \E i \in Lowest(Unused) : Watch(i, f, "recvdata", {"IN"}, interest)
       \/ lost' = lost \cup {f} /\ UNCHANGED <<g_events, interest>>
    /\ UNCHANGED <<unread, answered>>

acceptFails == UNCHANGED <<table, world>>

recvdataLeaves(i) ==   \* mutant of recvdata: at the end it does not close
  LET fd == g_events[i].fd
  IN  IF unread[fds[fd]]
      THEN /\ unread' = [unread EXCEPT ![fds[fd]] = FALSE]
           /\ Watch(i, fd, "senddata", {"OUT"}, Unregistered(fd))
           /\ UNCHANGED <<fds, client, answered>>
      ELSE /\ g_events' = [g_events EXCEPT ![i] = eventdel(@)]
           /\ interest' = Unregistered(fd)
           /\ UNCHANGED <<fds, lost, world>>

(* eventdel comes before the length is looked at; -1 is treated as 0 is.    *)
(* What 51 stores in len is cleared again by eventset.                      *)
recvdata(i) ==
  LET fd == g_events[i].fd
  IN  IF unread[fds[fd]]
      THEN /\ unread' = [unread EXCEPT ![fds[fd]] = FALSE]
           /\ Watch(i, fd, "senddata", {"OUT"}, Unregistered(fd))
           /\ UNCHANGED <<fds, client, answered>>
      ELSE /\ g_events' = [g_events EXCEPT ![i] = eventdel(@)]
           /\ close(fd)
           /\ UNCHANGED <<lost, world>>

senddataKeeps(i) ==   \* mutant of senddata: a failed send does not close
  UNCHANGED <<table, world>>

(* send of len bytes.  Without any, the descriptor is closed and the entry  *)
(* left as it is, status 1.                                                 *)
senddata(i) ==
  LET fd == g_events[i].fd
  IN  IF g_events[i].len > 0
      THEN /\ answered' = answered \cup {fds[fd]}
           /\ Watch(i, fd, "recvdata", {"IN"}, interest)
           /\ UNCHANGED <<fds, client, unread>>
      ELSE close(fd) /\ UNCHANGED <<g_events, lost, world>>

(* Lines 261 to 268, one of whose two tests passes for a mask.              *)
Dispatch(call_back) ==
  \E e \in events :
    /\ pc = "dispatch"
    /\ e.mask \cap g_events[e.ptr].events # {} /\ g_events[e.ptr].call_back = call_back
    /\ events' = events \ {e}
    /\ CASE call_back = "acceptconn" -> acceptconn \/ acceptFails
         [] call_back = "recvdata" -> recvdata(e.ptr)
         [] call_back = "senddata" -> senddata(e.ptr)
    /\ UNCHANGED <<pc, checkpos, now>>
-----------------------------------------------------------------------------
Connect(c) ==
  /\ client[c] = "away" /\ client' = [client EXCEPT ![c] = "queued"]
  /\ UNCHANGED <<server, table, now, unread, answered>>

Say(c) ==
  /\ client[c] \in {"queued", "in"} /\ unread' = [unread EXCEPT ![c] = TRUE]
  /\ UNCHANGED <<server, table, now, client, answered>>

HangUp(c) ==
  /\ client[c] = "in" /\ client' = [client EXCEPT ![c] = "gone"]
  /\ UNCHANGED <<server, table, now, unread, answered>>

Tick == now < MaxTime /\ now' = now + 1 /\ UNCHANGED <<server, table, world>>

CallBacks == \E cb \in {"acceptconn", "recvdata", "senddata"} : Dispatch(cb)
ServerRuns == Scan \/ Wait \/ LoopEnds \/ CallBacks

Next ==
  \/ ServerRuns \/ Tick
  \/ \E c \in Clients : Connect(c) \/ Say(c) \/ HangUp(c)

Spec == Init /\ [][Next]_vars
FairSpec == Spec /\ WF_vars(ServerRuns)   \* one thread, it runs on
-----------------------------------------------------------------------------
(* Properties.                                                              *)

TypeOK ==
  /\ pc \in {"scan", "wait", "dispatch", "crashed"}
  /\ checkpos \in 0 .. MaxEvents + 1 /\ now \in 0 .. MaxTime
  /\ g_events \in [Entries -> myevent_s]
  /\ events \subseteq Registrations /\ interest \in [Fds -> Registrations \cup {None}]
  /\ fds \in [Fds -> Clients \cup {Listener, None}] /\ lost \subseteq Fds
  /\ client \in [Clients -> {"away", "queued", "in", "gone"}]
  /\ unread \in [Clients -> BOOLEAN] /\ answered \in SUBSET Clients

(* What epoll holds is what the table says: a registration is of an open    *)
(* descriptor and points to an entry in use that names this descriptor and  *)
(* the events it waits for, although entries outlive their descriptors (84).*)
RegistrationsMatch ==
  \A f \in Fds : interest[f] # None =>
    LET ev == g_events[interest[f].ptr]
    IN  /\ fds[f] # None
        /\ ev.fd = f /\ ev.status = 1 /\ ev.events = interest[f].mask

(* Lines 257 to 269: a callback never spoils an event behind it in the      *)
(* list, nor does the scan: each is of a registration still in force, and   *)
(* the second test cannot find what the first callback has just set up.     *)
EventsStayFresh ==
  \A e \in events : \E f \in Fds :
    /\ interest[f] # None /\ interest[f].ptr = e.ptr
    /\ e.mask \subseteq interest[f].mask /\ Cardinality(e.mask) = 1

(* eventset clears the entry (98, 99) between receiving and sending, so no  *)
(* client is ever answered: the program echoes nothing.                     *)
NoAnswers == answered = {}

(* The connections open without being watched are those that a full table,  *)
(* fcntl or epoll_ctl failed on, at the accept or between a callback and    *)
(* the next (133, 141, 168).  No other way leaves one behind; and a         *)
(* descriptor once lost is neither watched again nor closed, by anybody.    *)
UnwatchedAreLost == {f \in Fds : fds[f] \in Clients /\ interest[f] = None} = lost

(* Lines 225 to 248 close no connection, however long it was idle: the scan *)
(* comes to each entry once, before the accepts, one in a turn and to the   *)
(* lowest entry, can have filled it, and 229 never sends it back.  The one  *)
(* descriptor it does close, when its turn comes, is the listener.          *)
ScanMissesConnections ==
  [][pc = "scan" => \A f \in Fds : fds[f] \in Clients => fds'[f] = fds[f]]_vars

(* A client that speaks on a watched connection has it closed, by recvdata  *)
(* or senddata, unless a failing epoll_ctl loses it or the scan crashes     *)
(* behind the table.                                                        *)
Open(c) == \E f \in Fds : fds[f] = c
Watched(c) == \E f \in Fds : fds[f] = c /\ interest[f] # None
Lost(c) == \E f \in lost : fds[f] = c
SpeakerIsClosed ==
  \A c \in Clients : (unread[c] /\ Watched(c)) ~> (pc = "crashed" \/ ~Open(c) \/ Lost(c))
=============================================================================
