------------------------ MODULE EpollReactorProofs ------------------------
(***************************************************************************)
(* Theorems about EpollReactor, for any number of clients, any table size,  *)
(* any batch of the scan and any time-out.                                  *)
(***************************************************************************)
EXTENDS EpollReactor, FiniteSetTheorems, TLAPS

(* What is registered for one kind of event is reported as that kind.       *)
OneKind(e) == e.mask \in {{"IN"}, {"OUT"}}

(* An event not handled yet stands for a registration in force.             *)
Current(e) ==
  \E f \in Fds : interest[f] # None /\ interest[f].ptr = e.ptr /\ e.mask \subseteq interest[f].mask

(* TypeOK and RegistrationsMatch are inductive only together with the       *)
(* others: a callback acts on the entry an event points to, and it must not *)
(* take away the registration behind another event.                         *)
Cleared == answered = {} /\ \A i \in Entries : g_events[i].len = 0
KindsInv == \A f \in Fds : interest[f] # None => OneKind(interest[f])
EventsInv ==
  /\ \A e \in events : OneKind(e) /\ Current(e)
  /\ \A e1, e2 \in events : e1.ptr = e2.ptr => e1 = e2
  /\ pc # "dispatch" => events = {}

ReactorInv == TypeOK /\ RegistrationsMatch /\ Cleared /\ KindsInv /\ EventsInv

LEMMA FdsFacts == Cardinality(Clients) \in Nat /\ 0 \in Fds /\ MaxEvents \in Entries
  BY ReactorAssumption, FS_CardinalityType DEF Fds, Entries

LEMMA InitInv == Init => ReactorInv
<1> SUFFICES ASSUME Init PROVE ReactorInv
  OBVIOUS
<1> USE ReactorAssumption, NoneAssumption, FdsFacts DEF Init, Listener
<1>a. /\ unused \in myevent_s /\ unused.len = 0
      /\ listening \in myevent_s /\ listening.len = 0 /\ listening.fd = 0
      /\ listening.status = 1 /\ listening.events = {"IN"}
  BY DEF unused, listening, myevent_s
<1>b. PICK reg \in {Registration(MaxEvents, listening), None} :
        interest = [f \in Fds |-> IF f = 0 THEN reg ELSE None]
  OBVIOUS
<1>c. reg = None \/ reg = [ptr |-> MaxEvents, mask |-> {"IN"}]
  BY <1>a DEF Registration
<1>1. TypeOK
  <2>1. [ptr |-> MaxEvents, mask |-> {"IN"}] \in Registrations
    BY DEF Registrations
  <2>2. interest \in [Fds -> Registrations \cup {None}]
    BY <1>b, <1>c, <2>1
  <2>3. g_events \in [Entries -> myevent_s]
    BY <1>a
  <2> QED
    BY <2>2, <2>3 DEF TypeOK
<1>2. RegistrationsMatch
  BY <1>a, <1>b, <1>c DEF RegistrationsMatch
<1>3. Cleared
  BY <1>a DEF Cleared
<1>4. KindsInv /\ EventsInv
  BY <1>b, <1>c DEF KindsInv, EventsInv, OneKind
<1> QED
  BY <1>1, <1>2, <1>3, <1>4 DEF ReactorInv

LEMMA ScanInv == ReactorInv /\ Scan => ReactorInv'
<1> SUFFICES ASSUME ReactorInv, Scan PROVE ReactorInv'
  OBVIOUS
<1> DEFINE P == {i \in Entries : i \in checkpos .. checkpos + Batch - 1 /\ Idle(i)}
<1> USE ReactorAssumption, FdsFacts DEF ReactorInv
<1>1. /\ ScanThen(P)
      /\ fds' = [f \in Fds |-> IF f \in IdleFds(P) THEN None ELSE fds[f]]
  BY DEF Scan
<1>2. g_events' = [i \in Entries |-> IF i \in P THEN eventdel(g_events[i]) ELSE g_events[i]]
  BY <1>1 DEF ScanThen
<1>3. interest' = [f \in Fds |-> IF f \in IdleFds(P) THEN None ELSE interest[f]]
  BY <1>1 DEF ScanThen
<1>4. \A f \in Fds : interest'[f] # None =>
        interest'[f] = interest[f] /\ interest[f].ptr \notin P /\ fds'[f] = fds[f]
             /\ interest[f].ptr \in Entries
  <2>1. \A i \in P : g_events[i].fd \in IdleFds(P)
    BY DEF IdleFds
  <2> HIDE DEF P
  <2> SUFFICES ASSUME NEW f \in Fds, interest'[f] # None
               PROVE  /\ interest'[f] = interest[f] /\ interest[f].ptr \notin P
                      /\ fds'[f] = fds[f] /\ interest[f].ptr \in Entries
    OBVIOUS
  <2>2. f \notin IdleFds(P) /\ interest'[f] = interest[f] /\ fds'[f] = fds[f]
    BY <1>1, <1>3
  <2>3. interest[f] \in Registrations /\ g_events[interest[f].ptr].fd = f
    BY <2>2 DEF TypeOK, RegistrationsMatch
  <2> QED
    BY <2>1, <2>2, <2>3 DEF Registrations
<1>5. TypeOK'
  <2>1. checkpos' \in 0 .. MaxEvents + 1 /\ pc' \in {"scan", "wait", "dispatch", "crashed"}
    BY <1>1 DEF TypeOK, ScanThen
  <2>2. g_events' \in [Entries -> myevent_s]
    BY <1>2 DEF TypeOK, eventdel, myevent_s
  <2>3. /\ fds' \in [Fds -> Clients \cup {Listener, None}]
        /\ interest' \in [Fds -> Registrations \cup {None}]
    BY <1>1, <1>3 DEF TypeOK
  <2> QED
    BY <1>1, <2>1, <2>2, <2>3 DEF TypeOK, ScanThen, world
<1>6. RegistrationsMatch'
  BY <1>2, <1>4 DEF RegistrationsMatch
<1>7. Cleared'
  BY <1>1, <1>2 DEF TypeOK, Cleared, ScanThen, world, eventdel
<1>8. KindsInv'
  BY <1>4 DEF KindsInv, OneKind
<1>9. EventsInv'
  BY <1>1 DEF EventsInv, ScanThen
<1> QED
  BY <1>5, <1>6, <1>7, <1>8, <1>9

LEMMA WaitInv == ReactorInv /\ Wait => ReactorInv'
<1> SUFFICES ASSUME ReactorInv, Wait PROVE ReactorInv'
  OBVIOUS
<1> USE DEF ReactorInv, Wait, table, world
<1> DEFINE Report(f) == [ptr |-> interest[f].ptr, mask |-> Possible(f) \cap interest[f].mask]
<1>1. ASSUME NEW f \in Fds, Ready(f)
      PROVE  /\ Report(f) \in Registrations /\ OneKind(Report(f))
             /\ Report(f).mask \subseteq interest[f].mask
             /\ g_events[interest[f].ptr].fd = f
  <2>1. interest[f] # None /\ Possible(f) \cap interest[f].mask # {}
    BY <1>1 DEF Ready
  <2>2. interest[f] \in Registrations /\ OneKind(interest[f])
    BY <2>1 DEF TypeOK, KindsInv
  <2>3. g_events[interest[f].ptr].fd = f
    BY <2>1 DEF RegistrationsMatch
  <2> QED
    BY <2>1, <2>2, <2>3 DEF Registrations, OneKind
<1>2. \A e \in events' : \E f \in Fds : Ready(f) /\ e = Report(f)
  OBVIOUS
<1> HIDE DEF Report
<1>3. \A e \in events' : e \in Registrations /\ OneKind(e) /\ Current(e)
  <2> TAKE e \in events'
  <2>1. PICK f \in Fds : Ready(f) /\ e = Report(f)
    BY <1>2
  <2>2. interest[f] # None /\ Report(f).ptr = interest[f].ptr
    BY <2>1 DEF Ready, Report
  <2> QED
    BY <1>1, <2>1, <2>2 DEF Current
<1>4. \A e1, e2 \in events' : e1.ptr = e2.ptr => e1 = e2
  <2> TAKE e1, e2 \in events'
  <2>1. PICK f1 \in Fds : Ready(f1) /\ e1 = Report(f1)
    BY <1>2
  <2>2. PICK f2 \in Fds : Ready(f2) /\ e2 = Report(f2)
    BY <1>2
  <2> QED
    BY <1>1, <2>1, <2>2 DEF Report
<1>5. \A e \in events' : Current(e)'
  BY <1>3 DEF Current
<1> QED
  BY <1>3, <1>4, <1>5 DEF TypeOK, RegistrationsMatch, Cleared, KindsInv, EventsInv

(* A callback for event e leaves the registrations of all other entries in  *)
(* force, so the events behind it stay current.                             *)
LEMMA OthersStayCurrent ==
  ASSUME ReactorInv, NEW e \in events, pc = "dispatch",
         events' = events \ {e}, UNCHANGED pc,
         \A f \in Fds : interest[f] # None /\ interest[f].ptr # e.ptr
                          => interest'[f] = interest[f]
  PROVE  EventsInv'
<1> USE DEF ReactorInv
<1>1. \A d \in events' : d \in events /\ d.ptr # e.ptr
  BY DEF EventsInv
<1>2. \A d \in events' : Current(d)'
  BY <1>1 DEF EventsInv, Current
<1> QED
  BY <1>1, <1>2 DEF EventsInv, OneKind

(* What a callback is called with: the entry is in use, and its descriptor  *)
(* is registered.                                                           *)
LEMMA EventFacts ==
  ASSUME ReactorInv, NEW e \in events
  PROVE  LET fd == g_events[e.ptr].fd
         IN  /\ e.ptr \in Entries /\ fd \in Fds
             /\ interest[fd] # None /\ interest[fd].ptr = e.ptr /\ fds[fd] # None
             /\ \A f \in Fds : interest[f] # None /\ interest[f].ptr = e.ptr => f = fd
  BY DEF ReactorInv, EventsInv, Current, TypeOK, RegistrationsMatch, Registrations

(* An event handed to the entry it belongs to.                              *)
Handles(e) ==
  /\ pc = "dispatch" /\ e \in events /\ events' = events \ {e}
  /\ UNCHANGED <<pc, checkpos, now>>

(* What Watch does to the entry and, unless it fails, to the registrations. *)
LEMMA WatchFacts ==
  ASSUME TypeOK, NEW i \in Entries, NEW fd \in Fds,
         NEW call_back \in {"recvdata", "senddata"}, NEW evs \in {{"IN"}, {"OUT"}},
         NEW reg \in [Fds -> Registrations \cup {None}], reg[fd] = None,
         Watch(i, fd, call_back, evs, reg)
  PROVE  /\ g_events' \in [Entries -> myevent_s]
         /\ \A j \in Entries : j # i => g_events'[j] = g_events[j]
         /\ g_events'[i].fd = fd /\ g_events'[i].status = 1 /\ g_events'[i].len = 0
         /\ g_events'[i].events = evs /\ g_events'[i].call_back = call_back
         /\ interest' \in [Fds -> Registrations \cup {None}]
         /\ \A f \in Fds : f # fd => interest'[f] = reg[f]
         /\ \/ /\ lost' = lost /\ interest'[fd] # None
               /\ interest'[fd].ptr = i /\ interest'[fd].mask = evs
            \/ lost' = lost \cup {fd} /\ interest'[fd] = None
<1> DEFINE ev == eventadd(evs, eventset(fd, call_back))
<1>1. /\ g_events' = [g_events EXCEPT ![i] = ev]
      /\ \/ lost' = lost /\ interest' = [reg EXCEPT ![fd] = Registration(i, ev)]
         \/ lost' = lost \cup {fd} /\ interest' = reg
  BY DEF Watch
<1>2. /\ ev \in myevent_s /\ ev.fd = fd /\ ev.status = 1 /\ ev.len = 0 /\ ev.events = evs
      /\ ev.call_back = call_back
      /\ Registration(i, ev) \in Registrations /\ Registration(i, ev) # None
      /\ Registration(i, ev).ptr = i /\ Registration(i, ev).mask = evs
  <2> DEFINE cleared == [fd |-> fd, events |-> {}, call_back |-> call_back, status |-> 0,
                         len |-> 0, last_active |-> now]
  <2>0. ev = [cleared EXCEPT !.events = evs, !.status = 1]
    BY DEF eventadd, eventset
  <2>1. ev = [fd |-> fd, events |-> evs, call_back |-> call_back, status |-> 1, len |-> 0,
              last_active |-> now]
    BY <2>0
  <2>2. Registration(i, ev) = [ptr |-> i, mask |-> evs]
    BY <2>1 DEF Registration
  <2>3. [ptr |-> i, mask |-> evs] \in Registrations
    BY DEF Registrations
  <2> QED
    BY <2>1, <2>2, <2>3, NoneAssumption DEF myevent_s, TypeOK
<1> HIDE DEF ev
<1> QED
  BY <1>1, <1>2 DEF TypeOK

(* The two registrations the callbacks ask for: to read, and to write.      *)
LEMMA WatchToRead ==
  ASSUME TypeOK, NEW i \in Entries, NEW fd \in Fds, interest[fd] = None,
         Watch(i, fd, "recvdata", {"IN"}, interest)
  PROVE  /\ g_events' \in [Entries -> myevent_s]
         /\ \A j \in Entries : j # i => g_events'[j] = g_events[j]
         /\ g_events'[i].fd = fd /\ g_events'[i].status = 1 /\ g_events'[i].len = 0
         /\ g_events'[i].events = {"IN"} /\ g_events'[i].call_back = "recvdata"
         /\ interest' \in [Fds -> Registrations \cup {None}]
         /\ \A f \in Fds : f # fd => interest'[f] = interest[f]
         /\ \/ /\ lost' = lost /\ interest'[fd] # None
               /\ interest'[fd].ptr = i /\ interest'[fd].mask = {"IN"}
            \/ lost' = lost \cup {fd} /\ interest'[fd] = None
<1> DEFINE cb == "recvdata"
           evs == {"IN"}
<1>1. /\ cb \in {"recvdata", "senddata"} /\ evs \in {{"IN"}, {"OUT"}}
      /\ interest \in [Fds -> Registrations \cup {None}] /\ interest[fd] = None
      /\ Watch(i, fd, cb, evs, interest)
  BY DEF TypeOK
<1> HIDE DEF cb, evs
<1> QED
  BY <1>1, WatchFacts DEF cb, evs

LEMMA WatchToWrite ==
  ASSUME TypeOK, NEW i \in Entries, NEW fd \in Fds,
         NEW reg \in [Fds -> Registrations \cup {None}], reg[fd] = None,
         Watch(i, fd, "senddata", {"OUT"}, reg)
  PROVE  /\ g_events' \in [Entries -> myevent_s]
         /\ \A j \in Entries : j # i => g_events'[j] = g_events[j]
         /\ g_events'[i].fd = fd /\ g_events'[i].status = 1 /\ g_events'[i].len = 0
         /\ g_events'[i].events = {"OUT"} /\ g_events'[i].call_back = "senddata"
         /\ interest' \in [Fds -> Registrations \cup {None}]
         /\ \A f \in Fds : f # fd => interest'[f] = reg[f]
         /\ \/ /\ lost' = lost /\ interest'[fd] # None
               /\ interest'[fd].ptr = i /\ interest'[fd].mask = {"OUT"}
            \/ lost' = lost \cup {fd} /\ interest'[fd] = None
<1> DEFINE cb == "senddata"
           evs == {"OUT"}
<1>1. /\ cb \in {"recvdata", "senddata"} /\ evs \in {{"IN"}, {"OUT"}}
      /\ Watch(i, fd, cb, evs, reg)
  OBVIOUS
<1> HIDE DEF cb, evs
<1> QED
  BY <1>1, WatchFacts DEF cb, evs

LEMMA AcceptInv == ASSUME ReactorInv, NEW e, Handles(e), acceptconn PROVE ReactorInv'
<1> USE ReactorAssumption, FdsFacts DEF ReactorInv, Handles
<1>1. PICK c \in Clients, f \in Lowest(Free) :
        /\ client' = [client EXCEPT ![c] = "in"] /\ fds' = [fds EXCEPT ![f] = c]
        /\ \/ \E i \in Lowest(Unused) : Watch(i, f, "recvdata", {"IN"}, interest)
           \/ lost' = lost \cup {f} /\ UNCHANGED <<g_events, interest>>
        /\ UNCHANGED <<unread, answered>>
  BY DEF acceptconn
<1>2. f \in Fds /\ fds[f] = None /\ interest[f] = None
  BY DEF Lowest, Free, RegistrationsMatch
<1>3. /\ fds' \in [Fds -> Clients \cup {Listener, None}] /\ fds'[f] = c /\ c # None
      /\ \A g \in Fds : g # f => fds'[g] = fds[g]
  BY <1>1, <1>2 DEF TypeOK
<1>4. CASE lost' = lost \cup {f} /\ UNCHANGED <<g_events, interest>>
  <2>1. RegistrationsMatch'
    BY <1>2, <1>3, <1>4 DEF RegistrationsMatch
  <2>2. EventsInv'
    BY <1>4, OthersStayCurrent
  <2> QED
    BY <1>1, <1>2, <1>3, <1>4, <2>1, <2>2 DEF TypeOK, Cleared, KindsInv
<1>5. CASE \E i \in Lowest(Unused) : Watch(i, f, "recvdata", {"IN"}, interest)
  <2>1. PICK i \in Lowest(Unused) : Watch(i, f, "recvdata", {"IN"}, interest)
    BY <1>5
  <2>2. i \in Entries /\ g_events[i].status # 1
    BY DEF Lowest, Unused
  <2>3. /\ g_events' \in [Entries -> myevent_s] /\ interest' \in [Fds -> Registrations \cup {None}]
        /\ \A j \in Entries : j # i => g_events'[j] = g_events[j]
        /\ g_events'[i].fd = f /\ g_events'[i].status = 1 /\ g_events'[i].len = 0
        /\ g_events'[i].events = {"IN"} /\ \A g \in Fds : g # f => interest'[g] = interest[g]
        /\ \/ interest'[f].ptr = i /\ interest'[f].mask = {"IN"}
           \/ interest'[f] = None
        /\ lost' \subseteq Fds
    <3>1. interest \in [Fds -> Registrations \cup {None}] /\ lost \subseteq Fds
      BY DEF TypeOK
    <3>2. /\ g_events' \in [Entries -> myevent_s]
          /\ \A j \in Entries : j # i => g_events'[j] = g_events[j]
          /\ g_events'[i].fd = f /\ g_events'[i].status = 1 /\ g_events'[i].len = 0
          /\ g_events'[i].events = {"IN"}
          /\ interest' \in [Fds -> Registrations \cup {None}]
          /\ \A g \in Fds : g # f => interest'[g] = interest[g]
          /\ \/ lost' = lost /\ interest'[f].ptr = i /\ interest'[f].mask = {"IN"}
             \/ lost' = lost \cup {f} /\ interest'[f] = None
      BY <1>2, <2>1, <2>2, WatchToRead
    <3> QED
      BY <1>2, <3>1, <3>2
  <2>4. \A g \in Fds : g # f /\ interest[g] # None =>
          interest[g].ptr # i /\ g_events'[interest[g].ptr] = g_events[interest[g].ptr]
    <3> SUFFICES ASSUME NEW g \in Fds, g # f, interest[g] # None
                 PROVE  /\ interest[g].ptr # i
                        /\ g_events'[interest[g].ptr] = g_events[interest[g].ptr]
      OBVIOUS
    <3>1. interest[g].ptr \in Entries /\ g_events[interest[g].ptr].status = 1
      BY DEF TypeOK, RegistrationsMatch, Registrations
    <3>2. interest[g].ptr # i
      BY <2>2, <3>1, Zenon
    <3>3. \A j \in Entries : j # i => g_events'[j] = g_events[j]
      BY <2>3
    <3> QED
      BY <3>1, <3>2, <3>3
  <2>5. RegistrationsMatch'
    <3> SUFFICES ASSUME NEW g \in Fds, interest'[g] # None
                 PROVE  LET v == g_events'[interest'[g].ptr]
                        IN  /\ fds'[g] # None /\ v.fd = g /\ v.status = 1
                            /\ v.events = interest'[g].mask
      BY DEF RegistrationsMatch
    <3>1. CASE g = f
      BY <1>3, <2>3, <3>1
    <3>2. CASE g # f
      <4>1. interest'[g] = interest[g] /\ interest[g] # None /\ fds'[g] = fds[g]
        BY <1>3, <2>3, <3>2
      <4>2. g_events'[interest[g].ptr] = g_events[interest[g].ptr]
        BY <2>4, <3>2, <4>1
      <4> QED
        BY <4>1, <4>2 DEF RegistrationsMatch
    <3> QED
      BY <3>1, <3>2
  <2>6. Cleared'
    BY <1>1, <2>3 DEF TypeOK, Cleared
  <2>7. KindsInv'
    BY <2>3 DEF KindsInv, OneKind
  <2>8. EventsInv'
    BY <1>2, <2>3, OthersStayCurrent
  <2> QED
    BY <1>1, <1>3, <2>3, <2>5, <2>6, <2>7, <2>8 DEF TypeOK
<1> QED
  BY <1>1, <1>4, <1>5

(* recvdata and senddata close a connection.                                *)
LEMMA CloseInv ==
  ASSUME ReactorInv, NEW e, Handles(e), close(g_events[e.ptr].fd),
         \/ UNCHANGED g_events
         \/ g_events' = [g_events EXCEPT ![e.ptr] = eventdel(@)],
         UNCHANGED <<lost, world>>
  PROVE  ReactorInv'
<1> USE ReactorAssumption, FdsFacts DEF Handles, world
<1> DEFINE fd == g_events[e.ptr].fd
<1>0. e.ptr \in Entries /\ fd \in Fds /\ e \in events
  BY EventFacts
<1>1. \A f \in Fds : interest[f] # None /\ f # fd => interest[f].ptr # e.ptr
  BY <1>0, EventFacts
<1>2. /\ TypeOK /\ RegistrationsMatch /\ Cleared /\ KindsInv
  BY DEF ReactorInv
<1>3. /\ interest'[fd] = None /\ \A f \in Fds : f # fd => interest'[f] = interest[f]
      /\ \A f \in Fds : f # fd => fds'[f] = fds[f]
      /\ interest' \in [Fds -> Registrations \cup {None}]
      /\ fds' \in [Fds -> Clients \cup {Listener, None}]
  BY <1>0, <1>2 DEF close, Unregistered, TypeOK
<1>4. /\ g_events' \in [Entries -> myevent_s]
      /\ \A i \in Entries : i # e.ptr => g_events'[i] = g_events[i]
      /\ \A i \in Entries : g_events'[i].len = g_events[i].len
  BY <1>0, <1>2 DEF eventdel, TypeOK, myevent_s
<1> HIDE DEF fd
<1>5. RegistrationsMatch'
  <2> SUFFICES ASSUME NEW f \in Fds, interest'[f] # None
               PROVE  LET v == g_events'[interest'[f].ptr]
                      IN  /\ fds'[f] # None /\ v.fd = f /\ v.status = 1
                          /\ v.events = interest'[f].mask
    BY DEF RegistrationsMatch
  <2>1. /\ interest'[f] = interest[f] /\ interest[f] # None /\ fds'[f] = fds[f]
        /\ interest[f].ptr # e.ptr
    BY <1>1, <1>3
  <2>2. interest[f].ptr \in Entries
    BY <1>2, <2>1 DEF TypeOK, Registrations
  <2> QED
    BY <1>2, <1>4, <2>1, <2>2 DEF RegistrationsMatch
<1>6. EventsInv'
  <2>1. \A f \in Fds : interest[f] # None /\ interest[f].ptr # e.ptr => interest'[f] = interest[f]
    <3> SUFFICES ASSUME NEW f \in Fds, interest[f] # None, interest[f].ptr # e.ptr
                 PROVE  f # fd
      BY <1>3
    <3> QED
      BY EventFacts DEF fd
  <2> QED
    BY <2>1, OthersStayCurrent
<1>7. TypeOK'
  BY <1>2, <1>3, <1>4 DEF TypeOK
<1>8. Cleared' /\ KindsInv'
  BY <1>2, <1>3, <1>4 DEF Cleared, KindsInv, OneKind
<1> QED
  BY <1>5, <1>6, <1>7, <1>8 DEF ReactorInv

LEMMA RecvInv == ASSUME ReactorInv, NEW e, Handles(e), recvdata(e.ptr) PROVE ReactorInv'
<1> USE ReactorAssumption, FdsFacts DEF Handles
<1> DEFINE fd == g_events[e.ptr].fd
<1>1. CASE ~unread[fds[fd]]
  <2>1. /\ close(fd) /\ UNCHANGED <<lost, world>>
        /\ g_events' = [g_events EXCEPT ![e.ptr] = eventdel(@)]
    BY <1>1 DEF recvdata
  <2> QED
    BY <2>1, CloseInv
<1>2. CASE unread[fds[fd]]
  <2>0. /\ e.ptr \in Entries /\ fd \in Fds /\ e \in events /\ fds[fd] # None
        /\ \A f \in Fds : interest[f] # None /\ f # fd => interest[f].ptr # e.ptr
        /\ interest[fd].ptr = e.ptr
    BY EventFacts
  <2>1. /\ TypeOK /\ RegistrationsMatch /\ Cleared /\ KindsInv
    BY DEF ReactorInv
  <2>2. /\ unread' = [unread EXCEPT ![fds[fd]] = FALSE]
        /\ Watch(e.ptr, fd, "senddata", {"OUT"}, Unregistered(fd))
        /\ UNCHANGED <<fds, client, answered>>
    BY <1>2 DEF recvdata
  <2> DEFINE reg == Unregistered(fd)
  <2>3. /\ reg \in [Fds -> Registrations \cup {None}] /\ reg[fd] = None
        /\ \A f \in Fds : f # fd => reg[f] = interest[f]
        /\ Watch(e.ptr, fd, "senddata", {"OUT"}, reg)
    BY <2>0, <2>1, <2>2 DEF Unregistered, TypeOK
  <2> HIDE DEF fd, reg
  <2>4. /\ g_events' \in [Entries -> myevent_s] /\ interest' \in [Fds -> Registrations \cup {None}]
        /\ \A j \in Entries : j # e.ptr => g_events'[j] = g_events[j]
        /\ g_events'[e.ptr].fd = fd /\ g_events'[e.ptr].status = 1 /\ g_events'[e.ptr].len = 0
        /\ g_events'[e.ptr].events = {"OUT"}
        /\ \A f \in Fds : f # fd => interest'[f] = reg[f]
        /\ \/ interest'[fd].ptr = e.ptr /\ interest'[fd].mask = {"OUT"}
           \/ interest'[fd] = None
        /\ lost' \subseteq Fds
    <3>1. lost \subseteq Fds
      BY <2>1 DEF TypeOK
    <3>2. /\ TypeOK /\ e.ptr \in Entries /\ fd \in Fds
          /\ reg \in [Fds -> Registrations \cup {None}] /\ reg[fd] = None
          /\ Watch(e.ptr, fd, "senddata", {"OUT"}, reg)
      BY <2>0, <2>1, <2>3
    <3>3. g_events' \in [Entries -> myevent_s]
      BY <3>2, WatchToWrite
    <3>4. interest' \in [Fds -> Registrations \cup {None}]
      BY <3>2, WatchToWrite
    <3>5. \A j \in Entries : j # e.ptr => g_events'[j] = g_events[j]
      BY <3>2, WatchToWrite
    <3>6. /\ g_events'[e.ptr].fd = fd /\ g_events'[e.ptr].status = 1 /\ g_events'[e.ptr].len = 0
          /\ g_events'[e.ptr].events = {"OUT"}
      BY <3>2, WatchToWrite
    <3>7. \A f \in Fds : f # fd => interest'[f] = reg[f]
      BY <3>2 DEF Watch
    <3>8. \/ lost' = lost /\ interest'[fd].ptr = e.ptr /\ interest'[fd].mask = {"OUT"}
          \/ lost' = lost \cup {fd} /\ interest'[fd] = None
      BY <3>2 DEF Watch, Registration, eventadd, eventset
    <3> QED
      BY <3>1, <3>2, <3>3, <3>4, <3>5, <3>6, <3>7, <3>8
  <2>6. \A f \in Fds : f # fd => interest'[f] = interest[f]
    BY <2>3, <2>4
  <2>7. RegistrationsMatch'
    <3> SUFFICES ASSUME NEW f \in Fds, interest'[f] # None
                 PROVE  LET v == g_events'[interest'[f].ptr]
                        IN  /\ fds'[f] # None /\ v.fd = f /\ v.status = 1
                            /\ v.events = interest'[f].mask
      BY DEF RegistrationsMatch
    <3>1. CASE f = fd
      BY <2>0, <2>2, <2>4, <3>1
    <3>2. CASE f # fd
      <4>1. /\ interest'[f] = interest[f] /\ interest[f] # None /\ fds'[f] = fds[f]
            /\ interest[f].ptr # e.ptr
        BY <2>0, <2>2, <2>6, <3>2
      <4>2. interest[f].ptr \in Entries
        BY <2>1, <4>1 DEF TypeOK, Registrations
      <4> QED
        <5>1. g_events'[interest[f].ptr] = g_events[interest[f].ptr]
          BY <2>4, <4>1, <4>2
        <5> QED
          BY <2>1, <4>1, <5>1 DEF RegistrationsMatch
    <3> QED
      BY <3>1, <3>2
  <2>8. EventsInv'
    <3>1. \A f \in Fds : interest[f] # None /\ interest[f].ptr # e.ptr => interest'[f] = interest[f]
      <4> SUFFICES ASSUME NEW f \in Fds, interest[f] # None, interest[f].ptr # e.ptr
                   PROVE  f # fd
        BY <2>6
      <4> QED
        BY <2>0
    <3> QED
      BY <3>1, OthersStayCurrent
  <2>9. TypeOK'
    BY <2>1, <2>2, <2>4 DEF TypeOK
  <2>10. Cleared'
    BY <2>1, <2>2, <2>4 DEF Cleared
  <2>11. KindsInv'
    BY <2>1, <2>4, <2>6 DEF KindsInv, OneKind
  <2> QED
    BY <2>7, <2>8, <2>9, <2>10, <2>11 DEF ReactorInv
<1> QED
  BY <1>1, <1>2

(* The length is 0, so there is nothing but closing.                        *)
LEMMA SendInv == ASSUME ReactorInv, NEW e, Handles(e), senddata(e.ptr) PROVE ReactorInv'
<1>1. e.ptr \in Entries
  BY EventFacts DEF Handles
<1>2. ~(g_events[e.ptr].len > 0)
  BY <1>1 DEF ReactorInv, Cleared
<1>3. close(g_events[e.ptr].fd) /\ UNCHANGED <<g_events, lost, world>>
  BY <1>2 DEF senddata
<1> QED
  BY <1>3, CloseInv

LEMMA NextInv == ReactorInv /\ [Next]_vars => ReactorInv'
<1> SUFFICES ASSUME ReactorInv, [Next]_vars PROVE ReactorInv'
  OBVIOUS
<1>1. CASE Scan
  BY <1>1, ScanInv
<1>2. CASE Wait
  BY <1>2, WaitInv
<1>3. CASE LoopEnds
  BY <1>3 DEF LoopEnds, ReactorInv, TypeOK, RegistrationsMatch, Cleared, KindsInv, EventsInv,
              Current, table, world
<1>4. ASSUME NEW cb \in {"acceptconn", "recvdata", "senddata"}, Dispatch(cb) PROVE ReactorInv'
  <2>1. PICK e \in events :
          /\ Handles(e)
          /\ CASE cb = "acceptconn" -> acceptconn \/ acceptFails
               [] cb = "recvdata" -> recvdata(e.ptr)
               [] cb = "senddata" -> senddata(e.ptr)
    BY <1>4 DEF Dispatch, Handles
  <2>2. CASE acceptFails
    <3>1. UNCHANGED <<g_events, fds, interest, lost, client, unread, answered, checkpos, now, pc>>
      BY <2>1, <2>2 DEF acceptFails, table, world, Handles
    <3>2. EventsInv'
      BY <2>1, <3>1, OthersStayCurrent DEF Handles
    <3> QED
      BY <2>1, <3>1, <3>2 DEF ReactorInv, TypeOK, RegistrationsMatch, Cleared, KindsInv, Handles
  <2>3. CASE acceptconn
    BY <2>1, <2>3, AcceptInv
  <2>4. CASE recvdata(e.ptr)
    BY <2>1, <2>4, RecvInv
  <2>5. CASE senddata(e.ptr)
    BY <2>1, <2>5, SendInv
  <2> QED
    BY <2>1, <2>2, <2>3, <2>4, <2>5
<1>5. ASSUME NEW c \in Clients, Connect(c) \/ Say(c) \/ HangUp(c) PROVE ReactorInv'
  BY <1>5 DEF Connect, Say, HangUp, ReactorInv, TypeOK, RegistrationsMatch, Cleared, KindsInv,
              EventsInv, Current, server, table
<1>6. CASE Tick
  BY <1>6, ReactorAssumption DEF Tick, ReactorInv, TypeOK, RegistrationsMatch, Cleared, KindsInv,
              EventsInv, Current, server, table, world
<1>7. CASE UNCHANGED vars
  BY <1>7 DEF vars, ReactorInv, TypeOK, RegistrationsMatch, Cleared, KindsInv,
              EventsInv, Current, server, table, world
<1> QED
  BY <1>1, <1>2, <1>3, <1>4, <1>5, <1>6, <1>7 DEF Next, ServerRuns, CallBacks

LEMMA ReactorInvHolds == Spec => []ReactorInv
BY InitInv, NextInv, PTL DEF Spec
-----------------------------------------------------------------------------
(* Type correctness: whatever is in the table, its indices and descriptors  *)
(* stay in range.                                                           *)
THEOREM Typing == Spec => []TypeOK
BY ReactorInvHolds, PTL DEF ReactorInv

(* Epoll's registrations and the table agree, though entries outlive their  *)
(* descriptors and numbers are reused.                                      *)
THEOREM TableMatchesEpoll == Spec => []RegistrationsMatch
BY ReactorInvHolds, PTL DEF ReactorInv

(* No callback spoils an event behind it.                                   *)
THEOREM EventsAreCurrent == Spec => []EventsStayFresh
<1>1. ReactorInv => EventsStayFresh
  <2> SUFFICES ASSUME ReactorInv, NEW e \in events
               PROVE  \E f \in Fds : /\ interest[f] # None /\ interest[f].ptr = e.ptr
                                     /\ e.mask \subseteq interest[f].mask
                                     /\ Cardinality(e.mask) = 1
    BY DEF EventsStayFresh
  <2>1. OneKind(e) /\ Current(e)
    BY DEF ReactorInv, EventsInv
  <2>2. Cardinality(e.mask) = 1
    BY <2>1, FS_Singleton DEF OneKind
  <2> QED
    BY <2>1, <2>2 DEF Current
<1> QED
  BY <1>1, ReactorInvHolds, PTL

(* The reactor answers nobody.                                              *)
THEOREM NobodyIsAnswered == Spec => []NoAnswers
<1>1. ReactorInv => NoAnswers
  BY DEF ReactorInv, Cleared, NoAnswers
<1> QED
  BY <1>1, ReactorInvHolds, PTL
-----------------------------------------------------------------------------
(* The second layer: what the scan can find.  The listener keeps its entry  *)
(* behind the others and descriptor 0 for life.                             *)
ListenerInv ==
  /\ g_events[MaxEvents].fd = Listener
  /\ \A i \in Entries : g_events[i].call_back = "acceptconn" <=> i = MaxEvents
  /\ \A f \in Fds : fds[f] = Listener => f = Listener
  /\ fds[Listener] \notin Clients
  /\ interest[Listener] # None => interest[Listener].ptr = MaxEvents

(* The scan is ahead of every connection, and by one more entry as long as  *)
(* this turn's accept is to come: an accept fills the lowest unused entry.  *)
InUse == {i \in Entries \ {MaxEvents} : g_events[i].status = 1}
AcceptToCome == pc = "wait" \/ (pc = "dispatch" /\ \E e \in events : e.ptr = MaxEvents)
ScanAheadInv ==
  /\ pc \in {"wait", "dispatch"} => checkpos >= 1
  /\ \A i \in InUse : i < checkpos
  /\ AcceptToCome => \A i \in InUse : i + 1 < checkpos \/ checkpos = MaxEvents + 1

TurnInv == ListenerInv /\ ScanAheadInv /\ UnwatchedAreLost

LEMMA InitTurn == Init => TurnInv
<1> SUFFICES ASSUME Init PROVE TurnInv
  OBVIOUS
<1> USE ReactorAssumption, NoneAssumption, FdsFacts DEF Init, Listener
<1>1. PICK reg \in {Registration(MaxEvents, listening), None} :
        interest = [f \in Fds |-> IF f = 0 THEN reg ELSE None]
  OBVIOUS
<1>2. reg = None \/ reg.ptr = MaxEvents
  BY DEF Registration
<1>3. ListenerInv
  BY <1>1, <1>2 DEF ListenerInv, unused, listening
<1>4. ScanAheadInv
  BY DEF ScanAheadInv, InUse, AcceptToCome, unused
<1>5. UnwatchedAreLost
  BY DEF UnwatchedAreLost
<1> QED
  BY <1>3, <1>4, <1>5 DEF TurnInv

(* What the scan finds idle is the listener, if anything.                   *)
LEMMA ScanFindsListener ==
  ASSUME TypeOK, TurnInv, NEW i \in Entries, i \in checkpos .. checkpos + Batch - 1, Idle(i)
  PROVE  i = MaxEvents /\ g_events[i].fd = Listener
BY ReactorAssumption DEF TurnInv, ListenerInv, ScanAheadInv, InUse, Idle, TypeOK, Entries

LEMMA ScanTurn == ReactorInv /\ TurnInv /\ Scan => TurnInv'
<1> SUFFICES ASSUME ReactorInv, TurnInv, Scan PROVE TurnInv'
  OBVIOUS
<1> USE ReactorAssumption, FdsFacts
<1> DEFINE P == {i \in Entries : i \in checkpos .. checkpos + Batch - 1 /\ Idle(i)}
<1>0. TypeOK /\ ListenerInv /\ ScanAheadInv /\ UnwatchedAreLost
  BY DEF ReactorInv, TurnInv
<1>1. /\ ScanThen(P)
      /\ fds' = [f \in Fds |-> IF f \in IdleFds(P) THEN None ELSE fds[f]]
  BY DEF Scan
<1>2. /\ g_events' = [i \in Entries |-> IF i \in P THEN eventdel(g_events[i]) ELSE g_events[i]]
      /\ interest' = [f \in Fds |-> IF f \in IdleFds(P) THEN None ELSE interest[f]]
      /\ checkpos' = IF checkpos + Batch > MaxEvents THEN MaxEvents + 1 ELSE checkpos + Batch
      /\ pc' \in {"wait", "crashed"} /\ lost' = lost /\ events' = events
  BY <1>1 DEF ScanThen
<1>3. P \subseteq {MaxEvents} /\ IdleFds(P) \subseteq {Listener}
  BY <1>0, ScanFindsListener DEF IdleFds
<1> HIDE DEF P
<1>4. \A i \in Entries :
        /\ g_events'[i].fd = g_events[i].fd /\ g_events'[i].call_back = g_events[i].call_back
        /\ i # MaxEvents => g_events'[i] = g_events[i]
  BY <1>0, <1>2, <1>3 DEF eventdel, TypeOK, myevent_s
<1>5. \A f \in Fds : /\ f # Listener => fds'[f] = fds[f] /\ interest'[f] = interest[f]
                     /\ fds'[f] \in {fds[f], None} /\ interest'[f] \in {interest[f], None}
  BY <1>1, <1>2, <1>3
<1>6. ListenerInv'
  BY <1>0, <1>4, <1>5 DEF ListenerInv, Listener
<1>7. ScanAheadInv'
  <2>1. checkpos \in 0 .. MaxEvents + 1
    BY <1>0 DEF TypeOK
  <2>2. checkpos' > checkpos \/ checkpos' = MaxEvents + 1
    BY <1>2, <2>1
  <2>3. checkpos' \in 1 .. MaxEvents + 1
    BY <1>2, <2>1
  <2>4. ASSUME NEW i \in InUse'
        PROVE i < checkpos' /\ (i + 1 < checkpos' \/ checkpos' = MaxEvents + 1)
    <3>1. i \in InUse /\ i \in 0 .. MaxEvents - 1
      BY <1>4, <2>4 DEF InUse, Entries
    <3> QED
      BY <1>0, <2>1, <2>2, <2>3, <3>1 DEF ScanAheadInv
  <2> QED
    BY <2>3, <2>4 DEF ScanAheadInv
<1>8. UnwatchedAreLost'
  <2>1. Listener \notin Clients /\ None \notin Clients
    BY DEF Listener
  <2>2. \A f \in Fds : fds'[f] \in Clients /\ interest'[f] = None
                         <=> fds[f] \in Clients /\ interest[f] = None
    BY <1>0, <1>5, <2>1 DEF ListenerInv
  <2> QED
    BY <1>0, <1>2, <2>2 DEF UnwatchedAreLost
<1> QED
  BY <1>6, <1>7, <1>8 DEF TurnInv

(* A callback for event e that changes nothing but e's entry and its        *)
(* descriptor keeps the scan ahead.                                         *)
LEMMA StaysAhead ==
  ASSUME ScanAheadInv, NEW e \in events, Handles(e), InUse' \subseteq InUse
  PROVE  ScanAheadInv'
BY DEF ScanAheadInv, AcceptToCome, Handles

(* Whose event it is: acceptconn is called for the listener, the others for *)
(* a connection.                                                            *)
LEMMA WhoseEvent ==
  ASSUME ReactorInv, TurnInv, NEW e \in events
  PROVE  LET fd == g_events[e.ptr].fd
         IN  /\ g_events[e.ptr].status = 1
             /\ g_events[e.ptr].call_back = "acceptconn"
                  => e.ptr = MaxEvents /\ fds[Listener] # None
             /\ g_events[e.ptr].call_back # "acceptconn"
                  => e.ptr # MaxEvents /\ fd # Listener /\ fds[fd] \in Clients
<1> DEFINE fd == g_events[e.ptr].fd
<1>1. /\ e.ptr \in Entries /\ fd \in Fds
      /\ interest[fd] # None /\ interest[fd].ptr = e.ptr /\ fds[fd] # None
  BY EventFacts
<1>2. TypeOK /\ RegistrationsMatch /\ ListenerInv
  BY DEF ReactorInv, TurnInv
<1>3. g_events[e.ptr].status = 1
  BY <1>1, <1>2 DEF RegistrationsMatch
<1>4. ASSUME g_events[e.ptr].call_back # "acceptconn"
      PROVE  e.ptr # MaxEvents /\ fd # Listener /\ fds[fd] \in Clients
  <2>1. e.ptr # MaxEvents
    BY <1>2, <1>4, FdsFacts DEF ListenerInv
  <2>2. fd # Listener
    BY <1>1, <1>2, <2>1 DEF ListenerInv
  <2> QED
    BY <1>1, <1>2, <2>1, <2>2 DEF ListenerInv, TypeOK
<1>5. ASSUME g_events[e.ptr].call_back = "acceptconn"
      PROVE  e.ptr = MaxEvents /\ fds[Listener] # None
  <2>1. e.ptr = MaxEvents
    BY <1>1, <1>2, <1>5 DEF ListenerInv
  <2> QED
    BY <1>1, <1>2, <2>1 DEF ListenerInv
<1> QED
  BY <1>3, <1>4, <1>5

LEMMA AcceptTurn ==
  ASSUME ReactorInv, TurnInv, NEW e \in events, Handles(e),
         g_events[e.ptr].call_back = "acceptconn", acceptconn
  PROVE  TurnInv'
<1> USE ReactorAssumption, FdsFacts
<1>0. TypeOK /\ RegistrationsMatch /\ ListenerInv /\ ScanAheadInv /\ UnwatchedAreLost /\ EventsInv
  BY DEF ReactorInv, TurnInv
<1>1. PICK c \in Clients, f \in Lowest(Free) :
        /\ fds' = [fds EXCEPT ![f] = c]
        /\ \/ \E i \in Lowest(Unused) : Watch(i, f, "recvdata", {"IN"}, interest)
           \/ lost' = lost \cup {f} /\ UNCHANGED <<g_events, interest>>
  BY DEF acceptconn
<1>2. e.ptr = MaxEvents /\ fds[Listener] # None
  BY WhoseEvent
<1>3. f \in Fds /\ f # Listener /\ fds[f] = None /\ interest[f] = None /\ fds[f] \notin Clients
  BY <1>0, <1>2 DEF Lowest, Free, RegistrationsMatch
<1>4. fds'[f] = c /\ c # Listener /\ \A g \in Fds : g # f => fds'[g] = fds[g]
  BY <1>0, <1>1, <1>3 DEF TypeOK, Listener
<1>5. ~AcceptToCome' /\ checkpos' = checkpos /\ pc' = "dispatch" /\ pc = "dispatch"
  BY <1>0, <1>2 DEF AcceptToCome, Handles, EventsInv
<1>6. CASE lost' = lost \cup {f} /\ UNCHANGED <<g_events, interest>>
  <2>1. ListenerInv'
    BY <1>0, <1>3, <1>4, <1>6 DEF ListenerInv, Listener
  <2>2. ScanAheadInv'
    BY <1>6, <1>0, StaysAhead DEF InUse
  <2>3. UnwatchedAreLost'
    BY <1>0, <1>3, <1>4, <1>6 DEF UnwatchedAreLost
  <2> QED
    BY <2>1, <2>2, <2>3 DEF TurnInv
<1>7. ASSUME NEW i \in Lowest(Unused), Watch(i, f, "recvdata", {"IN"}, interest) PROVE TurnInv'
  <2>1. /\ i \in Entries /\ i # MaxEvents /\ g_events[i].status = 0
        /\ \A j \in Entries : j < i => g_events[j].status = 1
    BY <1>0, <1>7 DEF Lowest, Unused, Entries, TypeOK, myevent_s
  <2>2. /\ \A j \in Entries : j # i => g_events'[j] = g_events[j]
        /\ g_events'[i].call_back = "recvdata"
        /\ \A g \in Fds : g # f => interest'[g] = interest[g]
        /\ \/ lost' = lost /\ interest'[f] # None
           \/ lost' = lost \cup {f} /\ interest'[f] = None
    BY <1>0, <1>3, <1>7, <2>1, WatchToRead
  <2>3. ListenerInv'
    <3>1. \A j \in Entries : g_events'[j].call_back = "acceptconn" <=> j = MaxEvents
      BY <1>0, <2>1, <2>2 DEF ListenerInv
    <3> QED
      BY <1>0, <1>3, <1>4, <2>1, <2>2, <3>1 DEF ListenerInv, Listener
  <2>4. i < checkpos
    <3>1. checkpos \in 0 .. MaxEvents + 1 /\ checkpos >= 1 /\ i \in 0 .. MaxEvents - 1
      BY <1>0, <1>5, <2>1 DEF TypeOK, ScanAheadInv, Entries
    <3>2. CASE i = 0
      BY <3>1, <3>2
    <3>3. CASE i # 0
      <4>1. i - 1 \in InUse
        BY <2>1, <3>1, <3>3 DEF InUse, Entries
      <4>2. AcceptToCome
        BY <1>2, <1>5 DEF AcceptToCome
      <4> QED
        BY <1>0, <3>1, <4>1, <4>2 DEF ScanAheadInv
    <3> QED
      BY <3>2, <3>3
  <2>5. ScanAheadInv'
    <3>1. InUse' \subseteq InUse \cup {i}
      BY <2>2 DEF InUse
    <3> QED
      BY <1>0, <1>5, <2>4, <3>1 DEF ScanAheadInv
  <2>6. UnwatchedAreLost'
    BY <1>0, <1>3, <1>4, <2>2 DEF UnwatchedAreLost
  <2> QED
    BY <2>3, <2>5, <2>6 DEF TurnInv
<1> QED
  BY <1>1, <1>6, <1>7

LEMMA CloseTurn ==
  ASSUME ReactorInv, TurnInv, NEW e \in events, Handles(e),
         g_events[e.ptr].call_back # "acceptconn", close(g_events[e.ptr].fd),
         \/ UNCHANGED g_events
         \/ g_events' = [g_events EXCEPT ![e.ptr] = eventdel(@)],
         UNCHANGED lost
  PROVE  TurnInv'
<1> USE ReactorAssumption, FdsFacts
<1> DEFINE fd == g_events[e.ptr].fd
<1>0. TypeOK /\ ListenerInv /\ ScanAheadInv /\ UnwatchedAreLost
  BY DEF ReactorInv, TurnInv
<1>1. e.ptr \in Entries /\ fd \in Fds /\ interest[fd] # None
  BY EventFacts
<1>2. e.ptr # MaxEvents /\ fd # Listener
  BY WhoseEvent
<1>3. /\ fds'[fd] = None /\ interest'[fd] = None
      /\ \A f \in Fds : f # fd => fds'[f] = fds[f] /\ interest'[f] = interest[f]
  BY <1>0, <1>1 DEF close, Unregistered, TypeOK
<1>4. \A i \in Entries :
        /\ g_events'[i].fd = g_events[i].fd /\ g_events'[i].call_back = g_events[i].call_back
        /\ g_events'[i].status = 1 => g_events[i].status = 1
  BY <1>0, <1>1 DEF eventdel, TypeOK, myevent_s
<1> HIDE DEF fd
<1>5. ListenerInv'
  BY <1>0, <1>2, <1>3, <1>4 DEF ListenerInv, Listener
<1>6. ScanAheadInv'
  BY <1>0, <1>4, StaysAhead DEF InUse
<1>7. UnwatchedAreLost'
  BY <1>0, <1>1, <1>3 DEF UnwatchedAreLost
<1> QED
  BY <1>5, <1>6, <1>7 DEF TurnInv

LEMMA RecvTurn ==
  ASSUME ReactorInv, TurnInv, NEW e \in events, Handles(e),
         g_events[e.ptr].call_back = "recvdata", recvdata(e.ptr)
  PROVE  TurnInv'
<1> USE ReactorAssumption, FdsFacts
<1> DEFINE fd == g_events[e.ptr].fd
<1>1. CASE ~unread[fds[fd]]
  <2>1. /\ close(fd) /\ UNCHANGED lost
        /\ g_events' = [g_events EXCEPT ![e.ptr] = eventdel(@)]
    BY <1>1 DEF recvdata
  <2> QED
    BY <2>1, CloseTurn
<1>2. CASE unread[fds[fd]]
  <2>0. TypeOK /\ ListenerInv /\ ScanAheadInv /\ UnwatchedAreLost
    BY DEF ReactorInv, TurnInv
  <2>1. e.ptr \in Entries /\ fd \in Fds /\ interest[fd] # None
    BY EventFacts
  <2>2. /\ e.ptr # MaxEvents /\ fd # Listener /\ fds[fd] \in Clients
        /\ g_events[e.ptr].status = 1
    BY WhoseEvent
  <2> DEFINE reg == Unregistered(fd)
  <2>3. Watch(e.ptr, fd, "senddata", {"OUT"}, reg) /\ UNCHANGED fds
    BY <1>2 DEF recvdata
  <2>4. /\ reg \in [Fds -> Registrations \cup {None}] /\ reg[fd] = None
        /\ \A f \in Fds : f # fd => reg[f] = interest[f]
    BY <2>0, <2>1 DEF Unregistered, TypeOK
  <2> HIDE DEF fd, reg
  <2>5. /\ \A j \in Entries : j # e.ptr => g_events'[j] = g_events[j]
        /\ g_events'[e.ptr].call_back = "senddata"
        /\ \A f \in Fds : f # fd => interest'[f] = interest[f]
        /\ \/ lost' = lost /\ interest'[fd] # None
           \/ lost' = lost \cup {fd} /\ interest'[fd] = None
    <3>1. /\ \A j \in Entries : j # e.ptr => g_events'[j] = g_events[j]
          /\ g_events'[e.ptr].call_back = "senddata"
          /\ \A f \in Fds : f # fd => interest'[f] = reg[f]
          /\ \/ lost' = lost /\ interest'[fd] # None
             \/ lost' = lost \cup {fd} /\ interest'[fd] = None
      BY <2>0, <2>1, <2>3, <2>4, WatchToWrite
    <3> QED
      BY <2>4, <3>1
  <2>6. ListenerInv'
    <3>1. \A j \in Entries : g_events'[j].call_back = "acceptconn" <=> j = MaxEvents
      BY <2>0, <2>2, <2>5 DEF ListenerInv
    <3> QED
      BY <2>0, <2>2, <2>3, <2>5, <3>1 DEF ListenerInv, Listener
  <2>7. ScanAheadInv'
    <3>1. InUse' \subseteq InUse
      BY <2>1, <2>2, <2>5 DEF InUse
    <3> QED
      BY <2>0, <3>1, StaysAhead
  <2>8. UnwatchedAreLost'
    BY <2>0, <2>1, <2>2, <2>3, <2>5 DEF UnwatchedAreLost
  <2> QED
    BY <2>6, <2>7, <2>8 DEF TurnInv
<1> QED
  BY <1>1, <1>2

LEMMA SendTurn ==
  ASSUME ReactorInv, TurnInv, NEW e \in events, Handles(e),
         g_events[e.ptr].call_back = "senddata", senddata(e.ptr)
  PROVE  TurnInv'
<1>1. e.ptr \in Entries
  BY EventFacts
<1>2. ~(g_events[e.ptr].len > 0)
  BY <1>1 DEF ReactorInv, Cleared
<1>3. close(g_events[e.ptr].fd) /\ UNCHANGED <<g_events, lost>>
  BY <1>2 DEF senddata
<1> QED
  BY <1>3, CloseTurn

LEMMA NextTurn == ReactorInv /\ TurnInv /\ [Next]_vars => TurnInv'
<1> SUFFICES ASSUME ReactorInv, TurnInv, [Next]_vars PROVE TurnInv'
  OBVIOUS
<1> USE DEF TurnInv, ListenerInv, ScanAheadInv, InUse, AcceptToCome, UnwatchedAreLost
<1>1. CASE Scan
  BY <1>1, ScanTurn
<1>2. CASE Wait
  BY <1>2 DEF Wait, table, world
<1>3. CASE LoopEnds
  BY <1>3 DEF LoopEnds, table, world
<1>4. ASSUME NEW cb \in {"acceptconn", "recvdata", "senddata"}, Dispatch(cb) PROVE TurnInv'
  <2>1. PICK e \in events :
          /\ Handles(e) /\ g_events[e.ptr].call_back = cb
          /\ CASE cb = "acceptconn" -> acceptconn \/ acceptFails
               [] cb = "recvdata" -> recvdata(e.ptr)
               [] cb = "senddata" -> senddata(e.ptr)
    BY <1>4 DEF Dispatch, Handles
  <2>2. CASE acceptFails
    BY <2>1, <2>2 DEF acceptFails, table, world, Handles
  <2>3. CASE cb = "acceptconn" /\ acceptconn
    BY <2>1, <2>3, AcceptTurn
  <2>4. CASE cb = "recvdata"
    BY <2>1, <2>4, RecvTurn
  <2>5. CASE cb = "senddata"
    BY <2>1, <2>5, SendTurn
  <2> QED
    BY <2>1, <2>2, <2>3, <2>4, <2>5
<1>5. ASSUME NEW c \in Clients, Connect(c) \/ Say(c) \/ HangUp(c) PROVE TurnInv'
  BY <1>5 DEF Connect, Say, HangUp, server, table
<1>6. CASE Tick
  BY <1>6 DEF Tick, server, table, world
<1>7. CASE UNCHANGED vars
  BY <1>7 DEF vars, server, table, world
<1> QED
  BY <1>1, <1>2, <1>3, <1>4, <1>5, <1>6, <1>7 DEF Next, ServerRuns, CallBacks

LEMMA TurnInvHolds == Spec => [](ReactorInv /\ TurnInv)
BY ReactorInvHolds, InitTurn, NextTurn, PTL DEF Spec
-----------------------------------------------------------------------------
(* No connection is left unwatched but by a full table, fcntl or epoll_ctl, *)
(* and what was lost that way stays lost.                                   *)
THEOREM OnlyFailuresLose == Spec => []UnwatchedAreLost
BY TurnInvHolds, PTL DEF TurnInv

(* The scan for idle connections never closes one.                          *)
THEOREM ScanClosesNobody == Spec => ScanMissesConnections
<1>1. ReactorInv /\ TurnInv /\ [Next]_vars
        => [pc = "scan" => \A f \in Fds : fds[f] \in Clients => fds'[f] = fds[f]]_vars
  <2> SUFFICES ASSUME ReactorInv, TurnInv, Next, pc = "scan"
               PROVE  \A f \in Fds : fds[f] \in Clients => fds'[f] = fds[f]
    OBVIOUS
  <2>1. CASE Scan
    <3> DEFINE P == {i \in Entries : i \in checkpos .. checkpos + Batch - 1 /\ Idle(i)}
    <3>1. fds' = [f \in Fds |-> IF f \in IdleFds(P) THEN None ELSE fds[f]]
      BY <2>1 DEF Scan
    <3>2. IdleFds(P) \subseteq {Listener} /\ fds[Listener] \notin Clients
      BY ScanFindsListener DEF IdleFds, ReactorInv, TurnInv, ListenerInv
    <3> QED
      BY <3>1, <3>2
  <2>2. CASE Wait \/ LoopEnds \/ Tick \/ \E c \in Clients : Connect(c) \/ Say(c) \/ HangUp(c)
    BY <2>2 DEF Wait, LoopEnds, Tick, Connect, Say, HangUp, table
  <2>3. CASE CallBacks
    BY <2>3 DEF CallBacks, Dispatch
  <2> QED
    BY <2>1, <2>2, <2>3 DEF Next, ServerRuns
<1> QED
  BY <1>1, TurnInvHolds, PTL DEF Spec, ScanMissesConnections
=============================================================================
