------------------------------ MODULE UdpEcho ------------------------------
(***************************************************************************)
(* UDP_prictise/uecho_server.cpp and uecho_client.cpp.                      *)
(*                                                                          *)
(* A datagram is <<sender, n>>: line n of that client, or the answer to it. *)
(* External: the network loses and reorders datagrams and, if duplicates    *)
(* says so, delivers them again; a line is shorter or longer than "close\n" *)
(* (6 bytes), or is that word.                                              *)
(***************************************************************************)
EXTENDS Integers, Sequences, FiniteSets

CONSTANTS
  Peers,             \* the clients
  MaxSent            \* bound on the lines of a client

ASSUME UdpAssumption == IsFiniteSet(Peers) /\ MaxSent \in Nat

VARIABLES
  duplicates,        \* the network may duplicate
  requests, answers, \* datagrams under way
  lost,              \* those it has lost, if there are no duplicates of them
  open, stale,       \* the server: serv_sock is open; message[6] is not 0
  where, sent, replies   \* clients: "types", "awaits", "quit"; lines sent, received

net == <<duplicates, requests, answers, lost>>
peer == <<where, sent, replies>>
udpvars == <<net, open, stale, peer>>

(* message is never initialised, so its byte 6 may be anything.             *)
UdpInit ==
  /\ duplicates \in BOOLEAN /\ requests = {} /\ answers = {} /\ lost = {}
  /\ open = TRUE /\ stale \in BOOLEAN
  /\ where = [c \in Peers |-> "types"] /\ sent = [c \in Peers |-> 0]
  /\ replies = [c \in Peers |-> <<>>]

Gone(S, d) == IF duplicates THEN {S, S \ {d}} ELSE {S \ {d}}

(* Mutant of Serve: the server answers no line longer than "close\n".       *)
ServeShort(d, word) ==
  /\ open /\ d \in requests /\ requests' \in Gone(requests, d)
  /\ stale' = (stale \/ word = "long") /\ open' = ~(word = "close" /\ ~stale)
  /\ answers' = IF open' /\ word # "long" THEN answers \cup {d} ELSE answers
  /\ UNCHANGED <<duplicates, lost, peer>>

(* Nothing ends the string in message, so strcmp compares what an earlier,  *)
(* longer datagram has left behind "close\n" as well.                       *)
Serve(d, word) ==
  /\ open /\ d \in requests /\ requests' \in Gone(requests, d)
  /\ stale' = (stale \/ word = "long")
  /\ open' = ~(word = "close" /\ ~stale)
  /\ answers' = IF open' THEN answers \cup {d} ELSE answers
  /\ UNCHANGED <<duplicates, lost, peer>>

AsksOn(c) ==   \* mutant of Asks: the client may send again while it waits
  /\ where[c] # "quit" /\ sent[c] < MaxSent
  /\ sent' = [sent EXCEPT ![c] = @ + 1]
  /\ requests' = requests \cup {<<c, sent'[c]>>}
  /\ where' = [where EXCEPT ![c] = "awaits"]
  /\ UNCHANGED <<duplicates, answers, lost, open, stale, replies>>

Asks(c) ==
  /\ where[c] = "types" /\ sent[c] < MaxSent
  /\ sent' = [sent EXCEPT ![c] = @ + 1]
  /\ requests' = requests \cup {<<c, sent'[c]>>}
  /\ where' = [where EXCEPT ![c] = "awaits"]
  /\ UNCHANGED <<duplicates, answers, lost, open, stale, replies>>

(* recvfrom takes any datagram for the answer.                              *)
Hears(c) ==
  /\ where[c] = "awaits" /\ where' = [where EXCEPT ![c] = "types"]
  /\ \E d \in answers :
       /\ d[1] = c /\ answers' \in Gone(answers, d)
       /\ replies' = [replies EXCEPT ![c] = Append(@, d[2])]
  /\ UNCHANGED <<duplicates, requests, lost, open, stale, sent>>

Leaves(c) ==
  /\ where[c] = "types" /\ where' = [where EXCEPT ![c] = "quit"]
  /\ UNCHANGED <<net, open, stale, sent, replies>>

Lose ==
  \E d \in requests \cup answers :
    /\ \/ d \in requests /\ requests' = requests \ {d} /\ UNCHANGED answers
       \/ d \in answers /\ answers' = answers \ {d} /\ UNCHANGED requests
    /\ lost' = IF duplicates THEN lost ELSE lost \cup {d}
    /\ UNCHANGED <<duplicates, open, stale, peer>>

Serves == \E d \in requests, word \in {"short", "long", "close"} : Serve(d, word)

UdpNext == Serves \/ Lose \/ \E c \in Peers : Asks(c) \/ Hears(c) \/ Leaves(c)

UdpSpec == UdpInit /\ [][UdpNext]_udpvars
UdpFairness == WF_udpvars(Serves) /\ \A c \in Peers : WF_udpvars(Hears(c))
-----------------------------------------------------------------------------
(* Properties.                                                              *)

(* uecho_client.cpp:63: an answer is taken for that of the line just sent.  *)
(* That is right as long as the network does not duplicate, however much it *)
(* loses and reorders: the two programs keep one datagram under way.  With  *)
(* duplicates it may be an earlier line's, never one not sent yet.          *)
AnswersFitQuestions ==
  \A c \in Peers : \A i \in 1 .. Len(replies[c]) :
    replies[c][i] \in IF duplicates THEN 1 .. i ELSE {i}

(* Nothing else than a lost datagram or a closed server leaves a client     *)
(* waiting in recvfrom for ever, if no datagram comes twice (one that comes *)
(* again and again keeps the server busy with it).                          *)
OnlyLossBlocks ==
  \A c \in Peers :
    (where[c] = "awaits" /\ ~duplicates)
      ~> (where[c] # "awaits" \/ <<c, sent[c]>> \in lost \/ ~open)
=============================================================================
