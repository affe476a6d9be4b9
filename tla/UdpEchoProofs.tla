--------------------------- MODULE UdpEchoProofs ---------------------------
(***************************************************************************)
(* The UDP pair matches answers to questions, for any number of clients and *)
(* lines and whatever the network does.                                     *)
(***************************************************************************)
EXTENDS UdpEcho, SequenceTheorems, TLAPS

UdpTypeOK ==
  /\ duplicates \in BOOLEAN
  /\ requests \subseteq Peers \X Nat /\ answers \subseteq Peers \X Nat
  /\ where \in [Peers -> {"types", "awaits", "quit"}]
  /\ sent \in [Peers -> Nat] /\ replies \in [Peers -> Seq(Nat)]

(* Each line has been answered, but for the one a client waits for.         *)
Pending(c) == IF where[c] = "awaits" THEN 1 ELSE 0
AnsweredSoFar == \A c \in Peers : Len(replies[c]) + Pending(c) = sent[c]

(* No datagram is of a line not sent yet.  Without duplicates, all that is  *)
(* under way is the line its client waits for, once.                        *)
Known == \A d \in requests \cup answers : 1 <= d[2] /\ d[2] <= sent[d[1]]
OneUnderWay ==
  ~duplicates =>
    /\ requests \cap answers = {}
    /\ \A d \in requests \cup answers : where[d[1]] = "awaits" /\ d[2] = sent[d[1]]

UdpInv == UdpTypeOK /\ AnsweredSoFar /\ Known /\ OneUnderWay /\ AnswersFitQuestions

LEMMA AppendReply ==
  ASSUME NEW s \in Seq(Nat), NEW n \in Nat
  PROVE  /\ Append(s, n) \in Seq(Nat) /\ Len(Append(s, n)) = Len(s) + 1
         /\ Append(s, n)[Len(s) + 1] = n
         /\ \A i \in 1 .. Len(s) : Append(s, n)[i] = s[i]
  OBVIOUS

LEMMA UdpInitInv == UdpInit => UdpInv
  BY DEF UdpInit, UdpInv, UdpTypeOK, AnsweredSoFar, Pending, Known, OneUnderWay,
         AnswersFitQuestions

LEMMA ServeInv ==
  ASSUME UdpInv, NEW d \in requests, NEW word \in {"short", "long", "close"}, Serve(d, word)
  PROVE  UdpInv'
<1> USE DEF UdpInv, UdpTypeOK
<1>1. /\ requests' \subseteq requests /\ answers' \subseteq answers \cup {d}
      /\ UNCHANGED <<duplicates, where, sent, replies>>
  BY DEF Serve, Gone, peer
<1>2. ~duplicates => requests' = requests \ {d}
  BY DEF Serve, Gone
<1>3. OneUnderWay'
  BY <1>1, <1>2 DEF OneUnderWay
<1>4. Known'
  BY <1>1 DEF Known
<1>5. AnsweredSoFar' /\ AnswersFitQuestions'
  BY <1>1 DEF AnsweredSoFar, Pending, AnswersFitQuestions
<1>6. UdpTypeOK'
  BY <1>1
<1> QED
  BY <1>3, <1>4, <1>5, <1>6

LEMMA AsksInv == ASSUME UdpInv, NEW c \in Peers, Asks(c) PROVE UdpInv'
<1> USE DEF UdpInv, UdpTypeOK, Asks
<1>1. /\ sent'[c] = sent[c] + 1 /\ where'[c] = "awaits" /\ where[c] = "types"
      /\ \A b \in Peers : b # c => sent'[b] = sent[b] /\ where'[b] = where[b]
      /\ requests' = requests \cup {<<c, sent[c] + 1>>}
      /\ UNCHANGED <<duplicates, answers, replies>>
  OBVIOUS
<1>2. UdpTypeOK'
  BY <1>1
<1>3. AnsweredSoFar'
  BY <1>1 DEF AnsweredSoFar, Pending
<1>4. Known'
  <2> SUFFICES ASSUME NEW d \in requests' \cup answers' PROVE 1 <= d[2] /\ d[2] <= sent'[d[1]]
    BY DEF Known
  <2>1. CASE d \in requests \cup answers
    <3>1. d[1] \in Peers /\ d[2] \in Nat
      BY <2>1
    <3>2. 1 <= d[2] /\ d[2] <= sent[d[1]]
      BY <2>1 DEF Known
    <3> QED
      BY <1>1, <3>1, <3>2
  <2>2. CASE d = <<c, sent[c] + 1>>
    BY <1>1, <2>2
  <2> QED
    BY <1>1, <2>1, <2>2
<1>5. OneUnderWay'
  <2> SUFFICES ASSUME ~duplicates PROVE
        /\ requests' \cap answers' = {}
        /\ \A d \in requests' \cup answers' : where'[d[1]] = "awaits" /\ d[2] = sent'[d[1]]
    BY <1>1 DEF OneUnderWay
  <2>1. \A d \in requests \cup answers : d[1] # c /\ d[1] \in Peers
    BY <1>1 DEF OneUnderWay
  <2>2. <<c, sent[c] + 1>>[1] = c /\ <<c, sent[c] + 1>>[2] = sent[c] + 1
    OBVIOUS
  <2>3. requests' \cap answers' = {}
    BY <1>1, <2>1, <2>2 DEF OneUnderWay
  <2>4. ASSUME NEW d \in requests' \cup answers'
        PROVE  where'[d[1]] = "awaits" /\ d[2] = sent'[d[1]]
    <3>1. CASE d \in requests \cup answers
      BY <1>1, <2>1, <3>1 DEF OneUnderWay
    <3>2. CASE d = <<c, sent[c] + 1>>
      BY <1>1, <3>2
    <3> QED
      BY <1>1, <3>1, <3>2
  <2> QED
    BY <2>3, <2>4
<1>6. AnswersFitQuestions'
  <2> HIDE DEF Asks, UdpTypeOK
  <2> QED
    BY <1>1 DEF AnswersFitQuestions
<1> QED
  BY <1>2, <1>3, <1>4, <1>5, <1>6

LEMMA HearsInv == ASSUME UdpInv, NEW c \in Peers, Hears(c) PROVE UdpInv'
<1> USE DEF UdpInv, UdpTypeOK
<1>1. PICK d \in answers :
        /\ d[1] = c /\ answers' \in Gone(answers, d)
        /\ replies' = [replies EXCEPT ![c] = Append(@, d[2])]
  BY DEF Hears
<1>2. /\ where[c] = "awaits" /\ where'[c] = "types"
      /\ \A b \in Peers : b # c => where'[b] = where[b] /\ replies'[b] = replies[b]
      /\ replies'[c] = Append(replies[c], d[2])
      /\ answers' \subseteq answers /\ (~duplicates => answers' = answers \ {d})
      /\ d \in Peers \X Nat /\ d[2] \in Nat /\ d = <<c, d[2]>>
      /\ UNCHANGED <<duplicates, requests, sent>>
  BY <1>1 DEF Hears, Gone
<1>3. Len(replies'[c]) = Len(replies[c]) + 1 /\ Len(replies[c]) \in Nat
  BY <1>2, AppendReply
<1>4. UdpTypeOK'
  <2>1. replies' \in [Peers -> Seq(Nat)]
    BY <1>1, <1>2, AppendReply
  <2> QED
    BY <1>2, <2>1 DEF Hears
<1>5. AnsweredSoFar'
  <2> SUFFICES ASSUME NEW b \in Peers PROVE Len(replies'[b]) + Pending(b)' = sent[b]
    BY <1>2 DEF AnsweredSoFar
  <2>1. Len(replies[b]) + Pending(b) = sent[b]
    BY DEF AnsweredSoFar
  <2>2. CASE b # c
    BY <1>2, <2>1, <2>2 DEF Pending
  <2>3. CASE b = c
    <3>1. Pending(b) = 1 /\ Pending(b)' = 0
      BY <1>2, <2>3 DEF Pending
    <3>2. Len(replies'[b]) = Len(replies[b]) + 1 /\ Len(replies[b]) \in Nat
      BY <1>3, <2>3
    <3> HIDE DEF Pending, UdpInv, UdpTypeOK
    <3> QED
      BY <2>1, <3>1, <3>2
  <2> QED
    BY <2>2, <2>3
<1>6. Known'
  BY <1>2 DEF Known
<1>7. OneUnderWay'
  <2> SUFFICES ASSUME ~duplicates, NEW e \in requests \cup answers' PROVE e[1] # c
    BY <1>2 DEF OneUnderWay
  <2> SUFFICES ASSUME e[1] = c PROVE FALSE
    OBVIOUS
  <2>1. e \in requests \cup answers /\ e \in Peers \X Nat
    BY <1>2
  <2>2. e[2] = sent[c] /\ d[2] = sent[c]
    BY <1>1, <2>1 DEF OneUnderWay
  <2>3. e = d
    <3>1. e = <<e[1], e[2]>>
      BY <2>1
    <3> QED
      BY <1>2, <2>2, <3>1
  <2> QED
    BY <1>2, <2>3 DEF OneUnderWay
<1>8. AnswersFitQuestions'
  <2> SUFFICES ASSUME NEW b \in Peers, NEW i \in 1 .. Len(replies'[b])
               PROVE  replies'[b][i] \in IF duplicates THEN 1 .. i ELSE {i}
    BY <1>2 DEF AnswersFitQuestions
  <2>0. \A j \in 1 .. Len(replies[b]) : replies[b][j] \in IF duplicates THEN 1 .. j ELSE {j}
    BY DEF AnswersFitQuestions
  <2>1. CASE b # c
    BY <1>2, <2>0, <2>1
  <2>2. CASE b = c /\ i \in 1 .. Len(replies[c])
    <3>1. replies'[c][i] = replies[c][i]
      BY <1>2, <2>2, AppendReply
    <3> QED
      BY <2>0, <2>2, <3>1
  <2>3. CASE b = c /\ i = Len(replies[c]) + 1
    <3>1. replies'[c][i] = d[2]
      BY <1>2, <2>3, AppendReply
    <3>2. i = sent[c]
      BY <1>2, <1>3, <2>3 DEF AnsweredSoFar, Pending
    <3>3. 1 <= d[2] /\ d[2] <= sent[c] /\ (~duplicates => d[2] = sent[c])
      BY <1>1 DEF Known, OneUnderWay
    <3> QED
      BY <1>2, <2>3, <3>1, <3>2, <3>3
  <2> QED
    BY <1>3, <2>1, <2>2, <2>3
<1> QED
  BY <1>4, <1>5, <1>6, <1>7, <1>8

LEMMA UdpNextInv == UdpInv /\ [UdpNext]_udpvars => UdpInv'
<1> SUFFICES ASSUME UdpInv, [UdpNext]_udpvars PROVE UdpInv'
  OBVIOUS
<1>1. CASE Serves
  BY <1>1, ServeInv DEF Serves
<1>2. CASE Lose
  <2>1. /\ requests' \subseteq requests /\ answers' \subseteq answers
        /\ UNCHANGED <<duplicates, where, sent, replies>>
    BY <1>2 DEF Lose, peer
  <2> QED
    BY <2>1 DEF UdpInv, UdpTypeOK, AnsweredSoFar, Pending, Known, OneUnderWay, AnswersFitQuestions
<1>3. ASSUME NEW c \in Peers, Asks(c) \/ Hears(c) PROVE UdpInv'
  BY <1>3, AsksInv, HearsInv
<1>4. ASSUME NEW c \in Peers, Leaves(c) PROVE UdpInv'
  <2>1. /\ where[c] = "types" /\ where'[c] = "quit"
        /\ where' \in [Peers -> {"types", "awaits", "quit"}]
        /\ \A b \in Peers : b # c => where'[b] = where[b]
        /\ UNCHANGED <<duplicates, requests, answers, sent, replies>>
    BY <1>4 DEF Leaves, UdpInv, UdpTypeOK, net
  <2>2. AnsweredSoFar'
    BY <2>1 DEF UdpInv, AnsweredSoFar, Pending
  <2>3. OneUnderWay'
    BY <2>1 DEF UdpInv, UdpTypeOK, OneUnderWay
  <2> QED
    BY <2>1, <2>2, <2>3 DEF UdpInv, UdpTypeOK, Known, AnswersFitQuestions
<1>5. CASE UNCHANGED udpvars
  BY <1>5 DEF udpvars, net, peer, UdpInv, UdpTypeOK, AnsweredSoFar, Pending, Known, OneUnderWay,
              AnswersFitQuestions
<1> QED
  BY <1>1, <1>2, <1>3, <1>4, <1>5 DEF UdpNext

(* An answer a client takes for that of its last line is that answer if the *)
(* network does not duplicate, and never one to a line not sent (63).       *)
THEOREM AnswersAreMatched == UdpSpec => []AnswersFitQuestions
<1>1. UdpInv => AnswersFitQuestions
  BY DEF UdpInv
<1> QED
  BY <1>1, UdpInitInv, UdpNextInv, PTL DEF UdpSpec
=============================================================================
