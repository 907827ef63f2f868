----------------------------- MODULE HalCommProofs ----------------------------
(***************************************************************************)
(* Proofs about HalComm for any number of callers, channels and messages,  *)
(* any size of the queues and any bound on writes and failures: no reader  *)
(* sleeps over a message, every broadcast reaches every channel, and       *)
(* queues keep whole records.                                              *)
(***************************************************************************)
EXTENDS HalComm, QueueProofs

Keys == Channels \cup {All}
Entry == [msg : Messages, cast : Nat]

Sending == {"write", "put", "drop", "data", "wake"}
Placed == Sending \cup {"wait", "asleep", "read", "get"}

(* A caller past the list works on a channel of it, and a sender has a
   message, one that fits when it touches the queue. *)
PlaceInv ==
    \A t \in Callers :
        /\ pc[t] \in Placed => tmp_list[t] \in 1 .. Len(list)
        /\ pc[t] \in Sending => Writing(t)
        /\ pc[t] \in {"put", "drop", "data"} => Accepted(argv[t])

TypeInv == TypeOK /\ PlaceInv

----------------------------------------------------------------------------
(* The queues. *)

LEMMA KfifoInIsQueue ==
    ASSUME NEW q \in Seq(Nat), Len(q) <= FifoSize, NEW w \in Seq(Nat)
    PROVE  KfifoIn(q, w) \in Seq(Nat) /\ Len(KfifoIn(q, w)) <= FifoSize
<1> DEFINE n == IF Len(w) <= FifoSize - Len(q) THEN Len(w) ELSE FifoSize - Len(q)
<1>1. Len(q) \in Nat /\ Len(w) \in Nat /\ FifoSize \in Nat
      BY HalCommAssumption, LenProperties
<1>2. n \in Nat /\ n <= Len(w) /\ Len(q) + n <= FifoSize
      BY <1>1
<1>3. \A i \in 1 .. n : w[i] \in Nat
      BY <1>1, <1>2, ElementOfSeq
<1> HIDE DEF n
<1>4. SubSeq(w, 1, n) \in Seq(Nat) /\ Len(SubSeq(w, 1, n)) = n
      BY <1>2, <1>3, SubSeqProperties
<1>5. /\ q \o SubSeq(w, 1, n) \in Seq(Nat)
      /\ Len(q \o SubSeq(w, 1, n)) = Len(q) + n
      BY <1>4, ConcatProperties
<1>6. KfifoIn(q, w) = q \o SubSeq(w, 1, n)
      BY DEF KfifoIn, n
<1>7. QED BY <1>2, <1>5, <1>6

LEMMA KfifoRestIsQueue ==
    ASSUME NEW q \in Seq(Nat), NEW n \in Nat
    PROVE  /\ KfifoRest(q, n) \in Seq(Nat) /\ Len(KfifoRest(q, n)) <= Len(q)
           /\ q = <<>> => KfifoRest(q, n) = <<>>
<1>1. Len(q) \in Nat
      BY LenProperties
<1>2. \A i \in n + 1 .. Len(q) : q[i] \in Nat
      BY <1>1, ElementOfSeq
<1>3. /\ SubSeq(q, n + 1, Len(q)) \in Seq(Nat)
      /\ Len(SubSeq(q, n + 1, Len(q))) = IF n + 1 <= Len(q) THEN Len(q) - (n + 1) + 1 ELSE 0
      BY <1>1, <1>2, SubSeqProperties
<1>4. q = <<>> => SubSeq(q, n + 1, Len(q)) = <<>>
      BY <1>1, <1>3, EmptySeq
<1>5. QED BY <1>1, <1>3, <1>4 DEF KfifoRest

LEMMA KfifoOutIsMessage ==
    ASSUME NEW q \in Seq(Nat), NEW n \in Nat
    PROVE  KfifoOut(q, n) \in Seq(Nat)
<1> DEFINE k == IF n <= Len(q) THEN n ELSE Len(q)
<1>1. Len(q) \in Nat
      BY LenProperties
<1>2. k \in Nat /\ \A i \in 1 .. k : q[i] \in Nat
      BY <1>1, ElementOfSeq
<1> HIDE DEF k
<1>3. SubSeq(q, 1, k) \in Seq(Nat)
      BY <1>2, SubSeqProperties
<1>4. QED BY <1>3 DEF KfifoOut, k

LEMMA EmptyFits == \A q : q = <<>> => q \in Seq(Nat) /\ Len(q) <= FifoSize
BY HalCommAssumption, EmptySeq

(* A queue of a channel is one, and takes a new content. *)
LEMMA QueueUpdate ==
    ASSUME TypeInv, NEW n \in 1 .. Len(list), NEW q \in Seq(Nat), Len(q) <= FifoSize
    PROVE  /\ fifo[n] \in Seq(Nat) /\ Len(fifo[n]) <= FifoSize
           /\ [fifo EXCEPT ![n] = q] \in Seq(Seq(Nat))
           /\ Len([fifo EXCEPT ![n] = q]) = Len(list)
           /\ \A i \in 1 .. Len(list) : [fifo EXCEPT ![n] = q][i] = IF i = n THEN q ELSE fifo[i]
           /\ \A i \in DOMAIN [fifo EXCEPT ![n] = q] : Len([fifo EXCEPT ![n] = q][i]) <= FifoSize
<1>1. fifo \in Seq(Seq(Nat)) /\ Len(fifo) = Len(list) /\ DOMAIN fifo = 1 .. Len(list)
      BY LenProperties DEF TypeInv, TypeOK
<1>2. \A i \in 1 .. Len(list) : fifo[i] \in Seq(Nat) /\ Len(fifo[i]) <= FifoSize
      BY <1>1, ElementOfSeq DEF TypeInv, TypeOK
<1>3. /\ [fifo EXCEPT ![n] = q] \in Seq(Seq(Nat))
      /\ Len([fifo EXCEPT ![n] = q]) = Len(list)
      /\ \A i \in 1 .. Len(list) : [fifo EXCEPT ![n] = q][i] = IF i = n THEN q ELSE fifo[i]
      BY <1>1, ExceptSeq
<1>4. DOMAIN [fifo EXCEPT ![n] = q] = 1 .. Len(list)
      BY <1>1
<1>5. QED BY <1>2, <1>3, <1>4

LEMMA LockUpdate ==
    ASSUME TypeInv, NEW n \in 1 .. Len(list), NEW h \in Callers \cup {Nobody}
    PROVE  /\ [rw_lock EXCEPT ![n] = h] \in Seq(Callers \cup {Nobody})
           /\ Len([rw_lock EXCEPT ![n] = h]) = Len(list)
BY ExceptSeq DEF TypeInv, TypeOK

----------------------------------------------------------------------------
(* Types and places. *)

LEMMA InitType == Init => TypeInv
<1>1. SUFFICES ASSUME Init PROVE TypeInv
      OBVIOUS
<1>2. \A S : <<>> \in Seq(S) /\ Len(<<>>) = 0 /\ DOMAIN <<>> = {}
      BY EmptySeq
<1>3. TypeOK
      BY <1>1, <1>2 DEF Init, TypeOK, Labels
<1>4. PlaceInv
      BY <1>1 DEF Init, PlaceInv, Placed, Sending
<1>5. QED BY <1>3, <1>4 DEF TypeInv

(* The locals after a call has ended. *)
LEMMA EndCallType ==
    ASSUME TypeInv, NEW t \in Callers, NEW where \in [Callers -> Labels], EndCall(t, where)
    PROVE  /\ pc' \in [Callers -> Labels] /\ key' \in [Callers -> Keys]
           /\ argv' \in [Callers -> Messages \cup {<<>>}]
           /\ tmp_list' \in [Callers -> 0 .. Len(list)] /\ data_len' \in [Callers -> Nat]
           /\ pc'[t] = "idle"
           /\ \A r \in Callers \ {t} :
                 pc'[r] = where[r] /\ argv'[r] = argv[r] /\ tmp_list'[r] = tmp_list[r]
<1>1. Len(list) \in Nat
      BY LenProperties DEF TypeInv, TypeOK
<1>2. QED BY <1>1 DEF TypeInv, TypeOK, EndCall, Labels, Keys

(* A return that leaves queues and history alone, apart from got. *)
LEMMA QuietReturn ==
    ASSUME TypeInv, NEW t \in Callers, NEW where \in [Callers -> Labels], EndCall(t, where),
           \A r \in Callers : where[r] = pc[r] \/ (where[r] = "wait" /\ pc[r] = "asleep"),
           UNCHANGED <<list, fifo, rw_lock, sent, born, casts, got, writes>>,
           failures' \in Nat, list_mutex' \in Callers \cup {Nobody}
    PROVE  TypeInv'
<1>1. TypeOK'
  <2>1. UNCHANGED list
        OBVIOUS
  <2>2. QED BY <2>1, EndCallType DEF TypeInv, TypeOK, Keys
<1>2. PlaceInv'
  <2>1. UNCHANGED list
        OBVIOUS
  <2>2. QED BY <2>1, EndCallType DEF TypeInv, PlaceInv, Placed, Sending, Writing, Accepted
<1>3. QED BY <1>1, <1>2 DEF TypeInv

LEMMA CallType ==
    ASSUME TypeInv, NEW t \in Callers, NEW k \in Keys, NEW m \in Messages \cup {<<>>},
           Call(t, k, m)
    PROVE  TypeInv'
<1> USE DEF Call, Goto, channels
<1>1. TypeOK'
  <2>1. <<>> \in Seq(Nat)
        BY EmptySeq
  <2>2. QED BY <2>1 DEF TypeInv, TypeOK, Labels, Keys
<1>2. PlaceInv'
      BY DEF TypeInv, TypeOK, PlaceInv, Placed, Sending, Writing, Accepted
<1>3. QED BY <1>1, <1>2 DEF TypeInv

LEMMA SearchType ==
    ASSUME TypeInv, NEW t \in Callers, search_each_node(t)
    PROVE  TypeInv'
<1>0. Len(list) \in Nat /\ DOMAIN list = 1 .. Len(list)
      BY LenProperties DEF TypeInv, TypeOK
<1> USE <1>0 DEF search_each_node, Goto, channels, Work, history
<1>1. TypeOK'
  <2>1. pc' \in [Callers -> Labels]
        BY DEF TypeInv, TypeOK, Labels
  <2>2. tmp_list' \in [Callers -> 0 .. Len(list)] /\ list_mutex' \in Callers \cup {Nobody}
    <3>1. \/ \E n \in 1 .. Len(list) : tmp_list' = [tmp_list EXCEPT ![t] = n]
          \/ tmp_list' = tmp_list
          OBVIOUS
    <3>2. list_mutex' \in {list_mutex, Nobody}
          OBVIOUS
    <3> HIDE DEF search_each_node, Goto, channels, Work, history
    <3>3. tmp_list' \in [Callers -> 0 .. Len(list)]
      <4>1. tmp_list \in [Callers -> 0 .. Len(list)]
            BY DEF TypeInv, TypeOK
      <4>2. CASE tmp_list' = tmp_list
            BY <4>1, <4>2
      <4>3. ASSUME NEW n \in 1 .. Len(list), tmp_list' = [tmp_list EXCEPT ![t] = n]
            PROVE  tmp_list' \in [Callers -> 0 .. Len(list)]
        <5>1. n \in 0 .. Len(list)
              OBVIOUS
        <5>2. QED BY <4>1, <4>3, <5>1
      <4>4. QED BY <3>1, <4>2, <4>3
    <3>4. list_mutex' \in Callers \cup {Nobody}
          BY <3>2 DEF TypeInv, TypeOK
    <3>5. QED BY <3>3, <3>4
  <2>3. QED BY <2>1, <2>2 DEF TypeInv, TypeOK
<1>2. PlaceInv'
      BY DEF TypeInv, TypeOK, PlaceInv, Placed, Sending, Writing, Accepted
<1>3. QED BY <1>1, <1>2 DEF TypeInv

LEMMA AddType ==
    ASSUME TypeInv, NEW t \in Callers, add_node_list(t)
    PROVE  TypeInv'
<1> USE DEF add_node_list, Goto, Work
<1>0. /\ list \in Seq(Keys) /\ Len(list) \in Nat /\ key[t] \in Keys
      /\ list' \in Seq(Keys) /\ Len(list') = Len(list) + 1
      BY LenProperties, AppendProperties DEF TypeInv, TypeOK, Keys
<1>1. TypeOK'
  <2>1. <<>> \in Seq(Nat) /\ <<>> \in Seq(Entry) /\ Len(<<>>) = 0
        BY EmptySeq
  <2>2. /\ fifo' \in Seq(Seq(Nat)) /\ Len(fifo') = Len(list')
        /\ \A n \in 1 .. Len(fifo) : fifo'[n] = fifo[n]
        /\ fifo'[Len(fifo) + 1] = <<>>
        BY <1>0, <2>1, AppendProperties DEF TypeInv, TypeOK
  <2>3. \A n \in DOMAIN fifo' : Len(fifo'[n]) <= FifoSize
    <3>1. /\ DOMAIN fifo' = 1 .. Len(list) + 1 /\ DOMAIN fifo = 1 .. Len(list)
          /\ Len(fifo) = Len(list)
          BY <1>0, <2>2, LenProperties DEF TypeInv, TypeOK
    <3>2. \A n \in 1 .. Len(list) : Len(fifo[n]) <= FifoSize
          BY <3>1 DEF TypeInv, TypeOK
    <3>3. \A n \in 1 .. Len(list) : Len(fifo'[n]) <= FifoSize
          BY <3>1, <3>2, <2>2
    <3>4. Len(fifo'[Len(list) + 1]) <= FifoSize
      <4>1. fifo'[Len(list) + 1] = <<>>
            BY <3>1, <2>2
      <4>2. QED BY <4>1, EmptyFits
    <3>5. \A n \in 1 .. Len(list) + 1 : Len(fifo'[n]) <= FifoSize
      <4>1. \A n \in 1 .. Len(list) + 1 : n \in 1 .. Len(list) \/ n = Len(list) + 1
            BY <1>0
      <4>2. QED BY <4>1, <3>3, <3>4, Zenon
    <3>6. QED BY <3>1, <3>5, Zenon
  <2>4. rw_lock' \in Seq(Callers \cup {Nobody}) /\ Len(rw_lock') = Len(list')
    <3>1. rw_lock \in Seq(Callers \cup {Nobody}) /\ Len(rw_lock) = Len(list)
          BY DEF TypeInv, TypeOK
    <3>2. /\ Append(rw_lock, Nobody) \in Seq(Callers \cup {Nobody})
          /\ Len(Append(rw_lock, Nobody)) = Len(rw_lock) + 1
          BY <3>1, AppendProperties
    <3>3. rw_lock' = Append(rw_lock, Nobody)
          OBVIOUS
    <3>4. QED BY <1>0, <3>1, <3>2, <3>3
  <2>5. sent' \in Seq(Seq(Entry)) /\ Len(sent') = Len(list')
        BY <1>0, <2>1, AppendProperties DEF TypeInv, TypeOK, Entry
  <2>6. born' \in Seq(Nat) /\ Len(born') = Len(list')
        BY <1>0, AppendProperties DEF TypeInv, TypeOK
  <2>7. tmp_list' \in [Callers -> 0 .. Len(list')]
        BY <1>0 DEF TypeInv, TypeOK
  <2>8. QED BY <1>0, <2>2, <2>3, <2>4, <2>5, <2>6, <2>7
        DEF TypeInv, TypeOK, Labels, Entry, Keys
<1>2. PlaceInv'
      BY <1>0 DEF TypeInv, TypeOK, PlaceInv, Placed, Sending, Writing, Accepted
<1>3. QED BY <1>1, <1>2 DEF TypeInv

LEMMA StartType ==
    ASSUME TypeInv, NEW t \in Callers, StartBroadcast(t)
    PROVE  TypeInv'
<1>0. Len(list) \in Nat /\ Len(list) > 0
      BY LenProperties, EmptySeq DEF TypeInv, TypeOK, StartBroadcast
<1> USE <1>0 DEF StartBroadcast, Goto, channels
<1>1. TypeOK'
      BY DEF TypeInv, TypeOK, Labels
<1>2. PlaceInv'
      BY DEF TypeInv, TypeOK, PlaceInv, Placed, Sending, Writing, SendsAll, Accepted
<1>3. QED BY <1>1, <1>2 DEF TypeInv

LEMMA LockType ==
    ASSUME TypeInv, NEW t \in Callers, LockToWrite(t)
    PROVE  TypeInv'
<1>0. tmp_list[t] \in 1 .. Len(list)
      BY DEF TypeInv, PlaceInv, Placed, Sending, LockToWrite
<1> USE DEF LockToWrite, Goto, channels, history
<1>1. rw_lock' \in Seq(Callers \cup {Nobody}) /\ Len(rw_lock') = Len(list)
  <2>1. /\ [rw_lock EXCEPT ![tmp_list[t]] = t] \in Seq(Callers \cup {Nobody})
        /\ Len([rw_lock EXCEPT ![tmp_list[t]] = t]) = Len(list)
        BY <1>0, LockUpdate
  <2>2. QED BY <2>1 DEF TypeInv, TypeOK
<1>2. TypeOK'
      BY <1>1 DEF TypeInv, TypeOK, Labels
<1>3. PlaceInv'
      BY DEF TypeInv, TypeOK, PlaceInv, Placed, Sending, Writing, Accepted
<1>4. QED BY <1>2, <1>3 DEF TypeInv


(* The caller's channel, once it has one. *)
LEMMA Channel ==
    ASSUME TypeInv, NEW t \in Callers, pc[t] \in Placed
    PROVE  /\ tmp_list[t] \in 1 .. Len(list)
           /\ fifo[tmp_list[t]] \in Seq(Nat) /\ Len(fifo[tmp_list[t]]) <= FifoSize
           /\ data_len[t] \in Nat
<1>1. tmp_list[t] \in 1 .. Len(list)
      BY DEF TypeInv, PlaceInv
<1>2. QED BY <1>1, QueueUpdate, EmptyFits DEF TypeInv, TypeOK

(* A step of t on the queue of its channel. *)
LEMMA QueueStep ==
    ASSUME TypeInv, NEW t \in Callers, pc[t] \in Placed,
           NEW q \in Seq(Nat), Len(q) <= FifoSize,
           fifo' = [fifo EXCEPT ![tmp_list[t]] = q]
    PROVE  /\ fifo' \in Seq(Seq(Nat)) /\ Len(fifo') = Len(list)
           /\ \A n \in DOMAIN fifo' : Len(fifo'[n]) <= FifoSize
           /\ \A n \in 1 .. Len(list) : fifo'[n] = IF n = tmp_list[t] THEN q ELSE fifo[n]
BY Channel, QueueUpdate

LEMMA QueueHead ==
    ASSUME NEW q \in Seq(Nat), q # <<>>
    PROVE  Head(q) \in Nat /\ Tail(q) \in Seq(Nat) /\ Len(Tail(q)) <= Len(q)
BY HeadTailProperties, LenProperties

LEMMA DropLengthType ==
    ASSUME TypeInv, NEW t \in Callers, DropLength(t)
    PROVE  TypeInv'
<1> DEFINE q == fifo[tmp_list[t]]
<1>1. /\ pc[t] = "put" /\ q # <<>>
      /\ fifo' = [fifo EXCEPT ![tmp_list[t]] = Tail(q)]
      /\ data_len' = [data_len EXCEPT ![t] = Head(q)]
      /\ pc' = [pc EXCEPT ![t] = "drop"]
      /\ UNCHANGED <<list, rw_lock, list_mutex, key, argv, tmp_list, sent, born, casts, got,
                     writes, failures>>
      BY DEF DropLength, Goto, history
<1>2. pc[t] \in Placed
      BY <1>1 DEF Placed, Sending
<1>3. q \in Seq(Nat) /\ Len(q) <= FifoSize
      BY <1>2, Channel
<1>4. Head(q) \in Nat /\ Tail(q) \in Seq(Nat) /\ Len(Tail(q)) <= FifoSize
      BY <1>1, <1>3, QueueHead, LenProperties, HalCommAssumption
<1>5. /\ fifo' \in Seq(Seq(Nat)) /\ Len(fifo') = Len(list)
      /\ \A n \in DOMAIN fifo' : Len(fifo'[n]) <= FifoSize
      BY <1>1, <1>2, <1>4, QueueStep
<1>6. TypeOK'
      BY <1>1, <1>4, <1>5 DEF TypeInv, TypeOK, Labels
<1>7. PlaceInv'
      BY <1>1 DEF TypeInv, TypeOK, PlaceInv, Placed, Sending, Writing, Accepted
<1>8. QED BY <1>6, <1>7 DEF TypeInv

LEMMA DropDataType ==
    ASSUME TypeInv, NEW t \in Callers, DropData(t)
    PROVE  TypeInv'
<1> DEFINE q == KfifoRest(fifo[tmp_list[t]], data_len[t])
<1>1. /\ pc[t] = "drop"
      /\ fifo' = [fifo EXCEPT ![tmp_list[t]] = q]
      /\ pc' = [pc EXCEPT ![t] = "put"]
      /\ UNCHANGED <<list, rw_lock, list_mutex, key, argv, tmp_list, data_len, sent, born,
                     casts, got, writes, failures>>
      BY DEF DropData, Goto, history
<1>2. pc[t] \in Placed
      BY <1>1 DEF Placed, Sending
<1>3. q \in Seq(Nat) /\ Len(q) <= FifoSize
      BY <1>2, Channel, KfifoRestIsQueue, LenProperties, HalCommAssumption
<1> HIDE DEF q
<1>5. /\ fifo' \in Seq(Seq(Nat)) /\ Len(fifo') = Len(list)
      /\ \A n \in DOMAIN fifo' : Len(fifo'[n]) <= FifoSize
      BY <1>1, <1>2, <1>3, QueueStep
<1>6. TypeOK'
      BY <1>1, <1>5 DEF TypeInv, TypeOK, Labels
<1>7. PlaceInv'
      BY <1>1 DEF TypeInv, TypeOK, PlaceInv, Placed, Sending, Writing, Accepted
<1>8. QED BY <1>6, <1>7 DEF TypeInv

LEMMA PutLengthType ==
    ASSUME TypeInv, NEW t \in Callers, PutLength(t)
    PROVE  TypeInv'
<1> DEFINE q == KfifoIn(fifo[tmp_list[t]], <<Len(argv[t])>>)
<1>1. /\ pc[t] = "put"
      /\ fifo' = [fifo EXCEPT ![tmp_list[t]] = q]
      /\ pc' = [pc EXCEPT ![t] = "data"]
      /\ UNCHANGED <<list, rw_lock, list_mutex, key, argv, tmp_list, data_len, sent, born,
                     casts, got, writes, failures>>
      BY DEF PutLength, Goto, history
<1>2. pc[t] \in Placed
      BY <1>1 DEF Placed, Sending
<1>3. <<Len(argv[t])>> \in Seq(Nat)
  <2>1. argv[t] \in Messages
        BY <1>1 DEF TypeInv, TypeOK, PlaceInv, Sending, Writing
  <2>2. QED BY <2>1, HalCommAssumption
<1>4. q \in Seq(Nat) /\ Len(q) <= FifoSize
      BY <1>2, <1>3, Channel, KfifoInIsQueue
<1> HIDE DEF q
<1>5. /\ fifo' \in Seq(Seq(Nat)) /\ Len(fifo') = Len(list)
      /\ \A n \in DOMAIN fifo' : Len(fifo'[n]) <= FifoSize
      BY <1>1, <1>2, <1>4, QueueStep
<1>6. TypeOK'
      BY <1>1, <1>5 DEF TypeInv, TypeOK, Labels
<1>7. PlaceInv'
      BY <1>1 DEF TypeInv, TypeOK, PlaceInv, Placed, Sending, Writing, Accepted
<1>8. QED BY <1>6, <1>7 DEF TypeInv

(* What PutData adds to the history. *)
Added(t) == [msg |-> argv[t], cast |-> IF SendsAll(t) THEN casts ELSE 0]

LEMMA AddedStep ==
    ASSUME TypeInv, NEW t \in Callers, PutData(t)
    PROVE  /\ tmp_list[t] \in 1 .. Len(list) /\ Len(sent) = Len(list)
           /\ sent[tmp_list[t]] \in Seq(Entry) /\ Added(t) \in Entry
           /\ sent' \in Seq(Seq(Entry)) /\ Len(sent') = Len(list)
           /\ \A n \in 1 .. Len(list) :
                 sent'[n] = IF n = tmp_list[t] THEN Append(sent[n], Added(t)) ELSE sent[n]
<1>1. pc[t] \in Placed /\ pc[t] \in Sending
      BY DEF PutData, Placed, Sending
<1>2. tmp_list[t] \in 1 .. Len(list) /\ argv[t] \in Messages
      BY <1>1, Channel DEF TypeInv, TypeOK, PlaceInv, Writing
<1>3. sent \in Seq(Seq(Entry)) /\ Len(sent) = Len(list) /\ casts \in Nat
      BY DEF TypeInv, TypeOK, Entry
<1>4. Added(t) \in Entry
      BY <1>2, <1>3 DEF Added, Entry
<1>5. sent[tmp_list[t]] \in Seq(Entry)
      BY <1>2, <1>3, ElementOfSeq
<1>6. Append(sent[tmp_list[t]], Added(t)) \in Seq(Entry)
      BY <1>4, <1>5, AppendProperties
<1>7. sent' = [sent EXCEPT ![tmp_list[t]] = Append(sent[tmp_list[t]], Added(t))]
      BY DEF PutData, Added
<1>8. QED BY <1>2, <1>3, <1>4, <1>5, <1>6, <1>7, ExceptSeq

LEMMA PutDataType ==
    ASSUME TypeInv, NEW t \in Callers, PutData(t)
    PROVE  TypeInv'
<1> DEFINE q == KfifoIn(fifo[tmp_list[t]], argv[t])
<1>1. /\ pc[t] = "data"
      /\ fifo' = [fifo EXCEPT ![tmp_list[t]] = q]
      /\ rw_lock' = [rw_lock EXCEPT ![tmp_list[t]] = Nobody]
      /\ pc' = [pc EXCEPT ![t] = "wake"]
      /\ UNCHANGED <<list, list_mutex, key, argv, tmp_list, data_len, born, casts, got,
                     writes, failures>>
      BY DEF PutData, Goto
<1>2. pc[t] \in Placed
      BY <1>1 DEF Placed, Sending
<1>3. argv[t] \in Seq(Nat)
  <2>1. argv[t] \in Messages
        BY <1>1 DEF TypeInv, TypeOK, PlaceInv, Sending, Writing
  <2>2. QED BY <2>1, HalCommAssumption
<1>4. q \in Seq(Nat) /\ Len(q) <= FifoSize
      BY <1>2, <1>3, Channel, KfifoInIsQueue
<1> HIDE DEF q
<1>5. /\ fifo' \in Seq(Seq(Nat)) /\ Len(fifo') = Len(list)
      /\ \A n \in DOMAIN fifo' : Len(fifo'[n]) <= FifoSize
      BY <1>1, <1>2, <1>4, QueueStep
<1>6. rw_lock' \in Seq(Callers \cup {Nobody}) /\ Len(rw_lock') = Len(list)
      BY <1>1, <1>2, Channel, LockUpdate
<1>7. sent' \in Seq(Seq(Entry)) /\ Len(sent') = Len(list)
      BY AddedStep
<1>8. TypeOK'
      BY <1>1, <1>5, <1>6, <1>7 DEF TypeInv, TypeOK, Labels, Entry
<1>9. PlaceInv'
      BY <1>1 DEF TypeInv, TypeOK, PlaceInv, Placed, Sending, Writing, Accepted
<1>10. QED BY <1>8, <1>9 DEF TypeInv

LEMMA WokenType ==
    ASSUME TypeInv, NEW n
    PROVE  /\ Woken(n) \in [Callers -> Labels]
           /\ \A r \in Callers : Woken(n)[r] = IF pc[r] = "asleep" /\ tmp_list[r] = n
                                               THEN "wait" ELSE pc[r]
BY DEF Woken, TypeInv, TypeOK, Labels

LEMMA WakeUpType ==
    ASSUME TypeInv, NEW t \in Callers, WakeUp(t)
    PROVE  TypeInv'
<1> DEFINE n == tmp_list[t]
           w == Woken(n)
<1>1. /\ w \in [Callers -> Labels]
      /\ \A r \in Callers : w[r] = pc[r] \/ (w[r] = "wait" /\ pc[r] = "asleep")
      BY WokenType
<1>2. pc[t] = "wake" /\ pc[t] \in Placed /\ pc[t] \in Sending
      BY DEF WakeUp, WakeUpTo, Placed, Sending
<1>3. n \in 1 .. Len(list) /\ Len(list) \in Nat
      BY <1>2, Channel, LenProperties DEF TypeInv, TypeOK
<1>4. UNCHANGED <<list, fifo, rw_lock, sent, born, casts, got, writes, failures>>
      BY DEF WakeUp, WakeUpTo, channels, history
<1>5. CASE SendsAll(t) /\ n < Len(list)
  <2>1. /\ pc' = [w EXCEPT ![t] = "write"]
        /\ tmp_list' = [tmp_list EXCEPT ![t] = n + 1]
        /\ UNCHANGED <<key, argv, data_len, list_mutex>>
        BY <1>5 DEF WakeUp, WakeUpTo
  <2> HIDE DEF w
  <2>2. /\ pc' \in [Callers -> Labels] /\ pc'[t] = "write"
        /\ \A r \in Callers \ {t} :
              pc'[r] = pc[r] \/ (pc'[r] = "wait" /\ pc[r] = "asleep")
        BY <1>1, <2>1 DEF Labels
  <2>3. n + 1 \in 1 .. Len(list)
        BY <1>3, <1>5
  <2>4. /\ tmp_list' \in [Callers -> 0 .. Len(list)] /\ tmp_list'[t] \in 1 .. Len(list)
        /\ \A r \in Callers \ {t} : tmp_list'[r] = tmp_list[r]
        BY <2>1, <2>3 DEF TypeInv, TypeOK
  <2> HIDE DEF n
  <2>5. TypeOK'
        BY <1>4, <2>1, <2>2, <2>4 DEF TypeInv, TypeOK
  <2>6. PlaceInv'
        BY <1>2, <1>4, <2>1, <2>2, <2>4
        DEF TypeInv, PlaceInv, Placed, Sending, Writing, Accepted
  <2>7. QED BY <2>5, <2>6 DEF TypeInv
<1>6. CASE ~(SendsAll(t) /\ n < Len(list))
  <2>1. EndCall(t, w) /\ list_mutex' \in {Nobody, list_mutex}
        BY <1>6 DEF WakeUp, WakeUpTo
  <2>2. failures' \in Nat /\ list_mutex' \in Callers \cup {Nobody}
        BY <1>4, <2>1 DEF TypeInv, TypeOK
  <2> HIDE DEF w
  <2>3. QED BY <1>1, <1>4, <2>1, <2>2, QuietReturn
<1>7. QED BY <1>5, <1>6

LEMMA WaitType ==
    ASSUME TypeInv, NEW t \in Callers, WaitEvent(t)
    PROVE  TypeInv'
<1> USE DEF WaitEvent, Goto, channels, history
<1>1. TypeOK'
      BY DEF TypeInv, TypeOK, Labels
<1>2. PlaceInv'
      BY DEF TypeInv, TypeOK, PlaceInv, Placed, Sending, Writing, Accepted
<1>3. QED BY <1>1, <1>2 DEF TypeInv

(* The returns with nothing done. *)
LEMMA ReturnType ==
    ASSUME TypeInv, NEW t \in Callers,
           AddFails(t) \/ Interrupted(t) \/ (NobodyToSendTo(t) /\ list_mutex' = Nobody)
    PROVE  TypeInv'
<1>1. EndCall(t, pc) /\ pc \in [Callers -> Labels]
      BY DEF TypeInv, TypeOK, AddFails, Interrupted, NobodyToSendTo, Return
<1>2. UNCHANGED <<list, fifo, rw_lock, sent, born, casts, got, writes>>
      BY DEF AddFails, Interrupted, NobodyToSendTo, channels, history
<1>3. failures' \in Nat /\ list_mutex' \in Callers \cup {Nobody}
      BY DEF TypeInv, TypeOK, AddFails, Interrupted, NobodyToSendTo
<1>4. QED BY <1>1, <1>2, <1>3, QuietReturn

LEMMA GetLengthType ==
    ASSUME TypeInv, NEW t \in Callers, GetLength(t)
    PROVE  TypeInv'
<1> DEFINE q == fifo[tmp_list[t]]
<1>1. pc[t] \in Placed
      BY DEF GetLength, Placed
<1>2. q \in Seq(Nat) /\ Len(q) <= FifoSize /\ Len(q) \in Nat /\ tmp_list[t] \in 1 .. Len(list)
      BY <1>1, Channel, LenProperties
<1>3. CASE Len(q) <= 1
  <2>1. /\ EndCall(t, pc)
        /\ UNCHANGED <<list, fifo, rw_lock, sent, born, casts, got, writes, failures,
                       list_mutex>>
        BY <1>3 DEF GetLength, Return, history
  <2>2. failures' \in Nat /\ list_mutex' \in Callers \cup {Nobody} /\ pc \in [Callers -> Labels]
        BY <2>1 DEF TypeInv, TypeOK
  <2>3. QED BY <2>1, <2>2, QuietReturn
<1>4. CASE ~(Len(q) <= 1)
  <2>1. /\ pc[t] = "read"
        /\ fifo' = [fifo EXCEPT ![tmp_list[t]] = Tail(q)]
        /\ data_len' = [data_len EXCEPT ![t] = Head(q)]
        /\ rw_lock' = [rw_lock EXCEPT ![tmp_list[t]] = t]
        /\ pc' = [pc EXCEPT ![t] = "get"]
        /\ UNCHANGED <<list, list_mutex, key, argv, tmp_list, sent, born, casts, got,
                       writes, failures>>
        BY <1>4 DEF GetLength, Goto, history
  <2>2. q # <<>>
        BY <1>2, <1>4, EmptySeq
  <2>3. Head(q) \in Nat /\ Tail(q) \in Seq(Nat) /\ Len(Tail(q)) <= FifoSize
        BY <1>2, <2>2, QueueHead, LenProperties, HalCommAssumption
  <2>4. /\ fifo' \in Seq(Seq(Nat)) /\ Len(fifo') = Len(list)
        /\ \A n \in DOMAIN fifo' : Len(fifo'[n]) <= FifoSize
        BY <1>1, <2>1, <2>3, QueueStep
  <2>5. rw_lock' \in Seq(Callers \cup {Nobody}) /\ Len(rw_lock') = Len(list)
        BY <1>2, <2>1, LockUpdate
  <2>6. TypeOK'
        BY <2>1, <2>3, <2>4, <2>5 DEF TypeInv, TypeOK, Labels
  <2>7. PlaceInv'
        BY <2>1 DEF TypeInv, TypeOK, PlaceInv, Placed, Sending, Writing, Accepted
  <2>8. QED BY <2>6, <2>7 DEF TypeInv
<1>5. QED BY <1>3, <1>4

LEMMA GetDataType ==
    ASSUME TypeInv, NEW t \in Callers, GetData(t)
    PROVE  TypeInv'
<1> DEFINE q == KfifoRest(fifo[tmp_list[t]], data_len[t])
           o == KfifoOut(fifo[tmp_list[t]], data_len[t])
<1>1. /\ pc[t] = "get"
      /\ fifo' = [fifo EXCEPT ![tmp_list[t]] = q]
      /\ got' = [got EXCEPT ![t] = o]
      /\ rw_lock' = [rw_lock EXCEPT ![tmp_list[t]] = Nobody]
      /\ EndCall(t, pc) /\ pc \in [Callers -> Labels]
      /\ UNCHANGED <<list, list_mutex, sent, born, casts, writes, failures>>
      BY DEF GetData, Return, TypeInv, TypeOK
<1>2. pc[t] \in Placed
      BY <1>1 DEF Placed
<1>3. q \in Seq(Nat) /\ Len(q) <= FifoSize /\ o \in Seq(Nat)
  <2>1. /\ fifo[tmp_list[t]] \in Seq(Nat) /\ Len(fifo[tmp_list[t]]) <= FifoSize
        /\ data_len[t] \in Nat
        BY <1>2, Channel
  <2>2. q \in Seq(Nat) /\ Len(q) <= Len(fifo[tmp_list[t]])
        BY <2>1, KfifoRestIsQueue
  <2>3. o \in Seq(Nat)
        BY <2>1, KfifoOutIsMessage
  <2> HIDE DEF q, o
  <2>4. QED BY <2>1, <2>2, <2>3, LenProperties, HalCommAssumption
<1> HIDE DEF q, o
<1>4. /\ fifo' \in Seq(Seq(Nat)) /\ Len(fifo') = Len(list)
      /\ \A n \in DOMAIN fifo' : Len(fifo'[n]) <= FifoSize
      BY <1>1, <1>2, <1>3, QueueStep
<1>5. rw_lock' \in Seq(Callers \cup {Nobody}) /\ Len(rw_lock') = Len(list)
      BY <1>1, <1>2, Channel, LockUpdate
<1>6. /\ pc' \in [Callers -> Labels] /\ key' \in [Callers -> Keys]
      /\ argv' \in [Callers -> Messages \cup {<<>>}]
      /\ tmp_list' \in [Callers -> 0 .. Len(list)] /\ data_len' \in [Callers -> Nat]
      /\ pc'[t] = "idle"
      /\ \A r \in Callers \ {t} :
            pc'[r] = pc[r] /\ argv'[r] = argv[r] /\ tmp_list'[r] = tmp_list[r]
      BY <1>1, EndCallType
<1>7. TypeOK'
      BY <1>1, <1>3, <1>4, <1>5, <1>6 DEF TypeInv, TypeOK, Keys
<1>8. PlaceInv'
      BY <1>1, <1>6 DEF TypeInv, PlaceInv, Placed, Sending, Writing, Accepted
<1>9. QED BY <1>7, <1>8 DEF TypeInv

LEMMA TypeStep == TypeInv /\ [Next]_vars => TypeInv'
<1>1. SUFFICES ASSUME TypeInv, [Next]_vars PROVE TypeInv'
      OBVIOUS
<1> USE <1>1
<1>2. ASSUME NEW t \in Callers, NEW k \in Channels \cup {All},
             NEW m \in Messages \cup {<<>>}, Call(t, k, m)
      PROVE  TypeInv'
      BY <1>2, CallType DEF Keys
<1>3. ASSUME NEW t \in Callers, AddFails(t) \/ Interrupted(t) PROVE TypeInv'
      BY <1>3, ReturnType
<1>4. ASSUME NEW t \in Callers, hal_comm_ioctl(t) PROVE TypeInv'
      BY <1>4, SearchType, AddType, StartType, ReturnType, LockType, DropLengthType,
         DropDataType, PutLengthType, PutDataType, WakeUpType, WaitType, GetLengthType,
         GetDataType
      DEF hal_comm_ioctl, send_all_fifo
<1>5. CASE UNCHANGED vars
      BY <1>5 DEF vars, channels, locals, history, TypeInv, TypeOK, PlaceInv, Placed, Sending,
                  Writing, Accepted
<1>6. QED BY <1>2, <1>3, <1>4, <1>5 DEF Next

(* TypeOK of HalComm, for any constants: in particular a caller past the
   search has a channel of the list, and no queue is ever longer than its
   buffer. *)
THEOREM TypeCorrect == Spec => []TypeOK
<1>1. TypeInv => TypeOK
      BY DEF TypeInv
<1>2. QED BY <1>1, InitType, TypeStep, PTL DEF Spec

----------------------------------------------------------------------------
(* Whoever sleeps on a queue with something in it is about to be woken. *)

(* A step that puts nothing into a queue, lets nobody fall asleep on one that
   is not empty, and stops nobody on the way to a wake-up. *)
LEMMA SleepersKept ==
    ASSUME TypeInv, SleeperWillBeWoken,
           \A n \in 1 .. Len(list) : fifo[n] = <<>> => fifo'[n] = <<>>,
           \A r \in Callers : pc'[r] = "asleep" =>
               /\ tmp_list'[r] = tmp_list[r] /\ tmp_list[r] \in 1 .. Len(list)
               /\ pc[r] = "asleep" \/ fifo'[tmp_list[r]] = <<>>,
           \A r \in Callers : pc[r] \in {"data", "wake"} =>
               pc'[r] \in {"data", "wake"} /\ tmp_list'[r] = tmp_list[r]
    PROVE  SleeperWillBeWoken'
<1>1. SUFFICES ASSUME NEW r \in Callers, pc'[r] = "asleep", fifo'[tmp_list'[r]] # <<>>
               PROVE  \E t \in Callers :
                          tmp_list'[t] = tmp_list'[r] /\ pc'[t] \in {"data", "wake"}
      BY DEF SleeperWillBeWoken
<1>2. /\ tmp_list'[r] = tmp_list[r] /\ pc[r] = "asleep"
      /\ fifo[tmp_list[r]] # <<>>
      BY <1>1
<1>3. PICK t \in Callers : tmp_list[t] = tmp_list[r] /\ pc[t] \in {"data", "wake"}
      BY <1>2 DEF SleeperWillBeWoken
<1>4. QED BY <1>2, <1>3

(* A step that puts something into the queue of a caller about to wake up. *)
LEMMA SleepersOfFilled ==
    ASSUME TypeInv, SleeperWillBeWoken, NEW t \in Callers, tmp_list[t] \in 1 .. Len(list),
           \A n \in 1 .. Len(list) : n # tmp_list[t] => fifo'[n] = fifo[n],
           pc'[t] \in {"data", "wake"}, UNCHANGED tmp_list,
           \A r \in Callers \ {t} : pc'[r] = pc[r]
    PROVE  SleeperWillBeWoken'
<1>1. SUFFICES ASSUME NEW r \in Callers, pc'[r] = "asleep", fifo'[tmp_list'[r]] # <<>>
               PROVE  \E u \in Callers :
                          tmp_list'[u] = tmp_list'[r] /\ pc'[u] \in {"data", "wake"}
      BY DEF SleeperWillBeWoken
<1>2. pc[r] = "asleep" /\ tmp_list[r] \in 1 .. Len(list)
      BY <1>1 DEF TypeInv, PlaceInv, Placed
<1>3. CASE tmp_list[r] = tmp_list[t]
      BY <1>3
<1>4. CASE tmp_list[r] # tmp_list[t]
  <2>1. fifo[tmp_list[r]] # <<>>
        BY <1>1, <1>2, <1>4
  <2>2. PICK u \in Callers : tmp_list[u] = tmp_list[r] /\ pc[u] \in {"data", "wake"}
        BY <1>2, <2>1 DEF SleeperWillBeWoken
  <2>3. QED BY <1>4, <2>2
<1>5. QED BY <1>3, <1>4

LEMMA SleepersInQueueStep ==
    ASSUME TypeInv, SleeperWillBeWoken, NEW t \in Callers,
           DropLength(t) \/ DropData(t) \/ PutLength(t) \/ PutData(t)
    PROVE  SleeperWillBeWoken'
<1>1. pc[t] \in Placed
      BY DEF DropLength, DropData, PutLength, PutData, Placed, Sending
<1>2. /\ tmp_list[t] \in 1 .. Len(list) /\ fifo \in Seq(Seq(Nat)) /\ Len(fifo) = Len(list)
      /\ fifo[tmp_list[t]] \in Seq(Nat) /\ data_len[t] \in Nat
      /\ pc \in [Callers -> Labels]
      BY <1>1, Channel DEF TypeInv, TypeOK
<1>3. CASE PutLength(t) \/ PutData(t)
  <2>1. /\ pc'[t] \in {"data", "wake"} /\ UNCHANGED tmp_list
        /\ \A r \in Callers \ {t} : pc'[r] = pc[r]
        BY <1>2, <1>3 DEF PutLength, PutData, Goto
  <2>2. \A n \in 1 .. Len(list) : n # tmp_list[t] => fifo'[n] = fifo[n]
        BY <1>2, <1>3, LenProperties DEF PutLength, PutData
  <2>3. QED BY <1>2, <2>1, <2>2, SleepersOfFilled
<1>4. CASE DropLength(t) \/ DropData(t)
  <2>1. /\ pc[t] \in {"put", "drop"} /\ pc'[t] \in {"put", "drop"} /\ UNCHANGED tmp_list
        /\ \A r \in Callers \ {t} : pc'[r] = pc[r]
        BY <1>2, <1>4 DEF DropLength, DropData, Goto
  <2>2. \A r \in Callers : pc'[r] = "asleep" =>
               pc[r] = "asleep" /\ tmp_list'[r] = tmp_list[r] /\ tmp_list[r] \in 1 .. Len(list)
        BY <2>1 DEF TypeInv, PlaceInv, Placed
  <2>3. \A r \in Callers : pc[r] \in {"data", "wake"} =>
               pc'[r] \in {"data", "wake"} /\ tmp_list'[r] = tmp_list[r]
        BY <2>1
  <2>4. \A n \in 1 .. Len(list) : fifo[n] = <<>> => fifo'[n] = <<>>
    <3>1. CASE DropLength(t)
          BY <1>2, <3>1, LenProperties DEF DropLength
    <3>2. CASE DropData(t)
      <4>1. fifo[tmp_list[t]] = <<>> => KfifoRest(fifo[tmp_list[t]], data_len[t]) = <<>>
            BY <1>2, KfifoRestIsQueue
      <4>2. QED BY <1>2, <3>2, <4>1, LenProperties DEF DropData
    <3>3. QED BY <1>4, <3>1, <3>2
  <2>5. QED BY <2>2, <2>3, <2>4, SleepersKept
<1>5. QED BY <1>3, <1>4

LEMMA SleepersInWakeUp ==
    ASSUME TypeInv, SleeperWillBeWoken, NEW t \in Callers, WakeUp(t)
    PROVE  SleeperWillBeWoken'
<1> DEFINE n == tmp_list[t]
           w == Woken(n)
<1>1. /\ pc[t] = "wake" /\ UNCHANGED fifo
      /\ w \in [Callers -> Labels]
      /\ \A r \in Callers : w[r] = IF pc[r] = "asleep" /\ tmp_list[r] = n THEN "wait" ELSE pc[r]
      BY WokenType DEF WakeUp, WakeUpTo, channels
<1>2. /\ pc'[t] # "asleep"
      /\ \A r \in Callers \ {t} : pc'[r] = w[r] /\ tmp_list'[r] = tmp_list[r]
  <2>1. \/ /\ pc' = [w EXCEPT ![t] = "write"]
           /\ tmp_list' = [tmp_list EXCEPT ![t] = n + 1]
        \/ EndCall(t, w)
        BY DEF WakeUp, WakeUpTo
  <2>2. tmp_list \in [Callers -> 0 .. Len(list)]
        BY DEF TypeInv, TypeOK
  <2> HIDE DEF w, n
  <2>3. QED BY <1>1, <2>1, <2>2 DEF EndCall
<1> HIDE DEF w
<1>3. SUFFICES ASSUME NEW r \in Callers, pc'[r] = "asleep", fifo'[tmp_list'[r]] # <<>>
               PROVE  \E u \in Callers :
                          tmp_list'[u] = tmp_list'[r] /\ pc'[u] \in {"data", "wake"}
      BY DEF SleeperWillBeWoken
<1>4. r # t /\ pc[r] = "asleep" /\ tmp_list'[r] = tmp_list[r] /\ tmp_list[r] # n
      /\ fifo[tmp_list[r]] # <<>>
      BY <1>1, <1>2, <1>3
<1>5. PICK u \in Callers : tmp_list[u] = tmp_list[r] /\ pc[u] \in {"data", "wake"}
      BY <1>4 DEF SleeperWillBeWoken
<1>6. u # t /\ pc'[u] = pc[u] /\ tmp_list'[u] = tmp_list[u]
      BY <1>1, <1>2, <1>4, <1>5
<1>7. QED BY <1>4, <1>5, <1>6

LEMMA SleepersInGet ==
    ASSUME TypeInv, SleeperWillBeWoken, NEW t \in Callers, GetLength(t) \/ GetData(t)
    PROVE  SleeperWillBeWoken'
<1>1. pc[t] \in {"read", "get"} /\ pc[t] \in Placed
      BY DEF GetLength, GetData, Placed
<1>2. /\ tmp_list[t] \in 1 .. Len(list) /\ fifo \in Seq(Seq(Nat)) /\ Len(fifo) = Len(list)
      /\ fifo[tmp_list[t]] \in Seq(Nat) /\ data_len[t] \in Nat
      /\ pc \in [Callers -> Labels] /\ tmp_list \in [Callers -> 0 .. Len(list)]
      BY <1>1, Channel DEF TypeInv, TypeOK
<1>3. pc'[t] \in {"idle", "get"} /\ \A r \in Callers \ {t} : pc'[r] = pc[r] /\ tmp_list'[r] = tmp_list[r]
      BY <1>2 DEF GetLength, GetData, Goto, Return, EndCall
<1>4. \A r \in Callers : pc'[r] = "asleep" =>
             pc[r] = "asleep" /\ tmp_list'[r] = tmp_list[r] /\ tmp_list[r] \in 1 .. Len(list)
      BY <1>3 DEF TypeInv, PlaceInv, Placed
<1>5. \A r \in Callers : pc[r] \in {"data", "wake"} =>
             pc'[r] \in {"data", "wake"} /\ tmp_list'[r] = tmp_list[r]
      BY <1>1, <1>3
<1>6. \A n \in 1 .. Len(list) : fifo[n] = <<>> => fifo'[n] = <<>>
  <2>1. CASE GetLength(t)
    <3>1. fifo[tmp_list[t]] = <<>> => Len(fifo[tmp_list[t]]) <= 1
          BY EmptySeq
    <3>2. QED BY <1>2, <2>1, <3>1, LenProperties DEF GetLength
  <2>2. CASE GetData(t)
    <3>1. fifo[tmp_list[t]] = <<>> => KfifoRest(fifo[tmp_list[t]], data_len[t]) = <<>>
          BY <1>2, KfifoRestIsQueue
    <3>2. QED BY <1>2, <2>2, <3>1, LenProperties DEF GetData
  <2>3. QED BY <2>1, <2>2
<1>7. QED BY <1>4, <1>5, <1>6, SleepersKept

(* The steps that leave every queue there is as it is. *)
LEMMA SleepersElsewhere ==
    ASSUME TypeInv, SleeperWillBeWoken, NEW t \in Callers,
           \/ \E k \in Keys, m \in Messages \cup {<<>>} : Call(t, k, m)
           \/ AddFails(t) \/ Interrupted(t) \/ search_each_node(t) \/ add_node_list(t)
           \/ send_all_fifo(t) \/ LockToWrite(t) \/ WaitEvent(t)
    PROVE  SleeperWillBeWoken'
<1>1. /\ fifo \in Seq(Seq(Nat)) /\ Len(fifo) = Len(list) /\ Len(list) \in Nat
      /\ pc \in [Callers -> Labels] /\ tmp_list \in [Callers -> 0 .. Len(list)]
      BY LenProperties DEF TypeInv, TypeOK
<1>2. \A n \in 1 .. Len(list) : fifo'[n] = fifo[n]
  <2>1. CASE add_node_list(t)
    <3>1. <<>> \in Seq(Nat) /\ fifo' = Append(fifo, <<>>)
          BY <2>1, EmptySeq DEF add_node_list
    <3>2. QED BY <1>1, <3>1, AppendProperties
  <2>2. CASE ~add_node_list(t)
    <3>1. fifo' = fifo
          BY <2>2 DEF Call, AddFails, Interrupted, search_each_node, send_all_fifo,
                      StartBroadcast, NobodyToSendTo, LockToWrite, WaitEvent, channels
    <3>2. QED BY <3>1
  <2>3. QED BY <2>1, <2>2
<1>3. /\ pc[t] \in {"idle", "search", "add", "write", "wait", "asleep"}
      /\ \A r \in Callers \ {t} : pc'[r] = pc[r] /\ tmp_list'[r] = tmp_list[r]
      BY <1>1 DEF Call, AddFails, Interrupted, search_each_node, add_node_list,
                  send_all_fifo, StartBroadcast, NobodyToSendTo, LockToWrite, WaitEvent, Goto,
                  Return, EndCall
<1>4. pc'[t] = "asleep" => /\ tmp_list'[t] = tmp_list[t] /\ fifo[tmp_list[t]] = <<>>
                           /\ pc[t] = "wait"
  <2>1. CASE WaitEvent(t)
        BY <1>1, <2>1 DEF WaitEvent, Goto
  <2>2. CASE ~WaitEvent(t)
        BY <1>1, <2>2 DEF Call, AddFails, Interrupted, search_each_node, add_node_list,
                  send_all_fifo, StartBroadcast, NobodyToSendTo, LockToWrite, Goto,
                  Return, EndCall, Work
  <2>3. QED BY <2>1, <2>2
<1>5. pc[t] \in {"wait", "asleep"} => tmp_list[t] \in 1 .. Len(list)
      BY DEF TypeInv, PlaceInv, Placed
<1>6. \A r \in Callers : pc'[r] = "asleep" =>
             /\ tmp_list'[r] = tmp_list[r] /\ tmp_list[r] \in 1 .. Len(list)
             /\ pc[r] = "asleep" \/ fifo'[tmp_list[r]] = <<>>
      BY <1>2, <1>3, <1>4, <1>5 DEF TypeInv, PlaceInv, Placed
<1>7. \A r \in Callers : pc[r] \in {"data", "wake"} =>
             pc'[r] \in {"data", "wake"} /\ tmp_list'[r] = tmp_list[r]
      BY <1>3
<1>8. QED BY <1>2, <1>6, <1>7, SleepersKept

LEMMA SleepersStep == TypeInv /\ SleeperWillBeWoken /\ [Next]_vars => SleeperWillBeWoken'
<1>1. SUFFICES ASSUME TypeInv, SleeperWillBeWoken, [Next]_vars PROVE SleeperWillBeWoken'
      OBVIOUS
<1>2. CASE UNCHANGED vars
      BY <1>1, <1>2 DEF vars, channels, locals, SleeperWillBeWoken
<1>3. CASE Next
      BY <1>1, <1>3, SleepersInQueueStep, SleepersInWakeUp, SleepersInGet, SleepersElsewhere
      DEF Next, hal_comm_ioctl, Keys
<1>4. QED BY <1>1, <1>2, <1>3

(* For any number of readers and writers: no reader is left asleep on a
   channel that holds a message. *)
THEOREM NoLostWakeUp == Spec => []SleeperWillBeWoken
<1>1. Init => SleeperWillBeWoken
      BY DEF Init, SleeperWillBeWoken
<1>2. QED BY <1>1, InitType, TypeStep, SleepersStep, PTL DEF Spec

----------------------------------------------------------------------------
(* Who has the list's mutex. *)

Holds(t) == pc[t] \in {"search", "add"} \/ (pc[t] \in Sending /\ SendsAll(t))

(* The search, the addition and a whole broadcast run under the mutex, and
   what the search did not find is not there when it is added; a broadcast
   that is under way has been numbered. *)
MutexInv ==
    \A t \in Callers :
        /\ Holds(t) => list_mutex = t
        /\ pc[t] = "add" => ~SendsAll(t) /\ \A n \in DOMAIN list : list[n] # key[t]
        /\ pc[t] \in Sending /\ SendsAll(t) /\ Accepted(argv[t]) => casts > 0

ListInv == MutexInv /\ IsInjective(list)

(* A step that keeps the list, and gives the mutex to nobody else than t. *)
LEMMA MutexKept ==
    ASSUME TypeInv, ListInv, NEW t \in Callers, UNCHANGED list,
           casts' \in Nat, casts' >= casts,
           \A r \in Callers \ {t} :
               /\ pc'[r] = pc[r] \/ pc'[r] \notin {"search", "add"} \cup Sending
               /\ key'[r] = key[r] /\ argv'[r] = argv[r],
           \/ list_mutex' = list_mutex
           \/ \A r \in Callers \ {t} : list_mutex # r,
           Holds(t)' => list_mutex' = t,
           pc'[t] = "add" => ~SendsAll(t)' /\ \A n \in DOMAIN list : list[n] # key'[t],
           pc'[t] \in Sending /\ SendsAll(t)' /\ Accepted(argv'[t]) => casts' > 0
    PROVE  ListInv'
<1>1. casts \in Nat
      BY DEF TypeInv, TypeOK
<1>2. MutexInv'
  <2>1. SUFFICES ASSUME NEW r \in Callers
                 PROVE  /\ Holds(r)' => list_mutex' = r
                        /\ pc'[r] = "add" => ~SendsAll(r)' /\ \A n \in DOMAIN list : list[n] # key'[r]
                        /\ pc'[r] \in Sending /\ SendsAll(r)' /\ Accepted(argv'[r]) => casts' > 0
        BY DEF MutexInv, Accepted
  <2>2. CASE r = t
        BY <2>2
  <2>3. CASE r # t
    <3>1. /\ key'[r] = key[r] /\ argv'[r] = argv[r]
          /\ pc'[r] = pc[r] \/ pc'[r] \notin {"search", "add"} \cup Sending
          BY <2>3
    <3>2. Holds(r)' => Holds(r) /\ pc'[r] = pc[r]
          BY <3>1 DEF Holds, SendsAll, Writing
    <3>3. QED BY <1>1, <2>3, <3>1, <3>2
          DEF ListInv, MutexInv, Holds, SendsAll, Writing, Sending, Accepted
  <2>4. QED BY <2>2, <2>3
<1>3. QED BY <1>2 DEF ListInv, IsInjective

LEMMA InitList == Init => ListInv
<1>1. DOMAIN <<>> = {}
      BY EmptySeq
<1>2. QED BY <1>1 DEF Init, ListInv, MutexInv, Holds, Sending, IsInjective

LEMMA CallList ==
    ASSUME TypeInv, ListInv, NEW t \in Callers, NEW k \in Keys, NEW m \in Messages \cup {<<>>},
           Call(t, k, m)
    PROVE  ListInv'
BY MutexKept, HalCommAssumption DEF Call, Goto, TypeInv, TypeOK, Holds, Sending, channels

LEMMA SearchList ==
    ASSUME TypeInv, ListInv, NEW t \in Callers, search_each_node(t)
    PROVE  ListInv'
<1>1. /\ pc[t] = "search" /\ ~SendsAll(t) /\ Holds(t) /\ list_mutex = t
      BY DEF search_each_node, Holds, ListInv, MutexInv
<1>2. /\ UNCHANGED <<list, casts, key, argv>> /\ casts \in Nat
      /\ \A r \in Callers \ {t} : pc'[r] = pc[r]
      /\ pc'[t] # "add" \/ (list_mutex' = t /\ \A n \in DOMAIN list : list[n] # key[t])
      /\ pc'[t] \in {"write", "wait", "add"}
      BY <1>1 DEF search_each_node, Goto, TypeInv, TypeOK, channels, history, Work
<1>3. ~SendsAll(t)' /\ (Holds(t)' => pc'[t] = "add")
      BY <1>1, <1>2 DEF SendsAll, Writing, Holds, Sending
<1>4. QED BY <1>1, <1>2, <1>3, MutexKept

LEMMA AddList ==
    ASSUME TypeInv, ListInv, NEW t \in Callers, add_node_list(t)
    PROVE  ListInv'
<1>1. /\ pc[t] = "add" /\ ~SendsAll(t) /\ Holds(t) /\ list_mutex = t
      /\ \A n \in DOMAIN list : list[n] # key[t]
      BY DEF add_node_list, Holds, ListInv, MutexInv
<1>2. /\ list' = Append(list, key[t]) /\ UNCHANGED <<casts, key, argv>>
      /\ \A r \in Callers \ {t} : pc'[r] = pc[r]
      /\ pc'[t] \in {"write", "wait"}
      BY DEF add_node_list, Goto, TypeInv, TypeOK, Work
<1>3. \A r \in Callers \ {t} : ~Holds(r)
      BY <1>1 DEF ListInv, MutexInv
<1>4. MutexInv'
      BY <1>1, <1>2, <1>3 DEF MutexInv, Holds, SendsAll, Writing, Sending
<1>5. IsInjective(list')
  <2>1. list \in Seq(Keys) /\ key[t] \in Keys /\ Len(list) \in Nat /\ DOMAIN list = 1 .. Len(list)
        BY LenProperties DEF TypeInv, TypeOK, Keys
  <2>2. /\ DOMAIN list' = 1 .. Len(list) + 1
        /\ \A i \in 1 .. Len(list) : list'[i] = list[i]
        /\ list'[Len(list) + 1] = key[t]
        BY <1>2, <2>1, AppendProperties, LenProperties
  <2>3. \A i, j \in 1 .. Len(list) : list[i] = list[j] => i = j
        BY <2>1 DEF ListInv, IsInjective
  <2> HIDE DEF add_node_list
  <2>4. QED BY <1>1, <2>1, <2>2, <2>3 DEF IsInjective
<1>6. QED BY <1>4, <1>5 DEF ListInv

LEMMA StartList ==
    ASSUME TypeInv, ListInv, NEW t \in Callers, StartBroadcast(t)
    PROVE  ListInv'
<1>1. pc[t] = "search" /\ SendsAll(t) /\ list_mutex = t
      BY DEF StartBroadcast, Holds, ListInv, MutexInv
<1>2. /\ UNCHANGED <<list, list_mutex, key, argv>> /\ casts \in Nat
      /\ \A r \in Callers \ {t} : pc'[r] = pc[r]
      /\ pc'[t] = "write" /\ casts' = IF Accepted(argv[t]) THEN casts + 1 ELSE casts
      BY DEF StartBroadcast, Goto, TypeInv, TypeOK, channels
<1>3. casts' \in Nat /\ casts' >= casts /\ (Accepted(argv'[t]) => casts' > 0)
      BY <1>2
<1>4. QED BY <1>1, <1>2, <1>3, MutexKept

(* A call that goes on with what it sends, or stays a reader. *)
LEMMA GoOnList ==
    ASSUME TypeInv, ListInv, NEW t \in Callers,
           LockToWrite(t) \/ DropLength(t) \/ DropData(t) \/ PutLength(t) \/ PutData(t)
              \/ WaitEvent(t)
    PROVE  ListInv'
<1>1. /\ UNCHANGED <<list, list_mutex, key, argv, casts>> /\ casts \in Nat
      /\ \A r \in Callers \ {t} : pc'[r] = pc[r]
      /\ \/ pc[t] \in Sending /\ pc'[t] \in Sending
         \/ pc'[t] \in {"asleep", "read"}
      BY DEF LockToWrite, DropLength, DropData, PutLength, PutData, WaitEvent, Goto, TypeInv,
             TypeOK, channels, history, Sending
<1>2. /\ SendsAll(t)' = SendsAll(t) /\ pc'[t] # "add"
      /\ pc'[t] \in Sending => pc[t] \in Sending
      /\ Holds(t)' => Holds(t)
      BY <1>1 DEF SendsAll, Writing, Holds, Sending
<1>3. QED BY <1>1, <1>2, MutexKept DEF ListInv, MutexInv

LEMMA EndList ==
    ASSUME TypeInv, ListInv, NEW t \in Callers,
           AddFails(t) \/ Interrupted(t) \/ (NobodyToSendTo(t) /\ list_mutex' = Nobody)
              \/ GetLength(t) \/ GetData(t) \/ WakeUp(t)
    PROVE  ListInv'
<1>1. /\ UNCHANGED <<list, casts>> /\ casts \in Nat
      /\ pc \in [Callers -> Labels] /\ key \in [Callers -> Keys]
      /\ argv \in [Callers -> Messages \cup {<<>>}]
      BY DEF AddFails, Interrupted, NobodyToSendTo, GetLength, GetData, WakeUp, WakeUpTo,
             TypeInv, TypeOK, channels, history, Keys
<1>2. \A r \in Callers : LET w == Woken(tmp_list[t])
                         IN  w[r] = pc[r] \/ w[r] = "wait"
      BY WokenType
<1>3. Woken(tmp_list[t]) \in [Callers -> Labels]
      BY WokenType
<1>4. CASE WakeUp(t) /\ SendsAll(t) /\ tmp_list[t] < Len(list)
  <2>1. /\ pc[t] = "wake"
        /\ pc' = [Woken(tmp_list[t]) EXCEPT ![t] = "write"]
        /\ UNCHANGED <<key, argv, list_mutex>>
        BY <1>4 DEF WakeUp, WakeUpTo
  <2>2. /\ pc'[t] = "write"
        /\ \A r \in Callers \ {t} : pc'[r] = pc[r] \/ pc'[r] = "wait"
        BY <1>2, <1>3, <2>1
  <2>3. /\ Holds(t) /\ pc[t] \in Sending
        /\ SendsAll(t)' = SendsAll(t)
        BY <1>4, <2>1 DEF Holds, Sending, SendsAll, Writing
  <2>4. list_mutex = t /\ (Accepted(argv[t]) => casts > 0)
        BY <1>4, <2>3 DEF ListInv, MutexInv
  <2>5. "wait" \notin {"search", "add"} \cup Sending
        BY DEF Sending
  <2>6. QED BY <1>1, <2>1, <2>2, <2>4, <2>5, MutexKept
<1>5. CASE ~(WakeUp(t) /\ SendsAll(t) /\ tmp_list[t] < Len(list))
  <2>1. /\ EndCall(t, pc) \/ EndCall(t, Woken(tmp_list[t]))
           \/ /\ pc' = [pc EXCEPT ![t] = "get"] /\ UNCHANGED <<key, argv>>
        /\ \/ list_mutex' = list_mutex
           \/ list_mutex' = Nobody /\ Holds(t)
        BY <1>5 DEF AddFails, Interrupted, NobodyToSendTo, GetLength, GetData, WakeUp, WakeUpTo,
                    Return, Goto, Holds, Sending
  <2>2. /\ pc'[t] \in {"idle", "get"}
        /\ \A r \in Callers \ {t} :
              /\ pc'[r] = pc[r] \/ pc'[r] = "wait"
              /\ key'[r] = key[r] /\ argv'[r] = argv[r]
        BY <1>1, <1>2, <1>3, <2>1 DEF EndCall
  <2>3. \A r \in Callers \ {t} : pc'[r] = pc[r] \/ pc'[r] \notin {"search", "add"} \cup Sending
        BY <2>2 DEF Sending
  <2>4. ~Holds(t)' /\ pc'[t] # "add" /\ pc'[t] \notin Sending
        BY <2>2 DEF Holds, Sending
  <2>5. list_mutex' = list_mutex \/ \A r \in Callers \ {t} : list_mutex # r
        BY <2>1 DEF ListInv, MutexInv
  <2>6. QED BY <1>1, <2>2, <2>3, <2>4, <2>5, MutexKept
<1>6. QED BY <1>4, <1>5

LEMMA ListStep == TypeInv /\ ListInv /\ [Next]_vars => ListInv'
<1>1. SUFFICES ASSUME TypeInv, ListInv, [Next]_vars PROVE ListInv'
      OBVIOUS
<1>2. CASE UNCHANGED vars
      BY <1>1, <1>2 DEF vars, channels, locals, history, ListInv, MutexInv, Holds, Sending,
                        SendsAll, Writing, Accepted, IsInjective
<1>3. CASE Next
      BY <1>1, <1>3, CallList, SearchList, AddList, StartList, GoOnList, EndList
      DEF Next, hal_comm_ioctl, send_all_fifo, Keys
<1>4. QED BY <1>1, <1>2, <1>3

----------------------------------------------------------------------------
(* Every channel takes every broadcast. *)

LEMMA ComingHolds ==
    ASSUME ListInv, NEW t \in Callers, NEW n, Coming(t, n)
    PROVE  list_mutex = t /\ casts > 0
BY DEF ListInv, MutexInv, Coming, Holds, Sending

LEMMA ReachedIsNat ==
    ASSUME TypeInv, ListInv, NEW n
    PROVE  Reached(n) \in Nat /\ Reached(n) <= casts
BY ComingHolds DEF TypeInv, TypeOK, Reached

(* A step that leaves the history alone and takes no channel for served or
   for waiting that was not. *)
LEMMA BroadcastsKept ==
    ASSUME BroadcastsReachAll, UNCHANGED <<list, sent, born, casts>>,
           \A n \in DOMAIN list, r \in Callers : Coming(r, n)' = Coming(r, n)
    PROVE  BroadcastsReachAll'
<1>1. \A n \in DOMAIN list : Reached(n)' = Reached(n)
      BY DEF Reached
<1>2. QED BY <1>1 DEF BroadcastsReachAll, IsInjective

(* Those who are not the caller of a step send what they sent, where they were. *)
LEMMA OthersComing ==
    ASSUME NEW t \in Callers, NEW r \in Callers, r # t, NEW n,
           tmp_list'[r] = tmp_list[r], key'[r] = key[r], argv'[r] = argv[r],
           pc'[r] = pc[r] \/ (pc'[r] = "wait" /\ pc[r] = "asleep")
    PROVE  Coming(r, n)' = Coming(r, n)
BY DEF Coming, SendsAll, Writing, Accepted

LEMMA BroadcastsGoOn ==
    ASSUME TypeInv, BroadcastsReachAll, NEW t \in Callers,
           \/ \E k \in Keys, m \in Messages \cup {<<>>} : Call(t, k, m)
           \/ search_each_node(t) \/ LockToWrite(t) \/ DropLength(t) \/ DropData(t)
           \/ PutLength(t) \/ WaitEvent(t)
    PROVE  BroadcastsReachAll'
<1>1. /\ pc \in [Callers -> Labels] /\ tmp_list \in [Callers -> 0 .. Len(list)]
      /\ key \in [Callers -> Keys] /\ argv \in [Callers -> Messages \cup {<<>>}]
      BY DEF TypeInv, TypeOK, Keys
<1>2. UNCHANGED <<list, sent, born, casts>>
      BY DEF Call, search_each_node, LockToWrite, DropLength, DropData, PutLength,
             WaitEvent, channels, history
<1>3. \A r \in Callers \ {t} : /\ pc'[r] = pc[r] /\ tmp_list'[r] = tmp_list[r]
                               /\ key'[r] = key[r] /\ argv'[r] = argv[r]
      BY <1>1 DEF Call, search_each_node, LockToWrite, DropLength, DropData, PutLength,
             WaitEvent, Goto
<1>4. \A n : Coming(t, n)' = Coming(t, n)
  <2>1. CASE \E k \in Keys, m \in Messages \cup {<<>>} : Call(t, k, m)
        BY <1>1, <2>1 DEF Call, Goto, Coming
  <2>2. CASE search_each_node(t)
    <3>1. ~SendsAll(t) /\ ~SendsAll(t)'
          BY <2>2 DEF search_each_node, SendsAll, Writing
    <3>2. QED BY <3>1 DEF Coming
  <2>3. CASE LockToWrite(t)
        BY <1>1, <2>3 DEF LockToWrite, Goto, Coming, SendsAll, Writing, Accepted
  <2>4. CASE DropLength(t) \/ DropData(t) \/ PutLength(t)
        BY <1>1, <2>4 DEF DropLength, DropData, PutLength, Goto, Coming, SendsAll, Writing,
                          Accepted
  <2>5. CASE WaitEvent(t)
        BY <1>1, <2>5 DEF WaitEvent, Goto, Coming
  <2>6. QED BY <2>1, <2>2, <2>3, <2>4, <2>5
<1>5. \A n \in DOMAIN list, r \in Callers : Coming(r, n)' = Coming(r, n)
      BY <1>3, <1>4, OthersComing
<1>6. QED BY <1>2, <1>5, BroadcastsKept

LEMMA BroadcastsAtEnd ==
    ASSUME TypeInv, ListInv, BroadcastsReachAll, NEW t \in Callers,
           AddFails(t) \/ Interrupted(t) \/ (NobodyToSendTo(t) /\ list_mutex' = Nobody)
              \/ GetLength(t) \/ GetData(t) \/ WakeUp(t)
    PROVE  BroadcastsReachAll'
<1>1. /\ pc \in [Callers -> Labels] /\ tmp_list \in [Callers -> 0 .. Len(list)]
      /\ key \in [Callers -> Keys] /\ argv \in [Callers -> Messages \cup {<<>>}]
      /\ Len(list) \in Nat /\ DOMAIN list = 1 .. Len(list)
      BY LenProperties DEF TypeInv, TypeOK, Keys
<1>2. UNCHANGED <<list, sent, born, casts>>
      BY DEF AddFails, Interrupted, NobodyToSendTo, GetLength, GetData, WakeUp, WakeUpTo,
             channels, history
<1>3. /\ Woken(tmp_list[t]) \in [Callers -> Labels]
      /\ \A r \in Callers : \/ Woken(tmp_list[t])[r] = pc[r]
                            \/ Woken(tmp_list[t])[r] = "wait" /\ pc[r] = "asleep"
      BY WokenType
<1>4. CASE WakeUp(t) /\ SendsAll(t) /\ tmp_list[t] < Len(list)
  <2>1. /\ pc[t] = "wake"
        /\ pc' = [Woken(tmp_list[t]) EXCEPT ![t] = "write"]
        /\ tmp_list' = [tmp_list EXCEPT ![t] = tmp_list[t] + 1]
        /\ UNCHANGED <<key, argv>>
        BY <1>4 DEF WakeUp, WakeUpTo
  <2>2. /\ pc'[t] = "write" /\ tmp_list'[t] = tmp_list[t] + 1
        /\ \A r \in Callers \ {t} :
              /\ tmp_list'[r] = tmp_list[r]
              /\ pc'[r] = pc[r] \/ (pc'[r] = "wait" /\ pc[r] = "asleep")
        BY <1>1, <1>3, <2>1
  <2>3. \A n \in 1 .. Len(list) : Coming(t, n)' = Coming(t, n)
        BY <1>1, <2>1, <2>2 DEF Coming, SendsAll, Writing, Accepted
  <2>4. \A n \in DOMAIN list, r \in Callers : Coming(r, n)' = Coming(r, n)
        BY <1>1, <2>1, <2>2, <2>3, OthersComing
  <2>5. QED BY <1>2, <2>4, BroadcastsKept
<1>5. CASE ~(WakeUp(t) /\ SendsAll(t) /\ tmp_list[t] < Len(list))
  <2>1. \/ EndCall(t, pc) \/ EndCall(t, Woken(tmp_list[t]))
        \/ /\ pc' = [pc EXCEPT ![t] = "get"] /\ UNCHANGED <<key, argv, tmp_list>>
        BY <1>5 DEF AddFails, Interrupted, NobodyToSendTo, GetLength, GetData, WakeUp, WakeUpTo,
                    Return, Goto
  <2>2. /\ pc'[t] \in {"idle", "get"}
        /\ \A r \in Callers \ {t} :
              /\ pc'[r] = pc[r] \/ (pc'[r] = "wait" /\ pc[r] = "asleep")
              /\ tmp_list'[r] = tmp_list[r] /\ key'[r] = key[r] /\ argv'[r] = argv[r]
        BY <1>1, <1>3, <2>1 DEF EndCall
  <2>3. \A n \in 1 .. Len(list) : Coming(t, n)' = Coming(t, n)
    <3>1. CASE WakeUp(t)
          BY <1>1, <1>5, <2>2, <3>1 DEF WakeUp, WakeUpTo, Coming
    <3>2. CASE ~WakeUp(t)
          BY <2>2, <3>2 DEF AddFails, Interrupted, NobodyToSendTo, GetLength, GetData, Coming
    <3>3. QED BY <3>1, <3>2
  <2>4. \A n \in DOMAIN list, r \in Callers : Coming(r, n)' = Coming(r, n)
        BY <1>1, <2>2, <2>3, OthersComing
  <2>5. QED BY <1>2, <2>4, BroadcastsKept
<1>6. QED BY <1>4, <1>5

(* BroadcastsReachAll for one channel: s is its history, b the broadcasts there
   were before it, c those it should have had. *)
Served(s, b, c) ==
    /\ \A k \in b + 1 .. c : \E i \in DOMAIN s : s[i].cast = k
    /\ \A i \in DOMAIN s : s[i].cast <= c
    /\ \A i, j \in DOMAIN s : i < j /\ s[j].cast # 0 => s[i].cast < s[j].cast

LEMMA ServedAll ==
    BroadcastsReachAll <=>
        IsInjective(list) /\ \A n \in DOMAIN list : Served(sent[n], born[n], Reached(n))
BY DEF BroadcastsReachAll, Served

(* The next broadcast in turn, or a message that is none. *)
LEMMA ServedNext ==
    ASSUME NEW s \in Seq(Entry), NEW e \in Entry, NEW b \in Nat, NEW c \in Nat, NEW d \in Nat,
           Served(s, b, c), (e.cast = 0 /\ d = c) \/ (e.cast = c + 1 /\ d = c + 1)
    PROVE  Served(Append(s, e), b, d)
<1> DEFINE u == Append(s, e)
           l == Len(s)
<1>1. /\ l \in Nat /\ DOMAIN s = 1 .. l /\ DOMAIN u = 1 .. l + 1
      /\ \A i \in 1 .. l : u[i] = s[i] /\ s[i].cast \in Nat
      /\ u[l + 1] = e /\ e.cast \in Nat
  <2>1. /\ l \in Nat /\ DOMAIN s = 1 .. l /\ \A i \in 1 .. l : s[i] \in Entry
        BY LenProperties, ElementOfSeq
  <2>2. u \in Seq(Entry) /\ Len(u) = l + 1 /\ (\A i \in 1 .. l : u[i] = s[i]) /\ u[l + 1] = e
        BY AppendProperties
  <2>3. DOMAIN u = 1 .. l + 1
        BY <2>2, LenProperties
  <2>4. \A x \in Entry : x.cast \in Nat
        BY DEF Entry
  <2> HIDE DEF u, l
  <2>5. QED BY <2>1, <2>2, <2>3, <2>4
<1> HIDE DEF u, l
<1>2. \A i \in DOMAIN u : i \in 1 .. l \/ i = l + 1
      BY <1>1
<1>3. \A k \in b + 1 .. d : \E i \in DOMAIN u : u[i].cast = k
  <2>1. SUFFICES ASSUME NEW k \in b + 1 .. d PROVE \E i \in DOMAIN u : u[i].cast = k
        OBVIOUS
  <2>2. CASE k <= c
    <3>1. PICK i \in 1 .. l : s[i].cast = k
          BY <1>1, <2>2 DEF Served
    <3>2. i \in DOMAIN u /\ u[i].cast = k
          BY <1>1, <3>1
    <3>3. QED BY <3>2
  <2>3. CASE ~(k <= c)
    <3>1. k = c + 1 /\ e.cast = k
          BY <2>3
    <3>2. l + 1 \in DOMAIN u /\ u[l + 1].cast = k
          BY <1>1, <3>1
    <3>3. QED BY <3>2
  <2>4. QED BY <2>2, <2>3
<1>4. \A i \in DOMAIN u : u[i].cast <= d
      BY <1>1, <1>2 DEF Served
<1>5. \A i, j \in DOMAIN u : i < j /\ u[j].cast # 0 => u[i].cast < u[j].cast
  <2>1. SUFFICES ASSUME NEW i \in DOMAIN u, NEW j \in DOMAIN u, i < j, u[j].cast # 0
                 PROVE  u[i].cast < u[j].cast
        OBVIOUS
  <2>2. i \in 1 .. l /\ u[i] = s[i] /\ s[i].cast <= c /\ s[i].cast \in Nat
        BY <1>1, <2>1 DEF Served
  <2>3. CASE j \in 1 .. l
        BY <1>1, <2>1, <2>2, <2>3 DEF Served
  <2>4. CASE j = l + 1
        BY <1>1, <2>1, <2>2, <2>4
  <2>5. QED BY <1>2, <2>3, <2>4
<1>6. QED BY <1>3, <1>4, <1>5 DEF Served, u

(* While t has the mutex and is not in a broadcast, none is under way. *)
LEMMA NoneComing ==
    ASSUME TypeInv, ListInv, NEW t \in Callers, list_mutex = t, pc[t] \in {"search", "add"},
           NEW n
    PROVE  Reached(n) = casts
<1>1. \A r \in Callers : ~Coming(r, n)
  <2>1. SUFFICES ASSUME NEW r \in Callers, Coming(r, n) PROVE FALSE
        OBVIOUS
  <2>2. r = t
        BY <2>1, ComingHolds
  <2>3. QED BY <2>1, <2>2 DEF Coming
<1>2. QED BY <1>1 DEF Reached

LEMMA BroadcastsAtStart ==
    ASSUME TypeInv, ListInv, BroadcastsReachAll, NEW t \in Callers, StartBroadcast(t)
    PROVE  BroadcastsReachAll'
<1>1. /\ pc[t] = "search" /\ SendsAll(t) /\ Holds(t)
      /\ UNCHANGED <<list, sent, born, key, argv>>
      /\ pc' = [pc EXCEPT ![t] = "write"]
      /\ tmp_list' = [tmp_list EXCEPT ![t] = 1]
      /\ casts' = IF Accepted(argv[t]) THEN casts + 1 ELSE casts
      BY DEF StartBroadcast, Goto, channels, Holds
<1>2. /\ pc \in [Callers -> Labels] /\ tmp_list \in [Callers -> 0 .. Len(list)]
      /\ Len(list) \in Nat /\ DOMAIN list = 1 .. Len(list) /\ casts \in Nat
      BY LenProperties DEF TypeInv, TypeOK
<1>3. list_mutex = t
      BY <1>1 DEF ListInv, MutexInv
<1>4. \A n : Reached(n) = casts /\ \A r \in Callers : ~Coming(r, n)
  <2>1. TAKE n
  <2>2. Reached(n) = casts
        BY <1>1, <1>3, NoneComing
  <2>3. ASSUME NEW r \in Callers, Coming(r, n) PROVE FALSE
    <3>1. r = t
          BY <1>3, <2>3, ComingHolds
    <3>2. QED BY <1>1, <2>3, <3>1 DEF Coming
  <2>4. QED BY <2>2, <2>3
<1>5. \A n \in DOMAIN list, r \in Callers \ {t} : ~Coming(r, n)'
  <2>1. \A r \in Callers \ {t} : /\ pc'[r] = pc[r] /\ tmp_list'[r] = tmp_list[r]
                                 /\ key'[r] = key[r] /\ argv'[r] = argv[r]
        BY <1>1, <1>2
  <2>2. QED BY <1>4, <2>1, OthersComing
<1>6. \A n \in DOMAIN list : Reached(n)' = casts
  <2>1. CASE Accepted(argv[t])
    <3>1. \A n \in DOMAIN list : Coming(t, n)'
          BY <1>1, <1>2, <2>1 DEF Coming, SendsAll, Writing, Accepted
    <3>2. QED BY <1>1, <1>2, <2>1, <3>1 DEF Reached
  <2>2. CASE ~Accepted(argv[t])
    <3>1. \A n : ~Coming(t, n)'
          BY <1>1, <2>2 DEF Coming, Accepted
    <3>2. QED BY <1>1, <1>5, <2>2, <3>1 DEF Reached
  <2>3. QED BY <2>1, <2>2
<1>7. QED BY <1>1, <1>4, <1>6 DEF BroadcastsReachAll, IsInjective

LEMMA BroadcastsAtAdd ==
    ASSUME TypeInv, ListInv, ListInv', BroadcastsReachAll, NEW t \in Callers, add_node_list(t)
    PROVE  BroadcastsReachAll'
<1>1. /\ pc[t] = "add" /\ ~SendsAll(t) /\ list_mutex = t
      BY DEF add_node_list, ListInv, MutexInv, Holds
<1>2. /\ list \in Seq(Keys) /\ key[t] \in Keys /\ Len(list) \in Nat /\ casts \in Nat
      /\ DOMAIN list = 1 .. Len(list)
      /\ sent \in Seq(Seq(Entry)) /\ Len(sent) = Len(list)
      /\ born \in Seq(Nat) /\ Len(born) = Len(list)
      /\ pc \in [Callers -> Labels] /\ tmp_list \in [Callers -> 0 .. Len(list)]
      BY LenProperties DEF TypeInv, TypeOK, Keys, Entry
<1>3. /\ list' = Append(list, key[t]) /\ sent' = Append(sent, <<>>) /\ born' = Append(born, casts)
      /\ UNCHANGED <<casts, key, argv>>
      /\ pc'[t] \in {"write", "wait"}
      /\ \A r \in Callers \ {t} : pc'[r] = pc[r] /\ tmp_list'[r] = tmp_list[r]
      BY <1>2 DEF add_node_list, Goto, Work
<1>4. <<>> \in Seq(Entry) /\ DOMAIN <<>> = {}
      BY EmptySeq
<1>5. /\ DOMAIN list' = 1 .. Len(list) + 1
      /\ \A n \in 1 .. Len(list) : sent'[n] = sent[n] /\ born'[n] = born[n]
      /\ sent'[Len(list) + 1] = <<>> /\ born'[Len(list) + 1] = casts
      BY <1>2, <1>3, <1>4, AppendProperties, LenProperties
<1>6. \A n : Reached(n) = casts
      BY <1>1, NoneComing
<1>7. \A n : Reached(n)' = casts
  <2>1. TAKE n
  <2>2. \A r \in Callers : ~Coming(r, n)
    <3>1. SUFFICES ASSUME NEW r \in Callers, Coming(r, n) PROVE FALSE
          OBVIOUS
    <3>2. r = t
          BY <1>1, <3>1, ComingHolds
    <3>3. QED BY <1>1, <3>1, <3>2 DEF Coming
  <2>3. \A r \in Callers \ {t} : ~Coming(r, n)'
        BY <1>3, <2>2, OthersComing
  <2>4. ~Coming(t, n)'
        BY <1>1, <1>3 DEF Coming, SendsAll, Writing
  <2>5. QED BY <1>3, <2>3, <2>4 DEF Reached
<1>8. IsInjective(list)'
      BY DEF ListInv
<1>9. \A n \in 1 .. Len(list) : Served(sent'[n], born'[n], Reached(n)')
  <2>1. \A n \in 1 .. Len(list) : Served(sent[n], born[n], Reached(n))
        BY <1>2, ServedAll
  <2>2. QED BY <1>5, <1>6, <1>7, <2>1
<1>10. Served(<<>>, casts, casts)
  <2>1. \A k \in casts + 1 .. casts : FALSE
        BY <1>2
  <2>2. QED BY <1>4, <2>1 DEF Served
<1>11. \A n \in DOMAIN list' : Served(sent'[n], born'[n], Reached(n)')
  <2>1. \A n \in DOMAIN list' : n \in 1 .. Len(list) \/ n = Len(list) + 1
        BY <1>2, <1>5
  <2>2. QED BY <1>5, <1>7, <1>9, <1>10, <2>1
<1>12. QED BY <1>8, <1>11 DEF BroadcastsReachAll, Served

LEMMA BroadcastsAtPut ==
    ASSUME TypeInv, ListInv, BroadcastsReachAll, NEW t \in Callers, PutData(t)
    PROVE  BroadcastsReachAll'
<1> DEFINE m == tmp_list[t]
<1>1. /\ pc[t] = "data" /\ pc' = [pc EXCEPT ![t] = "wake"]
      /\ UNCHANGED <<list, born, casts, key, argv, tmp_list>>
      BY DEF PutData, Goto
<1>2. /\ pc \in [Callers -> Labels] /\ casts \in Nat /\ Accepted(argv[t])
      /\ DOMAIN list = 1 .. Len(list) /\ Len(list) \in Nat /\ m \in 1 .. Len(list)
      /\ born \in Seq(Nat) /\ Len(born) = Len(list)
      BY <1>1, AddedStep, LenProperties DEF TypeInv, TypeOK, PlaceInv
<1>3. /\ sent[m] \in Seq(Entry) /\ Added(t) \in Entry
      /\ \A n \in DOMAIN list : sent'[n] = IF n = m THEN Append(sent[n], Added(t)) ELSE sent[n]
      BY <1>2, AddedStep
<1>4. /\ pc'[t] = "wake"
      /\ \A r \in Callers \ {t} : pc'[r] = pc[r]
      BY <1>1, <1>2
<1>5. \A n : \A r \in Callers : r # t => Coming(r, n)' = Coming(r, n)
      BY <1>1, <1>4, OthersComing
<1>6. \A n \in DOMAIN list : n # m => Coming(t, n)' = Coming(t, n)
      BY <1>1, <1>2, <1>4 DEF Coming, SendsAll, Writing, Accepted
<1>7. \A n \in DOMAIN list : n # m => Reached(n)' = Reached(n)
      BY <1>1, <1>5, <1>6 DEF Reached
<1>8. \/ Added(t).cast = 0 /\ Reached(m)' = Reached(m)
      \/ Added(t).cast = Reached(m) + 1 /\ Reached(m)' = Reached(m) + 1
  <2>1. CASE SendsAll(t)
    <3>1. Coming(t, m)
          BY <1>1, <1>2, <2>1 DEF Coming
    <3>2. Reached(m) = casts - 1
          BY <3>1 DEF Reached
    <3>3. ~Coming(t, m)'
          BY <1>1, <1>2, <1>4 DEF Coming
    <3>4. \A r \in Callers \ {t} : ~Coming(r, m)'
      <4>1. SUFFICES ASSUME NEW r \in Callers \ {t}, Coming(r, m) PROVE FALSE
        <5>1. UNCHANGED tmp_list
              BY <1>1
        <5>2. \A r \in Callers \ {t} : Coming(r, m)' = Coming(r, m)
              BY <1>5, <5>1
        <5>3. QED BY <5>2
      <4>2. list_mutex = r /\ list_mutex = t
            BY <3>1, <4>1, ComingHolds
      <4>3. QED BY <4>1, <4>2
    <3>5. Reached(m)' = casts
      <4>1. \A r \in Callers : ~Coming(r, tmp_list[t])'
            BY <3>3, <3>4
      <4>2. QED BY <1>1, <4>1 DEF Reached
    <3>6. Added(t).cast = casts
          BY <2>1 DEF Added
    <3>7. QED BY <1>2, <3>2, <3>5, <3>6
  <2>2. CASE ~SendsAll(t)
    <3>1. Coming(t, m)' = Coming(t, m)
          BY <1>1, <2>2 DEF Coming, SendsAll, Writing
    <3>2. Reached(m)' = Reached(m)
          BY <1>1, <1>5, <3>1 DEF Reached
    <3>3. Added(t).cast = 0
          BY <2>2 DEF Added
    <3>4. QED BY <3>2, <3>3
  <2>3. QED BY <2>1, <2>2
<1>9. \A n \in DOMAIN list : Served(sent[n], born[n], Reached(n))
      BY ServedAll
<1>10. \A n \in DOMAIN list : n # m => Served(sent'[n], born'[n], Reached(n)')
      BY <1>1, <1>3, <1>7, <1>9
<1>11. Served(sent'[m], born'[m], Reached(m)')
  <2>1. born[m] \in Nat /\ Reached(m) \in Nat
        BY <1>2, ReachedIsNat, ElementOfSeq
  <2>2. Reached(m)' \in Nat
        BY <1>8, <2>1
  <2>3. Served(Append(sent[m], Added(t)), born[m], Reached(m)')
        BY <1>2, <1>3, <1>8, <1>9, <2>1, <2>2, ServedNext
  <2>4. sent'[m] = Append(sent[m], Added(t)) /\ born'[m] = born[m]
        BY <1>1, <1>2, <1>3
  <2>5. QED BY <2>3, <2>4
<1>12. IsInjective(list)'
      BY <1>1 DEF BroadcastsReachAll, IsInjective
<1>13. \A n \in DOMAIN list' : Served(sent'[n], born'[n], Reached(n)')
      BY <1>1, <1>10, <1>11
<1>14. QED BY <1>12, <1>13 DEF BroadcastsReachAll, Served

LEMMA BroadcastsStep ==
    TypeInv /\ ListInv /\ BroadcastsReachAll /\ [Next]_vars => BroadcastsReachAll'
<1>1. SUFFICES ASSUME TypeInv, ListInv, BroadcastsReachAll, [Next]_vars
               PROVE  BroadcastsReachAll'
      OBVIOUS
<1>2. ListInv'
      BY <1>1, ListStep
<1>3. CASE UNCHANGED vars
      BY <1>1, <1>3 DEF vars, channels, locals, history, BroadcastsReachAll, IsInjective,
                        Reached, Coming, SendsAll, Writing, Accepted
<1>4. CASE Next
      BY <1>1, <1>2, <1>4, BroadcastsGoOn, BroadcastsAtEnd, BroadcastsAtStart, BroadcastsAtAdd,
         BroadcastsAtPut
      DEF Next, hal_comm_ioctl, send_all_fifo, Keys
<1>5. QED BY <1>1, <1>3, <1>4

(* For any number of channels, senders and additions to the list meanwhile:
   one queue to a channel, and every broadcast in each, once and in order. *)
THEOREM BroadcastsArrive == Spec => []BroadcastsReachAll
<1>1. Init => BroadcastsReachAll
  <2>1. DOMAIN <<>> = {}
        BY EmptySeq
  <2>2. QED BY <2>1 DEF Init, BroadcastsReachAll, IsInjective
<1>2. QED BY <1>1, InitType, TypeStep, InitList, ListStep, BroadcastsStep, PTL DEF Spec

----------------------------------------------------------------------------
(* What the queues hold: rows of records. *)

RecordOf(e) == <<Len(e.msg)>> \o e.msg
EntryForm == [e \in Entry |-> RecordOf(e)]

(* The part of a sequence that follows its first k elements. *)
LEMMA SuffixType ==
    ASSUME NEW S, NEW s \in Seq(S), NEW n \in Nat, n = Len(s), NEW k \in 0 .. n
    PROVE  /\ SubSeq(s, k + 1, n) \in Seq(S) /\ Len(SubSeq(s, k + 1, n)) = n - k
           /\ \A i \in 1 .. n - k : SubSeq(s, k + 1, n)[i] = s[k + i]
<1>1. \A i \in k + 1 .. n : s[i] \in S
      BY ElementOfSeq
<1>2. PICK a \in Int : a = k + 1
      OBVIOUS
<1>3. SubSeq(s, a, n) \in Seq(S)
      BY <1>1, <1>2, SubSeqProperties
<1>4. Len(SubSeq(s, a, n)) = IF a <= n THEN n - a + 1 ELSE 0
      BY <1>1, <1>2, SubSeqProperties
<1>5. \A i \in 1 .. n - a + 1 : SubSeq(s, a, n)[i] = s[a + i - 1]
      BY <1>1, <1>2, SubSeqProperties
<1>6. Len(SubSeq(s, a, n)) = n - k
      BY <1>2, <1>4
<1>7. n - a + 1 = n - k /\ \A i \in 1 .. n - k : a + i - 1 = k + i
      BY <1>2
<1>8. \A i \in 1 .. n - k : SubSeq(s, a, n)[i] = s[k + i]
      BY <1>5, <1>7
<1>9. QED BY <1>2, <1>3, <1>6, <1>8

LEMMA ConcatThree ==
    \A u, v, w \in Seq(Nat) : (u \o v) \o w = u \o (v \o w) /\ v \o w \in Seq(Nat)
BY ConcatAssociative, ConcatProperties

LEMMA RecordOfType ==
    \A e \in Entry : e.msg \in Messages /\ e.msg \in Seq(Nat) /\ Len(e.msg) \in Nat
                     /\ RecordOf(e) \in Seq(Nat) /\ RecordOf(e) # <<>>
<1> TAKE e \in Entry
<1>1. PICK m \in Seq(Nat) : m = e.msg /\ e.msg \in Messages
      BY HalCommAssumption DEF Entry
<1>2. Len(m) \in Nat
      BY LenProperties
<1>3. PICK h \in Seq(Nat) : h = <<Len(m)>> /\ Len(h) = 1
  <2>1. <<Len(m)>> \in Seq(Nat) /\ Len(<<Len(m)>>) = 1
        BY <1>2, OneElement
  <2>2. QED BY <2>1
<1>4. h \o m \in Seq(Nat) /\ Len(h \o m) = 1 + Len(m)
      BY <1>3, ConcatProperties
<1>5. h \o m # <<>>
      BY <1>2, <1>4, EmptySeq
<1>6. QED BY <1>1, <1>2, <1>3, <1>4, <1>5 DEF RecordOf

LEMMA RecordsRow ==
    /\ EntryForm \in [Entry -> Seq(Nat)]
    /\ \A e \in Entry : EntryForm[e] = RecordOf(e)
    /\ \A s \in Seq(Entry) : Records(s) = RowOf(EntryForm, s)
<1>1. EntryForm \in [Entry -> Seq(Nat)] /\ \A e \in Entry : EntryForm[e] = RecordOf(e)
      BY RecordOfType DEF EntryForm
<1>2. ASSUME NEW s \in Seq(Entry) PROVE Records(s) = RowOf(EntryForm, s)
  <2>1. \A i \in DOMAIN s : s[i] \in Entry
        BY ElementOfSeq, LenProperties
  <2>2. [i \in DOMAIN s |-> RecordOf(s[i])] = Images(EntryForm, s)
        BY <1>1, <2>1 DEF Images
  <2>3. QED BY <2>2 DEF Records, RecordOf, RowOf
<1>3. QED BY <1>1, <1>2

LEMMA RecordsType ==
    ASSUME NEW s \in Seq(Entry)
    PROVE  Records(s) \in Seq(Nat)
BY RecordsRow, RowOfType

LEMMA RecordsEmpty == Records(<<>>) = <<>>
BY RecordsRow, RowOfNothing, EmptySeq

(* A record more is put at the end, and taken from the front. *)
LEMMA RecordsAppend ==
    ASSUME NEW s \in Seq(Entry), NEW e \in Entry
    PROVE  Records(Append(s, e)) = Records(s) \o RecordOf(e)
<1>1. RowOf(EntryForm, Append(s, e)) = RowOf(EntryForm, s) \o EntryForm[e]
      BY RecordsRow, RowOfAppend
<1>2. Append(s, e) \in Seq(Entry)
      BY AppendProperties
<1>3. QED BY <1>1, <1>2, RecordsRow

LEMMA RecordsHead ==
    ASSUME NEW s \in Seq(Entry), NEW e \in Entry
    PROVE  Records(<<e>> \o s) = RecordOf(e) \o Records(s)
<1>1. RowOf(EntryForm, <<e>> \o s) = EntryForm[e] \o RowOf(EntryForm, s)
      BY RecordsRow, RowOfHead
<1>2. <<e>> \o s \in Seq(Entry)
      BY OneElement, ConcatProperties
<1>3. QED BY <1>1, <1>2, RecordsRow

----------------------------------------------------------------------------
(* q holds the newest records of a history, from some entry on. *)
Newest(s, q) == \E k \in 0 .. Len(s) : q = Records(SubSeq(s, k + 1, Len(s)))

LEMMA NewestEmpty == Newest(<<>>, <<>>)
<1>1. 0 \in 0 .. Len(<<>>) /\ SubSeq(<<>>, 0 + 1, Len(<<>>)) = <<>>
      BY SubSeqEmpty, EmptySeq
<1>2. QED BY <1>1, RecordsEmpty DEF Newest

(* A new entry: its record is put behind them. *)
LEMMA NewestAppend ==
    ASSUME NEW s \in Seq(Entry), NEW e \in Entry, NEW q, Newest(s, q)
    PROVE  Newest(Append(s, e), q \o RecordOf(e))
<1>1. PICK n \in Nat : n = Len(s)
      BY LenProperties
<1>2. PICK k \in 0 .. n : q = Records(SubSeq(s, k + 1, n))
      BY <1>1 DEF Newest
<1>3. PICK tt \in Seq(Entry) : tt = Append(s, e)
      BY AppendProperties
<1>4. Len(tt) = n + 1 /\ (\A i \in 1 .. n : tt[i] = s[i]) /\ tt[n + 1] = e
      BY <1>1, <1>3, AppendProperties
<1>5. PICK u \in Seq(Entry) : u = SubSeq(s, k + 1, n) /\ Len(u) = n - k
                              /\ \A i \in 1 .. n - k : u[i] = s[k + i]
  <2>1. /\ SubSeq(s, k + 1, n) \in Seq(Entry) /\ Len(SubSeq(s, k + 1, n)) = n - k
        /\ \A i \in 1 .. n - k : SubSeq(s, k + 1, n)[i] = s[k + i]
        BY <1>1, SuffixType
  <2>2. QED BY <2>1
<1>6. PICK w \in Seq(Entry) : w = SubSeq(tt, k + 1, n + 1) /\ Len(w) = n + 1 - k
                              /\ \A i \in 1 .. n + 1 - k : w[i] = tt[k + i]
  <2>1. n + 1 \in Nat /\ n + 1 = Len(tt) /\ k \in 0 .. n + 1
        BY <1>4
  <2>2. /\ SubSeq(tt, k + 1, n + 1) \in Seq(Entry) /\ Len(SubSeq(tt, k + 1, n + 1)) = n + 1 - k
        /\ \A i \in 1 .. n + 1 - k : SubSeq(tt, k + 1, n + 1)[i] = tt[k + i]
        BY <2>1, SuffixType
  <2>3. QED BY <2>2
<1>7. PICK v \in Seq(Entry) : v = Append(u, e)
      BY AppendProperties
<1>8. Len(v) = n - k + 1 /\ (\A i \in 1 .. n - k : v[i] = u[i]) /\ v[n - k + 1] = e
      BY <1>5, <1>7, AppendProperties
<1>9. \A i \in 1 .. n - k + 1 : v[i] = w[i]
  <2>1. TAKE i \in 1 .. n - k + 1
  <2>2. CASE i = n - k + 1
    <3>1. k + i = n + 1 /\ i \in 1 .. n + 1 - k
          BY <2>2
    <3>2. w[i] = tt[k + i]
          BY <1>6, <3>1
    <3>3. w[i] = e
          BY <1>4, <3>1, <3>2
    <3>4. v[i] = e
          BY <1>8, <2>2
    <3>5. QED BY <3>3, <3>4
  <2>3. CASE i \in 1 .. n - k
    <3>1. k + i \in 1 .. n
          BY <2>3
    <3>2. v[i] = s[k + i]
          BY <1>5, <1>8, <2>3
    <3>3. w[i] = tt[k + i]
          BY <1>6, <2>3
    <3>4. QED BY <1>4, <3>1, <3>2, <3>3
  <2>4. QED BY <2>2, <2>3
<1>10. v = w
  <2>1. Len(v) = Len(w) /\ \A i \in 1 .. Len(v) : v[i] = w[i]
        BY <1>6, <1>8, <1>9
  <2>2. QED BY <2>1, SeqEqual
<1>11. Records(v) = Records(u) \o RecordOf(e)
      BY <1>7, RecordsAppend
<1>12. k \in 0 .. Len(tt) /\ q \o RecordOf(e) = Records(SubSeq(tt, k + 1, Len(tt)))
      BY <1>2, <1>4, <1>5, <1>6, <1>10, <1>11
<1>13. QED BY <1>3, <1>12 DEF Newest

(* The oldest record, when its length has been taken: what is read then is a
   message, and leaves the newer ones. *)
LEMMA NewestTake ==
    ASSUME NEW s \in Seq(Entry), NEW d \in Nat, NEW f \in Seq(Nat), Newest(s, <<d>> \o f)
    PROVE  KfifoOut(f, d) \in Messages /\ Newest(s, KfifoRest(f, d))
<1>1. PICK n \in Nat : n = Len(s)
      BY LenProperties
<1>2. PICK k \in 0 .. n : <<d>> \o f = Records(SubSeq(s, k + 1, n))
      BY <1>1 DEF Newest
<1>3. PICK h \in Seq(Nat) : h = <<d>> /\ Len(h) = 1 /\ h[1] = d
  <2>1. <<d>> \in Seq(Nat) /\ Len(<<d>>) = 1 /\ <<d>>[1] = d
        BY OneElement
  <2>2. QED BY <2>1
<1>4. Len(h \o f) = 1 + Len(f) /\ (h \o f)[1] = d /\ h \o f \in Seq(Nat)
      BY <1>3, ConcatProperties, LenProperties
<1>5. k # n
  <2>1. SUFFICES ASSUME k = n PROVE FALSE
        OBVIOUS
  <2>2. SubSeq(s, k + 1, n) = <<>>
        BY <2>1, SubSeqEmpty
  <2>3. h \o f = <<>>
        BY <1>2, <1>3, <2>2, RecordsEmpty
  <2>4. QED BY <1>4, <2>3, LenProperties, EmptySeq
<1>6. PICK e \in Entry : e = s[k + 1]
      BY <1>1, <1>5, ElementOfSeq
<1>7. PICK u \in Seq(Entry) : u = SubSeq(s, k + 1 + 1, n)
  <2>1. \A i \in k + 1 + 1 .. n : s[i] \in Entry
        BY <1>1, ElementOfSeq
  <2>2. SubSeq(s, k + 1 + 1, n) \in Seq(Entry)
        BY <2>1, SubSeqProperties
  <2>3. QED BY <2>2
<1>8. SubSeq(s, k + 1, n) = <<e>> \o u
  <2>1. k + 1 \in 1 .. Len(s) /\ n \in k + 1 .. Len(s)
        BY <1>1, <1>5
  <2>2. SubSeq(s, k + 1, n) = <<s[k + 1]>> \o SubSeq(s, k + 1 + 1, n)
        BY <2>1, SubSeqRecursiveFirst
  <2>3. QED BY <1>6, <1>7, <2>2
<1>9. PICK m \in Seq(Nat) : m = e.msg /\ m \in Messages
      BY RecordOfType
<1>10. PICK r \in Seq(Nat) : r = Records(u)
      BY RecordsType
<1>11. PICK l \in Nat : l = Len(m)
      BY LenProperties
<1>12. PICK g \in Seq(Nat) : g = <<l>> /\ Len(g) = 1 /\ g[1] = l
  <2>1. <<l>> \in Seq(Nat) /\ Len(<<l>>) = 1 /\ <<l>>[1] = l
        BY OneElement
  <2>2. QED BY <2>1
<1>13. h \o f = (g \o m) \o r
  <2>1. RecordOf(e) = g \o m
        BY <1>9, <1>11, <1>12 DEF RecordOf
  <2>2. Records(<<e>> \o u) = RecordOf(e) \o Records(u)
        BY RecordsHead
  <2>3. Records(SubSeq(s, k + 1, n)) = (g \o m) \o r
        BY <1>8, <1>10, <2>1, <2>2, Zenon
  <2>4. QED BY <1>2, <1>3, <2>3, Zenon
<1>14. h \o f = g \o (m \o r) /\ m \o r \in Seq(Nat)
  <2>1. (g \o m) \o r = g \o (m \o r) /\ m \o r \in Seq(Nat)
        BY ConcatThree
  <2>2. QED BY <1>13, <2>1, Zenon
<1>15. d = l
      BY <1>4, <1>12, <1>14, ConcatProperties, LenProperties
<1>16. f = m \o r
  <2>1. g = h
        BY <1>3, <1>12, <1>15
  <2>2. QED BY <1>14, <2>1, ConcatSimplifications
<1>17. SubSeq(m \o r, 1, l) = m /\ SubSeq(m \o r, l + 1, Len(m \o r)) = r
      BY <1>11, SliceJoint
<1>18. Len(m \o r) = l + Len(r) /\ Len(r) \in Nat
      BY <1>11, ConcatProperties, LenProperties
<1>19. KfifoOut(f, d) = m
      BY <1>15, <1>16, <1>17, <1>18 DEF KfifoOut
<1>20. KfifoRest(f, d) = r
      BY <1>15, <1>16, <1>17 DEF KfifoRest
<1>21. k + 1 \in 0 .. n /\ KfifoRest(f, d) = Records(SubSeq(s, k + 1 + 1, n))
      BY <1>5, <1>7, <1>10, <1>20
<1>22. QED BY <1>1, <1>9, <1>19, <1>21 DEF Newest
----------------------------------------------------------------------------
(* Whole records. *)

Holding == {"put", "drop", "data", "get"}

(* What a queue f with history s holds while somebody at label has its lock,
   with the length d taken out or the message m to put in: the newest records,
   but for the length in front that is out of it, or that is last and still
   lacks its message. *)
Part(label, s, f, d, m) ==
    /\ label = "put" => Newest(s, f)
    /\ label \in {"drop", "get"} => Newest(s, <<d>> \o f)
    /\ label = "data" =>
          \E q \in Seq(Nat) : /\ Newest(s, q) /\ f = Append(q, Len(m))
                              /\ Len(q) + 1 + Len(m) <= FifoSize

Free(n) == rw_lock[n] = Nobody => Newest(sent[n], fifo[n])
Holder(t) ==
    pc[t] \in Holding =>
        /\ rw_lock[tmp_list[t]] = t
        /\ Part(pc[t], sent[tmp_list[t]], fifo[tmp_list[t]], data_len[t], argv[t])
Read(t) == got[t] \in Messages \cup {<<>>}

RecordInv ==
    /\ \A n \in 1 .. Len(list) : Free(n)
    /\ \A t \in Callers : Holder(t) /\ Read(t)

(* A step that leaves the channels alone. *)
LEMMA RecordsQuiet ==
    ASSUME RecordInv, UNCHANGED <<list, fifo, rw_lock, sent>>,
           \A r \in Callers : got'[r] \in {got[r], <<>>},
           \A r \in Callers : pc'[r] \in Holding =>
               /\ pc'[r] = pc[r] /\ tmp_list'[r] = tmp_list[r]
               /\ data_len'[r] = data_len[r] /\ argv'[r] = argv[r]
    PROVE  RecordInv'
<1>1. \A n \in 1 .. Len(list') : Free(n)'
      BY DEF RecordInv, Free
<1>2. ASSUME NEW r \in Callers PROVE Holder(r)'
      BY DEF RecordInv, Holder
<1>3. ASSUME NEW r \in Callers PROVE Read(r)'
  <2>1. Read(r) /\ got'[r] \in {got[r], <<>>}
        BY DEF RecordInv
  <2>2. QED BY <2>1 DEF Read
<1>4. QED BY <1>1, <1>2, <1>3 DEF RecordInv

(* A step of t on channel k, whose lock is free or its own: no other holder
   works on that channel. *)
LEMMA RecordsOfChannel ==
    ASSUME TypeInv, RecordInv, NEW t \in Callers, NEW k \in 1 .. Len(list),
           rw_lock[k] \in {Nobody, t}, UNCHANGED list,
           \A n \in 1 .. Len(list) : n # k =>
               rw_lock'[n] = rw_lock[n] /\ fifo'[n] = fifo[n] /\ sent'[n] = sent[n],
           \A r \in Callers \ {t} :
               /\ pc'[r] = pc[r] /\ tmp_list'[r] = tmp_list[r]
               /\ data_len'[r] = data_len[r] /\ argv'[r] = argv[r] /\ got'[r] = got[r],
           got'[t] \in Messages \cup {<<>>},
           rw_lock'[k] = Nobody => Newest(sent'[k], fifo'[k]),
           pc'[t] \in Holding =>
               /\ tmp_list'[t] = k /\ rw_lock'[k] = t
               /\ Part(pc'[t], sent'[k], fifo'[k], data_len'[t], argv'[t])
    PROVE  RecordInv'
<1>1. \A n \in 1 .. Len(list) : Free(n)'
  <2>1. TAKE n \in 1 .. Len(list)
  <2>2. CASE n = k
        BY <2>2 DEF Free
  <2>3. CASE n # k
        BY <2>3 DEF RecordInv, Free
  <2>4. QED BY <2>2, <2>3
<1>2. ASSUME NEW r \in Callers PROVE Holder(r)'
  <2>1. CASE r = t
        BY <2>1 DEF Holder
  <2>2. CASE r # t
    <3>1. SUFFICES ASSUME pc'[r] \in Holding PROVE Holder(r)'
          BY DEF Holder
    <3>2. pc[r] \in Holding /\ tmp_list'[r] = tmp_list[r]
          BY <2>2, <3>1
    <3>3. tmp_list[r] \in 1 .. Len(list)
          BY <3>2 DEF TypeInv, PlaceInv, Placed, Sending, Holding
    <3>4. rw_lock[tmp_list[r]] = r
          BY <3>2 DEF RecordInv, Holder
    <3>5. tmp_list[r] # k
          BY <2>2, <3>4, HalCommAssumption
    <3>6. Holder(r)
          BY DEF RecordInv
    <3>7. QED BY <2>2, <3>2, <3>3, <3>5, <3>6 DEF Holder
  <2>3. QED BY <2>1, <2>2
<1>3. ASSUME NEW r \in Callers PROVE Read(r)'
  <2>1. Read(r)
        BY DEF RecordInv
  <2>2. CASE r = t
        BY <2>2 DEF Read
  <2>3. CASE r # t
        BY <2>1, <2>3 DEF Read
  <2>4. QED BY <2>2, <2>3
<1>4. QED BY <1>1, <1>2, <1>3 DEF RecordInv

(* The holder of a channel. *)
LEMMA HeldChannel ==
    ASSUME TypeInv, RecordInv, NEW t \in Callers, pc[t] \in Holding
    PROVE  /\ pc[t] \in Placed /\ tmp_list[t] \in 1 .. Len(list)
           /\ fifo[tmp_list[t]] \in Seq(Nat) /\ Len(fifo[tmp_list[t]]) <= FifoSize
           /\ sent[tmp_list[t]] \in Seq(Entry) /\ data_len[t] \in Nat
           /\ rw_lock[tmp_list[t]] = t
           /\ Part(pc[t], sent[tmp_list[t]], fifo[tmp_list[t]], data_len[t], argv[t])
<1>1. pc[t] \in Placed
      BY DEF Placed, Sending, Holding
<1>2. sent \in Seq(Seq(Entry)) /\ Len(sent) = Len(list)
      BY DEF TypeInv, TypeOK, Entry
<1>3. rw_lock[tmp_list[t]] = t
      /\ Part(pc[t], sent[tmp_list[t]], fifo[tmp_list[t]], data_len[t], argv[t])
      BY DEF RecordInv, Holder
<1>4. /\ tmp_list[t] \in 1 .. Len(list)
      /\ fifo[tmp_list[t]] \in Seq(Nat) /\ Len(fifo[tmp_list[t]]) <= FifoSize
      /\ data_len[t] \in Nat
      BY <1>1, Channel
<1>5. sent[tmp_list[t]] \in Seq(Entry)
      BY <1>2, <1>4, ElementOfSeq
<1>6. QED BY <1>1, <1>3, <1>4, <1>5

LEMMA LockStep ==
    ASSUME TypeInv, NEW t \in Callers, pc[t] \in Placed, NEW h \in Callers \cup {Nobody},
           rw_lock' = [rw_lock EXCEPT ![tmp_list[t]] = h]
    PROVE  \A n \in 1 .. Len(list) : rw_lock'[n] = IF n = tmp_list[t] THEN h ELSE rw_lock[n]
<1>1. rw_lock \in Seq(Callers \cup {Nobody}) /\ Len(rw_lock) = Len(list)
      BY DEF TypeInv, TypeOK
<1>2. tmp_list[t] \in 1 .. Len(list)
      BY Channel
<1>3. QED BY <1>1, <1>2, ExceptSeq

(* A queue with room takes all it is given. *)
LEMMA KfifoInFits ==
    ASSUME NEW q \in Seq(Nat), NEW w \in Seq(Nat), Len(q) + Len(w) <= FifoSize
    PROVE  KfifoIn(q, w) = q \o w
<1>1. Len(q) \in Nat /\ Len(w) \in Nat /\ FifoSize \in Nat
      BY HalCommAssumption, LenProperties
<1>2. Len(w) <= FifoSize - Len(q)
      BY <1>1
<1>3. SubSeq(w, 1, Len(w)) = w
      BY SubSeqFull
<1>4. QED BY <1>2, <1>3 DEF KfifoIn

(* Search, a new node and the lock. *)
LEMMA RecordsAtQuiet ==
    ASSUME TypeInv, RecordInv, NEW t \in Callers,
           \/ \E k \in Keys, m \in Messages \cup {<<>>} : Call(t, k, m)
           \/ search_each_node(t) \/ StartBroadcast(t) \/ NobodyToSendTo(t)
           \/ AddFails(t) \/ Interrupted(t) \/ WaitEvent(t)
           \/ LockToWrite(t) /\ ~Accepted(argv[t])
           \/ GetLength(t) /\ Len(fifo[tmp_list[t]]) <= 1
    PROVE  RecordInv'
<1>1. /\ pc \in [Callers -> Labels] /\ got \in [Callers -> Seq(Nat)]
      /\ argv \in [Callers -> Messages \cup {<<>>}] /\ data_len \in [Callers -> Nat]
      /\ tmp_list \in [Callers -> 0 .. Len(list)]
      BY DEF TypeInv, TypeOK
<1>2. UNCHANGED <<list, fifo, rw_lock, sent>>
      BY DEF Call, search_each_node, StartBroadcast, NobodyToSendTo, AddFails, Interrupted,
             WaitEvent, LockToWrite, GetLength, channels, history
<1>3. \A r \in Callers : got'[r] \in {got[r], <<>>}
      BY <1>1 DEF Call, search_each_node, StartBroadcast, NobodyToSendTo, AddFails, Interrupted,
             WaitEvent, LockToWrite, GetLength, history
<1>4. /\ pc'[t] \notin Holding
      /\ \A r \in Callers \ {t} :
               /\ pc'[r] = pc[r] /\ tmp_list'[r] = tmp_list[r]
               /\ data_len'[r] = data_len[r] /\ argv'[r] = argv[r]
  <2>1. CASE \E k \in Keys, m \in Messages \cup {<<>>} : Call(t, k, m)
        BY <1>1, <2>1 DEF Call, Goto, Holding
  <2>2. CASE search_each_node(t)
        BY <1>1, <2>2 DEF search_each_node, Goto, Work, Holding
  <2>3. CASE StartBroadcast(t)
        BY <1>1, <2>3 DEF StartBroadcast, Goto, Holding
  <2>4. CASE WaitEvent(t)
        BY <1>1, <2>4 DEF WaitEvent, Goto, Holding
  <2>5. CASE LockToWrite(t) /\ ~Accepted(argv[t])
        BY <1>1, <2>5 DEF LockToWrite, Goto, Holding
  <2>6. CASE EndCall(t, pc)
        BY <1>1, <2>6 DEF EndCall, Holding
  <2>7. QED
        BY <2>1, <2>2, <2>3, <2>4, <2>5, <2>6
        DEF NobodyToSendTo, AddFails, Interrupted, GetLength, Return
<1>5. QED BY <1>2, <1>3, <1>4, RecordsQuiet

LEMMA RecordsAtWakeUp ==
    ASSUME TypeInv, RecordInv, NEW t \in Callers, WakeUp(t)
    PROVE  RecordInv'
<1> DEFINE w == Woken(tmp_list[t])
<1>1. /\ argv \in [Callers -> Messages \cup {<<>>}] /\ data_len \in [Callers -> Nat]
      /\ tmp_list \in [Callers -> 0 .. Len(list)]
      BY DEF TypeInv, TypeOK
<1>2. /\ w \in [Callers -> Labels]
      /\ \A r \in Callers : w[r] = IF pc[r] = "asleep" /\ tmp_list[r] = tmp_list[t]
                                   THEN "wait" ELSE pc[r]
      BY WokenType
<1>3. UNCHANGED <<list, fifo, rw_lock, sent, got>>
      BY DEF WakeUp, WakeUpTo, channels, history
<1>4. \/ /\ pc' = [w EXCEPT ![t] = "write"]
         /\ tmp_list' = [tmp_list EXCEPT ![t] = tmp_list[t] + 1]
         /\ UNCHANGED <<argv, data_len>>
      \/ EndCall(t, w)
      BY DEF WakeUp, WakeUpTo
<1> HIDE DEF w
<1>5. /\ pc'[t] \in {"write", "idle"}
      /\ \A r \in Callers \ {t} :
               /\ pc'[r] = w[r] /\ tmp_list'[r] = tmp_list[r]
               /\ data_len'[r] = data_len[r] /\ argv'[r] = argv[r]
      BY <1>1, <1>2, <1>4 DEF EndCall
<1>6. \A r \in Callers : pc'[r] \in Holding =>
               /\ pc'[r] = pc[r] /\ tmp_list'[r] = tmp_list[r]
               /\ data_len'[r] = data_len[r] /\ argv'[r] = argv[r]
      BY <1>2, <1>5 DEF Holding
<1>7. QED BY <1>3, <1>6, RecordsQuiet

LEMMA RecordsAtAdd ==
    ASSUME TypeInv, RecordInv, NEW t \in Callers, add_node_list(t)
    PROVE  RecordInv'
<1>1. PICK n \in Nat : n = Len(list)
      BY LenProperties DEF TypeInv, TypeOK
<1>2. /\ fifo \in Seq(Seq(Nat)) /\ Len(fifo) = n
      /\ rw_lock \in Seq(Callers \cup {Nobody}) /\ Len(rw_lock) = n
      /\ sent \in Seq(Seq(Entry)) /\ Len(sent) = n
      BY <1>1 DEF TypeInv, TypeOK, Entry
<1>3. Len(list') = n + 1
      BY <1>1, AppendProperties DEF TypeInv, TypeOK, add_node_list
<1>4. <<>> \in Seq(Nat) /\ <<>> \in Seq(Entry)
      BY EmptySeq
<1>5. (\A i \in 1 .. n : fifo'[i] = fifo[i]) /\ fifo'[n + 1] = <<>>
      BY <1>2, <1>4, AppendProperties DEF add_node_list
<1>6. \A i \in 1 .. n : rw_lock'[i] = rw_lock[i]
      BY <1>2, AppendProperties DEF add_node_list
<1>7. (\A i \in 1 .. n : sent'[i] = sent[i]) /\ sent'[n + 1] = <<>>
      BY <1>2, <1>4, AppendProperties DEF add_node_list
<1>8. /\ pc'[t] \notin Holding
      /\ \A r \in Callers \ {t} :
               /\ pc'[r] = pc[r] /\ tmp_list'[r] = tmp_list[r]
               /\ data_len'[r] = data_len[r] /\ argv'[r] = argv[r]
      /\ got' = got
      BY DEF TypeInv, TypeOK, add_node_list, Goto, Work, Holding
<1>9. ASSUME NEW i \in 1 .. n + 1 PROVE Free(i)'
  <2>1. CASE i = n + 1
        BY <1>5, <1>7, <2>1, NewestEmpty DEF Free
  <2>2. CASE i \in 1 .. n
    <3>1. Free(i)
          BY <1>1, <2>2 DEF RecordInv
    <3>2. QED BY <1>5, <1>6, <1>7, <2>2, <3>1 DEF Free
  <2>3. QED BY <2>1, <2>2
<1>10. ASSUME NEW r \in Callers PROVE Holder(r)'
  <2>1. SUFFICES ASSUME pc'[r] \in Holding PROVE Holder(r)'
        BY DEF Holder
  <2>2. r # t /\ pc[r] \in Holding
        BY <1>8, <2>1
  <2>3. tmp_list[r] \in 1 .. n
        BY <1>1, <2>2 DEF TypeInv, PlaceInv, Placed, Sending, Holding
  <2>4. Holder(r)
        BY DEF RecordInv
  <2>5. QED BY <1>5, <1>6, <1>7, <1>8, <2>2, <2>3, <2>4 DEF Holder
<1>11. ASSUME NEW r \in Callers PROVE Read(r)'
      BY <1>8 DEF RecordInv, Read
<1>12. QED BY <1>3, <1>9, <1>10, <1>11 DEF RecordInv
LEMMA RecordsAtLock ==
    ASSUME TypeInv, RecordInv, NEW t \in Callers, LockToWrite(t), Accepted(argv[t])
    PROVE  RecordInv'
<1> DEFINE k == tmp_list[t]
<1>1. /\ rw_lock[k] = Nobody /\ pc' = [pc EXCEPT ![t] = "put"]
      /\ rw_lock' = [rw_lock EXCEPT ![k] = t]
      /\ UNCHANGED <<list, fifo, sent, tmp_list, data_len, argv, got>>
      BY DEF LockToWrite, Goto, history
<1>2. pc[t] \in Placed
      BY DEF LockToWrite, Placed, Sending
<1>3. k \in 1 .. Len(list)
      BY <1>2, Channel
<1>4. \A n \in 1 .. Len(list) : rw_lock'[n] = IF n = k THEN t ELSE rw_lock[n]
  <2>1. t \in Callers \cup {Nobody}
        OBVIOUS
  <2>2. pc[t] \in Placed /\ rw_lock' = [rw_lock EXCEPT ![tmp_list[t]] = t]
        BY <1>1, <1>2
  <2>3. QED BY <2>1, <2>2, LockStep
<1>5. pc \in [Callers -> Labels] /\ Read(t)
      BY DEF TypeInv, TypeOK, RecordInv
<1>6. Newest(sent[k], fifo[k])
      BY <1>1, <1>3 DEF RecordInv, Free
<1>7. pc'[t] = "put" /\ Part(pc'[t], sent'[k], fifo'[k], data_len'[t], argv'[t])
      BY <1>1, <1>5, <1>6 DEF Part
<1>8. rw_lock'[k] = t /\ t # Nobody
      BY <1>3, <1>4, HalCommAssumption
<1>9. got'[t] \in Messages \cup {<<>>}
      BY <1>1, <1>5 DEF Read
<1>10. \A r \in Callers \ {t} :
               /\ pc'[r] = pc[r] /\ tmp_list'[r] = tmp_list[r]
               /\ data_len'[r] = data_len[r] /\ argv'[r] = argv[r] /\ got'[r] = got[r]
      BY <1>1, <1>5
<1>11. \A n \in 1 .. Len(list) : n # k =>
               rw_lock'[n] = rw_lock[n] /\ fifo'[n] = fifo[n] /\ sent'[n] = sent[n]
      BY <1>1, <1>4
<1>12. rw_lock[k] \in {Nobody, t} /\ list' = list /\ tmp_list'[t] = k
      BY <1>1
<1> HIDE DEF k
<1>13. QED BY <1>3, <1>7, <1>8, <1>9, <1>10, <1>11, <1>12, RecordsOfChannel

(* The holder of a lock changes its queue and keeps the lock. *)
LEMMA RecordsOfHolder ==
    ASSUME TypeInv, RecordInv, NEW t \in Callers, pc[t] \in Holding,
           NEW q \in Seq(Nat), Len(q) <= FifoSize,
           fifo' = [fifo EXCEPT ![tmp_list[t]] = q],
           NEW l \in Holding, pc' = [pc EXCEPT ![t] = l],
           UNCHANGED <<list, rw_lock, sent, tmp_list, argv, got>>,
           NEW d \in Nat, data_len' = [data_len EXCEPT ![t] = d],
           Part(l, sent[tmp_list[t]], q, d, argv[t])
    PROVE  RecordInv'
<1> DEFINE k == tmp_list[t]
<1>1. pc[t] \in Placed /\ k \in 1 .. Len(list) /\ rw_lock[k] = t
      BY HeldChannel
<1>2. \A n \in 1 .. Len(list) : fifo'[n] = IF n = k THEN q ELSE fifo[n]
      BY <1>1, QueueStep
<1>3. pc \in [Callers -> Labels] /\ data_len \in [Callers -> Nat] /\ Read(t)
      BY DEF TypeInv, TypeOK, RecordInv
<1>4. pc'[t] = l /\ data_len'[t] = d /\ fifo'[k] = q /\ sent'[k] = sent[k] /\ argv'[t] = argv[t]
      BY <1>1, <1>2, <1>3
<1>5. Part(pc'[t], sent'[k], fifo'[k], data_len'[t], argv'[t])
      BY <1>4
<1>6. rw_lock'[k] = t /\ rw_lock'[k] # Nobody /\ tmp_list'[t] = k
      BY <1>1, HalCommAssumption
<1>7. got'[t] \in Messages \cup {<<>>}
      BY <1>3 DEF Read
<1>8. \A r \in Callers \ {t} :
               /\ pc'[r] = pc[r] /\ tmp_list'[r] = tmp_list[r]
               /\ data_len'[r] = data_len[r] /\ argv'[r] = argv[r] /\ got'[r] = got[r]
      BY <1>3
<1>9. \A n \in 1 .. Len(list) : n # k =>
               rw_lock'[n] = rw_lock[n] /\ fifo'[n] = fifo[n] /\ sent'[n] = sent[n]
      BY <1>2
<1> HIDE DEF k
<1>10. QED BY <1>1, <1>5, <1>6, <1>7, <1>8, <1>9, RecordsOfChannel

(* It changes its queue, gives up the lock and leaves the row whole. *)
LEMMA RecordsAtRelease ==
    ASSUME TypeInv, RecordInv, NEW t \in Callers, pc[t] \in Holding,
           NEW q \in Seq(Nat), Len(q) <= FifoSize,
           fifo' = [fifo EXCEPT ![tmp_list[t]] = q],
           rw_lock' = [rw_lock EXCEPT ![tmp_list[t]] = Nobody],
           UNCHANGED list, pc'[t] \notin Holding,
           \A r \in Callers \ {t} :
               /\ pc'[r] = pc[r] /\ tmp_list'[r] = tmp_list[r]
               /\ data_len'[r] = data_len[r] /\ argv'[r] = argv[r] /\ got'[r] = got[r],
           got'[t] \in Messages \cup {<<>>},
           \A n \in 1 .. Len(list) : n # tmp_list[t] => sent'[n] = sent[n],
           Newest(sent'[tmp_list[t]], q)
    PROVE  RecordInv'
<1> DEFINE k == tmp_list[t]
<1>1. pc[t] \in Placed /\ k \in 1 .. Len(list) /\ rw_lock[k] = t
      BY HeldChannel
<1>2. \A n \in 1 .. Len(list) : fifo'[n] = IF n = k THEN q ELSE fifo[n]
      BY <1>1, QueueStep
<1>3. \A n \in 1 .. Len(list) : rw_lock'[n] = IF n = k THEN Nobody ELSE rw_lock[n]
  <2>1. Nobody \in Callers \cup {Nobody}
        OBVIOUS
  <2>2. pc[t] \in Placed /\ rw_lock' = [rw_lock EXCEPT ![tmp_list[t]] = Nobody]
        BY <1>1
  <2>3. QED BY <2>1, <2>2, LockStep
<1>4. fifo'[k] = q /\ Newest(sent'[k], fifo'[k])
      BY <1>1, <1>2
<1>5. \A n \in 1 .. Len(list) : n # k =>
               rw_lock'[n] = rw_lock[n] /\ fifo'[n] = fifo[n] /\ sent'[n] = sent[n]
      BY <1>2, <1>3
<1> HIDE DEF k
<1>6. QED BY <1>1, <1>4, <1>5, RecordsOfChannel

LEMMA RecordsAtDropLength ==
    ASSUME TypeInv, RecordInv, NEW t \in Callers, DropLength(t)
    PROVE  RecordInv'
<1> DEFINE k == tmp_list[t]
<1>1. pc[t] = "put" /\ "drop" \in Holding /\ pc[t] \in Holding
      BY DEF DropLength, Holding
<1>2. PICK f \in Seq(Nat) : f = fifo[k] /\ f # <<>> /\ Len(f) <= FifoSize
                            /\ Part("put", sent[k], f, data_len[t], argv[t])
      BY <1>1, HeldChannel DEF DropLength
<1>3. Newest(sent[k], f)
      BY <1>2 DEF Part
<1>4. PICK d \in Nat, q \in Seq(Nat) :
              d = Head(f) /\ q = Tail(f) /\ f = <<d>> \o q /\ Len(q) = Len(f) - 1
  <2>1. Head(f) \in Nat /\ Tail(f) \in Seq(Nat) /\ Len(Tail(f)) = Len(f) - 1
        /\ f = <<Head(f)>> \o Tail(f)
        BY <1>2, HeadAndTail
  <2>2. QED BY <2>1
<1>5. Len(q) <= FifoSize
      BY <1>2, <1>4, LenProperties, HalCommAssumption
<1>6. Part("drop", sent[k], q, d, argv[t])
      BY <1>3, <1>4 DEF Part
<1>7. /\ fifo' = [fifo EXCEPT ![k] = q] /\ data_len' = [data_len EXCEPT ![t] = d]
      /\ pc' = [pc EXCEPT ![t] = "drop"]
      /\ UNCHANGED <<list, rw_lock, sent, tmp_list, argv, got>>
      BY <1>2, <1>4 DEF DropLength, Goto, history
<1>8. QED BY <1>1, <1>5, <1>6, <1>7, RecordsOfHolder

LEMMA RecordsAtDropData ==
    ASSUME TypeInv, RecordInv, NEW t \in Callers, DropData(t)
    PROVE  RecordInv'
<1> DEFINE k == tmp_list[t]
<1>1. pc[t] = "drop" /\ "put" \in Holding /\ pc[t] \in Holding
      BY DEF DropData, Holding
<1>2. PICK f \in Seq(Nat), d \in Nat, s \in Seq(Entry) :
              f = fifo[k] /\ d = data_len[t] /\ s = sent[k] /\ Len(f) <= FifoSize
              /\ Part("drop", s, f, d, argv[t])
      BY <1>1, HeldChannel
<1>3. Newest(s, <<d>> \o f)
      BY <1>2 DEF Part
<1>4. PICK q \in Seq(Nat) : q = KfifoRest(f, d) /\ Len(q) <= Len(f)
      BY KfifoRestIsQueue
<1>5. Len(q) <= FifoSize
      BY <1>2, <1>4, LenProperties, HalCommAssumption
<1>6. Newest(s, q)
      BY <1>3, <1>4, NewestTake
<1>7. Part("put", sent[k], q, d, argv[t])
      BY <1>2, <1>6 DEF Part
<1>8. /\ fifo' = [fifo EXCEPT ![k] = q] /\ pc' = [pc EXCEPT ![t] = "put"]
      /\ UNCHANGED <<list, rw_lock, sent, tmp_list, argv, got, data_len>>
      BY <1>2, <1>4 DEF DropData, Goto, history
<1>9. data_len' = [data_len EXCEPT ![t] = d]
      BY <1>2, <1>8 DEF TypeInv, TypeOK
<1>10. QED BY <1>1, <1>5, <1>7, <1>8, <1>9, RecordsOfHolder

LEMMA RecordsAtPutLength ==
    ASSUME TypeInv, RecordInv, NEW t \in Callers, PutLength(t)
    PROVE  RecordInv'
<1> DEFINE k == tmp_list[t]
<1>1. pc[t] = "put" /\ "data" \in Holding /\ pc[t] \in Holding
      BY DEF PutLength, Holding
<1>2. PICK f \in Seq(Nat), d \in Nat, s \in Seq(Entry) :
              f = fifo[k] /\ d = data_len[t] /\ s = sent[k] /\ Len(f) <= FifoSize
              /\ Part("put", s, f, d, argv[t])
      BY <1>1, HeldChannel
<1>3. Newest(s, f)
      BY <1>2 DEF Part
<1>4. argv[t] \in Messages /\ argv[t] \in Seq(Nat)
      BY <1>1, HalCommAssumption DEF TypeInv, TypeOK, PlaceInv, Sending, Writing
<1>5. PICK l \in Nat : l = Len(argv[t])
      BY <1>4, LenProperties
<1>6. Len(f) + 1 + l <= FifoSize /\ Len(f) \in Nat /\ FifoSize \in Nat
  <2>1. FifoSize - Len(f) >= l + 1
        BY <1>2, <1>5 DEF PutLength, HasRoom
  <2>2. Len(f) \in Nat /\ FifoSize \in Nat
        BY HalCommAssumption, LenProperties
  <2>3. QED BY <2>1, <2>2
<1>7. PICK h \in Seq(Nat) : h = <<l>> /\ Len(h) = 1
  <2>1. <<l>> \in Seq(Nat) /\ Len(<<l>>) = 1
        BY OneElement
  <2>2. QED BY <2>1
<1>8. Len(f) + Len(h) <= FifoSize
      BY <1>6, <1>7
<1>9. KfifoIn(f, h) = f \o h
      BY <1>8, KfifoInFits
<1>10. PICK q \in Seq(Nat) : q = Append(f, l) /\ Len(q) = Len(f) + 1
      BY AppendProperties
<1>11. f \o h = q
  <2>1. Append(f, l) = f \o <<l>>
        BY AppendIsConcat
  <2>2. QED BY <1>7, <1>10, <2>1
<1>12. Len(q) <= FifoSize
      BY <1>6, <1>10
<1>13. Part("data", sent[k], q, d, argv[t])
      BY <1>2, <1>3, <1>5, <1>6, <1>10 DEF Part
<1>14. /\ fifo' = [fifo EXCEPT ![k] = q] /\ pc' = [pc EXCEPT ![t] = "data"]
       /\ UNCHANGED <<list, rw_lock, sent, tmp_list, argv, got, data_len>>
      BY <1>2, <1>5, <1>7, <1>9, <1>11 DEF PutLength, Goto, history
<1>15. data_len' = [data_len EXCEPT ![t] = d]
      BY <1>2, <1>14 DEF TypeInv, TypeOK
<1>16. QED BY <1>1, <1>12, <1>13, <1>14, <1>15, RecordsOfHolder

LEMMA RecordsAtPutData ==
    ASSUME TypeInv, RecordInv, NEW t \in Callers, PutData(t)
    PROVE  RecordInv'
<1> DEFINE k == tmp_list[t]
<1>1. pc[t] = "data" /\ pc[t] \in Holding
      BY DEF PutData, Holding
<1>2. k \in 1 .. Len(list)
      BY <1>1, HeldChannel
<1>3. PICK f \in Seq(Nat), s \in Seq(Entry) :
              f = fifo[k] /\ s = sent[k] /\ Part("data", s, f, data_len[t], argv[t])
      BY <1>1, HeldChannel
<1>4. PICK m \in Seq(Nat) : m = argv[t]
      BY <1>1, HalCommAssumption DEF TypeInv, TypeOK, PlaceInv, Sending, Writing
<1>5. PICK l \in Nat : l = Len(m)
      BY LenProperties
<1>6. PICK q \in Seq(Nat) : Newest(s, q) /\ f = Append(q, l) /\ Len(q) + 1 + l <= FifoSize
      BY <1>3, <1>4, <1>5 DEF Part
<1>7. Len(f) = Len(q) + 1 /\ Len(q) \in Nat
      BY <1>6, AppendProperties, LenProperties
<1>8. Len(f) + Len(m) <= FifoSize
      BY <1>5, <1>6, <1>7
<1>9. KfifoIn(f, m) = f \o m
      BY <1>8, KfifoInFits
<1>10. PICK h \in Seq(Nat) : h = <<l>>
  <2>1. <<l>> \in Seq(Nat)
        BY OneElement
  <2>2. QED BY <2>1
<1>11. f = q \o h
  <2>1. Append(q, l) = q \o <<l>>
        BY AppendIsConcat
  <2>2. QED BY <1>6, <1>10, <2>1
<1>12. f \o m = q \o (h \o m)
      BY <1>11, ConcatThree
<1>13. Added(t) \in Entry /\ RecordOf(Added(t)) = h \o m
  <2>1. Added(t).msg = m /\ Added(t) \in Entry
        BY <1>4, AddedStep DEF Added
  <2>2. QED BY <1>5, <1>10, <2>1 DEF RecordOf
<1>14. PICK e \in Entry : e = Added(t)
      BY <1>13
<1>15. Newest(Append(s, e), q \o RecordOf(e))
      BY <1>6, NewestAppend
<1>16. \A n \in 1 .. Len(list) : sent'[n] = IF n = k THEN Append(sent[n], Added(t)) ELSE sent[n]
      BY AddedStep
<1>17. PICK v \in Seq(Nat) : v = KfifoIn(f, m) /\ Len(v) <= FifoSize
  <2>1. Len(f) <= FifoSize
        BY <1>5, <1>6, <1>7, HalCommAssumption
  <2>2. QED BY <2>1, KfifoInIsQueue
<1>18. sent'[k] = Append(s, e)
      BY <1>2, <1>3, <1>14, <1>16
<1>19. v = q \o RecordOf(e)
      BY <1>9, <1>12, <1>13, <1>14, <1>17
<1>20. Newest(sent'[k], v)
      BY <1>15, <1>18, <1>19
<1>21. /\ fifo' = [fifo EXCEPT ![k] = v] /\ pc' = [pc EXCEPT ![t] = "wake"]
       /\ rw_lock' = [rw_lock EXCEPT ![k] = Nobody]
       /\ UNCHANGED <<list, tmp_list, argv, got, data_len>>
      BY <1>3, <1>4, <1>17 DEF PutData, Goto
<1>22. pc'[t] \notin Holding /\ got'[t] \in Messages \cup {<<>>}
      BY <1>21 DEF TypeInv, TypeOK, Holding, RecordInv, Read
<1>23. \A r \in Callers \ {t} :
               /\ pc'[r] = pc[r] /\ tmp_list'[r] = tmp_list[r]
               /\ data_len'[r] = data_len[r] /\ argv'[r] = argv[r] /\ got'[r] = got[r]
      BY <1>21 DEF TypeInv, TypeOK
<1>24. \A n \in 1 .. Len(list) : n # k => sent'[n] = sent[n]
      BY <1>16
<1>25. QED BY <1>1, <1>17, <1>20, <1>21, <1>22, <1>23, <1>24, RecordsAtRelease

LEMMA RecordsAtGetLength ==
    ASSUME TypeInv, RecordInv, NEW t \in Callers, GetLength(t), ~(Len(fifo[tmp_list[t]]) <= 1)
    PROVE  RecordInv'
<1> DEFINE k == tmp_list[t]
<1>1. pc[t] \in Placed /\ rw_lock[k] = Nobody
      BY DEF GetLength, Placed
<1>2. PICK f \in Seq(Nat) : f = fifo[k] /\ k \in 1 .. Len(list) /\ Len(f) <= FifoSize
      BY <1>1, Channel
<1>3. Newest(sent[k], f)
      BY <1>1, <1>2 DEF RecordInv, Free
<1>4. f # <<>>
      BY <1>2, EmptySeq
<1>5. PICK d \in Nat, q \in Seq(Nat) :
              d = Head(f) /\ q = Tail(f) /\ f = <<d>> \o q /\ Len(q) = Len(f) - 1
  <2>1. Head(f) \in Nat /\ Tail(f) \in Seq(Nat) /\ Len(Tail(f)) = Len(f) - 1
        /\ f = <<Head(f)>> \o Tail(f)
        BY <1>4, HeadAndTail
  <2>2. QED BY <2>1
<1>6. Len(q) <= FifoSize
      BY <1>2, <1>5, LenProperties, HalCommAssumption
<1>7. /\ fifo' = [fifo EXCEPT ![k] = q] /\ data_len' = [data_len EXCEPT ![t] = d]
      /\ rw_lock' = [rw_lock EXCEPT ![k] = t] /\ pc' = [pc EXCEPT ![t] = "get"]
      /\ UNCHANGED <<list, sent, tmp_list, argv, got>>
      BY <1>2, <1>5 DEF GetLength, Goto, history
<1>8. \A n \in 1 .. Len(list) : rw_lock'[n] = IF n = k THEN t ELSE rw_lock[n]
  <2>1. t \in Callers \cup {Nobody}
        OBVIOUS
  <2>2. pc[t] \in Placed /\ rw_lock' = [rw_lock EXCEPT ![tmp_list[t]] = t]
        BY <1>1, <1>7
  <2>3. QED BY <2>1, <2>2, LockStep
<1>9. \A n \in 1 .. Len(list) : fifo'[n] = IF n = k THEN q ELSE fifo[n]
      BY <1>1, <1>6, <1>7, QueueStep
<1>10. pc \in [Callers -> Labels] /\ data_len \in [Callers -> Nat] /\ Read(t)
      BY DEF TypeInv, TypeOK, RecordInv
<1>11. /\ pc'[t] = "get" /\ data_len'[t] = d /\ fifo'[k] = q /\ sent'[k] = sent[k]
       /\ tmp_list'[t] = k
      BY <1>2, <1>7, <1>9, <1>10
<1>12. Part(pc'[t], sent'[k], fifo'[k], data_len'[t], argv'[t])
      BY <1>3, <1>5, <1>11 DEF Part
<1>13. rw_lock'[k] = t /\ t # Nobody
      BY <1>2, <1>8, HalCommAssumption
<1>14. got'[t] \in Messages \cup {<<>>}
      BY <1>7, <1>10 DEF Read
<1>15. \A r \in Callers \ {t} :
               /\ pc'[r] = pc[r] /\ tmp_list'[r] = tmp_list[r]
               /\ data_len'[r] = data_len[r] /\ argv'[r] = argv[r] /\ got'[r] = got[r]
      BY <1>7, <1>10
<1>16. \A n \in 1 .. Len(list) : n # k =>
               rw_lock'[n] = rw_lock[n] /\ fifo'[n] = fifo[n] /\ sent'[n] = sent[n]
      BY <1>7, <1>8, <1>9
<1>17. k \in 1 .. Len(list) /\ rw_lock[k] \in {Nobody, t} /\ list' = list
      BY <1>1, <1>2, <1>7
<1> HIDE DEF k
<1>18. QED BY <1>11, <1>12, <1>13, <1>14, <1>15, <1>16, <1>17, RecordsOfChannel

LEMMA RecordsAtGetData ==
    ASSUME TypeInv, RecordInv, NEW t \in Callers, GetData(t)
    PROVE  RecordInv'
<1> DEFINE k == tmp_list[t]
<1>1. pc[t] = "get" /\ pc[t] \in Holding
      BY DEF GetData, Holding
<1>2. PICK f \in Seq(Nat), d \in Nat, s \in Seq(Entry) :
              f = fifo[k] /\ d = data_len[t] /\ s = sent[k] /\ Len(f) <= FifoSize
              /\ Part("get", s, f, d, argv[t])
      BY <1>1, HeldChannel
<1>3. Newest(s, <<d>> \o f)
      BY <1>2 DEF Part
<1>4. PICK q \in Seq(Nat) : q = KfifoRest(f, d) /\ Len(q) <= Len(f)
      BY KfifoRestIsQueue
<1>5. Len(q) <= FifoSize
      BY <1>2, <1>4, LenProperties, HalCommAssumption
<1>6. KfifoOut(f, d) \in Messages /\ Newest(s, q)
      BY <1>3, <1>4, NewestTake
<1>7. /\ fifo' = [fifo EXCEPT ![k] = q] /\ rw_lock' = [rw_lock EXCEPT ![k] = Nobody]
      /\ got' = [got EXCEPT ![t] = KfifoOut(f, d)]
      /\ EndCall(t, pc) /\ UNCHANGED <<list, sent>>
      BY <1>2, <1>4 DEF GetData, Return
<1>8. got'[t] \in Messages \cup {<<>>} /\ \A r \in Callers \ {t} : got'[r] = got[r]
      BY <1>6, <1>7 DEF TypeInv, TypeOK
<1>9. /\ pc'[t] \notin Holding
      /\ \A r \in Callers \ {t} :
               /\ pc'[r] = pc[r] /\ tmp_list'[r] = tmp_list[r]
               /\ data_len'[r] = data_len[r] /\ argv'[r] = argv[r]
      BY <1>7 DEF EndCall, TypeInv, TypeOK, Holding
<1>10. Newest(sent'[k], q) /\ \A n \in 1 .. Len(list) : n # k => sent'[n] = sent[n]
      BY <1>2, <1>6, <1>7
<1>11. QED BY <1>1, <1>5, <1>7, <1>8, <1>9, <1>10, RecordsAtRelease

LEMMA InitRecords == Init => RecordInv
<1>1. SUFFICES ASSUME Init PROVE RecordInv
      OBVIOUS
<1>2. 1 .. Len(list) = {}
      BY <1>1, EmptySeq DEF Init
<1>3. \A t \in Callers : Holder(t) /\ Read(t)
      BY <1>1 DEF Init, Holder, Read, Holding
<1>4. QED BY <1>2, <1>3 DEF RecordInv

LEMMA RecordsStep == TypeInv /\ RecordInv /\ [Next]_vars => RecordInv'
<1>1. SUFFICES ASSUME TypeInv, RecordInv, [Next]_vars PROVE RecordInv'
      OBVIOUS
<1> USE <1>1
<1>2. ASSUME NEW t \in Callers, NEW k \in Channels \cup {All},
             NEW m \in Messages \cup {<<>>}, Call(t, k, m)
      PROVE  RecordInv'
  <2>1. \E i \in Keys, j \in Messages \cup {<<>>} : Call(t, i, j)
        BY <1>2 DEF Keys
  <2>2. QED BY <2>1, RecordsAtQuiet
<1>3. ASSUME NEW t \in Callers, AddFails(t) \/ Interrupted(t) PROVE RecordInv'
      BY <1>3, RecordsAtQuiet
<1>4. ASSUME NEW t \in Callers, hal_comm_ioctl(t) PROVE RecordInv'
  <2>1. CASE \/ search_each_node(t) \/ StartBroadcast(t) \/ NobodyToSendTo(t) \/ WaitEvent(t)
             \/ LockToWrite(t) /\ ~Accepted(argv[t])
             \/ GetLength(t) /\ Len(fifo[tmp_list[t]]) <= 1
        BY <2>1, RecordsAtQuiet
  <2>2. CASE \/ add_node_list(t) \/ DropLength(t) \/ DropData(t) \/ PutLength(t) \/ PutData(t)
             \/ WakeUp(t) \/ GetData(t)
             \/ LockToWrite(t) /\ Accepted(argv[t])
             \/ GetLength(t) /\ ~(Len(fifo[tmp_list[t]]) <= 1)
        BY <2>2, RecordsAtAdd, RecordsAtDropLength, RecordsAtDropData, RecordsAtPutLength,
           RecordsAtPutData, RecordsAtWakeUp, RecordsAtGetData, RecordsAtLock,
           RecordsAtGetLength
  <2>3. QED BY <1>4, <2>1, <2>2 DEF hal_comm_ioctl, send_all_fifo
<1>5. CASE UNCHANGED vars
  <2>1. UNCHANGED <<list, fifo, rw_lock, sent, got, pc, tmp_list, data_len, argv>>
        BY <1>5 DEF vars, channels, locals, history
  <2>2. QED BY <2>1, RecordsQuiet
<1>6. QED BY <1>2, <1>3, <1>4, <1>5 DEF Next

(* For any number of readers and writers, and any messages: under the lock of
   its channel a length always comes out with its message, so that a free queue
   is a row of whole records, and what a read returns is a message as it was
   written. *)
THEOREM RecordsStayWhole == Spec => []WholeRecords
<1>1. TypeInv /\ RecordInv => WholeRecords
  <2>1. SUFFICES ASSUME TypeInv, RecordInv PROVE WholeRecords
        OBVIOUS
  <2>2. DOMAIN list = 1 .. Len(list)
        BY <2>1 DEF TypeInv, TypeOK
  <2>3. \A n \in 1 .. Len(list) : Free(n)
        BY <2>1 DEF RecordInv
  <2>4. \A t \in Callers : Read(t)
        BY <2>1 DEF RecordInv
  <2>5. QED BY <2>2, <2>3, <2>4 DEF WholeRecords, Free, Newest, Read
<1>2. QED BY <1>1, InitType, TypeStep, InitRecords, RecordsStep, PTL DEF Spec
=============================================================================
