---------------------------- MODULE PirateProofs ----------------------------
(***************************************************************************)
(* Proofs about the pirates of lib/zeromq/reliable, for any clients,       *)
(* workers, retries and bounds: in all three topologies what reaches a     *)
(* client answers its present request, a worker of the simple queue is in  *)
(* one place, and the list of the paranoid queue is in order.              *)
(*                                                                         *)
(* That replies are fresh is a fact about all the places in which an old   *)
(* request may survive: none of them copies one, and a request that is     *)
(* anywhere under the client's present socket is the one it waits for.     *)
(* Traced says both.  SimpleInv says where a worker of spqueue can be, and *)
(* is inductive because only one of list, inbox, outbox and work knows it. *)
(***************************************************************************)
EXTENDS Pirate, SequenceTheorems, WellFoundedInduction, TLAPS

\* The types of the state, as far as the proofs need them.
PirateType ==
    /\ topology \in {"lazy", "simple", "paranoid"}
    /\ pc \in [Clients -> {"send", "poll", "abandoned"}]
    /\ sequence \in [Clients -> Nat]
    /\ socket \in [Clients -> Nat]
    /\ requests \in SUBSET Requests
    /\ replies \in SUBSET Requests
    /\ workers \in Seq([id : Identities, expiry : 0..Expiry])
    /\ inbox \in [Identities -> Seq(Requests \cup Signs)]
    /\ outbox \in [Identities -> Seq(Requests \cup {HEARTBEAT})]
    /\ work \in [Workers -> Requests \cup {None}]
    /\ wsocket \in [Workers -> 0..MaxSocket]

-----------------------------------------------------------------------------
(* Where a request is *)

Has(s, r) == \E k \in 1..Len(s) : s[k] = r
Once(s, r) == \A j, k \in 1..Len(s) : s[j] = r /\ s[k] = r => j = k

AtWork(r) == \E w \in Workers : work[w] = r
Inside(r) == \E id \in Identities : Has(inbox[id], r)
Outside(r) == \E id \in Identities : Has(outbox[id], r)

Somewhere(r) ==
    r \in requests \/ r \in replies \/ AtWork(r) \/ Inside(r) \/ Outside(r)

\* A request, or the reply to it, is in one place.
OnePlace(r) ==
    /\ r \in requests => r \notin replies /\ ~AtWork(r) /\ ~Inside(r) /\ ~Outside(r)
    /\ r \in replies => ~AtWork(r) /\ ~Inside(r) /\ ~Outside(r)
    /\ AtWork(r) => ~Inside(r) /\ ~Outside(r)
    /\ Inside(r) => ~Outside(r)
    /\ \A v, w \in Workers : work[v] = r /\ work[w] = r => v = w
    /\ \A i, j \in Identities : Has(inbox[i], r) /\ Has(inbox[j], r) => i = j
    /\ \A i, j \in Identities : Has(outbox[i], r) /\ Has(outbox[j], r) => i = j
    /\ \A id \in Identities : Once(inbox[id], r) /\ Once(outbox[id], r)

\* What is under way was sent, and from the client's present socket only the
\* present request, for which it waits.
Sent(r) ==
    Somewhere(r) =>
        LET c == r[1]
        IN  /\ r[2] <= socket[c] /\ r[3] <= sequence[c]
            /\ r[2] = socket[c] => r[3] = sequence[c] /\ pc[c] # "send"

Traced ==
    /\ \A r \in Requests : OnePlace(r) /\ Sent(r)
    /\ \A r \in replies : r[2] = socket[r[1]]

-----------------------------------------------------------------------------
(* spqueue.c *)

\* Worker w, whose messages are in the sequences in and out, is in one place.
Alone(w, list, in, out) ==
    LET waits == \E i \in 1..Len(list) : list[i].id[1] = w
    IN  /\ \A i, j \in 1..Len(list) :
              list[i].id[1] = w /\ list[j].id[1] = w => i = j
        /\ Len(in) <= 1 /\ Len(out) <= 1
        /\ waits => in = <<>> /\ out = <<>> /\ work[w] = None
        /\ in # <<>> => out = <<>> /\ work[w] = None
        /\ out # <<>> => work[w] = None

\* No worker of the simple queue ever takes a second socket.
SimpleInv ==
    topology = "simple" =>
        /\ \A w \in Workers :
              wsocket[w] = 0 /\ Alone(w, workers, inbox[<<w, 0>>], outbox[<<w, 0>>])
        /\ \A id \in Identities : id[2] # 0 => inbox[id] = <<>> /\ outbox[id] = <<>>

PirateInv == PirateType /\ Traced /\ SimpleInv /\ ListInOrder
-----------------------------------------------------------------------------
(* Sequences of messages *)

\* Nothing is in an empty sequence, one message in a sequence of one.
LEMMA HasShort ==
    ASSUME NEW m, NEW r
    PROVE  /\ ~Has(<<>>, r) /\ Once(<<>>, r)
           /\ Has(<<m>>, r) => r = m
           /\ Once(<<m>>, r)
  BY DEF Has, Once

\* Taking the head of a queue.
LEMMA HasTail ==
    ASSUME NEW S, NEW s \in Seq(S), s # <<>>, NEW r
    PROVE  /\ Has(Tail(s), r) => Has(s, r)
           /\ Has(s, Head(s))
           /\ Once(s, r) => Once(Tail(s), r)
           /\ Once(s, r) /\ r = Head(s) => ~Has(Tail(s), r)
           /\ Head(s) \in S /\ Tail(s) \in Seq(S)
<1>1. /\ Tail(s) \in Seq(S) /\ Head(s) \in S
      /\ Len(Tail(s)) = Len(s) - 1 /\ Len(s) \in Nat \ {0}
      /\ \A i \in 1..Len(Tail(s)) : Tail(s)[i] = s[i + 1]
      /\ Head(s) = s[1]
  BY HeadTailProperties
<1>2. Has(s, Head(s))
  BY <1>1 DEF Has
<1>3. ASSUME NEW k \in 1..Len(Tail(s)), Tail(s)[k] = r
      PROVE  k + 1 \in 1..Len(s) /\ k + 1 # 1 /\ s[k + 1] = r
  BY <1>1, <1>3
<1>4. Has(Tail(s), r) => Has(s, r)
  BY <1>3 DEF Has
<1>5. Once(s, r) => Once(Tail(s), r)
  <2> SUFFICES ASSUME Once(s, r),
                      NEW j \in 1..Len(Tail(s)), NEW k \in 1..Len(Tail(s)),
                      Tail(s)[j] = r, Tail(s)[k] = r
               PROVE  j = k
    BY DEF Once
  <2>1. j + 1 = k + 1
    BY <1>3 DEF Once
  <2> QED
    BY <2>1
<1>6. Once(s, r) /\ r = Head(s) => ~Has(Tail(s), r)
  <2> SUFFICES ASSUME Once(s, r), r = Head(s), Has(Tail(s), r) PROVE FALSE
    OBVIOUS
  <2>1. PICK k \in 1..Len(Tail(s)) : Tail(s)[k] = r
    BY DEF Has
  <2>2. k + 1 \in 1..Len(s) /\ 1 \in 1..Len(s) /\ k + 1 # 1 /\ s[k + 1] = r /\ s[1] = r
    BY <1>1, <1>3, <2>1
  <2> QED
    BY <2>2 DEF Once
<1> QED
  BY <1>1, <1>2, <1>4, <1>5, <1>6

\* Adding to the end of a queue.
LEMMA HasAppend ==
    ASSUME NEW S, NEW s \in Seq(S), NEW m \in S, NEW r
    PROVE  /\ Has(Append(s, m), r) => Has(s, r) \/ r = m
           /\ Once(s, r) /\ (r = m => ~Has(s, r)) => Once(Append(s, m), r)
           /\ Append(s, m) \in Seq(S)
<1>1. /\ Append(s, m) \in Seq(S)
      /\ Len(Append(s, m)) = Len(s) + 1 /\ Len(s) \in Nat
      /\ \A i \in 1..Len(s) : Append(s, m)[i] = s[i]
      /\ Append(s, m)[Len(s) + 1] = m
  BY AppendProperties
<1>2. ASSUME NEW k \in 1..(Len(s) + 1), Append(s, m)[k] = r
      PROVE  (k \in 1..Len(s) /\ s[k] = r) \/ (k = Len(s) + 1 /\ r = m)
  BY <1>1, <1>2
<1>3. Has(Append(s, m), r) => Has(s, r) \/ r = m
  BY <1>1, <1>2 DEF Has
<1>4. Once(s, r) /\ (r = m => ~Has(s, r)) => Once(Append(s, m), r)
  BY <1>1, <1>2 DEF Once, Has
<1> QED
  BY <1>1, <1>3, <1>4

\* What the queue sends: at most the request r, to the head of the list.
LEMMA OutboxFacts ==
    ASSUME PirateConstants, PirateType,
           NEW r \in Requests \cup {None}, NEW list, NEW rest, NEW due \in BOOLEAN,
           NEW id \in Identities
    PROVE  LET o == Outbox(r, list, rest, due)[id]
               gets == r # None /\ list # <<>> /\ list[1].id = id /\ Reachable(id)
           IN  /\ o \in Seq(Requests \cup {HEARTBEAT})
               /\ \A q \in Requests :
                     /\ Has(o, q) => Has(outbox[id], q) \/ (q = r /\ gets)
                     /\ Once(outbox[id], q) /\ (q = r => ~Has(outbox[id], q)) => Once(o, q)
<1> DEFINE M == Requests \cup {HEARTBEAT}
           gets == r # None /\ list # <<>> /\ list[1].id = id /\ Reachable(id)
           beats == due /\ Reachable(id) /\ \E i \in 1..Len(rest) : rest[i].id = id
           s == outbox[id]
           s1 == IF gets THEN Append(s, r) ELSE s
           o == Outbox(r, list, rest, due)[id]
<1>1. s \in Seq(M) /\ HEARTBEAT \in M /\ (gets => r \in M)
  BY DEF PirateType
<1>2. o = s \o (IF gets THEN <<r>> ELSE <<>>) \o (IF beats THEN <<HEARTBEAT>> ELSE <<>>)
  BY DEF Outbox
<1> HIDE DEF gets, beats, M, s, o
<1>3. s1 \in Seq(M) /\ s \o (IF gets THEN <<r>> ELSE <<>>) = s1
  <2>1. CASE gets
    BY <1>1, <2>1, AppendIsConcat, AppendProperties
  <2>2. CASE ~gets
    BY <1>1, <2>2, ConcatEmptySeq
  <2> QED
    BY <2>1, <2>2
<1>4. ASSUME NEW q \in Requests
      PROVE  /\ Has(s1, q) => Has(s, q) \/ (q = r /\ gets)
             /\ Once(s, q) /\ (q = r => ~Has(s, q)) => Once(s1, q)
  BY <1>1, HasAppend
<1> HIDE DEF s1
<1>5. o = IF beats THEN Append(s1, HEARTBEAT) ELSE s1
  <2>1. CASE beats
    BY <1>1, <1>2, <1>3, <2>1, AppendIsConcat
  <2>2. CASE ~beats
    BY <1>2, <1>3, <2>2, ConcatEmptySeq
  <2> QED
    BY <2>1, <2>2
<1>6. o \in Seq(M)
  BY <1>1, <1>3, <1>5, AppendProperties
<1>7. ASSUME NEW q \in Requests
      PROVE  (Has(o, q) => Has(s1, q)) /\ (Once(s1, q) => Once(o, q))
  <2>1. q # HEARTBEAT
    BY DEF PirateConstants, Signs
  <2> QED
    BY <1>1, <1>3, <1>5, <2>1, HasAppend
<1> QED
  BY <1>4, <1>6, <1>7 DEF gets, s1, s, o, M

-----------------------------------------------------------------------------
(* Where a request is, after a step *)

\* Places of r that a step does not add to stay one place.
LEMMA NoNewPlace ==
    ASSUME NEW r, OnePlace(r),
           r \in requests' => r \in requests,
           r \in replies' => r \in replies,
           \A w \in Workers : work'[w] = r => work[w] = r,
           \A id \in Identities :
              /\ Has(inbox'[id], r) => Has(inbox[id], r)
              /\ Once(inbox[id], r) => Once(inbox'[id], r)
              /\ Has(outbox'[id], r) => Has(outbox[id], r)
              /\ Once(outbox[id], r) => Once(outbox'[id], r)
    PROVE  OnePlace(r)' /\ (Somewhere(r)' => Somewhere(r))
<1>1. (AtWork(r)' => AtWork(r)) /\ (Inside(r)' => Inside(r)) /\ (Outside(r)' => Outside(r))
  BY DEF AtWork, Inside, Outside
<1>2. /\ \A v, w \in Workers : work'[v] = r /\ work'[w] = r => v = w
      /\ \A i, j \in Identities : Has(inbox'[i], r) /\ Has(inbox'[j], r) => i = j
      /\ \A i, j \in Identities : Has(outbox'[i], r) /\ Has(outbox'[j], r) => i = j
      /\ \A id \in Identities : Once(inbox'[id], r) /\ Once(outbox'[id], r)
  BY DEF OnePlace
<1>3. OnePlace(r)'
  BY <1>1, <1>2 DEF OnePlace
<1> QED
  BY <1>1, <1>3 DEF Somewhere

\* As long as the clients do nothing, requests only have to stay in one place
\* each, and what is added to replies goes to the socket it came from.
LEMMA TracedStep ==
    ASSUME Traced, UNCHANGED <<pc, sequence, socket>>,
           \A r \in Requests : OnePlace(r)' /\ (Somewhere(r)' => Somewhere(r)),
           \A r \in replies' : r[2] = socket[r[1]]
    PROVE  Traced'
<1>1. ASSUME NEW r \in Requests PROVE Sent(r)'
  <2>1. Sent(r) /\ (Somewhere(r)' => Somewhere(r))
    BY DEF Traced
  <2> QED
    BY <2>1 DEF Sent
<1> QED
  BY <1>1 DEF Traced

\* Steps that leave requests alone.
LEMMA TracedFrame ==
    ASSUME Traced, UNCHANGED <<pc, sequence, socket, requests, replies, work, inbox, outbox>>
    PROVE  Traced'
<1>1. ASSUME NEW r \in Requests PROVE OnePlace(r)' /\ (Somewhere(r)' => Somewhere(r))
  BY NoNewPlace DEF Traced
<1> QED
  BY <1>1, TracedStep DEF Traced

-----------------------------------------------------------------------------
(* Lists of workers *)

\* A function on 1..n is a sequence of length n.
LEMMA ArrayIsSeq ==
    ASSUME NEW S, NEW n \in Nat, NEW f \in [1..n -> S]
    PROVE  f \in Seq(S) /\ Len(f) = n
  OBVIOUS

\* A set of positions that is not empty has a smallest.
LEMMA SmallestExists ==
    ASSUME NEW S \in SUBSET Nat, S # {}
    PROVE  \E k \in S : \A j \in S : k <= j
<1>1. \E x \in S : \A y \in S : ~(<<y, x>> \in OpToRel(<, Nat))
  BY NatLessThanWellFounded, WFMin
<1>2. PICK x \in S : \A y \in S : ~(y < x)
  BY <1>1 DEF OpToRel
<1> QED
  BY <1>2

Entries == [id : Identities, expiry : 0..Expiry]

\* The order of ppqueue's list, for any list.
InOrder(list) ==
    \A i, j \in 1..Len(list) :
        i < j => /\ list[i].id # list[j].id
                 /\ list[i].expiry <= list[j].expiry

\* zlist_remove keeps the rest in order.
LEMMA RemoveAtFacts ==
    ASSUME NEW list \in Seq(Entries), NEW k \in 1..Len(list)
    PROVE  /\ RemoveAt(list, k) \in Seq(Entries)
           /\ Len(RemoveAt(list, k)) = Len(list) - 1
           /\ \A i \in 1..(Len(list) - 1) :
                 RemoveAt(list, k)[i] = IF i < k THEN list[i] ELSE list[i + 1]
<1> DEFINE a == SubSeq(list, 1, k - 1)
           b == SubSeq(list, k + 1, Len(list))
<1>1. Len(list) \in Nat /\ \A i \in 1..Len(list) : list[i] \in Entries
  OBVIOUS
<1>2. /\ a \in Seq(Entries) /\ Len(a) = k - 1
      /\ \A i \in 1..(k - 1) : a[i] = list[i]
  <2>1. \A i \in 1..(k - 1) : list[i] \in Entries
    BY <1>1
  <2>2. /\ SubSeq(list, 1, k - 1) \in Seq(Entries)
        /\ Len(SubSeq(list, 1, k - 1)) = IF 1 <= k - 1 THEN k - 1 - 1 + 1 ELSE 0
        /\ \A i \in 1..(k - 1 - 1 + 1) : SubSeq(list, 1, k - 1)[i] = list[1 + i - 1]
    BY <1>1, <2>1, SubSeqProperties
  <2> QED
    BY <1>1, <2>2
<1>3. /\ b \in Seq(Entries) /\ Len(b) = Len(list) - k
      /\ \A i \in 1..(Len(list) - k) : b[i] = list[k + i]
  <2>1. \A i \in (k + 1)..Len(list) : list[i] \in Entries
    BY <1>1
  <2>2. /\ SubSeq(list, k + 1, Len(list)) \in Seq(Entries)
        /\ Len(SubSeq(list, k + 1, Len(list)))
             = IF k + 1 <= Len(list) THEN Len(list) - (k + 1) + 1 ELSE 0
        /\ \A i \in 1..(Len(list) - (k + 1) + 1) :
              SubSeq(list, k + 1, Len(list))[i] = list[(k + 1) + i - 1]
    BY <1>1, <2>1, SubSeqProperties
  <2>3. \A i \in 1..(Len(list) - k) : (k + 1) + i - 1 = k + i /\ i \in 1..(Len(list) - (k + 1) + 1)
    BY <1>1
  <2> QED
    BY <1>1, <2>2, <2>3
<1>4. RemoveAt(list, k) = a \o b
  BY DEF RemoveAt
<1> HIDE DEF a, b
<1>5. /\ a \o b \in Seq(Entries) /\ Len(a \o b) = Len(list) - 1
      /\ \A i \in 1..(Len(list) - 1) : (a \o b)[i] = IF i <= Len(a) THEN a[i] ELSE b[i - Len(a)]
  BY <1>1, <1>2, <1>3, ConcatProperties
<1>6. ASSUME NEW i \in 1..(Len(list) - 1)
      PROVE  (a \o b)[i] = IF i < k THEN list[i] ELSE list[i + 1]
  <2>1. CASE i < k
    BY <1>1, <1>2, <1>5, <2>1
  <2>2. CASE ~(i < k)
    <3>1. i - (k - 1) \in 1..(Len(list) - k) /\ k + (i - (k - 1)) = i + 1
      BY <1>1, <2>2
    <3>2. b[i - (k - 1)] = list[i + 1]
      BY <1>3, <3>1
    <3> QED
      BY <1>1, <1>2, <1>5, <2>2, <3>2
  <2> QED
    BY <2>1, <2>2
<1> QED
  BY <1>4, <1>5, <1>6

\* Whatever s_worker_ready finds, the worker is the last of the list and the
\* list is in order.
LEMMA ReadyInOrder ==
    ASSUME PirateConstants, NEW list \in Seq(Entries), InOrder(list), NEW id \in Identities
    PROVE  /\ s_worker_ready(id, list) \in Seq(Entries)
           /\ InOrder(s_worker_ready(id, list))
           /\ s_worker_ready(id, list) # <<>>
<1> DEFINE same == {i \in 1..Len(list) : list[i].id = id}
           first == CHOOSE i \in same : \A j \in same : i <= j
           others == IF same = {} THEN list ELSE RemoveAt(list, first)
<1>0. /\ Len(list) \in Nat
      /\ \A i \in 1..Len(list) : list[i] \in Entries
      /\ \A i \in 1..Len(list) : list[i].expiry \in 0..Expiry
  <2>1. Len(list) \in Nat /\ \A i \in 1..Len(list) : list[i] \in Entries
    OBVIOUS
  <2> QED
    BY <2>1 DEF Entries
<1>1. same # {} => first \in same /\ \A j \in same : first <= j
  <2> SUFFICES ASSUME same # {} PROVE \E i \in same : \A j \in same : i <= j
    OBVIOUS
  <2>1. same \in SUBSET Nat
    BY <1>0
  <2> HIDE DEF same
  <2> QED
    BY <2>1, SmallestExists
<1> HIDE DEF first
<1>2. /\ others \in Seq(Entries)
      /\ InOrder(others)
      /\ \A i \in 1..Len(others) : others[i].id # id /\ others[i].expiry <= Expiry
  <2>1. CASE same = {}
    BY <1>0, <2>1 DEF PirateConstants, InOrder
  <2>2. CASE same # {}
    <3>1. first \in 1..Len(list) /\ list[first].id = id
      BY <1>1, <2>2
    <3>2. /\ others \in Seq(Entries) /\ Len(others) = Len(list) - 1
          /\ \A i \in 1..(Len(list) - 1) :
                others[i] = IF i < first THEN list[i] ELSE list[i + 1]
      BY <2>2, <3>1, RemoveAtFacts
    <3> HIDE DEF others
    <3>3. \A i \in 1..Len(others) :
             \E k \in 1..Len(list) : /\ k # first /\ others[i] = list[k]
                                     /\ k = IF i < first THEN i ELSE i + 1
      BY <1>0, <3>1, <3>2
    <3>4. ASSUME NEW i \in 1..Len(others), NEW j \in 1..Len(others), i < j
          PROVE  others[i].id # others[j].id /\ others[i].expiry <= others[j].expiry
      <4>1. PICK k \in 1..Len(list) : /\ k # first /\ others[i] = list[k]
                                      /\ k = IF i < first THEN i ELSE i + 1
        BY <3>3
      <4>2. PICK m \in 1..Len(list) : /\ m # first /\ others[j] = list[m]
                                      /\ m = IF j < first THEN j ELSE j + 1
        BY <3>3
      <4>3. k < m
        BY <1>0, <3>1, <3>2, <3>4, <4>1, <4>2
      <4> QED
        BY <4>1, <4>2, <4>3 DEF InOrder
    <3>5. ASSUME NEW i \in 1..Len(others)
          PROVE  others[i].id # id /\ others[i].expiry <= Expiry
      <4>1. PICK k \in 1..Len(list) : k # first /\ others[i] = list[k]
        BY <3>3
      <4>2. k < first \/ first < k
        BY <1>0, <3>1, <4>1
      <4>3. list[k].id # list[first].id
        BY <3>1, <4>2 DEF InOrder
      <4> QED
        BY <1>0, <3>1, <4>1, <4>3
      DEF PirateConstants
    <3> QED
      BY <3>2, <3>4, <3>5 DEF InOrder
  <2> QED
    BY <2>1, <2>2
<1>3. s_worker_ready(id, list) = Append(others, Entry(id))
  BY DEF s_worker_ready, first
<1> HIDE DEF others
<1> DEFINE e == Entry(id)
<1>4. e \in Entries /\ e.id = id /\ e.expiry = Expiry
  BY DEF PirateConstants, Entry, Entries
<1> HIDE DEF e
<1>5. /\ Append(others, e) \in Seq(Entries) /\ Append(others, e) # <<>>
      /\ Len(Append(others, e)) = Len(others) + 1 /\ Len(others) \in Nat
      /\ \A i \in 1..Len(others) : Append(others, e)[i] = others[i]
      /\ Append(others, e)[Len(others) + 1] = e
  BY <1>2, <1>4, AppendProperties
<1>6. ASSUME NEW i \in 1..(Len(others) + 1), NEW j \in 1..(Len(others) + 1), i < j
      PROVE  /\ Append(others, e)[i].id # Append(others, e)[j].id
             /\ Append(others, e)[i].expiry <= Append(others, e)[j].expiry
  <2>1. i \in 1..Len(others)
    BY <1>5, <1>6
  <2>2. CASE j \in 1..Len(others)
    BY <1>2, <1>5, <1>6, <2>1, <2>2 DEF InOrder
  <2>3. CASE j = Len(others) + 1
    BY <1>2, <1>4, <1>5, <2>1, <2>3
  <2> QED
    BY <1>5, <2>2, <2>3
<1> QED
  BY <1>3, <1>5, <1>6 DEF InOrder, e

\* zlist_pop keeps the order.
LEMMA TailInOrder ==
    ASSUME NEW list \in Seq(Entries), InOrder(list), list # <<>>
    PROVE  Tail(list) \in Seq(Entries) /\ InOrder(Tail(list))
<1>1. /\ Tail(list) \in Seq(Entries) /\ Len(Tail(list)) = Len(list) - 1
      /\ Len(list) \in Nat
      /\ \A i \in 1..Len(Tail(list)) : Tail(list)[i] = list[i + 1]
  BY HeadTailProperties
<1>2. ASSUME NEW i \in 1..Len(Tail(list)), NEW j \in 1..Len(Tail(list)), i < j
      PROVE  /\ Tail(list)[i].id # Tail(list)[j].id
             /\ Tail(list)[i].expiry <= Tail(list)[j].expiry
  <2>1. /\ i + 1 \in 1..Len(list) /\ j + 1 \in 1..Len(list) /\ i + 1 < j + 1
        /\ Tail(list)[i] = list[i + 1] /\ Tail(list)[j] = list[j + 1]
    BY <1>1, <1>2
  <2> QED
    BY <2>1 DEF InOrder
<1> QED
  BY <1>1, <1>2 DEF InOrder

\* s_workers_purge keeps the order.
LEMMA PurgeInOrder ==
    ASSUME NEW list \in Seq(Entries), InOrder(list)
    PROVE  s_workers_purge(list) \in Seq(Entries) /\ InOrder(s_workers_purge(list))
<1> DEFINE live == {i \in 1..Len(list) : list[i].expiry > 0}
           m == CHOOSE i \in live : \A j \in live : i <= j
<1>0. Len(list) \in Nat /\ \A i \in 1..Len(list) : list[i] \in Entries
  OBVIOUS
<1>1. CASE live = {}
  BY <1>1 DEF s_workers_purge, InOrder
<1>2. CASE live # {}
  <2>1. m \in 1..Len(list)
    <3>1. \E i \in live : \A j \in live : i <= j
      <4>1. live \in SUBSET Nat
        BY <1>0
      <4> HIDE DEF live
      <4> QED
        BY <1>2, <4>1, SmallestExists
    <3>2. m \in live
      BY <3>1
    <3> QED
      BY <3>2
  <2> DEFINE s == SubSeq(list, m, Len(list))
  <2>2. s_workers_purge(list) = s
    BY <1>2 DEF s_workers_purge
  <2> HIDE DEF m, live
  <2>3. /\ s \in Seq(Entries)
        /\ Len(s) = Len(list) - m + 1
        /\ \A i \in 1..(Len(list) - m + 1) : s[i] = list[m + i - 1]
    <3>1. m \in Int /\ Len(list) \in Int /\ m <= Len(list)
          /\ \A i \in m..Len(list) : list[i] \in Entries
      BY <1>0, <2>1
    <3> QED
      BY <3>1, SubSeqProperties
  <2> HIDE DEF s
  <2>4. ASSUME NEW i \in 1..Len(s), NEW j \in 1..Len(s), i < j
        PROVE  s[i].id # s[j].id /\ s[i].expiry <= s[j].expiry
    <3>1. /\ m + i - 1 \in 1..Len(list) /\ m + j - 1 \in 1..Len(list)
          /\ m + i - 1 < m + j - 1
          /\ s[i] = list[m + i - 1] /\ s[j] = list[m + j - 1]
      BY <1>0, <2>1, <2>3, <2>4
    <3> QED
      BY <3>1 DEF InOrder
  <2> QED
    BY <2>2, <2>3, <2>4 DEF InOrder
<1> QED
  BY <1>1, <1>2

-----------------------------------------------------------------------------
(* The clients *)

\* lpclient starts with nothing under way.
LEMMA PirateInit ==
    ASSUME PirateConstants, Init
    PROVE  PirateInv
<1>0. \A s \in 0..MaxSocket : s \in Nat
  BY DEF PirateConstants
<1>1. PirateType
  <2>1. inbox \in [Identities -> Seq(Requests \cup Signs)]
    <3>1. <<READY>> \in Seq(Requests \cup Signs) /\ <<>> \in Seq(Requests \cup Signs)
      BY DEF Signs
    <3> QED
      BY <3>1 DEF Init
  <2>2. outbox \in [Identities -> Seq(Requests \cup {HEARTBEAT})]
    BY DEF Init
  <2>3. work \in [Workers -> Requests \cup {None}] /\ wsocket \in [Workers -> 0..MaxSocket]
    BY DEF Init, PirateConstants
  <2> QED
    BY <2>1, <2>2, <2>3 DEF Init, PirateType
<1>2. Traced
  <2> SUFFICES ASSUME NEW r \in Requests PROVE ~Somewhere(r) /\ OnePlace(r)
    BY DEF Traced, Sent, Init
  <2>1. r # READY /\ r # None
    BY DEF PirateConstants, Signs
  <2>2. r \notin requests /\ r \notin replies /\ ~AtWork(r)
    BY <2>1 DEF Init, AtWork
  <2>3. \A id \in Identities : ~Has(inbox[id], r) /\ ~Has(outbox[id], r)
    BY <2>1, HasShort DEF Init
  <2>4. \A id \in Identities : Once(inbox[id], r) /\ Once(outbox[id], r)
    BY HasShort DEF Init
  <2>5. ~Somewhere(r)
    BY <2>2, <2>3 DEF Somewhere, Inside, Outside
  <2> QED
    BY <2>2, <2>3, <2>4, <2>5 DEF OnePlace, Somewhere, AtWork
<1>3. SimpleInv
  <2> SUFFICES ASSUME topology = "simple"
               PROVE  /\ \A w \in Workers :
                            /\ wsocket[w] = 0
                            /\ Alone(w, workers, inbox[<<w, 0>>], outbox[<<w, 0>>])
                      /\ \A id \in Identities :
                            id[2] # 0 => inbox[id] = <<>> /\ outbox[id] = <<>>
    BY DEF SimpleInv
  <2>1. ASSUME NEW w \in Workers
        PROVE  wsocket[w] = 0 /\ Alone(w, workers, inbox[<<w, 0>>], outbox[<<w, 0>>])
    <3>1. <<w, 0>> \in Identities
      BY DEF Identities, PirateConstants
    <3>2. workers = <<>> /\ outbox[<<w, 0>>] = <<>> /\ work[w] = None /\ wsocket[w] = 0
      BY <3>1 DEF Init
    <3>3. inbox[<<w, 0>>] = <<READY>>
      BY <3>1 DEF Init
    <3>4. Len(<<READY>>) = 1
      OBVIOUS
    <3> QED
      BY <3>2, <3>3, <3>4 DEF Alone
  <2>2. ASSUME NEW id \in Identities, id[2] # 0
        PROVE  inbox[id] = <<>> /\ outbox[id] = <<>>
    BY <2>2 DEF Init
  <2> QED
    BY <2>1, <2>2
<1>4. ListInOrder
  BY DEF Init, ListInOrder
<1> QED
  BY <1>1, <1>2, <1>3, <1>4 DEF PirateInv

\* A request is sent for the first time.
LEMMA SendStep ==
    ASSUME PirateType, Traced, NEW c \in Clients, ClientSend(c)
    PROVE  PirateType' /\ Traced'
<1> DEFINE new == <<c, socket[c], sequence[c] + 1>>
<1>1. /\ pc[c] = "send"
      /\ sequence' = [sequence EXCEPT ![c] = @ + 1]
      /\ requests' = requests \cup {new}
      /\ pc' = [pc EXCEPT ![c] = "poll"]
      /\ UNCHANGED <<topology, socket, replies, workers, inbox, outbox, work, wsocket>>
  BY DEF ClientSend, PirateType, queueVars, workerVars
<1>2. new \in Requests /\ new[1] = c /\ new[2] = socket[c] /\ new[3] = sequence[c] + 1
  BY DEF PirateType, Requests
<1>3. PirateType'
  <2>1. pc' \in [Clients -> {"send", "poll", "abandoned"}] /\ sequence' \in [Clients -> Nat]
    BY <1>1 DEF PirateType
  <2>2. requests' \in SUBSET Requests
    BY <1>1, <1>2 DEF PirateType
  <2> HIDE DEF new
  <2> QED
    BY <1>1, <2>1, <2>2 DEF PirateType
<1>4. ~Somewhere(new)
  <2>1. Sent(new) /\ sequence[c] \in Nat
    BY <1>2 DEF Traced, PirateType
  <2> QED
    BY <1>2, <2>1 DEF Sent
<1> HIDE DEF new
<1>5. ASSUME NEW r \in Requests PROVE OnePlace(r)' /\ Sent(r)'
  <2>0. OnePlace(r) /\ Sent(r) /\ r[1] \in Clients /\ r[2] \in Nat /\ r[3] \in Nat
    BY DEF Traced, Requests
  <2>1. CASE r # new
    <3>1. OnePlace(r)' /\ (Somewhere(r)' => Somewhere(r))
      BY <1>1, <2>0, <2>1, NoNewPlace
    <3>2. CASE r[1] = c
      <4>1. sequence'[c] = sequence[c] + 1 /\ sequence[c] \in Nat /\ socket' = socket
        BY <1>1 DEF PirateType
      <4>2. Somewhere(r) => r[2] # socket[c]
        BY <1>1, <2>0, <3>2 DEF Sent
      <4> QED
        BY <2>0, <3>1, <3>2, <4>1, <4>2 DEF Sent
    <3>3. CASE r[1] # c
      <4>1. /\ sequence'[r[1]] = sequence[r[1]] /\ pc'[r[1]] = pc[r[1]]
            /\ socket' = socket
        BY <1>1, <2>0, <3>3 DEF PirateType
      <4> QED
        BY <2>0, <3>1, <4>1 DEF Sent
    <3> QED
      BY <3>2, <3>3
  <2>2. CASE r = new
    <3>1. /\ r \in requests' /\ r \notin replies' /\ ~AtWork(r)' /\ ~Inside(r)' /\ ~Outside(r)'
      BY <1>1, <1>4, <2>2 DEF Somewhere, AtWork, Inside, Outside
    <3>2. OnePlace(r)'
      BY <1>1, <2>0, <3>1 DEF OnePlace
    <3>3. sequence'[c] = sequence[c] + 1 /\ pc'[c] = "poll" /\ sequence[c] \in Nat
          /\ socket[c] \in Nat /\ socket' = socket
      BY <1>1 DEF PirateType
    <3> QED
      BY <1>2, <2>2, <3>2, <3>3 DEF Sent
  <2> QED
    BY <2>1, <2>2
<1>6. \A r \in replies' : r[2] = socket'[r[1]]
  BY <1>1 DEF Traced
<1> QED
  BY <1>3, <1>5, <1>6 DEF Traced

\* A reply is received: it was the only copy of the present request.
LEMMA RecvStep ==
    ASSUME PirateType, Traced, NEW c \in Clients, ClientRecv(c)
    PROVE  PirateType' /\ Traced'
<1>1. PICK m \in replies :
         /\ m[1] = c /\ replies' = replies \ {m}
         /\ IF m[3] = sequence[c]
            THEN /\ pc' = [pc EXCEPT ![c] = "send"]
                 /\ retries_left' = [retries_left EXCEPT ![c] = REQUEST_RETRIES[topology]]
            ELSE UNCHANGED <<pc, retries_left>>
  BY DEF ClientRecv
<1>2. UNCHANGED <<topology, sequence, socket, requests, workers, inbox, outbox, work, wsocket>>
  BY DEF ClientRecv, queueVars, workerVars
<1>3. m \in Requests /\ m = <<m[1], m[2], m[3]>>
  BY <1>1 DEF PirateType, Requests
<1>4. Somewhere(m) /\ Sent(m) /\ m[2] = socket[c]
  BY <1>1, <1>3 DEF Traced, Somewhere
<1>5. m[3] = sequence[c]
  BY <1>1, <1>4 DEF Sent
<1>6. pc' = [pc EXCEPT ![c] = "send"]
  BY <1>1, <1>5
<1>7. PirateType'
  BY <1>1, <1>2, <1>6 DEF PirateType
<1>8. ASSUME NEW r \in Requests PROVE OnePlace(r)' /\ Sent(r)'
  <2>0. OnePlace(r) /\ Sent(r) /\ r[1] \in Clients /\ r = <<r[1], r[2], r[3]>>
    BY DEF Traced, Requests
  <2>1. OnePlace(r)' /\ (Somewhere(r)' => Somewhere(r))
    BY <1>1, <1>2, <2>0, NoNewPlace
  <2>2. CASE r = m
    <3>1. ~Somewhere(r)'
      BY <1>1, <1>2, <2>0, <2>2 DEF OnePlace, Somewhere, AtWork, Inside, Outside
    <3> QED
      BY <2>1, <3>1 DEF Sent
  <2>3. CASE r # m /\ r[1] = c
    <3>1. Somewhere(r) => r[2] # socket[c]
      <4> SUFFICES ASSUME Somewhere(r), r[2] = socket[c] PROVE FALSE
        OBVIOUS
      <4>1. r[3] = sequence[c]
        BY <2>0, <2>3 DEF Sent
      <4>2. r = <<c, socket[c], sequence[c]>> /\ m = <<c, socket[c], sequence[c]>>
        BY <1>1, <1>3, <1>4, <1>5, <2>0, <2>3, <4>1
      <4> QED
        BY <2>3, <4>2
    <3> QED
      BY <1>2, <2>0, <2>1, <2>3, <3>1 DEF Sent
  <2>4. CASE r # m /\ r[1] # c
    <3>1. pc'[r[1]] = pc[r[1]]
      BY <1>6, <2>0, <2>4 DEF PirateType
    <3> QED
      BY <1>2, <2>0, <2>1, <3>1 DEF Sent
  <2> QED
    BY <2>2, <2>3, <2>4
<1>9. \A r \in replies' : r[2] = socket'[r[1]]
  BY <1>1, <1>2 DEF Traced
<1> QED
  BY <1>7, <1>8, <1>9 DEF Traced

\* A retry takes a new socket, from which nothing was sent before.
LEMMA TimeoutStep ==
    ASSUME PirateType, Traced, NEW c \in Clients, ClientTimeout(c)
    PROVE  PirateType' /\ Traced'
<1>1. /\ pc[c] = "poll"
      /\ UNCHANGED <<topology, sequence, workers, inbox, outbox, work, wsocket>>
  BY DEF ClientTimeout, queueVars, workerVars
<1>2. CASE /\ pc' = [pc EXCEPT ![c] = "abandoned"]
           /\ UNCHANGED <<socket, requests, replies>>
  <2>1. PirateType'
    BY <1>1, <1>2 DEF PirateType
  <2>2. ASSUME NEW r \in Requests PROVE OnePlace(r)' /\ Sent(r)'
    <3>0. OnePlace(r) /\ Sent(r) /\ r[1] \in Clients
      BY DEF Traced, Requests
    <3>1. OnePlace(r)' /\ (Somewhere(r)' => Somewhere(r))
      BY <1>1, <1>2, <3>0, NoNewPlace
    <3>2. pc[r[1]] # "send" => pc'[r[1]] # "send"
      BY <1>2, <3>0 DEF PirateType
    <3> QED
      BY <1>1, <1>2, <3>0, <3>1, <3>2 DEF Sent
  <2> QED
    BY <1>2, <2>1, <2>2 DEF Traced
<1>3. CASE /\ socket' = [socket EXCEPT ![c] = @ + 1]
           /\ \E unsent \in SUBSET {<<c, socket[c], sequence[c]>>} :
                 requests' = (requests \ unsent) \cup {<<c, socket'[c], sequence[c]>>}
           /\ replies' = {r \in replies : r[1] # c}
           /\ UNCHANGED pc
  <2> DEFINE new == <<c, socket[c] + 1, sequence[c]>>
  <2>1. socket'[c] = socket[c] + 1 /\ socket[c] \in Nat /\ sequence[c] \in Nat
    BY <1>3 DEF PirateType
  <2>2. new \in Requests /\ new[1] = c /\ new[2] = socket[c] + 1 /\ new[3] = sequence[c]
    BY <2>1 DEF Requests
  <2>3. requests' \subseteq requests \cup {new} /\ new \in requests'
    BY <1>3, <2>1
  <2>4. PirateType'
    <3>1. socket' \in [Clients -> Nat]
      BY <1>3, <2>1 DEF PirateType
    <3>2. requests' \in SUBSET Requests /\ replies' \in SUBSET Requests
      BY <1>3, <2>2, <2>3 DEF PirateType
    <3> QED
      BY <1>1, <1>3, <3>1, <3>2 DEF PirateType
  <2>5. ~Somewhere(new)
    <3>1. Sent(new)
      BY <2>2 DEF Traced
    <3> QED
      BY <2>1, <2>2, <3>1 DEF Sent
  <2> HIDE DEF new
  <2>6. ASSUME NEW r \in Requests PROVE OnePlace(r)' /\ Sent(r)'
    <3>0. OnePlace(r) /\ Sent(r) /\ r[1] \in Clients /\ r[2] \in Nat /\ r[3] \in Nat
      BY DEF Traced, Requests
    <3>1. CASE r # new
      <4>1. OnePlace(r)' /\ (Somewhere(r)' => Somewhere(r))
        BY <1>1, <1>3, <2>3, <3>0, <3>1, NoNewPlace
      <4>2. CASE r[1] = c
        BY <1>1, <1>3, <2>1, <3>0, <4>1, <4>2 DEF Sent
      <4>3. CASE r[1] # c
        <5>1. socket'[r[1]] = socket[r[1]]
          BY <1>3, <3>0, <4>3 DEF PirateType
        <5> QED
          BY <1>1, <1>3, <3>0, <4>1, <5>1 DEF Sent
      <4> QED
        BY <4>2, <4>3
    <3>2. CASE r = new
      <4>1. r \in requests' /\ r \notin replies' /\ ~AtWork(r)' /\ ~Inside(r)' /\ ~Outside(r)'
        BY <1>1, <1>3, <2>3, <2>5, <3>2 DEF Somewhere, AtWork, Inside, Outside
      <4>2. OnePlace(r)'
        BY <1>1, <3>0, <4>1 DEF OnePlace
      <4> QED
        BY <1>1, <1>3, <2>1, <2>2, <3>2, <4>2 DEF Sent
    <3> QED
      BY <3>1, <3>2
  <2>7. \A r \in replies' : r[2] = socket'[r[1]]
    <3>1. ASSUME NEW r \in replies' PROVE r[2] = socket'[r[1]]
      <4>1. r \in replies /\ r[1] # c /\ r[1] \in Clients /\ r[2] = socket[r[1]]
        BY <1>3, <3>1 DEF PirateType, Requests, Traced
      <4> QED
        BY <1>3, <4>1 DEF PirateType
    <3> QED
      BY <3>1
  <2> QED
    BY <2>4, <2>6, <2>7 DEF Traced
<1> QED
  BY <1>2, <1>3 DEF ClientTimeout

-----------------------------------------------------------------------------
(* What every step leaves as it is *)

\* A reply reaches the socket that the request came from, or nobody.
LEMMA DeliverFacts ==
    ASSUME PirateType, Traced, NEW m \in Requests
    PROVE  /\ Deliver(m) \in SUBSET Requests
           /\ Deliver(m) \subseteq replies \cup {m}
           /\ \A r \in Deliver(m) : r[2] = socket[r[1]]
  BY DEF Deliver, PirateType, Traced

\* spqueue and its workers see nothing of what the clients do.
LEMMA QueueFrame ==
    ASSUME SimpleInv, ListInOrder,
           UNCHANGED <<topology, workers, inbox, outbox, work, wsocket>>
    PROVE  SimpleInv' /\ ListInOrder'
<1>1. ASSUME NEW w \in Workers,
             Alone(w, workers, inbox[<<w, 0>>], outbox[<<w, 0>>])
      PROVE  Alone(w, workers, inbox[<<w, 0>>], outbox[<<w, 0>>])'
  BY <1>1 DEF Alone
<1>2. SimpleInv'
  BY <1>1 DEF SimpleInv
<1> QED
  BY <1>2 DEF ListInOrder

-----------------------------------------------------------------------------
(* lpserver.c *)

\* A request is taken, or lost in a crash.
LEMMA ServerRecvStep ==
    ASSUME PirateConstants, PirateInv, ServerRecv
    PROVE  PirateInv'
<1> USE DEF PirateInv
<1>1. PICK m \in requests :
         /\ requests' = requests \ {m}
         /\ \/ work' = [work EXCEPT ![Server] = m]
            \/ work' = work
  BY DEF ServerRecv
<1>2. /\ topology = "lazy" /\ work[Server] = None
      /\ UNCHANGED <<topology, pc, sequence, socket, replies, workers, inbox, outbox, wsocket>>
  BY DEF ServerRecv, clientVars, queueVars
<1>3. m \in Requests /\ Server \in Workers
  BY <1>1 DEF PirateType, PirateConstants
<1>4. PirateType'
  <2>1. work' \in [Workers -> Requests \cup {None}]
    BY <1>1, <1>3 DEF PirateType
  <2> QED
    BY <1>1, <1>2, <2>1 DEF PirateType
<1>5. ASSUME NEW r \in Requests PROVE OnePlace(r)' /\ (Somewhere(r)' => Somewhere(r))
  <2>0. OnePlace(r)
    BY DEF Traced
  <2>1. \A w \in Workers : work'[w] = work[w] \/ (w = Server /\ work'[w] = m)
    BY <1>1, <1>3 DEF PirateType
  <2>2. CASE r # m
    BY <1>1, <1>2, <2>0, <2>1, <2>2, NoNewPlace
  <2>3. CASE r = m
    <3>1. r \in requests /\ r \notin replies /\ ~AtWork(r) /\ ~Inside(r) /\ ~Outside(r)
      BY <1>1, <2>0, <2>3 DEF OnePlace
    <3>2. r \notin requests' /\ r \notin replies' /\ ~Inside(r)' /\ ~Outside(r)'
      BY <1>1, <1>2, <2>3, <3>1 DEF Inside, Outside
    <3>3. \A w \in Workers : work'[w] = r => w = Server
      BY <2>1, <3>1 DEF AtWork
    <3>4. OnePlace(r)'
      BY <1>2, <2>0, <3>2, <3>3 DEF OnePlace
    <3> QED
      BY <3>1, <3>4 DEF Somewhere
  <2> QED
    BY <2>2, <2>3
<1>6. Traced'
  BY <1>2, <1>5, TracedStep DEF Traced
<1>7. SimpleInv' /\ ListInOrder'
  BY <1>2 DEF SimpleInv, ListInOrder
<1> QED
  BY <1>4, <1>6, <1>7

\* The server's reply.
LEMMA ServerReplyStep ==
    ASSUME PirateConstants, PirateInv, ServerReply
    PROVE  PirateInv'
<1> USE DEF PirateInv
<1> DEFINE m == work[Server]
<1>1. /\ topology = "lazy" /\ m # None
      /\ replies' = Deliver(m)
      /\ work' = [work EXCEPT ![Server] = None]
      /\ UNCHANGED <<topology, pc, sequence, socket, requests, workers, inbox, outbox, wsocket>>
  BY DEF ServerReply, clientVars, queueVars
<1>2. m \in Requests /\ Server \in Workers
  BY <1>1 DEF PirateType, PirateConstants
<1>3. /\ replies' \in SUBSET Requests
      /\ replies' \subseteq replies \cup {m}
      /\ \A r \in replies' : r[2] = socket[r[1]]
  BY <1>1, <1>2, DeliverFacts
<1>4. PirateType'
  <2>1. work' \in [Workers -> Requests \cup {None}]
    BY <1>1 DEF PirateType
  <2> QED
    BY <1>1, <1>3, <2>1 DEF PirateType
<1>5. ASSUME NEW r \in Requests PROVE OnePlace(r)' /\ (Somewhere(r)' => Somewhere(r))
  <2>0. OnePlace(r) /\ r # None
    BY DEF Traced, PirateConstants
  <2>1. \A w \in Workers : work'[w] = r => work[w] = r /\ w # Server
    BY <1>1, <2>0 DEF PirateType
  <2>2. CASE r # m
    BY <1>1, <1>3, <2>0, <2>1, <2>2, NoNewPlace
  <2>3. CASE r = m
    <3>1. AtWork(r)
      BY <1>2, <2>3 DEF AtWork
    <3>2. r \notin requests /\ r \notin replies /\ ~Inside(r) /\ ~Outside(r)
      BY <2>0, <3>1 DEF OnePlace
    <3>3. ~AtWork(r)'
      BY <1>2, <2>0, <2>1, <2>3 DEF OnePlace, AtWork
    <3>4. r \notin requests' /\ ~Inside(r)' /\ ~Outside(r)'
      BY <1>1, <3>2 DEF Inside, Outside
    <3>5. OnePlace(r)'
      BY <1>1, <2>0, <3>3, <3>4 DEF OnePlace, AtWork
    <3> QED
      BY <3>1, <3>5 DEF Somewhere
  <2> QED
    BY <2>2, <2>3
<1>6. Traced'
  BY <1>1, <1>3, <1>5, TracedStep
<1>7. SimpleInv' /\ ListInOrder'
  BY <1>1 DEF SimpleInv, ListInOrder
<1> QED
  BY <1>4, <1>6, <1>7

-----------------------------------------------------------------------------
(* spworker.c and ppworker.c *)

\* A step of worker w leaves the others of the simple queue where they are.
LEMMA SimpleStep ==
    ASSUME PirateConstants, PirateType, SimpleInv, NEW w \in Workers,
           UNCHANGED <<topology, workers, wsocket>>,
           \A v \in Workers : v # w => work'[v] = work[v],
           \A id \in Identities : id # Identity(w) => /\ inbox'[id] = inbox[id]
                                                      /\ outbox'[id] = outbox[id],
           topology = "simple" =>
              Alone(w, workers, inbox[<<w, 0>>], outbox[<<w, 0>>])'
    PROVE  SimpleInv'
<1> SUFFICES ASSUME topology = "simple"
             PROVE  /\ \A v \in Workers :
                          /\ wsocket'[v] = 0
                          /\ Alone(v, workers, inbox[<<v, 0>>], outbox[<<v, 0>>])'
                    /\ \A id \in Identities :
                          id[2] # 0 => inbox'[id] = <<>> /\ outbox'[id] = <<>>
  BY DEF SimpleInv
<1>1. Identity(w) = <<w, 0>>
  BY DEF SimpleInv, Identity
<1>2. ASSUME NEW v \in Workers
      PROVE  Alone(v, workers, inbox[<<v, 0>>], outbox[<<v, 0>>])'
  <2>1. CASE v = w
    BY <2>1
  <2>2. CASE v # w
    <3>1. <<v, 0>> \in Identities /\ <<v, 0>> # Identity(w)
      BY <1>1, <2>2 DEF Identities, PirateConstants
    <3>2. /\ inbox'[<<v, 0>>] = inbox[<<v, 0>>] /\ outbox'[<<v, 0>>] = outbox[<<v, 0>>]
          /\ work'[v] = work[v] /\ workers' = workers
      BY <2>2, <3>1
    <3>3. Alone(v, workers, inbox[<<v, 0>>], outbox[<<v, 0>>])
      BY DEF SimpleInv
    <3> QED
      BY <3>2, <3>3 DEF Alone
  <2> QED
    BY <2>1, <2>2
<1>3. ASSUME NEW id \in Identities, id[2] # 0
      PROVE  inbox'[id] = <<>> /\ outbox'[id] = <<>>
  <2>1. id # Identity(w)
    BY <1>1, <1>3
  <2> QED
    BY <1>3, <2>1 DEF SimpleInv
<1> QED
  BY <1>2, <1>3 DEF SimpleInv

\* The socket of a worker.
LEMMA IdentityFacts ==
    ASSUME PirateConstants, PirateType, NEW w \in Workers
    PROVE  /\ Identity(w) \in Identities /\ Identity(w)[1] = w
           /\ inbox[Identity(w)] \in Seq(Requests \cup Signs)
           /\ outbox[Identity(w)] \in Seq(Requests \cup {HEARTBEAT})
  BY DEF Identity, Identities, PirateType

\* A sequence of one, without its head.
LEMMA ShortTail ==
    ASSUME NEW S, NEW s \in Seq(S), s # <<>>, Len(s) <= 1
    PROVE  Tail(s) = <<>>
<1>1. Tail(s) \in Seq(S) /\ Len(Tail(s)) = Len(s) - 1 /\ Len(s) \in Nat /\ Len(s) # 0
  BY HeadTailProperties, EmptySeq
<1>2. Len(Tail(s)) = 0
  BY <1>1
<1> QED
  BY <1>1, <1>2, EmptySeq

\* A request goes from the socket to the worker's hands, or is lost with it.
LEMMA WorkerRequestStep ==
    ASSUME PirateConstants, PirateInv, NEW w \in Workers, WorkerRequest(w)
    PROVE  PirateInv'
<1> USE DEF PirateInv
<1> DEFINE id == Identity(w)
           M == Requests \cup {HEARTBEAT}
           m == Head(outbox[id])
<1>1. /\ work[w] = None /\ outbox[id] # <<>> /\ m # HEARTBEAT
      /\ UNCHANGED <<topology, pc, sequence, socket, requests, replies, workers, inbox, wsocket>>
      /\ \/ /\ work' = [work EXCEPT ![w] = m]
            /\ outbox' = [outbox EXCEPT ![id] = Tail(@)]
         \/ /\ work' = work
            /\ outbox' = [outbox EXCEPT ![id] = <<>>]
  BY DEF WorkerRequest, clientVars
<1>2. id \in Identities /\ outbox[id] \in Seq(M) /\ id = Identity(w)
  BY IdentityFacts
<1> HIDE DEF id, M
<1>3. m \in M /\ Has(outbox[id], m) /\ Tail(outbox[id]) \in Seq(M)
  BY <1>1, <1>2, HasTail
<1>4. CASE /\ work' = work
           /\ outbox' = [outbox EXCEPT ![id] = <<>>]
  <2>1. outbox'[id] = <<>> /\ \A i \in Identities : i # id => outbox'[i] = outbox[i]
    BY <1>2, <1>4 DEF PirateType
  <2>2. PirateType'
    <3>1. outbox' \in [Identities -> Seq(M)]
      BY <1>2, <1>4 DEF PirateType, M
    <3> QED
      BY <1>1, <1>4, <3>1 DEF PirateType, M
  <2>3. ASSUME NEW r \in Requests PROVE OnePlace(r)' /\ (Somewhere(r)' => Somewhere(r))
    <3>1. \A i \in Identities : /\ Has(outbox'[i], r) => Has(outbox[i], r)
                                /\ Once(outbox[i], r) => Once(outbox'[i], r)
      BY <2>1, HasShort
    <3> QED
      BY <1>1, <1>4, <3>1, NoNewPlace DEF Traced
  <2>4. Traced'
    BY <1>1, <2>3, TracedStep DEF Traced
  <2>5. topology = "simple" => Alone(w, workers, inbox[<<w, 0>>], outbox[<<w, 0>>])'
    <3> SUFFICES ASSUME topology = "simple"
                 PROVE  Alone(w, workers, inbox[<<w, 0>>], outbox[<<w, 0>>])'
      OBVIOUS
    <3>1. id = <<w, 0>> /\ Alone(w, workers, inbox[<<w, 0>>], outbox[<<w, 0>>])
      BY <1>2 DEF SimpleInv, Identity
    <3>2. outbox'[<<w, 0>>] = <<>> /\ Len(<<>>) = 0
      BY <2>1, <3>1
    <3> QED
      BY <1>1, <1>4, <3>1, <3>2 DEF Alone
  <2>6. SimpleInv'
    BY <1>1, <1>2, <1>4, <2>1, <2>5, SimpleStep
  <2> QED
    BY <1>1, <2>2, <2>4, <2>6 DEF ListInOrder
<1>5. CASE /\ work' = [work EXCEPT ![w] = m]
           /\ outbox' = [outbox EXCEPT ![id] = Tail(@)]
  <2>1. /\ outbox'[id] = Tail(outbox[id])
        /\ \A i \in Identities : i # id => outbox'[i] = outbox[i]
    BY <1>2, <1>5 DEF PirateType
  <2>2. work'[w] = m /\ \A v \in Workers : v # w => work'[v] = work[v]
    BY <1>5 DEF PirateType
  <2> HIDE DEF m
  <2>3. CASE m \in Requests
    <3>1. PirateType'
      <4>1. outbox' \in [Identities -> Seq(M)]
        BY <1>2, <1>3, <1>5 DEF PirateType, M
      <4>2. work' \in [Workers -> Requests \cup {None}]
        BY <1>5, <2>3 DEF PirateType
      <4> QED
        BY <1>1, <4>1, <4>2 DEF PirateType, M
    <3>2. ASSUME NEW r \in Requests PROVE OnePlace(r)' /\ (Somewhere(r)' => Somewhere(r))
      <4>0. OnePlace(r) /\ r # None
        BY DEF Traced, PirateConstants
      <4>1. \A i \in Identities : /\ Has(outbox'[i], r) => Has(outbox[i], r)
                                  /\ Once(outbox[i], r) => Once(outbox'[i], r)
        BY <1>1, <1>2, <2>1, HasTail
      <4>2. CASE r # m
        BY <1>1, <2>2, <4>0, <4>1, <4>2, NoNewPlace
      <4>3. CASE r = m
        <5>1. Outside(r)
          BY <1>2, <1>3, <4>3 DEF Outside
        <5>2. r \notin requests /\ r \notin replies /\ ~AtWork(r) /\ ~Inside(r)
          BY <4>0, <5>1 DEF OnePlace
        <5>3. r \notin requests' /\ r \notin replies' /\ ~Inside(r)'
          BY <1>1, <5>2 DEF Inside
        <5>4. ~Outside(r)'
          <6>1. ~Has(outbox'[id], r)
            BY <1>1, <1>2, <2>1, <4>0, <4>3, HasTail DEF OnePlace, m
          <6>2. \A i \in Identities : i # id => ~Has(outbox'[i], r)
            BY <1>2, <1>3, <2>1, <4>0, <4>3 DEF OnePlace
          <6> QED
            BY <6>1, <6>2 DEF Outside
        <5>5. \A v \in Workers : work'[v] = r => v = w
          BY <2>2, <5>2 DEF AtWork
        <5>6. \A i \in Identities : Once(inbox'[i], r) /\ Once(outbox'[i], r)
          BY <1>1, <4>0, <4>1 DEF OnePlace
        <5>7. OnePlace(r)'
          BY <5>3, <5>4, <5>5, <5>6 DEF OnePlace, Inside, Outside
        <5> QED
          BY <5>1, <5>7 DEF Somewhere
      <4> QED
        BY <4>2, <4>3
    <3>3. Traced'
      BY <1>1, <3>2, TracedStep DEF Traced
    <3>4. topology = "simple" => Alone(w, workers, inbox[<<w, 0>>], outbox[<<w, 0>>])'
      <4> SUFFICES ASSUME topology = "simple"
                   PROVE  Alone(w, workers, inbox[<<w, 0>>], outbox[<<w, 0>>])'
        OBVIOUS
      <4>1. id = <<w, 0>> /\ Alone(w, workers, inbox[<<w, 0>>], outbox[<<w, 0>>])
        BY <1>2 DEF SimpleInv, Identity
      <4>2. outbox'[<<w, 0>>] = <<>> /\ Len(<<>>) = 0
        BY <1>1, <1>2, <2>1, <4>1, ShortTail DEF Alone
      <4>3. inbox[<<w, 0>>] = <<>> /\ ~(\E i \in 1..Len(workers) : workers[i].id[1] = w)
        BY <1>1, <4>1 DEF Alone
      <4> QED
        BY <1>1, <4>1, <4>2, <4>3 DEF Alone
    <3>5. SimpleInv'
      BY <1>1, <1>2, <2>1, <2>2, <3>4, SimpleStep
    <3> QED
      BY <1>1, <3>1, <3>3, <3>5 DEF ListInOrder
  <2> QED
    BY <1>1, <1>3, <2>3 DEF M, m
<1> QED
  BY <1>1, <1>4, <1>5

\* The reply, on the worker's present socket.
LEMMA WorkerReplyStep ==
    ASSUME PirateConstants, PirateInv, NEW w \in Workers, WorkerReply(w)
    PROVE  PirateInv'
<1> USE DEF PirateInv
<1> DEFINE id == Identity(w)
           M == Requests \cup Signs
           m == work[w]
<1>1. /\ m # None
      /\ inbox' = [inbox EXCEPT ![id] = Append(@, m)]
      /\ work' = [work EXCEPT ![w] = None]
      /\ UNCHANGED <<topology, pc, sequence, socket, requests, replies, workers, outbox, wsocket>>
  BY DEF WorkerReply, clientVars
<1>2. id \in Identities /\ inbox[id] \in Seq(M) /\ id = Identity(w)
  BY IdentityFacts
<1>3. m \in Requests /\ m \in M /\ m = work[w]
  BY <1>1 DEF PirateType
<1> HIDE DEF id, M, m
<1>4. /\ inbox'[id] = Append(inbox[id], m) /\ Append(inbox[id], m) \in Seq(M)
      /\ \A i \in Identities : i # id => inbox'[i] = inbox[i]
  BY <1>1, <1>2, <1>3, AppendProperties DEF PirateType
<1>5. work'[w] = None /\ \A v \in Workers : v # w => work'[v] = work[v]
  BY <1>1 DEF PirateType
<1>6. PirateType'
  <2>1. inbox' \in [Identities -> Seq(M)]
    BY <1>1, <1>2, <1>4 DEF PirateType, M
  <2>2. work' \in [Workers -> Requests \cup {None}]
    BY <1>1 DEF PirateType
  <2> QED
    BY <1>1, <2>1, <2>2 DEF PirateType, M
<1>7. ASSUME NEW r \in Requests PROVE OnePlace(r)' /\ (Somewhere(r)' => Somewhere(r))
  <2>0. OnePlace(r) /\ r # None
    BY DEF Traced, PirateConstants
  <2>1. \A v \in Workers : work'[v] = r => work[v] = r /\ v # w
    BY <1>5, <2>0
  <2>2. CASE r # m
    <3>1. \A i \in Identities : /\ Has(inbox'[i], r) => Has(inbox[i], r)
                                /\ Once(inbox[i], r) => Once(inbox'[i], r)
      <4>1. /\ Has(Append(inbox[id], m), r) => Has(inbox[id], r)
            /\ Once(inbox[id], r) => Once(Append(inbox[id], m), r)
        BY <1>2, <1>3, <2>2, HasAppend
      <4> QED
        BY <1>4, <4>1
    <3> QED
      BY <1>1, <2>0, <2>1, <3>1, NoNewPlace
  <2>3. CASE r = m
    <3>1. AtWork(r)
      BY <1>3, <2>3 DEF AtWork
    <3>2. r \notin requests /\ r \notin replies /\ ~Inside(r) /\ ~Outside(r)
      BY <2>0, <3>1 DEF OnePlace
    <3>3. ~AtWork(r)'
      BY <1>3, <2>0, <2>1, <2>3 DEF OnePlace, AtWork
    <3>4. r \notin requests' /\ r \notin replies' /\ ~Outside(r)'
      BY <1>1, <3>2 DEF Outside
    <3>5. \A i \in Identities : Has(inbox'[i], r) => i = id
      BY <1>4, <3>2 DEF Inside
    <3>6. \A i \in Identities : Once(inbox'[i], r)
      <4>1. ~Has(inbox[id], r) /\ Once(inbox[id], r)
        BY <1>2, <2>0, <3>2 DEF Inside, OnePlace
      <4>2. Once(inbox'[id], r)
        BY <1>2, <1>3, <1>4, <4>1, HasAppend
      <4> QED
        BY <1>4, <2>0, <4>2 DEF OnePlace
    <3>7. OnePlace(r)'
      BY <1>1, <2>0, <3>3, <3>4, <3>5, <3>6 DEF OnePlace, AtWork
    <3> QED
      BY <3>1, <3>7 DEF Somewhere
  <2> QED
    BY <2>2, <2>3
<1>8. Traced'
  BY <1>1, <1>7, TracedStep DEF Traced
<1>9. topology = "simple" => Alone(w, workers, inbox[<<w, 0>>], outbox[<<w, 0>>])'
  <2> SUFFICES ASSUME topology = "simple"
               PROVE  Alone(w, workers, inbox[<<w, 0>>], outbox[<<w, 0>>])'
    OBVIOUS
  <2>1. id = <<w, 0>> /\ Alone(w, workers, inbox[<<w, 0>>], outbox[<<w, 0>>])
    BY <1>2 DEF SimpleInv, Identity
  <2>2. /\ inbox[<<w, 0>>] = <<>> /\ outbox[<<w, 0>>] = <<>>
        /\ ~(\E i \in 1..Len(workers) : workers[i].id[1] = w)
    BY <1>1, <1>3, <2>1 DEF Alone
  <2>3. Len(inbox'[<<w, 0>>]) <= 1 /\ Len(<<>>) = 0
    <3>1. inbox'[<<w, 0>>] = Append(inbox[id], m) /\ Len(inbox[id]) = 0
      BY <1>4, <2>1, <2>2
    <3>2. Len(Append(inbox[id], m)) = Len(inbox[id]) + 1
      BY <1>2, <1>3, AppendProperties
    <3> QED
      BY <3>1, <3>2
  <2> QED
    BY <1>1, <1>5, <2>2, <2>3 DEF Alone
<1>10. SimpleInv'
  BY <1>1, <1>2, <1>4, <1>5, <1>9, SimpleStep
<1> QED
  BY <1>1, <1>6, <1>8, <1>10 DEF ListInOrder

\* A heartbeat of the queue is read.
LEMMA WorkerAliveStep ==
    ASSUME PirateConstants, PirateInv, NEW w \in Workers, WorkerAlive(w)
    PROVE  PirateInv'
<1> USE DEF PirateInv
<1> DEFINE id == Identity(w)
           M == Requests \cup {HEARTBEAT}
<1>1. /\ outbox[id] # <<>>
      /\ outbox' = [outbox EXCEPT ![id] = Tail(@)]
      /\ UNCHANGED <<topology, pc, sequence, socket, requests, replies, workers, inbox,
                     work, wsocket>>
  BY DEF WorkerAlive, clientVars
<1>2. id \in Identities /\ outbox[id] \in Seq(M) /\ id = Identity(w)
  BY IdentityFacts
<1> HIDE DEF id, M
<1>3. /\ outbox'[id] = Tail(outbox[id]) /\ Tail(outbox[id]) \in Seq(M)
      /\ \A i \in Identities : i # id => outbox'[i] = outbox[i]
  BY <1>1, <1>2, HasTail DEF PirateType
<1>4. PirateType'
  <2>1. outbox' \in [Identities -> Seq(M)]
    BY <1>1, <1>2, <1>3 DEF PirateType, M
  <2> QED
    BY <1>1, <2>1 DEF PirateType, M
<1>5. ASSUME NEW r \in Requests PROVE OnePlace(r)' /\ (Somewhere(r)' => Somewhere(r))
  <2>1. \A i \in Identities : /\ Has(outbox'[i], r) => Has(outbox[i], r)
                              /\ Once(outbox[i], r) => Once(outbox'[i], r)
    BY <1>1, <1>2, <1>3, HasTail
  <2> QED
    BY <1>1, <2>1, NoNewPlace DEF Traced
<1>6. Traced'
  BY <1>1, <1>5, TracedStep DEF Traced
<1>7. topology = "simple" => Alone(w, workers, inbox[<<w, 0>>], outbox[<<w, 0>>])'
  <2> SUFFICES ASSUME topology = "simple"
               PROVE  Alone(w, workers, inbox[<<w, 0>>], outbox[<<w, 0>>])'
    OBVIOUS
  <2>1. id = <<w, 0>> /\ Alone(w, workers, inbox[<<w, 0>>], outbox[<<w, 0>>])
    BY <1>2 DEF SimpleInv, Identity
  <2>2. outbox'[<<w, 0>>] = <<>> /\ Len(<<>>) = 0
    BY <1>1, <1>2, <1>3, <2>1, ShortTail DEF Alone
  <2> QED
    BY <1>1, <2>1, <2>2 DEF Alone
<1>8. SimpleInv'
  BY <1>1, <1>2, <1>3, <1>7, SimpleStep
<1> QED
  BY <1>1, <1>4, <1>6, <1>8 DEF ListInOrder

\* The worker waits on, or gives up its socket with what was sent to it.
LEMMA WorkerTimeoutStep ==
    ASSUME PirateConstants, PirateInv, NEW w \in Workers, WorkerTimeout(w)
    PROVE  PirateInv'
<1> USE DEF PirateInv
<1>1. /\ topology = "paranoid"
      /\ UNCHANGED <<topology, pc, sequence, socket, requests, replies, workers, work>>
  BY DEF WorkerTimeout, clientVars
<1>2. SimpleInv' /\ ListInOrder'
  BY <1>1 DEF SimpleInv, ListInOrder
<1>3. CASE UNCHANGED <<inbox, outbox, wsocket>>
  <2>1. PirateType'
    BY <1>1, <1>3 DEF PirateType
  <2> QED
    BY <1>1, <1>2, <1>3, <2>1, TracedFrame
<1>4. CASE /\ wsocket[w] < MaxSocket
           /\ wsocket' = [wsocket EXCEPT ![w] = @ + 1]
           /\ outbox' = [outbox EXCEPT ![Identity(w)] = <<>>]
           /\ inbox' = [inbox EXCEPT ![<<w, wsocket'[w]>>] = <<READY>>]
  <2> DEFINE id == Identity(w)
             new == <<w, wsocket[w] + 1>>
  <2>1. wsocket[w] + 1 \in 0..MaxSocket /\ wsocket'[w] = wsocket[w] + 1
    BY <1>4 DEF PirateType, PirateConstants
  <2>2. new \in Identities /\ id \in Identities /\ new = <<w, wsocket'[w]>> /\ id = Identity(w)
    BY <2>1, IdentityFacts DEF Identities
  <2> HIDE DEF new, id
  <2>3. /\ outbox'[id] = <<>> /\ \A i \in Identities : i # id => outbox'[i] = outbox[i]
        /\ inbox'[new] = <<READY>> /\ \A i \in Identities : i # new => inbox'[i] = inbox[i]
    BY <1>4, <2>2 DEF PirateType
  <2>4. PirateType'
    <3>1. wsocket' \in [Workers -> 0..MaxSocket]
      BY <1>4, <2>1 DEF PirateType
    <3>2. outbox' \in [Identities -> Seq(Requests \cup {HEARTBEAT})]
      BY <1>4, <2>2 DEF PirateType
    <3>3. <<READY>> \in Seq(Requests \cup Signs)
      BY DEF Signs
    <3>4. inbox' \in [Identities -> Seq(Requests \cup Signs)]
      BY <1>4, <2>2, <3>3 DEF PirateType
    <3> QED
      BY <1>1, <3>1, <3>2, <3>4 DEF PirateType
  <2>5. ASSUME NEW r \in Requests PROVE OnePlace(r)' /\ (Somewhere(r)' => Somewhere(r))
    <3>0. r # READY
      BY DEF PirateConstants, Signs
    <3>1. \A i \in Identities : /\ Has(outbox'[i], r) => Has(outbox[i], r)
                                /\ Once(outbox[i], r) => Once(outbox'[i], r)
      BY <2>3, HasShort
    <3>2. \A i \in Identities : /\ Has(inbox'[i], r) => Has(inbox[i], r)
                                /\ Once(inbox[i], r) => Once(inbox'[i], r)
      BY <2>3, <3>0, HasShort
    <3> QED
      BY <1>1, <3>1, <3>2, NoNewPlace DEF Traced
  <2>6. Traced'
    BY <1>1, <2>5, TracedStep DEF Traced
  <2> QED
    BY <1>2, <2>4, <2>6
<1> QED
  BY <1>3, <1>4 DEF WorkerTimeout

\* A heartbeat is sent to the queue.
LEMMA WorkerHeartbeatStep ==
    ASSUME PirateConstants, PirateInv, NEW w \in Workers, WorkerHeartbeat(w)
    PROVE  PirateInv'
<1> USE DEF PirateInv
<1> DEFINE id == Identity(w)
           M == Requests \cup Signs
<1>1. /\ topology = "paranoid"
      /\ inbox' = [inbox EXCEPT ![id] = Append(@, HEARTBEAT)]
      /\ UNCHANGED <<topology, pc, sequence, socket, requests, replies, workers, outbox,
                     work, wsocket>>
  BY DEF WorkerHeartbeat, clientVars, workerVars
<1>2. id \in Identities /\ inbox[id] \in Seq(M) /\ HEARTBEAT \in M
  BY IdentityFacts DEF Signs
<1> HIDE DEF id, M
<1>3. /\ inbox'[id] = Append(inbox[id], HEARTBEAT) /\ Append(inbox[id], HEARTBEAT) \in Seq(M)
      /\ \A i \in Identities : i # id => inbox'[i] = inbox[i]
  BY <1>1, <1>2, AppendProperties DEF PirateType
<1>4. PirateType'
  <2>1. inbox' \in [Identities -> Seq(M)]
    BY <1>1, <1>2, <1>3 DEF PirateType, M
  <2> QED
    BY <1>1, <2>1 DEF PirateType, M
<1>5. ASSUME NEW r \in Requests PROVE OnePlace(r)' /\ (Somewhere(r)' => Somewhere(r))
  <2>0. r # HEARTBEAT
    BY DEF PirateConstants, Signs
  <2>1. \A i \in Identities : /\ Has(inbox'[i], r) => Has(inbox[i], r)
                              /\ Once(inbox[i], r) => Once(inbox'[i], r)
    <3>1. /\ Has(Append(inbox[id], HEARTBEAT), r) => Has(inbox[id], r)
          /\ Once(inbox[id], r) => Once(Append(inbox[id], HEARTBEAT), r)
      BY <1>2, <2>0, HasAppend
    <3> QED
      BY <1>3, <3>1
  <2> QED
    BY <1>1, <2>1, NoNewPlace DEF Traced
<1>6. Traced'
  BY <1>1, <1>5, TracedStep DEF Traced
<1>7. SimpleInv' /\ ListInOrder'
  BY <1>1 DEF SimpleInv, ListInOrder
<1> QED
  BY <1>4, <1>6, <1>7

\* The clocks of all workers in the list advance together.
LEMMA TickStep ==
    ASSUME PirateConstants, PirateInv, Tick
    PROVE  PirateInv'
<1> USE DEF PirateInv
<1>1. /\ topology = "paranoid"
      /\ UNCHANGED <<topology, pc, sequence, socket, requests, replies, inbox, outbox,
                     work, wsocket>>
  BY DEF Tick, clientVars, workerVars
<1>2. /\ Len(workers) \in Nat
      /\ \A i \in 1..Len(workers) :
            /\ workers[i].id \in Identities /\ workers[i].expiry \in 0..Expiry
            /\ workers[i] \in [id : Identities, expiry : 0..Expiry]
  <2>1. workers \in Seq(Entries)
    BY DEF PirateType, Entries
  <2>2. Len(workers) \in Nat /\ \A i \in 1..Len(workers) : workers[i] \in Entries
    BY <2>1
  <2> QED
    BY <2>2 DEF Entries
<1> DEFINE n == Len(workers)
           Older(e) == [e EXCEPT !.expiry = IF @ > 0 THEN @ - 1 ELSE 0]
<1>3. workers' = [i \in 1..n |-> Older(workers[i])]
  BY DEF Tick
<1>4. \A i \in 1..n :
         /\ Older(workers[i]) \in [id : Identities, expiry : 0..Expiry]
         /\ Older(workers[i]).id = workers[i].id
         /\ Older(workers[i]).expiry
              = IF workers[i].expiry > 0 THEN workers[i].expiry - 1 ELSE 0
  BY <1>2 DEF PirateConstants
<1> HIDE DEF Older
<1>5. workers' \in Seq([id : Identities, expiry : 0..Expiry]) /\ Len(workers') = n
  <2>1. workers' \in [1..n -> [id : Identities, expiry : 0..Expiry]]
    BY <1>3, <1>4
  <2> QED
    BY <1>2, <2>1, ArrayIsSeq
<1>6. PirateType'
  BY <1>1, <1>5 DEF PirateType
<1>7. ListInOrder'
  <2> SUFFICES ASSUME NEW i \in 1..Len(workers'), NEW j \in 1..Len(workers'), i < j
               PROVE  /\ workers'[i].id # workers'[j].id
                      /\ workers'[i].expiry <= workers'[j].expiry
    BY DEF ListInOrder
  <2>1. i \in 1..n /\ j \in 1..n
    BY <1>5
  <2>2. workers[i].id # workers[j].id /\ workers[i].expiry <= workers[j].expiry
    BY <1>1, <2>1 DEF ListInOrder
  <2> QED
    BY <1>2, <1>3, <1>4, <2>1, <2>2
<1>8. Traced'
  BY <1>1, TracedFrame
<1>9. SimpleInv'
  BY <1>1 DEF SimpleInv
<1> QED
  BY <1>6, <1>7, <1>8, <1>9

-----------------------------------------------------------------------------
(* spqueue.c and ppqueue.c *)

\* What an iteration of either loop does with the requests: the reply of the
\* worker id, if it reads one, goes to the clients, and the request r, if it
\* reads one, to the worker at the head of the list.
Carries(id, r, list, rest, due) ==
    /\ FromBackend(id)
    /\ requests' = requests \ {r}
    /\ outbox' = Outbox(r, list, rest, due)
    /\ UNCHANGED <<topology, clientVars, workerVars>>

\* What is read from a worker.
LEMMA BackendFacts ==
    ASSUME PirateConstants, PirateType, Traced,
           NEW id \in Identities \cup {None}, FromBackend(id)
    PROVE  /\ inbox' \in [Identities -> Seq(Requests \cup Signs)]
           /\ replies' \in SUBSET Requests
           /\ \A q \in replies' : q[2] = socket[q[1]]
           /\ \A q \in Requests :
                 /\ q \in replies' => q \in replies \/ (Inside(q) /\ ~Inside(q)')
                 /\ \A i \in Identities : /\ Has(inbox'[i], q) => Has(inbox[i], q)
                                          /\ Once(inbox[i], q) => Once(inbox'[i], q)
<1>1. CASE id = None
  <2>1. inbox' = inbox /\ replies' = replies
    BY <1>1 DEF FromBackend
  <2> QED
    BY <2>1 DEF PirateType, Traced
<1>2. CASE id # None
  <2> DEFINE M == Requests \cup Signs
             m == Head(inbox[id])
  <2>1. /\ id \in Identities /\ inbox[id] # <<>>
        /\ inbox' = [inbox EXCEPT ![id] = Tail(@)]
        /\ replies' = IF m \in Signs THEN replies ELSE Deliver(m)
    BY <1>2 DEF FromBackend, Signs
  <2>2. inbox[id] \in Seq(M)
    BY <2>1 DEF PirateType
  <2> HIDE DEF M
  <2>3. m \in M /\ Tail(inbox[id]) \in Seq(M) /\ Has(inbox[id], m)
    BY <2>1, <2>2, HasTail
  <2>4. /\ inbox'[id] = Tail(inbox[id])
        /\ \A i \in Identities : i # id => inbox'[i] = inbox[i]
    BY <2>1 DEF PirateType
  <2>5. inbox' \in [Identities -> Seq(M)]
    BY <2>1, <2>3 DEF PirateType, M
  <2>6. /\ replies' \in SUBSET Requests
        /\ \A q \in replies' : q[2] = socket[q[1]]
        /\ \A q \in replies' : q \in replies \/ q = m
    <3>1. CASE m \in Signs
      BY <2>1, <3>1 DEF PirateType, Traced
    <3>2. CASE m \notin Signs
      <4>1. m \in Requests
        BY <2>3, <3>2 DEF M
      <4> HIDE DEF m
      <4>2. replies' = Deliver(m)
        BY <2>1, <3>2
      <4> QED
        BY <4>1, <4>2, DeliverFacts
    <3> QED
      BY <3>1, <3>2
  <2>7. ASSUME NEW q \in Requests
        PROVE  \A i \in Identities : /\ Has(inbox'[i], q) => Has(inbox[i], q)
                                     /\ Once(inbox[i], q) => Once(inbox'[i], q)
    <3>1. /\ Has(Tail(inbox[id]), q) => Has(inbox[id], q)
          /\ Once(inbox[id], q) => Once(Tail(inbox[id]), q)
      BY <2>1, <2>2, HasTail
    <3> QED
      BY <2>4, <3>1
  <2>8. ASSUME NEW q \in Requests, q = m
        PROVE  Inside(q) /\ ~Inside(q)'
    <3>0. OnePlace(q) /\ Has(inbox[id], q)
      BY <2>3, <2>8 DEF Traced
    <3>1. Inside(q)
      BY <2>1, <3>0 DEF Inside
    <3>2. ~Has(inbox'[id], q)
      BY <2>1, <2>2, <2>4, <2>8, <3>0, HasTail DEF OnePlace
    <3>3. \A i \in Identities : i # id => ~Has(inbox'[i], q)
      BY <2>1, <2>4, <3>0 DEF OnePlace
    <3> QED
      BY <3>1, <3>2, <3>3 DEF Inside
  <2> HIDE DEF m
  <2> QED
    BY <2>5, <2>6, <2>7, <2>8 DEF M
<1> QED
  BY <1>1, <1>2

\* Neither loop copies a request or a reply, or brings back an old one.
LEMMA CarriesTraced ==
    ASSUME PirateConstants, PirateType, Traced,
           NEW id \in Identities \cup {None}, NEW r \in requests \cup {None},
           NEW list, NEW rest, NEW due \in BOOLEAN,
           Carries(id, r, list, rest, due)
    PROVE  /\ Traced'
           /\ workers' \in Seq(Entries) => PirateType'
<1>1. /\ requests' = requests \ {r} /\ FromBackend(id)
      /\ outbox' = Outbox(r, list, rest, due)
      /\ UNCHANGED <<topology, pc, sequence, socket, work, wsocket>>
  BY DEF Carries, clientVars, workerVars
<1>2. /\ inbox' \in [Identities -> Seq(Requests \cup Signs)]
      /\ replies' \in SUBSET Requests
      /\ \A q \in replies' : q[2] = socket[q[1]]
      /\ \A q \in Requests :
            /\ q \in replies' => q \in replies \/ (Inside(q) /\ ~Inside(q)')
            /\ \A i \in Identities : /\ Has(inbox'[i], q) => Has(inbox[i], q)
                                     /\ Once(inbox[i], q) => Once(inbox'[i], q)
  BY <1>1, BackendFacts
<1> DEFINE gets(i) == r # None /\ list # <<>> /\ list[1].id = i /\ Reachable(i)
<1>3. r \in Requests \cup {None}
  BY DEF PirateType
<1>4. ASSUME NEW i \in Identities
      PROVE  /\ outbox'[i] \in Seq(Requests \cup {HEARTBEAT})
             /\ \A q \in Requests :
                   /\ Has(outbox'[i], q) => Has(outbox[i], q) \/ (q = r /\ gets(i))
                   /\ Once(outbox[i], q) /\ (q = r => ~Has(outbox[i], q))
                         => Once(outbox'[i], q)
  BY <1>1, <1>3, OutboxFacts
<1>5. workers' \in Seq(Entries) => PirateType'
  <2>1. outbox' \in [Identities -> Seq(Requests \cup {HEARTBEAT})]
    <3>1. outbox' = [i \in Identities |-> outbox'[i]]
      BY <1>1 DEF Outbox
    <3> QED
      BY <1>4, <3>1
  <2>2. requests' \in SUBSET Requests
    BY <1>1 DEF PirateType
  <2> QED
    BY <1>1, <1>2, <2>1, <2>2 DEF PirateType, Entries
<1>6. ASSUME NEW q \in Requests PROVE OnePlace(q)' /\ (Somewhere(q)' => Somewhere(q))
  <2>0. OnePlace(q)
    BY DEF Traced
  <2>1. CASE q = r
    <3>1. q \in requests /\ q \notin replies /\ ~AtWork(q) /\ ~Inside(q) /\ ~Outside(q)
      BY <2>0, <2>1, <1>3 DEF PirateConstants, OnePlace
    <3>2. q \notin requests' /\ q \notin replies' /\ ~AtWork(q)' /\ ~Inside(q)'
      BY <1>1, <1>2, <2>1, <3>1 DEF AtWork, Inside
    <3>3. \A i \in Identities : ~Has(outbox[i], q)
      BY <3>1 DEF Outside
    <3>4. \A i \in Identities : Has(outbox'[i], q) => list[1].id = i
      BY <1>4, <3>3
    <3>5. \A i \in Identities : Once(inbox'[i], q) /\ Once(outbox'[i], q)
      BY <1>2, <1>4, <2>0, <3>3 DEF OnePlace
    <3>6. OnePlace(q)'
      BY <3>2, <3>4, <3>5 DEF OnePlace, AtWork, Inside
    <3> QED
      BY <3>1, <3>6 DEF Somewhere
  <2>2. CASE q # r
    <3>1. \A i \in Identities : /\ Has(outbox'[i], q) => Has(outbox[i], q)
                                /\ Once(outbox[i], q) => Once(outbox'[i], q)
      BY <1>4, <2>2
    <3>2. q \in requests' => q \in requests
      BY <1>1
    <3>3. CASE q \in replies' => q \in replies
      BY <1>1, <1>2, <2>0, <3>1, <3>2, <3>3, NoNewPlace
    <3>4. CASE Inside(q) /\ ~Inside(q)'
      <4>1. q \notin requests /\ q \notin replies /\ ~AtWork(q) /\ ~Outside(q)
        BY <2>0, <3>4 DEF OnePlace
      <4>2. q \notin requests' /\ ~AtWork(q)' /\ ~Outside(q)'
        BY <1>1, <3>1, <4>1 DEF AtWork, Outside
      <4>3. \A i \in Identities : Once(inbox'[i], q) /\ Once(outbox'[i], q)
        BY <1>2, <2>0, <3>1 DEF OnePlace
      <4>4. OnePlace(q)'
        BY <3>4, <4>2, <4>3 DEF OnePlace, AtWork, Inside, Outside
      <4> QED
        BY <3>4, <4>4 DEF Somewhere
    <3> QED
      BY <1>2, <3>3, <3>4
  <2> QED
    BY <2>1, <2>2
<1> QED
  BY <1>1, <1>2, <1>5, <1>6, TracedStep

\* ppqueue's loop.
LEMMA ParanoidQueueStep ==
    ASSUME PirateConstants, PirateInv,
           NEW id \in Identities \cup {None}, NEW r \in requests \cup {None},
           NEW due \in BOOLEAN, ParanoidQueue(id, r, due)
    PROVE  PirateInv'
<1> USE DEF PirateInv
<1> DEFINE list == ListWith(id)
           rest == IF r = None THEN list ELSE s_workers_next(list)
<1>1. /\ topology = "paranoid" /\ topology' = topology
      /\ r # None => workers # <<>>
      /\ workers' = s_workers_purge(rest)
      /\ Carries(id, r, list, rest, due)
  BY DEF ParanoidQueue, Carries
<1>2. workers \in Seq(Entries) /\ InOrder(workers)
  BY <1>1 DEF PirateType, Entries, ListInOrder, InOrder
<1>3. /\ list \in Seq(Entries) /\ InOrder(list)
      /\ r # None => list # <<>>
  <2>1. CASE id = None
    BY <1>1, <1>2, <2>1 DEF ListWith
  <2>2. CASE id # None
    <3>1. id \in Identities /\ list = s_worker_ready(id, workers)
      BY <1>1, <2>2 DEF ListWith
    <3> HIDE DEF list
    <3> QED
      BY <1>2, <3>1, ReadyInOrder
  <2> QED
    BY <2>1, <2>2
<1> HIDE DEF list
<1>4. rest \in Seq(Entries) /\ InOrder(rest)
  BY <1>3, TailInOrder DEF s_workers_next
<1> HIDE DEF rest
<1>5. workers' \in Seq(Entries) /\ InOrder(workers')
  BY <1>1, <1>4, PurgeInOrder
<1>6. PirateType' /\ Traced'
  BY <1>1, <1>5, CarriesTraced
<1>7. SimpleInv' /\ ListInOrder'
  BY <1>1, <1>5 DEF SimpleInv, ListInOrder, InOrder
<1> QED
  BY <1>6, <1>7

\* A worker of spqueue that is heard of goes to the end of the list.
LEMMA AloneJoins ==
    ASSUME NEW list \in Seq(Entries), NEW e \in Entries, NEW w,
           NEW S, NEW in \in Seq(S), NEW out, Alone(w, list, in, out)
    PROVE  /\ e.id[1] # w => Alone(w, Append(list, e), in, out)
           /\ e.id[1] = w /\ in # <<>> => Alone(w, Append(list, e), Tail(in), out)
<1> DEFINE n == Len(list)
           more == Append(list, e)
<1>1. /\ Len(more) = n + 1 /\ n \in Nat
      /\ \A i \in 1..n : more[i] = list[i]
      /\ more[n + 1] = e
  BY AppendProperties
<1> HIDE DEF more, n
<1>2. \A i \in 1..(n + 1) : i \in 1..n \/ i = n + 1
  BY <1>1
<1>3. CASE e.id[1] # w
  <2>1. \A i \in 1..(n + 1) : more[i].id[1] = w => i \in 1..n /\ list[i].id[1] = w
    BY <1>1, <1>2, <1>3
  <2> QED
    BY <1>1, <1>3, <2>1 DEF Alone, more, n
<1>4. CASE e.id[1] = w /\ in # <<>>
  <2>1. /\ \A i \in 1..n : list[i].id[1] # w
        /\ Len(in) <= 1 /\ out = <<>> /\ Len(out) <= 1 /\ work[w] = None
    BY <1>4 DEF Alone, n
  <2>2. Tail(in) = <<>> /\ Len(<<>>) = 0
    BY <1>4, <2>1, ShortTail
  <2>3. \A i \in 1..(n + 1) : more[i].id[1] = w => i = n + 1
    BY <1>1, <1>2, <2>1
  <2> QED
    BY <1>1, <1>4, <2>1, <2>2, <2>3 DEF Alone, more
<1> QED
  BY <1>3, <1>4 DEF more

\* The worker at the head leaves the list, and nothing else was known of it.
LEMMA AloneLeaves ==
    ASSUME NEW list \in Seq(Entries), list # <<>>, NEW w, NEW in, NEW out,
           Alone(w, list, in, out)
    PROVE  /\ Alone(w, Tail(list), in, out)
           /\ list[1].id[1] = w =>
                 /\ \A i \in 1..Len(Tail(list)) : Tail(list)[i].id[1] # w
                 /\ in = <<>> /\ out = <<>> /\ work[w] = None
<1> DEFINE rest == Tail(list)
<1>1. /\ Len(rest) = Len(list) - 1 /\ Len(list) \in Nat \ {0}
      /\ \A i \in 1..Len(rest) : rest[i] = list[i + 1]
  BY HeadTailProperties, EmptySeq
<1> HIDE DEF rest
<1>2. \A i \in 1..Len(rest) : i + 1 \in 1..Len(list) /\ i + 1 # 1 /\ rest[i] = list[i + 1]
  BY <1>1
<1>3. 1 \in 1..Len(list)
  BY <1>1
<1>4. ASSUME NEW i \in 1..Len(rest), NEW j \in 1..Len(rest),
             rest[i].id[1] = w, rest[j].id[1] = w
      PROVE  i = j
  <2>1. i + 1 = j + 1
    BY <1>2, <1>4 DEF Alone
  <2> QED
    BY <2>1
<1>5. Alone(w, rest, in, out)
  BY <1>2, <1>4 DEF Alone
<1>6. ASSUME list[1].id[1] = w
      PROVE  /\ \A i \in 1..Len(rest) : rest[i].id[1] # w
             /\ in = <<>> /\ out = <<>> /\ work[w] = None
  BY <1>2, <1>3, <1>6 DEF Alone
<1> QED
  BY <1>5, <1>6 DEF rest

\* spqueue's loop.
LEMMA SimpleQueueStep ==
    ASSUME PirateConstants, PirateInv,
           NEW id \in Identities \cup {None}, NEW r \in requests \cup {None},
           SimpleQueue(id, r)
    PROVE  PirateInv'
<1> USE DEF PirateInv
<1> DEFINE list == ListWith(id)
           M == Requests \cup Signs
<1>1. /\ topology = "simple" /\ topology' = topology /\ work' = work /\ wsocket' = wsocket
      /\ r # None => workers # <<>>
      /\ FromBackend(id)
      /\ outbox' = Outbox(r, list, <<>>, FALSE)
      /\ workers' = IF r = None THEN list ELSE Tail(list)
      /\ Carries(id, r, list, <<>>, FALSE)
  BY DEF SimpleQueue, Carries, workerVars
<1>2. workers \in Seq(Entries)
  BY DEF PirateType, Entries
<1>3. list = IF id = None THEN workers ELSE Append(workers, Entry(id))
  BY <1>1 DEF ListWith
<1> HIDE DEF list
<1>4. id # None => Entry(id) \in Entries /\ Entry(id).id = id
  BY DEF Entry, Entries, PirateConstants
<1>5. list \in Seq(Entries) /\ (r # None => list # <<>>)
  BY <1>1, <1>2, <1>3, <1>4, AppendProperties
<1>6. workers' \in Seq(Entries)
  <2>1. list # <<>> => Tail(list) \in Seq(Entries)
    BY <1>5, HeadTailProperties
  <2> QED
    BY <1>1, <1>5, <2>1
<1>7. PirateType' /\ Traced'
  BY <1>1, <1>6, CarriesTraced
<1>8. /\ \A w \in Workers : wsocket[w] = 0 /\ <<w, 0>> \in Identities
      /\ \A w \in Workers : Alone(w, workers, inbox[<<w, 0>>], outbox[<<w, 0>>])
      /\ \A i \in Identities : i[2] # 0 => inbox[i] = <<>> /\ outbox[i] = <<>>
      /\ \A i \in Identities : i[1] \in Workers /\ i = <<i[1], i[2]>>
  BY <1>1 DEF SimpleInv, Identities, PirateConstants
<1>9. /\ \A w \in Workers : Alone(w, list, inbox'[<<w, 0>>], outbox[<<w, 0>>])
      /\ \A i \in Identities : i[2] # 0 => inbox'[i] = <<>>
  <2>1. CASE id = None
    <3>1. inbox' = inbox /\ list = workers
      BY <1>1, <1>3, <2>1 DEF FromBackend
    <3> QED
      BY <1>8, <3>1
  <2>2. CASE id # None
    <3>1. /\ id \in Identities /\ inbox[id] # <<>>
          /\ inbox' = [inbox EXCEPT ![id] = Tail(@)]
          /\ list = Append(workers, Entry(id))
      BY <1>1, <1>3, <2>2 DEF FromBackend
    <3>2. id = <<id[1], 0>> /\ id[1] \in Workers
      BY <1>8, <3>1
    <3>3. /\ inbox'[id] = Tail(inbox[id])
          /\ \A i \in Identities : i # id => inbox'[i] = inbox[i]
      BY <3>1 DEF PirateType
    <3>4. ASSUME NEW w \in Workers
          PROVE  Alone(w, list, inbox'[<<w, 0>>], outbox[<<w, 0>>])
      <4>1. inbox[<<w, 0>>] \in Seq(M)
        BY <1>8 DEF PirateType
      <4> HIDE DEF M
      <4>2. CASE w = id[1]
        <5>1. <<w, 0>> = id /\ Entry(id).id[1] = w
          BY <1>4, <2>2, <3>2, <4>2
        <5>2. Alone(w, Append(workers, Entry(id)), Tail(inbox[<<w, 0>>]), outbox[<<w, 0>>])
          BY <1>2, <1>4, <1>8, <2>2, <3>1, <4>1, <5>1, AloneJoins
        <5> QED
          BY <3>1, <3>3, <5>1, <5>2
      <4>3. CASE w # id[1]
        <5>1. <<w, 0>> # id /\ Entry(id).id[1] # w
          BY <1>4, <2>2, <3>2, <4>3
        <5>2. Alone(w, Append(workers, Entry(id)), inbox[<<w, 0>>], outbox[<<w, 0>>])
          BY <1>2, <1>4, <1>8, <2>2, <4>1, <5>1, AloneJoins
        <5> QED
          BY <1>8, <3>1, <3>3, <5>1, <5>2
      <4> QED
        BY <4>2, <4>3
    <3>5. ASSUME NEW i \in Identities, i[2] # 0 PROVE inbox'[i] = <<>>
      <4>1. i # id
        BY <3>2, <3>5
      <4> QED
        BY <1>8, <3>3, <3>5, <4>1
    <3> QED
      BY <3>4, <3>5
  <2> QED
    BY <2>1, <2>2
<1>10. ASSUME NEW i \in Identities
       PROVE  outbox'[i] = IF r # None /\ list # <<>> /\ list[1].id = i /\ Reachable(i)
                           THEN Append(outbox[i], r) ELSE outbox[i]
  <2> DEFINE gets == r # None /\ list # <<>> /\ list[1].id = i /\ Reachable(i)
             s == outbox[i]
  <2>1. /\ s \in Seq(Requests \cup {HEARTBEAT})
        /\ r # None => r \in Requests \cup {HEARTBEAT}
    BY DEF PirateType
  <2>2. outbox'[i] = s \o (IF gets THEN <<r>> ELSE <<>>) \o <<>>
    BY <1>1 DEF Outbox
  <2> HIDE DEF s
  <2>3. CASE gets
    BY <2>1, <2>2, <2>3, AppendIsConcat, AppendProperties, ConcatEmptySeq DEF s
  <2>4. CASE ~gets
    BY <2>1, <2>2, <2>4, ConcatEmptySeq DEF s
  <2> QED
    BY <2>3, <2>4
<1>11. ASSUME NEW i \in Identities, i[2] # 0 PROVE outbox'[i] = <<>>
  <2>1. Identity(i[1]) = <<i[1], 0>> /\ Identity(i[1])[2] = 0
    BY <1>8 DEF Identity
  <2>2. ~Reachable(i)
    BY <1>11, <2>1 DEF Reachable
  <2> QED
    BY <1>8, <1>10, <1>11, <2>2
<1>12. ASSUME NEW w \in Workers
       PROVE  Alone(w, workers, inbox[<<w, 0>>], outbox[<<w, 0>>])'
  <2>1. CASE r = None
    <3>1. workers' = list /\ outbox'[<<w, 0>>] = outbox[<<w, 0>>]
      BY <1>1, <1>8, <1>10, <2>1
    <3> QED
      BY <1>1, <1>9, <3>1 DEF Alone
  <2>2. CASE r # None
    <3>1. workers' = Tail(list) /\ list # <<>>
      BY <1>1, <1>5, <2>2
    <3>2. /\ Alone(w, Tail(list), inbox'[<<w, 0>>], outbox[<<w, 0>>])
          /\ list[1].id[1] = w =>
                /\ \A i \in 1..Len(Tail(list)) : Tail(list)[i].id[1] # w
                /\ inbox'[<<w, 0>>] = <<>> /\ outbox[<<w, 0>>] = <<>> /\ work[w] = None
      BY <1>5, <1>9, <3>1, AloneLeaves
    <3>3. CASE list[1].id[1] = w
      <4>1. outbox'[<<w, 0>>] = <<>> \/ outbox'[<<w, 0>>] = <<r>>
        <5>1. <<w, 0>> \in Identities /\ outbox[<<w, 0>>] = <<>> /\ Append(<<>>, r) = <<r>>
          BY <1>8, <3>2, <3>3
        <5> QED
          BY <1>10, <5>1
      <4>2. Len(outbox'[<<w, 0>>]) <= 1 /\ Len(inbox'[<<w, 0>>]) <= 1
        <5>1. CASE outbox'[<<w, 0>>] = <<>>
          BY <3>2, <3>3, <5>1
        <5>2. CASE outbox'[<<w, 0>>] = <<r>>
          <6> DEFINE o == outbox'[<<w, 0>>]
          <6>1. DOMAIN o = 1..1
            BY <5>2
          <6> HIDE DEF o
          <6>2. Len(o) = 1
            BY <6>1
          <6> QED
            BY <3>2, <3>3, <6>2 DEF o
        <5> QED
          BY <4>1, <5>1, <5>2
      <4> QED
        BY <1>1, <3>1, <3>2, <3>3, <4>2 DEF Alone
    <3>4. CASE list[1].id[1] # w
      <4>1. outbox'[<<w, 0>>] = outbox[<<w, 0>>]
        BY <1>8, <1>10, <3>4
      <4> QED
        BY <1>1, <3>1, <3>2, <4>1 DEF Alone
    <3> QED
      BY <3>3, <3>4
  <2> QED
    BY <2>1, <2>2
<1>13. SimpleInv'
  BY <1>1, <1>8, <1>9, <1>11, <1>12 DEF SimpleInv
<1>14. ListInOrder'
  BY <1>1 DEF ListInOrder
<1> QED
  BY <1>7, <1>13, <1>14

-----------------------------------------------------------------------------
(* The theorems *)

\* Nothing that the pirates can do breaks the invariant.
LEMMA PirateStep ==
    ASSUME PirateConstants, PirateInv, [Next]_vars
    PROVE  PirateInv'
<1>1. CASE UNCHANGED vars
  <2>1. UNCHANGED <<topology, pc, sequence, socket, requests, replies, workers, inbox,
                    outbox, work, wsocket>>
    BY <1>1 DEF vars, clientVars, queueVars, workerVars
  <2> QED
    BY <2>1, TracedFrame, QueueFrame DEF PirateInv, PirateType
<1>2. ASSUME NEW c \in Clients, Client(c) PROVE PirateInv'
  <2>1. PirateType' /\ Traced'
    BY <1>2, SendStep, RecvStep, TimeoutStep DEF Client, PirateInv
  <2>2. UNCHANGED <<topology, workers, inbox, outbox, work, wsocket>>
    BY <1>2 DEF Client, ClientSend, ClientRecv, ClientTimeout, queueVars, workerVars
  <2> QED
    BY <2>1, <2>2, QueueFrame DEF PirateInv
<1>3. ASSUME NEW id \in Identities \cup {None}, NEW r \in requests \cup {None}, Queue(id, r)
      PROVE  PirateInv'
  BY <1>3, SimpleQueueStep, ParanoidQueueStep DEF Queue
<1>4. ASSUME NEW w \in Workers, Worker(w) \/ WorkerTimeout(w) \/ WorkerHeartbeat(w)
      PROVE  PirateInv'
  BY <1>4, WorkerRequestStep, WorkerReplyStep, WorkerAliveStep, WorkerTimeoutStep,
     WorkerHeartbeatStep DEF Worker
<1> QED
  BY <1>1, <1>2, <1>3, <1>4, ServerRecvStep, ServerReplyStep, TickStep DEF Next

\* The strengthening is an invariant of all three topologies.
THEOREM PirateInvariance ==
    ASSUME PirateConstants
    PROVE  Spec => []PirateInv
<1>1. Init => PirateInv
  BY PirateInit
<1>2. PirateInv /\ [Next]_vars => PirateInv'
  BY PirateStep
<1> QED
  BY <1>1, <1>2, PTL DEF Spec

\* lpclient.c:32: for any number of clients, retries and requests, what
\* reaches a client answers the request it waits for.
THEOREM RepliesFresh ==
    ASSUME PirateConstants
    PROVE  Spec => []NoStaleReply
<1>1. PirateInv => NoStaleReply
  <2> SUFFICES ASSUME PirateInv, NEW r \in replies
               PROVE  r[3] = sequence[r[1]] /\ r[2] = socket[r[1]]
    BY DEF NoStaleReply
  <2>1. r \in Requests /\ r[2] = socket[r[1]]
    BY DEF PirateInv, PirateType, Traced
  <2>2. Sent(r) /\ Somewhere(r)
    BY <2>1 DEF PirateInv, Traced, Somewhere
  <2> QED
    BY <2>1, <2>2 DEF Sent
<1> QED
  BY <1>1, PirateInvariance, PTL

\* spqueue.c and spworker.c: a worker never has two requests, replies or
\* places in the list.
THEOREM WorkersAlone ==
    ASSUME PirateConstants
    PROVE  Spec => []OneAtATime
<1>1. PirateInv => OneAtATime
  <2> SUFFICES ASSUME PirateInv, topology = "simple", NEW w \in Workers,
                      NEW p \in Places(w), NEW q \in Places(w)
               PROVE  p = q
    BY DEF OneAtATime
  <2> DEFINE in == inbox[<<w, 0>>]
             out == outbox[<<w, 0>>]
             here == {i \in 1..Len(workers) : workers[i].id[1] = w}
             busy == {1} \ {j \in {1} : work[w] = None}
  <2>1. Alone(w, workers, in, out) /\ Identity(w) = <<w, 0>>
    BY DEF PirateInv, SimpleInv, Identity
  <2>2. Len(in) \in Nat /\ Len(out) \in Nat
    BY <2>1, IdentityFacts DEF PirateInv
  <2>3. \A x \in Places(w) :
           \/ \E i \in here : x = <<"list", i>>
           \/ \E i \in 1..Len(in) : x = <<"inbox", i>>
           \/ \E i \in 1..Len(out) : x = <<"outbox", i>>
           \/ \E i \in busy : x = <<"work", i>>
    BY <2>1 DEF Places
  <2>4. /\ \A i \in 1..Len(in) : i = 1 /\ in # <<>>
        /\ \A i \in 1..Len(out) : i = 1 /\ out # <<>>
        /\ \A i \in busy : i = 1 /\ work[w] # None
        /\ \A i, j \in here : i = j
    BY <2>1, <2>2 DEF Alone
  <2>5. /\ here # {} => in = <<>> /\ out = <<>> /\ work[w] = None
        /\ in # <<>> => out = <<>> /\ work[w] = None
        /\ out # <<>> => work[w] = None
    BY <2>1 DEF Alone
  <2> HIDE DEF here, busy, in, out
  <2> QED
    BY <2>3, <2>4, <2>5
<1> QED
  BY <1>1, PirateInvariance, PTL

\* ppqueue.c: the list has every worker once, and those who expire first first.
THEOREM ListOrdered ==
    ASSUME PirateConstants
    PROVE  Spec => []ListInOrder
  BY PirateInvariance, PTL DEF PirateInv
=============================================================================
