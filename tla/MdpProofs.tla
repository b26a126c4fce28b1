------------------------------ MODULE MdpProofs ------------------------------
(***************************************************************************)
(* TLAPS proofs about Mdp, for any processes, services and bounds.         *)
(*                                                                         *)
(* The flow is what is in all queues and hands, a function of the place.   *)
(* Every property of requests says that things of some kind T are nowhere  *)
(* in the flow, or in one place at most; a step takes a message from one   *)
(* place and may put another one somewhere.  The functions of the broker   *)
(* are treated first, for any broker record: what they do to its lists     *)
(* and to the flow.  Then each action is shown to keep the part of the     *)
(* invariant that is about processes, connections and workers (Base) and   *)
(* to neither duplicate nor invent copies of requests (Delivers, Spares),  *)
(* from which the part about the clients follows (MdpInv).                 *)
(***************************************************************************)
EXTENDS Mdp, SequenceTheorems, FiniteSetTheorems, WellFoundedInduction, TLAPS

-----------------------------------------------------------------------------
(* Sequences *)

\* Something of T is in s, and in one position only.
Has(s, T) == \E k \in 1..Len(s) : s[k] \in T
Once(s, T) == \A j, k \in 1..Len(s) : s[j] \in T /\ s[k] \in T => j = k

\* Short queues.
LEMMA HasShort ==
    ASSUME NEW m, NEW T
    PROVE  /\ ~Has(<<>>, T) /\ Once(<<>>, T)
           /\ Has(<<m>>, T) <=> m \in T
           /\ Once(<<m>>, T)
  BY DEF Has, Once

\* Taking the head of a queue.
LEMMA HasTail ==
    ASSUME NEW S, NEW s \in Seq(S), s # <<>>, NEW T
    PROVE  /\ Has(Tail(s), T) => Has(s, T)
           /\ Head(s) \in T => Has(s, T)
           /\ Has(s, T) => Has(Tail(s), T) \/ Head(s) \in T
           /\ Once(s, T) => Once(Tail(s), T)
           /\ Once(s, T) /\ Head(s) \in T => ~Has(Tail(s), T)
           /\ Head(s) \in S /\ Tail(s) \in Seq(S)
<1>1. /\ Tail(s) \in Seq(S) /\ Head(s) \in S
      /\ Len(Tail(s)) = Len(s) - 1 /\ Len(s) \in Nat \ {0}
      /\ \A i \in 1..Len(Tail(s)) : Tail(s)[i] = s[i + 1]
      /\ Head(s) = s[1]
  BY HeadTailProperties
<1>2. Head(s) \in T => Has(s, T)
  BY <1>1 DEF Has
<1>3. ASSUME NEW k \in 1..Len(Tail(s)), Tail(s)[k] \in T
      PROVE  k + 1 \in 1..Len(s) /\ k + 1 # 1 /\ s[k + 1] \in T
  BY <1>1, <1>3
<1>4. Has(Tail(s), T) => Has(s, T)
  BY <1>3 DEF Has
<1>5. Once(s, T) => Once(Tail(s), T)
  <2> SUFFICES ASSUME Once(s, T),
                      NEW j \in 1..Len(Tail(s)), NEW k \in 1..Len(Tail(s)),
                      Tail(s)[j] \in T, Tail(s)[k] \in T
               PROVE  j = k
    BY DEF Once
  <2>1. j + 1 = k + 1
    BY <1>3 DEF Once
  <2> QED
    BY <2>1
<1>6. Once(s, T) /\ Head(s) \in T => ~Has(Tail(s), T)
  <2> SUFFICES ASSUME Once(s, T), Head(s) \in T, Has(Tail(s), T) PROVE FALSE
    OBVIOUS
  <2>1. PICK k \in 1..Len(Tail(s)) : Tail(s)[k] \in T
    BY DEF Has
  <2>2. k + 1 \in 1..Len(s) /\ 1 \in 1..Len(s) /\ k + 1 # 1 /\ s[k + 1] \in T /\ s[1] \in T
    BY <1>1, <1>3, <2>1
  <2> QED
    BY <2>2 DEF Once
<1>7. Has(s, T) => Has(Tail(s), T) \/ Head(s) \in T
  <2> SUFFICES ASSUME NEW k \in 1..Len(s), s[k] \in T, k # 1
               PROVE  Has(Tail(s), T)
    BY <1>1 DEF Has
  <2>1. k - 1 \in 1..Len(Tail(s)) /\ (k - 1) + 1 = k
    BY <1>1
  <2>2. Tail(s)[k - 1] \in T
    BY <1>1, <2>1
  <2> QED
    BY <2>1, <2>2 DEF Has
<1> QED
  BY <1>1, <1>2, <1>4, <1>5, <1>6, <1>7

\* Adding to the end of a queue.
LEMMA HasAppend ==
    ASSUME NEW S, NEW s \in Seq(S), NEW m \in S, NEW T
    PROVE  /\ Has(Append(s, m), T) <=> Has(s, T) \/ m \in T
           /\ Once(s, T) /\ (m \in T => ~Has(s, T)) => Once(Append(s, m), T)
           /\ Append(s, m) \in Seq(S)
<1>1. /\ Append(s, m) \in Seq(S)
      /\ Len(Append(s, m)) = Len(s) + 1 /\ Len(s) \in Nat
      /\ \A i \in 1..Len(s) : Append(s, m)[i] = s[i]
      /\ Append(s, m)[Len(s) + 1] = m
  BY AppendProperties
<1>2. ASSUME NEW k \in 1..(Len(s) + 1), Append(s, m)[k] \in T
      PROVE  (k \in 1..Len(s) /\ s[k] \in T) \/ (k = Len(s) + 1 /\ m \in T)
  BY <1>1, <1>2
<1>3. Has(Append(s, m), T) => Has(s, T) \/ m \in T
  BY <1>1, <1>2 DEF Has
<1>4. Once(s, T) /\ (m \in T => ~Has(s, T)) => Once(Append(s, m), T)
  BY <1>1, <1>2 DEF Once, Has
<1>5. Has(s, T) \/ m \in T => Has(Append(s, m), T)
  <2>1. 1..Len(s) \subseteq 1..Len(Append(s, m)) /\ Len(s) + 1 \in 1..Len(Append(s, m))
    BY <1>1
  <2> QED
    BY <1>1, <2>1 DEF Has
<1> QED
  BY <1>1, <1>3, <1>4, <1>5

-----------------------------------------------------------------------------
(* Where requests are *)

Msgs == FromClient \cup FromWorker \cup ToClient \cup ToWorker \cup Pending

Flows == [Places -> Seq(Msgs)]

\* Nothing of the T[p] is at any place p, or one thing at one place.
Nowhere(F, T) == \A p \in Places : ~Has(F[p], T[p])
One(F, T) ==
    /\ \A p \in Places : Once(F[p], T[p])
    /\ \A p, q \in Places : Has(F[p], T[p]) /\ Has(F[q], T[q]) => p = q

Take(F, p) == [F EXCEPT ![p] = Tail(F[p])]
Put(F, p, m) == [F EXCEPT ![p] = Append(F[p], m)]

\* What is not there is in one place at most.
LEMMA NowhereOne ==
    ASSUME NEW F, NEW T, Nowhere(F, T)
    PROVE  One(F, T)
  BY DEF Nowhere, One, Has, Once

\* Steps that bring nothing of T anywhere.
LEMMA FlowFrame ==
    ASSUME NEW F, NEW G, NEW T,
           \A p \in Places : /\ Has(G[p], T[p]) => Has(F[p], T[p])
                             /\ Once(F[p], T[p]) => Once(G[p], T[p])
    PROVE  /\ One(F, T) => One(G, T)
           /\ Nowhere(F, T) => Nowhere(G, T)
  BY DEF One, Nowhere

\* A message is taken from the place p.
LEMMA FlowTake ==
    ASSUME NEW F \in Flows, NEW p \in Places, F[p] # <<>>, NEW T
    PROVE  /\ Take(F, p) \in Flows
           /\ Head(F[p]) \in Msgs
           /\ \A q \in Places : q # p => Take(F, p)[q] = F[q]
           /\ Take(F, p)[p] = Tail(F[p])
           /\ One(F, T) => One(Take(F, p), T)
           /\ Nowhere(F, T) => Nowhere(Take(F, p), T) /\ Head(F[p]) \notin T[p]
           /\ One(F, T) /\ Head(F[p]) \in T[p] => Nowhere(Take(F, p), T)
           /\ ~Nowhere(F, T) /\ Head(F[p]) \notin T[p] => ~Nowhere(Take(F, p), T)
<1> DEFINE G == Take(F, p)
<1>1. F[p] \in Seq(Msgs) /\ Tail(F[p]) \in Seq(Msgs) /\ Head(F[p]) \in Msgs
  BY HasTail DEF Flows
<1>2. G \in Flows /\ G[p] = Tail(F[p]) /\ \A q \in Places : q # p => G[q] = F[q]
  BY <1>1 DEF Flows, Take
<1>3. /\ Has(G[p], T[p]) => Has(F[p], T[p])
      /\ Head(F[p]) \in T[p] => Has(F[p], T[p])
      /\ Has(F[p], T[p]) => Has(G[p], T[p]) \/ Head(F[p]) \in T[p]
      /\ Once(F[p], T[p]) => Once(G[p], T[p])
      /\ Once(F[p], T[p]) /\ Head(F[p]) \in T[p] => ~Has(G[p], T[p])
  BY <1>1, <1>2, HasTail
<1> HIDE DEF G
<1>4. /\ One(F, T) => One(G, T)
      /\ Nowhere(F, T) => Nowhere(G, T)
  BY <1>2, <1>3, FlowFrame
<1>5. Nowhere(F, T) => Head(F[p]) \notin T[p]
  BY <1>3 DEF Nowhere
<1>6. One(F, T) /\ Head(F[p]) \in T[p] => Nowhere(G, T)
  BY <1>2, <1>3 DEF One, Nowhere
<1>7. ~Nowhere(F, T) /\ Head(F[p]) \notin T[p] => ~Nowhere(G, T)
  BY <1>2, <1>3 DEF Nowhere
<1> QED
  BY <1>1, <1>2, <1>4, <1>5, <1>6, <1>7 DEF G

\* A message is put at the place p.
LEMMA FlowPut ==
    ASSUME NEW F \in Flows, NEW p \in Places, NEW m \in Msgs, NEW T
    PROVE  /\ Put(F, p, m) \in Flows
           /\ \A q \in Places : q # p => Put(F, p, m)[q] = F[q]
           /\ Put(F, p, m)[p] = Append(F[p], m)
           /\ One(F, T) /\ (m \in T[p] => Nowhere(F, T)) => One(Put(F, p, m), T)
           /\ Nowhere(F, T) /\ m \notin T[p] => Nowhere(Put(F, p, m), T)
           /\ ~Nowhere(F, T) \/ m \in T[p] => ~Nowhere(Put(F, p, m), T)
<1> DEFINE G == Put(F, p, m)
<1>1. F[p] \in Seq(Msgs) /\ Append(F[p], m) \in Seq(Msgs)
  BY HasAppend DEF Flows
<1>2. G \in Flows /\ G[p] = Append(F[p], m) /\ \A q \in Places : q # p => G[q] = F[q]
  BY <1>1 DEF Flows, Put
<1>3. /\ Has(G[p], T[p]) <=> Has(F[p], T[p]) \/ m \in T[p]
      /\ Once(F[p], T[p]) /\ (m \in T[p] => ~Has(F[p], T[p])) => Once(G[p], T[p])
  BY <1>1, <1>2, HasAppend
<1> HIDE DEF G
<1>4. One(F, T) /\ (m \in T[p] => Nowhere(F, T)) => One(G, T)
  BY <1>2, <1>3 DEF One, Nowhere
<1>5. Nowhere(F, T) /\ m \notin T[p] => Nowhere(G, T)
  BY <1>2, <1>3 DEF Nowhere
<1>6. ~Nowhere(F, T) \/ m \in T[p] => ~Nowhere(G, T)
  BY <1>2, <1>3 DEF Nowhere
<1> QED
  BY <1>1, <1>2, <1>4, <1>5, <1>6 DEF G

-----------------------------------------------------------------------------
(* Lists of workers *)

\* A set of numbers has a smallest one.
LEMMA SmallestExists ==
    ASSUME NEW S \in SUBSET Nat, S # {}
    PROVE  \E k \in S : \A j \in S : k <= j
<1>1. \E x \in S : \A y \in S : ~(<<y, x>> \in OpToRel(<, Nat))
  BY NatLessThanWellFounded, WFMin
<1>2. PICK x \in S : \A y \in S : ~(y < x)
  BY <1>1 DEF OpToRel
<1> QED
  BY <1>2

\* r is list without its entry k.
Cut(list, k, r) ==
    /\ Len(r) = Len(list) - 1
    /\ \A i \in 1..(Len(list) - 1) : r[i] = IF i < k THEN list[i] ELSE list[i + 1]

\* Leaving out one entry of a list keeps the others and their order.
LEMMA CutFacts ==
    ASSUME NEW S, NEW list \in Seq(S), NEW k \in 1..Len(list), NEW r \in Seq(S),
           Cut(list, k, r)
    PROVE  /\ ToSet(r) \subseteq ToSet(list)
           /\ \A x \in ToSet(list) : x # list[k] => x \in ToSet(r)
           /\ \A x, y : Precedes(r, x, y) => Precedes(list, x, y)
           /\ \A x, y : Precedes(list, x, y) /\ x # list[k] /\ y # list[k]
                        => Precedes(r, x, y)
           /\ IsInjective(list) => IsInjective(r) /\ list[k] \notin ToSet(r)
<1>1. /\ Len(list) \in Nat /\ DOMAIN list = 1..Len(list)
      /\ Len(r) = Len(list) - 1 /\ DOMAIN r = 1..Len(r)
  BY DEF Cut
<1>2. ASSUME NEW i \in 1..Len(r)
      PROVE  \E j \in 1..Len(list) :
                j # k /\ r[i] = list[j] /\ j = IF i < k THEN i ELSE i + 1
  <2>1. r[i] = IF i < k THEN list[i] ELSE list[i + 1]
    BY <1>1 DEF Cut
  <2>2. i \in 1..Len(list) /\ i + 1 \in 1..Len(list)
    BY <1>1
  <2>3. CASE i < k
    BY <2>1, <2>2, <2>3
  <2>4. CASE ~(i < k)
    <3>1. i + 1 # k
      BY <1>1, <2>4
    <3> QED
      BY <2>1, <2>2, <2>4, <3>1
  <2> QED
    BY <2>3, <2>4
<1>3. ASSUME NEW j \in 1..Len(list), j # k
      PROVE  \E i \in 1..Len(r) : r[i] = list[j] /\ i = IF j < k THEN j ELSE j - 1
  <2>1. CASE j < k
    <3>1. j \in 1..(Len(list) - 1)
      BY <1>1, <2>1
    <3> QED
      BY <1>1, <2>1, <3>1 DEF Cut
  <2>2. CASE ~(j < k)
    <3>1. j - 1 \in 1..(Len(list) - 1) /\ ~(j - 1 < k) /\ (j - 1) + 1 = j
      BY <1>1, <1>3, <2>2
    <3>2. r[j - 1] = list[j]
      BY <3>1 DEF Cut
    <3> QED
      BY <1>1, <2>2, <3>1, <3>2
  <2> QED
    BY <2>1, <2>2
<1>4. ToSet(r) \subseteq ToSet(list)
  BY <1>1, <1>2 DEF ToSet
<1>5. \A x \in ToSet(list) : x # list[k] => x \in ToSet(r)
  BY <1>1, <1>3 DEF ToSet
<1>6. ASSUME NEW x, NEW y, Precedes(r, x, y) PROVE Precedes(list, x, y)
  <2>1. PICK i, j \in 1..Len(r) : i < j /\ r[i] = x /\ r[j] = y
    BY <1>1, <1>6 DEF Precedes
  <2>2. PICK a \in 1..Len(list) : r[i] = list[a] /\ a = IF i < k THEN i ELSE i + 1
    BY <1>2
  <2>3. PICK b \in 1..Len(list) : r[j] = list[b] /\ b = IF j < k THEN j ELSE j + 1
    BY <1>2
  <2>4. a < b
    BY <1>1, <2>1, <2>2, <2>3
  <2> QED
    BY <1>1, <2>1, <2>2, <2>3, <2>4 DEF Precedes
<1>7. ASSUME NEW x, NEW y, Precedes(list, x, y), x # list[k], y # list[k]
      PROVE  Precedes(r, x, y)
  <2>1. PICK i, j \in 1..Len(list) : i < j /\ list[i] = x /\ list[j] = y
    BY <1>1, <1>7 DEF Precedes
  <2>2. i # k /\ j # k
    BY <1>7, <2>1
  <2>3. PICK a \in 1..Len(r) : r[a] = list[i] /\ a = IF i < k THEN i ELSE i - 1
    BY <1>3, <2>2
  <2>4. PICK b \in 1..Len(r) : r[b] = list[j] /\ b = IF j < k THEN j ELSE j - 1
    BY <1>3, <2>2
  <2>5. a < b
    BY <1>1, <2>1, <2>2, <2>3, <2>4
  <2> QED
    BY <1>1, <2>1, <2>3, <2>4, <2>5 DEF Precedes
<1>8. ASSUME IsInjective(list) PROVE IsInjective(r) /\ list[k] \notin ToSet(r)
  <2>1. \A i, j \in 1..Len(list) : list[i] = list[j] => i = j
    BY <1>1, <1>8 DEF IsInjective
  <2>2. ASSUME NEW i \in 1..Len(r), NEW j \in 1..Len(r), r[i] = r[j] PROVE i = j
    <3>1. PICK a \in 1..Len(list) : r[i] = list[a] /\ a = IF i < k THEN i ELSE i + 1
      BY <1>2
    <3>2. PICK b \in 1..Len(list) : r[j] = list[b] /\ b = IF j < k THEN j ELSE j + 1
      BY <1>2
    <3>3. a = b
      BY <2>1, <2>2, <3>1, <3>2
    <3> QED
      BY <1>1, <3>1, <3>2, <3>3
  <2>3. \A i \in 1..Len(r) : r[i] # list[k]
    BY <1>2, <2>1
  <2> QED
    BY <1>1, <2>2, <2>3 DEF IsInjective, ToSet
<1> QED
  BY <1>4, <1>5, <1>6, <1>7, <1>8

\* RemoveAt leaves out one entry.
LEMMA RemoveAtFacts ==
    ASSUME NEW S, NEW list \in Seq(S), NEW k \in 1..Len(list)
    PROVE  RemoveAt(list, k) \in Seq(S) /\ Cut(list, k, RemoveAt(list, k))
<1> DEFINE a == SubSeq(list, 1, k - 1)
           b == SubSeq(list, k + 1, Len(list))
<1>1. Len(list) \in Nat /\ \A i \in 1..Len(list) : list[i] \in S
  OBVIOUS
<1>2. /\ a \in Seq(S) /\ Len(a) = k - 1
      /\ \A i \in 1..(k - 1) : a[i] = list[i]
  <2>1. \A i \in 1..(k - 1) : list[i] \in S
    BY <1>1
  <2>2. /\ SubSeq(list, 1, k - 1) \in Seq(S)
        /\ Len(SubSeq(list, 1, k - 1)) = IF 1 <= k - 1 THEN k - 1 - 1 + 1 ELSE 0
        /\ \A i \in 1..(k - 1 - 1 + 1) : SubSeq(list, 1, k - 1)[i] = list[1 + i - 1]
    BY <1>1, <2>1, SubSeqProperties
  <2> QED
    BY <1>1, <2>2
<1>3. /\ b \in Seq(S) /\ Len(b) = Len(list) - k
      /\ \A i \in 1..(Len(list) - k) : b[i] = list[k + i]
  <2>1. \A i \in (k + 1)..Len(list) : list[i] \in S
    BY <1>1
  <2>2. /\ SubSeq(list, k + 1, Len(list)) \in Seq(S)
        /\ Len(SubSeq(list, k + 1, Len(list)))
             = IF k + 1 <= Len(list) THEN Len(list) - (k + 1) + 1 ELSE 0
        /\ \A i \in 1..(Len(list) - (k + 1) + 1) :
              SubSeq(list, k + 1, Len(list))[i] = list[(k + 1) + i - 1]
    BY <1>1, <2>1, SubSeqProperties
  <2>3. \A i \in 1..(Len(list) - k) : (k + 1) + i - 1 = k + i /\ i \in 1..(Len(list) - (k + 1) + 1)
    BY <1>1
  <2> QED
    BY <1>1, <2>2, <2>3
<1>4. RemoveAt(list, k) = a \o b
  BY DEF RemoveAt
<1> HIDE DEF a, b
<1>5. /\ a \o b \in Seq(S) /\ Len(a \o b) = Len(list) - 1
      /\ \A i \in 1..(Len(list) - 1) : (a \o b)[i] = IF i <= Len(a) THEN a[i] ELSE b[i - Len(a)]
  BY <1>1, <1>2, <1>3, ConcatProperties
<1>6. ASSUME NEW i \in 1..(Len(list) - 1)
      PROVE  (a \o b)[i] = IF i < k THEN list[i] ELSE list[i + 1]
  <2>1. CASE i < k
    BY <1>1, <1>2, <1>5, <2>1
  <2>2. CASE ~(i < k)
    <3>1. i - (k - 1) \in 1..(Len(list) - k) /\ k + (i - (k - 1)) = i + 1
      BY <1>1, <2>2
    <3>2. b[i - (k - 1)] = list[i + 1]
      BY <1>3, <3>1
    <3> QED
      BY <1>1, <1>2, <1>5, <2>2, <3>2
  <2> QED
    BY <2>1, <2>2
<1> QED
  BY <1>4, <1>5, <1>6 DEF Cut

\* zlist_remove.
LEMMA RemoveFirstFacts ==
    ASSUME NEW S, NEW list \in Seq(S), NEW w, NEW r, r = RemoveFirst(list, w)
    PROVE  /\ r \in Seq(S) /\ Len(r) <= Len(list)
           /\ ToSet(r) \subseteq ToSet(list)
           /\ \A x \in ToSet(list) : x # w => x \in ToSet(r)
           /\ \A x, y : Precedes(r, x, y) => Precedes(list, x, y)
           /\ \A x, y : Precedes(list, x, y) /\ x # w /\ y # w => Precedes(r, x, y)
           /\ IsInjective(list) => IsInjective(r) /\ w \notin ToSet(r)
           /\ w \notin ToSet(list) => r = list
<1> DEFINE I == {i \in 1..Len(list) : list[i] = w}
<1>1. CASE I = {}
  <2>1. r = list
    BY <1>1 DEF RemoveFirst
  <2>2. w \notin ToSet(list)
    BY <1>1 DEF ToSet
  <2> QED
    BY <2>1, <2>2
<1>2. CASE I # {}
  <2>0. I \in SUBSET Nat
    OBVIOUS
  <2>1. PICK k \in I : \A j \in I : k <= j
    BY <1>2, <2>0, SmallestExists, Zenon
  <2>2. Min(I) \in I
    BY <2>1 DEF Min
  <2>3. SelectInSeq(list, LAMBDA v : v = w) = Min(I)
    BY <1>2 DEF SelectInSeq
  <2>4. r = RemoveAt(list, Min(I))
    BY <1>2, <2>3 DEF RemoveFirst
  <2>5. r \in Seq(S) /\ Cut(list, Min(I), r) /\ list[Min(I)] = w
    BY <2>2, <2>4, RemoveAtFacts
  <2>6. Len(r) <= Len(list) /\ w \in ToSet(list)
    BY <2>2, <2>5 DEF Cut, ToSet
  <2>7. Min(I) \in 1..Len(list)
    BY <2>2
  <2> HIDE DEF I
  <2>8. /\ ToSet(r) \subseteq ToSet(list)
        /\ \A x \in ToSet(list) : x # w => x \in ToSet(r)
        /\ \A x, y : Precedes(r, x, y) => Precedes(list, x, y)
        /\ \A x, y : Precedes(list, x, y) /\ x # w /\ y # w => Precedes(r, x, y)
        /\ IsInjective(list) => IsInjective(r) /\ w \notin ToSet(r)
    BY <2>5, <2>7, CutFacts
  <2> QED
    BY <2>5, <2>6, <2>8
<1> QED
  BY <1>1, <1>2

\* zlist_pop.
LEMMA TailFacts ==
    ASSUME NEW S, NEW list \in Seq(S), list # <<>>
    PROVE  /\ Tail(list) \in Seq(S) /\ Len(Tail(list)) = Len(list) - 1
           /\ Head(list) \in ToSet(list) /\ Head(list) \in S
           /\ ToSet(Tail(list)) \subseteq ToSet(list)
           /\ \A x \in ToSet(list) : x # Head(list) => x \in ToSet(Tail(list))
           /\ \A x, y : Precedes(Tail(list), x, y) => Precedes(list, x, y)
           /\ IsInjective(list) => Head(list) \notin ToSet(Tail(list))
<1>1. /\ Tail(list) \in Seq(S) /\ Head(list) \in S
      /\ Len(Tail(list)) = Len(list) - 1 /\ Len(list) \in Nat \ {0}
      /\ \A i \in 1..Len(Tail(list)) : Tail(list)[i] = list[i + 1]
      /\ Head(list) = list[1]
  BY HeadTailProperties
<1>2. Cut(list, 1, Tail(list)) /\ 1 \in 1..Len(list)
  BY <1>1 DEF Cut
<1>3. Head(list) \in ToSet(list)
  BY <1>1 DEF ToSet
<1>4. /\ ToSet(Tail(list)) \subseteq ToSet(list)
      /\ \A x \in ToSet(list) : x # list[1] => x \in ToSet(Tail(list))
      /\ \A x, y : Precedes(Tail(list), x, y) => Precedes(list, x, y)
      /\ IsInjective(list) => list[1] \notin ToSet(Tail(list))
  BY <1>1, <1>2, CutFacts, Zenon
<1> QED
  BY <1>1, <1>3, <1>4

\* zlist_append.
LEMMA AppendFacts ==
    ASSUME NEW S, NEW list \in Seq(S), NEW w \in S
    PROVE  /\ Append(list, w) \in Seq(S) /\ Len(Append(list, w)) = Len(list) + 1
           /\ ToSet(Append(list, w)) = ToSet(list) \cup {w}
           /\ \A x, y : Precedes(Append(list, w), x, y)
                         <=> Precedes(list, x, y) \/ (x \in ToSet(list) /\ y = w)
           /\ IsInjective(list) /\ w \notin ToSet(list) => IsInjective(Append(list, w))
<1> DEFINE r == Append(list, w)
           n == Len(list)
<1>1. /\ r \in Seq(S) /\ n \in Nat /\ Len(r) = n + 1
      /\ \A i \in 1..n : r[i] = list[i]
      /\ r[n + 1] = w
      /\ DOMAIN list = 1..n /\ DOMAIN r = 1..(n + 1)
  BY AppendProperties
<1> HIDE DEF r, n
<1>2. \A i \in 1..(n + 1) : i \in 1..n \/ i = n + 1
  BY <1>1
<1>3. 1..n \subseteq 1..(n + 1) /\ n + 1 \in 1..(n + 1) /\ \A i \in 1..n : i < n + 1
  BY <1>1
<1>4. ToSet(r) = ToSet(list) \cup {w}
  BY <1>1, <1>2, <1>3 DEF ToSet
<1>5. ASSUME NEW x, NEW y
      PROVE  Precedes(r, x, y) <=> Precedes(list, x, y) \/ (x \in ToSet(list) /\ y = w)
  <2>1. ASSUME NEW i \in 1..(n + 1), NEW j \in 1..(n + 1), i < j, r[i] = x, r[j] = y
        PROVE  Precedes(list, x, y) \/ (x \in ToSet(list) /\ y = w)
    <3>1. i \in 1..n
      BY <1>1, <2>1
    <3> QED
      BY <1>1, <1>2, <2>1, <3>1 DEF Precedes, ToSet
  <2>2. Precedes(r, x, y) => Precedes(list, x, y) \/ (x \in ToSet(list) /\ y = w)
    BY <1>1, <2>1 DEF Precedes
  <2>3. Precedes(list, x, y) => Precedes(r, x, y)
    BY <1>1, <1>3 DEF Precedes
  <2>4. x \in ToSet(list) /\ y = w => Precedes(r, x, y)
    BY <1>1, <1>3 DEF Precedes, ToSet
  <2> QED
    BY <2>2, <2>3, <2>4
<1>6. IsInjective(list) /\ w \notin ToSet(list) => IsInjective(r)
  BY <1>1, <1>2 DEF IsInjective, ToSet
<1> QED
  BY <1>1, <1>4, <1>5, <1>6 DEF r, n

-----------------------------------------------------------------------------
(* The functions of the broker *)

\* ListsAgree, for any state of the broker.
Lists(b) ==
    /\ IsInjective(b.waiting)
    /\ \A s \in Services :
          /\ ToSet(b.idle[s]) = {w \in ToSet(b.waiting) : b.service[w] = s}
          /\ \A v, w \in ToSet(b.idle[s]) :
                Precedes(b.idle[s], v, w) => Precedes(b.waiting, v, w)
          /\ b.workers[s] = Cardinality({w \in Ids : b.service[w] = s})
    /\ \A w \in ToSet(b.waiting) : b.service[w] # None

\* The fields of a broker have the types that Brokers gives them.
LEMMA BrokerFields ==
    ASSUME NEW b \in Brokers
    PROVE  /\ b = [service |-> b.service, waiting |-> b.waiting, idle |-> b.idle,
                   requests |-> b.requests, workers |-> b.workers, live |-> b.live,
                   pipe |-> b.pipe]
           /\ b.service \in [Ids -> Services \cup {None}]
           /\ b.waiting \in Seq(WorkerIds)
           /\ b.idle \in [Services -> Seq(WorkerIds)]
           /\ b.requests \in [Services -> Seq(Pending)]
           /\ b.workers \in [Services -> Int]
           /\ b.live \in Seq(WorkerIds)
           /\ b.pipe \in [Ids -> Seq(ToClient \cup ToWorker)]
  BY DEF Brokers

\* A socket is a worker's or a client's.
LEMMA IdFacts ==
    /\ WorkerIds \subseteq Ids /\ ClientIds \subseteq Ids
    /\ Ids = WorkerIds \cup ClientIds
    /\ WorkerIds \cap ClientIds = {}
    /\ IsFiniteSet(Ids)
<1>1. /\ WorkerIds \subseteq Ids /\ ClientIds \subseteq Ids
      /\ Ids = WorkerIds \cup ClientIds
      /\ WorkerIds \cap ClientIds = {}
  BY NetAssumption DEF WorkerIds, ClientIds, Ids, Processes
<1>2. IsFiniteSet(Ids)
  <2>1. IsFiniteSet(1..MaxSockets)
    BY NetAssumption, FS_Interval
  <2> QED
    BY <2>1, NetAssumption, FS_Product DEF Ids
<1> QED
  BY <1>1, <1>2

\* zmsg_send on the ROUTER.
Routed(b, id, m, r) ==
    /\ r \in Brokers
    /\ r.service = b.service /\ r.waiting = b.waiting /\ r.idle = b.idle
    /\ r.requests = b.requests /\ r.workers = b.workers /\ r.live = b.live
    /\ r.pipe = IF Connected(id)
                THEN [b.pipe EXCEPT ![id] = Append(b.pipe[id], m)] ELSE b.pipe

\* Route appends to one pipe, if its socket is connected.
LEMMA RouteFacts ==
    ASSUME NEW b \in Brokers, NEW id \in Ids, NEW m \in ToClient \cup ToWorker
    PROVE  Routed(b, id, m, Route(b, id, m))
<1>1. b.pipe[id] \in Seq(ToClient \cup ToWorker)
  BY BrokerFields
<1>2. Append(b.pipe[id], m) \in Seq(ToClient \cup ToWorker)
  BY <1>1, AppendFacts
<1>3. [b.pipe EXCEPT ![id] = Append(@, m)] \in [Ids -> Seq(ToClient \cup ToWorker)]
  BY <1>2, BrokerFields
<1> QED
  BY <1>3, BrokerFields DEF Routed, Route, Brokers

\* What s_worker_delete does to each field, without the message it may send.
Deleted(b, w, s, d) ==
    /\ d \in Brokers
    /\ d.service = [b.service EXCEPT ![w] = None]
    /\ d.waiting = RemoveFirst(b.waiting, w)
    /\ d.idle = IF s = None THEN b.idle
                ELSE [b.idle EXCEPT ![s] = RemoveFirst(b.idle[s], w)]
    /\ d.workers = IF s = None THEN b.workers
                   ELSE [b.workers EXCEPT ![s] = b.workers[s] - 1]
    /\ d.requests = b.requests /\ d.pipe = b.pipe

\* s_worker_delete, field by field.
LEMMA DeleteFields ==
    ASSUME NEW b \in Brokers, NEW w \in WorkerIds
    PROVE  Deleted(b, w, b.service[w], s_worker_delete(b, w, FALSE))
<1> PICK s : s = b.service[w]
  OBVIOUS
<1> PICK d : d = s_worker_delete(b, w, FALSE)
  BY Zenon
<1> DEFINE idle == [b.idle EXCEPT ![s] = RemoveFirst(b.idle[s], w)]
           workers == [b.workers EXCEPT ![s] = b.workers[s] - 1]
           service == [b.service EXCEPT ![w] = None]
           c == IF s = None THEN b ELSE [b EXCEPT !.idle = idle, !.workers = workers]
<1>1. w \in Ids /\ s \in Services \cup {None}
  BY IdFacts, BrokerFields
<1>2. RemoveFirst(b.waiting, w) \in Seq(WorkerIds) /\ RemoveFirst(b.live, w) \in Seq(WorkerIds)
  BY BrokerFields, RemoveFirstFacts
<1>3. s # None => idle \in [Services -> Seq(WorkerIds)] /\ workers \in [Services -> Int]
  <2>1. s # None => b.idle[s] \in Seq(WorkerIds)
    BY <1>1, BrokerFields
  <2>2. s # None => RemoveFirst(b.idle[s], w) \in Seq(WorkerIds)
    BY <2>1, RemoveFirstFacts
  <2> QED
    BY <1>1, <2>2, BrokerFields
<1>4. service \in [Ids -> Services \cup {None}]
  BY BrokerFields
<1>5. /\ c \in Brokers
      /\ c.service = b.service /\ c.waiting = b.waiting /\ c.live = b.live
      /\ c.idle = (IF s = None THEN b.idle ELSE idle)
      /\ c.workers = (IF s = None THEN b.workers ELSE workers)
      /\ c.requests = b.requests /\ c.pipe = b.pipe
  <2> HIDE DEF idle, workers
  <2>1. CASE s = None
    BY <2>1
  <2>2. CASE s # None
    BY <1>3, <2>2, BrokerFields DEF Brokers
  <2> QED
    BY <2>1, <2>2
<1>6. d = [c EXCEPT !.waiting = RemoveFirst(c.waiting, w),
                    !.live = RemoveFirst(c.live, w),
                    !.service = [c.service EXCEPT ![w] = None]]
  BY Zenon DEF s_worker_delete
<1> HIDE DEF c, idle, workers, service
<1>7. d = [c EXCEPT !.waiting = RemoveFirst(b.waiting, w),
                    !.live = RemoveFirst(b.live, w), !.service = service]
  BY <1>5, <1>6 DEF service
<1>8. d \in Brokers
  BY <1>2, <1>4, <1>5, <1>7 DEF Brokers
<1>9. /\ d.service = service /\ d.waiting = RemoveFirst(b.waiting, w)
      /\ d.idle = c.idle /\ d.workers = c.workers
      /\ d.requests = c.requests /\ d.pipe = c.pipe
  BY <1>5, <1>7 DEF Brokers
<1> QED
  <2>1. Deleted(b, w, s, d)
    BY <1>5, <1>8, <1>9 DEF Deleted, idle, workers, service
  <2> QED
    BY <2>1, Zenon

\* No worker is twice in the list of its service.
LEMMA IdleInjective ==
    ASSUME NEW b \in Brokers, Lists(b), NEW t \in Services
    PROVE  IsInjective(b.idle[t])
<1>1. b.waiting \in Seq(WorkerIds) /\ b.idle[t] \in Seq(WorkerIds)
  BY BrokerFields
<1>2. DOMAIN b.waiting = 1..Len(b.waiting) /\ DOMAIN b.idle[t] = 1..Len(b.idle[t])
  BY <1>1
<1>3. \A j, k \in DOMAIN b.waiting : j < k => b.waiting[j] # b.waiting[k]
  BY <1>2 DEF Lists, IsInjective
<1>4. \A v : ~Precedes(b.waiting, v, v)
  BY <1>3 DEF Precedes
<1>5. ASSUME NEW i \in DOMAIN b.idle[t], NEW j \in DOMAIN b.idle[t],
             b.idle[t][i] = b.idle[t][j], i < j
      PROVE  FALSE
  <2>1. b.idle[t][i] \in ToSet(b.idle[t])
    BY DEF ToSet
  <2>2. Precedes(b.idle[t], b.idle[t][i], b.idle[t][i])
    BY <1>5 DEF Precedes
  <2>3. \A v, w \in ToSet(b.idle[t]) :
          Precedes(b.idle[t], v, w) => Precedes(b.waiting, v, w)
    BY DEF Lists
  <2> QED
    BY <1>4, <2>1, <2>2, <2>3, Zenon
<1> QED
  BY <1>2, <1>5 DEF IsInjective

\* Deleting a worker keeps the lists in step.
LEMMA DeleteLists ==
    ASSUME NEW b \in Brokers, Lists(b), NEW w \in WorkerIds,
           NEW d, Deleted(b, w, b.service[w], d)
    PROVE  /\ d \in Brokers /\ Lists(d)
           /\ ToSet(d.waiting) \subseteq ToSet(b.waiting)
           /\ \A t \in Services : Len(d.idle[t]) <= Len(b.idle[t])
           /\ d.service = [b.service EXCEPT ![w] = None]
           /\ d.requests = b.requests /\ d.pipe = b.pipe
<1> PICK s : s = b.service[w]
  OBVIOUS
<1>1. /\ d \in Brokers
      /\ d.service = [b.service EXCEPT ![w] = None]
      /\ d.waiting = RemoveFirst(b.waiting, w)
      /\ d.idle = IF s = None THEN b.idle
                  ELSE [b.idle EXCEPT ![s] = RemoveFirst(b.idle[s], w)]
      /\ d.workers = IF s = None THEN b.workers
                     ELSE [b.workers EXCEPT ![s] = b.workers[s] - 1]
      /\ d.requests = b.requests /\ d.pipe = b.pipe
  BY DEF Deleted
<1>2. /\ w \in Ids /\ b.service \in [Ids -> Services \cup {None}]
      /\ b.waiting \in Seq(WorkerIds) /\ b.idle \in [Services -> Seq(WorkerIds)]
      /\ b.workers \in [Services -> Int] /\ s \in Services \cup {None}
  <2>1. w \in Ids
    BY IdFacts
  <2> QED
    BY <2>1, BrokerFields
<1>3. /\ d.waiting \in Seq(WorkerIds)
      /\ ToSet(d.waiting) \subseteq ToSet(b.waiting)
      /\ \A x \in ToSet(b.waiting) : x # w => x \in ToSet(d.waiting)
      /\ \A x, y : Precedes(b.waiting, x, y) /\ x # w /\ y # w
                   => Precedes(d.waiting, x, y)
      /\ IsInjective(b.waiting) => IsInjective(d.waiting) /\ w \notin ToSet(d.waiting)
  BY <1>1, <1>2, RemoveFirstFacts
<1>4. IsInjective(d.waiting) /\ w \notin ToSet(d.waiting)
  BY <1>3 DEF Lists
<1>5. ToSet(d.waiting) \subseteq Ids
  <2>1. \A k \in DOMAIN d.waiting : d.waiting[k] \in Ids
    BY <1>3, IdFacts
  <2> QED
    BY <2>1 DEF ToSet
<1>6. \A i \in Ids : d.service[i] = IF i = w THEN None ELSE b.service[i]
  BY <1>1, <1>2
<1>7. \A x \in ToSet(d.waiting) : d.service[x] # None
  BY <1>3, <1>4, <1>5, <1>6 DEF Lists
<1>8. ASSUME NEW t \in Services
      PROVE  /\ Len(d.idle[t]) <= Len(b.idle[t])
             /\ ToSet(d.idle[t]) = {v \in ToSet(d.waiting) : d.service[v] = t}
             /\ \A v, x \in ToSet(d.idle[t]) :
                   Precedes(d.idle[t], v, x) => Precedes(d.waiting, v, x)
             /\ d.workers[t] = Cardinality({v \in Ids : d.service[v] = t})
  <2> DEFINE N == {v \in Ids : b.service[v] = t}
             M == {v \in Ids : d.service[v] = t}
  <2>1. /\ ToSet(b.idle[t]) = {v \in ToSet(b.waiting) : b.service[v] = t}
        /\ \A v, x \in ToSet(b.idle[t]) :
              Precedes(b.idle[t], v, x) => Precedes(b.waiting, v, x)
        /\ b.workers[t] = Cardinality(N)
        /\ b.idle[t] \in Seq(WorkerIds)
    BY <1>2 DEF Lists
  <2>2. t # None
    BY NetAssumption
  <2>3. /\ Len(d.idle[t]) <= Len(b.idle[t])
        /\ ToSet(d.idle[t]) = ToSet(b.idle[t]) \ {w}
        /\ \A v, x : Precedes(d.idle[t], v, x) => Precedes(b.idle[t], v, x)
    <3>1. CASE s = t
      <4>1. d.idle[t] = RemoveFirst(b.idle[t], w)
        BY <1>1, <1>2, <2>2, <3>1
      <4>2. IsInjective(b.idle[t])
        BY IdleInjective
      <4> QED
        BY <2>1, <4>1, <4>2, RemoveFirstFacts
    <3>2. CASE s # t
      <4>1. d.idle[t] = b.idle[t]
        BY <1>1, <1>2, <3>2
      <4>2. w \notin ToSet(b.idle[t])
        BY <2>1, <3>2
      <4> QED
        BY <2>1, <4>1, <4>2
    <3> QED
      BY <3>1, <3>2
  <2>4. ToSet(d.idle[t]) = {v \in ToSet(d.waiting) : d.service[v] = t}
    BY <1>3, <1>4, <1>5, <1>6, <2>1, <2>3
  <2>5. \A v, x \in ToSet(d.idle[t]) : Precedes(d.idle[t], v, x) => Precedes(d.waiting, v, x)
    BY <1>3, <2>1, <2>3
  <2>6. M = N \ {w} /\ (w \in N <=> s = t)
    BY <1>2, <1>6, <2>2
  <2>7. IsFiniteSet(N)
    BY IdFacts, FS_Subset
  <2>8. Cardinality(M) = IF w \in N THEN Cardinality(N) - 1 ELSE Cardinality(N)
    BY <2>6, <2>7, FS_RemoveElement
  <2> HIDE DEF N, M
  <2>9. d.workers[t] = IF s = t THEN b.workers[t] - 1 ELSE b.workers[t]
    BY <1>1, <1>2, <2>2
  <2>10. d.workers[t] = Cardinality(M)
    BY <2>1, <2>6, <2>8, <2>9
  <2> QED
    BY <2>3, <2>4, <2>5, <2>10 DEF M
<1> QED
  BY <1>1, <1>3, <1>4, <1>7, <1>8 DEF Lists

\* What a purge may have done to the broker b.
Purged(b, d) ==
    /\ d \in Brokers /\ Lists(d)
    /\ ToSet(d.waiting) \subseteq ToSet(b.waiting)
    /\ \A t \in Services : Len(d.idle[t]) <= Len(b.idle[t])
    /\ \A i \in Ids : \/ d.service[i] = b.service[i]
                      \/ d.service[i] = None /\ i \in ToSet(b.waiting)
    /\ d.requests = b.requests /\ d.pipe = b.pipe

\* A step from one broker to the next, repeated, has the states it should.
Rounds(g, n, F, b) == g[0] = b /\ \A k \in 1..n : g[k] = F[k][g[k - 1]]

\* A loop that is a function of the round has a run of any length.
LEMMA LoopExists ==
    ASSUME NEW V, NEW n \in Nat, NEW F \in [1..n -> [V -> V]], NEW b \in V
    PROVE  \E g \in [0..n -> V] : Rounds(g, n, F, b)
<1> DEFINE P(m) == \E g \in [0..m -> V] : Rounds(g, m, F, b)
           Bad == {m \in 0..n : ~P(m)}
<1>1. P(0)
  <2>1. [k \in 0..0 |-> b] \in [0..0 -> V] /\ [k \in 0..0 |-> b][0] = b /\ 1..0 = {}
    OBVIOUS
  <2> QED
    BY <2>1 DEF Rounds
<1>2. SUFFICES ASSUME Bad # {} PROVE FALSE
  <2>1. n \in 0..n
    OBVIOUS
  <2> QED
    BY <2>1
<1>3. Bad \in SUBSET Nat
  OBVIOUS
<1>4. PICK m \in Bad : \A j \in Bad : m <= j
  BY <1>2, <1>3, SmallestExists, Zenon
<1>5. m \in 1..n /\ ~P(m)
  <2>1. m \in 0..n /\ ~P(m)
    BY <1>4, Zenon
  <2>2. m # 0
    BY <1>1, <2>1, Zenon
  <2> HIDE DEF P
  <2> QED
    BY <2>1, <2>2
<1>6. m - 1 \in 0..n /\ m - 1 < m
  BY <1>5
<1>7. P(m - 1)
  <2>1. m - 1 \notin Bad
    <3> SUFFICES ASSUME m - 1 \in Bad PROVE FALSE
      OBVIOUS
    <3>1. m <= m - 1
      BY <1>4, Zenon
    <3> QED
      BY <1>6, <3>1
  <2> QED
    BY <1>6, <2>1, Zenon
<1>8. PICK g \in [0..(m - 1) -> V] :
         g[0] = b /\ \A k \in 1..(m - 1) : g[k] = F[k][g[k - 1]]
  BY <1>7 DEF Rounds
<1> DEFINE h == [k \in 0..m |-> IF k = m THEN F[m][g[m - 1]] ELSE g[k]]
<1>9. h \in [0..m -> V]
  <2>1. m - 1 \in 0..(m - 1) /\ \A k \in 0..m : k = m \/ k \in 0..(m - 1)
    BY <1>5
  <2>2. g[m - 1] \in V /\ F[m] \in [V -> V]
    BY <1>5, <1>8, <2>1
  <2> QED
    BY <2>1, <2>2
<1>10. h[0] = b
  BY <1>5, <1>8
<1>11. ASSUME NEW k \in 1..m PROVE h[k] = F[k][h[k - 1]]
  <2>1. k - 1 \in 0..m /\ k - 1 # m /\ k \in 0..m
    BY <1>5
  <2>2. h[k - 1] = g[k - 1]
    BY <2>1
  <2>3. CASE k = m
    BY <2>1, <2>2, <2>3
  <2>4. CASE k # m
    <3>1. k \in 1..(m - 1)
      BY <1>5, <2>4
    <3> QED
      BY <1>8, <2>1, <2>2, <2>4, <3>1
  <2> QED
    BY <2>3, <2>4
<1>12. Rounds(h, m, F, b)
  BY <1>10, <1>11 DEF Rounds
<1> QED
  BY <1>5, <1>9, <1>12

\* What every step of a loop keeps holds at its end.
LEMMA LoopKeeps ==
    ASSUME NEW V, NEW n \in Nat, NEW f, f[0] \in V,
           \A k \in 1..n : f[k - 1] \in V => f[k] \in V
    PROVE  f[n] \in V
<1> DEFINE Bad == {k \in 0..n : f[k] \notin V}
<1>1. SUFFICES ASSUME Bad # {} PROVE FALSE
  <2>1. n \in 0..n
    OBVIOUS
  <2> QED
    BY <2>1
<1>2. Bad \in SUBSET Nat
  OBVIOUS
<1>3. PICK m \in Bad : \A j \in Bad : m <= j
  BY <1>1, <1>2, SmallestExists, Zenon
<1>4. m \in 0..n /\ f[m] \notin V
  BY <1>3
<1>5. m \in 1..n
  BY <1>4
<1>6. m - 1 \in 0..n /\ ~(m <= m - 1)
  BY <1>5
<1>7. m - 1 \notin Bad
  BY <1>3, <1>6
<1>8. f[m - 1] \in V
  BY <1>6, <1>7
<1> QED
  BY <1>4, <1>5, <1>8

\* A purge that finds nobody expired.
LEMMA PurgedRefl ==
    ASSUME NEW b \in Brokers, Lists(b)
    PROVE  Purged(b, b)
<1>1. \A t \in Services : Len(b.idle[t]) <= Len(b.idle[t])
  <2>1. \A t \in Services : b.idle[t] \in Seq(WorkerIds)
    BY BrokerFields
  <2> QED
    BY <2>1
<1> QED
  BY <1>1 DEF Purged

\* One round of the loop of s_broker_purge.
LEMMA PurgeStep ==
    ASSUME NEW b \in Brokers, NEW c, Purged(b, c), NEW w \in WorkerIds,
           w \in ToSet(b.waiting), NEW d, Deleted(c, w, c.service[w], d)
    PROVE  Purged(b, d)
<1>1. c \in Brokers /\ Lists(c)
  BY DEF Purged
<1>2. /\ d \in Brokers /\ Lists(d)
      /\ ToSet(d.waiting) \subseteq ToSet(c.waiting)
      /\ \A t \in Services : Len(d.idle[t]) <= Len(c.idle[t])
      /\ d.service = [c.service EXCEPT ![w] = None]
      /\ d.requests = c.requests /\ d.pipe = c.pipe
  BY <1>1, DeleteLists, Zenon
<1>3. \A t \in Services : Len(d.idle[t]) <= Len(b.idle[t])
  <2> TAKE t \in Services
  <2>1. b.idle[t] \in Seq(WorkerIds) /\ c.idle[t] \in Seq(WorkerIds) /\ d.idle[t] \in Seq(WorkerIds)
    BY <1>1, <1>2, BrokerFields
  <2>2. Len(d.idle[t]) <= Len(c.idle[t]) /\ Len(c.idle[t]) <= Len(b.idle[t])
    BY <1>2 DEF Purged
  <2> QED
    BY <2>1, <2>2
<1>4. c.service \in [Ids -> Services \cup {None}]
  BY <1>1, BrokerFields
<1>5. \A i \in Ids : d.service[i] = IF i = w THEN None ELSE c.service[i]
  BY <1>2, <1>4
<1> QED
  BY <1>2, <1>3, <1>5 DEF Purged

\* s_broker_purge.
LEMMA PurgeFacts ==
    ASSUME NEW b \in Brokers, Lists(b)
    PROVE  Purged(b, s_broker_purge(b))
<1> DEFINE alive == {i \in DOMAIN b.waiting : Contains(b.live, b.waiting[i])}
           n == IF alive = {} THEN Len(b.waiting) ELSE Min(alive) - 1
           V == {d \in Brokers : Purged(b, d)}
           Step(d, k) == s_worker_delete(d, b.waiting[k], FALSE)
           F == [k \in 1..n |-> [d \in V |-> Step(d, k)]]
<1>1. b.waiting \in Seq(WorkerIds) /\ DOMAIN b.waiting = 1..Len(b.waiting) /\ Len(b.waiting) \in Nat
  BY BrokerFields
<1>2. n \in Nat /\ n <= Len(b.waiting)
  <2>1. CASE alive = {}
    BY <1>1, <2>1
  <2>2. CASE alive # {}
    <3>1. alive \in SUBSET Nat
      BY <1>1
    <3>2. PICK k \in alive : \A j \in alive : k <= j
      BY <2>2, <3>1, SmallestExists, Zenon
    <3>3. Min(alive) \in alive
      BY <3>2, Zenon DEF Min
    <3> QED
      BY <1>1, <2>2, <3>3
  <2> QED
    BY <2>1, <2>2
<1> HIDE DEF alive, n
<1>3. ASSUME NEW k \in 1..n, NEW d \in V
      PROVE  Step(d, k) \in V
  <2>1. k \in 1..Len(b.waiting)
    BY <1>1, <1>2
  <2>2. b.waiting[k] \in WorkerIds /\ b.waiting[k] \in ToSet(b.waiting)
    BY <1>1, <2>1 DEF ToSet
  <2>3. Deleted(d, b.waiting[k], d.service[b.waiting[k]], Step(d, k))
    BY <2>2, DeleteFields, Zenon
  <2>4. Purged(b, Step(d, k))
    BY <2>2, <2>3, PurgeStep, Zenon
  <2> QED
    BY <2>4, Zenon DEF Purged
<1> HIDE DEF Step
<1>4. b \in V
  BY PurgedRefl
<1>5. F \in [1..n -> [V -> V]]
  BY <1>3
<1>6. PICK g \in [0..n -> V] : Rounds(g, n, F, b)
  <2> HIDE DEF V, F
  <2> QED
    BY <1>2, <1>4, <1>5, LoopExists, Zenon
<1> DEFINE E(h) == h = [k \in 0..n |-> IF k = 0 THEN b ELSE Step(h[k - 1], k)]
           f == CHOOSE h : E(h)
<1>7. E(g)
  <2>1. ASSUME NEW k \in 0..n PROVE g[k] = IF k = 0 THEN b ELSE Step(g[k - 1], k)
    <3>1. CASE k = 0
      BY <1>6, <3>1 DEF Rounds
    <3>2. CASE k # 0
      <4>1. k \in 1..n /\ k - 1 \in 0..n
        BY <1>2, <3>2
      <4>2. g[k - 1] \in V
        BY <1>6, <4>1
      <4> QED
        BY <1>6, <3>2, <4>1, <4>2 DEF Rounds
    <3> QED
      BY <3>1, <3>2
  <2> HIDE DEF V
  <2> QED
    BY <1>6, <2>1
<1>8. E(f)
  BY <1>7, Zenon
<1>9. s_broker_purge(b) = f[n]
  BY Zenon DEF s_broker_purge, Step, alive, n
<1>10. f[0] = b
  <2>1. 0 \in 0..n
    BY <1>2
  <2> QED
    BY <1>8, <2>1, Zenon
<1>11. \A k \in 1..n : f[k] = Step(f[k - 1], k)
  <2>1. \A k \in 1..n : k \in 0..n /\ k # 0
    BY <1>2
  <2> QED
    BY <1>8, <2>1, Zenon
<1> HIDE DEF f
<1>12. \A k \in 1..n : f[k - 1] \in V => f[k] \in V
  BY <1>3, <1>11, Zenon
<1>13. f[n] \in V
  BY <1>2, <1>4, <1>10, <1>12, LoopKeeps, Zenon
<1> QED
  BY <1>9, <1>13, Zenon

-----------------------------------------------------------------------------
(* Dispatching *)

\* s_service_dispatch gives the first request of s to the worker w.
Given(b, s, w, r, d) ==
    /\ d \in Brokers /\ Lists(d)
    /\ w \in WorkerIds /\ w \in ToSet(b.waiting) /\ b.service[w] = s
    /\ ToSet(d.waiting) = ToSet(b.waiting) \ {w}
    /\ r \in Pending /\ b.requests[s] # <<>> /\ r = Head(b.requests[s])
    /\ d.service = b.service
    /\ d.idle = [b.idle EXCEPT ![s] = Tail(b.idle[s])]
    /\ d.requests = [b.requests EXCEPT ![s] = Tail(b.requests[s])]
    /\ d.pipe = IF Connected(w)
                THEN [b.pipe EXCEPT ![w] = Append(b.pipe[w], RequestMsg(r.client, r.body))]
                ELSE b.pipe

\* One round of the loop of s_service_dispatch.
LEMMA DispatchOneFacts ==
    ASSUME NEW b \in Brokers, Lists(b), NEW s \in Services,
           b.idle[s] # <<>>, b.requests[s] # <<>>
    PROVE  Given(b, s, Head(b.idle[s]), Head(b.requests[s]), DispatchOne(b, s))
<1> PICK w : w = Head(b.idle[s])
  OBVIOUS
<1> PICK r : r = Head(b.requests[s])
  OBVIOUS
<1> PICK e : e = DispatchOne(b, s)
  OBVIOUS
<1>1. /\ b.idle \in [Services -> Seq(WorkerIds)] /\ b.requests \in [Services -> Seq(Pending)]
      /\ b.waiting \in Seq(WorkerIds) /\ b.live \in Seq(WorkerIds)
      /\ b.service \in [Ids -> Services \cup {None}] /\ b.workers \in [Services -> Int]
      /\ b.pipe \in [Ids -> Seq(ToClient \cup ToWorker)]
  BY BrokerFields
<1>2. b.idle[s] \in Seq(WorkerIds) /\ b.requests[s] \in Seq(Pending)
  BY <1>1
<1>3. /\ w \in WorkerIds /\ w \in ToSet(b.idle[s])
      /\ Tail(b.idle[s]) \in Seq(WorkerIds)
      /\ ToSet(Tail(b.idle[s])) \subseteq ToSet(b.idle[s])
      /\ \A x \in ToSet(b.idle[s]) : x # w => x \in ToSet(Tail(b.idle[s]))
      /\ \A x, y : Precedes(Tail(b.idle[s]), x, y) => Precedes(b.idle[s], x, y)
      /\ IsInjective(b.idle[s]) => w \notin ToSet(Tail(b.idle[s]))
  BY <1>2, TailFacts
<1>4. r \in Pending /\ Tail(b.requests[s]) \in Seq(Pending)
  BY <1>2, HeadTailProperties
<1> DEFINE idle == [b.idle EXCEPT ![s] = Tail(b.idle[s])]
           requests == [b.requests EXCEPT ![s] = Tail(b.requests[s])]
           waiting == RemoveFirst(b.waiting, w)
           live == RemoveFirst(b.live, w)
           m == RequestMsg(r.client, r.body)
           c == [b EXCEPT !.idle = idle, !.waiting = waiting, !.live = live,
                          !.requests = requests]
<1>5. /\ idle \in [Services -> Seq(WorkerIds)]
      /\ requests \in [Services -> Seq(Pending)]
      /\ live \in Seq(WorkerIds)
  BY <1>1, <1>3, <1>4, RemoveFirstFacts
<1>6. /\ waiting \in Seq(WorkerIds)
      /\ ToSet(waiting) \subseteq ToSet(b.waiting)
      /\ \A x \in ToSet(b.waiting) : x # w => x \in ToSet(waiting)
      /\ \A x, y : Precedes(b.waiting, x, y) /\ x # w /\ y # w => Precedes(waiting, x, y)
      /\ IsInjective(b.waiting) => IsInjective(waiting) /\ w \notin ToSet(waiting)
  BY <1>1, RemoveFirstFacts
<1>7. m \in ToClient \cup ToWorker
  BY <1>4 DEF Pending, ToWorker, RequestMsg
<1>8. e = Route(c, w, m)
  BY Zenon DEF DispatchOne
<1> HIDE DEF idle, requests, waiting, live, m
<1>9. /\ c \in Brokers
      /\ c.idle = idle /\ c.waiting = waiting /\ c.live = live /\ c.requests = requests
      /\ c.service = b.service /\ c.workers = b.workers /\ c.pipe = b.pipe
  BY <1>1, <1>5, <1>6 DEF Brokers
<1> HIDE DEF c
<1>10. w \in Ids
  BY <1>3, IdFacts
<1>r. Routed(c, w, m, e)
  BY <1>7, <1>8, <1>9, <1>10, RouteFacts, Zenon
<1>11. /\ e \in Brokers
       /\ e.idle = idle /\ e.waiting = waiting /\ e.requests = requests
       /\ e.service = b.service /\ e.workers = b.workers
       /\ e.pipe = IF Connected(w) THEN [b.pipe EXCEPT ![w] = Append(b.pipe[w], m)]
                   ELSE b.pipe
  BY <1>9, <1>r DEF Routed
<1>12. w \in ToSet(b.waiting) /\ b.service[w] = s
  BY <1>3 DEF Lists
<1>13. IsInjective(waiting) /\ w \notin ToSet(waiting)
  BY <1>6 DEF Lists
<1>14. ToSet(waiting) = ToSet(b.waiting) \ {w}
  BY <1>6, <1>13
<1>15. Lists(e)
  <2>1. \A x \in ToSet(e.waiting) : e.service[x] # None
    BY <1>11, <1>14 DEF Lists
  <2>2. ASSUME NEW t \in Services
        PROVE  /\ ToSet(e.idle[t]) = {v \in ToSet(e.waiting) : e.service[v] = t}
               /\ \A v, x \in ToSet(e.idle[t]) :
                     Precedes(e.idle[t], v, x) => Precedes(e.waiting, v, x)
               /\ e.workers[t] = Cardinality({v \in Ids : e.service[v] = t})
    <3>1. /\ ToSet(b.idle[t]) = {v \in ToSet(b.waiting) : b.service[v] = t}
          /\ \A v, x \in ToSet(b.idle[t]) :
                Precedes(b.idle[t], v, x) => Precedes(b.waiting, v, x)
          /\ b.workers[t] = Cardinality({v \in Ids : b.service[v] = t})
      BY DEF Lists
    <3>2. /\ ToSet(e.idle[t]) = ToSet(b.idle[t]) \ {w}
          /\ \A x, y : Precedes(e.idle[t], x, y) => Precedes(b.idle[t], x, y)
      <4>1. CASE t = s
        <5>1. e.idle[t] = Tail(b.idle[s])
          BY <1>1, <1>11, <4>1 DEF idle
        <5>2. IsInjective(b.idle[s])
          BY IdleInjective
        <5> QED
          BY <1>3, <4>1, <5>1, <5>2
      <4>2. CASE t # s
        <5>1. e.idle[t] = b.idle[t]
          BY <1>1, <1>11, <4>2 DEF idle
        <5>2. w \notin ToSet(b.idle[t])
          BY <1>12, <3>1, <4>2
        <5> QED
          BY <5>1, <5>2
      <4> QED
        BY <4>1, <4>2
    <3>3. ToSet(e.idle[t]) = {v \in ToSet(e.waiting) : e.service[v] = t}
      BY <1>11, <1>14, <3>1, <3>2
    <3>4. \A v, x \in ToSet(e.idle[t]) : Precedes(e.idle[t], v, x) => Precedes(e.waiting, v, x)
      BY <1>6, <1>11, <3>1, <3>2
    <3> QED
      BY <1>11, <3>1, <3>3, <3>4
  <2> QED
    BY <1>11, <1>13, <2>1, <2>2 DEF Lists
<1>16. Given(b, s, w, r, e)
  BY <1>3, <1>4, <1>11, <1>12, <1>14, <1>15 DEF Given, idle, requests, m
<1> QED
  BY <1>16, Zenon

Drained(b, s) == b.idle[s] = <<>> \/ b.requests[s] = <<>>

Dispatched(b, s, d) ==
    /\ d \in Brokers /\ Lists(d) /\ \A t \in Services : Drained(d, t)
    /\ \E c \in Brokers :
          /\ Purged(b, c)
          /\ d = c \/ \E w \in WorkerIds, r \in Pending : Given(c, s, w, r, d)

Queued(b, s, msgs) ==
    [b EXCEPT !.requests = [b.requests EXCEPT ![s] = b.requests[s] \o msgs]]

\* b is the broker with the new request in its queue.  A worker or a request
\* was alone in its list: one round empties it.
LEMMA DispatchFacts ==
    ASSUME NEW a \in Brokers, NEW s \in Services, NEW msgs, NEW b \in Brokers,
           b = Queued(a, s, msgs),
           Lists(b), \A t \in Services : t # s => Drained(b, t),
           Len(b.idle[s]) <= 1 \/ Len(b.requests[s]) <= 1
    PROVE  Dispatched(b, s, s_service_dispatch(a, s, msgs))
<1> PICK c : c = s_broker_purge(b)
  OBVIOUS
<1>1. Purged(b, c)
  BY PurgeFacts
<1>2. c \in Brokers /\ Lists(c) /\ c.requests = b.requests
  BY <1>1 DEF Purged
<1>3. /\ c.idle[s] \in Seq(WorkerIds) /\ c.requests[s] \in Seq(Pending)
      /\ b.idle[s] \in Seq(WorkerIds) /\ Len(c.idle[s]) <= Len(b.idle[s])
  <2>1. Len(c.idle[s]) <= Len(b.idle[s])
    BY <1>1 DEF Purged
  <2> QED
    BY <1>2, <2>1, BrokerFields
<1> DEFINE n == Min({Len(c.idle[s]), Len(c.requests[s])})
           e == DispatchOne(c, s)
<1>4. /\ n \in Nat /\ n <= 1
      /\ n = 0 <=> Drained(c, s)
  <2>1. /\ Len(c.idle[s]) \in Nat /\ Len(c.requests[s]) \in Nat
        /\ Len(c.idle[s]) <= 1 \/ Len(c.requests[s]) <= 1
    BY <1>2, <1>3
  <2> DEFINE D == {Len(c.idle[s]), Len(c.requests[s])}
  <2>2. \E k \in D : \A j \in D : k <= j
    BY <2>1
  <2>3. Min(D) \in D /\ \A j \in D : Min(D) <= j
    BY <2>2, Zenon DEF Min
  <2>4. /\ Len(c.idle[s]) = 0 <=> c.idle[s] = <<>>
        /\ Len(c.requests[s]) = 0 <=> c.requests[s] = <<>>
    BY <1>3, EmptySeq
  <2>5. PICK x, y : x = Len(c.idle[s]) /\ y = Len(c.requests[s])
    OBVIOUS
  <2>6. x \in Nat /\ y \in Nat /\ (x <= 1 \/ y <= 1) /\ (n = x \/ n = y) /\ n <= x /\ n <= y
    BY <2>1, <2>3, <2>5
  <2>7. n \in Nat /\ n <= 1 /\ (n = 0 <=> x = 0 \/ y = 0)
    <3> HIDE DEF n
    <3> QED
      BY <2>6
  <2> QED
    BY <2>4, <2>5, <2>7 DEF Drained
<1>5. ASSUME NEW t \in Services, t # s PROVE Drained(c, t)
  <2>1. b.idle[t] \in Seq(WorkerIds) /\ c.idle[t] \in Seq(WorkerIds) /\ Len(c.idle[t]) <= Len(b.idle[t])
    <3>1. Len(c.idle[t]) <= Len(b.idle[t])
      BY <1>1 DEF Purged
    <3> QED
      BY <1>2, <3>1, BrokerFields
  <2>2. Drained(b, t)
    BY <1>5
  <2>3. b.idle[t] = <<>> => Len(c.idle[t]) = 0
    BY <2>1
  <2>4. b.idle[t] = <<>> => c.idle[t] = <<>>
    BY <2>1, <2>3, EmptySeq
  <2> QED
    BY <1>2, <2>2, <2>4 DEF Drained
<1> DEFINE E(h) == h = [k \in 0..n |-> IF k = 0 THEN c ELSE DispatchOne(h[k - 1], s)]
           f == CHOOSE h : E(h)
           g == [k \in 0..n |-> IF k = 0 THEN c ELSE e]
<1>6. s_service_dispatch(a, s, msgs) = f[n]
  BY Zenon DEF s_service_dispatch, Queued
<1> HIDE DEF n
<1>7. E(g)
  <2>1. \A k \in 0..n : k # 0 => k - 1 = 0 /\ k - 1 \in 0..n
    BY <1>4
  <2>2. \A k \in 0..n : k # 0 => g[k - 1] = c
    BY <2>1, Zenon
  <2> QED
    BY <2>2, Zenon
<1>8. E(f)
  BY <1>7, Zenon
<1> HIDE DEF f, e
<1>9. f[n] = IF n = 0 THEN c ELSE e
  <2>1. n \in 0..n /\ 0 \in 0..n /\ (n # 0 => n - 1 = 0)
    BY <1>4
  <2>2. f[0] = c
    BY <1>8, <2>1, Zenon
  <2> QED
    BY <1>8, <2>1, <2>2, Zenon DEF e
<1>10. CASE n = 0
  <2>1. \A t \in Services : Drained(c, t)
    BY <1>4, <1>5, <1>10
  <2>2. Dispatched(b, s, c)
    BY <1>1, <1>2, <2>1 DEF Dispatched
  <2> QED
    BY <1>6, <1>9, <1>10, <2>2, Zenon
<1>11. CASE n # 0
  <2>1. c.idle[s] # <<>> /\ c.requests[s] # <<>>
    BY <1>4, <1>11 DEF Drained
  <2>2. PICK w, r : Given(c, s, w, r, e)
    BY <1>2, <2>1, DispatchOneFacts, Zenon DEF e
  <2>3. w \in WorkerIds /\ r \in Pending /\ e \in Brokers /\ Lists(e)
    BY <2>2 DEF Given
  <2>4. ASSUME NEW t \in Services PROVE Drained(e, t)
    <3>0. c.idle \in [Services -> Seq(WorkerIds)] /\ c.requests \in [Services -> Seq(Pending)]
      BY <1>2, BrokerFields
    <3>1. CASE t # s
      <4>1. e.idle[t] = c.idle[t] /\ e.requests[t] = c.requests[t]
        BY <2>2, <3>0, <3>1 DEF Given
      <4> QED
        BY <1>5, <3>1, <4>1 DEF Drained
    <3>2. CASE t = s
      <4>1. e.idle[t] = Tail(c.idle[s]) /\ e.requests[t] = Tail(c.requests[s])
        BY <2>2, <3>0, <3>2 DEF Given
      <4>2. /\ Len(c.idle[s]) <= 1 \/ Len(c.requests[s]) <= 1
            /\ Len(c.idle[s]) \in Nat /\ Len(c.requests[s]) \in Nat
        BY <1>2, <1>3
      <4>3. /\ Tail(c.idle[s]) \in Seq(WorkerIds) /\ Len(Tail(c.idle[s])) = Len(c.idle[s]) - 1
            /\ Tail(c.requests[s]) \in Seq(Pending)
            /\ Len(Tail(c.requests[s])) = Len(c.requests[s]) - 1
        BY <1>3, <2>1, HeadTailProperties
      <4>4. Len(Tail(c.idle[s])) = 0 \/ Len(Tail(c.requests[s])) = 0
        <5>1. Len(c.idle[s]) # 0 /\ Len(c.requests[s]) # 0
          BY <1>3, <2>1, EmptySeq
        <5>2. \A x, y \in Nat : x # 0 /\ y # 0 /\ (x <= 1 \/ y <= 1) => x - 1 = 0 \/ y - 1 = 0
          OBVIOUS
        <5>3. Len(c.idle[s]) - 1 = 0 \/ Len(c.requests[s]) - 1 = 0
          BY <4>2, <5>1, <5>2, Zenon
        <5> QED
          BY <4>3, <5>3, Zenon
      <4> QED
        BY <4>1, <4>3, <4>4, EmptySeq DEF Drained
    <3> QED
      BY <3>1, <3>2
  <2>5. Dispatched(b, s, e)
    BY <1>1, <1>2, <2>2, <2>3, <2>4, Zenon DEF Dispatched
  <2> QED
    BY <1>6, <1>9, <1>11, <2>5, Zenon
<1> QED
  BY <1>10, <1>11

-----------------------------------------------------------------------------
(* Messages *)

\* ListsAgree does not depend on requests, expiries and pipes.
LEMMA ListsSame ==
    ASSUME NEW b, NEW c, Lists(b), c.service = b.service, c.waiting = b.waiting,
           c.idle = b.idle, c.workers = b.workers
    PROVE  Lists(c)
  BY DEF Lists

\* s_service_dispatch (service, NULL) queues nothing.
LEMMA QueuedNothing ==
    ASSUME NEW b \in Brokers, NEW s \in Services
    PROVE  Queued(b, s, <<>>) = b
<1>1. b.requests \in [Services -> Seq(Pending)]
  BY BrokerFields
<1>2. b.requests[s] \o <<>> = b.requests[s]
  BY <1>1, ConcatEmptySeq
<1>3. [b.requests EXCEPT ![s] = b.requests[s] \o <<>>] = b.requests
  BY <1>1, <1>2
<1>4. [b EXCEPT !.requests = b.requests] = b
  BY DEF Brokers
<1> QED
  BY <1>3, <1>4, Zenon DEF Queued

\* s_worker_waiting, before it dispatches.
Joined(b, w, s, c) ==
    /\ c \in Brokers /\ Lists(c)
    /\ ToSet(c.waiting) = ToSet(b.waiting) \cup {w}
    /\ c.service = b.service /\ c.requests = b.requests /\ c.pipe = b.pipe

\* s_worker_waiting puts the worker in the lists and dispatches.
LEMMA WaitingFacts ==
    ASSUME NEW b \in Brokers, Lists(b), \A t \in Services : Drained(b, t),
           NEW w \in WorkerIds, w \notin ToSet(b.waiting), b.service[w] \in Services
    PROVE  \E c \in Brokers : /\ Joined(b, w, b.service[w], c)
                              /\ Dispatched(c, b.service[w], s_worker_waiting(b, w))
<1> PICK s \in Services : s = b.service[w]
  OBVIOUS
<1> DEFINE idle == [b.idle EXCEPT ![s] = Append(b.idle[s], w)]
           waiting == Append(b.waiting, w)
           live == Append(b.live, w)
           c == [b EXCEPT !.waiting = waiting, !.idle = idle, !.live = live]
<1>1. /\ b.idle \in [Services -> Seq(WorkerIds)] /\ b.requests \in [Services -> Seq(Pending)]
      /\ b.waiting \in Seq(WorkerIds) /\ b.live \in Seq(WorkerIds)
      /\ b.service \in [Ids -> Services \cup {None}] /\ b.workers \in [Services -> Int]
      /\ b.pipe \in [Ids -> Seq(ToClient \cup ToWorker)]
  BY BrokerFields
<1>2. b.idle[s] \in Seq(WorkerIds)
  BY <1>1
<1>3. /\ waiting \in Seq(WorkerIds)
      /\ ToSet(waiting) = ToSet(b.waiting) \cup {w}
      /\ \A x, y : Precedes(waiting, x, y)
                    <=> Precedes(b.waiting, x, y) \/ (x \in ToSet(b.waiting) /\ y = w)
      /\ IsInjective(b.waiting) /\ w \notin ToSet(b.waiting) => IsInjective(waiting)
  BY <1>1, AppendFacts
<1>4. /\ Append(b.idle[s], w) \in Seq(WorkerIds)
      /\ Len(Append(b.idle[s], w)) = Len(b.idle[s]) + 1
      /\ ToSet(Append(b.idle[s], w)) = ToSet(b.idle[s]) \cup {w}
      /\ \A x, y : Precedes(Append(b.idle[s], w), x, y)
                    <=> Precedes(b.idle[s], x, y) \/ (x \in ToSet(b.idle[s]) /\ y = w)
  BY <1>2, AppendFacts
<1>5. live \in Seq(WorkerIds) /\ idle \in [Services -> Seq(WorkerIds)]
  BY <1>1, <1>4, AppendFacts
<1>6. s_worker_waiting(b, w) = s_service_dispatch(c, s, <<>>)
  BY Zenon DEF s_worker_waiting
<1> HIDE DEF idle, waiting, live
<1>7. /\ c \in Brokers
      /\ c.idle = idle /\ c.waiting = waiting /\ c.requests = b.requests
      /\ c.service = b.service /\ c.workers = b.workers /\ c.pipe = b.pipe
  BY <1>1, <1>3, <1>5 DEF Brokers
<1> HIDE DEF c
<1>8. ASSUME NEW t \in Services
      PROVE  /\ ToSet(c.idle[t]) = {v \in ToSet(c.waiting) : c.service[v] = t}
             /\ \A v, x \in ToSet(c.idle[t]) :
                   Precedes(c.idle[t], v, x) => Precedes(c.waiting, v, x)
             /\ c.workers[t] = Cardinality({v \in Ids : c.service[v] = t})
             /\ t # s => c.idle[t] = b.idle[t]
  <2>1. /\ ToSet(b.idle[t]) = {v \in ToSet(b.waiting) : b.service[v] = t}
        /\ \A v, x \in ToSet(b.idle[t]) :
              Precedes(b.idle[t], v, x) => Precedes(b.waiting, v, x)
        /\ b.workers[t] = Cardinality({v \in Ids : b.service[v] = t})
    BY DEF Lists
  <2>2. CASE t = s
    <3>1. c.idle[t] = Append(b.idle[s], w)
      BY <1>1, <1>7, <2>2 DEF idle
    <3>2. ToSet(c.idle[t]) = {v \in ToSet(c.waiting) : c.service[v] = t}
      BY <1>3, <1>4, <1>7, <2>1, <2>2, <3>1
    <3>3. ASSUME NEW v \in ToSet(c.idle[t]), NEW x \in ToSet(c.idle[t]), Precedes(c.idle[t], v, x)
          PROVE  Precedes(c.waiting, v, x)
      <4>1. Precedes(b.idle[s], v, x) \/ (v \in ToSet(b.idle[s]) /\ x = w)
        BY <1>4, <3>1, <3>3
      <4>2. v \in ToSet(b.idle[s]) => v \in ToSet(b.waiting)
        BY <2>1, <2>2
      <4>3. ASSUME Precedes(b.idle[s], v, x) PROVE Precedes(b.waiting, v, x)
        <5>1. v \in ToSet(b.idle[s]) /\ x \in ToSet(b.idle[s])
          BY <4>3 DEF Precedes, ToSet
        <5> QED
          BY <2>1, <2>2, <4>3, <5>1
      <4> QED
        BY <1>3, <1>7, <4>1, <4>2, <4>3
    <3> QED
      BY <1>7, <2>1, <2>2, <3>2, <3>3
  <2>3. CASE t # s
    <3>1. c.idle[t] = b.idle[t]
      BY <1>1, <1>7, <2>3 DEF idle
    <3>2. ToSet(c.idle[t]) = {v \in ToSet(c.waiting) : c.service[v] = t}
      BY <1>3, <1>7, <2>1, <2>3, <3>1
    <3> QED
      BY <1>3, <1>7, <2>1, <2>3, <3>1, <3>2
  <2> QED
    BY <2>2, <2>3
<1>9. IsInjective(c.waiting)
  BY <1>3, <1>7 DEF Lists
<1>10. \A x \in ToSet(c.waiting) : c.service[x] # None
  <2>1. c.service[w] # None
    BY <1>7, NetAssumption
  <2> QED
    BY <1>3, <1>7, <2>1 DEF Lists
<1>11. Lists(c)
  BY <1>8, <1>9, <1>10 DEF Lists
<1>12. Joined(b, w, s, c)
  BY <1>3, <1>7, <1>11 DEF Joined
<1>13. \A t \in Services : t # s => Drained(c, t)
  BY <1>7, <1>8 DEF Drained
<1>14. Len(c.idle[s]) <= 1 \/ Len(c.requests[s]) <= 1
  <2>1. CASE b.idle[s] = <<>>
    <3>1. c.idle[s] = Append(b.idle[s], w)
      BY <1>1, <1>7 DEF idle
    <3> QED
      BY <1>4, <2>1, <3>1, EmptySeq
  <2>2. CASE b.requests[s] = <<>>
    <3>1. Len(c.requests[s]) = 0
      BY <1>7, <2>2
    <3> QED
      BY <3>1
  <2> QED
    BY <2>1, <2>2 DEF Drained
<1>15. c = Queued(c, s, <<>>)
  BY <1>7, QueuedNothing
<1>16. Dispatched(c, s, s_service_dispatch(c, s, <<>>))
  BY <1>7, <1>11, <1>13, <1>14, <1>15, DispatchFacts, Zenon
<1> QED
  BY <1>6, <1>7, <1>12, <1>16, Zenon

\* What holds of the broker between two messages.
Sound(b) == b \in Brokers /\ Lists(b) /\ \A t \in Services : Drained(b, t)

\* A dispatch leaves no request beside a waiting worker.
LEMMA DispatchedSound ==
    ASSUME NEW b, NEW s, NEW d, Dispatched(b, s, d)
    PROVE  Sound(d)
  BY DEF Dispatched, Sound

\* The broker b before a dispatch that leads to d.
Served(b, w, s, d) ==
    \E c \in Brokers : Joined(b, w, s, c) /\ Dispatched(c, s, d)

Registered(b, w, s, c) ==
    /\ Sound(c)
    /\ c.service = [b.service EXCEPT ![w] = s]
    /\ c.waiting = b.waiting /\ c.requests = b.requests /\ c.pipe = b.pipe

\* The part of READY that creates the worker.
LEMMA RegisterFacts ==
    ASSUME NEW b, Sound(b), NEW w \in WorkerIds, b.service[w] = None, NEW s \in Services
    PROVE  Registered(b, w, s, [b EXCEPT !.service = [b.service EXCEPT ![w] = s],
                                         !.workers = [b.workers EXCEPT ![s] = b.workers[s] + 1]])
<1> DEFINE service == [b.service EXCEPT ![w] = s]
           workers == [b.workers EXCEPT ![s] = b.workers[s] + 1]
           c == [b EXCEPT !.service = service, !.workers = workers]
<1>0. b \in Brokers /\ Lists(b)
  BY DEF Sound
<1>1. /\ b.service \in [Ids -> Services \cup {None}] /\ b.workers \in [Services -> Int]
      /\ b.waiting \in Seq(WorkerIds)
  BY <1>0, BrokerFields
<1>2. w \in Ids /\ s # None
  BY IdFacts, NetAssumption
<1>3. service \in [Ids -> Services \cup {None}] /\ workers \in [Services -> Int]
  <2>1. b.workers[s] + 1 \in Int
    BY <1>1
  <2>2. workers \in [Services -> Int]
    BY <1>1, <2>1
  <2>3. service \in [Ids -> Services \cup {None}]
    BY <1>1
  <2> QED
    BY <2>2, <2>3
<1>4. \A i \in Ids : service[i] = IF i = w THEN s ELSE b.service[i]
  BY <1>1, <1>2
<1>5. \A t \in Services : workers[t] = IF t = s THEN b.workers[t] + 1 ELSE b.workers[t]
  BY <1>1
<1> HIDE DEF service, workers
<1>6. /\ c \in Brokers
      /\ c.service = service /\ c.workers = workers
      /\ c.waiting = b.waiting /\ c.idle = b.idle
      /\ c.requests = b.requests /\ c.pipe = b.pipe
  BY <1>0, <1>3 DEF Brokers
<1> HIDE DEF c
<1>7. w \notin ToSet(b.waiting)
  BY <1>0 DEF Lists
<1>8. ToSet(b.waiting) \subseteq Ids
  <2>1. \A k \in DOMAIN b.waiting : b.waiting[k] \in Ids
    BY <1>1, IdFacts
  <2> QED
    BY <2>1 DEF ToSet
<1>9. \A x \in ToSet(b.waiting) : c.service[x] = b.service[x]
  BY <1>4, <1>6, <1>7, <1>8
<1>10. ASSUME NEW t \in Services
       PROVE  c.workers[t] = Cardinality({v \in Ids : c.service[v] = t})
  <2> DEFINE N == {v \in Ids : b.service[v] = t}
             M == {v \in Ids : c.service[v] = t}
  <2>1. M = (IF t = s THEN N \cup {w} ELSE N) /\ w \notin N
    BY <1>2, <1>4, <1>6, NetAssumption
  <2>2. IsFiniteSet(N)
    BY IdFacts, FS_Subset
  <2>3. Cardinality(N \cup {w}) = Cardinality(N) + 1
    BY <2>1, <2>2, FS_AddElement
  <2>4. b.workers[t] = Cardinality(N)
    BY <1>0 DEF Lists
  <2> HIDE DEF N, M
  <2>5. c.workers[t] = Cardinality(M)
    BY <1>5, <1>6, <2>1, <2>3, <2>4
  <2> QED
    BY <2>5 DEF M
<1>11. \A t \in Services : ToSet(c.idle[t]) = {v \in ToSet(c.waiting) : c.service[v] = t}
  <2> TAKE t \in Services
  <2>1. ToSet(b.idle[t]) = {v \in ToSet(b.waiting) : b.service[v] = t}
    BY <1>0 DEF Lists
  <2>2. {v \in ToSet(b.waiting) : b.service[v] = t} = {v \in ToSet(b.waiting) : c.service[v] = t}
    BY <1>9
  <2> QED
    BY <1>6, <2>1, <2>2
<1>12. Lists(c)
  BY <1>0, <1>6, <1>9, <1>10, <1>11 DEF Lists
<1>13. Sound(c)
  BY <1>6, <1>12 DEF Sound, Drained
<1> QED
  BY <1>6, <1>13, Zenon DEF Registered, c, service, workers

\* s_worker_waiting, from a sound broker.
LEMMA ServedFacts ==
    ASSUME NEW b, Sound(b), NEW w \in WorkerIds, w \notin ToSet(b.waiting),
           b.service[w] \in Services
    PROVE  Served(b, w, b.service[w], s_worker_waiting(b, w))
  BY WaitingFacts, Zenon DEF Sound, Served

\* The two ways to make a worker available, and the two that do not.
LEMMA HeardReady ==
    ASSUME NEW b, Sound(b), NEW w \in WorkerIds, NEW msg, msg.kind = "READY",
           msg.service \in Services, b.service[w] = None
    PROVE  \E c : /\ Registered(b, w, msg.service, c)
                  /\ Served(c, w, msg.service, s_broker_worker_msg(b, w, msg))
<1> PICK s \in Services : s = msg.service
  OBVIOUS
<1> DEFINE c == [b EXCEPT !.service = [b.service EXCEPT ![w] = s],
                          !.workers = [b.workers EXCEPT ![s] = b.workers[s] + 1]]
<1>1. Registered(b, w, s, c)
  BY RegisterFacts, Zenon
<1>2. s_broker_worker_msg(b, w, msg) = s_worker_waiting(c, w)
  <2>1. msg.kind # "REPLY" /\ msg.kind # "HEARTBEAT" /\ msg.kind # "DISCONNECT"
    OBVIOUS
  <2> QED
    BY <2>1, Zenon DEF s_broker_worker_msg
<1> HIDE DEF c
<1>3. c.service[w] = s /\ c.waiting = b.waiting /\ Sound(c)
  <2>1. b.service \in [Ids -> Services \cup {None}] /\ w \in Ids
    BY BrokerFields, IdFacts DEF Sound
  <2> QED
    BY <1>1, <2>1 DEF Registered
<1>4. w \notin ToSet(c.waiting)
  BY <1>3 DEF Sound, Lists
<1> QED
  BY <1>1, <1>2, <1>3, <1>4, ServedFacts, Zenon

\* Pipes and expiries do not matter for Sound.
LEMMA SoundSame ==
    ASSUME NEW b, Sound(b), NEW c \in Brokers, c.service = b.service, c.waiting = b.waiting,
           c.idle = b.idle, c.workers = b.workers, c.requests = b.requests
    PROVE  Sound(c)
<1>1. Lists(c)
  BY ListsSame DEF Sound
<1> QED
  BY <1>1 DEF Sound, Drained

\* Sending a message keeps a broker sound.
LEMMA RoutedSound ==
    ASSUME NEW b, Sound(b), NEW id, NEW m, NEW c, Routed(b, id, m, c)
    PROVE  Sound(c)
  BY SoundSame DEF Routed

\* REPLY: the answer goes to the client, the worker waits again.
LEMMA HeardReply ==
    ASSUME NEW b, Sound(b), NEW w \in WorkerIds, NEW msg, msg.kind = "REPLY",
           msg.client \in ClientIds, msg.body \in Bodies, b.service[w] # None,
           w \notin ToSet(b.waiting)
    PROVE  \E c : /\ Routed(b, msg.client, AnswerMsg(b.service[w], msg.body), c)
                  /\ Served(c, w, b.service[w], s_broker_worker_msg(b, w, msg))
<1> DEFINE m == AnswerMsg(b.service[w], msg.body)
           c == Route(b, msg.client, m)
<1>1. b.service[w] \in Services /\ b \in Brokers
  <2>1. b.service \in [Ids -> Services \cup {None}] /\ w \in Ids
    BY BrokerFields, IdFacts DEF Sound
  <2> QED
    BY <2>1 DEF Sound
<1>2. m \in ToClient \cup ToWorker
  BY <1>1 DEF ToClient, AnswerMsg, Names
<1> HIDE DEF m
<1>3. Routed(b, msg.client, m, c)
  <2>1. msg.client \in Ids
    BY IdFacts
  <2> QED
    BY <1>1, <1>2, <2>1, RouteFacts, Zenon
<1>4. s_broker_worker_msg(b, w, msg) = s_worker_waiting(c, w)
  <2>1. msg.kind # "READY" /\ msg.kind # "HEARTBEAT" /\ msg.kind # "DISCONNECT"
    OBVIOUS
  <2> QED
    BY <2>1, Zenon DEF s_broker_worker_msg, m
<1> HIDE DEF c
<1>5. c.service = b.service /\ c.waiting = b.waiting
  BY <1>3 DEF Routed
<1>6. Sound(c)
  BY <1>3, RoutedSound, Zenon
<1> QED
  BY <1>1, <1>3, <1>4, <1>5, <1>6, ServedFacts, Zenon DEF m

\* HEARTBEAT of a known worker.
LEMMA HeardHeartbeat ==
    ASSUME NEW b, Sound(b), NEW w \in WorkerIds, NEW msg, msg.kind = "HEARTBEAT",
           b.service[w] # None, NEW d, d = s_broker_worker_msg(b, w, msg)
    PROVE  /\ Sound(d)
           /\ d.service = b.service /\ d.waiting = b.waiting
           /\ d.requests = b.requests /\ d.pipe = b.pipe
<1> DEFINE live == Append(RemoveFirst(b.live, w), w)
<1>1. d = IF Contains(b.waiting, w) THEN [b EXCEPT !.live = live] ELSE b
  <2>1. msg.kind # "READY" /\ msg.kind # "REPLY" /\ msg.kind # "DISCONNECT"
    OBVIOUS
  <2> QED
    BY <2>1, Zenon DEF s_broker_worker_msg
<1>2. b \in Brokers
  BY DEF Sound
<1>3. live \in Seq(WorkerIds)
  <2>1. b.live \in Seq(WorkerIds)
    BY <1>2, BrokerFields
  <2>2. RemoveFirst(b.live, w) \in Seq(WorkerIds)
    BY <2>1, RemoveFirstFacts
  <2> QED
    BY <2>2, AppendFacts
<1> HIDE DEF live
<1>4. d \in Brokers
  BY <1>1, <1>2, <1>3 DEF Brokers
<1>5. /\ d.service = b.service /\ d.waiting = b.waiting /\ d.idle = b.idle
      /\ d.workers = b.workers /\ d.requests = b.requests /\ d.pipe = b.pipe
  BY <1>1, <1>2 DEF Brokers
<1>6. Sound(d)
  BY <1>4, <1>5, SoundSame
<1> QED
  BY <1>5, <1>6

Dropped(b, w, d) ==
    /\ Sound(d)
    /\ ToSet(d.waiting) \subseteq ToSet(b.waiting) /\ w \notin ToSet(d.waiting)
    /\ d.service = [b.service EXCEPT ![w] = None]
    /\ d.requests = b.requests
    /\ d.pipe = IF Connected(w) THEN [b.pipe EXCEPT ![w] = Append(b.pipe[w], DisconnectMsg)]
                ELSE b.pipe

\* A message of a worker that the broker does not expect.
LEMMA HeardOther ==
    ASSUME NEW b, Sound(b), NEW w \in WorkerIds, NEW msg,
           \/ msg.kind = "READY" /\ b.service[w] # None
           \/ msg.kind \in {"REPLY", "HEARTBEAT"} /\ b.service[w] = None
    PROVE  Dropped(b, w, s_broker_worker_msg(b, w, msg))
<1> DEFINE c == Route(b, w, DisconnectMsg)
           d == s_worker_delete(c, w, FALSE)
<1>1. b \in Brokers /\ w \in Ids
  BY IdFacts DEF Sound
<1>2. DisconnectMsg \in ToClient \cup ToWorker
  BY DEF ToWorker
<1>3. Routed(b, w, DisconnectMsg, c)
  BY <1>1, <1>2, RouteFacts, Zenon
<1>4. c \in Brokers /\ c.service = b.service /\ Sound(c)
  <2>1. Sound(c)
    BY <1>3, RoutedSound, Zenon
  <2> HIDE DEF c
  <2> QED
    BY <1>3, <2>1 DEF Routed
<1>5. s_broker_worker_msg(b, w, msg) = s_worker_delete(b, w, TRUE)
  <2>1. /\ msg.kind # "DISCONNECT"
        /\ msg.kind = "READY" => msg.kind # "REPLY" /\ msg.kind # "HEARTBEAT"
        /\ msg.kind = "REPLY" => msg.kind # "READY" /\ msg.kind # "HEARTBEAT"
        /\ msg.kind = "HEARTBEAT" => msg.kind # "REPLY" /\ msg.kind # "READY"
    OBVIOUS
  <2> QED
    BY <2>1, Zenon DEF s_broker_worker_msg
<1>6. s_worker_delete(b, w, TRUE) = d
  BY <1>4, Zenon DEF s_worker_delete
<1>7. Deleted(c, w, c.service[w], d)
  BY <1>4, DeleteFields, Zenon
<1> HIDE DEF c, d
<1>8. /\ d \in Brokers /\ Lists(d)
      /\ ToSet(d.waiting) \subseteq ToSet(c.waiting)
      /\ \A t \in Services : Len(d.idle[t]) <= Len(c.idle[t])
      /\ d.service = [c.service EXCEPT ![w] = None]
      /\ d.requests = c.requests /\ d.pipe = c.pipe
  BY <1>4, <1>7, DeleteLists, Zenon DEF Sound
<1>9. ASSUME NEW t \in Services PROVE Drained(d, t)
  <2>1. c.idle[t] \in Seq(WorkerIds) /\ d.idle[t] \in Seq(WorkerIds) /\ Len(d.idle[t]) <= Len(c.idle[t])
    BY <1>4, <1>8, BrokerFields
  <2>2. Drained(c, t)
    BY <1>4 DEF Sound
  <2>3. c.idle[t] = <<>> => Len(d.idle[t]) = 0
    BY <2>1
  <2>4. c.idle[t] = <<>> => d.idle[t] = <<>>
    BY <2>1, <2>3, EmptySeq
  <2> QED
    BY <1>8, <2>2, <2>4 DEF Drained
<1>10. Sound(d)
  BY <1>8, <1>9 DEF Sound
<1>11. w \notin ToSet(d.waiting)
  <2>1. d.service[w] = None
    <3>1. c.service \in [Ids -> Services \cup {None}]
      BY <1>4, BrokerFields
    <3> QED
      BY <1>1, <1>8, <3>1
  <2> QED
    BY <1>8, <2>1 DEF Lists
<1>12. Dropped(b, w, d)
  BY <1>3, <1>4, <1>8, <1>10, <1>11 DEF Dropped, Routed
<1> QED
  BY <1>5, <1>6, <1>12, Zenon

\* A request for a service of the broker's own is answered at once.
LEMMA HeardMmi ==
    ASSUME NEW b, Sound(b), NEW id \in ClientIds, NEW msg, msg.service \in MmiNames
    PROVE  \E code \in {"200", "404", "501"} :
              Routed(b, id, AnswerMsg(msg.service, code), s_broker_client_msg(b, id, msg))
<1> DEFINE code == IF msg.service # "mmi.service" THEN "501"
                   ELSE IF b.workers[msg.body] > 0 THEN "200" ELSE "404"
           m == AnswerMsg(msg.service, code)
<1>1. code \in {"200", "404", "501"}
  OBVIOUS
<1>2. s_broker_client_msg(b, id, msg) = Route(b, id, m)
  BY Zenon DEF s_broker_client_msg
<1> HIDE DEF code
<1>3. m \in ToClient \cup ToWorker
  BY <1>1 DEF ToClient, AnswerMsg, Names, Bodies
<1>4. b \in Brokers /\ id \in Ids
  BY IdFacts DEF Sound
<1>5. Routed(b, id, m, Route(b, id, m))
  BY <1>3, <1>4, RouteFacts, Zenon
<1> QED
  BY <1>1, <1>2, <1>5, Zenon

\* Any other is queued, and dispatched.
Asked(b, s, r, c) ==
    /\ c \in Brokers /\ Lists(c)
    /\ c.service = b.service /\ c.waiting = b.waiting /\ c.pipe = b.pipe
    /\ c.requests = [b.requests EXCEPT ![s] = Append(b.requests[s], r)]

\* s_broker_client_msg for a service of the workers.
LEMMA HeardClient ==
    ASSUME NEW b, Sound(b), NEW id \in ClientIds, NEW msg, msg.service \in Services,
           msg.body \in Bodies
    PROVE  \E c : /\ Asked(b, msg.service, [client |-> id, body |-> msg.body], c)
                  /\ Dispatched(c, msg.service, s_broker_client_msg(b, id, msg))
<1> PICK s \in Services : s = msg.service
  OBVIOUS
<1> DEFINE r == [client |-> id, body |-> msg.body]
           requests == [b.requests EXCEPT ![s] = b.requests[s] \o <<r>>]
           c == Queued(b, s, <<r>>)
<1>1. b \in Brokers /\ Lists(b) /\ \A t \in Services : Drained(b, t)
  BY DEF Sound
<1>2. r \in Pending
  BY DEF Pending
<1>3. s_broker_client_msg(b, id, msg) = s_service_dispatch(b, s, <<r>>)
  <2>1. s \notin MmiNames
    BY NetAssumption
  <2> QED
    BY <2>1, Zenon DEF s_broker_client_msg
<1> HIDE DEF r
<1>4. /\ b.requests \in [Services -> Seq(Pending)]
      /\ b.idle \in [Services -> Seq(WorkerIds)]
  BY <1>1, BrokerFields
<1>5. /\ b.requests[s] \o <<r>> = Append(b.requests[s], r)
      /\ Append(b.requests[s], r) \in Seq(Pending)
      /\ Len(Append(b.requests[s], r)) = Len(b.requests[s]) + 1
  BY <1>2, <1>4, AppendIsConcat, AppendProperties
<1>6. requests = [b.requests EXCEPT ![s] = Append(b.requests[s], r)]
  BY <1>5, Zenon
<1>7. requests \in [Services -> Seq(Pending)]
  BY <1>4, <1>5, <1>6
<1>8. c = [b EXCEPT !.requests = requests]
  BY Zenon DEF Queued
<1> HIDE DEF requests, c
<1>9. /\ c \in Brokers
      /\ c.service = b.service /\ c.waiting = b.waiting /\ c.pipe = b.pipe
      /\ c.idle = b.idle /\ c.workers = b.workers /\ c.requests = requests
  BY <1>1, <1>7, <1>8 DEF Brokers
<1>10. Lists(c)
  BY <1>1, <1>9, ListsSame
<1>11. Asked(b, s, r, c)
  BY <1>6, <1>9, <1>10 DEF Asked
<1>12. \A t \in Services : t # s => Drained(c, t)
  <2>1. \A t \in Services : t # s => c.requests[t] = b.requests[t]
    BY <1>4, <1>6, <1>9
  <2> QED
    BY <1>1, <1>9, <2>1 DEF Drained
<1>13. Len(c.idle[s]) <= 1 \/ Len(c.requests[s]) <= 1
  <2>1. CASE b.idle[s] = <<>>
    <3>1. Len(c.idle[s]) = 0
      BY <1>9, <2>1
    <3> QED
      BY <3>1
  <2>2. CASE b.requests[s] = <<>>
    <3>1. c.requests[s] = Append(b.requests[s], r)
      BY <1>4, <1>6, <1>9
    <3>2. Len(b.requests[s]) = 0
      BY <2>2
    <3> QED
      BY <1>5, <3>1, <3>2
  <2> QED
    BY <1>1, <2>1, <2>2 DEF Drained
<1>14. Dispatched(c, s, s_service_dispatch(b, s, <<r>>))
  BY <1>1, <1>9, <1>10, <1>12, <1>13, DispatchFacts, Zenon DEF c
<1> QED
  BY <1>3, <1>11, <1>14, Zenon DEF r

\* A broker that has just started.
LEMMA NewBroker ==
    Sound(s_broker_new)
<1> DEFINE b == s_broker_new
<1>1. /\ b \in Brokers
      /\ b.service = [id \in Ids |-> None] /\ b.waiting = <<>>
      /\ b.idle = [s \in Services |-> <<>>] /\ b.workers = [s \in Services |-> 0]
      /\ b.requests = [s \in Services |-> <<>>]
  BY DEF s_broker_new, Brokers
<1> HIDE DEF b
<1>2. IsInjective(b.waiting) /\ ToSet(b.waiting) = {}
  BY <1>1 DEF IsInjective, ToSet
<1>3. ASSUME NEW s \in Services
      PROVE  /\ ToSet(b.idle[s]) = {} /\ b.idle[s] = <<>>
             /\ b.workers[s] = 0 /\ {w \in Ids : b.service[w] = s} = {}
  <2>1. s # None
    BY NetAssumption
  <2> QED
    BY <1>1, <2>1 DEF ToSet
<1>4. ASSUME NEW s \in Services
      PROVE  b.workers[s] = Cardinality({w \in Ids : b.service[w] = s})
  BY <1>3, FS_EmptySet
<1>5. Lists(b)
  BY <1>2, <1>3, <1>4 DEF Lists
<1> QED
  BY <1>1, <1>3, <1>5 DEF Sound, Drained, b

-----------------------------------------------------------------------------
(* The flow of messages, for any state of connections, broker and workers *)

Up(i) == <<"up", i>>
Pipe(i) == <<"pipe", i>>
Busy(i) == <<"busy", i>>
Queue(s) == <<"queue", s>>

Ups == [Ids -> Seq(Msgs)]

FlowOf(u, b, h) ==
    [p \in Places |-> IF p[1] = "up" THEN u[p[2]]
                      ELSE IF p[1] = "pipe" THEN b.pipe[p[2]]
                      ELSE IF p[1] = "busy" THEN h[p[2]]
                      ELSE b.requests[p[2]]]

IsFlow(F, u, b, h) ==
    /\ F \in Flows
    /\ \A i \in Ids : F[Up(i)] = u[i] /\ F[Pipe(i)] = b.pipe[i] /\ F[Busy(i)] = h[i]
    /\ \A s \in Services : F[Queue(s)] = b.requests[s]

\* The kinds of places are apart.
LEMMA PlaceCases ==
    /\ \A i \in Ids : Up(i) \in Places /\ Pipe(i) \in Places /\ Busy(i) \in Places
    /\ \A s \in Services : Queue(s) \in Places
    /\ \A i : Up(i)[1] = "up" /\ Pipe(i)[1] = "pipe" /\ Busy(i)[1] = "busy" /\ Queue(i)[1] = "queue"
    /\ \A i : Up(i)[2] = i /\ Pipe(i)[2] = i /\ Busy(i)[2] = i /\ Queue(i)[2] = i
    /\ \A p \in Places : \/ \E i \in Ids : p = Up(i) \/ p = Pipe(i) \/ p = Busy(i)
                         \/ \E s \in Services : p = Queue(s)
    /\ \A i, j : /\ Up(i) = Up(j) => i = j
                 /\ Pipe(i) = Pipe(j) => i = j
                 /\ Busy(i) = Busy(j) => i = j
                 /\ Queue(i) = Queue(j) => i = j
                 /\ Up(i) # Pipe(j) /\ Up(i) # Busy(j) /\ Up(i) # Queue(j)
                 /\ Pipe(i) # Busy(j) /\ Pipe(i) # Queue(j) /\ Busy(i) # Queue(j)
<1>1. \A p \in Places : \/ \E i \in Ids : p = Up(i) \/ p = Pipe(i) \/ p = Busy(i)
                        \/ \E s \in Services : p = Queue(s)
  BY DEF Places, Up, Pipe, Busy, Queue
<1>2. /\ \A i \in Ids : Up(i) \in Places /\ Pipe(i) \in Places /\ Busy(i) \in Places
      /\ \A s \in Services : Queue(s) \in Places
  BY DEF Places, Up, Pipe, Busy, Queue
<1>3. /\ \A i : Up(i)[1] = "up" /\ Pipe(i)[1] = "pipe" /\ Busy(i)[1] = "busy" /\ Queue(i)[1] = "queue"
      /\ \A i : Up(i)[2] = i /\ Pipe(i)[2] = i /\ Busy(i)[2] = i /\ Queue(i)[2] = i
  BY DEF Up, Pipe, Busy, Queue
<1>4. \A i, j : /\ Up(i) = Up(j) => i = j
                /\ Pipe(i) = Pipe(j) => i = j
                /\ Busy(i) = Busy(j) => i = j
                /\ Queue(i) = Queue(j) => i = j
                /\ Up(i) # Pipe(j) /\ Up(i) # Busy(j) /\ Up(i) # Queue(j)
                /\ Pipe(i) # Busy(j) /\ Pipe(i) # Queue(j) /\ Busy(i) # Queue(j)
  BY DEF Up, Pipe, Busy, Queue
<1> QED
  BY <1>1, <1>2, <1>3, <1>4

\* A sequence over a set is one over a larger set.
LEMMA SeqMonotone ==
    ASSUME NEW A, NEW B, A \subseteq B, NEW s \in Seq(A)
    PROVE  s \in Seq(B)
  OBVIOUS

\* What FlowOf has at each place.
LEMMA FlowOfFacts ==
    ASSUME NEW u \in Ups, NEW b \in Brokers, NEW h \in Ups
    PROVE  IsFlow(FlowOf(u, b, h), u, b, h)
<1> DEFINE F == FlowOf(u, b, h)
<1>1. /\ \A i \in Ids : F[Up(i)] = u[i] /\ F[Pipe(i)] = b.pipe[i] /\ F[Busy(i)] = h[i]
      /\ \A s \in Services : F[Queue(s)] = b.requests[s]
  BY PlaceCases DEF FlowOf
<1>2. /\ \A i \in Ids : b.pipe[i] \in Seq(ToClient \cup ToWorker)
      /\ \A s \in Services : b.requests[s] \in Seq(Pending)
  BY BrokerFields
<1>3. /\ \A i \in Ids : b.pipe[i] \in Seq(Msgs)
      /\ \A s \in Services : b.requests[s] \in Seq(Msgs)
  <2>1. ToClient \cup ToWorker \subseteq Msgs /\ Pending \subseteq Msgs
    BY DEF Msgs
  <2> QED
    BY <1>2, <2>1, SeqMonotone
<1>4. \A i \in Ids : u[i] \in Seq(Msgs) /\ h[i] \in Seq(Msgs)
  BY DEF Ups
<1>5. \A p \in Places : F[p] \in Seq(Msgs)
  <2> TAKE p \in Places
  <2> HIDE DEF F
  <2> QED
    BY <1>1, <1>3, <1>4, PlaceCases
<1>6. F = [p \in Places |-> F[p]]
  BY DEF FlowOf
<1> HIDE DEF F
<1>7. F \in Flows
  BY <1>5, <1>6 DEF Flows
<1> QED
  BY <1>1, <1>7, Zenon DEF F, IsFlow

\* A step that touches one place only.
Only(p, u, b, h, v, d, k) ==
    /\ u \in Ups /\ v \in Ups /\ h \in Ups /\ k \in Ups
    /\ b \in Brokers /\ d \in Brokers /\ p \in Places
    /\ \A i \in Ids : /\ Up(i) # p => v[i] = u[i]
                      /\ Pipe(i) # p => d.pipe[i] = b.pipe[i]
                      /\ Busy(i) # p => k[i] = h[i]
    /\ \A s \in Services : Queue(s) # p => d.requests[s] = b.requests[s]

\* A change at one place only is a Take or a Put.
LEMMA FlowChange ==
    ASSUME NEW p, NEW u, NEW b, NEW h, NEW v, NEW d, NEW k, Only(p, u, b, h, v, d, k),
           NEW F, F = FlowOf(u, b, h), NEW G, G = FlowOf(v, d, k)
    PROVE  /\ G[p] = Tail(F[p]) => G = Take(F, p)
           /\ \A m : G[p] = Append(F[p], m) => G = Put(F, p, m)
<1>1. IsFlow(F, u, b, h) /\ IsFlow(G, v, d, k)
  BY FlowOfFacts, Zenon DEF Only
<1>2. F \in Flows /\ G \in Flows
  BY <1>1 DEF IsFlow
<1>3. ASSUME NEW q \in Places, q # p PROVE G[q] = F[q]
  <2>1. ASSUME NEW i \in Ids, q = Up(i) \/ q = Pipe(i) \/ q = Busy(i)
        PROVE  G[q] = F[q]
    BY <1>1, <1>3, <2>1 DEF IsFlow, Only
  <2>2. ASSUME NEW s \in Services, q = Queue(s)
        PROVE  G[q] = F[q]
    BY <1>1, <1>3, <2>2 DEF IsFlow, Only
  <2> QED
    BY <2>1, <2>2, PlaceCases
<1>4. G[p] = Tail(F[p]) => G = Take(F, p)
  BY <1>2, <1>3 DEF Flows, Take
<1>5. ASSUME NEW m, G[p] = Append(F[p], m) PROVE G = Put(F, p, m)
  BY <1>2, <1>3, <1>5 DEF Flows, Put
<1> QED
  BY <1>4, <1>5, Zenon

Removed(u, i, v) == v = [u EXCEPT ![i] = Tail(u[i])]
Appended(u, i, m, v) == v = [u EXCEPT ![i] = Append(u[i], m)]

\* The broker receives.
LEMMA FlowTakeUp ==
    ASSUME NEW u \in Ups, NEW b \in Brokers, NEW h \in Ups, NEW i \in Ids, NEW v \in Ups,
           Removed(u, i, v)
    PROVE  FlowOf(v, b, h) = Take(FlowOf(u, b, h), Up(i))
<1>1. Up(i) \in Places
  BY PlaceCases
<1> PICK F : F = FlowOf(u, b, h)
  OBVIOUS
<1> PICK G : G = FlowOf(v, b, h)
  OBVIOUS
<1>2. F[Up(i)] = u[i] /\ G[Up(i)] = v[i]
  <2>1. IsFlow(F, u, b, h) /\ IsFlow(G, v, b, h)
    BY FlowOfFacts, Zenon
  <2> QED
    BY <2>1 DEF IsFlow
<1>3. \A j \in Ids : Up(j) # Up(i) => v[j] = u[j]
  <2>1. \A j \in Ids : Up(j) # Up(i) => j # i
    OBVIOUS
  <2>2. u \in [Ids -> Seq(Msgs)]
    BY BrokerFields DEF Ups
  <2> QED
    BY <2>1, <2>2 DEF Removed
<1>4. v[i] = Tail(u[i])
  <2>2. u \in [Ids -> Seq(Msgs)]
    BY BrokerFields DEF Ups
  <2> QED
    BY <2>2 DEF Removed
<1>5. Only(Up(i), u, b, h, v, b, h)
  BY <1>1, <1>3, PlaceCases DEF Only
<1>6. G[Up(i)] = Tail(F[Up(i)])
  BY <1>2, <1>4
<1>7. G = Take(F, Up(i))
  BY <1>5, <1>6, FlowChange
<1> QED
  BY <1>7

\* A peer sends.
LEMMA FlowPutUp ==
    ASSUME NEW u \in Ups, NEW b \in Brokers, NEW h \in Ups, NEW i \in Ids, NEW m, NEW v \in Ups,
           Appended(u, i, m, v)
    PROVE  FlowOf(v, b, h) = Put(FlowOf(u, b, h), Up(i), m)
<1>1. Up(i) \in Places
  BY PlaceCases
<1> PICK F : F = FlowOf(u, b, h)
  OBVIOUS
<1> PICK G : G = FlowOf(v, b, h)
  OBVIOUS
<1>2. F[Up(i)] = u[i] /\ G[Up(i)] = v[i]
  <2>1. IsFlow(F, u, b, h) /\ IsFlow(G, v, b, h)
    BY FlowOfFacts, Zenon
  <2> QED
    BY <2>1 DEF IsFlow
<1>3. \A j \in Ids : Up(j) # Up(i) => v[j] = u[j]
  <2>1. \A j \in Ids : Up(j) # Up(i) => j # i
    OBVIOUS
  <2>2. u \in [Ids -> Seq(Msgs)]
    BY BrokerFields DEF Ups
  <2> QED
    BY <2>1, <2>2 DEF Appended
<1>4. v[i] = Append(u[i], m)
  <2>2. u \in [Ids -> Seq(Msgs)]
    BY BrokerFields DEF Ups
  <2> QED
    BY <2>2 DEF Appended
<1>5. Only(Up(i), u, b, h, v, b, h)
  BY <1>1, <1>3, PlaceCases DEF Only
<1>6. G[Up(i)] = Append(F[Up(i)], m)
  BY <1>2, <1>4
<1>7. G = Put(F, Up(i), m)
  BY <1>5, <1>6, FlowChange
<1> QED
  BY <1>7

\* A peer receives.
LEMMA FlowTakePipe ==
    ASSUME NEW u \in Ups, NEW b \in Brokers, NEW h \in Ups, NEW i \in Ids, NEW d \in Brokers,
           Removed(b.pipe, i, d.pipe), d.requests = b.requests
    PROVE  FlowOf(u, d, h) = Take(FlowOf(u, b, h), Pipe(i))
<1>1. Pipe(i) \in Places
  BY PlaceCases
<1> PICK F : F = FlowOf(u, b, h)
  OBVIOUS
<1> PICK G : G = FlowOf(u, d, h)
  OBVIOUS
<1>2. F[Pipe(i)] = b.pipe[i] /\ G[Pipe(i)] = d.pipe[i]
  <2>1. IsFlow(F, u, b, h) /\ IsFlow(G, u, d, h)
    BY FlowOfFacts, Zenon
  <2> QED
    BY <2>1 DEF IsFlow
<1>3. \A j \in Ids : Pipe(j) # Pipe(i) => d.pipe[j] = b.pipe[j]
  <2>1. \A j \in Ids : Pipe(j) # Pipe(i) => j # i
    OBVIOUS
  <2>2. b.pipe \in [Ids -> Seq(ToClient \cup ToWorker)]
    BY BrokerFields DEF Ups
  <2> QED
    BY <2>1, <2>2 DEF Removed
<1>4. d.pipe[i] = Tail(b.pipe[i])
  <2>2. b.pipe \in [Ids -> Seq(ToClient \cup ToWorker)]
    BY BrokerFields DEF Ups
  <2> QED
    BY <2>2 DEF Removed
<1>5. Only(Pipe(i), u, b, h, u, d, h)
  BY <1>1, <1>3, PlaceCases DEF Only
<1>6. G[Pipe(i)] = Tail(F[Pipe(i)])
  BY <1>2, <1>4
<1>7. G = Take(F, Pipe(i))
  BY <1>5, <1>6, FlowChange
<1> QED
  BY <1>7

\* The broker sends.
LEMMA FlowPutPipe ==
    ASSUME NEW u \in Ups, NEW b \in Brokers, NEW h \in Ups, NEW i \in Ids, NEW m, NEW d \in Brokers,
           Appended(b.pipe, i, m, d.pipe), d.requests = b.requests
    PROVE  FlowOf(u, d, h) = Put(FlowOf(u, b, h), Pipe(i), m)
<1>1. Pipe(i) \in Places
  BY PlaceCases
<1> PICK F : F = FlowOf(u, b, h)
  OBVIOUS
<1> PICK G : G = FlowOf(u, d, h)
  OBVIOUS
<1>2. F[Pipe(i)] = b.pipe[i] /\ G[Pipe(i)] = d.pipe[i]
  <2>1. IsFlow(F, u, b, h) /\ IsFlow(G, u, d, h)
    BY FlowOfFacts, Zenon
  <2> QED
    BY <2>1 DEF IsFlow
<1>3. \A j \in Ids : Pipe(j) # Pipe(i) => d.pipe[j] = b.pipe[j]
  <2>1. \A j \in Ids : Pipe(j) # Pipe(i) => j # i
    OBVIOUS
  <2>2. b.pipe \in [Ids -> Seq(ToClient \cup ToWorker)]
    BY BrokerFields DEF Ups
  <2> QED
    BY <2>1, <2>2 DEF Appended
<1>4. d.pipe[i] = Append(b.pipe[i], m)
  <2>2. b.pipe \in [Ids -> Seq(ToClient \cup ToWorker)]
    BY BrokerFields DEF Ups
  <2> QED
    BY <2>2 DEF Appended
<1>5. Only(Pipe(i), u, b, h, u, d, h)
  BY <1>1, <1>3, PlaceCases DEF Only
<1>6. G[Pipe(i)] = Append(F[Pipe(i)], m)
  BY <1>2, <1>4
<1>7. G = Put(F, Pipe(i), m)
  BY <1>5, <1>6, FlowChange
<1> QED
  BY <1>7

\* A worker lays down its work.
LEMMA FlowTakeBusy ==
    ASSUME NEW u \in Ups, NEW b \in Brokers, NEW h \in Ups, NEW i \in Ids, NEW k \in Ups,
           Removed(h, i, k)
    PROVE  FlowOf(u, b, k) = Take(FlowOf(u, b, h), Busy(i))
<1>1. Busy(i) \in Places
  BY PlaceCases
<1> PICK F : F = FlowOf(u, b, h)
  OBVIOUS
<1> PICK G : G = FlowOf(u, b, k)
  OBVIOUS
<1>2. F[Busy(i)] = h[i] /\ G[Busy(i)] = k[i]
  <2>1. IsFlow(F, u, b, h) /\ IsFlow(G, u, b, k)
    BY FlowOfFacts, Zenon
  <2> QED
    BY <2>1 DEF IsFlow
<1>3. \A j \in Ids : Busy(j) # Busy(i) => k[j] = h[j]
  <2>1. \A j \in Ids : Busy(j) # Busy(i) => j # i
    OBVIOUS
  <2>2. h \in [Ids -> Seq(Msgs)]
    BY BrokerFields DEF Ups
  <2> QED
    BY <2>1, <2>2 DEF Removed
<1>4. k[i] = Tail(h[i])
  <2>2. h \in [Ids -> Seq(Msgs)]
    BY BrokerFields DEF Ups
  <2> QED
    BY <2>2 DEF Removed
<1>5. Only(Busy(i), u, b, h, u, b, k)
  BY <1>1, <1>3, PlaceCases DEF Only
<1>6. G[Busy(i)] = Tail(F[Busy(i)])
  BY <1>2, <1>4
<1>7. G = Take(F, Busy(i))
  BY <1>5, <1>6, FlowChange
<1> QED
  BY <1>7

\* A worker takes up work.
LEMMA FlowPutBusy ==
    ASSUME NEW u \in Ups, NEW b \in Brokers, NEW h \in Ups, NEW i \in Ids, NEW m, NEW k \in Ups,
           Appended(h, i, m, k)
    PROVE  FlowOf(u, b, k) = Put(FlowOf(u, b, h), Busy(i), m)
<1>1. Busy(i) \in Places
  BY PlaceCases
<1> PICK F : F = FlowOf(u, b, h)
  OBVIOUS
<1> PICK G : G = FlowOf(u, b, k)
  OBVIOUS
<1>2. F[Busy(i)] = h[i] /\ G[Busy(i)] = k[i]
  <2>1. IsFlow(F, u, b, h) /\ IsFlow(G, u, b, k)
    BY FlowOfFacts, Zenon
  <2> QED
    BY <2>1 DEF IsFlow
<1>3. \A j \in Ids : Busy(j) # Busy(i) => k[j] = h[j]
  <2>1. \A j \in Ids : Busy(j) # Busy(i) => j # i
    OBVIOUS
  <2>2. h \in [Ids -> Seq(Msgs)]
    BY BrokerFields DEF Ups
  <2> QED
    BY <2>1, <2>2 DEF Appended
<1>4. k[i] = Append(h[i], m)
  <2>2. h \in [Ids -> Seq(Msgs)]
    BY BrokerFields DEF Ups
  <2> QED
    BY <2>2 DEF Appended
<1>5. Only(Busy(i), u, b, h, u, b, k)
  BY <1>1, <1>3, PlaceCases DEF Only
<1>6. G[Busy(i)] = Append(F[Busy(i)], m)
  BY <1>2, <1>4
<1>7. G = Put(F, Busy(i), m)
  BY <1>5, <1>6, FlowChange
<1> QED
  BY <1>7

\* The broker takes a request off a service's queue.
LEMMA FlowTakeQueue ==
    ASSUME NEW u \in Ups, NEW b \in Brokers, NEW h \in Ups, NEW s \in Services, NEW d \in Brokers,
           d.requests = [b.requests EXCEPT ![s] = Tail(b.requests[s])], d.pipe = b.pipe
    PROVE  FlowOf(u, d, h) = Take(FlowOf(u, b, h), Queue(s))
<1>1. Queue(s) \in Places
  BY PlaceCases
<1> PICK F : F = FlowOf(u, b, h)
  OBVIOUS
<1> PICK G : G = FlowOf(u, d, h)
  OBVIOUS
<1>2. F[Queue(s)] = b.requests[s] /\ G[Queue(s)] = d.requests[s]
  <2>1. IsFlow(F, u, b, h) /\ IsFlow(G, u, d, h)
    BY FlowOfFacts, Zenon
  <2> QED
    BY <2>1 DEF IsFlow
<1>3. \A j \in Services : Queue(j) # Queue(s) => d.requests[j] = b.requests[j]
  <2>1. \A j \in Services : Queue(j) # Queue(s) => j # s
    OBVIOUS
  <2>2. b.requests \in [Services -> Seq(Pending)]
    BY BrokerFields DEF Ups
  <2> QED
    BY <2>1, <2>2
<1>4. d.requests[s] = Tail(b.requests[s])
  <2>2. b.requests \in [Services -> Seq(Pending)]
    BY BrokerFields DEF Ups
  <2> QED
    BY <2>2
<1>5. Only(Queue(s), u, b, h, u, d, h)
  BY <1>1, <1>3, PlaceCases DEF Only
<1>6. G[Queue(s)] = Tail(F[Queue(s)])
  BY <1>2, <1>4
<1>7. G = Take(F, Queue(s))
  BY <1>5, <1>6, FlowChange
<1> QED
  BY <1>7

\* The broker queues a request.
LEMMA FlowPutQueue ==
    ASSUME NEW u \in Ups, NEW b \in Brokers, NEW h \in Ups, NEW s \in Services,
           NEW m \in Msgs, NEW d \in Brokers,
           d.requests = [b.requests EXCEPT ![s] = Append(b.requests[s], m)], d.pipe = b.pipe
    PROVE  FlowOf(u, d, h) = Put(FlowOf(u, b, h), Queue(s), m)
<1>1. Queue(s) \in Places
  BY PlaceCases
<1> PICK F : F = FlowOf(u, b, h)
  OBVIOUS
<1> PICK G : G = FlowOf(u, d, h)
  OBVIOUS
<1>2. F[Queue(s)] = b.requests[s] /\ G[Queue(s)] = d.requests[s]
  <2>1. IsFlow(F, u, b, h) /\ IsFlow(G, u, d, h)
    BY FlowOfFacts, Zenon
  <2> QED
    BY <2>1 DEF IsFlow
<1>3. \A j \in Services : Queue(j) # Queue(s) => d.requests[j] = b.requests[j]
  <2>1. \A j \in Services : Queue(j) # Queue(s) => j # s
    OBVIOUS
  <2>2. b.requests \in [Services -> Seq(Pending)]
    BY BrokerFields DEF Ups
  <2> QED
    BY <2>1, <2>2
<1>4. d.requests[s] = Append(b.requests[s], m)
  <2>2. b.requests \in [Services -> Seq(Pending)]
    BY BrokerFields DEF Ups
  <2> QED
    BY <2>2
<1>5. Only(Queue(s), u, b, h, u, d, h)
  BY <1>1, <1>3, PlaceCases DEF Only
<1>6. G[Queue(s)] = Append(F[Queue(s)], m)
  BY <1>2, <1>4
<1>7. G = Put(F, Queue(s), m)
  BY <1>5, <1>6, FlowChange
<1> QED
  BY <1>7

-----------------------------------------------------------------------------
(* What workers have been given *)

JobsOf(i) == [p \in Places |-> {m \in Msgs : IsJob(p, m, i)}]

\* What a job is, by kind of place.
LEMMA JobPlaces ==
    ASSUME NEW i, NEW m \in Msgs
    PROVE  /\ \A j \in Ids : /\ m \in JobsOf(i)[Up(j)] <=> j = i /\ m.kind = "REPLY"
                             /\ m \in JobsOf(i)[Pipe(j)] <=> j = i /\ m.kind = "REQUEST"
                             /\ m \in JobsOf(i)[Busy(j)] <=> j = i
           /\ \A s \in Services : m \notin JobsOf(i)[Queue(s)]
<1>1. \A p \in Places : m \in JobsOf(i)[p] <=> IsJob(p, m, i)
  BY DEF JobsOf
<1> QED
  BY <1>1, PlaceCases DEF IsJob

\* Every peer sends and gets messages of its kind, only workers register.
Kinds(u, b) ==
    /\ \A id \in WorkerIds : u[id] \in Seq(FromWorker) /\ b.pipe[id] \in Seq(ToWorker)
    /\ \A id \in ClientIds : /\ u[id] \in Seq(FromClient) /\ b.pipe[id] \in Seq(ToClient)
                             /\ b.service[id] = None

\* A socket that is gone has no pipe, one that is not yet made has nothing.
Linked(u, b) ==
    \A id \in Ids : /\ ~Connected(id) => b.pipe[id] = <<>>
                    /\ id[2] > made[id[1]] => u[id] = <<>> /\ b.service[id] = None

\* A worker has one request at most and does not wait while it has it; READY
\* is the first message of its connection, which the broker does not know.
Work(F, u, b, i) ==
    /\ One(F, JobsOf(i))
    /\ Nowhere(F, JobsOf(i)) \/ i \notin ToSet(b.waiting)
    /\ Nowhere(F, JobsOf(i)) \/ restarts # 0 \/ b.service[i] # None
    /\ \A k \in 1..Len(u[i]) :
          u[i][k].kind = "READY" =>
             k = 1 /\ b.service[i] = None /\ Nowhere(F, JobsOf(i))

View(u, b, h) ==
    /\ u \in Ups /\ h \in Ups /\ b \in Brokers /\ Lists(b)
    /\ Kinds(u, b) /\ Linked(u, b)
    /\ \A i \in WorkerIds : Work(FlowOf(u, b, h), u, b, i)

NoReady(u, i) == \A k \in 1..Len(u[i]) : u[i][k].kind # "READY"

\* The fields of the messages of each direction.
LEMMA MessageKinds ==
    /\ FromClient \subseteq Msgs /\ FromWorker \subseteq Msgs /\ ToClient \subseteq Msgs
    /\ ToWorker \subseteq Msgs /\ Pending \subseteq Msgs
    /\ \A m \in FromClient : m.kind = "CLIENT" /\ m.service \in Names /\ m.body \in Bodies
    /\ \A m \in FromWorker : /\ m.kind \in {"READY", "REPLY", "HEARTBEAT"}
                             /\ m.kind = "READY" => m.service \in Services
                             /\ m.kind = "REPLY" => m.client \in ClientIds /\ m.body \in Bodies
    /\ \A m \in ToClient : m.kind = "ANSWER" /\ m.service \in Names /\ m.body \in Bodies
    /\ \A m \in ToWorker : /\ m.kind \in {"REQUEST", "HEARTBEAT", "DISCONNECT"}
                           /\ m.kind = "REQUEST" => m.client \in ClientIds /\ m.body \in Bodies
    /\ HeartbeatMsg.kind = "HEARTBEAT" /\ DisconnectMsg.kind = "DISCONNECT"
    /\ HeartbeatMsg \in FromWorker /\ HeartbeatMsg \in ToWorker /\ DisconnectMsg \in ToWorker
    /\ \A m \in Pending : m.client \in ClientIds /\ m.body \in Bodies
<1>1. /\ FromClient \subseteq Msgs /\ FromWorker \subseteq Msgs /\ ToClient \subseteq Msgs
      /\ ToWorker \subseteq Msgs /\ Pending \subseteq Msgs
  BY DEF Msgs
<1>2. /\ \A m \in FromClient : m.kind = "CLIENT" /\ m.service \in Names /\ m.body \in Bodies
      /\ \A m \in ToClient : m.kind = "ANSWER" /\ m.service \in Names /\ m.body \in Bodies
      /\ \A m \in Pending : m.client \in ClientIds /\ m.body \in Bodies
  BY DEF FromClient, ToClient, Pending
<1>3. /\ HeartbeatMsg.kind = "HEARTBEAT" /\ DisconnectMsg.kind = "DISCONNECT"
      /\ HeartbeatMsg \in FromWorker /\ HeartbeatMsg \in ToWorker /\ DisconnectMsg \in ToWorker
  BY DEF HeartbeatMsg, DisconnectMsg, FromWorker, ToWorker
<1>4. \A m \in FromWorker : /\ m.kind \in {"READY", "REPLY", "HEARTBEAT"}
                            /\ m.kind = "READY" => m.service \in Services
                            /\ m.kind = "REPLY" => m.client \in ClientIds /\ m.body \in Bodies
  BY DEF FromWorker, HeartbeatMsg
<1>5. \A m \in ToWorker : /\ m.kind \in {"REQUEST", "HEARTBEAT", "DISCONNECT"}
                          /\ m.kind = "REQUEST" => m.client \in ClientIds /\ m.body \in Bodies
  BY DEF ToWorker, HeartbeatMsg, DisconnectMsg
<1> QED
  BY <1>1, <1>2, <1>3, <1>4, <1>5

\* The broker receives a message.
LEMMA ViewTake ==
    ASSUME NEW u, NEW b, NEW h, View(u, b, h), NEW i \in Ids, u[i] # <<>>,
           NEW v, Removed(u, i, v)
    PROVE  /\ View(v, b, h)
           /\ FlowOf(v, b, h) = Take(FlowOf(u, b, h), Up(i))
           /\ Head(u[i]) \in Msgs
           /\ i \in ClientIds => Head(u[i]) \in FromClient
           /\ i \in WorkerIds =>
                /\ Head(u[i]) \in FromWorker
                /\ Head(u[i]).kind = "READY" => b.service[i] = None
                /\ Head(u[i]).kind = "REPLY" => i \notin ToSet(b.waiting)
                /\ Head(u[i]).kind \in {"READY", "REPLY"} => Nowhere(FlowOf(v, b, h), JobsOf(i))
                /\ NoReady(v, i)
           /\ ~(i[2] > made[i[1]])
<1> PICK F : F = FlowOf(u, b, h)
  OBVIOUS
<1>1. /\ u \in Ups /\ h \in Ups /\ b \in Brokers /\ Lists(b) /\ Kinds(u, b) /\ Linked(u, b)
      /\ \A j \in WorkerIds : Work(F, u, b, j)
  BY DEF View
<1>2. u[i] \in Seq(Msgs) /\ Tail(u[i]) \in Seq(Msgs) /\ Head(u[i]) \in Msgs
  BY <1>1, HeadTailProperties DEF Ups
<1>3. v \in Ups /\ v[i] = Tail(u[i]) /\ \A j \in Ids : j # i => v[j] = u[j]
  BY <1>1, <1>2 DEF Ups, Removed
<1> PICK G : G = FlowOf(v, b, h)
  OBVIOUS
<1>4. G = Take(F, Up(i)) /\ Up(i) \in Places /\ F \in Flows /\ F[Up(i)] = u[i]
  <2>1. G = Take(F, Up(i))
    BY <1>1, <1>3, FlowTakeUp
  <2>2. IsFlow(F, u, b, h)
    BY <1>1, FlowOfFacts
  <2> QED
    BY <2>1, <2>2, PlaceCases DEF IsFlow
<1>5. ASSUME NEW j \in WorkerIds
      PROVE  /\ One(F, JobsOf(j)) => One(G, JobsOf(j))
             /\ Nowhere(F, JobsOf(j)) => Nowhere(G, JobsOf(j))
             /\ One(F, JobsOf(j)) /\ Head(u[i]) \in JobsOf(j)[Up(i)] => Nowhere(G, JobsOf(j))
             /\ Nowhere(F, JobsOf(j)) => Head(u[i]) \notin JobsOf(j)[Up(i)]
  BY <1>4, FlowTake
<1>6. i \in WorkerIds => NoReady(v, i)
  <2> SUFFICES ASSUME i \in WorkerIds, NEW k \in 1..Len(v[i]), v[i][k].kind = "READY" PROVE FALSE
    BY DEF NoReady
  <2>1. /\ Len(Tail(u[i])) = Len(u[i]) - 1 /\ Len(u[i]) \in Nat
        /\ \A n \in 1..Len(Tail(u[i])) : Tail(u[i])[n] = u[i][n + 1]
    BY <1>2, HeadTailProperties
  <2>4. k \in 1..Len(Tail(u[i])) /\ Tail(u[i])[k].kind = "READY"
    BY <1>3
  <2>2. k + 1 \in 1..Len(u[i]) /\ k + 1 # 1 /\ u[i][k + 1].kind = "READY"
    BY <2>1, <2>4
  <2>3. Work(F, u, b, i)
    BY <1>1
  <2> QED
    BY <2>2, <2>3 DEF Work
<1>7. Kinds(v, b)
  <2>1. \A id \in Ids : \A S : u[id] \in Seq(S) => v[id] \in Seq(S)
    BY <1>3, HeadTailProperties
  <2> QED
    BY <1>1, <2>1, IdFacts DEF Kinds
<1>8. Linked(v, b) /\ ~(i[2] > made[i[1]])
  <2>1. ~(i[2] > made[i[1]])
    BY <1>1 DEF Linked
  <2>2. Linked(v, b)
    BY <1>1, <1>3, <2>1 DEF Linked
  <2> QED
    BY <2>1, <2>2
<1>9. ASSUME NEW j \in WorkerIds PROVE Work(G, v, b, j)
  <2>1. Work(F, u, b, j)
    BY <1>1
  <2>2. /\ One(G, JobsOf(j))
        /\ Nowhere(F, JobsOf(j)) => Nowhere(G, JobsOf(j))
    BY <1>5, <2>1 DEF Work
  <2>3. CASE j = i
    BY <1>6, <2>1, <2>2, <2>3 DEF Work, NoReady
  <2>4. CASE j # i
    <3>1. v[j] = u[j]
      BY <1>3, <2>4, IdFacts
    <3> QED
      BY <2>1, <2>2, <3>1 DEF Work
  <2> QED
    BY <2>3, <2>4
<1>10. View(v, b, h)
  BY <1>1, <1>3, <1>7, <1>8, <1>9 DEF View
<1>11. ASSUME i \in WorkerIds
       PROVE  /\ Head(u[i]) \in FromWorker
              /\ Head(u[i]).kind = "READY" => b.service[i] = None /\ Nowhere(G, JobsOf(i))
              /\ Head(u[i]).kind = "REPLY" => i \notin ToSet(b.waiting) /\ Nowhere(G, JobsOf(i))
  <2>1. Head(u[i]) \in FromWorker
    BY <1>1, <1>11, HeadTailProperties DEF Kinds
  <2>2. Work(F, u, b, i)
    BY <1>1, <1>11
  <2>3. 1 \in 1..Len(u[i]) /\ Head(u[i]) = u[i][1]
    BY <1>2, HeadTailProperties
  <2>4. Head(u[i]).kind = "READY" => b.service[i] = None /\ Nowhere(F, JobsOf(i))
    BY <2>2, <2>3 DEF Work
  <2>5. Head(u[i]).kind = "REPLY" => Head(u[i]) \in JobsOf(i)[Up(i)]
    BY <1>2, JobPlaces
  <2> QED
    BY <1>5, <1>11, <2>1, <2>2, <2>4, <2>5 DEF Work
<1>12. i \in ClientIds => Head(u[i]) \in FromClient
  BY <1>1, HeadTailProperties DEF Kinds
<1> QED
  BY <1>2, <1>4, <1>6, <1>8, <1>10, <1>11, <1>12

\* The broker sends something other than a request.
LEMMA ViewRoute ==
    ASSUME NEW u, NEW b, NEW h, View(u, b, h), NEW i \in Ids, NEW m, NEW c,
           \/ i \in ClientIds /\ m \in ToClient
           \/ i \in WorkerIds /\ m \in ToWorker /\ m.kind # "REQUEST",
           Routed(b, i, m, c)
    PROVE  /\ View(u, c, h)
           /\ FlowOf(u, c, h) = IF Connected(i) THEN Put(FlowOf(u, b, h), Pipe(i), m)
                                ELSE FlowOf(u, b, h)
           /\ \A j \in WorkerIds : Nowhere(FlowOf(u, b, h), JobsOf(j))
                                     => Nowhere(FlowOf(u, c, h), JobsOf(j))
<1> PICK F : F = FlowOf(u, b, h)
  OBVIOUS
<1> PICK G : G = FlowOf(u, c, h)
  OBVIOUS
<1>1. /\ u \in Ups /\ h \in Ups /\ b \in Brokers /\ Lists(b) /\ Kinds(u, b) /\ Linked(u, b)
      /\ \A j \in WorkerIds : Work(F, u, b, j)
  BY DEF View
<1>2. /\ c \in Brokers
      /\ c.service = b.service /\ c.waiting = b.waiting /\ c.idle = b.idle
      /\ c.requests = b.requests /\ c.workers = b.workers
      /\ c.pipe = IF Connected(i) THEN [b.pipe EXCEPT ![i] = Append(b.pipe[i], m)] ELSE b.pipe
  BY DEF Routed
<1>3. Lists(c)
  BY <1>1, <1>2, ListsSame
<1>4. m \in Msgs /\ m.kind # "REQUEST"
  BY MessageKinds
<1>5. F \in Flows /\ Pipe(i) \in Places
  BY <1>1, FlowOfFacts, PlaceCases DEF IsFlow
<1>6. G = IF Connected(i) THEN Put(F, Pipe(i), m) ELSE F
  <2>1. CASE Connected(i)
    <3>1. Appended(b.pipe, i, m, c.pipe)
      BY <1>2, <2>1 DEF Appended
    <3>2. u \in Ups /\ h \in Ups /\ b \in Brokers /\ c \in Brokers /\ c.requests = b.requests
      BY <1>1, <1>2
    <3>3. G = Put(F, Pipe(i), m)
      BY <3>1, <3>2, FlowPutPipe
    <3> QED
      BY <2>1, <3>3
  <2>2. CASE ~Connected(i)
    BY <1>2, <2>2 DEF FlowOf
  <2> QED
    BY <2>1, <2>2
<1>7. ASSUME NEW j \in WorkerIds
      PROVE  /\ One(F, JobsOf(j)) => One(G, JobsOf(j))
             /\ Nowhere(F, JobsOf(j)) => Nowhere(G, JobsOf(j))
  <2>1. m \notin JobsOf(j)[Pipe(i)]
    BY <1>4, JobPlaces
  <2>2. /\ One(F, JobsOf(j)) => One(Put(F, Pipe(i), m), JobsOf(j))
        /\ Nowhere(F, JobsOf(j)) => Nowhere(Put(F, Pipe(i), m), JobsOf(j))
    BY <1>4, <1>5, <2>1, FlowPut
  <2> QED
    BY <1>6, <2>2
<1>8. Kinds(u, c)
  <2>1. b.pipe \in [Ids -> Seq(ToClient \cup ToWorker)]
    BY <1>1, BrokerFields
  <2>2. \A j \in Ids : c.pipe[j] = IF j = i /\ Connected(i) THEN Append(b.pipe[i], m) ELSE b.pipe[j]
    BY <1>2, <2>1
  <2>3. i \in ClientIds => Append(b.pipe[i], m) \in Seq(ToClient)
    <3>1. i \in ClientIds => b.pipe[i] \in Seq(ToClient) /\ m \in ToClient
      BY <1>1, IdFacts DEF Kinds
    <3> QED
      BY <3>1, AppendProperties
  <2>4. i \in WorkerIds => Append(b.pipe[i], m) \in Seq(ToWorker)
    <3>1. i \in WorkerIds => b.pipe[i] \in Seq(ToWorker) /\ m \in ToWorker
      BY <1>1, IdFacts DEF Kinds
    <3> QED
      BY <3>1, AppendProperties
  <2>5. ASSUME NEW id \in WorkerIds PROVE u[id] \in Seq(FromWorker) /\ c.pipe[id] \in Seq(ToWorker)
    <3>1. id \in Ids /\ u[id] \in Seq(FromWorker) /\ b.pipe[id] \in Seq(ToWorker)
      BY <1>1, IdFacts DEF Kinds
    <3> QED
      BY <2>2, <2>4, <3>1
  <2>6. ASSUME NEW id \in ClientIds
        PROVE  u[id] \in Seq(FromClient) /\ c.pipe[id] \in Seq(ToClient) /\ c.service[id] = None
    <3>1. id \in Ids /\ u[id] \in Seq(FromClient) /\ b.pipe[id] \in Seq(ToClient) /\ b.service[id] = None
      BY <1>1, IdFacts DEF Kinds
    <3> QED
      BY <1>2, <2>2, <2>3, <3>1
  <2> QED
    BY <2>5, <2>6 DEF Kinds
<1>9. Linked(u, c)
  <2>1. b.pipe \in [Ids -> Seq(ToClient \cup ToWorker)]
    BY <1>1, BrokerFields
  <2>2. \A j \in Ids : ~Connected(j) => c.pipe[j] = b.pipe[j]
    BY <1>2, <2>1
  <2> QED
    BY <1>1, <1>2, <2>2 DEF Linked
<1>10. ASSUME NEW j \in WorkerIds PROVE Work(G, u, c, j)
  <2>1. Work(F, u, b, j)
    BY <1>1
  <2> QED
    BY <1>2, <1>7, <2>1 DEF Work
<1>11. View(u, c, h)
  BY <1>1, <1>2, <1>3, <1>8, <1>9, <1>10 DEF View
<1> QED
  BY <1>6, <1>7, <1>11

\* A worker registers.
LEMMA ViewRegister ==
    ASSUME NEW u, NEW b, NEW h, View(u, b, h), NEW w \in WorkerIds, NEW s \in Services,
           NEW c, Registered(b, w, s, c), Nowhere(FlowOf(u, b, h), JobsOf(w)), NoReady(u, w),
           ~(w[2] > made[w[1]])
    PROVE  View(u, c, h) /\ FlowOf(u, c, h) = FlowOf(u, b, h)
<1> PICK F : F = FlowOf(u, b, h)
  OBVIOUS
<1>1. /\ u \in Ups /\ h \in Ups /\ b \in Brokers /\ Lists(b) /\ Kinds(u, b) /\ Linked(u, b)
      /\ \A j \in WorkerIds : Work(F, u, b, j)
  BY DEF View
<1>2. /\ c \in Brokers /\ Lists(c)
      /\ c.service = [b.service EXCEPT ![w] = s] /\ c.waiting = b.waiting
      /\ c.requests = b.requests /\ c.pipe = b.pipe
  BY DEF Registered, Sound
<1>3. FlowOf(u, c, h) = F
  BY <1>2 DEF FlowOf
<1>4. \A j \in Ids : j # w => c.service[j] = b.service[j]
  <2>1. b.service \in [Ids -> Services \cup {None}]
    BY <1>1, BrokerFields
  <2> QED
    BY <1>2, <2>1
<1>5. Kinds(u, c)
  BY <1>1, <1>2, <1>4, IdFacts DEF Kinds
<1>6. Linked(u, c)
  BY <1>1, <1>2, <1>4 DEF Linked
<1>7. ASSUME NEW j \in WorkerIds PROVE Work(F, u, c, j)
  <2>1. Work(F, u, b, j)
    BY <1>1
  <2>2. CASE j = w
    BY <2>1, <2>2, <1>2 DEF Work, NoReady
  <2>3. CASE j # w
    <3>1. c.service[j] = b.service[j]
      BY <1>4, <2>3, IdFacts
    <3> QED
      BY <1>2, <2>1, <3>1 DEF Work
  <2> QED
    BY <2>2, <2>3
<1> QED
  BY <1>1, <1>2, <1>3, <1>5, <1>6, <1>7 DEF View

\* A worker that has nothing to do joins the lists.
LEMMA ViewJoin ==
    ASSUME NEW u, NEW b, NEW h, View(u, b, h), NEW w \in WorkerIds, NEW s,
           NEW c, Joined(b, w, s, c), Nowhere(FlowOf(u, b, h), JobsOf(w))
    PROVE  View(u, c, h) /\ FlowOf(u, c, h) = FlowOf(u, b, h)
<1> PICK F : F = FlowOf(u, b, h)
  OBVIOUS
<1>1. /\ u \in Ups /\ h \in Ups /\ b \in Brokers /\ Lists(b) /\ Kinds(u, b) /\ Linked(u, b)
      /\ \A j \in WorkerIds : Work(F, u, b, j)
  BY DEF View
<1>2. /\ c \in Brokers /\ Lists(c)
      /\ ToSet(c.waiting) = ToSet(b.waiting) \cup {w}
      /\ c.service = b.service /\ c.requests = b.requests /\ c.pipe = b.pipe
  BY DEF Joined
<1>3. FlowOf(u, c, h) = F
  BY <1>2 DEF FlowOf
<1>4. Kinds(u, c) /\ Linked(u, c)
  BY <1>1, <1>2 DEF Kinds, Linked
<1>5. ASSUME NEW j \in WorkerIds PROVE Work(F, u, c, j)
  <2>1. Work(F, u, b, j)
    BY <1>1
  <2> QED
    BY <1>2, <2>1 DEF Work
<1> QED
  BY <1>1, <1>2, <1>3, <1>4, <1>5 DEF View

\* A request is queued.
LEMMA ViewAsk ==
    ASSUME NEW u, NEW b, NEW h, View(u, b, h), NEW s \in Services, NEW r \in Pending,
           NEW c, Asked(b, s, r, c)
    PROVE  View(u, c, h) /\ FlowOf(u, c, h) = Put(FlowOf(u, b, h), Queue(s), r)
<1> PICK F : F = FlowOf(u, b, h)
  OBVIOUS
<1>1. /\ u \in Ups /\ h \in Ups /\ b \in Brokers /\ Lists(b) /\ Kinds(u, b) /\ Linked(u, b)
      /\ \A j \in WorkerIds : Work(F, u, b, j)
  BY DEF View
<1>2. /\ c \in Brokers /\ Lists(c)
      /\ c.service = b.service /\ c.waiting = b.waiting /\ c.pipe = b.pipe
      /\ c.requests = [b.requests EXCEPT ![s] = Append(b.requests[s], r)]
  BY DEF Asked
<1>3. r \in Msgs /\ F \in Flows /\ Queue(s) \in Places
  BY <1>1, MessageKinds, FlowOfFacts, PlaceCases DEF IsFlow
<1>4. FlowOf(u, c, h) = Put(F, Queue(s), r)
  BY <1>1, <1>2, <1>3, FlowPutQueue
<1>5. Kinds(u, c) /\ Linked(u, c)
  BY <1>1, <1>2 DEF Kinds, Linked
<1>6. ASSUME NEW j \in WorkerIds PROVE Work(Put(F, Queue(s), r), u, c, j)
  <2>1. Work(F, u, b, j)
    BY <1>1
  <2>2. r \notin JobsOf(j)[Queue(s)]
    BY <1>3, JobPlaces
  <2>3. /\ One(F, JobsOf(j)) => One(Put(F, Queue(s), r), JobsOf(j))
        /\ Nowhere(F, JobsOf(j)) => Nowhere(Put(F, Queue(s), r), JobsOf(j))
    BY <1>3, <2>2, FlowPut
  <2> QED
    BY <1>2, <2>1, <2>3 DEF Work
<1> QED
  BY <1>1, <1>2, <1>4, <1>5, <1>6 DEF View

\* Workers that have expired are deleted.
LEMMA ViewPurge ==
    ASSUME NEW u, NEW b, NEW h, View(u, b, h), NEW c, Purged(b, c)
    PROVE  View(u, c, h) /\ FlowOf(u, c, h) = FlowOf(u, b, h)
<1> PICK F : F = FlowOf(u, b, h)
  OBVIOUS
<1>1. /\ u \in Ups /\ h \in Ups /\ b \in Brokers /\ Lists(b) /\ Kinds(u, b) /\ Linked(u, b)
      /\ \A j \in WorkerIds : Work(F, u, b, j)
  BY DEF View
<1>2. /\ c \in Brokers /\ Lists(c)
      /\ ToSet(c.waiting) \subseteq ToSet(b.waiting)
      /\ \A i \in Ids : \/ c.service[i] = b.service[i]
                        \/ c.service[i] = None /\ i \in ToSet(b.waiting)
      /\ c.requests = b.requests /\ c.pipe = b.pipe
  BY DEF Purged
<1>3. FlowOf(u, c, h) = F
  BY <1>2 DEF FlowOf
<1>4. Kinds(u, c)
  <2>1. \A id \in ClientIds : c.service[id] = None
    BY <1>1, <1>2, IdFacts DEF Kinds
  <2> QED
    BY <1>1, <1>2, <2>1 DEF Kinds
<1>5. Linked(u, c)
  <2>1. \A id \in Ids : b.service[id] = None => c.service[id] = None
    BY <1>2
  <2> QED
    BY <1>1, <1>2, <2>1 DEF Linked
<1>6. ASSUME NEW j \in WorkerIds PROVE Work(F, u, c, j)
  <2>1. Work(F, u, b, j) /\ j \in Ids
    BY <1>1, IdFacts
  <2>2. \/ c.service[j] = b.service[j]
        \/ c.service[j] = None /\ j \in ToSet(b.waiting)
    BY <1>2, <2>1
  <2> QED
    BY <1>2, <2>1, <2>2 DEF Work
<1> QED
  BY <1>1, <1>2, <1>3, <1>4, <1>5, <1>6 DEF View

\* The request at the head of a queue is given to a waiting worker.
Handed(F, s, w, r, G) ==
    G = IF Connected(w) THEN Put(Take(F, Queue(s)), Pipe(w), RequestMsg(r.client, r.body))
        ELSE Take(F, Queue(s))

\* A request leaves its queue for a worker's pipe.
LEMMA ViewGive ==
    ASSUME NEW u, NEW b, NEW h, View(u, b, h), NEW s \in Services, NEW w, NEW r,
           NEW d, Given(b, s, w, r, d)
    PROVE  /\ View(u, d, h)
           /\ Handed(FlowOf(u, b, h), s, w, r, FlowOf(u, d, h))
           /\ FlowOf(u, b, h)[Queue(s)] # <<>> /\ r = Head(FlowOf(u, b, h)[Queue(s)])
<1> PICK F : F = FlowOf(u, b, h)
  OBVIOUS
<1> PICK G : G = FlowOf(u, d, h)
  OBVIOUS
<1>1. /\ u \in Ups /\ h \in Ups /\ b \in Brokers /\ Lists(b) /\ Kinds(u, b) /\ Linked(u, b)
      /\ \A j \in WorkerIds : Work(F, u, b, j)
  BY DEF View
<1>2. /\ d \in Brokers /\ Lists(d)
      /\ w \in WorkerIds /\ w \in ToSet(b.waiting) /\ b.service[w] = s
      /\ ToSet(d.waiting) = ToSet(b.waiting) \ {w}
      /\ r \in Pending /\ b.requests[s] # <<>> /\ r = Head(b.requests[s])
      /\ d.service = b.service
  BY DEF Given
<1> DEFINE m == RequestMsg(r.client, r.body)
           c == [b EXCEPT !.requests = [b.requests EXCEPT ![s] = Tail(b.requests[s])]]
<1>3. m \in ToWorker /\ m \in Msgs /\ m.kind = "REQUEST"
  BY <1>2, MessageKinds DEF RequestMsg, ToWorker, Pending
<1>4. w \in Ids /\ s # None
  BY <1>2, IdFacts, NetAssumption
<1> DEFINE rq == [b.requests EXCEPT ![s] = Tail(b.requests[s])]
<1>5. rq \in [Services -> Seq(Pending)]
  <2>1. b.requests \in [Services -> Seq(Pending)]
    BY <1>1, BrokerFields
  <2>2. Tail(b.requests[s]) \in Seq(Pending)
    BY <1>2, <2>1, HeadTailProperties
  <2> QED
    BY <2>1, <2>2
<1>6. c \in Brokers /\ c.requests = rq /\ c.pipe = b.pipe
  <2> HIDE DEF rq
  <2>1. c = [b EXCEPT !.requests = rq]
    BY Zenon DEF rq
  <2> HIDE DEF c
  <2> QED
    BY <1>1, <1>5, <2>1 DEF Brokers
<1> PICK E : E = FlowOf(u, c, h)
  OBVIOUS
<1>7. IsFlow(F, u, b, h) /\ F \in Flows /\ F[Queue(s)] = b.requests[s]
  <2>1. IsFlow(F, u, b, h)
    BY <1>1, FlowOfFacts
  <2> QED
    BY <2>1 DEF IsFlow
<1>8. Queue(s) \in Places /\ Pipe(w) \in Places
  BY <1>4, PlaceCases
<1> HIDE DEF c
<1>9. E = Take(F, Queue(s))
  <2>1. u \in Ups /\ h \in Ups /\ b \in Brokers /\ c \in Brokers /\ c.pipe = b.pipe
    BY <1>1, <1>6
  <2>2. c.requests = [b.requests EXCEPT ![s] = Tail(b.requests[s])]
    BY <1>6
  <2>3. FlowOf(u, c, h) = Take(FlowOf(u, b, h), Queue(s))
    BY <2>1, <2>2, FlowTakeQueue
  <2> QED
    BY <2>3
<1>10. E \in Flows
  BY <1>2, <1>7, <1>8, <1>9, FlowTake
<1>11. /\ d.requests = rq
       /\ d.pipe = IF Connected(w) THEN [b.pipe EXCEPT ![w] = Append(b.pipe[w], m)] ELSE b.pipe
  BY DEF Given
<1> HIDE DEF m
<1>12. G = IF Connected(w) THEN Put(E, Pipe(w), m) ELSE E
  <2>1. CASE Connected(w)
    <3>1. Appended(c.pipe, w, m, d.pipe) /\ d.requests = c.requests
      BY <1>6, <1>11, <2>1 DEF Appended
    <3>2. u \in Ups /\ h \in Ups /\ c \in Brokers /\ d \in Brokers
      BY <1>1, <1>2, <1>6
    <3>3. G = Put(E, Pipe(w), m)
      BY <1>4, <3>1, <3>2, FlowPutPipe
    <3> QED
      BY <2>1, <3>3
  <2>2. CASE ~Connected(w)
    BY <1>6, <1>11, <2>2 DEF FlowOf
  <2> QED
    BY <2>1, <2>2
<1> HIDE DEF rq
<1>13. ASSUME NEW j \in WorkerIds
       PROVE  /\ One(F, JobsOf(j)) /\ (j = w => Nowhere(F, JobsOf(j))) => One(G, JobsOf(j))
              /\ j # w /\ Nowhere(F, JobsOf(j)) => Nowhere(G, JobsOf(j))
  <2>1. /\ One(F, JobsOf(j)) => One(E, JobsOf(j))
        /\ Nowhere(F, JobsOf(j)) => Nowhere(E, JobsOf(j))
    BY <1>2, <1>7, <1>8, <1>9, FlowTake
  <2>2. m \in JobsOf(j)[Pipe(w)] => j = w
    BY <1>3, <1>4, JobPlaces
  <2>3. /\ One(E, JobsOf(j)) /\ (m \in JobsOf(j)[Pipe(w)] => Nowhere(E, JobsOf(j)))
             => One(Put(E, Pipe(w), m), JobsOf(j))
        /\ Nowhere(E, JobsOf(j)) /\ m \notin JobsOf(j)[Pipe(w)]
             => Nowhere(Put(E, Pipe(w), m), JobsOf(j))
    BY <1>3, <1>8, <1>10, FlowPut
  <2> QED
    BY <1>12, <2>1, <2>2, <2>3
<1>14. Nowhere(F, JobsOf(w)) /\ NoReady(u, w)
  <2>1. Work(F, u, b, w)
    BY <1>1, <1>2
  <2> QED
    BY <1>2, <1>4, <2>1 DEF Work, NoReady
<1>15. ASSUME NEW j \in WorkerIds PROVE Work(G, u, d, j)
  <2>1. Work(F, u, b, j)
    BY <1>1
  <2>2. CASE j = w
    <3>1. One(G, JobsOf(j)) /\ j \notin ToSet(d.waiting) /\ d.service[j] # None
      BY <1>2, <1>4, <1>13, <1>14, <2>1, <2>2 DEF Work
    <3> QED
      BY <1>14, <2>2, <3>1 DEF Work, NoReady
  <2>3. CASE j # w
    BY <1>2, <1>13, <2>1, <2>3 DEF Work
  <2> QED
    BY <2>2, <2>3
<1>16. Kinds(u, d)
  <2>1. b.pipe \in [Ids -> Seq(ToClient \cup ToWorker)]
    BY <1>1, BrokerFields
  <2>2. \A j \in Ids : d.pipe[j] = IF j = w /\ Connected(w) THEN Append(b.pipe[w], m) ELSE b.pipe[j]
    BY <1>11, <2>1
  <2>3. Append(b.pipe[w], m) \in Seq(ToWorker)
    <3>1. b.pipe[w] \in Seq(ToWorker)
      BY <1>1, <1>2 DEF Kinds
    <3> QED
      BY <1>3, <3>1, AppendProperties
  <2>4. ASSUME NEW id \in WorkerIds PROVE u[id] \in Seq(FromWorker) /\ d.pipe[id] \in Seq(ToWorker)
    <3>1. id \in Ids /\ u[id] \in Seq(FromWorker) /\ b.pipe[id] \in Seq(ToWorker)
      BY <1>1, IdFacts DEF Kinds
    <3> QED
      BY <2>2, <2>3, <3>1
  <2>5. ASSUME NEW id \in ClientIds
        PROVE  u[id] \in Seq(FromClient) /\ d.pipe[id] \in Seq(ToClient) /\ d.service[id] = None
    <3>1. id \in Ids /\ u[id] \in Seq(FromClient) /\ b.pipe[id] \in Seq(ToClient) /\ b.service[id] = None
      BY <1>1, IdFacts DEF Kinds
    <3>2. id # w
      BY <1>2, IdFacts
    <3> QED
      BY <1>2, <2>2, <3>1, <3>2
  <2> QED
    BY <2>4, <2>5 DEF Kinds
<1>17. Linked(u, d)
  <2>1. b.pipe \in [Ids -> Seq(ToClient \cup ToWorker)]
    BY <1>1, BrokerFields
  <2>2. \A j \in Ids : ~Connected(j) => d.pipe[j] = b.pipe[j]
    BY <1>11, <2>1
  <2> QED
    BY <1>1, <1>2, <2>2 DEF Linked
<1>18. View(u, d, h)
  BY <1>1, <1>2, <1>15, <1>16, <1>17 DEF View
<1>19. Handed(F, s, w, r, G)
  BY <1>9, <1>12 DEF Handed, m
<1> QED
  BY <1>2, <1>7, <1>18, <1>19

\* A dispatch: nothing happens to the messages, or one request is handed on.
LEMMA ViewDispatch ==
    ASSUME NEW u, NEW b, NEW h, View(u, b, h), NEW s \in Services, NEW d, Dispatched(b, s, d)
    PROVE  /\ View(u, d, h)
           /\ \/ FlowOf(u, d, h) = FlowOf(u, b, h)
              \/ \E w \in WorkerIds, r \in Pending :
                    /\ b.service[w] = s /\ d.service[w] = s
                    /\ Handed(FlowOf(u, b, h), s, w, r, FlowOf(u, d, h))
                    /\ FlowOf(u, b, h)[Queue(s)] # <<>>
                    /\ r = Head(FlowOf(u, b, h)[Queue(s)])
           /\ \A i \in Ids : d.service[i] = b.service[i] \/ d.service[i] = None
<1>1. PICK c \in Brokers :
         /\ Purged(b, c)
         /\ d = c \/ \E w \in WorkerIds, r \in Pending : Given(c, s, w, r, d)
  BY DEF Dispatched
<1>2. View(u, c, h) /\ FlowOf(u, c, h) = FlowOf(u, b, h)
  BY <1>1, ViewPurge
<1>3. \A i \in Ids : c.service[i] = b.service[i] \/ c.service[i] = None
  BY <1>1 DEF Purged
<1>4. CASE d = c
  BY <1>2, <1>3, <1>4
<1>5. ASSUME NEW w \in WorkerIds, NEW r \in Pending, Given(c, s, w, r, d)
      PROVE  /\ View(u, d, h)
             /\ Handed(FlowOf(u, b, h), s, w, r, FlowOf(u, d, h))
             /\ FlowOf(u, b, h)[Queue(s)] # <<>> /\ r = Head(FlowOf(u, b, h)[Queue(s)])
             /\ b.service[w] = s /\ d.service[w] = s /\ d.service = c.service
  <2>1. /\ View(u, d, h)
        /\ Handed(FlowOf(u, c, h), s, w, r, FlowOf(u, d, h))
        /\ FlowOf(u, c, h)[Queue(s)] # <<>> /\ r = Head(FlowOf(u, c, h)[Queue(s)])
    BY <1>2, <1>5, ViewGive
  <2>2. c.service[w] = s /\ d.service = c.service
    BY <1>5 DEF Given
  <2>3. b.service[w] = s
    <3>1. w \in Ids /\ s # None
      BY IdFacts, NetAssumption
    <3> QED
      BY <1>3, <2>2, <3>1
  <2> QED
    BY <1>2, <2>1, <2>2, <2>3
<1> QED
  BY <1>1, <1>3, <1>4, <1>5, Zenon

-----------------------------------------------------------------------------
(* Copies of requests *)

\* The copies of what the socket id has sent, with a body in X and, as long as
\* the service is in the message, one in S.
CopiesOf(id, X, S) ==
    [p \in Places |->
        {m \in Msgs : /\ IsCopy(p, m, id) /\ m.body \in X
                      /\ p[1] \in {"up", "pipe"} /\ m.kind \in {"CLIENT", "ANSWER"}
                           => m.service \in S}]

\* m, at p, is for a service of S, and its body is in X unless the broker made it.
Fits(p, m, sv, S, X) ==
    IF p[1] = "queue" THEN p[2] \in S /\ m.body \in X
    ELSE IF p[1] = "busy" THEN sv[p[2]] \in S \cup {None} /\ m.body \in X
    ELSE IF m.kind = "CLIENT" THEN m.service \in S /\ m.body \in X
    ELSE IF m.kind = "ANSWER" THEN m.service \in S /\ (m.service \in MmiNames \/ m.body \in X)
    ELSE sv[p[2]] \in S \cup {None} /\ m.body \in X

Misfits(sv, id, S, X) ==
    [p \in Places |-> {m \in Msgs : IsCopy(p, m, id) /\ ~Fits(p, m, sv, S, X)}]

\* What a copy is, by kind of place.
LEMMA CopyCases ==
    ASSUME NEW id, NEW m, NEW j
    PROVE  /\ IsCopy(Up(j), m, id) <=> \/ m.kind = "CLIENT" /\ j = id
                                       \/ m.kind = "REPLY" /\ m.client = id
           /\ IsCopy(Pipe(j), m, id) <=> \/ m.kind = "ANSWER" /\ j = id
                                         \/ m.kind = "REQUEST" /\ m.client = id
           /\ IsCopy(Busy(j), m, id) <=> m.client = id
           /\ IsCopy(Queue(j), m, id) <=> m.client = id
  BY DEF IsCopy, Up, Pipe, Busy, Queue

\* The definition of CopiesOf at one place.
LEMMA CopyAt ==
    ASSUME NEW id, NEW X, NEW S, NEW m \in Msgs, NEW p \in Places
    PROVE  m \in CopiesOf(id, X, S)[p] <=>
              /\ IsCopy(p, m, id) /\ m.body \in X
              /\ p[1] \in {"up", "pipe"} /\ m.kind \in {"CLIENT", "ANSWER"} => m.service \in S
  BY DEF CopiesOf

\* The definition of Misfits at one place.
LEMMA MisfitAt ==
    ASSUME NEW sv, NEW id, NEW X, NEW S, NEW m \in Msgs, NEW p \in Places
    PROVE  m \in Misfits(sv, id, S, X)[p] <=> IsCopy(p, m, id) /\ ~Fits(p, m, sv, S, X)
  BY DEF Misfits

\* Copies on the way to the broker.
LEMMA CopyUp ==
    ASSUME NEW id, NEW X, NEW S, NEW m \in Msgs, NEW j \in Ids
    PROVE  m \in CopiesOf(id, X, S)[Up(j)] <=>
              /\ m.body \in X
              /\ \/ m.kind = "CLIENT" /\ j = id /\ m.service \in S
                 \/ m.kind = "REPLY" /\ m.client = id
<1>1. Up(j) \in Places /\ Up(j)[1] = "up" /\ Up(j)[2] = j
  BY PlaceCases
<1>2. IsCopy(Up(j), m, id) <=> \/ m.kind = "CLIENT" /\ j = id
                               \/ m.kind = "REPLY" /\ m.client = id
  BY CopyCases
<1> QED
  BY <1>1, <1>2, CopyAt

\* Copies on the way from the broker.
LEMMA CopyPipe ==
    ASSUME NEW id, NEW X, NEW S, NEW m \in Msgs, NEW j \in Ids
    PROVE  m \in CopiesOf(id, X, S)[Pipe(j)] <=>
              /\ m.body \in X
              /\ \/ m.kind = "ANSWER" /\ j = id /\ m.service \in S
                 \/ m.kind = "REQUEST" /\ m.client = id
<1>1. Pipe(j) \in Places /\ Pipe(j)[1] = "pipe" /\ Pipe(j)[2] = j
  BY PlaceCases
<1>2. IsCopy(Pipe(j), m, id) <=> \/ m.kind = "ANSWER" /\ j = id
                                 \/ m.kind = "REQUEST" /\ m.client = id
  BY CopyCases
<1> QED
  BY <1>1, <1>2, CopyAt

\* Copies in a worker's hands.
LEMMA CopyBusy ==
    ASSUME NEW id, NEW X, NEW S, NEW m \in Msgs, NEW j \in Ids
    PROVE  m \in CopiesOf(id, X, S)[Busy(j)] <=> m.client = id /\ m.body \in X
<1>1. Busy(j) \in Places /\ Busy(j)[1] = "busy"
  BY PlaceCases
<1>2. IsCopy(Busy(j), m, id) <=> m.client = id
  BY CopyCases
<1> QED
  BY <1>1, <1>2, CopyAt

\* Copies in a service's queue.
LEMMA CopyQueue ==
    ASSUME NEW id, NEW X, NEW S, NEW m \in Msgs, NEW s \in Services
    PROVE  m \in CopiesOf(id, X, S)[Queue(s)] <=> m.client = id /\ m.body \in X
<1>1. Queue(s) \in Places /\ Queue(s)[1] = "queue"
  BY PlaceCases
<1>2. IsCopy(Queue(s), m, id) <=> m.client = id
  BY CopyCases
<1> QED
  BY <1>1, <1>2, CopyAt

\* Misfits on the way to the broker.
LEMMA MisfitUp ==
    ASSUME NEW sv, NEW id, NEW S, NEW X, NEW m \in Msgs, NEW j \in Ids
    PROVE  m \in Misfits(sv, id, S, X)[Up(j)] <=>
              \/ m.kind = "CLIENT" /\ j = id /\ ~(m.service \in S /\ m.body \in X)
              \/ m.kind = "REPLY" /\ m.client = id /\ ~(sv[j] \in S \cup {None} /\ m.body \in X)
<1>1. Up(j) \in Places /\ Up(j)[1] = "up" /\ Up(j)[2] = j
  BY PlaceCases
<1>2. IsCopy(Up(j), m, id) <=> \/ m.kind = "CLIENT" /\ j = id
                               \/ m.kind = "REPLY" /\ m.client = id
  BY CopyCases
<1> QED
  BY <1>1, <1>2, MisfitAt DEF Fits

\* Misfits on the way from the broker.
LEMMA MisfitPipe ==
    ASSUME NEW sv, NEW id, NEW S, NEW X, NEW m \in Msgs, NEW j \in Ids
    PROVE  m \in Misfits(sv, id, S, X)[Pipe(j)] <=>
              \/ /\ m.kind = "ANSWER" /\ j = id
                 /\ ~(m.service \in S /\ (m.service \in MmiNames \/ m.body \in X))
              \/ m.kind = "REQUEST" /\ m.client = id /\ ~(sv[j] \in S \cup {None} /\ m.body \in X)
<1>1. Pipe(j) \in Places /\ Pipe(j)[1] = "pipe" /\ Pipe(j)[2] = j
  BY PlaceCases
<1>2. IsCopy(Pipe(j), m, id) <=> \/ m.kind = "ANSWER" /\ j = id
                                 \/ m.kind = "REQUEST" /\ m.client = id
  BY CopyCases
<1>3. /\ m.kind = "ANSWER" => (Fits(Pipe(j), m, sv, S, X)
                                  <=> m.service \in S /\ (m.service \in MmiNames \/ m.body \in X))
      /\ m.kind = "REQUEST" => (Fits(Pipe(j), m, sv, S, X)
                                   <=> sv[j] \in S \cup {None} /\ m.body \in X)
  BY <1>1 DEF Fits
<1> QED
  BY <1>1, <1>2, <1>3, MisfitAt

\* Misfits in a worker's hands.
LEMMA MisfitBusy ==
    ASSUME NEW sv, NEW id, NEW S, NEW X, NEW m \in Msgs, NEW j \in Ids
    PROVE  m \in Misfits(sv, id, S, X)[Busy(j)] <=>
              m.client = id /\ ~(sv[j] \in S \cup {None} /\ m.body \in X)
<1>1. Busy(j) \in Places /\ Busy(j)[1] = "busy" /\ Busy(j)[2] = j
  BY PlaceCases
<1>2. IsCopy(Busy(j), m, id) <=> m.client = id
  BY CopyCases
<1> QED
  BY <1>1, <1>2, MisfitAt DEF Fits

\* Misfits in a service's queue.
LEMMA MisfitQueue ==
    ASSUME NEW sv, NEW id, NEW S, NEW X, NEW m \in Msgs, NEW s \in Services
    PROVE  m \in Misfits(sv, id, S, X)[Queue(s)] <=> m.client = id /\ ~(s \in S /\ m.body \in X)
<1>1. Queue(s) \in Places /\ Queue(s)[1] = "queue" /\ Queue(s)[2] = s
  BY PlaceCases
<1>2. IsCopy(Queue(s), m, id) <=> m.client = id
  BY CopyCases
<1>3. Fits(Queue(s), m, sv, S, X) <=> s \in S /\ m.body \in X
  BY <1>1 DEF Fits
<1> QED
  BY <1>1, <1>2, <1>3, MisfitAt

-----------------------------------------------------------------------------
(* Steps that neither duplicate nor invent, and steps that do not lose *)

Kept(F, G, T) == (One(F, T) => One(G, T)) /\ (Nowhere(F, T) => Nowhere(G, T))
Saved(F, G, T) == ~Nowhere(F, T) => ~Nowhere(G, T)

\* Steps that keep and save can be put together.
LEMMA KeptTrans ==
    ASSUME NEW F, NEW G, NEW H, NEW T
    PROVE  /\ Kept(F, F, T) /\ Saved(F, F, T)
           /\ Kept(F, G, T) /\ Kept(G, H, T) => Kept(F, H, T)
           /\ Saved(F, G, T) /\ Saved(G, H, T) => Saved(F, H, T)
  BY DEF Kept, Saved

\* Taking a message duplicates nothing.
LEMMA KeptTake ==
    ASSUME NEW F \in Flows, NEW p \in Places, F[p] # <<>>, NEW T
    PROVE  /\ Take(F, p) \in Flows
           /\ Kept(F, Take(F, p), T)
           /\ Head(F[p]) \notin T[p] => Saved(F, Take(F, p), T)
<1>1. /\ Take(F, p) \in Flows
      /\ One(F, T) => One(Take(F, p), T)
      /\ Nowhere(F, T) => Nowhere(Take(F, p), T)
      /\ ~Nowhere(F, T) /\ Head(F[p]) \notin T[p] => ~Nowhere(Take(F, p), T)
  BY FlowTake
<1> QED
  BY <1>1 DEF Kept, Saved

\* Putting a message loses nothing.
LEMMA KeptPut ==
    ASSUME NEW F \in Flows, NEW p \in Places, NEW m \in Msgs, NEW T
    PROVE  /\ Put(F, p, m) \in Flows
           /\ m \notin T[p] => Kept(F, Put(F, p, m), T)
           /\ Saved(F, Put(F, p, m), T)
<1>1. /\ Put(F, p, m) \in Flows
      /\ One(F, T) /\ (m \in T[p] => Nowhere(F, T)) => One(Put(F, p, m), T)
      /\ Nowhere(F, T) /\ m \notin T[p] => Nowhere(Put(F, p, m), T)
      /\ ~Nowhere(F, T) \/ m \in T[p] => ~Nowhere(Put(F, p, m), T)
  BY FlowPut
<1> QED
  BY <1>1 DEF Kept, Saved

\* A message is taken and passed on in another form.
LEMMA KeptMove ==
    ASSUME NEW F \in Flows, NEW p \in Places, F[p] # <<>>, NEW q \in Places, NEW m \in Msgs, NEW T
    PROVE  /\ Put(Take(F, p), q, m) \in Flows
           /\ (m \in T[q] => Head(F[p]) \in T[p]) => Kept(F, Put(Take(F, p), q, m), T)
           /\ (Head(F[p]) \in T[p] => m \in T[q]) => Saved(F, Put(Take(F, p), q, m), T)
<1> PICK G : G = Take(F, p)
  OBVIOUS
<1>1. /\ G \in Flows
      /\ One(F, T) => One(G, T)
      /\ Nowhere(F, T) => Nowhere(G, T) /\ Head(F[p]) \notin T[p]
      /\ One(F, T) /\ Head(F[p]) \in T[p] => Nowhere(G, T)
      /\ ~Nowhere(F, T) /\ Head(F[p]) \notin T[p] => ~Nowhere(G, T)
  BY FlowTake
<1>2. /\ Put(G, q, m) \in Flows
      /\ One(G, T) /\ (m \in T[q] => Nowhere(G, T)) => One(Put(G, q, m), T)
      /\ Nowhere(G, T) /\ m \notin T[q] => Nowhere(Put(G, q, m), T)
      /\ ~Nowhere(G, T) \/ m \in T[q] => ~Nowhere(Put(G, q, m), T)
  BY <1>1, FlowPut
<1> QED
  BY <1>1, <1>2 DEF Kept, Saved

\* Steps that keep or empty each queue.
LEMMA KeptDrop ==
    ASSUME NEW F, NEW G, \A p \in Places : G[p] = F[p] \/ G[p] = <<>>, NEW T
    PROVE  Kept(F, G, T)
<1>1. \A p \in Places : /\ Has(G[p], T[p]) => Has(F[p], T[p])
                        /\ Once(F[p], T[p]) => Once(G[p], T[p])
  BY HasShort
<1> QED
  BY <1>1, FlowFrame DEF Kept

Same(r, m) == m.client = r.client /\ m.body = r.body

\* T, for registrations sv: a request that is passed on was in T before.  It
\* is asked, or answered by the broker, given to a worker, worked on, answered.
TameAsk(T) ==
    \A id \in ClientIds, m \in FromClient, r \in Pending :
       m.service \in Services /\ r.client = id /\ r.body = m.body /\ r \in T[Queue(m.service)]
          => m \in T[Up(id)]

TameMmi(T) ==
    \A id \in ClientIds, m \in FromClient, a \in ToClient :
       m.service \in MmiNames /\ a.service = m.service /\ a \in T[Pipe(id)] => m \in T[Up(id)]

TameGive(sv, T) ==
    \A w \in WorkerIds, r \in Pending, q \in ToWorker :
       q.kind = "REQUEST" /\ Same(r, q) /\ sv[w] \in Services /\ q \in T[Pipe(w)]
          => r \in T[Queue(sv[w])]

TameStart(T) ==
    \A w \in WorkerIds, r \in Pending, q \in ToWorker :
       q.kind = "REQUEST" /\ Same(r, q) /\ r \in T[Busy(w)] => q \in T[Pipe(w)]

TameWork(T) ==
    \A w \in WorkerIds, r \in Pending, y \in FromWorker :
       y.kind = "REPLY" /\ Same(r, y) /\ y \in T[Up(w)] => r \in T[Busy(w)]

TameAnswer(sv, T) ==
    \A w \in WorkerIds, y \in FromWorker, a \in ToClient :
       (y.kind = "REPLY" /\ sv[w] \in Services /\ a.service = sv[w] /\ a.body = y.body
        /\ a \in T[Pipe(y.client)])
          => y \in T[Up(w)]

TameRest(T) ==
    \A w \in WorkerIds : /\ \A m \in FromWorker : m.kind # "REPLY" => m \notin T[Up(w)]
                         /\ \A m \in ToWorker : m.kind # "REQUEST" => m \notin T[Pipe(w)]

Tame(sv, T) ==
    /\ TameAsk(T) /\ TameMmi(T) /\ TameGive(sv, T) /\ TameStart(T) /\ TameWork(T)
    /\ TameAnswer(sv, T) /\ TameRest(T)

\* Copies come from copies.
LEMMA CopiesTame ==
    ASSUME NEW sv, NEW id \in ClientIds, NEW X, NEW S, Services \subseteq S,
           Bodies \subseteq X \/ S \cap MmiNames = {}
    PROVE  Tame(sv, CopiesOf(id, X, S))
<1> DEFINE T == CopiesOf(id, X, S)
<1>0. /\ WorkerIds \subseteq Ids /\ ClientIds \subseteq Ids
      /\ WorkerIds \cap ClientIds = {}
  BY IdFacts
<1>1. ASSUME NEW i \in ClientIds, NEW m \in FromClient, NEW r \in Pending,
             m.service \in Services, r.client = i, r.body = m.body, r \in T[Queue(m.service)]
      PROVE  m \in T[Up(i)]
  <2>1. i \in Ids /\ m \in Msgs /\ r \in Msgs /\ m.kind = "CLIENT"
    BY <1>0, MessageKinds
  <2>2. r.client = id /\ r.body \in X
    <3> PICK s \in Services : s = m.service
      BY <1>1
    <3>1. r \in CopiesOf(id, X, S)[Queue(s)]
      BY <1>1
    <3> QED
      BY <2>1, <3>1, CopyQueue
  <2> QED
    BY <1>1, <2>1, <2>2, CopyUp
<1>2. ASSUME NEW i \in ClientIds, NEW m \in FromClient, NEW a \in ToClient,
             m.service \in MmiNames, a.service = m.service, a \in T[Pipe(i)]
      PROVE  m \in T[Up(i)]
  <2>1. /\ i \in Ids /\ m \in Msgs /\ a \in Msgs /\ m.kind = "CLIENT" /\ a.kind = "ANSWER"
        /\ m.body \in Bodies
    BY <1>0, MessageKinds
  <2>2. a \in CopiesOf(id, X, S)[Pipe(i)] <=>
              /\ a.body \in X
              /\ \/ a.kind = "ANSWER" /\ i = id /\ a.service \in S
                 \/ a.kind = "REQUEST" /\ a.client = id
    BY <2>1, CopyPipe
  <2>3. i = id /\ a.service \in S
    BY <1>2, <2>1, <2>2
  <2>4. Bodies \subseteq X
    BY <1>2, <2>3
  <2> QED
    BY <1>2, <2>1, <2>3, <2>4, CopyUp
<1>3. ASSUME NEW w \in WorkerIds, NEW r \in Pending, NEW q \in ToWorker,
             q.kind = "REQUEST", Same(r, q)
      PROVE  /\ sv[w] \in Services /\ q \in T[Pipe(w)] => r \in T[Queue(sv[w])]
             /\ r \in T[Busy(w)] => q \in T[Pipe(w)]
  <2>1. w \in Ids /\ q \in Msgs /\ r \in Msgs
    BY <1>0, MessageKinds
  <2>2. q \in CopiesOf(id, X, S)[Pipe(w)] <=>
              /\ q.body \in X
              /\ \/ q.kind = "ANSWER" /\ w = id /\ q.service \in S
                 \/ q.kind = "REQUEST" /\ q.client = id
    BY <2>1, CopyPipe
  <2>3. q \in T[Pipe(w)] <=> r.client = id /\ r.body \in X
    BY <1>3, <2>2 DEF Same
  <2>4. r \in T[Busy(w)] <=> r.client = id /\ r.body \in X
    BY <2>1, CopyBusy
  <2>5. sv[w] \in Services => (r \in T[Queue(sv[w])] <=> r.client = id /\ r.body \in X)
    BY <2>1, CopyQueue
  <2> QED
    BY <2>3, <2>4, <2>5
<1>4. ASSUME NEW w \in WorkerIds, NEW r \in Pending, NEW y \in FromWorker,
             y.kind = "REPLY", Same(r, y), y \in T[Up(w)]
      PROVE  r \in T[Busy(w)]
  <2>1. w \in Ids /\ y \in Msgs /\ r \in Msgs
    BY <1>0, MessageKinds
  <2>2. y \in CopiesOf(id, X, S)[Up(w)] <=>
              /\ y.body \in X
              /\ \/ y.kind = "CLIENT" /\ w = id /\ y.service \in S
                 \/ y.kind = "REPLY" /\ y.client = id
    BY <2>1, CopyUp
  <2>3. r.client = id /\ r.body \in X
    BY <1>4, <2>2 DEF Same
  <2> QED
    BY <2>1, <2>3, CopyBusy
<1>5. ASSUME NEW w \in WorkerIds, NEW y \in FromWorker, NEW a \in ToClient,
             y.kind = "REPLY", sv[w] \in Services, a.service = sv[w], a.body = y.body,
             a \in T[Pipe(y.client)]
      PROVE  y \in T[Up(w)]
  <2>1. w \in Ids /\ y \in Msgs /\ a \in Msgs /\ y.client \in Ids /\ a.kind = "ANSWER"
    BY <1>0, <1>5, MessageKinds
  <2>2. y.client = id /\ y.body \in X
    BY <1>5, <2>1, CopyPipe
  <2> QED
    BY <1>5, <2>1, <2>2, CopyUp
<1>6. ASSUME NEW w \in WorkerIds
      PROVE  /\ \A m \in FromWorker : m.kind # "REPLY" => m \notin T[Up(w)]
             /\ \A m \in ToWorker : m.kind # "REQUEST" => m \notin T[Pipe(w)]
  <2>1. w \in Ids /\ w # id
    BY <1>0
  <2>2. ASSUME NEW m \in FromWorker, m.kind # "REPLY"
        PROVE  m \notin T[Up(w)]
    <3>1. m \in Msgs
      BY MessageKinds
    <3>2. m \in CopiesOf(id, X, S)[Up(w)] <=>
              /\ m.body \in X
              /\ \/ m.kind = "CLIENT" /\ w = id /\ m.service \in S
                 \/ m.kind = "REPLY" /\ m.client = id
      BY <2>1, <3>1, CopyUp
    <3> QED
      BY <2>1, <2>2, <3>2
  <2>3. ASSUME NEW m \in ToWorker, m.kind # "REQUEST"
        PROVE  m \notin T[Pipe(w)]
    <3>1. m \in Msgs
      BY MessageKinds
    <3>2. m \in CopiesOf(id, X, S)[Pipe(w)] <=>
              /\ m.body \in X
              /\ \/ m.kind = "ANSWER" /\ w = id /\ m.service \in S
                 \/ m.kind = "REQUEST" /\ m.client = id
      BY <2>1, <3>1, CopyPipe
    <3> QED
      BY <2>1, <2>3, <3>2
  <2> QED
    BY <2>2, <2>3
<1> HIDE DEF T
<1>7. TameAsk(T)
  BY <1>1, Zenon DEF TameAsk
<1>8. TameMmi(T)
  BY <1>2, Zenon DEF TameMmi
<1>9. TameGive(sv, T) /\ TameStart(T)
  BY <1>3, Zenon DEF TameGive, TameStart
<1>10. TameWork(T)
  BY <1>4, Zenon DEF TameWork
<1>11. TameAnswer(sv, T)
  BY <1>5, Zenon DEF TameAnswer
<1>12. TameRest(T)
  BY <1>6, Zenon DEF TameRest
<1>13. Tame(sv, T)
  BY <1>7, <1>8, <1>9, <1>10, <1>11, <1>12 DEF Tame
<1> QED
  BY <1>13 DEF T

\* Misfits come from misfits: a request keeps its service and its body.
LEMMA MisfitsTame ==
    ASSUME NEW sv, NEW id \in ClientIds, NEW X, NEW S
    PROVE  Tame(sv, Misfits(sv, id, S, X))
<1> DEFINE T == Misfits(sv, id, S, X)
<1>0. /\ WorkerIds \subseteq Ids /\ ClientIds \subseteq Ids
      /\ WorkerIds \cap ClientIds = {} /\ None \notin Services /\ Services \cap MmiNames = {}
  BY IdFacts, NetAssumption
<1>q. \A r \in Msgs, s \in Services :
         r \in Misfits(sv, id, S, X)[Queue(s)] <=> r.client = id /\ ~(s \in S /\ r.body \in X)
  BY MisfitQueue
<1>1. ASSUME NEW i \in ClientIds, NEW m \in FromClient, NEW r \in Pending,
             m.service \in Services, r.client = i, r.body = m.body, r \in T[Queue(m.service)]
      PROVE  m \in T[Up(i)]
  <2>1. i \in Ids /\ m \in Msgs /\ r \in Msgs
    BY <1>0, MessageKinds
  <2>3. m.kind = "CLIENT"
    BY MessageKinds
  <2>2. r.client = id /\ ~(m.service \in S /\ r.body \in X)
    <3>0. PICK s \in Services : s = m.service
      BY <1>1
    <3>1. r \in Misfits(sv, id, S, X)[Queue(s)]
      BY <1>1, <3>0
    <3>2. r \in Misfits(sv, id, S, X)[Queue(s)] <=> r.client = id /\ ~(s \in S /\ r.body \in X)
      BY <2>1, <1>q, Zenon
    <3> QED
      BY <3>0, <3>1, <3>2
  <2> QED
    <3>1. m \in Misfits(sv, id, S, X)[Up(i)] <=>
              \/ m.kind = "CLIENT" /\ i = id /\ ~(m.service \in S /\ m.body \in X)
              \/ m.kind = "REPLY" /\ m.client = id /\ ~(sv[i] \in S \cup {None} /\ m.body \in X)
      BY <2>1, MisfitUp
    <3> QED
      BY <1>1, <2>3, <2>2, <3>1
<1>2. ASSUME NEW i \in ClientIds, NEW m \in FromClient, NEW a \in ToClient,
             m.service \in MmiNames, a.service = m.service, a \in T[Pipe(i)]
      PROVE  m \in T[Up(i)]
  <2>1. /\ i \in Ids /\ m \in Msgs /\ a \in Msgs /\ m.kind = "CLIENT" /\ a.kind = "ANSWER"
    BY <1>0, MessageKinds
  <2>2. a \in Misfits(sv, id, S, X)[Pipe(i)] <=>
              \/ /\ a.kind = "ANSWER" /\ i = id
                 /\ ~(a.service \in S /\ (a.service \in MmiNames \/ a.body \in X))
              \/ a.kind = "REQUEST" /\ a.client = id /\ ~(sv[i] \in S \cup {None} /\ a.body \in X)
    BY <2>1, MisfitPipe
  <2>3. i = id /\ m.service \notin S
    BY <1>2, <2>1, <2>2
  <2> QED
    BY <2>1, <2>3, MisfitUp
<1>3. ASSUME NEW w \in WorkerIds, NEW r \in Pending, NEW q \in ToWorker,
             q.kind = "REQUEST", Same(r, q)
      PROVE  /\ sv[w] \in Services /\ q \in T[Pipe(w)] => r \in T[Queue(sv[w])]
             /\ r \in T[Busy(w)] => q \in T[Pipe(w)]
  <2>1. w \in Ids /\ q \in Msgs /\ r \in Msgs
    BY <1>0, MessageKinds
  <2>2. q \in Misfits(sv, id, S, X)[Pipe(w)] <=>
              \/ /\ q.kind = "ANSWER" /\ w = id
                 /\ ~(q.service \in S /\ (q.service \in MmiNames \/ q.body \in X))
              \/ q.kind = "REQUEST" /\ q.client = id /\ ~(sv[w] \in S \cup {None} /\ q.body \in X)
    BY <2>1, MisfitPipe
  <2>3. q \in T[Pipe(w)] <=> r.client = id /\ ~(sv[w] \in S \cup {None} /\ r.body \in X)
    BY <1>3, <2>2 DEF Same
  <2>4. r \in T[Busy(w)] <=> r.client = id /\ ~(sv[w] \in S \cup {None} /\ r.body \in X)
    BY <2>1, MisfitBusy
  <2>5. sv[w] \in Services => (r \in T[Queue(sv[w])] <=> r.client = id /\ ~(sv[w] \in S /\ r.body \in X))
    <3>1. \A s \in Services :
             r \in Misfits(sv, id, S, X)[Queue(s)] <=> r.client = id /\ ~(s \in S /\ r.body \in X)
      BY <2>1, <1>q, Zenon
    <3> QED
      BY <3>1, Zenon
  <2> HIDE DEF T
  <2> QED
    BY <2>3, <2>4, <2>5
<1>4. ASSUME NEW w \in WorkerIds, NEW r \in Pending, NEW y \in FromWorker,
             y.kind = "REPLY", Same(r, y), y \in T[Up(w)]
      PROVE  r \in T[Busy(w)]
  <2>1. w \in Ids /\ y \in Msgs /\ r \in Msgs
    BY <1>0, MessageKinds
  <2>2. y \in Misfits(sv, id, S, X)[Up(w)] <=>
              \/ y.kind = "CLIENT" /\ w = id /\ ~(y.service \in S /\ y.body \in X)
              \/ y.kind = "REPLY" /\ y.client = id /\ ~(sv[w] \in S \cup {None} /\ y.body \in X)
    BY <2>1, MisfitUp
  <2>3. r.client = id /\ ~(sv[w] \in S \cup {None} /\ r.body \in X)
    BY <1>4, <2>2 DEF Same
  <2> QED
    BY <2>1, <2>3, MisfitBusy
<1>5. ASSUME NEW w \in WorkerIds, NEW y \in FromWorker, NEW a \in ToClient,
             y.kind = "REPLY", sv[w] \in Services, a.service = sv[w], a.body = y.body,
             a \in T[Pipe(y.client)]
      PROVE  y \in T[Up(w)]
  <2>1. w \in Ids /\ y \in Msgs /\ a \in Msgs /\ y.client \in Ids
    BY <1>0, <1>5, MessageKinds
  <2>4. a.kind = "ANSWER"
    BY MessageKinds
  <2>2. a \in Misfits(sv, id, S, X)[Pipe(y.client)] <=>
              \/ /\ a.kind = "ANSWER" /\ y.client = id
                 /\ ~(a.service \in S /\ (a.service \in MmiNames \/ a.body \in X))
              \/ /\ a.kind = "REQUEST" /\ a.client = id
                 /\ ~(sv[y.client] \in S \cup {None} /\ a.body \in X)
    <3>0. PICK j \in Ids : j = y.client
      BY <2>1
    <3>1. a \in Misfits(sv, id, S, X)[Pipe(j)] <=>
              \/ /\ a.kind = "ANSWER" /\ j = id
                 /\ ~(a.service \in S /\ (a.service \in MmiNames \/ a.body \in X))
              \/ a.kind = "REQUEST" /\ a.client = id /\ ~(sv[j] \in S \cup {None} /\ a.body \in X)
      BY <2>1, MisfitPipe
    <3> QED
      BY <3>0, <3>1
  <2>3. y.client = id /\ ~(sv[w] \in S \cup {None} /\ y.body \in X)
    BY <1>0, <1>5, <2>4, <2>2
  <2> QED
    BY <1>5, <2>1, <2>3, MisfitUp
<1>6. ASSUME NEW w \in WorkerIds
      PROVE  /\ \A m \in FromWorker : m.kind # "REPLY" => m \notin T[Up(w)]
             /\ \A m \in ToWorker : m.kind # "REQUEST" => m \notin T[Pipe(w)]
  <2>1. w \in Ids /\ w # id
    BY <1>0
  <2>2. ASSUME NEW m \in FromWorker, m.kind # "REPLY"
        PROVE  m \notin T[Up(w)]
    <3>1. m \in Msgs
      BY MessageKinds
    <3>2. m \in Misfits(sv, id, S, X)[Up(w)] <=>
              \/ m.kind = "CLIENT" /\ w = id /\ ~(m.service \in S /\ m.body \in X)
              \/ m.kind = "REPLY" /\ m.client = id /\ ~(sv[w] \in S \cup {None} /\ m.body \in X)
      BY <2>1, <3>1, MisfitUp
    <3> QED
      BY <2>1, <2>2, <3>2
  <2>3. ASSUME NEW m \in ToWorker, m.kind # "REQUEST"
        PROVE  m \notin T[Pipe(w)]
    <3>1. m \in Msgs
      BY MessageKinds
    <3>2. m \in Misfits(sv, id, S, X)[Pipe(w)] <=>
              \/ /\ m.kind = "ANSWER" /\ w = id
                 /\ ~(m.service \in S /\ (m.service \in MmiNames \/ m.body \in X))
              \/ m.kind = "REQUEST" /\ m.client = id /\ ~(sv[w] \in S \cup {None} /\ m.body \in X)
      BY <2>1, <3>1, MisfitPipe
    <3> QED
      BY <2>1, <2>3, <3>2
  <2> QED
    BY <2>2, <2>3
<1> HIDE DEF T
<1>7. TameAsk(T)
  BY <1>1, Zenon DEF TameAsk
<1>8. TameMmi(T)
  BY <1>2, Zenon DEF TameMmi
<1>9. TameGive(sv, T) /\ TameStart(T)
  BY <1>3, Zenon DEF TameGive, TameStart
<1>10. TameWork(T)
  BY <1>4, Zenon DEF TameWork
<1>11. TameAnswer(sv, T)
  BY <1>5, Zenon DEF TameAnswer
<1>12. TameRest(T)
  BY <1>6, Zenon DEF TameRest
<1>13. Tame(sv, T)
  BY <1>7, <1>8, <1>9, <1>10, <1>11, <1>12 DEF Tame
<1> QED
  BY <1>13 DEF T

\* The other way round: what is passed on is in T when it was before.
LoyalAsk(T) ==
    \A id \in ClientIds, m \in FromClient, r \in Pending :
       m.service \in Services /\ r.client = id /\ r.body = m.body /\ m \in T[Up(id)]
          => r \in T[Queue(m.service)]

LoyalMmi(T) ==
    \A id \in ClientIds, m \in FromClient, a \in ToClient :
       m.service \in MmiNames /\ a.service = m.service /\ m \in T[Up(id)]
          => Connected(id) /\ a \in T[Pipe(id)]

LoyalGive(sv, T) ==
    \A w \in WorkerIds, r \in Pending, q \in ToWorker :
       q.kind = "REQUEST" /\ Same(r, q) /\ sv[w] \in Services /\ r \in T[Queue(sv[w])]
          => q \in T[Pipe(w)]

LoyalStart(T) ==
    \A w \in WorkerIds, r \in Pending, q \in ToWorker :
       q.kind = "REQUEST" /\ Same(r, q) /\ q \in T[Pipe(w)] => r \in T[Busy(w)]

LoyalWork(T) ==
    \A w \in WorkerIds, r \in Pending, y \in FromWorker :
       y.kind = "REPLY" /\ Same(r, y) /\ r \in T[Busy(w)] => y \in T[Up(w)]

LoyalAnswer(sv, T) ==
    \A w \in WorkerIds, y \in FromWorker, a \in ToClient :
       (y.kind = "REPLY" /\ sv[w] \in Services /\ a.service = sv[w] /\ a.body = y.body
        /\ y \in T[Up(w)])
          => Connected(y.client) /\ a \in T[Pipe(y.client)]

Loyal(sv, T) ==
    /\ LoyalAsk(T) /\ LoyalMmi(T) /\ LoyalGive(sv, T) /\ LoyalStart(T) /\ LoyalWork(T)
    /\ LoyalAnswer(sv, T) /\ TameRest(T)

\* Copies become copies, as long as the client is there.
LEMMA CopiesLoyal ==
    ASSUME NEW sv, NEW id \in ClientIds, Connected(id), NEW X, NEW S, Bodies \subseteq X, Names \subseteq S
    PROVE  Loyal(sv, CopiesOf(id, X, S))
<1> PICK T : T = CopiesOf(id, X, S)
  OBVIOUS
<1>0. /\ WorkerIds \subseteq Ids /\ ClientIds \subseteq Ids /\ Services \subseteq S
  BY IdFacts DEF Names
<1>u. \A m \in Msgs, j \in Ids :
         m \in T[Up(j)] <=> /\ m.body \in X
                            /\ \/ m.kind = "CLIENT" /\ j = id /\ m.service \in S
                               \/ m.kind = "REPLY" /\ m.client = id
  BY CopyUp
<1>p. \A m \in Msgs, j \in Ids :
         m \in T[Pipe(j)] <=> /\ m.body \in X
                              /\ \/ m.kind = "ANSWER" /\ j = id /\ m.service \in S
                                 \/ m.kind = "REQUEST" /\ m.client = id
  BY CopyPipe
<1>b. \A m \in Msgs, j \in Ids : m \in T[Busy(j)] <=> m.client = id /\ m.body \in X
  BY CopyBusy
<1>q. \A m \in Msgs, s \in Services : m \in T[Queue(s)] <=> m.client = id /\ m.body \in X
  BY CopyQueue
<1>1. ASSUME NEW i \in ClientIds, NEW m \in FromClient, NEW r \in Pending,
             m.service \in Services, r.client = i, r.body = m.body, m \in T[Up(i)]
      PROVE  r \in T[Queue(m.service)]
  <2>1. i \in Ids /\ m \in Msgs /\ r \in Msgs
    BY <1>0, MessageKinds
  <2>2. m.kind = "CLIENT" /\ r.body \in X
    BY MessageKinds
  <2>3. i = id
    BY <1>1, <1>u, <2>1, <2>2
  <2> QED
    BY <1>1, <1>q, <2>1, <2>2, <2>3
<1>2. ASSUME NEW i \in ClientIds, NEW m \in FromClient, NEW a \in ToClient,
             m.service \in MmiNames, a.service = m.service, m \in T[Up(i)]
      PROVE  Connected(i) /\ a \in T[Pipe(i)]
  <2>1. i \in Ids /\ m \in Msgs /\ a \in Msgs
    BY <1>0, MessageKinds
  <2>2. m.kind = "CLIENT" /\ a.body \in X /\ a.kind = "ANSWER" /\ a.service \in S
    BY MessageKinds
  <2>3. i = id
    BY <1>2, <1>u, <2>1, <2>2
  <2> QED
    BY <1>2, <1>p, <2>1, <2>2, <2>3
<1>3. ASSUME NEW w \in WorkerIds, NEW r \in Pending, NEW q \in ToWorker,
             q.kind = "REQUEST", Same(r, q)
      PROVE  /\ sv[w] \in Services /\ r \in T[Queue(sv[w])] => q \in T[Pipe(w)]
             /\ q \in T[Pipe(w)] => r \in T[Busy(w)]
  <2>1. w \in Ids /\ q \in Msgs /\ r \in Msgs
    BY <1>0, MessageKinds
  <2>2. q.client = r.client /\ q.body = r.body
    BY <1>3 DEF Same
  <2>3. q \in T[Pipe(w)] <=> r.client = id /\ r.body \in X
    BY <1>3, <1>p, <2>1, <2>2
  <2>4. r \in T[Busy(w)] <=> r.client = id /\ r.body \in X
    BY <2>1, <1>b
  <2>5. sv[w] \in Services => (r \in T[Queue(sv[w])] <=> r.client = id /\ r.body \in X)
    BY <2>1, <1>q
  <2> QED
    BY <2>3, <2>4, <2>5
<1>4. ASSUME NEW w \in WorkerIds, NEW r \in Pending, NEW y \in FromWorker,
             y.kind = "REPLY", Same(r, y), r \in T[Busy(w)]
      PROVE  y \in T[Up(w)]
  <2>1. w \in Ids /\ y \in Msgs /\ r \in Msgs
    BY <1>0, MessageKinds
  <2>2. y.client = r.client /\ y.body = r.body
    BY <1>4 DEF Same
  <2>3. r.client = id /\ r.body \in X
    BY <1>4, <1>b, <2>1
  <2> QED
    BY <1>4, <1>u, <2>1, <2>2, <2>3
<1>5. ASSUME NEW w \in WorkerIds, NEW y \in FromWorker, NEW a \in ToClient,
             y.kind = "REPLY", sv[w] \in Services, a.service = sv[w], a.body = y.body,
             y \in T[Up(w)]
      PROVE  Connected(y.client) /\ a \in T[Pipe(y.client)]
  <2>1. w \in Ids /\ y \in Msgs /\ a \in Msgs /\ id \in Ids
    BY <1>0, <1>5, MessageKinds
  <2>2. a.kind = "ANSWER" /\ a.service \in S
    BY MessageKinds
  <2>3. y.client = id /\ y.body \in X
    BY <1>5, <1>u, <2>1
  <2>4. a \in T[Pipe(id)]
    BY <1>5, <1>p, <2>1, <2>2, <2>3
  <2> QED
    BY <2>3, <2>4
<1>6. Tame(sv, T)
  BY <1>0, CopiesTame
<1>7. LoyalAsk(T)
  BY <1>1, Zenon DEF LoyalAsk
<1>8. LoyalMmi(T)
  BY <1>2, Zenon DEF LoyalMmi
<1>9. LoyalGive(sv, T) /\ LoyalStart(T)
  BY <1>3, Zenon DEF LoyalGive, LoyalStart
<1>10. LoyalWork(T)
  BY <1>4, Zenon DEF LoyalWork
<1>11. LoyalAnswer(sv, T)
  BY <1>5, Zenon DEF LoyalAnswer
<1> QED
  BY <1>6, <1>7, <1>8, <1>9, <1>10, <1>11 DEF Tame, Loyal

\* The workers whose sockets have been made still have them.
Calm == \A i \in WorkerIds : ~(i[2] > made[i[1]]) => Connected(i)

Keeps(F, G, sv) == \A T : Tame(sv, T) => Kept(F, G, T)
Saves(F, G, sv) == Calm /\ restarts = 0 => \A T : Loyal(sv, T) => Saved(F, G, T)

\* Keeps and Saves can be put together.
LEMMA KeepsTrans ==
    ASSUME NEW F, NEW G, NEW H, NEW sv
    PROVE  /\ Keeps(F, F, sv) /\ Saves(F, F, sv)
           /\ Keeps(F, G, sv) /\ Keeps(G, H, sv) => Keeps(F, H, sv)
           /\ Saves(F, G, sv) /\ Saves(G, H, sv) => Saves(F, H, sv)
  BY KeptTrans DEF Keeps, Saves

\* The REQUEST made of a pending request.
LEMMA RequestIs ==
    ASSUME NEW r \in Pending, NEW q, q = RequestMsg(r.client, r.body)
    PROVE  q \in ToWorker /\ q \in Msgs /\ q.kind = "REQUEST" /\ Same(r, q)
<1>1. q \in ToWorker /\ q.kind = "REQUEST" /\ q.client = r.client /\ q.body = r.body
  BY DEF RequestMsg, ToWorker, Pending
<1> QED
  BY <1>1, MessageKinds DEF Same

\* A dispatch neither duplicates nor loses.
LEMMA DispatchKeeps ==
    ASSUME NEW u, NEW b, NEW h, View(u, b, h), NEW s \in Services, NEW d, Dispatched(b, s, d)
    PROVE  /\ Keeps(FlowOf(u, b, h), FlowOf(u, d, h), b.service)
           /\ Saves(FlowOf(u, b, h), FlowOf(u, d, h), b.service)
<1>0. \/ FlowOf(u, d, h) = FlowOf(u, b, h)
      \/ \E w \in WorkerIds, r \in Pending :
            /\ b.service[w] = s /\ d.service[w] = s
            /\ Handed(FlowOf(u, b, h), s, w, r, FlowOf(u, d, h))
            /\ FlowOf(u, b, h)[Queue(s)] # <<>>
            /\ r = Head(FlowOf(u, b, h)[Queue(s)])
  BY ViewDispatch
<1> PICK F, G : F = FlowOf(u, b, h) /\ G = FlowOf(u, d, h)
  OBVIOUS
<1> PICK sv : sv = b.service
  OBVIOUS
<1>1. CASE G = F
  BY <1>1, KeepsTrans
<1>2. ASSUME NEW w \in WorkerIds, NEW r \in Pending, b.service[w] = s, Handed(F, s, w, r, G),
             F[Queue(s)] # <<>>, r = Head(F[Queue(s)])
      PROVE  Keeps(F, G, sv) /\ Saves(F, G, sv)
  <2>0. PICK q : q = RequestMsg(r.client, r.body)
    OBVIOUS
  <2>1. q \in ToWorker /\ q \in Msgs /\ q.kind = "REQUEST" /\ Same(r, q)
    BY <2>0, RequestIs
  <2>2. F \in Flows
    BY FlowOfFacts DEF View, IsFlow
  <2>3. Queue(s) \in Places /\ Pipe(w) \in Places /\ w \in Ids
    BY PlaceCases, IdFacts
  <2>4. Calm => Connected(w)
    <3>1. ~(w[2] > made[w[1]])
      BY <1>2, <2>3, NetAssumption DEF View, Linked
    <3> QED
      BY <3>1 DEF Calm
  <2>5. CASE Connected(w)
    <3>1. G = Put(Take(F, Queue(s)), Pipe(w), q)
      BY <1>2, <2>0, <2>5 DEF Handed
    <3>2. ASSUME NEW T, TameGive(sv, T)
          PROVE  Kept(F, G, T)
      <4>1. q \in T[Pipe(w)] => r \in T[Queue(s)]
        BY <1>2, <2>1, <3>2 DEF TameGive
      <4> QED
        BY <1>2, <2>1, <2>2, <2>3, <3>1, <4>1, KeptMove
    <3>3. ASSUME NEW T, LoyalGive(sv, T)
          PROVE  Saved(F, G, T)
      <4>1. r \in T[Queue(s)] => q \in T[Pipe(w)]
        BY <1>2, <2>1, <3>3 DEF LoyalGive
      <4> QED
        BY <1>2, <2>1, <2>2, <2>3, <3>1, <4>1, KeptMove
    <3> QED
      BY <3>2, <3>3 DEF Keeps, Saves, Tame, Loyal
  <2>6. CASE ~Connected(w)
    <3>1. G = Take(F, Queue(s))
      BY <1>2, <2>6 DEF Handed
    <3>2. \A T : Kept(F, G, T)
      BY <1>2, <2>2, <2>3, <3>1, KeptTake
    <3> QED
      BY <2>4, <2>6, <3>2 DEF Keeps, Saves
  <2> QED
    BY <2>5, <2>6
<1>3. \/ G = F
      \/ \E w \in WorkerIds, r \in Pending :
            /\ b.service[w] = s /\ d.service[w] = s
            /\ Handed(F, s, w, r, G)
            /\ F[Queue(s)] # <<>>
            /\ r = Head(F[Queue(s)])
  BY <1>0
<1> QED
  BY <1>1, <1>2, <1>3, Zenon

-----------------------------------------------------------------------------
(* What the broker does with a message *)

\* From F to G nothing is duplicated, invented or, unless a process fails, lost;
\* the broker learns and forgets workers, and learns only of idle ones.
Moved(F, b, G, d) ==
    \E sv : /\ \A i \in Ids : sv[i] = b.service[i] \/ Nowhere(F, JobsOf(i))
            /\ \A i \in Ids : d.service[i] = sv[i] \/ d.service[i] = None
            /\ Keeps(F, G, sv) /\ Saves(F, G, sv)

\* A step without registrations.
LEMMA MovedBy ==
    ASSUME NEW F, NEW G, NEW b, NEW d, Keeps(F, G, b.service), Saves(F, G, b.service),
           \A i \in Ids : d.service[i] = b.service[i] \/ d.service[i] = None
    PROVE  Moved(F, b, G, d)
<1> PICK sv : sv = b.service
  OBVIOUS
<1>1. /\ \A i \in Ids : sv[i] = b.service[i] \/ Nowhere(F, JobsOf(i))
      /\ \A i \in Ids : d.service[i] = sv[i] \/ d.service[i] = None
      /\ Keeps(F, G, sv) /\ Saves(F, G, sv)
  OBVIOUS
<1> QED
  BY <1>1 DEF Moved

\* The broker has the message m of the socket i in its hands.
Heard(u, b, h, i, v, m) ==
    /\ View(u, b, h) /\ Sound(b) /\ i \in Ids /\ u[i] # <<>> /\ Removed(u, i, v)
    /\ m = Head(u[i])

\* The message that the broker has received is gone from the connection.
LEMMA HeardFlow ==
    ASSUME NEW u, NEW b, NEW h, NEW i, NEW v, NEW m, Heard(u, b, h, i, v, m),
           NEW F, F = FlowOf(u, b, h)
    PROVE  /\ View(v, b, h) /\ Sound(b) /\ F \in Flows /\ Up(i) \in Places
           /\ F[Up(i)] # <<>> /\ Head(F[Up(i)]) = m /\ m \in Msgs
           /\ FlowOf(v, b, h) = Take(F, Up(i)) /\ Take(F, Up(i)) \in Flows
<1>1. View(u, b, h) /\ Sound(b) /\ i \in Ids /\ u[i] # <<>> /\ Removed(u, i, v) /\ m = Head(u[i])
  BY DEF Heard
<1>2. View(v, b, h) /\ FlowOf(v, b, h) = Take(F, Up(i)) /\ m \in Msgs
  BY <1>1, ViewTake
<1>3. IsFlow(F, u, b, h)
  BY <1>1, FlowOfFacts DEF View
<1>4. IsFlow(FlowOf(v, b, h), v, b, h)
  BY <1>2, FlowOfFacts DEF View
<1>5. F \in Flows /\ F[Up(i)] = u[i] /\ Take(F, Up(i)) \in Flows
  BY <1>1, <1>2, <1>3, <1>4 DEF IsFlow
<1> QED
  BY <1>1, <1>2, <1>5, PlaceCases

\* What b has become when the message was dealt with.
Handled(u, b, h, v, d) ==
    View(v, d, h) /\ Sound(d) /\ Moved(FlowOf(u, b, h), b, FlowOf(v, d, h), d)

\* The message to a client.
LEMMA AnswerIs ==
    ASSUME NEW s \in Names, NEW x \in Bodies, NEW a, a = AnswerMsg(s, x)
    PROVE  a \in ToClient /\ a \in Msgs /\ a.service = s /\ a.body = x
<1>1. a \in ToClient /\ a.service = s /\ a.body = x
  BY DEF AnswerMsg, ToClient
<1> QED
  BY <1>1, MessageKinds

\* The broker answers an mmi. request itself.
LEMMA RecvMmi ==
    ASSUME NEW u, NEW b, NEW h, NEW i \in ClientIds, NEW v, NEW m, Heard(u, b, h, i, v, m),
           m \in FromClient, m.service \in MmiNames, NEW d, d = s_broker_client_msg(b, i, m)
    PROVE  Handled(u, b, h, v, d)
<1>1. PICK F : F = FlowOf(u, b, h)
  OBVIOUS
<1>2. PICK F1 : F1 = FlowOf(v, b, h)
  OBVIOUS
<1>3. /\ View(v, b, h) /\ Sound(b) /\ F \in Flows /\ Up(i) \in Places
      /\ F[Up(i)] # <<>> /\ Head(F[Up(i)]) = m
      /\ F1 = Take(F, Up(i)) /\ F1 \in Flows
  BY <1>1, <1>2, HeardFlow
<1>4. PICK code \in {"200", "404", "501"} : Routed(b, i, AnswerMsg(m.service, code), d)
  BY <1>3, HeardMmi
<1>5. PICK a : a = AnswerMsg(m.service, code)
  OBVIOUS
<1>6. a \in ToClient /\ a \in Msgs /\ a.service = m.service
  <2>1. m.service \in Names /\ code \in Bodies
    BY DEF Names, Bodies
  <2> QED
    BY <1>5, <2>1, AnswerIs
<1>7. i \in Ids /\ Pipe(i) \in Places
  BY IdFacts, PlaceCases
<1>8. Routed(b, i, a, d)
  BY <1>4, <1>5
<1>9. /\ View(v, d, h)
      /\ FlowOf(v, d, h) = IF Connected(i) THEN Put(F1, Pipe(i), a) ELSE F1
  <2>1. /\ View(v, d, h)
        /\ FlowOf(v, d, h) = IF Connected(i) THEN Put(FlowOf(v, b, h), Pipe(i), a)
                             ELSE FlowOf(v, b, h)
    BY <1>3, <1>6, <1>7, <1>8, ViewRoute
  <2> QED
    BY <1>2, <2>1
<1>10. PICK G : G = FlowOf(v, d, h)
  OBVIOUS
<1>11. Sound(d) /\ d.service = b.service
  BY <1>3, <1>8, RoutedSound DEF Routed
<1>12. ASSUME Connected(i)
       PROVE  Keeps(F, G, b.service) /\ Saves(F, G, b.service)
  <2>1. G = Put(Take(F, Up(i)), Pipe(i), a)
    BY <1>3, <1>9, <1>10, <1>12
  <2>2. ASSUME NEW T, TameMmi(T)
        PROVE  Kept(F, G, T)
    <3>1. a \in T[Pipe(i)] => m \in T[Up(i)]
      BY <1>6, <2>2 DEF TameMmi
    <3> QED
      BY <1>3, <1>6, <1>7, <2>1, <3>1, KeptMove
  <2>3. ASSUME NEW T, LoyalMmi(T)
        PROVE  Saved(F, G, T)
    <3>1. m \in T[Up(i)] => a \in T[Pipe(i)]
      BY <1>6, <2>3 DEF LoyalMmi
    <3> QED
      BY <1>3, <1>6, <1>7, <2>1, <3>1, KeptMove
  <2> QED
    BY <2>2, <2>3 DEF Keeps, Saves, Tame, Loyal
<1>13. ASSUME ~Connected(i)
       PROVE  Keeps(F, G, b.service) /\ Saves(F, G, b.service)
  <2>1. G = Take(F, Up(i))
    BY <1>3, <1>9, <1>10, <1>13
  <2>2. \A T : Kept(F, G, T)
    BY <1>3, <2>1, KeptTake
  <2>3. ASSUME NEW T, LoyalMmi(T)
        PROVE  Saved(F, G, T)
    <3>1. m \notin T[Up(i)]
      BY <1>6, <1>13, <2>3 DEF LoyalMmi
    <3> QED
      BY <1>3, <2>1, <3>1, KeptTake
  <2> QED
    BY <2>2, <2>3 DEF Keeps, Saves, Tame, Loyal
<1>14. Keeps(F, G, b.service) /\ Saves(F, G, b.service)
  BY <1>12, <1>13
<1>15. Moved(F, b, G, d)
  BY <1>11, <1>14, MovedBy
<1> QED
  BY <1>1, <1>9, <1>10, <1>11, <1>15 DEF Handled

\* The broker queues a client's request and dispatches.
LEMMA RecvClient ==
    ASSUME NEW u, NEW b, NEW h, NEW i \in ClientIds, NEW v, NEW m, Heard(u, b, h, i, v, m),
           m \in FromClient, m.service \in Services, NEW d, d = s_broker_client_msg(b, i, m)
    PROVE  Handled(u, b, h, v, d)
<1>1. PICK F : F = FlowOf(u, b, h)
  OBVIOUS
<1>2. PICK F1 : F1 = FlowOf(v, b, h)
  OBVIOUS
<1>3. /\ View(v, b, h) /\ Sound(b) /\ F \in Flows /\ Up(i) \in Places
      /\ F[Up(i)] # <<>> /\ Head(F[Up(i)]) = m
      /\ F1 = Take(F, Up(i)) /\ F1 \in Flows
  BY <1>1, <1>2, HeardFlow
<1>4. m.body \in Bodies
  BY MessageKinds
<1>5. PICK r : r = [client |-> i, body |-> m.body]
  OBVIOUS
<1>6. PICK s \in Services : s = m.service
  OBVIOUS
<1>7. r \in Pending /\ r.client = i /\ r.body = m.body
  BY <1>4, <1>5 DEF Pending
<1>8. PICK c : Asked(b, s, r, c) /\ Dispatched(c, s, d)
  <2>1. \E c : /\ Asked(b, m.service, [client |-> i, body |-> m.body], c)
               /\ Dispatched(c, m.service, s_broker_client_msg(b, i, m))
    BY <1>3, <1>4, HeardClient
  <2> QED
    BY <1>5, <1>6, <2>1
<1>9. PICK H : H = FlowOf(v, c, h)
  OBVIOUS
<1>10. PICK G : G = FlowOf(v, d, h)
  OBVIOUS
<1>11. View(v, c, h) /\ H = Put(F1, Queue(s), r)
  <2>1. View(v, c, h) /\ FlowOf(v, c, h) = Put(FlowOf(v, b, h), Queue(s), r)
    BY <1>3, <1>7, <1>8, ViewAsk
  <2> QED
    BY <1>2, <1>9, <2>1
<1>12. c.service = b.service
  BY <1>8 DEF Asked
<1>13. /\ View(v, d, h) /\ Sound(d)
       /\ \A j \in Ids : d.service[j] = b.service[j] \/ d.service[j] = None
  BY <1>8, <1>11, <1>12, ViewDispatch, DispatchedSound
<1>14. Keeps(H, G, b.service) /\ Saves(H, G, b.service)
  BY <1>8, <1>9, <1>10, <1>11, <1>12, DispatchKeeps
<1>15. r \in Msgs /\ Queue(s) \in Places
  BY <1>7, MessageKinds, PlaceCases
<1>16. H = Put(Take(F, Up(i)), Queue(s), r)
  BY <1>3, <1>11
<1>17. ASSUME NEW T, TameAsk(T)
       PROVE  Kept(F, H, T)
  <2>1. r \in T[Queue(s)] => m \in T[Up(i)]
    BY <1>6, <1>7, <1>17 DEF TameAsk
  <2> QED
    BY <1>3, <1>15, <1>16, <2>1, KeptMove
<1>18. ASSUME NEW T, LoyalAsk(T)
       PROVE  Saved(F, H, T)
  <2>1. m \in T[Up(i)] => r \in T[Queue(s)]
    BY <1>6, <1>7, <1>18 DEF LoyalAsk
  <2> QED
    BY <1>3, <1>15, <1>16, <2>1, KeptMove
<1>19. Keeps(F, H, b.service) /\ Saves(F, H, b.service)
  BY <1>17, <1>18 DEF Keeps, Saves, Tame, Loyal
<1>20. Moved(F, b, G, d)
  BY <1>13, <1>14, <1>19, KeepsTrans, MovedBy
<1> QED
  BY <1>1, <1>10, <1>13, <1>20 DEF Handled

\* A message that is no reply is taken off a worker's connection.
LEMMA TakeOther ==
    ASSUME NEW F \in Flows, NEW w \in WorkerIds, Up(w) \in Places, F[Up(w)] # <<>>, NEW m \in FromWorker,
           m = Head(F[Up(w)]), m.kind # "REPLY", NEW sv
    PROVE  Keeps(F, Take(F, Up(w)), sv) /\ Saves(F, Take(F, Up(w)), sv)
<1>1. \A T : TameRest(T) => m \notin T[Up(w)]
  BY DEF TameRest
<1>2. \A T : /\ Kept(F, Take(F, Up(w)), T)
             /\ m \notin T[Up(w)] => Saved(F, Take(F, Up(w)), T)
  BY KeptTake
<1> QED
  BY <1>1, <1>2 DEF Keeps, Saves, Tame, Loyal

\* A worker becomes available.
LEMMA ServeKeeps ==
    ASSUME NEW u, NEW b, NEW h, View(u, b, h), NEW w \in WorkerIds, NEW s \in Services, NEW d,
           Served(b, w, s, d), Nowhere(FlowOf(u, b, h), JobsOf(w))
    PROVE  /\ View(u, d, h) /\ Sound(d)
           /\ \A j \in Ids : d.service[j] = b.service[j] \/ d.service[j] = None
           /\ Keeps(FlowOf(u, b, h), FlowOf(u, d, h), b.service)
           /\ Saves(FlowOf(u, b, h), FlowOf(u, d, h), b.service)
<1>1. PICK c \in Brokers : Joined(b, w, s, c) /\ Dispatched(c, s, d)
  BY DEF Served
<1>2. View(u, c, h) /\ FlowOf(u, c, h) = FlowOf(u, b, h)
  BY <1>1, ViewJoin
<1>3. c.service = b.service
  BY <1>1 DEF Joined
<1>4. /\ View(u, d, h)
      /\ \A j \in Ids : d.service[j] = c.service[j] \/ d.service[j] = None
  BY <1>1, <1>2, ViewDispatch
<1>5. /\ Keeps(FlowOf(u, c, h), FlowOf(u, d, h), c.service)
      /\ Saves(FlowOf(u, c, h), FlowOf(u, d, h), c.service)
  BY <1>1, <1>2, DispatchKeeps
<1>6. Sound(d)
  BY <1>1, DispatchedSound
<1> QED
  BY <1>2, <1>3, <1>4, <1>5, <1>6

\* The broker receives READY.
LEMMA RecvReady ==
    ASSUME NEW u, NEW b, NEW h, NEW w \in WorkerIds, NEW v, NEW m, Heard(u, b, h, w, v, m),
           m.kind = "READY", NEW d, d = s_broker_worker_msg(b, w, m)
    PROVE  Handled(u, b, h, v, d)
<1>1. PICK F : F = FlowOf(u, b, h)
  OBVIOUS
<1>2. PICK F1 : F1 = FlowOf(v, b, h)
  OBVIOUS
<1>3. /\ View(v, b, h) /\ Sound(b) /\ F \in Flows /\ Up(w) \in Places
      /\ F[Up(w)] # <<>> /\ Head(F[Up(w)]) = m
      /\ F1 = Take(F, Up(w)) /\ F1 \in Flows
  BY <1>1, <1>2, HeardFlow
<1>4. /\ m \in FromWorker /\ b.service[w] = None /\ NoReady(v, w)
      /\ Nowhere(F1, JobsOf(w)) /\ ~(w[2] > made[w[1]])
  <2>1. View(u, b, h) /\ w \in Ids /\ u[w] # <<>> /\ Removed(u, w, v) /\ m = Head(u[w])
    BY DEF Heard
  <2>2. /\ Head(u[w]) \in FromWorker /\ NoReady(v, w) /\ ~(w[2] > made[w[1]])
        /\ Head(u[w]).kind = "READY" => b.service[w] = None
        /\ Head(u[w]).kind \in {"READY", "REPLY"} => Nowhere(FlowOf(v, b, h), JobsOf(w))
    BY <2>1, ViewTake
  <2> QED
    BY <1>2, <2>1, <2>2
<1>5. Nowhere(F, JobsOf(w))
  <2>1. View(u, b, h) /\ w \in Ids /\ u[w] # <<>> /\ m = Head(u[w])
    BY DEF Heard
  <2>2. Work(F, u, b, w)
    BY <1>1, <2>1 DEF View
  <2>3. u[w] \in Seq(Msgs)
    BY <2>1 DEF View, Ups
  <2>4. 1 \in 1..Len(u[w]) /\ u[w][1] = m
    BY <2>1, <2>3
  <2>5. u[w][1].kind = "READY"
    BY <2>4
  <2> QED
    BY <2>2, <2>4, <2>5 DEF Work
<1>6. PICK s \in Services : s = m.service
  BY <1>4, MessageKinds
<1>7. PICK c : Registered(b, w, s, c) /\ Served(c, w, s, d)
  <2>1. \E c : /\ Registered(b, w, m.service, c)
               /\ Served(c, w, m.service, s_broker_worker_msg(b, w, m))
    <3>1. m.service \in Services
      BY <1>6
    <3> QED
      BY <1>3, <1>4, <3>1, HeardReady
  <2> QED
    BY <1>6, <2>1
<1>8. View(v, c, h) /\ FlowOf(v, c, h) = F1
  <2>1. Nowhere(FlowOf(v, b, h), JobsOf(w))
    BY <1>2, <1>4
  <2>2. View(v, c, h) /\ FlowOf(v, c, h) = FlowOf(v, b, h)
    BY <1>3, <1>4, <1>7, <2>1, ViewRegister
  <2> QED
    BY <1>2, <2>2
<1>9. PICK sv : sv = c.service
  OBVIOUS
<1>10. PICK G : G = FlowOf(v, d, h)
  OBVIOUS
<1>11. /\ View(v, d, h) /\ Sound(d)
       /\ \A j \in Ids : d.service[j] = sv[j] \/ d.service[j] = None
       /\ Keeps(F1, G, sv) /\ Saves(F1, G, sv)
  <2>1. Nowhere(FlowOf(v, c, h), JobsOf(w))
    BY <1>4, <1>8
  <2>2. /\ View(v, d, h) /\ Sound(d)
        /\ \A j \in Ids : d.service[j] = c.service[j] \/ d.service[j] = None
        /\ Keeps(FlowOf(v, c, h), FlowOf(v, d, h), c.service)
        /\ Saves(FlowOf(v, c, h), FlowOf(v, d, h), c.service)
    BY <1>7, <1>8, <2>1, ServeKeeps
  <2> QED
    BY <1>8, <1>9, <1>10, <2>2
<1>12. Keeps(F, F1, sv) /\ Saves(F, F1, sv)
  <2>1. m.kind # "REPLY"
    OBVIOUS
  <2> QED
    BY <1>3, <1>4, <2>1, TakeOther
<1>13. \A j \in Ids : sv[j] = b.service[j] \/ Nowhere(F, JobsOf(j))
  <2>1. c.service = [b.service EXCEPT ![w] = s]
    BY <1>7 DEF Registered
  <2>2. b.service \in [Ids -> Services \cup {None}]
    BY <1>3, BrokerFields DEF Sound
  <2>3. \A j \in Ids : j = w \/ sv[j] = b.service[j]
    BY <1>9, <2>1, <2>2
  <2> QED
    BY <1>5, <2>3
<1>14. Moved(F, b, G, d)
  <2>1. Keeps(F, G, sv) /\ Saves(F, G, sv)
    BY <1>11, <1>12, KeepsTrans
  <2> QED
    BY <1>11, <1>13, <2>1 DEF Moved
<1> QED
  BY <1>1, <1>10, <1>11, <1>14 DEF Handled

\* The broker receives a REPLY.
LEMMA RecvReply ==
    ASSUME NEW u, NEW b, NEW h, NEW w \in WorkerIds, NEW v, NEW m, Heard(u, b, h, w, v, m),
           m.kind = "REPLY", b.service[w] # None, NEW d, d = s_broker_worker_msg(b, w, m)
    PROVE  Handled(u, b, h, v, d)
<1>1. PICK F : F = FlowOf(u, b, h)
  OBVIOUS
<1>2. PICK F1 : F1 = FlowOf(v, b, h)
  OBVIOUS
<1>3. /\ View(v, b, h) /\ Sound(b) /\ F \in Flows /\ Up(w) \in Places
      /\ F[Up(w)] # <<>> /\ Head(F[Up(w)]) = m
      /\ F1 = Take(F, Up(w)) /\ F1 \in Flows
  BY <1>1, <1>2, HeardFlow
<1>4. /\ m \in FromWorker /\ w \notin ToSet(b.waiting) /\ Nowhere(F1, JobsOf(w))
  <2>1. View(u, b, h) /\ w \in Ids /\ u[w] # <<>> /\ Removed(u, w, v) /\ m = Head(u[w])
    BY DEF Heard
  <2>2. /\ Head(u[w]) \in FromWorker
        /\ Head(u[w]).kind = "REPLY" => w \notin ToSet(b.waiting)
        /\ Head(u[w]).kind \in {"READY", "REPLY"} => Nowhere(FlowOf(v, b, h), JobsOf(w))
    BY <2>1, ViewTake
  <2> QED
    BY <1>2, <2>1, <2>2
<1>5. m.client \in ClientIds /\ m.body \in Bodies
  BY <1>4, MessageKinds
<1>6. PICK i \in ClientIds : i = m.client
  BY <1>5
<1>7. PICK s : s = b.service[w]
  OBVIOUS
<1>8. s \in Services
  <2>1. b.service \in [Ids -> Services \cup {None}] /\ w \in Ids
    BY <1>3, BrokerFields, IdFacts DEF Sound
  <2> QED
    BY <1>7, <2>1
<1>9. PICK a : a = AnswerMsg(s, m.body)
  OBVIOUS
<1>10. a \in ToClient /\ a \in Msgs /\ a.service = s /\ a.body = m.body
  <2>1. s \in Names
    BY <1>8 DEF Names
  <2> QED
    BY <1>5, <1>9, <2>1, AnswerIs
<1>11. PICK c : Routed(b, i, a, c) /\ Served(c, w, s, d)
  <2>1. \E c : /\ Routed(b, m.client, AnswerMsg(b.service[w], m.body), c)
               /\ Served(c, w, b.service[w], s_broker_worker_msg(b, w, m))
    BY <1>3, <1>4, <1>5, HeardReply
  <2> QED
    BY <1>6, <1>7, <1>9, <2>1
<1>12. i \in Ids /\ Pipe(i) \in Places
  BY IdFacts, PlaceCases
<1>13. PICK H : H = FlowOf(v, c, h)
  OBVIOUS
<1>14. /\ View(v, c, h) /\ H = IF Connected(i) THEN Put(F1, Pipe(i), a) ELSE F1
       /\ Nowhere(H, JobsOf(w))
  <2>1. /\ View(v, c, h)
        /\ FlowOf(v, c, h) = IF Connected(i) THEN Put(FlowOf(v, b, h), Pipe(i), a)
                             ELSE FlowOf(v, b, h)
        /\ \A j \in WorkerIds : Nowhere(FlowOf(v, b, h), JobsOf(j))
                                  => Nowhere(FlowOf(v, c, h), JobsOf(j))
    BY <1>3, <1>10, <1>11, <1>12, ViewRoute
  <2> QED
    BY <1>2, <1>4, <1>13, <2>1
<1>15. c.service = b.service
  BY <1>11 DEF Routed
<1>16. PICK G : G = FlowOf(v, d, h)
  OBVIOUS
<1>17. PICK sv : sv = b.service
  OBVIOUS
<1>18. /\ View(v, d, h) /\ Sound(d)
       /\ \A j \in Ids : d.service[j] = b.service[j] \/ d.service[j] = None
       /\ Keeps(H, G, sv) /\ Saves(H, G, sv)
  <2>1. Nowhere(FlowOf(v, c, h), JobsOf(w))
    BY <1>13, <1>14
  <2>2. /\ View(v, d, h) /\ Sound(d)
        /\ \A j \in Ids : d.service[j] = c.service[j] \/ d.service[j] = None
        /\ Keeps(FlowOf(v, c, h), FlowOf(v, d, h), c.service)
        /\ Saves(FlowOf(v, c, h), FlowOf(v, d, h), c.service)
    BY <1>8, <1>11, <1>14, <2>1, ServeKeeps
  <2> QED
    BY <1>13, <1>15, <1>16, <1>17, <2>2
<1>19. ASSUME NEW T, TameAnswer(sv, T)
       PROVE  Kept(F, H, T)
  <2>1. CASE Connected(i)
    <3>1. H = Put(Take(F, Up(w)), Pipe(i), a)
      BY <1>3, <1>14, <2>1
    <3>2. a \in T[Pipe(i)] => m \in T[Up(w)]
      BY <1>4, <1>6, <1>7, <1>8, <1>10, <1>17, <1>19 DEF TameAnswer
    <3> QED
      BY <1>3, <1>10, <1>12, <3>1, <3>2, KeptMove
  <2>2. CASE ~Connected(i)
    <3>1. H = Take(F, Up(w))
      BY <1>3, <1>14, <2>2
    <3> QED
      BY <1>3, <3>1, KeptTake
  <2> QED
    BY <2>1, <2>2
<1>20. ASSUME NEW T, LoyalAnswer(sv, T)
       PROVE  Saved(F, H, T)
  <2>0. m \in T[Up(w)] => Connected(i) /\ a \in T[Pipe(i)]
    BY <1>4, <1>6, <1>7, <1>8, <1>10, <1>17, <1>20 DEF LoyalAnswer
  <2>1. CASE Connected(i)
    <3>1. H = Put(Take(F, Up(w)), Pipe(i), a)
      BY <1>3, <1>14, <2>1
    <3> QED
      BY <1>3, <1>10, <1>12, <2>0, <3>1, KeptMove
  <2>2. CASE ~Connected(i)
    <3>1. H = Take(F, Up(w))
      BY <1>3, <1>14, <2>2
    <3> QED
      BY <1>3, <2>0, <2>2, <3>1, KeptTake
  <2> QED
    BY <2>1, <2>2
<1>21. Keeps(F, H, sv) /\ Saves(F, H, sv)
  BY <1>19, <1>20 DEF Keeps, Saves, Tame, Loyal
<1>22. Moved(F, b, G, d)
  BY <1>17, <1>18, <1>21, KeepsTrans, MovedBy
<1> QED
  BY <1>1, <1>16, <1>18, <1>22 DEF Handled

\* Workers may leave the lists.
LEMMA ViewSame ==
    ASSUME NEW u, NEW b, NEW h, View(u, b, h), NEW c, Sound(c),
           ToSet(c.waiting) \subseteq ToSet(b.waiting),
           c.service = b.service, c.requests = b.requests, c.pipe = b.pipe
    PROVE  View(u, c, h) /\ FlowOf(u, c, h) = FlowOf(u, b, h)
<1> PICK F : F = FlowOf(u, b, h)
  OBVIOUS
<1>1. /\ u \in Ups /\ h \in Ups /\ b \in Brokers /\ Lists(b) /\ Kinds(u, b) /\ Linked(u, b)
      /\ \A j \in WorkerIds : Work(F, u, b, j)
  BY DEF View
<1>2. c \in Brokers /\ Lists(c)
  BY DEF Sound
<1>3. FlowOf(u, c, h) = F
  BY DEF FlowOf
<1>4. Kinds(u, c) /\ Linked(u, c)
  BY <1>1 DEF Kinds, Linked
<1>5. ASSUME NEW j \in WorkerIds PROVE Work(F, u, c, j)
  <2>1. Work(F, u, b, j)
    BY <1>1
  <2> QED
    BY <1>2, <2>1 DEF Work
<1> QED
  BY <1>1, <1>2, <1>3, <1>4, <1>5 DEF View

\* The broker receives a HEARTBEAT.
LEMMA RecvHeartbeat ==
    ASSUME NEW u, NEW b, NEW h, NEW w \in WorkerIds, NEW v, NEW m, Heard(u, b, h, w, v, m),
           m.kind = "HEARTBEAT", b.service[w] # None, NEW d, d = s_broker_worker_msg(b, w, m)
    PROVE  Handled(u, b, h, v, d)
<1>1. PICK F : F = FlowOf(u, b, h)
  OBVIOUS
<1>3. /\ View(v, b, h) /\ Sound(b) /\ F \in Flows /\ Up(w) \in Places
      /\ F[Up(w)] # <<>> /\ Head(F[Up(w)]) = m
      /\ FlowOf(v, b, h) = Take(F, Up(w))
  BY <1>1, HeardFlow
<1>4. m \in FromWorker
  <2>1. View(u, b, h) /\ w \in Ids /\ u[w] # <<>> /\ Removed(u, w, v) /\ m = Head(u[w])
    BY DEF Heard
  <2>2. Head(u[w]) \in FromWorker
    BY <2>1, ViewTake
  <2> QED
    BY <2>1, <2>2
<1>5. /\ Sound(d)
      /\ d.service = b.service /\ d.waiting = b.waiting
      /\ d.requests = b.requests /\ d.pipe = b.pipe
  BY <1>3, HeardHeartbeat
<1>6. View(v, d, h) /\ FlowOf(v, d, h) = Take(F, Up(w))
  BY <1>3, <1>5, ViewSame
<1>7. Keeps(F, Take(F, Up(w)), b.service) /\ Saves(F, Take(F, Up(w)), b.service)
  <2>1. m.kind # "REPLY"
    OBVIOUS
  <2> QED
    BY <1>3, <1>4, <2>1, TakeOther
<1>8. Moved(F, b, Take(F, Up(w)), d)
  BY <1>5, <1>7, MovedBy
<1> QED
  BY <1>1, <1>5, <1>6, <1>8 DEF Handled

\* A worker that the broker does not know is told to connect again.
LEMMA RecvUnknown ==
    ASSUME NEW u, NEW b, NEW h, NEW w \in WorkerIds, NEW v, NEW m, Heard(u, b, h, w, v, m),
           m.kind \in {"REPLY", "HEARTBEAT"}, b.service[w] = None,
           NEW d, d = s_broker_worker_msg(b, w, m)
    PROVE  Handled(u, b, h, v, d)
<1>1. PICK F : F = FlowOf(u, b, h)
  OBVIOUS
<1>2. PICK F1 : F1 = FlowOf(v, b, h)
  OBVIOUS
<1>3. /\ View(v, b, h) /\ Sound(b) /\ F \in Flows /\ Up(w) \in Places
      /\ F[Up(w)] # <<>> /\ Head(F[Up(w)]) = m
      /\ F1 = Take(F, Up(w)) /\ F1 \in Flows
  BY <1>1, <1>2, HeardFlow
<1>4. m \in FromWorker
  <2>1. View(u, b, h) /\ w \in Ids /\ u[w] # <<>> /\ Removed(u, w, v) /\ m = Head(u[w])
    BY DEF Heard
  <2>2. Head(u[w]) \in FromWorker
    BY <2>1, ViewTake
  <2> QED
    BY <2>1, <2>2
<1>5. Dropped(b, w, d)
  BY <1>3, HeardOther
<1>6. /\ b.service \in [Ids -> Services \cup {None}] /\ w \in Ids /\ b \in Brokers
      /\ Pipe(w) \in Places
  BY <1>3, BrokerFields, IdFacts, PlaceCases DEF Sound
<1>7. /\ Sound(d) /\ ToSet(d.waiting) \subseteq ToSet(b.waiting)
      /\ d.service = b.service /\ d.requests = b.requests
      /\ d.pipe = IF Connected(w) THEN [b.pipe EXCEPT ![w] = Append(b.pipe[w], DisconnectMsg)]
                  ELSE b.pipe
  <2>1. [b.service EXCEPT ![w] = None] = b.service
    BY <1>6
  <2> QED
    BY <1>5, <2>1 DEF Dropped
<1>8. PICK c : c = Route(b, w, DisconnectMsg)
  OBVIOUS
<1>9. DisconnectMsg \in ToWorker /\ DisconnectMsg.kind # "REQUEST" /\ DisconnectMsg \in Msgs
  BY MessageKinds
<1>10. Routed(b, w, DisconnectMsg, c)
  BY <1>6, <1>8, <1>9, RouteFacts
<1>11. /\ View(v, c, h)
       /\ FlowOf(v, c, h) = IF Connected(w) THEN Put(F1, Pipe(w), DisconnectMsg) ELSE F1
  <2>1. /\ View(v, c, h)
        /\ FlowOf(v, c, h) = IF Connected(w) THEN Put(FlowOf(v, b, h), Pipe(w), DisconnectMsg)
                             ELSE FlowOf(v, b, h)
    BY <1>3, <1>6, <1>9, <1>10, ViewRoute
  <2> QED
    BY <1>2, <2>1
<1>12. View(v, d, h) /\ FlowOf(v, d, h) = FlowOf(v, c, h)
  <2>1. /\ c.service = b.service /\ c.waiting = b.waiting /\ c.requests = b.requests
        /\ c.pipe = d.pipe
    BY <1>7, <1>10 DEF Routed
  <2> QED
    BY <1>7, <1>11, <2>1, ViewSame
<1>13. PICK sv : sv = b.service
  OBVIOUS
<1>14. PICK G : G = FlowOf(v, d, h)
  OBVIOUS
<1>15. Keeps(F1, G, sv) /\ Saves(F1, G, sv)
  <2>1. CASE ~Connected(w)
    BY <1>11, <1>12, <1>14, <2>1, KeepsTrans
  <2>2. ASSUME Connected(w), NEW T, TameRest(T)
        PROVE  Kept(F1, G, T) /\ Saved(F1, G, T)
    <3>1. DisconnectMsg \notin T[Pipe(w)]
      BY <1>9, <2>2 DEF TameRest
    <3>2. G = Put(F1, Pipe(w), DisconnectMsg)
      BY <1>11, <1>12, <1>14, <2>2
    <3> QED
      BY <1>3, <1>6, <1>9, <3>1, <3>2, KeptPut
  <2> QED
    BY <2>1, <2>2 DEF Keeps, Saves, Tame, Loyal
<1>16. Keeps(F, F1, sv) /\ Saves(F, F1, sv)
  <2>1. CASE m.kind = "HEARTBEAT"
    <3>1. m.kind # "REPLY"
      BY <2>1
    <3> QED
      BY <1>3, <1>4, <3>1, TakeOther
  <2>2. CASE m.kind = "REPLY"
    <3>1. \A T : Kept(F, F1, T)
      BY <1>3, KeptTake
    <3>2. restarts # 0
      <4>1. m \in JobsOf(w)[Up(w)]
        <5>1. m \in Msgs
          BY <1>4, MessageKinds
        <5>2. m \in JobsOf(w)[Up(w)] <=> w = w /\ m.kind = "REPLY"
          BY <1>6, <5>1, JobPlaces
        <5> QED
          BY <2>2, <5>2
      <4>2. ~Nowhere(F, JobsOf(w))
        BY <1>3, <4>1, FlowTake
      <4>3. Work(F, u, b, w)
        BY <1>1 DEF Heard, View
      <4> QED
        BY <4>2, <4>3 DEF Work
    <3> QED
      BY <3>1, <3>2 DEF Keeps, Saves
  <2> QED
    BY <2>1, <2>2
<1>17. Moved(F, b, G, d)
  BY <1>7, <1>13, <1>15, <1>16, KeepsTrans, MovedBy
<1> QED
  BY <1>1, <1>7, <1>12, <1>14, <1>17 DEF Handled

\* The broker receives any message.
LEMMA RecvFacts ==
    ASSUME NEW u, NEW b, NEW h, NEW i, NEW v, NEW m, Heard(u, b, h, i, v, m), NEW d,
           d = IF m.kind = "CLIENT" THEN s_broker_client_msg(b, i, m)
               ELSE s_broker_worker_msg(b, i, m)
    PROVE  Handled(u, b, h, v, d)
<1>1. View(u, b, h) /\ i \in Ids /\ u[i] # <<>> /\ Removed(u, i, v) /\ m = Head(u[i])
  BY DEF Heard
<1>2. /\ i \in ClientIds => Head(u[i]) \in FromClient
      /\ i \in WorkerIds => /\ Head(u[i]) \in FromWorker
                            /\ Head(u[i]).kind = "READY" => b.service[i] = None
  BY <1>1, ViewTake
<1>3. i \in ClientIds \/ i \in WorkerIds
  BY <1>1, IdFacts
<1>4. CASE i \in ClientIds
  <2>1. m \in FromClient
    BY <1>1, <1>2, <1>4
  <2>2. m.kind = "CLIENT" /\ m.service \in Names
    BY <2>1, MessageKinds
  <2>3. d = s_broker_client_msg(b, i, m)
    BY <2>2
  <2>4. m.service \in Services \/ m.service \in MmiNames
    BY <2>2 DEF Names
  <2> QED
    BY <1>4, <2>1, <2>3, <2>4, RecvMmi, RecvClient
<1>5. CASE i \in WorkerIds
  <2>1. m \in FromWorker
    BY <1>1, <1>2, <1>5
  <2>2. m.kind = "READY" \/ m.kind = "REPLY" \/ m.kind = "HEARTBEAT"
    BY <2>1, MessageKinds
  <2>3. d = s_broker_worker_msg(b, i, m)
    BY <2>2
  <2>4. CASE m.kind = "READY"
    BY <1>5, <2>3, <2>4, RecvReady
  <2>5. CASE m.kind = "REPLY" /\ b.service[i] # None
    BY <1>5, <2>3, <2>5, RecvReply
  <2>6. CASE m.kind = "HEARTBEAT" /\ b.service[i] # None
    BY <1>5, <2>3, <2>6, RecvHeartbeat
  <2>7. CASE m.kind \in {"REPLY", "HEARTBEAT"} /\ b.service[i] = None
    BY <1>5, <2>3, <2>7, RecvUnknown
  <2> QED
    BY <2>2, <2>4, <2>5, <2>6, <2>7
<1> QED
  BY <1>3, <1>4, <1>5

-----------------------------------------------------------------------------
(* Copies, through the steps of the broker *)

\* Every copy, whatever it says.
AllOf(id) == CopiesOf(id, {m.body : m \in Msgs}, {m.service : m \in Msgs})

\* AllOf has every copy.
LEMMA AllIs ==
    ASSUME NEW id
    PROVE  \A p \in Places : \A m \in Msgs : m \in AllOf(id)[p] <=> IsCopy(p, m, id)
<1> SUFFICES ASSUME NEW p \in Places, NEW m \in Msgs
             PROVE  m \in AllOf(id)[p] <=> IsCopy(p, m, id)
  OBVIOUS
<1> PICK X, S : X = {x.body : x \in Msgs} /\ S = {x.service : x \in Msgs}
  OBVIOUS
<1>1. m.body \in X /\ m.service \in S
  OBVIOUS
<1>2. m \in CopiesOf(id, X, S)[p] <=>
              /\ IsCopy(p, m, id) /\ m.body \in X
              /\ p[1] \in {"up", "pipe"} /\ m.kind \in {"CLIENT", "ANSWER"} => m.service \in S
  BY CopyAt
<1>3. m \in CopiesOf(id, X, S)[p] <=> IsCopy(p, m, id)
  BY <1>1, <1>2
<1> QED
  BY <1>3 DEF AllOf

\* AllOf is tame, and loyal as long as the client is there.
LEMMA AllTame ==
    ASSUME NEW sv, NEW id \in ClientIds
    PROVE  Tame(sv, AllOf(id)) /\ (Connected(id) => Loyal(sv, AllOf(id)))
<1> PICK X, S : X = {m.body : m \in Msgs} /\ S = {m.service : m \in Msgs}
  OBVIOUS
<1>1. Bodies \subseteq X
  <2> SUFFICES ASSUME NEW x \in Bodies PROVE x \in X
    OBVIOUS
  <2> PICK r : r = [client |-> id, body |-> x]
    OBVIOUS
  <2>1. r \in Pending /\ r.body = x
    BY DEF Pending
  <2> QED
    BY <2>1, MessageKinds
<1>2. Names \subseteq S
  <2> SUFFICES ASSUME NEW s \in Names PROVE s \in S
    OBVIOUS
  <2> PICK a : a = AnswerMsg(s, "200")
    OBVIOUS
  <2>1. "200" \in Bodies
    BY DEF Bodies
  <2>2. a \in Msgs /\ a.service = s
    BY <2>1, AnswerIs
  <2> QED
    BY <2>2
<1>3. Services \subseteq S
  BY <1>2 DEF Names
<1>4. Tame(sv, CopiesOf(id, X, S))
  BY <1>1, <1>3, CopiesTame
<1>5. Connected(id) => Loyal(sv, CopiesOf(id, X, S))
  BY <1>1, <1>2, CopiesLoyal
<1> QED
  BY <1>4, <1>5 DEF AllOf

\* Where a smaller set has something, a larger one has.
LEMMA NowhereSubset ==
    ASSUME NEW F \in Flows, NEW T, NEW V,
           \A p \in Places : \A m \in Msgs : m \in V[p] => m \in T[p],
           Nowhere(F, T)
    PROVE  Nowhere(F, V)
<1> SUFFICES ASSUME NEW p \in Places, NEW k \in 1..Len(F[p]), F[p][k] \in V[p]
             PROVE  FALSE
  BY DEF Nowhere, Has
<1>1. F[p][k] \in Msgs
  BY DEF Flows
<1> QED
  BY <1>1 DEF Nowhere, Has

\* The copies of one request are tame.
LEMMA OneCopy ==
    ASSUME NEW id \in ClientIds, NEW x, NEW sv
    PROVE  Tame(sv, CopiesOf(id, {x}, Services))
  BY CopiesTame, NetAssumption

\* Where there are no copies there are no misfits.
LEMMA MisfitsAreCopies ==
    ASSUME NEW F \in Flows, NEW id, Nowhere(F, AllOf(id)), NEW sv, NEW S, NEW X
    PROVE  Nowhere(F, Misfits(sv, id, S, X)) /\ Nowhere(F, CopiesOf(id, X, S))
<1>1. ASSUME NEW p \in Places, NEW m \in Msgs
      PROVE  /\ m \in Misfits(sv, id, S, X)[p] => m \in AllOf(id)[p]
             /\ m \in CopiesOf(id, X, S)[p] => m \in AllOf(id)[p]
  BY AllIs, CopyAt, MisfitAt
<1> QED
  BY <1>1, NowhereSubset

\* A worker with nothing to do may register: no copy depends on it.
LEMMA MisfitsService ==
    ASSUME NEW F \in Flows, NEW id, NEW S, NEW X, NEW sv, NEW tv,
           \A i \in Ids : tv[i] = sv[i] \/ tv[i] = None \/ Nowhere(F, JobsOf(i)),
           Nowhere(F, Misfits(sv, id, S, X))
    PROVE  Nowhere(F, Misfits(tv, id, S, X))
<1>s. ASSUME NEW j \in Ids, NEW m \in Msgs
      PROVE
              /\ m \in Misfits(sv, id, S, X)[Up(j)] <=>
                   \/ m.kind = "CLIENT" /\ j = id /\ ~(m.service \in S /\ m.body \in X)
                   \/ m.kind = "REPLY" /\ m.client = id /\ ~(sv[j] \in S \cup {None} /\ m.body \in X)
              /\ m \in Misfits(sv, id, S, X)[Pipe(j)] <=>
                   \/ /\ m.kind = "ANSWER" /\ j = id
                      /\ ~(m.service \in S /\ (m.service \in MmiNames \/ m.body \in X))
                   \/ m.kind = "REQUEST" /\ m.client = id /\ ~(sv[j] \in S \cup {None} /\ m.body \in X)
              /\ m \in Misfits(sv, id, S, X)[Busy(j)] <=>
                   m.client = id /\ ~(sv[j] \in S \cup {None} /\ m.body \in X)
  <2>1. m \in Misfits(sv, id, S, X)[Up(j)] <=>
           \/ m.kind = "CLIENT" /\ j = id /\ ~(m.service \in S /\ m.body \in X)
           \/ m.kind = "REPLY" /\ m.client = id /\ ~(sv[j] \in S \cup {None} /\ m.body \in X)
    BY MisfitUp
  <2>2. m \in Misfits(sv, id, S, X)[Pipe(j)] <=>
           \/ /\ m.kind = "ANSWER" /\ j = id
              /\ ~(m.service \in S /\ (m.service \in MmiNames \/ m.body \in X))
           \/ m.kind = "REQUEST" /\ m.client = id /\ ~(sv[j] \in S \cup {None} /\ m.body \in X)
    BY MisfitPipe
  <2>3. m \in Misfits(sv, id, S, X)[Busy(j)] <=>
           m.client = id /\ ~(sv[j] \in S \cup {None} /\ m.body \in X)
    BY MisfitBusy
  <2> QED
    BY <2>1, <2>2, <2>3
<1>t. ASSUME NEW j \in Ids, NEW m \in Msgs
      PROVE
              /\ m \in Misfits(tv, id, S, X)[Up(j)] <=>
                   \/ m.kind = "CLIENT" /\ j = id /\ ~(m.service \in S /\ m.body \in X)
                   \/ m.kind = "REPLY" /\ m.client = id /\ ~(tv[j] \in S \cup {None} /\ m.body \in X)
              /\ m \in Misfits(tv, id, S, X)[Pipe(j)] <=>
                   \/ /\ m.kind = "ANSWER" /\ j = id
                      /\ ~(m.service \in S /\ (m.service \in MmiNames \/ m.body \in X))
                   \/ m.kind = "REQUEST" /\ m.client = id /\ ~(tv[j] \in S \cup {None} /\ m.body \in X)
              /\ m \in Misfits(tv, id, S, X)[Busy(j)] <=>
                   m.client = id /\ ~(tv[j] \in S \cup {None} /\ m.body \in X)
  <2>1. m \in Misfits(tv, id, S, X)[Up(j)] <=>
           \/ m.kind = "CLIENT" /\ j = id /\ ~(m.service \in S /\ m.body \in X)
           \/ m.kind = "REPLY" /\ m.client = id /\ ~(tv[j] \in S \cup {None} /\ m.body \in X)
    BY MisfitUp
  <2>2. m \in Misfits(tv, id, S, X)[Pipe(j)] <=>
           \/ /\ m.kind = "ANSWER" /\ j = id
              /\ ~(m.service \in S /\ (m.service \in MmiNames \/ m.body \in X))
           \/ m.kind = "REQUEST" /\ m.client = id /\ ~(tv[j] \in S \cup {None} /\ m.body \in X)
    BY MisfitPipe
  <2>3. m \in Misfits(tv, id, S, X)[Busy(j)] <=>
           m.client = id /\ ~(tv[j] \in S \cup {None} /\ m.body \in X)
    BY MisfitBusy
  <2> QED
    BY <2>1, <2>2, <2>3
<1>1. ASSUME NEW j \in Ids, tv[j] = sv[j] \/ tv[j] = None, NEW m \in Msgs
      PROVE  /\ m \in Misfits(tv, id, S, X)[Up(j)] => m \in Misfits(sv, id, S, X)[Up(j)]
             /\ m \in Misfits(tv, id, S, X)[Pipe(j)] => m \in Misfits(sv, id, S, X)[Pipe(j)]
             /\ m \in Misfits(tv, id, S, X)[Busy(j)] => m \in Misfits(sv, id, S, X)[Busy(j)]
  <2>1. sv[j] \in S \cup {None} => tv[j] \in S \cup {None}
    BY <1>1
  <2> QED
    BY <2>1, <1>s, <1>t
<1>2. ASSUME NEW j \in Ids, NEW m \in Msgs
      PROVE  /\ m \in Misfits(tv, id, S, X)[Up(j)]
                  => m \in Misfits(sv, id, S, X)[Up(j)] \/ m \in JobsOf(j)[Up(j)]
             /\ m \in Misfits(tv, id, S, X)[Pipe(j)]
                  => m \in Misfits(sv, id, S, X)[Pipe(j)] \/ m \in JobsOf(j)[Pipe(j)]
             /\ m \in JobsOf(j)[Busy(j)]
  <2>1. /\ m \in JobsOf(j)[Up(j)] <=> j = j /\ m.kind = "REPLY"
        /\ m \in JobsOf(j)[Pipe(j)] <=> j = j /\ m.kind = "REQUEST"
        /\ m \in JobsOf(j)[Busy(j)] <=> j = j
    BY JobPlaces
  <2> QED
    BY <1>s, <1>t, <2>1
<1>3. ASSUME NEW s \in Services, NEW m \in Msgs
      PROVE  m \in Misfits(tv, id, S, X)[Queue(s)] => m \in Misfits(sv, id, S, X)[Queue(s)]
  <2>1. m \in Misfits(tv, id, S, X)[Queue(s)] <=> m.client = id /\ ~(s \in S /\ m.body \in X)
    BY MisfitQueue
  <2>2. m \in Misfits(sv, id, S, X)[Queue(s)] <=> m.client = id /\ ~(s \in S /\ m.body \in X)
    BY MisfitQueue
  <2> QED
    BY <2>1, <2>2
<1> SUFFICES ASSUME NEW p \in Places, NEW k \in 1..Len(F[p]), F[p][k] \in Misfits(tv, id, S, X)[p]
             PROVE  FALSE
  BY DEF Nowhere, Has
<1>4. PICK m \in Msgs : m = F[p][k]
  BY DEF Flows
<1>5. m \notin Misfits(sv, id, S, X)[p]
  BY <1>4 DEF Nowhere, Has
<1>6. \A i \in Ids : Nowhere(F, JobsOf(i)) => m \notin JobsOf(i)[p]
  BY <1>4 DEF Nowhere, Has
<1>7. CASE \E s \in Services : p = Queue(s)
  BY <1>3, <1>4, <1>5, <1>7
<1>8. ASSUME NEW j \in Ids, p = Up(j) \/ p = Pipe(j) \/ p = Busy(j)
      PROVE  FALSE
  <2>1. CASE tv[j] = sv[j] \/ tv[j] = None
    BY <1>1, <1>4, <1>5, <1>8, <2>1
  <2>2. CASE Nowhere(F, JobsOf(j))
    BY <1>2, <1>4, <1>5, <1>6, <1>8, <2>2
  <2> QED
    BY <2>1, <2>2
<1> QED
  BY <1>7, <1>8, PlaceCases

\* Copies of what id has sent only.
Subcopy(id, T) == \A p \in Places : \A m \in Msgs : m \in T[p] => IsCopy(p, m, id)

\* The three sets in use are sets of copies.
LEMMA Subcopies ==
    ASSUME NEW id, NEW X, NEW S, NEW sv
    PROVE  Subcopy(id, AllOf(id)) /\ Subcopy(id, CopiesOf(id, X, S)) /\ Subcopy(id, Misfits(sv, id, S, X))
<1>1. Subcopy(id, AllOf(id))
  BY AllIs DEF Subcopy
<1>2. Subcopy(id, CopiesOf(id, X, S))
  BY CopyAt DEF Subcopy
<1>3. Subcopy(id, Misfits(sv, id, S, X))
  BY MisfitAt DEF Subcopy
<1> QED
  BY <1>1, <1>2, <1>3

\* What a step of the broker or of a worker does to the copies.
Carries(F, b, G, d, id) ==
    /\ Kept(F, G, AllOf(id))
    /\ \A x : Kept(F, G, CopiesOf(id, {x}, Services))
    /\ \A S, X : Nowhere(F, Misfits(b.service, id, S, X)) => Nowhere(G, Misfits(d.service, id, S, X))

\* What the broker's steps do to the copies of one client's request.
LEMMA MovedCarries ==
    ASSUME NEW F \in Flows, NEW G \in Flows, NEW b, NEW d, Moved(F, b, G, d), NEW id \in ClientIds
    PROVE  /\ Carries(F, b, G, d, id)
           /\ Calm /\ restarts = 0 /\ Connected(id) => Saved(F, G, AllOf(id))
<1>1. PICK sv : /\ \A i \in Ids : sv[i] = b.service[i] \/ Nowhere(F, JobsOf(i))
                /\ \A i \in Ids : d.service[i] = sv[i] \/ d.service[i] = None
                /\ Keeps(F, G, sv) /\ Saves(F, G, sv)
  BY DEF Moved
<1>2. Kept(F, G, AllOf(id))
  BY <1>1, AllTame DEF Keeps
<1>3. ASSUME NEW x PROVE Kept(F, G, CopiesOf(id, {x}, Services))
  BY <1>1, OneCopy DEF Keeps
<1>4. ASSUME NEW S, NEW X, Nowhere(F, Misfits(b.service, id, S, X))
      PROVE  Nowhere(G, Misfits(d.service, id, S, X))
  <2> PICK bv, dv : bv = b.service /\ dv = d.service
    OBVIOUS
  <2>1. Nowhere(F, Misfits(sv, id, S, X))
    BY <1>1, <1>4, MisfitsService
  <2>2. Kept(F, G, Misfits(sv, id, S, X))
    BY <1>1, MisfitsTame DEF Keeps
  <2>3. Nowhere(G, Misfits(sv, id, S, X))
    BY <2>1, <2>2 DEF Kept
  <2>4. Nowhere(G, Misfits(dv, id, S, X))
    BY <1>1, <2>3, MisfitsService
  <2> QED
    BY <2>4
<1>5. Calm /\ restarts = 0 /\ Connected(id) => Saved(F, G, AllOf(id))
  BY <1>1, AllTame DEF Saves
<1> QED
  BY <1>2, <1>3, <1>4, <1>5, Zenon DEF Carries

\* Steps that do not touch what is in T.
LEMMA ApartKept ==
    ASSUME NEW F, NEW G, NEW T,
           \A p \in Places : G[p] = F[p] \/ (~Has(F[p], T[p]) /\ ~Has(G[p], T[p]))
    PROVE  Kept(F, G, T) /\ Saved(F, G, T)
<1>1. \A p \in Places : /\ Has(G[p], T[p]) <=> Has(F[p], T[p])
                        /\ Once(F[p], T[p]) => Once(G[p], T[p])
  <2> SUFFICES ASSUME NEW p \in Places
               PROVE  /\ Has(G[p], T[p]) <=> Has(F[p], T[p])
                      /\ Once(F[p], T[p]) => Once(G[p], T[p])
    OBVIOUS
  <2>1. CASE G[p] = F[p]
    BY <2>1
  <2>2. CASE ~Has(F[p], T[p]) /\ ~Has(G[p], T[p])
    BY <2>2 DEF Has, Once
  <2> QED
    BY <2>1, <2>2
<1>2. Kept(F, G, T)
  BY <1>1, FlowFrame DEF Kept
<1>3. Saved(F, G, T)
  BY <1>1 DEF Saved, Nowhere
<1> QED
  BY <1>2, <1>3

\* The connection of one client carries no copies of another's request.
LEMMA OtherClient ==
    ASSUME NEW id \in ClientIds, NEW j \in ClientIds, j # id, NEW T, Subcopy(id, T)
    PROVE  /\ \A s \in Seq(FromClient) : ~Has(s, T[Up(j)])
           /\ \A s \in Seq(ToClient) : ~Has(s, T[Pipe(j)])
<1>0. Up(j) \in Places /\ Pipe(j) \in Places
  BY IdFacts, PlaceCases
<1>1. ASSUME NEW m \in FromClient PROVE m \notin T[Up(j)]
  <2>1. m \in Msgs
    BY MessageKinds
  <2>2. ~IsCopy(Up(j), m, id)
    <3>1. m.kind = "CLIENT"
      BY MessageKinds
    <3>2. IsCopy(Up(j), m, id) <=> \/ m.kind = "CLIENT" /\ j = id
                                   \/ m.kind = "REPLY" /\ m.client = id
      BY CopyCases
    <3> QED
      BY <3>1, <3>2
  <2> QED
    BY <1>0, <2>1, <2>2 DEF Subcopy
<1>2. ASSUME NEW m \in ToClient PROVE m \notin T[Pipe(j)]
  <2>1. m \in Msgs
    BY MessageKinds
  <2>2. ~IsCopy(Pipe(j), m, id)
    <3>1. m.kind = "ANSWER"
      BY MessageKinds
    <3>2. IsCopy(Pipe(j), m, id) <=> \/ m.kind = "ANSWER" /\ j = id
                                     \/ m.kind = "REQUEST" /\ m.client = id
      BY CopyCases
    <3> QED
      BY <3>1, <3>2
  <2> QED
    BY <1>0, <2>1, <2>2 DEF Subcopy
<1> QED
  BY <1>1, <1>2 DEF Has

\* A step of other clients' connections J.
Besides(J, u, b, v, d) ==
    /\ J \subseteq ClientIds
    /\ \A i \in Ids : i \notin J => v[i] = u[i] /\ d.pipe[i] = b.pipe[i]
    /\ d.requests = b.requests /\ d.service = b.service

\* A step of other clients leaves the copies for id alone.
LEMMA BesidesKept ==
    ASSUME NEW u \in Ups, NEW b \in Brokers, NEW h \in Ups, NEW v \in Ups, NEW d \in Brokers,
           Kinds(u, b), Kinds(v, d), NEW J, Besides(J, u, b, v, d),
           NEW id \in ClientIds, id \notin J, NEW T, Subcopy(id, T)
    PROVE  Kept(FlowOf(u, b, h), FlowOf(v, d, h), T) /\ Saved(FlowOf(u, b, h), FlowOf(v, d, h), T)
<1> PICK F, G : F = FlowOf(u, b, h) /\ G = FlowOf(v, d, h)
  OBVIOUS
<1>1. IsFlow(F, u, b, h) /\ IsFlow(G, v, d, h)
  BY FlowOfFacts
<1> SUFFICES ASSUME NEW p \in Places
             PROVE  G[p] = F[p] \/ (~Has(F[p], T[p]) /\ ~Has(G[p], T[p]))
  BY ApartKept
<1>2. CASE \E s \in Services : p = Queue(s)
  BY <1>1, <1>2 DEF IsFlow, Besides
<1>3. ASSUME NEW i \in Ids, p = Busy(i) PROVE G[p] = F[p]
  BY <1>1, <1>3 DEF IsFlow
<1>4. ASSUME NEW i \in Ids, i \notin J, p = Up(i) \/ p = Pipe(i) PROVE G[p] = F[p]
  BY <1>1, <1>4 DEF IsFlow, Besides
<1>5. ASSUME NEW i \in Ids, i \in J, p = Up(i) \/ p = Pipe(i)
      PROVE  ~Has(F[p], T[p]) /\ ~Has(G[p], T[p])
  <2>1. i \in ClientIds /\ i # id
    BY <1>5 DEF Besides
  <2>2. /\ u[i] \in Seq(FromClient) /\ b.pipe[i] \in Seq(ToClient)
        /\ v[i] \in Seq(FromClient) /\ d.pipe[i] \in Seq(ToClient)
    BY <2>1 DEF Kinds
  <2>3. F[Up(i)] = u[i] /\ F[Pipe(i)] = b.pipe[i] /\ G[Up(i)] = v[i] /\ G[Pipe(i)] = d.pipe[i]
    BY <1>1 DEF IsFlow
  <2>4. /\ ~Has(u[i], T[Up(i)]) /\ ~Has(b.pipe[i], T[Pipe(i)])
        /\ ~Has(v[i], T[Up(i)]) /\ ~Has(d.pipe[i], T[Pipe(i)])
    BY <2>1, <2>2, OtherClient
  <2> QED
    BY <1>5, <2>3, <2>4
<1> QED
  BY <1>2, <1>3, <1>4, <1>5, PlaceCases

-----------------------------------------------------------------------------
(* What workers and clients do with a message *)

\* The rest of the broker is as before.
SameLists(b, d) ==
    /\ d \in Brokers
    /\ d.service = b.service /\ d.waiting = b.waiting /\ d.idle = b.idle
    /\ d.requests = b.requests /\ d.workers = b.workers /\ d.live = b.live

\* ReadPipe changes one pipe only.
LEMMA ReadPipeIs ==
    ASSUME NEW b \in Brokers, NEW i \in Ids, b.pipe[i] # <<>>,
           NEW d, d = [b EXCEPT !.pipe[i] = Tail(@)]
    PROVE  SameLists(b, d) /\ Removed(b.pipe, i, d.pipe)
<1>1. b.pipe \in [Ids -> Seq(ToClient \cup ToWorker)]
  BY BrokerFields
<1>2. Tail(b.pipe[i]) \in Seq(ToClient \cup ToWorker)
  BY <1>1, HeadTailProperties
<1>3. PICK t \in Seq(ToClient \cup ToWorker) : t = Tail(b.pipe[i])
  BY <1>2
<1>4. d = [b EXCEPT !.pipe = [b.pipe EXCEPT ![i] = t]]
  BY <1>3, Zenon
<1>5. [b.pipe EXCEPT ![i] = t] \in [Ids -> Seq(ToClient \cup ToWorker)]
  BY <1>1
<1>6. SameLists(b, d) /\ d.pipe = [b.pipe EXCEPT ![i] = t]
  BY <1>4, <1>5, BrokerFields DEF SameLists, Brokers
<1> QED
  BY <1>3, <1>6 DEF Removed

\* DropPipe changes one pipe only.
LEMMA DropPipeIs ==
    ASSUME NEW b \in Brokers, NEW i \in Ids, NEW d, d = [b EXCEPT !.pipe[i] = <<>>]
    PROVE  SameLists(b, d) /\ d.pipe = [b.pipe EXCEPT ![i] = <<>>]
<1>1. b.pipe \in [Ids -> Seq(ToClient \cup ToWorker)]
  BY BrokerFields
<1>4. d = [b EXCEPT !.pipe = [b.pipe EXCEPT ![i] = <<>>]]
  BY Zenon
<1>5. [b.pipe EXCEPT ![i] = <<>>] \in [Ids -> Seq(ToClient \cup ToWorker)]
  BY <1>1
<1> QED
  BY <1>4, <1>5, BrokerFields DEF SameLists, Brokers

\* A peer reads a message.
LEMMA ViewTakePipe ==
    ASSUME NEW u, NEW b, NEW h, View(u, b, h), NEW i \in Ids, b.pipe[i] # <<>>,
           NEW d, SameLists(b, d), Removed(b.pipe, i, d.pipe)
    PROVE  /\ View(u, d, h)
           /\ FlowOf(u, d, h) = Take(FlowOf(u, b, h), Pipe(i))
           /\ Head(b.pipe[i]) \in Msgs
           /\ i \in ClientIds => Head(b.pipe[i]) \in ToClient
           /\ i \in WorkerIds =>
                /\ Head(b.pipe[i]) \in ToWorker
                /\ Head(b.pipe[i]).kind = "REQUEST" =>
                     /\ i \notin ToSet(b.waiting) /\ Nowhere(FlowOf(u, d, h), JobsOf(i))
                     /\ NoReady(u, i) /\ (restarts # 0 \/ b.service[i] # None)
<1> PICK F : F = FlowOf(u, b, h)
  OBVIOUS
<1> PICK G : G = FlowOf(u, d, h)
  OBVIOUS
<1>1. /\ u \in Ups /\ h \in Ups /\ b \in Brokers /\ Lists(b) /\ Kinds(u, b) /\ Linked(u, b)
      /\ \A j \in WorkerIds : Work(F, u, b, j)
  BY DEF View
<1>2. /\ d \in Brokers /\ d.service = b.service /\ d.waiting = b.waiting /\ d.idle = b.idle
      /\ d.requests = b.requests /\ d.workers = b.workers
  BY DEF SameLists
<1>3. /\ b.pipe \in [Ids -> Seq(ToClient \cup ToWorker)]
      /\ d.pipe = [b.pipe EXCEPT ![i] = Tail(b.pipe[i])]
  BY <1>1, BrokerFields DEF Removed
<1>4. d.pipe[i] = Tail(b.pipe[i]) /\ \A j \in Ids : j # i => d.pipe[j] = b.pipe[j]
  BY <1>3
<1>5. G = Take(F, Pipe(i)) /\ Pipe(i) \in Places /\ F \in Flows /\ F[Pipe(i)] = b.pipe[i]
  <2>1. G = Take(F, Pipe(i))
    <3>1. u \in Ups /\ h \in Ups /\ b \in Brokers /\ d \in Brokers /\ d.requests = b.requests
      BY <1>1, <1>2
    <3>2. FlowOf(u, d, h) = Take(FlowOf(u, b, h), Pipe(i))
      BY <3>1, FlowTakePipe
    <3> QED
      BY <3>2
  <2>2. IsFlow(F, u, b, h)
    BY <1>1, FlowOfFacts
  <2> QED
    BY <2>1, <2>2, PlaceCases DEF IsFlow
<1>6. ASSUME NEW j \in WorkerIds
      PROVE  /\ One(F, JobsOf(j)) => One(G, JobsOf(j))
             /\ Nowhere(F, JobsOf(j)) => Nowhere(G, JobsOf(j))
             /\ One(F, JobsOf(j)) /\ Head(b.pipe[i]) \in JobsOf(j)[Pipe(i)] => Nowhere(G, JobsOf(j))
             /\ Nowhere(F, JobsOf(j)) => Head(b.pipe[i]) \notin JobsOf(j)[Pipe(i)]
             /\ Head(b.pipe[i]) \in Msgs
  BY <1>5, FlowTake
<1>7. Kinds(u, d)
  <2>1. \A id \in Ids : \A S : b.pipe[id] \in Seq(S) => d.pipe[id] \in Seq(S)
    BY <1>4, HeadTailProperties
  <2> QED
    BY <1>1, <1>2, <2>1, IdFacts DEF Kinds
<1>8. Linked(u, d)
  <2>1. Connected(i)
    BY <1>1 DEF Linked
  <2>2. \A j \in Ids : ~Connected(j) => d.pipe[j] = b.pipe[j]
    BY <1>4, <2>1
  <2> QED
    BY <1>1, <1>2, <2>2 DEF Linked
<1>9. ASSUME NEW j \in WorkerIds PROVE Work(G, u, d, j)
  <2>1. Work(F, u, b, j)
    BY <1>1
  <2> QED
    BY <1>2, <1>6, <2>1 DEF Work
<1>10. Lists(d)
  BY <1>1, <1>2, ListsSame
<1>11. View(u, d, h)
  BY <1>1, <1>2, <1>7, <1>8, <1>9, <1>10 DEF View
<1>12. i \in ClientIds => Head(b.pipe[i]) \in ToClient
  BY <1>1, HeadTailProperties DEF Kinds
<1>13. ASSUME i \in WorkerIds
       PROVE  /\ Head(b.pipe[i]) \in ToWorker
              /\ Head(b.pipe[i]).kind = "REQUEST" =>
                     /\ i \notin ToSet(b.waiting) /\ Nowhere(G, JobsOf(i))
                     /\ NoReady(u, i) /\ (restarts # 0 \/ b.service[i] # None)
  <2>1. Head(b.pipe[i]) \in ToWorker
    BY <1>1, <1>13, HeadTailProperties DEF Kinds
  <2>2. Head(b.pipe[i]).kind = "REQUEST" => Head(b.pipe[i]) \in JobsOf(i)[Pipe(i)]
    BY <1>6, <1>13, JobPlaces
  <2>3. Work(F, u, b, i)
    BY <1>1, <1>13
  <2>4. ASSUME Head(b.pipe[i]) \in JobsOf(i)[Pipe(i)]
        PROVE  /\ i \notin ToSet(b.waiting) /\ Nowhere(G, JobsOf(i))
               /\ NoReady(u, i) /\ (restarts # 0 \/ b.service[i] # None)
    <3>1. ~Nowhere(F, JobsOf(i))
      BY <1>6, <1>13, <2>4
    <3>2. Nowhere(G, JobsOf(i))
      BY <1>6, <1>13, <2>3, <2>4 DEF Work
    <3> QED
      BY <2>3, <3>1, <3>2 DEF Work, NoReady
  <2> QED
    BY <2>1, <2>2, <2>4
<1>14. Head(b.pipe[i]) \in Msgs
  BY <1>5, FlowTake
<1> QED
  BY <1>5, <1>11, <1>12, <1>13, <1>14

\* A worker that has nothing else begins to work.
LEMMA ViewPutBusy ==
    ASSUME NEW u, NEW b, NEW h, View(u, b, h), NEW i \in WorkerIds, NEW r \in Pending,
           i \notin ToSet(b.waiting), Nowhere(FlowOf(u, b, h), JobsOf(i)),
           NoReady(u, i), restarts # 0 \/ b.service[i] # None,
           NEW k, Appended(h, i, r, k)
    PROVE  View(u, b, k) /\ FlowOf(u, b, k) = Put(FlowOf(u, b, h), Busy(i), r)
<1> PICK F : F = FlowOf(u, b, h)
  OBVIOUS
<1> PICK G : G = FlowOf(u, b, k)
  OBVIOUS
<1>1. /\ u \in Ups /\ h \in Ups /\ b \in Brokers /\ Lists(b) /\ Kinds(u, b) /\ Linked(u, b)
      /\ \A j \in WorkerIds : Work(F, u, b, j)
  BY DEF View
<1>2. i \in Ids /\ r \in Msgs /\ Busy(i) \in Places
  BY IdFacts, MessageKinds, PlaceCases
<1>3. k \in Ups
  <2>1. h[i] \in Seq(Msgs)
    BY <1>1, <1>2 DEF Ups
  <2>2. Append(h[i], r) \in Seq(Msgs)
    BY <1>2, <2>1, AppendProperties
  <2> QED
    BY <1>1, <2>2 DEF Ups, Appended
<1>4. G = Put(F, Busy(i), r)
  BY <1>1, <1>2, <1>3, FlowPutBusy
<1>5. F \in Flows
  BY <1>1, FlowOfFacts DEF IsFlow
<1>6. ASSUME NEW j \in WorkerIds
      PROVE  /\ One(F, JobsOf(j)) => One(G, JobsOf(j))
             /\ j # i /\ Nowhere(F, JobsOf(j)) => Nowhere(G, JobsOf(j))
  <2>1. r \in JobsOf(j)[Busy(i)] <=> i = j
    BY <1>2, JobPlaces
  <2>2. /\ One(F, JobsOf(j)) /\ (r \in JobsOf(j)[Busy(i)] => Nowhere(F, JobsOf(j)))
           => One(Put(F, Busy(i), r), JobsOf(j))
        /\ Nowhere(F, JobsOf(j)) /\ r \notin JobsOf(j)[Busy(i)] => Nowhere(Put(F, Busy(i), r), JobsOf(j))
    BY <1>2, <1>5, FlowPut
  <2> QED
    BY <1>4, <2>1, <2>2
<1>7. ASSUME NEW j \in WorkerIds PROVE Work(G, u, b, j)
  <2>1. Work(F, u, b, j)
    BY <1>1
  <2>2. CASE j = i
    BY <1>6, <2>1, <2>2 DEF Work, NoReady
  <2>3. CASE j # i
    BY <1>6, <2>1, <2>3 DEF Work
  <2> QED
    BY <2>2, <2>3
<1> QED
  BY <1>1, <1>3, <1>4, <1>7 DEF View

\* A worker has done its work.
LEMMA ViewTakeBusy ==
    ASSUME NEW u, NEW b, NEW h, View(u, b, h), NEW i \in WorkerIds, h[i] # <<>>,
           NEW k, Removed(h, i, k)
    PROVE  /\ View(u, b, k) /\ FlowOf(u, b, k) = Take(FlowOf(u, b, h), Busy(i))
           /\ i \notin ToSet(b.waiting) /\ Nowhere(FlowOf(u, b, k), JobsOf(i))
           /\ NoReady(u, i) /\ (restarts # 0 \/ b.service[i] # None)
           /\ Head(h[i]) \in Msgs
<1> PICK F : F = FlowOf(u, b, h)
  OBVIOUS
<1> PICK G : G = FlowOf(u, b, k)
  OBVIOUS
<1>1. /\ u \in Ups /\ h \in Ups /\ b \in Brokers /\ Lists(b) /\ Kinds(u, b) /\ Linked(u, b)
      /\ \A j \in WorkerIds : Work(F, u, b, j)
  BY DEF View
<1>2. i \in Ids /\ Busy(i) \in Places
  BY IdFacts, PlaceCases
<1>3. h[i] \in Seq(Msgs) /\ Tail(h[i]) \in Seq(Msgs) /\ Head(h[i]) \in Msgs
  BY <1>1, <1>2, HeadTailProperties DEF Ups
<1>4. k \in Ups
  BY <1>1, <1>3 DEF Ups, Removed
<1>5. G = Take(F, Busy(i))
  BY <1>1, <1>2, <1>4, FlowTakeBusy
<1>6. F \in Flows /\ F[Busy(i)] = h[i]
  BY <1>1, <1>2, FlowOfFacts DEF IsFlow
<1>7. ASSUME NEW j \in WorkerIds
      PROVE  /\ One(F, JobsOf(j)) => One(G, JobsOf(j))
             /\ Nowhere(F, JobsOf(j)) => Nowhere(G, JobsOf(j))
             /\ One(F, JobsOf(j)) /\ Head(h[i]) \in JobsOf(j)[Busy(i)] => Nowhere(G, JobsOf(j))
             /\ Nowhere(F, JobsOf(j)) => Head(h[i]) \notin JobsOf(j)[Busy(i)]
  BY <1>2, <1>5, <1>6, FlowTake
<1>8. ASSUME NEW j \in WorkerIds PROVE Work(G, u, b, j)
  <2>1. Work(F, u, b, j)
    BY <1>1
  <2> QED
    BY <1>7, <2>1 DEF Work
<1>9. Head(h[i]) \in JobsOf(i)[Busy(i)]
  BY <1>2, <1>3, JobPlaces
<1>10. ~Nowhere(F, JobsOf(i)) /\ Work(F, u, b, i)
  BY <1>1, <1>7, <1>9
<1>11. /\ i \notin ToSet(b.waiting) /\ Nowhere(G, JobsOf(i))
       /\ NoReady(u, i) /\ (restarts # 0 \/ b.service[i] # None)
  BY <1>7, <1>9, <1>10 DEF Work, NoReady
<1> QED
  BY <1>1, <1>3, <1>4, <1>5, <1>8, <1>11 DEF View

\* A message that may be sent on the connection i.
MaySend(u, b, h, i, m) ==
    \/ i \in ClientIds /\ m \in FromClient
    \/ i \in WorkerIds /\ m = HeartbeatMsg
    \/ /\ i \in WorkerIds /\ m \in FromWorker /\ m.kind = "REPLY"
       /\ i \notin ToSet(b.waiting) /\ Nowhere(FlowOf(u, b, h), JobsOf(i))
       /\ NoReady(u, i) /\ (restarts # 0 \/ b.service[i] # None)

\* A peer sends a message.
LEMMA ViewPutUp ==
    ASSUME NEW u, NEW b, NEW h, View(u, b, h), NEW i \in Ids, ~(i[2] > made[i[1]]),
           NEW m, MaySend(u, b, h, i, m), NEW v, Appended(u, i, m, v)
    PROVE  View(v, b, h) /\ FlowOf(v, b, h) = Put(FlowOf(u, b, h), Up(i), m)
<1> PICK F : F = FlowOf(u, b, h)
  OBVIOUS
<1> PICK G : G = FlowOf(v, b, h)
  OBVIOUS
<1>1. /\ u \in Ups /\ h \in Ups /\ b \in Brokers /\ Lists(b) /\ Kinds(u, b) /\ Linked(u, b)
      /\ \A j \in WorkerIds : Work(F, u, b, j)
  BY DEF View
<1>2. /\ i \in ClientIds => m \in FromClient
      /\ i \in WorkerIds => m \in FromWorker /\ m.kind # "READY"
      /\ m \in Msgs
  BY IdFacts, MessageKinds DEF MaySend
<1>3. v \in Ups /\ v[i] = Append(u[i], m) /\ \A j \in Ids : j # i => v[j] = u[j]
  <2>1. u[i] \in Seq(Msgs)
    BY <1>1 DEF Ups
  <2>2. Append(u[i], m) \in Seq(Msgs)
    BY <1>2, <2>1, AppendProperties
  <2> QED
    BY <1>1, <2>2 DEF Ups, Appended
<1>4. G = Put(F, Up(i), m) /\ Up(i) \in Places /\ F \in Flows
  <2>1. G = Put(F, Up(i), m)
    BY <1>1, <1>3, FlowPutUp
  <2>2. IsFlow(F, u, b, h)
    BY <1>1, FlowOfFacts
  <2> QED
    BY <2>1, <2>2, PlaceCases DEF IsFlow
<1>5. ASSUME NEW j \in WorkerIds, j # i \/ m.kind # "REPLY"
      PROVE  /\ One(F, JobsOf(j)) => One(G, JobsOf(j))
             /\ Nowhere(F, JobsOf(j)) => Nowhere(G, JobsOf(j))
  <2>1. m \notin JobsOf(j)[Up(i)]
    <3>1. m \in JobsOf(j)[Up(i)] <=> i = j /\ m.kind = "REPLY"
      BY <1>2, JobPlaces
    <3> QED
      BY <1>5, <3>1
  <2> QED
    BY <1>2, <1>4, <2>1, FlowPut
<1>6. Kinds(v, b)
  <2>1. ASSUME NEW id \in WorkerIds PROVE v[id] \in Seq(FromWorker) /\ b.pipe[id] \in Seq(ToWorker)
    <3>1. id \in Ids /\ u[id] \in Seq(FromWorker) /\ b.pipe[id] \in Seq(ToWorker)
      BY <1>1, IdFacts DEF Kinds
    <3>2. CASE id = i
      <4>1. Append(u[id], m) \in Seq(FromWorker)
        BY <1>2, <3>1, <3>2, AppendProperties
      <4> QED
        BY <1>3, <3>1, <3>2, <4>1
    <3> QED
      BY <1>3, <3>1, <3>2
  <2>2. ASSUME NEW id \in ClientIds
        PROVE  v[id] \in Seq(FromClient) /\ b.pipe[id] \in Seq(ToClient) /\ b.service[id] = None
    <3>1. id \in Ids /\ u[id] \in Seq(FromClient) /\ b.pipe[id] \in Seq(ToClient) /\ b.service[id] = None
      BY <1>1, IdFacts DEF Kinds
    <3>2. CASE id = i
      <4>1. Append(u[id], m) \in Seq(FromClient)
        BY <1>2, <3>1, <3>2, AppendProperties
      <4> QED
        BY <1>3, <3>1, <3>2, <4>1
    <3> QED
      BY <1>3, <3>1, <3>2
  <2> QED
    BY <2>1, <2>2 DEF Kinds
<1>7. Linked(v, b)
  BY <1>1, <1>3 DEF Linked
<1>8. ASSUME NEW j \in WorkerIds PROVE Work(G, v, b, j)
  <2>0. j \in Ids
    BY IdFacts
  <2>1. Work(F, u, b, j)
    BY <1>1
  <2>2. CASE j # i
    <3>1. v[j] = u[j]
      BY <1>3, <2>0, <2>2
    <3> QED
      BY <1>5, <2>1, <2>2, <3>1 DEF Work
  <2>3. ASSUME j = i, NEW n \in 1..Len(v[j]), v[j][n].kind = "READY"
        PROVE  n \in 1..Len(u[j]) /\ u[j][n].kind = "READY"
    <3>1. u[i] \in Seq(Msgs)
      BY <1>1 DEF Ups
    <3>2. /\ Len(v[i]) = Len(u[i]) + 1 /\ Len(u[i]) \in Nat
          /\ \A l \in 1..Len(u[i]) : v[i][l] = u[i][l]
          /\ v[i][Len(u[i]) + 1] = m
      BY <1>2, <1>3, <3>1, AppendProperties
    <3>3. m.kind # "READY"
      BY <1>2, <2>3
    <3>4. n # Len(u[i]) + 1
      BY <2>3, <3>2, <3>3
    <3> QED
      BY <2>3, <3>2, <3>4
  <2>4. CASE j = i /\ m.kind # "REPLY"
    BY <1>5, <2>1, <2>3, <2>4 DEF Work
  <2>5. CASE j = i /\ m.kind = "REPLY"
    <3>1. /\ i \notin ToSet(b.waiting) /\ Nowhere(F, JobsOf(i))
          /\ NoReady(u, i) /\ (restarts # 0 \/ b.service[i] # None)
      <4>1. HeartbeatMsg.kind # "REPLY" /\ i \notin ClientIds
        BY <2>5, MessageKinds, IdFacts
      <4> QED
        BY <2>5, <4>1 DEF MaySend
    <3>2. One(G, JobsOf(i))
      <4>1. One(F, JobsOf(i))
        BY <2>1, <2>5 DEF Work
      <4> QED
        BY <1>2, <1>4, <3>1, <4>1, FlowPut
    <3> QED
      BY <2>3, <2>5, <3>1, <3>2 DEF Work, NoReady
  <2> QED
    BY <2>2, <2>4, <2>5
<1> QED
  BY <1>1, <1>3, <1>4, <1>6, <1>7, <1>8 DEF View

-----------------------------------------------------------------------------
(* The invariant *)

\* What is in the hands of each socket's process.
Hd == [i \in Ids |-> Hands(i)]

FlowNow == FlowOf(up, broker, Hd)

\* The processes and their sockets: one is open at most, the last one made.
Rest ==
    /\ sock \in [Processes -> 0..MaxSockets]
    /\ made \in [Processes -> 0..MaxSockets]
    /\ restarts \in Nat /\ crashes \in Nat
    /\ wrk \in [Workers -> [pc : {"down", "recv", "busy"},
                            service : Services \cup {None},
                            reply_to : Pending \cup {NoRequest},
                            liveness : 1..HEARTBEAT_LIVENESS]]
    /\ cli \in [Clients -> [pc : {"idle", "poll", "stopped"}, n : Nat,
                            service : Names \cup {None},
                            body : Bodies \cup {None}, retries_left : Nat]]
    /\ acli \in [AsyncClients -> [pc : {"new", "send", "recv", "stopped"},
                                  n : Nat, replies : Seq(Bodies)]]
    /\ \A p \in Processes : sock[p] \in {0, made[p]}
    /\ \A w \in Workers : /\ wrk[w].pc = "down" <=> sock[w] = 0
                          /\ wrk[w].pc = "busy" => wrk[w].reply_to \in Pending
                          /\ sock[w] # 0 => wrk[w].service \in Services
    /\ crashes = 0 => \A w \in Workers : sock[w] = made[w]
    /\ \A c \in Clients : cli[c].pc = "poll" => /\ sock[c] # 0
                                                /\ cli[c].service \in Names
                                                /\ cli[c].body \in Bodies
    /\ \A a \in AsyncClients : /\ acli[a].pc \in {"send", "recv"} <=> sock[a] # 0
                               /\ acli[a].pc = "new" => acli[a].n = 0 /\ acli[a].replies = <<>>

Seen == View(up, broker, Hd)

Base == Rest /\ Sound(broker) /\ Seen

\* Nothing has failed, and no worker has given up a connection.
Quiet == crashes = 0 /\ restarts = 0 /\ \A w \in Workers : made[w] <= 1

\* The invariant says that the state has its type.
LEMMA BaseType ==
    ASSUME Base
    PROVE  TypeOK
<1>1. up \in [Ids -> Seq(FromClient \cup FromWorker)]
  <2>1. up \in [Ids -> Seq(Msgs)] /\ Kinds(up, broker)
    BY DEF Base, Seen, View, Ups
  <2>2. \A i \in Ids : up[i] \in Seq(FromClient \cup FromWorker)
    <3>1. \A i \in Ids : up[i] \in Seq(FromClient) \/ up[i] \in Seq(FromWorker)
      BY <2>1, IdFacts DEF Kinds
    <3>2. FromClient \subseteq FromClient \cup FromWorker /\ FromWorker \subseteq FromClient \cup FromWorker
      OBVIOUS
    <3> QED
      BY <3>1, <3>2, SeqMonotone
  <2> QED
    BY <2>1, <2>2
<1>2. broker \in Brokers
  BY DEF Base, Sound
<1> QED
  BY <1>1, <1>2 DEF Base, Rest, TypeOK

\* Processes and their sockets.
LEMMA ProcessFacts ==
    /\ Workers \subseteq Processes /\ Clients \subseteq Processes /\ AsyncClients \subseteq Processes
    /\ Workers \cap Clients = {} /\ Workers \cap AsyncClients = {} /\ Clients \cap AsyncClients = {}
    /\ \A i \in Ids : i[1] \in Processes /\ i[2] \in 1..MaxSockets /\ i = <<i[1], i[2]>>
    /\ \A i \in Ids : (i \in WorkerIds <=> i[1] \in Workers) /\ (i \in ClientIds <=> i[1] \notin Workers)
    /\ \A p \in Processes : \A n \in 1..MaxSockets :
          <<p, n>> \in Ids /\ <<p, n>>[1] = p /\ <<p, n>>[2] = n
    /\ MaxSockets \in Nat
  BY NetAssumption DEF Processes, Ids, WorkerIds, ClientIds

\* The open socket of a process.
LEMMA CurFacts ==
    ASSUME Rest, NEW p \in Processes, sock[p] # 0
    PROVE  /\ Cur(p) \in Ids /\ Cur(p)[1] = p /\ Cur(p)[2] = sock[p] /\ Connected(Cur(p))
           /\ ~(Cur(p)[2] > made[Cur(p)[1]])
           /\ p \in Workers => Cur(p) \in WorkerIds
           /\ p \notin Workers => Cur(p) \in ClientIds
           /\ \A i \in Ids : i[1] = p /\ Connected(i) => i = Cur(p)
<1>1. sock[p] \in 1..MaxSockets /\ sock[p] = made[p]
  BY ProcessFacts DEF Rest
<1>2. Cur(p) = <<p, sock[p]>>
  BY DEF Cur
<1>3. Cur(p) \in Ids /\ Cur(p)[1] = p /\ Cur(p)[2] = sock[p]
  BY <1>1, <1>2, ProcessFacts
<1>4. Connected(Cur(p)) /\ \A i \in Ids : i[1] = p /\ Connected(i) => i = Cur(p)
  BY <1>2, <1>3, ProcessFacts DEF Connected
<1>5. ~(Cur(p)[2] > made[Cur(p)[1]])
  BY <1>1, <1>3
<1> QED
  BY <1>3, <1>4, <1>5, ProcessFacts

\* Only a busy worker has something in its hands.
LEMMA HandsFacts ==
    ASSUME Rest
    PROVE  /\ Hd \in [Ids -> Seq(Pending)] /\ Hd \in Ups
           /\ \A i \in Ids : Hd[i] = Hands(i)
           /\ \A w \in Workers : sock[w] # 0 =>
                 /\ wrk[w].pc = "busy" => Hd[Cur(w)] = <<wrk[w].reply_to>> /\ wrk[w].reply_to \in Pending
                 /\ wrk[w].pc # "busy" => Hd[Cur(w)] = <<>>
           /\ \A i \in Ids : ~Connected(i) \/ i \in ClientIds => Hd[i] = <<>>
<1>1. \A i \in Ids : Hands(i) \in Seq(Pending)
  BY ProcessFacts DEF Hands, Rest
<1>2. Hd \in [Ids -> Seq(Pending)] /\ \A i \in Ids : Hd[i] = Hands(i)
  BY <1>1 DEF Hd
<1>3. Hd \in Ups
  <2>1. \A i \in Ids : Hd[i] \in Seq(Msgs)
    BY <1>2, MessageKinds, SeqMonotone
  <2> QED
    BY <1>2, <2>1 DEF Ups
<1>4. ASSUME NEW w \in Workers, sock[w] # 0
      PROVE  /\ wrk[w].pc = "busy" => Hd[Cur(w)] = <<wrk[w].reply_to>> /\ wrk[w].reply_to \in Pending
             /\ wrk[w].pc # "busy" => Hd[Cur(w)] = <<>>
  <2>1. Cur(w) \in Ids /\ Cur(w)[1] = w /\ Connected(Cur(w))
    BY <1>4, CurFacts, ProcessFacts
  <2> QED
    BY <1>2, <2>1 DEF Hands, Rest
<1>5. \A i \in Ids : ~Connected(i) \/ i \in ClientIds => Hd[i] = <<>>
  BY <1>2, ProcessFacts DEF Hands
<1> QED
  BY <1>2, <1>3, <1>4, <1>5

\* While nothing fails, every socket that a worker made is open.
LEMMA QuietCalm ==
    ASSUME Rest, Quiet
    PROVE  Calm /\ restarts = 0
<1> SUFFICES ASSUME NEW i \in WorkerIds, ~(i[2] > made[i[1]])
             PROVE  Connected(i)
  BY DEF Calm, Quiet
<1>1. i[1] \in Workers /\ i[2] \in 1..MaxSockets /\ i[1] \in Processes
  BY IdFacts, ProcessFacts
<1>2. made[i[1]] \in Nat /\ made[i[1]] <= 1 /\ sock[i[1]] = made[i[1]]
  BY <1>1, ProcessFacts DEF Rest, Quiet
<1> QED
  BY <1>1, <1>2, ProcessFacts DEF Connected

\* The connections are those of the state before.
LEMMA SeenAgain ==
    ASSUME sock' = sock, made' = made, restarts' = restarts,
           NEW v, NEW d, NEW k, v = up', d = broker', k = Hd', View(v, d, k)
    PROVE  Seen'
<1>1. /\ v \in Ups /\ k \in Ups /\ d \in Brokers /\ Lists(d) /\ Kinds(v, d)
      /\ Linked(v, d) /\ \A i \in WorkerIds : Work(FlowOf(v, d, k), v, d, i)
  BY DEF View
<1>2. Linked(up, broker)'
  BY <1>1 DEF Linked, Connected
<1>3. ASSUME NEW i \in WorkerIds PROVE Work(FlowOf(up, broker, Hd), up, broker, i)'
  <2>1. Work(FlowOf(v, d, k), v, d, i)
    BY <1>1
  <2> QED
    BY <2>1 DEF Work
<1> QED
  BY <1>1, <1>2, <1>3 DEF Seen, View

-----------------------------------------------------------------------------
(* Steps on open connections *)

\* No copy of a client's request is made, and none is lost while all is quiet.
Delivers(F, b, G, d) ==
    \A id \in ClientIds : /\ Carries(F, b, G, d, id)
                          /\ Quiet' /\ Connected(id) => Saved(F, G, AllOf(id))

\* Steps of the broker leave the processes alone.
LEMMA RestSame ==
    ASSUME Rest, UNCHANGED <<sock, made, restarts, crashes, wrk, cli, acli>>
    PROVE  Rest'
BY DEF Rest

\* A running worker goes on.
LEMMA RestWorker ==
    ASSUME Rest, UNCHANGED <<sock, made, restarts, crashes, cli, acli>>,
           NEW w \in Workers, wrk[w].pc # "down", NEW r,
           r \in [pc : {"recv", "busy"}, service : Services \cup {None},
                  reply_to : Pending \cup {NoRequest}, liveness : 1..HEARTBEAT_LIVENESS],
           r.service = wrk[w].service, r.pc = "busy" => r.reply_to \in Pending,
           wrk' = [wrk EXCEPT ![w] = r]
    PROVE  Rest'
<1>1. wrk' \in [Workers -> [pc : {"down", "recv", "busy"},
                            service : Services \cup {None},
                            reply_to : Pending \cup {NoRequest},
                            liveness : 1..HEARTBEAT_LIVENESS]]
  BY DEF Rest
<1>2. wrk'[w] = r /\ \A x \in Workers : x # w => wrk'[x] = wrk[x]
  BY DEF Rest
<1>3. \A x \in Workers : /\ wrk'[x].pc = "down" <=> sock[x] = 0
                         /\ wrk'[x].pc = "busy" => wrk'[x].reply_to \in Pending
                         /\ sock[x] # 0 => wrk'[x].service \in Services
  BY <1>2 DEF Rest
<1> QED
  BY <1>1, <1>3 DEF Rest

\* A step that Moved, on the connections as they are.
LEMMA Moves ==
    ASSUME Base, UNCHANGED <<sock, made, restarts, crashes>>, Rest',
           NEW v, NEW d, NEW k, v = up', d = broker', k = Hd', View(v, d, k), Sound(d),
           Moved(FlowOf(up, broker, Hd), broker, FlowOf(v, d, k), d)
    PROVE  Base' /\ Delivers(FlowNow, broker, FlowNow', broker')
<1>1. Seen'
  BY SeenAgain
<1>2. Sound(broker)'
  BY DEF Sound
<1>3. FlowOf(up, broker, Hd) \in Flows /\ FlowOf(v, d, k) \in Flows
  <2>1. up \in Ups /\ broker \in Brokers /\ Hd \in Ups /\ v \in Ups /\ d \in Brokers /\ k \in Ups
    BY DEF Base, Seen, View
  <2> QED
    BY <2>1, FlowOfFacts DEF IsFlow
<1>4. FlowNow = FlowOf(up, broker, Hd) /\ FlowNow' = FlowOf(v, d, k)
  BY DEF FlowNow
<1>5. ASSUME Quiet' PROVE Calm /\ restarts = 0
  <2>1. Quiet
    BY <1>5 DEF Quiet
  <2> QED
    BY <2>1, QuietCalm DEF Base
<1>6. ASSUME NEW id \in ClientIds
      PROVE  /\ Carries(FlowNow, broker, FlowNow', d, id)
             /\ Quiet' /\ Connected(id) => Saved(FlowNow, FlowNow', AllOf(id))
  BY <1>3, <1>4, <1>5, MovedCarries
<1> QED
  BY <1>1, <1>2, <1>6 DEF Base, Delivers

\* Hands depend on workers and sockets only.
LEMMA HandsSame ==
    ASSUME UNCHANGED <<sock, wrk>>
    PROVE  Hd' = Hd
BY DEF Hd, Hands, Connected

\* The broker's loop receives a message.
LEMMA StepRecv ==
    ASSUME Base, NEW i \in Ids, BrokerRecv(i), UNCHANGED <<workerVars, cli, acli>>
    PROVE  Base' /\ Delivers(FlowNow, broker, FlowNow', broker')
<1>0. UNCHANGED <<sock, made, restarts, crashes, wrk, cli, acli>>
  BY DEF BrokerRecv, workerVars
<1>1. Rest' /\ Hd' = Hd
  BY <1>0, RestSame, HandsSame DEF Base
<1> DEFINE v == up'
           d == broker'
           k == Hd'
           m == Head(up[i])
<1>2. Heard(up, broker, Hd, i, v, m)
  BY DEF Heard, BrokerRecv, Base, Seen, Removed
<1>3. d = IF m.kind = "CLIENT" THEN s_broker_client_msg(broker, i, m)
          ELSE s_broker_worker_msg(broker, i, m)
  BY DEF BrokerRecv
<1>4. Handled(up, broker, Hd, v, d)
  <2> HIDE DEF v, d, m
  <2> QED
    BY <1>2, <1>3, RecvFacts
<1>5. View(v, d, k) /\ Sound(d) /\ Moved(FlowOf(up, broker, Hd), broker, FlowOf(v, d, k), d)
  <2> HIDE DEF v, d
  <2> QED
    BY <1>1, <1>4 DEF Handled
<1>6. v = up' /\ d = broker' /\ k = Hd'
  OBVIOUS
<1> HIDE DEF v, d, k
<1> QED
  BY <1>0, <1>1, <1>5, <1>6, Moves

\* The clock runs.
LEMMA StepTime ==
    ASSUME Base, TimePasses, UNCHANGED <<workerVars, cli, acli>>
    PROVE  Base' /\ Delivers(FlowNow, broker, FlowNow', broker')
<1>0. UNCHANGED <<sock, made, up, restarts, crashes, wrk, cli, acli>>
  BY DEF TimePasses, netVars, workerVars
<1>1. Rest' /\ Hd' = Hd
  BY <1>0, RestSame, HandsSame DEF Base
<1>2. PICK d : d = broker'
  OBVIOUS
<1>3. broker \in Brokers /\ broker.live # <<>> /\ d = [broker EXCEPT !.live = Tail(@)]
  BY <1>2 DEF Base, Sound, TimePasses
<1>4. broker.live \in Seq(WorkerIds) /\ Tail(broker.live) \in Seq(WorkerIds)
  BY <1>3, BrokerFields, TailFacts
<1>5. /\ d.service = broker.service /\ d.waiting = broker.waiting /\ d.idle = broker.idle
      /\ d.requests = broker.requests /\ d.workers = broker.workers /\ d.pipe = broker.pipe
  BY <1>3 DEF Brokers
<1>6. d \in Brokers
  BY <1>3, <1>4 DEF Brokers
<1>7. Sound(d)
  BY <1>5, <1>6, SoundSame DEF Base
<1>8. View(up, d, Hd) /\ FlowOf(up, d, Hd) = FlowOf(up, broker, Hd)
  BY <1>5, <1>7, ViewSame DEF Base, Seen
<1>9. Moved(FlowOf(up, broker, Hd), broker, FlowOf(up, d, Hd), d)
  BY <1>5, <1>8, KeepsTrans, MovedBy
<1> QED
  BY <1>0, <1>1, <1>2, <1>7, <1>8, <1>9, Moves

\* HEARTBEATs are neither requests nor replies.
LEMMA BeatSeq ==
    ASSUME NEW S, NEW s \in Seq(S), NEW m \in S, NEW T, m \notin T
    PROVE  /\ Has(Append(s, m), T) <=> Has(s, T)
           /\ Once(s, T) => Once(Append(s, m), T)
BY HasAppend

\* A purge keeps a broker sound.
LEMMA PurgedSound ==
    ASSUME NEW b, Sound(b), NEW c, Purged(b, c)
    PROVE  Sound(c)
<1>1. b \in Brokers /\ c \in Brokers /\ Lists(c) /\ c.requests = b.requests
  BY DEF Sound, Purged
<1>2. ASSUME NEW t \in Services PROVE Drained(c, t)
  <2>1. /\ Drained(b, t) /\ b.idle[t] \in Seq(WorkerIds) /\ c.idle[t] \in Seq(WorkerIds)
        /\ Len(c.idle[t]) <= Len(b.idle[t])
    BY <1>1, BrokerFields DEF Sound, Purged
  <2>2. b.idle[t] = <<>> => c.idle[t] = <<>>
    BY <2>1
  <2> QED
    BY <1>1, <2>1, <2>2 DEF Drained
<1> QED
  BY <1>1, <1>2 DEF Sound

\* The broker d is b after a round of heartbeats.
Beaten(b, d) ==
    /\ SameLists(b, d)
    /\ \A i \in Ids : \/ d.pipe[i] = b.pipe[i]
                      \/ /\ i \in WorkerIds /\ Connected(i)
                         /\ d.pipe[i] = Append(b.pipe[i], HeartbeatMsg)

\* Heartbeats are no copies and no jobs.
LEMMA BeatFlow ==
    ASSUME NEW u \in Ups, NEW b \in Brokers, NEW h \in Ups, NEW d, Beaten(b, d), NEW T,
           \A w \in WorkerIds : HeartbeatMsg \notin T[Pipe(w)]
    PROVE  /\ Kept(FlowOf(u, b, h), FlowOf(u, d, h), T)
           /\ Saved(FlowOf(u, b, h), FlowOf(u, d, h), T)
<1>1. PICK F : F = FlowOf(u, b, h)
  OBVIOUS
<1>2. PICK G : G = FlowOf(u, d, h)
  OBVIOUS
<1>3. IsFlow(F, u, b, h) /\ IsFlow(G, u, d, h)
  BY <1>1, <1>2, FlowOfFacts DEF Beaten, SameLists
<1>4. ASSUME NEW p \in Places
      PROVE  /\ Has(G[p], T[p]) <=> Has(F[p], T[p])
             /\ Once(F[p], T[p]) => Once(G[p], T[p])
  <2>1. CASE G[p] = F[p]
    BY <2>1
  <2>2. CASE G[p] # F[p]
    <3>1. PICK i \in Ids : p = Pipe(i)
      BY <1>3, <2>2, PlaceCases DEF IsFlow, Beaten, SameLists
    <3>2. /\ G[p] = d.pipe[i] /\ F[p] = b.pipe[i]
          /\ i \in WorkerIds /\ d.pipe[i] = Append(b.pipe[i], HeartbeatMsg)
      BY <1>3, <2>2, <3>1 DEF IsFlow, Beaten
    <3>3. F[p] \in Seq(Msgs) /\ HeartbeatMsg \in Msgs /\ HeartbeatMsg \notin T[p]
      BY <1>3, <3>1, <3>2, MessageKinds DEF IsFlow, Flows
    <3> QED
      BY <3>2, <3>3, BeatSeq
  <2> QED
    BY <2>1, <2>2
<1>5. Kept(F, G, T) /\ Saved(F, G, T)
  BY <1>4, FlowFrame DEF Kept, Saved, Nowhere
<1> QED
  BY <1>1, <1>2, <1>5

\* Heartbeats are sent to waiting workers.
LEMMA ViewBeat ==
    ASSUME NEW u, NEW b, NEW h, View(u, b, h), NEW d, Beaten(b, d)
    PROVE  /\ View(u, d, h)
           /\ \A sv : /\ Keeps(FlowOf(u, b, h), FlowOf(u, d, h), sv)
                      /\ Saves(FlowOf(u, b, h), FlowOf(u, d, h), sv)
<1>1. u \in Ups /\ h \in Ups /\ b \in Brokers /\ Lists(b) /\ Kinds(u, b) /\ Linked(u, b)
  BY DEF View
<1>2. d \in Brokers /\ Lists(d)
  BY <1>1, ListsSame DEF Beaten, SameLists
<1>3. Kinds(u, d)
  <2>1. ASSUME NEW i \in WorkerIds PROVE d.pipe[i] \in Seq(ToWorker)
    <3>1. b.pipe[i] \in Seq(ToWorker) /\ HeartbeatMsg \in ToWorker /\ i \in Ids
      BY <1>1, MessageKinds, IdFacts DEF Kinds
    <3>2. Append(b.pipe[i], HeartbeatMsg) \in Seq(ToWorker)
      BY <3>1
    <3> QED
      BY <3>1, <3>2 DEF Beaten
  <2>2. ASSUME NEW i \in ClientIds PROVE d.pipe[i] \in Seq(ToClient) /\ d.service[i] = None
    BY <1>1, IdFacts DEF Kinds, Beaten, SameLists
  <2> QED
    BY <1>1, <2>1, <2>2 DEF Kinds
<1>4. Linked(u, d)
  BY <1>1 DEF Linked, Beaten, SameLists
<1>5. PICK F : F = FlowOf(u, b, h)
  OBVIOUS
<1>6. PICK G : G = FlowOf(u, d, h)
  OBVIOUS
<1>7. \A T : (\A w \in WorkerIds : HeartbeatMsg \notin T[Pipe(w)]) => Kept(F, G, T) /\ Saved(F, G, T)
  BY <1>1, <1>5, <1>6, BeatFlow
<1>8. \A T : TameRest(T) => Kept(F, G, T) /\ Saved(F, G, T)
  BY <1>7, MessageKinds DEF TameRest
<1>9. ASSUME NEW i \in WorkerIds PROVE Work(G, u, d, i)
  <2>1. \A w \in WorkerIds : HeartbeatMsg \notin JobsOf(i)[Pipe(w)]
    BY MessageKinds, JobPlaces, IdFacts
  <2>2. Kept(F, G, JobsOf(i)) /\ Work(F, u, b, i)
    BY <1>5, <1>7, <2>1 DEF View
  <2> QED
    BY <2>2 DEF Work, Kept, Beaten, SameLists
<1>10. View(u, d, h)
  BY <1>1, <1>2, <1>3, <1>4, <1>6, <1>9 DEF View
<1>11. \A sv : Keeps(F, G, sv) /\ Saves(F, G, sv)
  BY <1>8 DEF Keeps, Saves, Tame, Loyal
<1> QED
  BY <1>5, <1>6, <1>10, <1>11

\* The broker purges and sends heartbeats.
LEMMA StepBeat ==
    ASSUME Base, BrokerHeartbeat, UNCHANGED <<workerVars, cli, acli>>
    PROVE  Base' /\ Delivers(FlowNow, broker, FlowNow', broker')
<1>0. UNCHANGED <<sock, made, up, restarts, crashes, wrk, cli, acli>>
  BY DEF BrokerHeartbeat, netVars, workerVars
<1>1. Rest' /\ Hd' = Hd
  BY <1>0, RestSame, HandsSame DEF Base
<1>2. PICK d : d = broker'
  OBVIOUS
<1>3. PICK b : b = s_broker_purge(broker)
  OBVIOUS
<1>4. d = [b EXCEPT !.pipe = [id \in Ids |->
                         IF Contains(b.waiting, id) /\ Connected(id)
                         THEN Append(b.pipe[id], HeartbeatMsg) ELSE b.pipe[id]]]
  BY <1>2, <1>3 DEF BrokerHeartbeat
<1>5. Purged(broker, b) /\ Sound(b)
  BY <1>3, PurgeFacts, PurgedSound DEF Base, Sound
<1>6. View(up, b, Hd) /\ FlowOf(up, b, Hd) = FlowOf(up, broker, Hd)
  BY <1>5, ViewPurge DEF Base, Seen
<1>7. b \in Brokers /\ b.pipe \in [Ids -> Seq(ToClient \cup ToWorker)] /\ b.waiting \in Seq(WorkerIds)
  BY <1>5, BrokerFields DEF Sound
<1>8. \A id : Contains(b.waiting, id) => id \in WorkerIds
  BY <1>7 DEF Contains
<1>9. Beaten(b, d) /\ d.pipe \in [Ids -> Seq(ToClient \cup ToWorker)]
  <2>1. PICK f : f = [id \in Ids |->
                         IF Contains(b.waiting, id) /\ Connected(id)
                         THEN Append(b.pipe[id], HeartbeatMsg) ELSE b.pipe[id]]
    OBVIOUS
  <2>2. f \in [Ids -> Seq(ToClient \cup ToWorker)]
    BY <1>7, <2>1, MessageKinds
  <2>3. d = [b EXCEPT !.pipe = f]
    BY <1>4, <2>1
  <2>4. /\ d \in Brokers /\ d.pipe = f
        /\ d.service = b.service /\ d.waiting = b.waiting /\ d.idle = b.idle
        /\ d.requests = b.requests /\ d.workers = b.workers /\ d.live = b.live
    BY <1>7, <2>2, <2>3 DEF Brokers
  <2> QED
    BY <1>8, <2>1, <2>2, <2>4 DEF Beaten, SameLists
<1>10. Sound(d)
  BY <1>5, <1>9, SoundSame DEF Beaten, SameLists
<1>11. View(up, d, Hd) /\ Keeps(FlowOf(up, broker, Hd), FlowOf(up, d, Hd), broker.service)
       /\ Saves(FlowOf(up, broker, Hd), FlowOf(up, d, Hd), broker.service)
  BY <1>6, <1>9, ViewBeat
<1>12. \A i \in Ids : d.service[i] = broker.service[i] \/ d.service[i] = None
  BY <1>5, <1>9 DEF Purged, Beaten, SameLists
<1>13. Moved(FlowOf(up, broker, Hd), broker, FlowOf(up, d, Hd), d)
  BY <1>11, <1>12, MovedBy
<1> QED
  BY <1>0, <1>1, <1>2, <1>10, <1>11, <1>13, Moves

\* SendUp with one message.
LEMMA SendIs ==
    ASSUME NEW p, Cur(p) \in Ids, up \in Ups, NEW m, SendUp(p, <<m>>)
    PROVE  /\ Appended(up, Cur(p), m, up')
           /\ UNCHANGED <<sock, made>>
<1>1. up[Cur(p)] \o <<m>> = Append(up[Cur(p)], m)
  BY DEF Ups
<1> QED
  BY <1>1 DEF SendUp, Appended

\* A worker may send a heartbeat at the end of a round.
LEMMA MaybeBeat ==
    ASSUME Rest, NEW w \in Workers, sock[w] # 0, MaybeHeartbeat(w),
           NEW d, NEW h, View(up, d, h)
    PROVE  /\ UNCHANGED <<sock, made>>
           /\ \E v : /\ v = up' /\ View(v, d, h)
                     /\ \A sv : /\ Keeps(FlowOf(up, d, h), FlowOf(v, d, h), sv)
                                /\ Saves(FlowOf(up, d, h), FlowOf(v, d, h), sv)
<1>1. CASE UNCHANGED netVars
  <2>1. up' = up /\ UNCHANGED <<sock, made>>
    BY <1>1 DEF netVars
  <2> QED
    BY <2>1, KeepsTrans
<1>2. CASE SendUp(w, <<HeartbeatMsg>>)
  <2>1. /\ Cur(w) \in Ids /\ Cur(w) \in WorkerIds
        /\ ~(Cur(w)[2] > made[Cur(w)[1]])
    BY CurFacts, ProcessFacts
  <2>2. up \in Ups /\ d \in Brokers /\ h \in Ups
    BY DEF View
  <2>3. Appended(up, Cur(w), HeartbeatMsg, up') /\ UNCHANGED <<sock, made>>
    BY <1>2, <2>1, <2>2, SendIs
  <2>4. PICK v : v = up'
    OBVIOUS
  <2>5. MaySend(up, d, h, Cur(w), HeartbeatMsg)
    BY <2>1 DEF MaySend
  <2>6. View(v, d, h) /\ FlowOf(v, d, h) = Put(FlowOf(up, d, h), Up(Cur(w)), HeartbeatMsg)
    BY <2>1, <2>3, <2>4, <2>5, ViewPutUp
  <2>7. FlowOf(up, d, h) \in Flows /\ Up(Cur(w)) \in Places /\ HeartbeatMsg \in Msgs
    BY <2>1, <2>2, FlowOfFacts, PlaceCases, MessageKinds DEF IsFlow
  <2>8. \A T : TameRest(T) => HeartbeatMsg \notin T[Up(Cur(w))]
    BY <2>1, MessageKinds DEF TameRest
  <2>9. \A T : TameRest(T) => /\ Kept(FlowOf(up, d, h), FlowOf(v, d, h), T)
                              /\ Saved(FlowOf(up, d, h), FlowOf(v, d, h), T)
    BY <2>6, <2>7, <2>8, KeptPut
  <2>10. \A sv : /\ Keeps(FlowOf(up, d, h), FlowOf(v, d, h), sv)
                 /\ Saves(FlowOf(up, d, h), FlowOf(v, d, h), sv)
    BY <2>9 DEF Keeps, Saves, Tame, Loyal
  <2> QED
    BY <2>3, <2>4, <2>6, <2>10
<1> QED
  BY <1>1, <1>2 DEF MaybeHeartbeat

\* A worker whose hands are as before.
LEMMA HandsKeep ==
    ASSUME Rest, UNCHANGED sock, NEW w \in Workers,
           NEW r, wrk' = [wrk EXCEPT ![w] = r],
           wrk[w].pc # "busy", r.pc # "busy"
    PROVE  Hd' = Hd
<1>1. \A i \in Ids : Hands(i)' = Hands(i)
  BY DEF Hands, Connected, Rest
<1> QED
  BY <1>1 DEF Hd

\* A worker's poll times out and it goes on waiting.
LEMMA StepTimeout ==
    ASSUME Base, NEW w \in Workers, WorkerTimeout(w), wrk[w].liveness > 1, UNCHANGED <<cli, acli>>
    PROVE  Base' /\ Delivers(FlowNow, broker, FlowNow', broker')
<1>1. wrk[w].pc = "recv" /\ sock[w] # 0
  BY DEF WorkerTimeout, Base, Rest
<1>2. /\ wrk' = [wrk EXCEPT ![w].liveness = @ - 1]
      /\ MaybeHeartbeat(w) /\ UNCHANGED <<broker, restarts, crashes>>
  BY DEF WorkerTimeout, brokerVars
<1>3. PICK r : r = [wrk[w] EXCEPT !.liveness = @ - 1]
  OBVIOUS
<1>4. wrk' = [wrk EXCEPT ![w] = r]
  BY <1>2, <1>3 DEF Base, Rest
<1>5. PICK v : /\ v = up' /\ View(v, broker, Hd)
               /\ \A sv : /\ Keeps(FlowOf(up, broker, Hd), FlowOf(v, broker, Hd), sv)
                          /\ Saves(FlowOf(up, broker, Hd), FlowOf(v, broker, Hd), sv)
  BY <1>1, <1>2, MaybeBeat DEF Base, Seen
<1>6. UNCHANGED <<sock, made>>
  BY <1>1, <1>2, MaybeBeat DEF Base, Seen
<1>7. /\ r \in [pc : {"recv", "busy"}, service : Services \cup {None},
                reply_to : Pending \cup {NoRequest}, liveness : 1..HEARTBEAT_LIVENESS]
      /\ r.service = wrk[w].service /\ r.pc = "recv"
  <2>1. wrk[w] \in [pc : {"down", "recv", "busy"},
                    service : Services \cup {None},
                    reply_to : Pending \cup {NoRequest},
                    liveness : 1..HEARTBEAT_LIVENESS]
    BY DEF Base, Rest
  <2>2. wrk[w].liveness - 1 \in 1..HEARTBEAT_LIVENESS
    BY <2>1, WorkerAssumption
  <2> QED
    BY <1>1, <1>3, <2>1, <2>2
<1>8. Rest'
  BY <1>1, <1>2, <1>4, <1>6, <1>7, RestWorker DEF Base
<1>9. Hd' = Hd
  BY <1>1, <1>4, <1>6, <1>7, HandsKeep DEF Base
<1>10. Moved(FlowOf(up, broker, Hd), broker, FlowOf(v, broker, Hd), broker)
  BY <1>5, MovedBy
<1> QED
  BY <1>2, <1>5, <1>6, <1>8, <1>9, <1>10, Moves DEF Base

\* The record of a worker.
LEMMA WorkerRecord ==
    ASSUME Rest, NEW w \in Workers
    PROVE  wrk[w] \in [pc : {"down", "recv", "busy"}, service : Services \cup {None},
                       reply_to : Pending \cup {NoRequest}, liveness : 1..HEARTBEAT_LIVENESS]
BY DEF Rest

\* A worker reads from its pipe.
LEMMA WorkerReads ==
    ASSUME Base, NEW w \in Workers, wrk[w].pc = "recv", broker.pipe[Cur(w)] # <<>>,
           ReadPipe(Cur(w)), NEW i, i = Cur(w), NEW d, d = broker', NEW m, m = Head(broker.pipe[i])
    PROVE  /\ sock[w] # 0 /\ i \in WorkerIds /\ i \in Ids /\ Connected(i)
           /\ ~(i[2] > made[i[1]])
           /\ View(up, d, Hd) /\ SameLists(broker, d) /\ Sound(d)
           /\ FlowOf(up, d, Hd) = Take(FlowOf(up, broker, Hd), Pipe(i))
           /\ FlowOf(up, broker, Hd) \in Flows /\ Pipe(i) \in Places
           /\ FlowOf(up, broker, Hd)[Pipe(i)] # <<>> /\ Head(FlowOf(up, broker, Hd)[Pipe(i)]) = m
           /\ m \in ToWorker
           /\ m.kind = "REQUEST" =>
                /\ i \notin ToSet(d.waiting) /\ Nowhere(FlowOf(up, d, Hd), JobsOf(i))
                /\ NoReady(up, i) /\ (restarts # 0 \/ d.service[i] # None)
<1>1. sock[w] # 0
  BY DEF Base, Rest
<1>2. i \in WorkerIds /\ i \in Ids /\ Connected(i) /\ ~(i[2] > made[i[1]])
  BY <1>1, CurFacts, ProcessFacts DEF Base
<1>3. /\ View(up, broker, Hd) /\ Sound(broker) /\ broker \in Brokers /\ up \in Ups /\ Hd \in Ups
  BY DEF Base, Seen, Sound, View
<1>4. SameLists(broker, d) /\ Removed(broker.pipe, i, d.pipe)
  BY <1>2, <1>3, ReadPipeIs DEF ReadPipe
<1>5. Sound(d)
  BY <1>3, <1>4, SoundSame DEF SameLists
<1>6. /\ View(up, d, Hd)
      /\ FlowOf(up, d, Hd) = Take(FlowOf(up, broker, Hd), Pipe(i))
      /\ m \in ToWorker
      /\ m.kind = "REQUEST" =>
           /\ i \notin ToSet(broker.waiting) /\ Nowhere(FlowOf(up, d, Hd), JobsOf(i))
           /\ NoReady(up, i) /\ (restarts # 0 \/ broker.service[i] # None)
  BY <1>2, <1>3, <1>4, ViewTakePipe
<1>7. IsFlow(FlowOf(up, broker, Hd), up, broker, Hd)
  BY <1>3, FlowOfFacts
<1>8. /\ FlowOf(up, broker, Hd) \in Flows /\ Pipe(i) \in Places
      /\ FlowOf(up, broker, Hd)[Pipe(i)] = broker.pipe[i]
  BY <1>2, <1>7, PlaceCases DEF IsFlow
<1> QED
  BY <1>1, <1>2, <1>4, <1>5, <1>6, <1>8 DEF SameLists

\* A worker receives HEARTBEAT.
LEMMA StepWorkerBeat ==
    ASSUME Base, NEW w \in Workers, WorkerHeartbeat(w), UNCHANGED <<cli, acli>>
    PROVE  Base' /\ Delivers(FlowNow, broker, FlowNow', broker')
<1>1. /\ wrk[w].pc = "recv" /\ broker.pipe[Cur(w)] # <<>>
      /\ Head(broker.pipe[Cur(w)]).kind = "HEARTBEAT"
      /\ wrk' = [wrk EXCEPT ![w].liveness = HEARTBEAT_LIVENESS]
      /\ ReadPipe(Cur(w)) /\ MaybeHeartbeat(w) /\ UNCHANGED <<restarts, crashes>>
  BY DEF WorkerHeartbeat
<1>2. PICK i, d, m : i = Cur(w) /\ d = broker' /\ m = Head(broker.pipe[i])
  OBVIOUS
<1>3. PICK F : F = FlowOf(up, broker, Hd)
  OBVIOUS
<1>4. /\ sock[w] # 0 /\ i \in WorkerIds /\ View(up, d, Hd) /\ SameLists(broker, d) /\ Sound(d)
      /\ FlowOf(up, d, Hd) = Take(F, Pipe(i)) /\ F \in Flows /\ Pipe(i) \in Places
      /\ F[Pipe(i)] # <<>> /\ Head(F[Pipe(i)]) = m /\ m \in ToWorker
  BY <1>1, <1>2, <1>3, WorkerReads
<1>5. PICK v : /\ v = up' /\ View(v, d, Hd)
               /\ \A sv : /\ Keeps(FlowOf(up, d, Hd), FlowOf(v, d, Hd), sv)
                          /\ Saves(FlowOf(up, d, Hd), FlowOf(v, d, Hd), sv)
  BY <1>1, <1>4, MaybeBeat DEF Base
<1>6. UNCHANGED <<sock, made>>
  BY <1>1, <1>4, MaybeBeat DEF Base
<1>7. Keeps(F, FlowOf(up, d, Hd), broker.service) /\ Saves(F, FlowOf(up, d, Hd), broker.service)
  <2>1. \A T : TameRest(T) => m \notin T[Pipe(i)]
    BY <1>1, <1>2, <1>4 DEF TameRest
  <2>2. \A T : /\ Kept(F, FlowOf(up, d, Hd), T)
               /\ TameRest(T) => Saved(F, FlowOf(up, d, Hd), T)
    BY <1>4, <2>1, KeptTake
  <2> QED
    BY <2>2 DEF Keeps, Saves, Loyal
<1>8. PICK r : r = [wrk[w] EXCEPT !.liveness = HEARTBEAT_LIVENESS]
  OBVIOUS
<1>9. wrk' = [wrk EXCEPT ![w] = r]
  BY <1>1, <1>8 DEF Base, Rest
<1>10. /\ r \in [pc : {"recv", "busy"}, service : Services \cup {None},
                 reply_to : Pending \cup {NoRequest}, liveness : 1..HEARTBEAT_LIVENESS]
       /\ r.service = wrk[w].service /\ r.pc = "recv"
  BY <1>1, <1>8, WorkerRecord, WorkerAssumption DEF Base
<1>11. Rest' /\ Hd' = Hd
  BY <1>1, <1>6, <1>9, <1>10, RestWorker, HandsKeep DEF Base
<1>12. Moved(F, broker, FlowOf(v, d, Hd), d)
  BY <1>4, <1>5, <1>7, KeepsTrans, MovedBy DEF SameLists
<1> QED
  BY <1>1, <1>2, <1>3, <1>4, <1>5, <1>6, <1>11, <1>12, Moves

\* A worker receives a REQUEST.
LEMMA StepRequest ==
    ASSUME Base, NEW w \in Workers, WorkerRequest(w), UNCHANGED <<cli, acli>>
    PROVE  Base' /\ Delivers(FlowNow, broker, FlowNow', broker')
<1>1. /\ wrk[w].pc = "recv" /\ broker.pipe[Cur(w)] # <<>> /\ ReadPipe(Cur(w))
      /\ UNCHANGED <<sock, made, up, restarts, crashes>>
  BY DEF WorkerRequest, netVars
<1>2. PICK i, d, m : i = Cur(w) /\ d = broker' /\ m = Head(broker.pipe[i])
  OBVIOUS
<1>3. PICK F : F = FlowOf(up, broker, Hd)
  OBVIOUS
<1>4. /\ sock[w] # 0 /\ i \in WorkerIds /\ i \in Ids /\ View(up, d, Hd)
      /\ SameLists(broker, d) /\ Sound(d)
      /\ FlowOf(up, d, Hd) = Take(F, Pipe(i)) /\ F \in Flows /\ Pipe(i) \in Places
      /\ F[Pipe(i)] # <<>> /\ Head(F[Pipe(i)]) = m /\ m \in ToWorker
      /\ m.kind = "REQUEST" =>
           /\ i \notin ToSet(d.waiting) /\ Nowhere(FlowOf(up, d, Hd), JobsOf(i))
           /\ NoReady(up, i) /\ (restarts # 0 \/ d.service[i] # None)
  BY <1>1, <1>2, <1>3, WorkerReads
<1>5. PICK q : q = [client |-> m.client, body |-> m.body]
  OBVIOUS
<1>6. /\ m.kind = "REQUEST"
      /\ wrk' = [wrk EXCEPT ![w].pc = "busy", ![w].liveness = HEARTBEAT_LIVENESS, ![w].reply_to = q]
  BY <1>2, <1>5 DEF WorkerRequest
<1>7. q \in Pending /\ q \in Msgs /\ Same(q, m)
  BY <1>4, <1>5, <1>6, MessageKinds DEF Pending, Same, Msgs
<1>8. PICK r : r = [wrk[w] EXCEPT !.pc = "busy", !.liveness = HEARTBEAT_LIVENESS, !.reply_to = q]
  OBVIOUS
<1>9. wrk' = [wrk EXCEPT ![w] = r]
  BY <1>6, <1>8, Zenon DEF Base, Rest
<1>10. /\ r \in [pc : {"recv", "busy"}, service : Services \cup {None},
                 reply_to : Pending \cup {NoRequest}, liveness : 1..HEARTBEAT_LIVENESS]
       /\ r.service = wrk[w].service /\ r.pc = "busy" /\ r.reply_to = q
  <2>1. wrk[w] \in [pc : {"down", "recv", "busy"}, service : Services \cup {None},
                    reply_to : Pending \cup {NoRequest}, liveness : 1..HEARTBEAT_LIVENESS]
    BY WorkerRecord DEF Base
  <2>2. r = [pc |-> "busy", service |-> wrk[w].service, reply_to |-> q,
             liveness |-> HEARTBEAT_LIVENESS]
    BY <1>8, <2>1
  <2>3. HEARTBEAT_LIVENESS \in 1..HEARTBEAT_LIVENESS /\ wrk[w].service \in Services \cup {None}
    BY <2>1, WorkerAssumption
  <2> QED
    BY <1>7, <2>2, <2>3
<1>11. Rest'
  BY <1>1, <1>7, <1>9, <1>10, RestWorker DEF Base
<1>12. Appended(Hd, i, q, Hd')
  <2>1. Hd \in [Ids -> Seq(Pending)] /\ Hd[i] = <<>>
    BY <1>1, <1>2, <1>4, HandsFacts DEF Base
  <2>2. Hd' = [x \in Ids |-> Hands(x)']
    BY DEF Hd
  <2>3. \A x \in Ids : Hd[x] = Hands(x)
    BY HandsFacts DEF Base
  <2>4. ASSUME NEW x \in Ids, x # i PROVE Hd'[x] = Hd[x]
    <3>1. x[1] = w => ~Connected(x)
      BY <1>2, <1>4, <2>4, CurFacts, ProcessFacts DEF Base
    <3>2. x[1] \in Workers /\ x[1] # w => wrk'[x[1]] = wrk[x[1]]
      BY <1>9 DEF Base, Rest
    <3>3. Connected(x)' <=> Connected(x)
      BY <1>1 DEF Connected
    <3>4. Hands(x)' = Hands(x)
      BY <3>1, <3>2, <3>3 DEF Hands
    <3> QED
      BY <2>2, <2>3, <3>4
  <2>5. Hd'[i] = <<q>>
    <3>1. i[1] = w /\ Connected(i)
      BY <1>2, <1>4, CurFacts, ProcessFacts DEF Base
    <3>2. Connected(i)' /\ wrk'[w] = r
      BY <1>1, <1>9, <3>1 DEF Connected, Base, Rest
    <3> QED
      BY <1>4, <1>10, <2>2, <3>1, <3>2 DEF Hands
  <2>6. Append(Hd[i], q) = <<q>>
    BY <2>1
  <2> QED
    BY <1>4, <2>1, <2>2, <2>4, <2>5, <2>6 DEF Appended
<1>13. PICK k : k = Hd'
  OBVIOUS
<1>14. View(up, d, k) /\ FlowOf(up, d, k) = Put(FlowOf(up, d, Hd), Busy(i), q)
  BY <1>4, <1>6, <1>7, <1>12, <1>13, ViewPutBusy
<1>15. Keeps(F, FlowOf(up, d, k), broker.service) /\ Saves(F, FlowOf(up, d, k), broker.service)
  <2>1. Busy(i) \in Places
    BY <1>4, PlaceCases
  <2>2. \A T : /\ (q \in T[Busy(i)] => m \in T[Pipe(i)]) => Kept(F, FlowOf(up, d, k), T)
               /\ (m \in T[Pipe(i)] => q \in T[Busy(i)]) => Saved(F, FlowOf(up, d, k), T)
    BY <1>4, <1>7, <1>14, <2>1, KeptMove
  <2>3. \A T : /\ TameStart(T) => (q \in T[Busy(i)] => m \in T[Pipe(i)])
               /\ LoyalStart(T) => (m \in T[Pipe(i)] => q \in T[Busy(i)])
    BY <1>4, <1>6, <1>7 DEF TameStart, LoyalStart
  <2> QED
    BY <2>2, <2>3 DEF Keeps, Saves, Tame, Loyal
<1>16. Moved(F, broker, FlowOf(up, d, k), d)
  BY <1>4, <1>15, MovedBy DEF SameLists
<1> QED
  BY <1>1, <1>2, <1>3, <1>4, <1>11, <1>13, <1>14, <1>16, Moves

\* A worker sends its reply.
LEMMA StepReply ==
    ASSUME Base, NEW w \in Workers, WorkerReply(w), UNCHANGED <<cli, acli>>
    PROVE  Base' /\ Delivers(FlowNow, broker, FlowNow', broker')
<1>1. PICK q : q = wrk[w].reply_to
  OBVIOUS
<1>2. PICK y : y = ReplyMsg(q.client, q.body)
  OBVIOUS
<1>3. /\ wrk[w].pc = "busy" /\ SendUp(w, <<y>>)
      /\ wrk' = [wrk EXCEPT ![w].pc = "recv", ![w].reply_to = NoRequest]
      /\ UNCHANGED <<broker, restarts, crashes>>
  BY <1>1, <1>2 DEF WorkerReply, brokerVars
<1>4. sock[w] # 0 /\ q \in Pending
  BY <1>1, <1>3 DEF Base, Rest
<1>5. PICK i : i = Cur(w)
  OBVIOUS
<1>6. /\ i \in WorkerIds /\ i \in Ids /\ Connected(i) /\ i[1] = w
      /\ ~(i[2] > made[i[1]]) /\ \A x \in Ids : x[1] = w /\ Connected(x) => x = i
  BY <1>4, <1>5, CurFacts, ProcessFacts DEF Base
<1>7. View(up, broker, Hd) /\ up \in Ups /\ broker \in Brokers /\ Hd \in Ups
  BY DEF Base, Seen, View
<1>8. Appended(up, i, y, up') /\ UNCHANGED <<sock, made>>
  BY <1>3, <1>5, <1>6, <1>7, SendIs
<1>9. y \in FromWorker /\ y \in Msgs /\ y.kind = "REPLY" /\ Same(q, y) /\ q \in Msgs
  <2>1. q.client \in ClientIds /\ q.body \in Bodies
    BY <1>4 DEF Pending
  <2> QED
    BY <1>2, <1>4, <2>1, MessageKinds DEF ReplyMsg, FromWorker, Same
<1>10. PICK r : r = [wrk[w] EXCEPT !.pc = "recv", !.reply_to = NoRequest]
  OBVIOUS
<1>11. wrk' = [wrk EXCEPT ![w] = r]
  BY <1>3, <1>10, Zenon DEF Base, Rest
<1>12. /\ r \in [pc : {"recv", "busy"}, service : Services \cup {None},
                 reply_to : Pending \cup {NoRequest}, liveness : 1..HEARTBEAT_LIVENESS]
       /\ r.service = wrk[w].service /\ r.pc = "recv"
  <2>1. wrk[w] \in [pc : {"down", "recv", "busy"}, service : Services \cup {None},
                    reply_to : Pending \cup {NoRequest}, liveness : 1..HEARTBEAT_LIVENESS]
    BY WorkerRecord DEF Base
  <2>2. r = [pc |-> "recv", service |-> wrk[w].service, reply_to |-> NoRequest,
             liveness |-> wrk[w].liveness]
    BY <1>10, <2>1
  <2>3. wrk[w].liveness \in 1..HEARTBEAT_LIVENESS /\ wrk[w].service \in Services \cup {None}
    BY <2>1
  <2> QED
    BY <2>2, <2>3
<1>13. Rest'
  BY <1>3, <1>8, <1>11, <1>12, RestWorker DEF Base
<1>14. Hd[i] = <<q>> /\ Removed(Hd, i, Hd')
  <2>1. Hd \in [Ids -> Seq(Pending)] /\ Hd[i] = <<q>> /\ \A x \in Ids : Hd[x] = Hands(x)
    BY <1>1, <1>3, <1>4, <1>5, HandsFacts DEF Base
  <2>2. Hd' = [x \in Ids |-> Hands(x)']
    BY DEF Hd
  <2>3. ASSUME NEW x \in Ids, x # i PROVE Hd'[x] = Hd[x]
    <3>1. x[1] = w => ~Connected(x)
      BY <1>6, <2>3
    <3>2. x[1] \in Workers /\ x[1] # w => wrk'[x[1]] = wrk[x[1]]
      BY <1>11 DEF Base, Rest
    <3>3. Connected(x)' <=> Connected(x)
      BY <1>8 DEF Connected
    <3>4. Hands(x)' = Hands(x)
      BY <3>1, <3>2, <3>3 DEF Hands
    <3> QED
      BY <2>1, <2>2, <3>4
  <2>4. Hd'[i] = <<>>
    <3>1. wrk'[w] = r
      BY <1>11 DEF Base, Rest
    <3>2. Hands(i)' = <<>>
      BY <1>6, <1>12, <3>1 DEF Hands
    <3> QED
      BY <1>6, <2>2, <3>2
  <2>5. Tail(<<q>>) = <<>>
    OBVIOUS
  <2> QED
    BY <1>6, <2>1, <2>2, <2>3, <2>4, <2>5 DEF Removed
<1>15. PICK k, v : k = Hd' /\ v = up'
  OBVIOUS
<1>16. PICK F : F = FlowOf(up, broker, Hd)
  OBVIOUS
<1>17. /\ View(up, broker, k) /\ FlowOf(up, broker, k) = Take(F, Busy(i))
       /\ i \notin ToSet(broker.waiting) /\ Nowhere(FlowOf(up, broker, k), JobsOf(i))
       /\ NoReady(up, i) /\ (restarts # 0 \/ broker.service[i] # None)
  <2>1. Hd[i] # <<>>
    BY <1>14
  <2>2. View(up, broker, Hd) /\ i \in WorkerIds /\ Removed(Hd, i, k)
    BY <1>6, <1>7, <1>14, <1>15
  <2>3. /\ View(up, broker, k) /\ FlowOf(up, broker, k) = Take(FlowOf(up, broker, Hd), Busy(i))
        /\ i \notin ToSet(broker.waiting) /\ Nowhere(FlowOf(up, broker, k), JobsOf(i))
        /\ NoReady(up, i) /\ (restarts # 0 \/ broker.service[i] # None)
    BY <2>1, <2>2, ViewTakeBusy
  <2> QED
    BY <1>16, <2>3
<1>18. MaySend(up, broker, k, i, y)
  BY <1>6, <1>9, <1>17 DEF MaySend
<1>19. View(v, broker, k) /\ FlowOf(v, broker, k) = Put(Take(F, Busy(i)), Up(i), y)
  BY <1>6, <1>8, <1>15, <1>17, <1>18, ViewPutUp
<1>20. Keeps(F, FlowOf(v, broker, k), broker.service) /\ Saves(F, FlowOf(v, broker, k), broker.service)
  <2>1. /\ Busy(i) \in Places /\ Up(i) \in Places /\ F \in Flows
        /\ F[Busy(i)] # <<>> /\ Head(F[Busy(i)]) = q
    <3>1. IsFlow(F, up, broker, Hd)
      BY <1>7, <1>16, FlowOfFacts
    <3>2. F[Busy(i)] = <<q>>
      BY <1>6, <1>14, <3>1 DEF IsFlow
    <3>3. <<q>> # <<>> /\ Head(<<q>>) = q
      OBVIOUS
    <3> QED
      BY <1>6, <3>1, <3>2, <3>3, PlaceCases DEF IsFlow
  <2>2. \A T : /\ (y \in T[Up(i)] => q \in T[Busy(i)]) => Kept(F, FlowOf(v, broker, k), T)
               /\ (q \in T[Busy(i)] => y \in T[Up(i)]) => Saved(F, FlowOf(v, broker, k), T)
    BY <1>9, <1>19, <2>1, KeptMove
  <2>3. \A T : /\ TameWork(T) => (y \in T[Up(i)] => q \in T[Busy(i)])
               /\ LoyalWork(T) => (q \in T[Busy(i)] => y \in T[Up(i)])
    BY <1>4, <1>6, <1>9 DEF TameWork, LoyalWork
  <2> QED
    BY <2>2, <2>3 DEF Keeps, Saves, Tame, Loyal
<1>21. Moved(F, broker, FlowOf(v, broker, k), broker)
  BY <1>20, MovedBy
<1> QED
  BY <1>3, <1>8, <1>13, <1>15, <1>16, <1>19, <1>21, Moves DEF Base

\* What a step of other clients' connections J leaves alone.
Spares(J, F, b, G, d) ==
    /\ d.service = b.service
    /\ \A id \in ClientIds : id \notin J =>
          \A T : Subcopy(id, T) => Kept(F, G, T) /\ Saved(F, G, T)

\* A step on the connections J, for the clients of other connections.
LEMMA BesidesSpares ==
    ASSUME Base, Seen', Hd' = Hd, NEW J, NEW v, NEW d, v = up', d = broker',
           Besides(J, up, broker, v, d)
    PROVE  Spares(J, FlowNow, broker, FlowNow', broker')
<1>1. up \in Ups /\ broker \in Brokers /\ Hd \in Ups /\ Kinds(up, broker)
  BY DEF Base, Seen, View
<1>2. v \in Ups /\ d \in Brokers /\ Kinds(v, d)
  BY DEF Seen, View, Kinds
<1>3. FlowNow = FlowOf(up, broker, Hd) /\ FlowNow' = FlowOf(v, d, Hd)
  BY DEF FlowNow
<1>4. ASSUME NEW id \in ClientIds, id \notin J, NEW T, Subcopy(id, T)
      PROVE  Kept(FlowNow, FlowNow', T) /\ Saved(FlowNow, FlowNow', T)
  BY <1>1, <1>2, <1>3, <1>4, BesidesKept
<1> QED
  BY <1>4 DEF Spares, Besides

\* A client sends a message on its open connection.
LEMMA ClientPuts ==
    ASSUME Base, NEW c \in Processes, c \notin Workers, sock[c] # 0, NEW m \in FromClient,
           SendUp(c, <<m>>), UNCHANGED <<broker, restarts, crashes, wrk>>, Rest'
    PROVE  /\ Base'
           /\ FlowNow' = Put(FlowNow, Up(Cur(c)), m)
           /\ Spares({Cur(c)}, FlowNow, broker, FlowNow', broker')
           /\ UNCHANGED <<sock, made>>
<1>1. PICK i : i = Cur(c)
  OBVIOUS
<1>2. i \in Ids /\ i \in ClientIds /\ ~(i[2] > made[i[1]])
  BY <1>1, CurFacts DEF Base
<1>3. View(up, broker, Hd) /\ up \in Ups /\ broker \in Brokers
  BY DEF Base, Seen, View
<1>4. Appended(up, i, m, up') /\ UNCHANGED <<sock, made>>
  BY <1>1, <1>2, <1>3, SendIs
<1>5. PICK v : v = up'
  OBVIOUS
<1>6. MaySend(up, broker, Hd, i, m)
  BY <1>2 DEF MaySend
<1>7. View(v, broker, Hd) /\ FlowOf(v, broker, Hd) = Put(FlowOf(up, broker, Hd), Up(i), m)
  BY <1>2, <1>3, <1>4, <1>5, <1>6, ViewPutUp
<1>8. Hd' = Hd
  BY <1>4, HandsSame
<1>9. Seen'
  BY <1>4, <1>5, <1>7, <1>8, SeenAgain
<1>10. Base'
  BY <1>9 DEF Base, Sound
<1>11. FlowNow' = FlowOf(v, broker, Hd) /\ FlowNow = FlowOf(up, broker, Hd)
  BY <1>5, <1>8 DEF FlowNow
<1>12. Besides({i}, up, broker, v, broker)
  BY <1>2, <1>3, <1>4, <1>5 DEF Besides, Appended, Ups
<1>13. Spares({i}, FlowNow, broker, FlowNow', broker')
  BY <1>5, <1>8, <1>9, <1>12, BesidesSpares
<1> QED
  BY <1>1, <1>4, <1>7, <1>10, <1>11, <1>13

\* A client reads from its pipe.
LEMMA ClientTakes ==
    ASSUME Base, NEW c \in Processes, c \notin Workers, sock[c] # 0, broker.pipe[Cur(c)] # <<>>,
           ReadPipe(Cur(c)), UNCHANGED <<netVars, restarts, crashes, wrk>>, Rest'
    PROVE  /\ Base'
           /\ FlowNow' = Take(FlowNow, Pipe(Cur(c)))
           /\ FlowNow[Pipe(Cur(c))] = broker.pipe[Cur(c)]
           /\ Head(broker.pipe[Cur(c)]) \in ToClient
           /\ Spares({Cur(c)}, FlowNow, broker, FlowNow', broker')
<1>1. PICK i : i = Cur(c)
  OBVIOUS
<1>2. i \in Ids /\ i \in ClientIds
  BY <1>1, CurFacts DEF Base
<1>3. View(up, broker, Hd) /\ Sound(broker) /\ broker \in Brokers /\ up \in Ups /\ Hd \in Ups
  BY DEF Base, Seen, View
<1>4. PICK d : d = broker'
  OBVIOUS
<1>5. SameLists(broker, d) /\ Removed(broker.pipe, i, d.pipe)
  BY <1>1, <1>2, <1>3, <1>4, ReadPipeIs DEF ReadPipe
<1>6. Sound(d)
  BY <1>3, <1>5, SoundSame DEF SameLists
<1>7. /\ View(up, d, Hd) /\ FlowOf(up, d, Hd) = Take(FlowOf(up, broker, Hd), Pipe(i))
      /\ Head(broker.pipe[i]) \in ToClient
  BY <1>1, <1>2, <1>3, <1>5, ViewTakePipe
<1>8. Hd' = Hd /\ UNCHANGED <<sock, made, up>>
  BY HandsSame DEF netVars
<1>9. Seen'
  BY <1>4, <1>7, <1>8, SeenAgain
<1>10. Base'
  BY <1>4, <1>6, <1>9 DEF Base, Sound
<1>11. FlowNow' = FlowOf(up, d, Hd) /\ FlowNow = FlowOf(up, broker, Hd)
  BY <1>4, <1>8 DEF FlowNow
<1>12. Besides({i}, up, broker, up, d)
  <2>1. broker.pipe \in [Ids -> Seq(ToClient \cup ToWorker)]
    BY <1>3, BrokerFields
  <2> QED
    BY <1>2, <1>5, <2>1 DEF Besides, Removed, SameLists
<1>13. Spares({i}, FlowNow, broker, FlowNow', broker')
  BY <1>4, <1>8, <1>9, <1>12, BesidesSpares
<1>14. FlowNow[Pipe(i)] = broker.pipe[i]
  BY <1>2, <1>3, <1>11, FlowOfFacts DEF IsFlow
<1> QED
  BY <1>1, <1>7, <1>10, <1>11, <1>13, <1>14

-----------------------------------------------------------------------------
(* Steps that close and open connections, and a restart of the broker *)

\* Queues are as before or empty, the broker has learnt nothing; only the
\* connection n may have something new on it.
Renewed(u, b, h, v, d, k, n) ==
    /\ v \in Ups /\ k \in Ups /\ d \in Brokers /\ Lists(d)
    /\ \A i \in Ids : /\ i # n => v[i] = u[i] \/ v[i] = <<>>
                      /\ d.pipe[i] = b.pipe[i] \/ d.pipe[i] = <<>>
                      /\ k[i] = h[i] \/ k[i] = <<>>
                      /\ d.service[i] = b.service[i] \/ d.service[i] = None
    /\ \A s \in Services : d.requests[s] = b.requests[s] \/ d.requests[s] = <<>>
    /\ ToSet(d.waiting) \subseteq ToSet(b.waiting)

\* n has just been made and m is the first message on it.
Opened(u, b, h, v, n, m) ==
    /\ n \in Ids /\ v[n] = <<m>>
    /\ u[n] = <<>> /\ b.pipe[n] = <<>> /\ h[n] = <<>> /\ b.service[n] = None
    /\ \/ n \in WorkerIds /\ m \in FromWorker /\ m.kind = "READY"
       \/ n \in ClientIds /\ m \in FromClient

Silent(v, n) == n \in Ids => v[n] = <<>>

Reset(u, b, h, v, d, k, n, m) ==
    Renewed(u, b, h, v, d, k, n) /\ (Silent(v, n) \/ Opened(u, b, h, v, n, m))

\* A connection is closed and another one opened, as a change of the flow.
LEMMA RenewFlow ==
    ASSUME NEW u \in Ups, NEW b \in Brokers, NEW h \in Ups, NEW v, NEW d, NEW k, NEW n, NEW m,
           Reset(u, b, h, v, d, k, n, m),
           NEW F, F = FlowOf(u, b, h), NEW G, G = FlowOf(v, d, k)
    PROVE  \E E \in Flows : /\ \A T : Kept(F, E, T)
                            /\ \/ Silent(v, n) /\ G = E
                               \/ Opened(u, b, h, v, n, m) /\ G = Put(E, Up(n), m)
<1>0. Renewed(u, b, h, v, d, k, n) /\ (Silent(v, n) \/ Opened(u, b, h, v, n, m))
  BY DEF Reset
<1>1. PICK x : x = [i \in Ids |-> IF i = n THEN <<>> ELSE v[i]]
  OBVIOUS
<1>2. v \in Ups /\ k \in Ups /\ d \in Brokers
  BY <1>0 DEF Renewed
<1>3. x \in Ups
  <2>1. <<>> \in Seq(Msgs)
    OBVIOUS
  <2> QED
    BY <1>1, <1>2, <2>1 DEF Ups
<1>4. PICK E : E = FlowOf(x, d, k)
  OBVIOUS
<1>5. IsFlow(E, x, d, k) /\ IsFlow(F, u, b, h)
  BY <1>2, <1>3, <1>4, FlowOfFacts
<1>6. ASSUME NEW p \in Places PROVE E[p] = F[p] \/ E[p] = <<>>
  <2>1. CASE \E i \in Ids : p = Up(i) \/ p = Pipe(i) \/ p = Busy(i)
    <3>1. PICK i \in Ids : p = Up(i) \/ p = Pipe(i) \/ p = Busy(i)
      BY <2>1
    <3>2. x[i] = u[i] \/ x[i] = <<>>
      BY <1>0, <1>1 DEF Renewed
    <3> QED
      BY <1>0, <1>5, <3>1, <3>2 DEF IsFlow, Renewed
  <2>2. CASE \E s \in Services : p = Queue(s)
    BY <1>0, <1>5, <2>2 DEF IsFlow, Renewed
  <2> QED
    BY <2>1, <2>2, PlaceCases
<1>7. \A T : Kept(F, E, T)
  BY <1>6, KeptDrop
<1>8. CASE Silent(v, n)
  <2>1. x = v
    BY <1>1, <1>2, <1>8 DEF Ups, Silent
  <2> QED
    BY <1>4, <1>5, <1>7, <1>8, <2>1 DEF IsFlow
<1>9. CASE Opened(u, b, h, v, n, m)
  <2>1. n \in Ids /\ v[n] = <<m>>
    BY <1>9 DEF Opened
  <2>2. x[n] = <<>> /\ Append(x[n], m) = <<m>>
    BY <1>1, <2>1
  <2>3. Appended(x, n, m, v)
    BY <1>1, <1>2, <1>3, <2>1, <2>2 DEF Ups, Appended
  <2>4. G = Put(E, Up(n), m)
    BY <1>2, <1>3, <1>4, <2>1, <2>3, FlowPutUp
  <2> QED
    BY <1>5, <1>7, <1>9, <2>4 DEF IsFlow
<1> QED
  BY <1>0, <1>8, <1>9

\* The kinds of messages, when connections are closed and opened.
LEMMA RenewKinds ==
    ASSUME NEW u, NEW b, NEW h, NEW v, NEW d, NEW k, NEW n, NEW m, Kinds(u, b),
           Reset(u, b, h, v, d, k, n, m)
    PROVE  Kinds(v, d)
<1>1. ASSUME NEW i \in WorkerIds PROVE v[i] \in Seq(FromWorker) /\ d.pipe[i] \in Seq(ToWorker)
  <2>1. i \in Ids /\ i \notin ClientIds /\ u[i] \in Seq(FromWorker) /\ b.pipe[i] \in Seq(ToWorker)
    BY IdFacts DEF Kinds
  <2>2. <<>> \in Seq(FromWorker) /\ <<>> \in Seq(ToWorker) /\ \A x \in FromWorker : <<x>> \in Seq(FromWorker)
    OBVIOUS
  <2> QED
    BY <2>1, <2>2 DEF Reset, Renewed, Silent, Opened
<1>2. ASSUME NEW i \in ClientIds
      PROVE  v[i] \in Seq(FromClient) /\ d.pipe[i] \in Seq(ToClient) /\ d.service[i] = None
  <2>1. /\ i \in Ids /\ i \notin WorkerIds /\ u[i] \in Seq(FromClient) /\ b.pipe[i] \in Seq(ToClient)
        /\ b.service[i] = None
    BY IdFacts DEF Kinds
  <2>2. <<>> \in Seq(FromClient) /\ <<>> \in Seq(ToClient) /\ \A x \in FromClient : <<x>> \in Seq(FromClient)
    OBVIOUS
  <2> QED
    BY <2>1, <2>2 DEF Reset, Renewed, Silent, Opened
<1> QED
  BY <1>1, <1>2 DEF Kinds

\* The clauses of Work, but for restarts.
LEMMA RenewWork ==
    ASSUME NEW u, NEW b, NEW h, View(u, b, h), NEW v, NEW d, NEW k, NEW n, NEW m,
           Reset(u, b, h, v, d, k, n, m),
           NEW F, F = FlowOf(u, b, h), NEW G, G = FlowOf(v, d, k), NEW i \in WorkerIds
    PROVE  /\ One(G, JobsOf(i))
           /\ Nowhere(G, JobsOf(i)) \/ i \notin ToSet(d.waiting)
           /\ Nowhere(F, JobsOf(i)) => Nowhere(G, JobsOf(i))
           /\ \A j \in 1..Len(v[i]) :
                 v[i][j].kind = "READY" =>
                    j = 1 /\ d.service[i] = None /\ Nowhere(G, JobsOf(i))
<1>1. u \in Ups /\ b \in Brokers /\ h \in Ups /\ Work(F, u, b, i) /\ i \in Ids
  BY IdFacts DEF View
<1>2. PICK E \in Flows : /\ \A T : Kept(F, E, T)
                         /\ \/ Silent(v, n) /\ G = E
                            \/ Opened(u, b, h, v, n, m) /\ G = Put(E, Up(n), m)
  BY <1>1, RenewFlow
<1>3. Kept(F, G, JobsOf(i))
  <2>1. CASE G = E
    BY <1>2, <2>1
  <2>2. CASE Opened(u, b, h, v, n, m) /\ G = Put(E, Up(n), m)
    <3>1. n \in Ids /\ m \in Msgs /\ m.kind # "REPLY"
      BY <2>2, MessageKinds DEF Opened
    <3>2. m \notin JobsOf(i)[Up(n)] /\ Up(n) \in Places
      BY <3>1, JobPlaces, PlaceCases
    <3> QED
      BY <1>2, <2>2, <3>1, <3>2, KeptPut, KeptTrans
  <2> QED
    BY <1>2, <2>1, <2>2
<1>4. One(G, JobsOf(i)) /\ (Nowhere(F, JobsOf(i)) => Nowhere(G, JobsOf(i)))
  BY <1>1, <1>3 DEF Work, Kept
<1>5. Nowhere(G, JobsOf(i)) \/ i \notin ToSet(d.waiting)
  BY <1>1, <1>4 DEF Work, Reset, Renewed
<1>6. ASSUME NEW j \in 1..Len(v[i]), v[i][j].kind = "READY"
      PROVE  j = 1 /\ d.service[i] = None /\ Nowhere(G, JobsOf(i))
  <2>1. CASE v[i] = u[i]
    BY <1>1, <1>4, <1>6, <2>1 DEF Work, Reset, Renewed
  <2>2. CASE v[i] = <<>>
    BY <1>6, <2>2
  <2>3. CASE i = n /\ Opened(u, b, h, v, n, m)
    <3>1. /\ v[i] = <<m>> /\ u[i] = <<>> /\ b.pipe[i] = <<>> /\ h[i] = <<>> /\ b.service[i] = None
      BY <2>3 DEF Opened
    <3>2. j = 1 /\ d.service[i] = None
      BY <1>1, <1>6, <3>1 DEF Reset, Renewed
    <3>3. Nowhere(F, JobsOf(i))
      <4>1. IsFlow(F, u, b, h)
        BY <1>1, FlowOfFacts
      <4>2. SUFFICES ASSUME NEW p \in Places PROVE ~Has(F[p], JobsOf(i)[p])
        BY DEF Nowhere
      <4>3. CASE p = Up(i) \/ p = Pipe(i) \/ p = Busy(i)
        <5>1. F[p] = <<>>
          BY <1>1, <3>1, <4>1, <4>3 DEF IsFlow
        <5> QED
          BY <5>1, HasShort
      <4>4. CASE p # Up(i) /\ p # Pipe(i) /\ p # Busy(i)
        <5>1. \A y \in Msgs : y \notin JobsOf(i)[p]
          BY <4>4, JobPlaces, PlaceCases
        <5>2. F[p] \in Seq(Msgs)
          BY <4>1 DEF IsFlow, Flows
        <5> QED
          BY <5>1, <5>2 DEF Has
      <4> QED
        BY <4>3, <4>4
    <3> QED
      BY <1>4, <3>2, <3>3
  <2> QED
    BY <1>1, <2>1, <2>2, <2>3 DEF Reset, Renewed, Silent
<1> QED
  BY <1>4, <1>5, <1>6

\* The view, when connections are closed and opened.
LEMMA RenewSeen ==
    ASSUME Base, NEW v, NEW d, NEW k, NEW n, NEW m, v = up', d = broker', k = Hd',
           Reset(up, broker, Hd, v, d, k, n, m), Sound(d), Rest', Linked(up, broker)',
           restarts' # 0 \/ (restarts' = restarts /\ d.service = broker.service)
    PROVE  /\ Base'
           /\ \E E \in Flows : /\ \A T : Kept(FlowNow, E, T)
                               /\ \/ Silent(v, n) /\ FlowNow' = E
                                  \/ Opened(up, broker, Hd, v, n, m) /\ FlowNow' = Put(E, Up(n), m)
<1>1. View(up, broker, Hd) /\ up \in Ups /\ broker \in Brokers /\ Hd \in Ups /\ Kinds(up, broker)
  BY DEF Base, Seen, View
<1>2. PICK F, G : F = FlowOf(up, broker, Hd) /\ G = FlowOf(v, d, k)
  OBVIOUS
<1>3. v \in Ups /\ d \in Brokers /\ k \in Ups /\ Lists(d)
  BY DEF Reset, Renewed
<1>4. Kinds(v, d)
  BY <1>1, RenewKinds
<1>5. ASSUME NEW i \in WorkerIds PROVE Work(FlowOf(up, broker, Hd), up, broker, i)'
  <2>1. /\ One(G, JobsOf(i))
        /\ Nowhere(G, JobsOf(i)) \/ i \notin ToSet(d.waiting)
        /\ Nowhere(F, JobsOf(i)) => Nowhere(G, JobsOf(i))
        /\ \A j \in 1..Len(v[i]) :
              v[i][j].kind = "READY" =>
                 j = 1 /\ d.service[i] = None /\ Nowhere(G, JobsOf(i))
    BY <1>1, <1>2, RenewWork
  <2>2. Nowhere(F, JobsOf(i)) \/ restarts # 0 \/ broker.service[i] # None
    BY <1>1, <1>2 DEF View, Work
  <2>3. Nowhere(G, JobsOf(i)) \/ restarts' # 0 \/ d.service[i] # None
    BY <2>1, <2>2
  <2>4. FlowOf(up, broker, Hd)' = G
    BY <1>2
  <2> QED
    BY <2>1, <2>3, <2>4 DEF Work
<1>6. Seen'
  BY <1>3, <1>4, <1>5 DEF Seen, View, Kinds
<1>7. Base'
  BY <1>6 DEF Base, Sound
<1>8. FlowNow = F /\ FlowNow' = G
  BY <1>2 DEF FlowNow
<1>9. \E E \in Flows : /\ \A T : Kept(F, E, T)
                       /\ \/ Silent(v, n) /\ G = E
                          \/ Opened(up, broker, Hd, v, n, m) /\ G = Put(E, Up(n), m)
  BY <1>1, <1>2, RenewFlow
<1> QED
  BY <1>7, <1>8, <1>9

\* What p sends first on a new connection.
Greeting(p, m) == \/ p \in Workers /\ m \in FromWorker /\ m.kind = "READY"
                  \/ p \notin Workers /\ m \in FromClient

\* The broker d when p's connection is gone.
Parted(p, d) ==
    /\ SameLists(broker, d)
    /\ \A i \in Ids : d.pipe[i] = IF i = Cur(p) THEN <<>> ELSE broker.pipe[i]

\* A process closes its socket and opens the next one.
LEMMA StepReconnect ==
    ASSUME Base, NEW p \in Processes, NEW msgs, NEW m, Reconnect(p, msgs),
           msgs = <<>> \/ (msgs = <<m>> /\ Greeting(p, m)),
           NEW n, n = <<p, made[p] + 1>>, NEW v, NEW d, v = up', d = broker',
           Parted(p, d), Hd' = Hd, restarts' = restarts, Rest'
    PROVE  /\ Base' /\ n \in Ids /\ Cur(p)' = n /\ v[n] = msgs /\ made'[p] = made[p] + 1
           /\ \A i \in Ids : i # n => v[i] = up[i] \/ (v[i] = <<>> /\ i = Cur(p))
           /\ \E E \in Flows : /\ \A T : Kept(FlowNow, E, T)
                               /\ \/ msgs = <<>> /\ FlowNow' = E
                                  \/ msgs = <<m>> /\ FlowNow' = Put(E, Up(n), m)
<1>1. View(up, broker, Hd) /\ up \in Ups /\ broker \in Brokers /\ Hd \in Ups /\ Linked(up, broker)
  BY DEF Base, Seen, View
<1>2. /\ made[p] < MaxSockets /\ made[p] \in Nat /\ sock[p] \in {0, made[p]} /\ MaxSockets \in Nat
      /\ sock \in [Processes -> 0..MaxSockets] /\ made \in [Processes -> 0..MaxSockets]
  BY ProcessFacts DEF Reconnect, Base, Rest
<1>3. n \in Ids /\ n[1] = p /\ n[2] = made[p] + 1
  BY <1>2, ProcessFacts
<1>4. /\ sock' = [sock EXCEPT ![p] = made[p] + 1] /\ made' = [made EXCEPT ![p] = made[p] + 1]
      /\ sock'[p] = made[p] + 1 /\ made'[p] = made[p] + 1
      /\ \A q \in Processes : q # p => sock'[q] = sock[q] /\ made'[q] = made[q]
  BY <1>2 DEF Reconnect
<1>5. Cur(p)' = n
  BY <1>4 DEF Cur
<1>6. PICK rest : /\ rest = <<>> \/ (sock[p] # 0 /\ rest = up[Cur(p)])
                  /\ v = [id \in Ids |-> IF id = n THEN msgs
                                         ELSE IF id = Cur(p) THEN rest ELSE up[id]]
  BY DEF Reconnect
<1>7. v[n] = msgs /\ \A i \in Ids : i # n => v[i] = up[i] \/ (v[i] = <<>> /\ i = Cur(p))
  BY <1>3, <1>6
<1>8. v \in Ups
  <2>1. <<>> \in Seq(Msgs) /\ msgs \in Seq(Msgs)
    <3>1. Greeting(p, m) => m \in Msgs
      BY MessageKinds DEF Greeting
    <3>2. <<>> \in Seq(Msgs) /\ \A x \in Msgs : <<x>> \in Seq(Msgs)
      OBVIOUS
    <3> QED
      BY <3>1, <3>2
  <2>2. \A i \in Ids : v[i] \in Seq(Msgs)
    BY <1>1, <1>7, <2>1 DEF Ups
  <2> QED
    BY <1>6, <2>2 DEF Ups
<1>9. Sound(d) /\ d \in Brokers /\ Lists(d)
  BY SoundSame DEF Base, Parted, SameLists, Sound
<1>10. /\ up[n] = <<>> /\ broker.service[n] = None /\ broker.pipe[n] = <<>> /\ Hd[n] = <<>>
  <2>1. n[2] > made[n[1]] /\ ~Connected(n)
    BY <1>2, <1>3 DEF Connected
  <2> QED
    BY <1>1, <1>3, <2>1, HandsFacts DEF Linked, Base
<1>11. PICK k : k = Hd'
  OBVIOUS
<1>12. Renewed(up, broker, Hd, v, d, k, n)
  BY <1>1, <1>7, <1>8, <1>9, <1>11 DEF Renewed, Parted, SameLists
<1>13. msgs = <<>> => Silent(v, n)
  BY <1>7 DEF Silent
<1>14. msgs = <<m>> => Opened(up, broker, Hd, v, n, m)
  BY <1>3, <1>7, <1>10, ProcessFacts DEF Opened, Greeting
<1>15. Linked(up, broker)'
  <2>1. ASSUME NEW i \in Ids, ~Connected(i)' PROVE d.pipe[i] = <<>>
    <3>1. i[1] \in Processes /\ i = <<i[1], i[2]>>
      BY ProcessFacts
    <3>2. sock'[i[1]] # i[2]
      BY <2>1 DEF Connected
    <3>3. CASE i[1] # p
      <4>1. ~Connected(i)
        BY <1>4, <3>1, <3>2, <3>3 DEF Connected
      <4> QED
        BY <1>1, <4>1 DEF Linked, Parted
    <3>4. CASE i[1] = p
      <4>1. i = Cur(p) \/ ~Connected(i)
        BY <3>1, <3>4 DEF Cur, Connected
      <4> QED
        BY <1>1, <4>1 DEF Linked, Parted
    <3> QED
      BY <3>3, <3>4
  <2>2. ASSUME NEW i \in Ids, i[2] > made'[i[1]] PROVE v[i] = <<>> /\ d.service[i] = None
    <3>1. i[1] \in Processes /\ i[2] \in 1..MaxSockets
      BY ProcessFacts
    <3>2. i[2] > made[i[1]] /\ i # n
      BY <1>2, <1>3, <1>4, <2>2, <3>1
    <3> QED
      BY <1>1, <1>7, <3>2 DEF Linked, Parted, SameLists
  <2> QED
    BY <2>1, <2>2 DEF Linked
<1>16. Reset(up, broker, Hd, v, d, k, n, m)
  BY <1>12, <1>13, <1>14 DEF Reset
<1>17. d.service = broker.service
  BY DEF Parted, SameLists
<1>18. Base' /\ \E E \in Flows : /\ \A T : Kept(FlowNow, E, T)
                       /\ \/ Silent(v, n) /\ FlowNow' = E
                          \/ Opened(up, broker, Hd, v, n, m) /\ FlowNow' = Put(E, Up(n), m)
  BY <1>9, <1>11, <1>15, <1>16, <1>17, RenewSeen
<1>19. \E E \in Flows : /\ \A T : Kept(FlowNow, E, T)
                        /\ \/ msgs = <<>> /\ FlowNow' = E
                           \/ msgs = <<m>> /\ FlowNow' = Put(E, Up(n), m)
  <2>1. <<m>> # <<>>
    OBVIOUS
  <2>2. /\ Silent(v, n) => msgs = <<>>
        /\ Opened(up, broker, Hd, v, n, m) => msgs = <<m>>
    BY <1>3, <1>7, <2>1 DEF Silent, Opened
  <2> QED
    BY <1>18, <2>2
<1> QED
  BY <1>3, <1>4, <1>5, <1>7, <1>18, <1>19

\* A process closes its socket.
LEMMA StepClose ==
    ASSUME Base, NEW p \in Processes, sock[p] # 0, Close(p), NEW v, NEW d, v = up', d = broker',
           Parted(p, d), \A i \in Ids : Hd'[i] = Hd[i] \/ Hd'[i] = <<>>, Hd' \in Ups,
           restarts' = restarts, Rest'
    PROVE  /\ Base'
           /\ \A i \in Ids : v[i] = up[i] \/ (v[i] = <<>> /\ i = Cur(p))
           /\ \A T : Kept(FlowNow, FlowNow', T)
<1>1. View(up, broker, Hd) /\ up \in Ups /\ broker \in Brokers /\ Hd \in Ups /\ Linked(up, broker)
  BY DEF Base, Seen, View
<1>2. Cur(p) \in Ids /\ Cur(p)[1] = p /\ \A i \in Ids : i[1] = p /\ Connected(i) => i = Cur(p)
  BY CurFacts DEF Base
<1>3. /\ sock' = [sock EXCEPT ![p] = 0] /\ made' = made
      /\ sock \in [Processes -> 0..MaxSockets]
  BY DEF Close, Base, Rest
<1>4. /\ v \in Ups
      /\ \A i \in Ids : v[i] = up[i] \/ (v[i] = <<>> /\ i = Cur(p))
  <2>1. PICK rest : rest \in {<<>>, up[Cur(p)]} /\ v = [up EXCEPT ![Cur(p)] = rest]
    BY DEF Close
  <2>2. rest \in Seq(Msgs)
    <3>1. up[Cur(p)] \in Seq(Msgs)
      BY <1>1, <1>2 DEF Ups
    <3>2. <<>> \in Seq(Msgs)
      OBVIOUS
    <3> QED
      BY <2>1, <3>1, <3>2
  <2> QED
    BY <1>1, <1>2, <2>1, <2>2 DEF Ups
<1>5. Sound(d) /\ d \in Brokers /\ Lists(d)
  BY SoundSame DEF Base, Parted, SameLists, Sound
<1>6. PICK k : k = Hd'
  OBVIOUS
<1>7. None \notin Ids
  BY NetAssumption
<1>8. Renewed(up, broker, Hd, v, d, k, None)
  BY <1>1, <1>4, <1>5, <1>6 DEF Renewed, Parted, SameLists
<1>9. Reset(up, broker, Hd, v, d, k, None, None) /\ Silent(v, None)
  BY <1>7, <1>8 DEF Reset, Silent
<1>10. Linked(up, broker)'
  <2>1. ASSUME NEW i \in Ids, ~Connected(i)' PROVE d.pipe[i] = <<>>
    <3>1. i = Cur(p) \/ ~Connected(i)
      BY <1>2, <1>3, <2>1, ProcessFacts DEF Connected
    <3> QED
      BY <1>1, <3>1 DEF Linked, Parted
  <2>2. ASSUME NEW i \in Ids, i[2] > made'[i[1]] PROVE v[i] = <<>> /\ d.service[i] = None
    BY <1>1, <1>3, <1>4, <2>2 DEF Linked, Parted, SameLists
  <2> QED
    BY <2>1, <2>2 DEF Linked
<1>11. d.service = broker.service
  BY DEF Parted, SameLists
<1>12. Base' /\ \E E \in Flows : /\ \A T : Kept(FlowNow, E, T)
                       /\ \/ Silent(v, None) /\ FlowNow' = E
                          \/ Opened(up, broker, Hd, v, None, None) /\ FlowNow' = Put(E, Up(None), None)
  BY <1>5, <1>6, <1>9, <1>10, <1>11, RenewSeen
<1>13. ~Opened(up, broker, Hd, v, None, None)
  BY <1>7 DEF Opened
<1> QED
  BY <1>4, <1>12, <1>13

\* The broker is started again, with empty tables.
LEMMA StepRestart ==
    ASSUME Base, BrokerRestart, UNCHANGED <<workerVars, cli, acli>>
    PROVE  Base' /\ Delivers(FlowNow, broker, FlowNow', broker')
<1>1. View(up, broker, Hd) /\ up \in Ups /\ broker \in Brokers /\ Hd \in Ups /\ Linked(up, broker)
  BY DEF Base, Seen, View
<1>2. UNCHANGED <<sock, made, crashes, wrk, cli, acli>> /\ restarts' = restarts + 1
  BY DEF BrokerRestart, workerVars
<1>3. restarts' \in Nat /\ restarts' # 0
  BY <1>2 DEF Base, Rest
<1>4. Rest'
  BY <1>2, <1>3 DEF Base, Rest
<1>5. Hd' = Hd
  BY <1>2, HandsSame
<1>6. PICK v, d, k : v = up' /\ d = broker' /\ k = Hd'
  OBVIOUS
<1>7. v \in Ups /\ \A i \in Ids : v[i] = up[i] \/ v[i] = <<>>
  <2>1. PICK lost \in SUBSET {id \in Ids : up[id] # <<>>} :
              v = [id \in Ids |-> IF id \in lost THEN <<>> ELSE up[id]]
    BY <1>6 DEF BrokerRestart
  <2>2. <<>> \in Seq(Msgs)
    OBVIOUS
  <2> QED
    BY <1>1, <2>1, <2>2 DEF Ups
<1>8. d = s_broker_new /\ Sound(d) /\ d \in Brokers /\ Lists(d)
  BY <1>6, NewBroker DEF BrokerRestart, Sound
<1>9. /\ \A i \in Ids : d.pipe[i] = <<>> /\ d.service[i] = None
      /\ \A s \in Services : d.requests[s] = <<>>
      /\ ToSet(d.waiting) = {}
  BY <1>8 DEF s_broker_new, ToSet
<1>10. None \notin Ids
  BY NetAssumption
<1>11. Renewed(up, broker, Hd, v, d, k, None)
  BY <1>1, <1>5, <1>6, <1>7, <1>8, <1>9 DEF Renewed
<1>12. Reset(up, broker, Hd, v, d, k, None, None) /\ Silent(v, None)
  BY <1>10, <1>11 DEF Reset, Silent
<1>13. Linked(up, broker)'
  BY <1>1, <1>2, <1>6, <1>7, <1>9 DEF Linked
<1>14. Base' /\ \E E \in Flows : /\ \A T : Kept(FlowNow, E, T)
                       /\ \/ Silent(v, None) /\ FlowNow' = E
                          \/ Opened(up, broker, Hd, v, None, None) /\ FlowNow' = Put(E, Up(None), None)
  BY <1>3, <1>4, <1>6, <1>8, <1>12, <1>13, RenewSeen
<1>15. ~Opened(up, broker, Hd, v, None, None)
  BY <1>10 DEF Opened
<1>16. \A T : Kept(FlowNow, FlowNow', T)
  BY <1>14, <1>15
<1>17. ~Quiet'
  BY <1>3 DEF Quiet
<1>18. ASSUME NEW id \in ClientIds
       PROVE  Carries(FlowNow, broker, FlowNow', d, id)
  <2>1. FlowNow' \in Flows
    BY <1>14, <1>15
  <2>2. ASSUME NEW S, NEW X, Nowhere(FlowNow, Misfits(broker.service, id, S, X))
        PROVE  Nowhere(FlowNow', Misfits(d.service, id, S, X))
    <3>1. Nowhere(FlowNow', Misfits(broker.service, id, S, X))
      BY <1>16, <2>2 DEF Kept
    <3> QED
      BY <1>9, <2>1, <3>1, MisfitsService
  <2> QED
    BY <1>16, <2>2 DEF Carries
<1> QED
  BY <1>6, <1>14, <1>17, <1>18 DEF Delivers

\* A step that keeps every tame set delivers.
LEMMA DeliversBy ==
    ASSUME NEW F \in Flows, NEW G \in Flows, NEW b, NEW d, Keeps(F, G, b.service),
           d.service = b.service, Quiet' => \A T : Saved(F, G, T)
    PROVE  Delivers(F, b, G, d)
<1>1. ASSUME NEW id \in ClientIds PROVE Carries(F, b, G, d, id)
  BY AllTame, OneCopy, MisfitsTame DEF Carries, Keeps, Kept
<1> QED
  BY <1>1 DEF Delivers

\* A connection of p, after the first.
LEMMA SocketsAfter ==
    ASSUME Rest, NEW p \in Processes, NEW msgs, Reconnect(p, msgs)
    PROVE  /\ sock' \in [Processes -> 0..MaxSockets] /\ made' \in [Processes -> 0..MaxSockets]
           /\ sock'[p] = made'[p] /\ sock'[p] # 0 /\ made'[p] = made[p] + 1
           /\ \A q \in Processes : q # p => sock'[q] = sock[q] /\ made'[q] = made[q]
           /\ \A q \in Processes : sock'[q] \in {0, made'[q]}
<1>1. /\ made[p] < MaxSockets /\ MaxSockets \in Nat
      /\ sock \in [Processes -> 0..MaxSockets] /\ made \in [Processes -> 0..MaxSockets]
      /\ \A q \in Processes : sock[q] \in {0, made[q]}
      /\ sock' = [sock EXCEPT ![p] = made[p] + 1] /\ made' = [made EXCEPT ![p] = made[p] + 1]
  BY ProcessFacts DEF Reconnect, Rest
<1>2. made[p] \in Nat /\ made[p] + 1 \in 0..MaxSockets /\ made[p] + 1 # 0
  BY <1>1
<1> QED
  BY <1>1, <1>2

\* The processes, when a worker connects.
LEMMA RestConnect ==
    ASSUME Rest, NEW w \in Workers, NEW msgs, Reconnect(w, msgs), NEW r,
           r \in [pc : {"recv"}, service : Services,
                  reply_to : Pending \cup {NoRequest}, liveness : 1..HEARTBEAT_LIVENESS],
           wrk' = [wrk EXCEPT ![w] = r], UNCHANGED <<restarts, crashes, cli, acli>>
    PROVE  Rest'
<1>1. w \in Processes
  BY ProcessFacts
<1>2. /\ sock' \in [Processes -> 0..MaxSockets] /\ made' \in [Processes -> 0..MaxSockets]
      /\ sock'[w] = made'[w] /\ sock'[w] # 0
      /\ \A q \in Processes : q # w => sock'[q] = sock[q] /\ made'[q] = made[q]
      /\ \A q \in Processes : sock'[q] \in {0, made'[q]}
  BY <1>1, SocketsAfter
<1>3. wrk' \in [Workers -> [pc : {"down", "recv", "busy"}, service : Services \cup {None},
                            reply_to : Pending \cup {NoRequest},
                            liveness : 1..HEARTBEAT_LIVENESS]]
  BY DEF Rest
<1>4. wrk'[w] = r /\ \A x \in Workers : x # w => wrk'[x] = wrk[x]
  BY DEF Rest
<1>5. \A x \in Workers : /\ wrk'[x].pc = "down" <=> sock'[x] = 0
                         /\ wrk'[x].pc = "busy" => wrk'[x].reply_to \in Pending
                         /\ sock'[x] # 0 => wrk'[x].service \in Services
  BY <1>2, <1>4, ProcessFacts DEF Rest
<1>6. crashes' = 0 => \A x \in Workers : sock'[x] = made'[x]
  BY <1>2, ProcessFacts DEF Rest
<1>7. \A c \in Clients : sock'[c] = sock[c]
  BY <1>2, ProcessFacts
<1>8. \A c \in AsyncClients : sock'[c] = sock[c]
  BY <1>2, ProcessFacts
<1> QED
  BY <1>2, <1>3, <1>5, <1>6, <1>7, <1>8 DEF Rest

\* A worker that is not busy has nothing in its hands before and after.
LEMMA HandsConnect ==
    ASSUME Rest, NEW w \in Workers, NEW msgs, Reconnect(w, msgs), NEW r, r.pc # "busy",
           wrk[w].pc # "busy", wrk' = [wrk EXCEPT ![w] = r]
    PROVE  Hd' = Hd
<1>1. ASSUME NEW i \in Ids PROVE Hands(i)' = Hands(i)
  <2>1. i[1] \in Processes /\ (i[1] # w => sock'[i[1]] = sock[i[1]])
    BY SocketsAfter, ProcessFacts
  <2>2. wrk'[w] = r /\ \A x \in Workers : x # w => wrk'[x] = wrk[x]
    BY DEF Rest
  <2>3. i[1] # w => (Connected(i)' <=> Connected(i))
    BY <2>1 DEF Connected
  <2> QED
    BY <2>2, <2>3 DEF Hands
<1> QED
  BY <1>1 DEF Hd

\* A worker connects, or connects again, and says READY.
LEMMA StepConnect ==
    ASSUME Base, NEW w \in Workers, NEW s \in Services, ConnectToBroker(w, s), NEW r,
           r \in [pc : {"recv"}, service : Services,
                  reply_to : Pending \cup {NoRequest}, liveness : 1..HEARTBEAT_LIVENESS],
           wrk' = [wrk EXCEPT ![w] = r], wrk[w].pc # "busy",
           UNCHANGED <<restarts, crashes, cli, acli>>,
           NEW d, d = broker', Parted(w, d), sock[w] = 0 => d = broker
    PROVE  Base' /\ Delivers(FlowNow, broker, FlowNow', broker')
<1>1. PICK m : m = ReadyMsg(s)
  OBVIOUS
<1>2. m \in FromWorker /\ m.kind = "READY" /\ m \in Msgs /\ Greeting(w, m)
  BY <1>1, MessageKinds DEF ReadyMsg, FromWorker, Greeting
<1>3. w \in Processes /\ Reconnect(w, <<m>>)
  BY <1>1, ProcessFacts DEF ConnectToBroker
<1>4. r.pc = "recv"
  OBVIOUS
<1>5. Rest' /\ Hd' = Hd
  BY <1>3, <1>4, RestConnect, HandsConnect DEF Base
<1>6. PICK n, v, msgs : n = <<w, made[w] + 1>> /\ v = up' /\ msgs = <<m>>
  OBVIOUS
<1>7. /\ Base' /\ n \in Ids /\ v[n] = msgs /\ made'[w] = made[w] + 1
      /\ \A i \in Ids : i # n => v[i] = up[i] \/ (v[i] = <<>> /\ i = Cur(w))
      /\ \E E \in Flows : /\ \A T : Kept(FlowNow, E, T)
                          /\ \/ msgs = <<>> /\ FlowNow' = E
                             \/ msgs = <<m>> /\ FlowNow' = Put(E, Up(n), m)
  <2>1. Reconnect(w, msgs)
    BY <1>3, <1>6
  <2>2. restarts' = restarts
    OBVIOUS
  <2> QED
    BY <1>2, <1>3, <1>5, <1>6, <2>1, <2>2, StepReconnect
<1>8. PICK E \in Flows : (\A T : Kept(FlowNow, E, T)) /\ FlowNow' = Put(E, Up(n), m)
  <2>1. msgs # <<>>
    BY <1>6
  <2> QED
    BY <1>7, <2>1
<1>9. Up(n) \in Places /\ n \in WorkerIds
  BY <1>3, <1>6, <1>7, PlaceCases, ProcessFacts
<1>10. FlowNow' \in Flows /\ \A T : m \notin T[Up(n)] => Kept(E, FlowNow', T)
  BY <1>2, <1>8, <1>9, KeptPut
<1>11. \A T : TameRest(T) => m \notin T[Up(n)]
  BY <1>2, <1>9 DEF TameRest
<1>12. Keeps(FlowNow, FlowNow', broker.service)
  BY <1>8, <1>10, <1>11, KeptTrans DEF Keeps, Tame
<1>13. up \in Ups /\ broker \in Brokers /\ Hd \in Ups /\ Linked(up, broker)
  BY DEF Base, Seen, View
<1>14. FlowNow \in Flows
  BY <1>13, FlowOfFacts DEF FlowNow, IsFlow
<1>15. ASSUME Quiet' PROVE \A T : Saved(FlowNow, FlowNow', T)
  <2>1. made'[w] <= 1 /\ made[w] \in Nat /\ sock[w] \in {0, made[w]}
    BY <1>3, <1>15 DEF Quiet, Base, Rest
  <2>2. sock[w] = 0 /\ made[w] = 0
    BY <1>7, <2>1
  <2>3. \A i \in Ids : i # Cur(w)
    BY <1>3, <2>2, ProcessFacts DEF Cur
  <2>4. up[n] = <<>>
    <3>1. n[2] = 1 /\ n[1] = w
      BY <1>6, <2>2
    <3>2. n[2] > made[n[1]]
      BY <2>2, <3>1
    <3> QED
      BY <1>7, <1>13, <3>2 DEF Linked
  <2>5. v \in Ups
    <3>1. (up \in Ups)'
      BY <1>7 DEF Base, Seen, View
    <3> QED
      BY <1>6, <3>1 DEF Ups
  <2>6. Append(up[n], m) = msgs
    BY <1>6, <2>4
  <2>7. Appended(up, n, m, v)
    BY <1>7, <1>13, <2>3, <2>5, <2>6 DEF Appended, Ups
  <2>8. FlowNow' = FlowOf(v, broker, Hd)
    BY <1>5, <1>6, <2>2 DEF FlowNow
  <2>9. FlowNow' = Put(FlowNow, Up(n), m)
    BY <1>7, <1>13, <2>5, <2>7, <2>8, FlowPutUp DEF FlowNow
  <2> QED
    BY <1>2, <1>9, <1>14, <2>9, KeptPut
<1>16. d.service = broker.service
  BY DEF Parted, SameLists
<1>17. Delivers(FlowNow, broker, FlowNow', d)
  BY <1>10, <1>12, <1>14, <1>15, <1>16, DeliversBy
<1> QED
  BY <1>7, <1>17

\* DropPipe empties the pipe of the socket that is closed.
LEMMA PartedDrop ==
    ASSUME Base, NEW p \in Processes, sock[p] # 0, DropPipe(Cur(p)), NEW d, d = broker'
    PROVE  Parted(p, d)
<1>1. broker \in Brokers /\ Cur(p) \in Ids
  BY CurFacts DEF Base, Sound
<1>2. SameLists(broker, d) /\ d.pipe = [broker.pipe EXCEPT ![Cur(p)] = <<>>]
  BY <1>1, DropPipeIs DEF DropPipe
<1> QED
  BY <1>1, <1>2, BrokerFields DEF Parted

\* Nothing is to be dropped.
LEMMA PartedSame ==
    ASSUME Base, NEW p \in Processes, sock[p] = 0 \/ broker.pipe[Cur(p)] = <<>>
    PROVE  Parted(p, broker)
<1>1. broker \in Brokers
  BY DEF Base, Sound
<1>2. SameLists(broker, broker)
  BY <1>1 DEF SameLists
<1>3. ASSUME NEW i \in Ids, i = Cur(p) PROVE broker.pipe[i] = <<>>
  <2>1. sock[p] # 0
    BY <1>3, ProcessFacts DEF Cur
  <2> QED
    BY <1>3, <2>1
<1> QED
  BY <1>2, <1>3 DEF Parted

\* A worker starts.
LEMMA StepStart ==
    ASSUME Base, NEW w \in Workers, WorkerStart(w), UNCHANGED <<cli, acli>>
    PROVE  Base' /\ Delivers(FlowNow, broker, FlowNow', broker')
<1>1. PICK s \in Services :
        /\ ConnectToBroker(w, s)
        /\ wrk' = [wrk EXCEPT ![w].pc = "recv", ![w].service = s, ![w].liveness = HEARTBEAT_LIVENESS]
  BY DEF WorkerStart
<1>2. wrk[w].pc = "down" /\ UNCHANGED <<broker, restarts, crashes>> /\ sock[w] = 0
  BY DEF WorkerStart, brokerVars, Base, Rest
<1>3. PICK r : r = [wrk[w] EXCEPT !.pc = "recv", !.service = s, !.liveness = HEARTBEAT_LIVENESS]
  OBVIOUS
<1>4. wrk' = [wrk EXCEPT ![w] = r]
  BY <1>1, <1>3, Zenon DEF Base, Rest
<1>5. r \in [pc : {"recv"}, service : Services,
             reply_to : Pending \cup {NoRequest}, liveness : 1..HEARTBEAT_LIVENESS]
  <2>1. wrk[w] \in [pc : {"down", "recv", "busy"}, service : Services \cup {None},
                    reply_to : Pending \cup {NoRequest}, liveness : 1..HEARTBEAT_LIVENESS]
    BY WorkerRecord DEF Base
  <2>2. r = [pc |-> "recv", service |-> s, reply_to |-> wrk[w].reply_to,
             liveness |-> HEARTBEAT_LIVENESS]
    BY <1>3, <2>1
  <2>3. HEARTBEAT_LIVENESS \in 1..HEARTBEAT_LIVENESS /\ wrk[w].reply_to \in Pending \cup {NoRequest}
    BY <2>1, WorkerAssumption
  <2> QED
    BY <2>2, <2>3
<1>6. Parted(w, broker)
  BY <1>2, PartedSame, ProcessFacts
<1> QED
  BY <1>1, <1>2, <1>4, <1>5, <1>6, StepConnect

\* A worker in mdwrk_recv gives up its connection.
LEMMA StepAgain ==
    ASSUME Base, NEW w \in Workers, wrk[w].pc = "recv", ConnectToBroker(w, wrk[w].service),
           wrk' = [wrk EXCEPT ![w].liveness = HEARTBEAT_LIVENESS],
           UNCHANGED <<restarts, crashes, cli, acli>>,
           NEW d, d = broker', Parted(w, d)
    PROVE  Base' /\ Delivers(FlowNow, broker, FlowNow', broker')
<1>1. sock[w] # 0 /\ wrk[w].service \in Services
  BY DEF Base, Rest
<1>2. PICK r : r = [wrk[w] EXCEPT !.liveness = HEARTBEAT_LIVENESS]
  OBVIOUS
<1>3. wrk' = [wrk EXCEPT ![w] = r]
  BY <1>2 DEF Base, Rest
<1>4. r \in [pc : {"recv"}, service : Services,
             reply_to : Pending \cup {NoRequest}, liveness : 1..HEARTBEAT_LIVENESS]
  <2>1. wrk[w] \in [pc : {"down", "recv", "busy"}, service : Services \cup {None},
                    reply_to : Pending \cup {NoRequest}, liveness : 1..HEARTBEAT_LIVENESS]
    BY WorkerRecord DEF Base
  <2>2. r = [pc |-> "recv", service |-> wrk[w].service, reply_to |-> wrk[w].reply_to,
             liveness |-> HEARTBEAT_LIVENESS]
    BY <1>2, <2>1
  <2>3. HEARTBEAT_LIVENESS \in 1..HEARTBEAT_LIVENESS /\ wrk[w].reply_to \in Pending \cup {NoRequest}
    BY <2>1, WorkerAssumption
  <2> QED
    BY <1>1, <2>2, <2>3
<1> QED
  BY <1>1, <1>3, <1>4, StepConnect

\* A worker receives DISCONNECT.
LEMMA StepDisconnect ==
    ASSUME Base, NEW w \in Workers, WorkerDisconnect(w), UNCHANGED <<cli, acli>>
    PROVE  Base' /\ Delivers(FlowNow, broker, FlowNow', broker')
<1>1. wrk[w].pc = "recv" /\ DropPipe(Cur(w)) /\ sock[w] # 0
  BY DEF WorkerDisconnect, Base, Rest
<1>2. PICK d : d = broker'
  OBVIOUS
<1>3. Parted(w, d)
  BY <1>1, <1>2, PartedDrop, ProcessFacts
<1> QED
  BY <1>1, <1>2, <1>3, StepAgain DEF WorkerDisconnect

\* A worker's liveness has run out.
LEMMA StepGiveUp ==
    ASSUME Base, NEW w \in Workers, WorkerTimeout(w), ~(wrk[w].liveness > 1), UNCHANGED <<cli, acli>>
    PROVE  Base' /\ Delivers(FlowNow, broker, FlowNow', broker')
<1>1. /\ wrk[w].pc = "recv" /\ broker.pipe[Cur(w)] = <<>> /\ UNCHANGED <<broker, restarts, crashes>>
      /\ wrk' = [wrk EXCEPT ![w].liveness = HEARTBEAT_LIVENESS]
      /\ ConnectToBroker(w, wrk[w].service)
  BY DEF WorkerTimeout, brokerVars
<1>2. Parted(w, broker)
  BY <1>1, PartedSame, ProcessFacts
<1> QED
  BY <1>1, <1>2, StepAgain

\* A worker crashes.
LEMMA StepCrash ==
    ASSUME Base, NEW w \in Workers, WorkerCrash(w), UNCHANGED <<cli, acli>>
    PROVE  Base' /\ Delivers(FlowNow, broker, FlowNow', broker')
<1>1. /\ wrk[w].pc # "down" /\ crashes' = crashes + 1 /\ Close(w) /\ DropPipe(Cur(w))
      /\ wrk' = [wrk EXCEPT ![w].pc = "down", ![w].reply_to = NoRequest]
      /\ restarts' = restarts /\ w \in Processes
  BY ProcessFacts DEF WorkerCrash
<1>2. sock[w] # 0
  BY <1>1 DEF Base, Rest
<1>3. PICK r : r = [wrk[w] EXCEPT !.pc = "down", !.reply_to = NoRequest]
  OBVIOUS
<1>4. wrk' = [wrk EXCEPT ![w] = r]
  BY <1>1, <1>3, Zenon DEF Base, Rest
<1>5. /\ r \in [pc : {"down", "recv", "busy"}, service : Services \cup {None},
                reply_to : Pending \cup {NoRequest}, liveness : 1..HEARTBEAT_LIVENESS]
      /\ r.pc = "down"
  <2>1. wrk[w] \in [pc : {"down", "recv", "busy"}, service : Services \cup {None},
                    reply_to : Pending \cup {NoRequest}, liveness : 1..HEARTBEAT_LIVENESS]
    BY WorkerRecord DEF Base
  <2>2. r = [pc |-> "down", service |-> wrk[w].service, reply_to |-> NoRequest,
             liveness |-> wrk[w].liveness]
    BY <1>3, <2>1
  <2>3. wrk[w].liveness \in 1..HEARTBEAT_LIVENESS /\ wrk[w].service \in Services \cup {None}
    BY <2>1
  <2> QED
    BY <2>2, <2>3
<1>6. /\ sock' = [sock EXCEPT ![w] = 0] /\ made' = made
      /\ sock'[w] = 0 /\ \A q \in Processes : q # w => sock'[q] = sock[q]
  BY <1>1 DEF Close, Base, Rest
<1>7. crashes' \in Nat /\ crashes' # 0
  BY <1>1 DEF Base, Rest
<1>8. wrk'[w] = r /\ \A x \in Workers : x # w => wrk'[x] = wrk[x]
  BY <1>4 DEF Base, Rest
<1>9. Rest'
  <2>1. wrk' \in [Workers -> [pc : {"down", "recv", "busy"}, service : Services \cup {None},
                              reply_to : Pending \cup {NoRequest},
                              liveness : 1..HEARTBEAT_LIVENESS]]
    BY <1>4, <1>5 DEF Base, Rest
  <2>2. \A x \in Workers : /\ wrk'[x].pc = "down" <=> sock'[x] = 0
                           /\ wrk'[x].pc = "busy" => wrk'[x].reply_to \in Pending
                           /\ sock'[x] # 0 => wrk'[x].service \in Services
    BY <1>5, <1>6, <1>8, ProcessFacts DEF Base, Rest
  <2>3. /\ sock' \in [Processes -> 0..MaxSockets] /\ \A q \in Processes : sock'[q] \in {0, made'[q]}
    <3>1. 0 \in 0..MaxSockets
      BY ProcessFacts
    <3> QED
      BY <1>6, <3>1 DEF Base, Rest
  <2>4. \A c \in Clients : sock'[c] = sock[c]
    BY <1>6, ProcessFacts
  <2>5. \A c \in AsyncClients : sock'[c] = sock[c]
    BY <1>6, ProcessFacts
  <2> QED
    BY <1>1, <1>6, <1>7, <2>1, <2>2, <2>3, <2>4, <2>5 DEF Base, Rest
<1>10. (\A i \in Ids : Hd'[i] = Hd[i] \/ Hd'[i] = <<>>) /\ Hd' \in Ups
  <2>1. Hd' = [x \in Ids |-> Hands(x)'] /\ Hd \in Ups /\ \A x \in Ids : Hd[x] = Hands(x)
    BY HandsFacts DEF Hd, Base
  <2>2. ASSUME NEW i \in Ids PROVE Hands(i)' = Hands(i) \/ Hands(i)' = <<>>
    <3>1. CASE i[1] = w
      BY <1>5, <1>8, <3>1 DEF Hands
    <3>2. CASE i[1] # w
      <4>1. Connected(i)' <=> Connected(i)
        BY <1>6, <3>2, ProcessFacts DEF Connected
      <4> QED
        BY <1>8, <3>2, <4>1 DEF Hands
    <3> QED
      BY <3>1, <3>2
  <2>3. <<>> \in Seq(Msgs)
    OBVIOUS
  <2> QED
    BY <2>1, <2>2, <2>3 DEF Ups
<1>11. PICK v, d : v = up' /\ d = broker'
  OBVIOUS
<1>12. Parted(w, d)
  BY <1>1, <1>2, <1>11, PartedDrop
<1>13. Base' /\ \A T : Kept(FlowNow, FlowNow', T)
  BY <1>1, <1>2, <1>9, <1>10, <1>11, <1>12, StepClose
<1>14. FlowNow \in Flows /\ FlowNow' \in Flows
  <2>1. up \in Ups /\ broker \in Brokers /\ Hd \in Ups
    BY DEF Base, Seen, View
  <2>2. PICK k : k = Hd'
    OBVIOUS
  <2>3. v \in Ups /\ d \in Brokers /\ k \in Ups
    BY <1>11, <1>13, <2>2 DEF Base, Seen, View, Ups
  <2>4. FlowNow' = FlowOf(v, d, k)
    BY <1>11, <2>2 DEF FlowNow
  <2> QED
    BY <2>1, <2>3, <2>4, FlowOfFacts DEF FlowNow, IsFlow
<1>15. ~Quiet'
  BY <1>7 DEF Quiet
<1>16. Delivers(FlowNow, broker, FlowNow', d)
  BY <1>12, <1>13, <1>14, <1>15, DeliversBy DEF Keeps, Parted, SameLists
<1> QED
  BY <1>11, <1>13, <1>16

-----------------------------------------------------------------------------
(* Steps of clients *)

\* The sockets are as before but for those of p.
Sockets(p) ==
    /\ sock' \in [Processes -> 0..MaxSockets] /\ made' \in [Processes -> 0..MaxSockets]
    /\ sock'[p] \in {0, made'[p]}
    /\ \A q \in Processes : q # p => sock'[q] = sock[q] /\ made'[q] = made[q]

\* No socket is touched.
LEMMA SocketsSame ==
    ASSUME Rest, NEW p \in Processes, UNCHANGED <<sock, made>>
    PROVE  Sockets(p)
BY DEF Sockets, Rest

\* p closes its socket.
LEMMA SocketsClose ==
    ASSUME Rest, NEW p \in Processes, Close(p)
    PROVE  Sockets(p) /\ sock'[p] = 0 /\ made' = made
<1>1. 0 \in 0..MaxSockets
  BY ProcessFacts
<1> QED
  BY <1>1 DEF Sockets, Rest, Close

\* p opens a socket.
LEMMA SocketsConnect ==
    ASSUME Rest, NEW p \in Processes, NEW msgs, Reconnect(p, msgs)
    PROVE  Sockets(p) /\ sock'[p] # 0 /\ made'[p] = made[p] + 1
BY SocketsAfter DEF Sockets

\* Clients have nothing to do with what workers hold.
LEMMA HandsClient ==
    ASSUME NEW p, p \notin Workers, Sockets(p), UNCHANGED wrk
    PROVE  Hd' = Hd
<1>1. ASSUME NEW i \in Ids PROVE Hands(i)' = Hands(i)
  <2>1. i[1] \in Workers => (Connected(i)' <=> Connected(i))
    BY ProcessFacts DEF Connected, Sockets
  <2> QED
    BY <2>1 DEF Hands
<1> QED
  BY <1>1 DEF Hd

\* The processes, after a step of a client.
LEMMA RestClients ==
    ASSUME Rest, NEW p \in Processes, p \notin Workers, Sockets(p),
           UNCHANGED <<restarts, crashes, wrk>>,
           cli' \in [Clients -> [pc : {"idle", "poll", "stopped"}, n : Nat,
                                 service : Names \cup {None},
                                 body : Bodies \cup {None}, retries_left : Nat]],
           acli' \in [AsyncClients -> [pc : {"new", "send", "recv", "stopped"},
                                       n : Nat, replies : Seq(Bodies)]],
           \A c \in Clients : cli'[c].pc = "poll" => /\ sock'[c] # 0
                                                     /\ cli'[c].service \in Names
                                                     /\ cli'[c].body \in Bodies,
           \A a \in AsyncClients : /\ acli'[a].pc \in {"send", "recv"} <=> sock'[a] # 0
                                   /\ acli'[a].pc = "new" => acli'[a].n = 0 /\ acli'[a].replies = <<>>
    PROVE  Rest'
<1>1. \A w \in Workers : sock'[w] = sock[w] /\ made'[w] = made[w]
  BY ProcessFacts DEF Sockets
<1>2. \A q \in Processes : sock'[q] \in {0, made'[q]}
  BY DEF Sockets, Rest
<1> QED
  BY <1>1, <1>2 DEF Rest, Sockets

\* The same, when one synchronous client changed.
LEMMA RestCli ==
    ASSUME Rest, NEW c \in Clients, Sockets(c), UNCHANGED <<restarts, crashes, wrk, acli>>, NEW r,
           r \in [pc : {"idle", "poll", "stopped"}, n : Nat, service : Names \cup {None},
                  body : Bodies \cup {None}, retries_left : Nat],
           r.pc = "poll" => sock'[c] # 0 /\ r.service \in Names /\ r.body \in Bodies,
           cli' = [cli EXCEPT ![c] = r]
    PROVE  Rest'
<1>1. cli' \in [Clients -> [pc : {"idle", "poll", "stopped"}, n : Nat,
                            service : Names \cup {None},
                            body : Bodies \cup {None}, retries_left : Nat]]
  BY DEF Rest
<1>2. cli'[c] = r /\ \A x \in Clients : x # c => cli'[x] = cli[x] /\ sock'[x] = sock[x]
  BY ProcessFacts DEF Rest, Sockets
<1>3. \A x \in Clients : cli'[x].pc = "poll" => /\ sock'[x] # 0
                                                /\ cli'[x].service \in Names
                                                /\ cli'[x].body \in Bodies
  <2> SUFFICES ASSUME NEW x \in Clients, cli'[x].pc = "poll"
               PROVE  sock'[x] # 0 /\ cli'[x].service \in Names /\ cli'[x].body \in Bodies
    OBVIOUS
  <2>1. CASE x = c
    BY <1>2, <2>1
  <2>2. CASE x # c
    BY <1>2, <2>2 DEF Rest
  <2> QED
    BY <2>1, <2>2
<1>4. \A a \in AsyncClients : sock'[a] = sock[a]
  BY ProcessFacts DEF Sockets
<1>5. acli' \in [AsyncClients -> [pc : {"new", "send", "recv", "stopped"},
                                  n : Nat, replies : Seq(Bodies)]]
  BY DEF Rest
<1>6. \A a \in AsyncClients : /\ acli'[a].pc \in {"send", "recv"} <=> sock'[a] # 0
                              /\ acli'[a].pc = "new" => acli'[a].n = 0 /\ acli'[a].replies = <<>>
  BY <1>4 DEF Rest
<1>7. c \in Processes /\ c \notin Workers
  BY ProcessFacts
<1> QED
  BY <1>1, <1>3, <1>5, <1>6, <1>7, RestClients

\* The same, when one asynchronous client changed.
LEMMA RestAsync ==
    ASSUME Rest, NEW a \in AsyncClients, Sockets(a), UNCHANGED <<restarts, crashes, wrk, cli>>, NEW r,
           r \in [pc : {"send", "recv", "stopped"}, n : Nat, replies : Seq(Bodies)],
           r.pc \in {"send", "recv"} <=> sock'[a] # 0,
           acli' = [acli EXCEPT ![a] = r]
    PROVE  Rest'
<1>1. acli' \in [AsyncClients -> [pc : {"new", "send", "recv", "stopped"},
                                  n : Nat, replies : Seq(Bodies)]]
  BY DEF Rest
<1>2. acli'[a] = r /\ \A x \in AsyncClients : x # a => acli'[x] = acli[x] /\ sock'[x] = sock[x]
  BY ProcessFacts DEF Rest, Sockets
<1>3. \A x \in AsyncClients : /\ acli'[x].pc \in {"send", "recv"} <=> sock'[x] # 0
                              /\ acli'[x].pc = "new" => acli'[x].n = 0 /\ acli'[x].replies = <<>>
  BY <1>2 DEF Rest
<1>4. \A x \in Clients : sock'[x] = sock[x]
  BY ProcessFacts DEF Sockets
<1>5. cli' \in [Clients -> [pc : {"idle", "poll", "stopped"}, n : Nat,
                            service : Names \cup {None},
                            body : Bodies \cup {None}, retries_left : Nat]]
  BY DEF Rest
<1>6. \A x \in Clients : cli'[x].pc = "poll" => /\ sock'[x] # 0
                                                /\ cli'[x].service \in Names
                                                /\ cli'[x].body \in Bodies
  BY <1>4 DEF Rest
<1>7. a \in Processes /\ a \notin Workers
  BY ProcessFacts
<1> QED
  BY <1>1, <1>3, <1>5, <1>6, <1>7, RestClients

\* The connections that a client p gives up or opens.
Own(p) == {i \in ClientIds : i = Cur(p) \/ i = <<p, made[p] + 1>>}

\* A client opens a socket, and may send on it.
LEMMA ClientConnects ==
    ASSUME Base, NEW p \in Processes, p \notin Workers, NEW msgs, NEW m, Reconnect(p, msgs),
           msgs = <<>> \/ (msgs = <<m>> /\ m \in FromClient),
           NEW n, n = <<p, made[p] + 1>>, NEW d, d = broker', Parted(p, d),
           UNCHANGED <<restarts, crashes, wrk>>, Rest'
    PROVE  /\ Base' /\ n \in ClientIds /\ Cur(p)' = n /\ n[2] > made[n[1]]
           /\ \E E \in Flows : /\ \A T : Kept(FlowNow, E, T)
                               /\ \/ msgs = <<>> /\ FlowNow' = E
                                  \/ msgs = <<m>> /\ FlowNow' = Put(E, Up(n), m)
           /\ Spares(Own(p), FlowNow, broker, FlowNow', broker')
<1>1. Sockets(p)
  BY SocketsConnect DEF Base
<1>2. Hd' = Hd
  BY <1>1, HandsClient
<1>3. msgs = <<>> \/ (msgs = <<m>> /\ Greeting(p, m))
  BY DEF Greeting
<1>4. PICK v : v = up'
  OBVIOUS
<1>5. restarts' = restarts
  OBVIOUS
<1>6. /\ Base' /\ n \in Ids /\ Cur(p)' = n
      /\ \A i \in Ids : i # n => v[i] = up[i] \/ (v[i] = <<>> /\ i = Cur(p))
      /\ \E E \in Flows : /\ \A T : Kept(FlowNow, E, T)
                          /\ \/ msgs = <<>> /\ FlowNow' = E
                             \/ msgs = <<m>> /\ FlowNow' = Put(E, Up(n), m)
  BY <1>2, <1>3, <1>4, <1>5, StepReconnect
<1>7. /\ n \in ClientIds /\ n[1] = p /\ n[2] = made[p] + 1 /\ made[p] \in Nat
      /\ n[2] > made[n[1]]
  BY <1>6, ProcessFacts DEF Base, Rest
<1>8. Besides(Own(p), up, broker, v, d)
  <2>1. \A i \in Ids : i = Cur(p) => i \in ClientIds
    BY ProcessFacts DEF Cur
  <2>2. Own(p) \subseteq ClientIds
    BY DEF Own
  <2>3. ASSUME NEW i \in Ids, i \notin Own(p) PROVE v[i] = up[i] /\ d.pipe[i] = broker.pipe[i]
    <3>1. i # Cur(p) /\ i # n
      BY <1>7, <2>1, <2>3 DEF Own
    <3> QED
      BY <1>6, <3>1 DEF Parted
  <2> QED
    BY <2>2, <2>3 DEF Besides, Parted, SameLists
<1>9. Spares(Own(p), FlowNow, broker, FlowNow', broker')
  BY <1>2, <1>4, <1>6, <1>8, BesidesSpares DEF Base
<1> QED
  BY <1>6, <1>7, <1>9

\* A client closes its socket.
LEMMA ClientCloses ==
    ASSUME Base, NEW p \in Processes, p \notin Workers, sock[p] # 0, Close(p), DropPipe(Cur(p)),
           UNCHANGED <<restarts, crashes, wrk>>, Rest'
    PROVE  /\ Base' /\ \A T : Kept(FlowNow, FlowNow', T)
           /\ Spares({Cur(p)}, FlowNow, broker, FlowNow', broker')
<1>1. Sockets(p)
  BY SocketsClose DEF Base
<1>2. Hd' = Hd
  BY <1>1, HandsClient
<1>3. Hd \in Ups /\ restarts' = restarts
  BY HandsFacts DEF Base
<1>4. PICK v, d : v = up' /\ d = broker'
  OBVIOUS
<1>5. Parted(p, d)
  BY <1>4, PartedDrop
<1>6. /\ Base' /\ \A T : Kept(FlowNow, FlowNow', T)
      /\ \A i \in Ids : v[i] = up[i] \/ (v[i] = <<>> /\ i = Cur(p))
  BY <1>2, <1>3, <1>4, <1>5, StepClose
<1>7. Besides({Cur(p)}, up, broker, v, d)
  <2>1. {Cur(p)} \subseteq ClientIds
    BY CurFacts DEF Base
  <2>2. ASSUME NEW i \in Ids, i # Cur(p) PROVE v[i] = up[i] /\ d.pipe[i] = broker.pipe[i]
    BY <1>5, <1>6, <2>2 DEF Parted
  <2> QED
    BY <1>5, <2>1, <2>2 DEF Besides, Parted, SameLists
<1>8. Spares({Cur(p)}, FlowNow, broker, FlowNow', broker')
  BY <1>2, <1>4, <1>6, <1>7, BesidesSpares DEF Base
<1> QED
  BY <1>6, <1>8

-----------------------------------------------------------------------------
(* What clients have under way *)

\* Nothing belongs to a connection that has not been made.
Unmade == \A id \in ClientIds : id[2] > made[id[1]] => Nowhere(FlowNow, AllOf(id))

\* A client has one copy of its current request under way, for the service and
\* with the body it asked with, and none when it is not waiting.
SyncAt(c) ==
    sock[c] # 0 =>
        /\ One(FlowNow, AllOf(Cur(c)))
        /\ cli[c].pc = "poll" =>
             Nowhere(FlowNow, Misfits(broker.service, Cur(c), {cli[c].service}, {cli[c].body}))
        /\ cli[c].pc = "poll" /\ Quiet => ~Nowhere(FlowNow, AllOf(Cur(c)))
        /\ cli[c].pc # "poll" => Nowhere(FlowNow, AllOf(Cur(c)))

\* An asynchronous client has one copy of each request under way at most, and
\* none of those it has a reply to.
Due(a) == {<<a, i>> : i \in 1..acli[a].n} \ ToSet(acli[a].replies)

AsyncAt(a) ==
    sock[a] # 0 =>
        /\ \A x : One(FlowNow, CopiesOf(Cur(a), {x}, Services))
        /\ Nowhere(FlowNow, Misfits(broker.service, Cur(a), Services, Due(a)))

MdpInv ==
    /\ Base /\ Unmade
    /\ \A c \in Clients : SyncAt(c)
    /\ \A a \in AsyncClients : AsyncAt(a)
    /\ AsyncRepliesDistinct

\* Steps of the broker and the workers.
LEMMA InvDelivers ==
    ASSUME MdpInv, Base', Delivers(FlowNow, broker, FlowNow', broker'), UNCHANGED <<cli, acli>>,
           \A p \in Processes : p \notin Workers => sock'[p] = sock[p] /\ made'[p] = made[p],
           Quiet' => Quiet
    PROVE  MdpInv'
<1>1. PICK F, G, b, d : F = FlowNow /\ G = FlowNow' /\ b = broker /\ d = broker'
  OBVIOUS
<1>2. /\ Base /\ Unmade /\ AsyncRepliesDistinct
      /\ \A c \in Clients : SyncAt(c)
      /\ \A a \in AsyncClients : AsyncAt(a)
  BY DEF MdpInv
<1>3. \A id \in ClientIds : /\ Carries(F, b, G, d, id)
                            /\ Quiet' /\ Connected(id) => Saved(F, G, AllOf(id))
  BY <1>1 DEF Delivers
<1>4. Unmade'
  <2>1. ASSUME NEW id \in ClientIds, id[2] > made'[id[1]] PROVE Nowhere(G, AllOf(id))
    <3>1. id[1] \in Processes /\ id[1] \notin Workers
      BY IdFacts, ProcessFacts
    <3>2. Nowhere(F, AllOf(id))
      BY <1>1, <1>2, <2>1, <3>1 DEF Unmade
    <3> QED
      BY <1>3, <3>2 DEF Carries, Kept
  <2> QED
    BY <1>1, <2>1 DEF Unmade
<1>5. ASSUME NEW c \in Clients PROVE SyncAt(c)'
  <2>1. c \in Processes /\ c \notin Workers
    BY ProcessFacts
  <2>2. PICK id : id = Cur(c)
    OBVIOUS
  <2>3. sock'[c] = sock[c] /\ Cur(c)' = id
    BY <2>1, <2>2 DEF Cur
  <2>4. SUFFICES ASSUME sock[c] # 0
                 PROVE  /\ One(G, AllOf(id))
                        /\ cli[c].pc = "poll" =>
                             Nowhere(G, Misfits(d.service, id, {cli[c].service}, {cli[c].body}))
                        /\ cli[c].pc = "poll" /\ Quiet' => ~Nowhere(G, AllOf(id))
                        /\ cli[c].pc # "poll" => Nowhere(G, AllOf(id))
    BY <1>1, <2>3 DEF SyncAt
  <2>5. id \in ClientIds /\ Connected(id)
    BY <1>2, <2>1, <2>2, <2>4, CurFacts DEF Base
  <2>6. /\ One(F, AllOf(id))
        /\ cli[c].pc = "poll" =>
             Nowhere(F, Misfits(b.service, id, {cli[c].service}, {cli[c].body}))
        /\ cli[c].pc = "poll" /\ Quiet => ~Nowhere(F, AllOf(id))
        /\ cli[c].pc # "poll" => Nowhere(F, AllOf(id))
    BY <1>1, <1>2, <2>2, <2>4 DEF SyncAt
  <2> QED
    BY <1>3, <2>5, <2>6 DEF Carries, Kept, Saved
<1>6. ASSUME NEW a \in AsyncClients PROVE AsyncAt(a)'
  <2>1. a \in Processes /\ a \notin Workers
    BY ProcessFacts
  <2>2. PICK id, X : id = Cur(a) /\ X = Due(a)
    OBVIOUS
  <2>3. sock'[a] = sock[a] /\ Cur(a)' = id /\ Due(a)' = X
    BY <2>1, <2>2 DEF Cur, Due
  <2>4. SUFFICES ASSUME sock[a] # 0
                 PROVE  /\ \A x : One(G, CopiesOf(id, {x}, Services))
                        /\ Nowhere(G, Misfits(d.service, id, Services, X))
    BY <1>1, <2>3 DEF AsyncAt
  <2>5. id \in ClientIds
    BY <1>2, <2>1, <2>2, <2>4, CurFacts DEF Base
  <2>6. /\ \A x : One(F, CopiesOf(id, {x}, Services))
        /\ Nowhere(F, Misfits(b.service, id, Services, X))
    BY <1>1, <1>2, <2>2, <2>4 DEF AsyncAt
  <2> QED
    BY <1>3, <2>5, <2>6 DEF Carries, Kept
<1>7. AsyncRepliesDistinct'
  BY <1>2 DEF AsyncRepliesDistinct
<1> QED
  BY <1>4, <1>5, <1>6, <1>7 DEF MdpInv

\* Steps of a client p, for everybody else.
LEMMA InvSpares ==
    ASSUME MdpInv, NEW p \in Processes, p \notin Workers, Sockets(p), made'[p] >= made[p],
           NEW J, \A i \in J : i[1] = p /\ ~(i[2] > made'[i[1]]),
           Spares(J, FlowNow, broker, FlowNow', broker'),
           \A c \in Clients : c # p => cli'[c] = cli[c],
           \A a \in AsyncClients : a # p => acli'[a] = acli[a],
           UNCHANGED <<restarts, crashes>>
    PROVE  /\ Unmade'
           /\ \A c \in Clients : c # p => SyncAt(c)'
           /\ \A a \in AsyncClients : a # p => AsyncAt(a)'
<1>1. PICK F, G, b, d : F = FlowNow /\ G = FlowNow' /\ b = broker /\ d = broker'
  OBVIOUS
<1>2. /\ Base /\ Unmade
      /\ \A c \in Clients : SyncAt(c)
      /\ \A a \in AsyncClients : AsyncAt(a)
  BY DEF MdpInv
<1>3. /\ \A q \in Processes : q # p => sock'[q] = sock[q] /\ made'[q] = made[q]
      /\ made \in [Processes -> 0..MaxSockets] /\ made' \in [Processes -> 0..MaxSockets]
      /\ MaxSockets \in Nat
  BY <1>2, ProcessFacts DEF Sockets, Base, Rest
<1>4. d.service = b.service
  BY <1>1 DEF Spares
<1>5. ASSUME NEW id \in ClientIds, id \notin J, NEW T, Subcopy(id, T)
      PROVE  Kept(F, G, T) /\ Saved(F, G, T)
  BY <1>1, <1>5 DEF Spares
<1>6. ASSUME Quiet' PROVE Quiet
  <2>1. \A w \in Workers : made'[w] = made[w]
    BY <1>3, ProcessFacts
  <2> QED
    BY <1>6, <2>1 DEF Quiet
<1>7. Unmade'
  <2>1. ASSUME NEW id \in ClientIds, id[2] > made'[id[1]] PROVE Nowhere(G, AllOf(id))
    <3>1. id[1] \in Processes /\ id[2] \in 1..MaxSockets /\ id \notin J
      BY <2>1, IdFacts, ProcessFacts
    <3>2. id[2] > made[id[1]]
      <4>1. CASE id[1] = p
        <5>1. made[p] \in Nat /\ made'[p] \in Nat /\ id[2] \in Nat
          BY <1>3, <3>1
        <5> QED
          BY <2>1, <4>1, <5>1
      <4>2. CASE id[1] # p
        BY <1>3, <2>1, <3>1, <4>2
      <4> QED
        BY <4>1, <4>2
    <3>3. Nowhere(F, AllOf(id))
      BY <1>1, <1>2, <3>2 DEF Unmade
    <3> QED
      BY <1>5, <3>1, <3>3, Subcopies DEF Kept
  <2> QED
    BY <1>1, <2>1 DEF Unmade
<1>8. ASSUME NEW c \in Clients, c # p PROVE SyncAt(c)'
  <2>1. c \in Processes /\ c \notin Workers
    BY ProcessFacts
  <2>2. PICK id : id = Cur(c)
    OBVIOUS
  <2>3. sock'[c] = sock[c] /\ Cur(c)' = id /\ cli'[c] = cli[c]
    BY <1>3, <1>8, <2>1, <2>2 DEF Cur
  <2>4. SUFFICES ASSUME sock[c] # 0
                 PROVE  /\ One(G, AllOf(id))
                        /\ cli[c].pc = "poll" =>
                             Nowhere(G, Misfits(d.service, id, {cli[c].service}, {cli[c].body}))
                        /\ cli[c].pc = "poll" /\ Quiet' => ~Nowhere(G, AllOf(id))
                        /\ cli[c].pc # "poll" => Nowhere(G, AllOf(id))
    BY <1>1, <2>3 DEF SyncAt
  <2>5. id \in ClientIds /\ id \notin J
    BY <1>2, <1>8, <2>1, <2>2, <2>4, CurFacts DEF Base
  <2>6. /\ One(F, AllOf(id))
        /\ cli[c].pc = "poll" =>
             Nowhere(F, Misfits(b.service, id, {cli[c].service}, {cli[c].body}))
        /\ cli[c].pc = "poll" /\ Quiet => ~Nowhere(F, AllOf(id))
        /\ cli[c].pc # "poll" => Nowhere(F, AllOf(id))
    BY <1>1, <1>2, <2>2, <2>4 DEF SyncAt
  <2>7. /\ Kept(F, G, AllOf(id)) /\ Saved(F, G, AllOf(id))
        /\ \A sv, S, X : Kept(F, G, Misfits(sv, id, S, X))
    BY <1>5, <2>5, Subcopies
  <2> QED
    BY <1>4, <1>6, <2>6, <2>7 DEF Kept, Saved
<1>9. ASSUME NEW a \in AsyncClients, a # p PROVE AsyncAt(a)'
  <2>1. a \in Processes /\ a \notin Workers
    BY ProcessFacts
  <2>2. PICK id, X : id = Cur(a) /\ X = Due(a)
    OBVIOUS
  <2>3. sock'[a] = sock[a] /\ Cur(a)' = id /\ Due(a)' = X
    BY <1>3, <1>9, <2>1, <2>2 DEF Cur, Due
  <2>4. SUFFICES ASSUME sock[a] # 0
                 PROVE  /\ \A x : One(G, CopiesOf(id, {x}, Services))
                        /\ Nowhere(G, Misfits(d.service, id, Services, X))
    BY <1>1, <2>3 DEF AsyncAt
  <2>5. id \in ClientIds /\ id \notin J
    BY <1>2, <1>9, <2>1, <2>2, <2>4, CurFacts DEF Base
  <2>6. /\ \A x : One(F, CopiesOf(id, {x}, Services))
        /\ Nowhere(F, Misfits(b.service, id, Services, X))
    BY <1>1, <1>2, <2>2, <2>4 DEF AsyncAt
  <2>7. /\ \A x : Kept(F, G, CopiesOf(id, {x}, Services))
        /\ Kept(F, G, Misfits(b.service, id, Services, X))
    BY <1>5, <2>5, Subcopies
  <2> QED
    BY <1>4, <2>6, <2>7 DEF Kept
<1> QED
  BY <1>7, <1>8, <1>9

\* A step of the client c that leaves it in order keeps the invariant.
LEMMA ClientInv ==
    ASSUME MdpInv, Base', NEW c \in Clients, Sockets(c), made'[c] >= made[c],
           NEW J, \A i \in J : i[1] = c /\ ~(i[2] > made'[i[1]]),
           Spares(J, FlowNow, broker, FlowNow', broker'), NEW r, cli' = [cli EXCEPT ![c] = r],
           UNCHANGED <<restarts, crashes, acli>>, SyncAt(c)'
    PROVE  MdpInv'
<1>1. c \in Processes /\ c \notin Workers /\ c \notin AsyncClients
  BY ProcessFacts
<1>2. \A x \in Clients : x # c => cli'[x] = cli[x]
  BY DEF MdpInv, Base, Rest
<1>3. /\ Unmade'
      /\ \A x \in Clients : x # c => SyncAt(x)'
      /\ \A a \in AsyncClients : AsyncAt(a)'
  BY <1>1, <1>2, InvSpares
<1>4. \A x \in Clients : SyncAt(x)'
  BY <1>3
<1>5. AsyncRepliesDistinct'
  BY DEF MdpInv, AsyncRepliesDistinct
<1> QED
  BY <1>3, <1>4, <1>5 DEF MdpInv

\* The connections that a step of p touches have been made.
LEMMA OwnMade ==
    ASSUME Rest, NEW p \in Processes, Sockets(p),
           NEW J, J = {Cur(p)} \/ J = Own(p),
           made'[p] >= made[p], J = Own(p) => made'[p] = made[p] + 1 \/ sock'[p] = 0
    PROVE  \A i \in J : i[1] = p /\ (i = Cur(p) \/ made'[p] = made[p] + 1 => ~(i[2] > made'[i[1]]))
<1>1. /\ sock[p] \in {0, made[p]} /\ made[p] \in Nat /\ made'[p] \in Nat
  BY ProcessFacts DEF Rest, Sockets
<1>2. Cur(p)[1] = p /\ Cur(p)[2] = sock[p]
  BY DEF Cur
<1>3. /\ <<p, made[p] + 1>>[1] = p /\ <<p, made[p] + 1>>[2] = made[p] + 1
  OBVIOUS
<1>4. ASSUME NEW i \in J PROVE i = Cur(p) \/ i = <<p, made[p] + 1>>
  BY <1>4 DEF Own
<1> QED
  BY <1>1, <1>2, <1>3, <1>4

\* A request is sent for which nothing is under way.
LEMMA FirstCopy ==
    ASSUME NEW E \in Flows, NEW id \in ClientIds, Nowhere(E, AllOf(id)), NEW m \in FromClient,
           NEW G, G = Put(E, Up(id), m), NEW sv
    PROVE  /\ One(G, AllOf(id)) /\ ~Nowhere(G, AllOf(id))
           /\ Nowhere(G, Misfits(sv, id, {m.service}, {m.body}))
<1>1. m \in Msgs /\ m.kind = "CLIENT" /\ id \in Ids /\ Up(id) \in Places
  BY MessageKinds, IdFacts, PlaceCases
<1>2. m \in AllOf(id)[Up(id)]
  BY <1>1, AllIs, CopyCases
<1>3. m \notin Misfits(sv, id, {m.service}, {m.body})[Up(id)]
  <2>1. PICK S, X : S = {m.service} /\ X = {m.body}
    OBVIOUS
  <2>2. m \in Misfits(sv, id, S, X)[Up(id)] <=>
              \/ m.kind = "CLIENT" /\ id = id /\ ~(m.service \in S /\ m.body \in X)
              \/ m.kind = "REPLY" /\ m.client = id /\ ~(sv[id] \in S \cup {None} /\ m.body \in X)
    <3>1. m \in Msgs /\ id \in Ids
      BY <1>1
    <3> QED
      BY <3>1, MisfitUp
  <2> QED
    BY <1>1, <2>1, <2>2
<1>4. Nowhere(E, Misfits(sv, id, {m.service}, {m.body})) /\ One(E, AllOf(id))
  BY MisfitsAreCopies, NowhereOne
<1> QED
  BY <1>1, <1>2, <1>3, <1>4, FlowPut

\* The flow and the broker have their types.
LEMMA NowFlow ==
    ASSUME Base
    PROVE  FlowNow \in Flows /\ broker \in Brokers
<1>1. up \in Ups /\ broker \in Brokers /\ Hd \in Ups
  BY DEF Base, Seen, View
<1> QED
  BY <1>1, FlowOfFacts DEF FlowNow, IsFlow

\* mdcli_new.
LEMMA StepClientStart ==
    ASSUME MdpInv, NEW c \in Clients, ClientStart(c), UNCHANGED acli
    PROVE  MdpInv'
<1>1. /\ cli[c].pc = "idle" /\ sock[c] = 0 /\ Reconnect(c, <<>>)
      /\ UNCHANGED <<broker, restarts, wrk, crashes, cli>> /\ c \in Processes /\ c \notin Workers
      /\ Base /\ Rest
  BY ProcessFacts DEF ClientStart, brokerVars, workerVars, MdpInv, Base
<1>2. Sockets(c) /\ sock'[c] # 0 /\ made'[c] = made[c] + 1 /\ made[c] \in Nat
  BY <1>1, SocketsConnect DEF Rest
<1>3. cli' = [cli EXCEPT ![c] = cli[c]] /\ cli[c] \in [pc : {"idle", "poll", "stopped"}, n : Nat,
               service : Names \cup {None}, body : Bodies \cup {None}, retries_left : Nat]
  BY <1>1 DEF Rest
<1>4. Rest'
  BY <1>1, <1>2, <1>3, RestCli
<1>5. Parted(c, broker)
  BY <1>1, PartedSame
<1>6. PICK n, msgs, m : n = <<c, made[c] + 1>> /\ msgs = <<>> /\ m = 0
  OBVIOUS
<1>7. /\ Base' /\ n \in ClientIds /\ Cur(c)' = n /\ n[2] > made[n[1]]
      /\ \E E \in Flows : /\ \A T : Kept(FlowNow, E, T)
                          /\ \/ msgs = <<>> /\ FlowNow' = E
                             \/ msgs = <<m>> /\ FlowNow' = Put(E, Up(n), m)
      /\ Spares(Own(c), FlowNow, broker, FlowNow', broker')
  BY <1>1, <1>4, <1>5, <1>6, ClientConnects
<1>8. Nowhere(FlowNow, AllOf(n))
  BY <1>7 DEF MdpInv, Unmade
<1>9. Nowhere(FlowNow', AllOf(n))
  <2>1. msgs # <<m>>
    BY <1>6
  <2> QED
    BY <1>7, <1>8, <2>1 DEF Kept
<1>10. SyncAt(c)'
  BY <1>1, <1>7, <1>9, NowhereOne DEF SyncAt
<1>11. \A i \in Own(c) : i[1] = c /\ ~(i[2] > made'[i[1]])
  BY <1>1, <1>2, OwnMade
<1>12. made'[c] >= made[c]
  BY <1>2
<1> QED
  BY <1>1, <1>2, <1>3, <1>7, <1>10, <1>11, <1>12, ClientInv

\* The record of a client.
LEMMA ClientRecord ==
    ASSUME Rest, NEW c \in Clients
    PROVE  cli[c] \in [pc : {"idle", "poll", "stopped"}, n : Nat, service : Names \cup {None},
                       body : Bodies \cup {None}, retries_left : Nat]
BY DEF Rest

\* mdcli_send sends a request.
LEMMA StepClientSend ==
    ASSUME MdpInv, NEW c \in Clients, ClientSend(c), UNCHANGED acli
    PROVE  MdpInv'
<1>1. /\ cli[c].pc = "idle" /\ sock[c] # 0
      /\ UNCHANGED <<broker, restarts, wrk, crashes>> /\ c \in Processes /\ c \notin Workers
      /\ Base /\ Rest
  BY ProcessFacts DEF ClientSend, brokerVars, workerVars, MdpInv, Base
<1>2. PICK s \in Names : \E body \in BodiesFor(c, cli[c].n + 1, s) :
          /\ SendUp(c, <<ClientMsg(s, body)>>)
          /\ cli' = [cli EXCEPT ![c] =
                       [pc |-> "poll", n |-> @.n + 1, service |-> s,
                        body |-> body, retries_left |-> Retries]]
  BY DEF ClientSend, Names
<1>3. PICK body \in BodiesFor(c, cli[c].n + 1, s) :
          /\ SendUp(c, <<ClientMsg(s, body)>>)
          /\ cli' = [cli EXCEPT ![c] =
                       [pc |-> "poll", n |-> cli[c].n + 1, service |-> s,
                        body |-> body, retries_left |-> Retries]]
  BY <1>2
<1>4. PICK r : r = [pc |-> "poll", n |-> cli[c].n + 1, service |-> s,
                    body |-> body, retries_left |-> Retries]
  OBVIOUS
<1>5. PICK m : m = ClientMsg(s, body)
  OBVIOUS
<1>6. cli[c].n \in Nat
  BY <1>1, ClientRecord
<1>7. body \in Bodies
  BY <1>1, <1>3, <1>6 DEF BodiesFor, Bodies
<1>8. m \in FromClient /\ m.service = s /\ m.body = body
  BY <1>5, <1>7 DEF ClientMsg, FromClient
<1>9. cli' = [cli EXCEPT ![c] = r] /\ SendUp(c, <<m>>)
  BY <1>3, <1>4, <1>5
<1>10. /\ r \in [pc : {"idle", "poll", "stopped"}, n : Nat, service : Names \cup {None},
                 body : Bodies \cup {None}, retries_left : Nat]
       /\ r.pc = "poll" /\ r.service = s /\ r.body = body
  BY <1>4, <1>6, <1>7, ClientAssumption
<1>11. UNCHANGED <<sock, made>>
  BY <1>9 DEF SendUp
<1>12. Sockets(c) /\ made'[c] >= made[c]
  <2>1. made[c] \in Nat
    BY <1>1 DEF Rest
  <2> QED
    BY <1>1, <1>11, <2>1, SocketsSame
<1>13. Rest'
  BY <1>1, <1>7, <1>9, <1>10, <1>11, <1>12, RestCli
<1>14. /\ Base' /\ FlowNow' = Put(FlowNow, Up(Cur(c)), m)
       /\ Spares({Cur(c)}, FlowNow, broker, FlowNow', broker')
  BY <1>1, <1>8, <1>9, <1>13, ClientPuts
<1>15. PICK id, F, G, sv : id = Cur(c) /\ F = FlowNow /\ G = FlowNow' /\ sv = broker.service
  OBVIOUS
<1>16. id \in ClientIds /\ Nowhere(F, AllOf(id)) /\ F \in Flows
  BY <1>1, <1>15, CurFacts, NowFlow DEF MdpInv, SyncAt
<1>17. /\ One(G, AllOf(id)) /\ ~Nowhere(G, AllOf(id))
       /\ Nowhere(G, Misfits(sv, id, {m.service}, {m.body}))
  BY <1>8, <1>14, <1>15, <1>16, FirstCopy
<1>18. SyncAt(c)'
  <2>1. cli'[c] = r /\ Cur(c)' = id /\ broker'.service = sv
    BY <1>1, <1>9, <1>11, <1>15 DEF Rest, Cur
  <2> QED
    BY <1>8, <1>10, <1>15, <1>17, <2>1 DEF SyncAt
<1>19. PICK J : J = {Cur(c)}
  OBVIOUS
<1>20. \A i \in J : i[1] = c /\ ~(i[2] > made'[i[1]])
  BY <1>1, <1>11, <1>19, CurFacts
<1>21. Spares(J, FlowNow, broker, FlowNow', broker')
  BY <1>14, <1>19
<1> QED
  BY <1>1, <1>9, <1>12, <1>14, <1>18, <1>20, <1>21, ClientInv

\* mdcli_send returns a reply.
LEMMA StepClientReply ==
    ASSUME MdpInv, NEW c \in Clients, ClientReply(c), UNCHANGED acli
    PROVE  MdpInv'
<1>1. /\ cli[c].pc = "poll" /\ broker.pipe[Cur(c)] # <<>> /\ ReadPipe(Cur(c))
      /\ cli' = [cli EXCEPT ![c].pc = "idle"]
      /\ UNCHANGED <<netVars, sock, made, restarts, wrk, crashes>>
      /\ c \in Processes /\ c \notin Workers /\ Base /\ Rest
  BY ProcessFacts DEF ClientReply, netVars, workerVars, MdpInv, Base
<1>2. sock[c] # 0
  BY <1>1 DEF Rest
<1>3. PICK r : r = [cli[c] EXCEPT !.pc = "idle"]
  OBVIOUS
<1>4. cli' = [cli EXCEPT ![c] = r]
  BY <1>1, <1>3 DEF Rest
<1>5. /\ r \in [pc : {"idle", "poll", "stopped"}, n : Nat, service : Names \cup {None},
                body : Bodies \cup {None}, retries_left : Nat]
      /\ r.pc = "idle"
  BY <1>1, <1>3, ClientRecord
<1>6. Sockets(c) /\ made'[c] >= made[c]
  <2>1. made[c] \in Nat
    BY <1>1 DEF Rest
  <2> QED
    BY <1>1, <2>1, SocketsSame
<1>7. Rest'
  BY <1>1, <1>4, <1>5, <1>6, RestCli
<1>8. /\ Base' /\ FlowNow' = Take(FlowNow, Pipe(Cur(c)))
      /\ FlowNow[Pipe(Cur(c))] = broker.pipe[Cur(c)]
      /\ Head(broker.pipe[Cur(c)]) \in ToClient
      /\ Spares({Cur(c)}, FlowNow, broker, FlowNow', broker')
  BY <1>1, <1>2, <1>7, ClientTakes
<1>9. PICK id, F, G, m : id = Cur(c) /\ F = FlowNow /\ G = FlowNow' /\ m = Head(broker.pipe[id])
  OBVIOUS
<1>10. id \in ClientIds /\ id \in Ids /\ One(F, AllOf(id)) /\ F \in Flows
  BY <1>1, <1>2, <1>9, CurFacts, NowFlow DEF MdpInv, SyncAt
<1>11. m \in AllOf(id)[Pipe(id)] /\ Pipe(id) \in Places
  <2>1. m \in Msgs /\ m.kind = "ANSWER" /\ Pipe(id) \in Places
    BY <1>8, <1>9, <1>10, MessageKinds, PlaceCases
  <2> QED
    BY <2>1, AllIs, CopyCases
<1>12. Nowhere(G, AllOf(id))
  BY <1>1, <1>8, <1>9, <1>10, <1>11, FlowTake
<1>13. SyncAt(c)'
  <2>1. cli'[c] = r /\ Cur(c)' = id
    BY <1>1, <1>4, <1>9 DEF Rest, Cur
  <2> QED
    BY <1>5, <1>9, <1>12, <2>1, NowhereOne DEF SyncAt
<1>14. PICK J : J = {Cur(c)}
  OBVIOUS
<1>15. \A i \in J : i[1] = c /\ ~(i[2] > made'[i[1]])
  BY <1>1, <1>2, <1>14, CurFacts
<1>16. Spares(J, FlowNow, broker, FlowNow', broker')
  BY <1>8, <1>14
<1> QED
  BY <1>1, <1>4, <1>6, <1>8, <1>13, <1>15, <1>16, ClientInv

\* The part of ClientTimeout that connects again.
LEMMA ClientRetries ==
    ASSUME Base, NEW c \in Clients, NEW m \in FromClient, NEW msgs, msgs = <<m>>, Reconnect(c, msgs),
           NEW n, n = <<c, made[c] + 1>>, NEW d, d = broker', Parted(c, d),
           UNCHANGED <<restarts, crashes, wrk>>, Rest'
    PROVE  /\ Base' /\ n \in ClientIds /\ Cur(c)' = n /\ n[2] > made[n[1]]
           /\ \E E \in Flows : (\A T : Kept(FlowNow, E, T)) /\ FlowNow' = Put(E, Up(n), m)
           /\ Spares(Own(c), FlowNow, broker, FlowNow', broker')
<1>1. c \in Processes /\ c \notin Workers
  BY ProcessFacts
<1>2. msgs = <<>> \/ (msgs = <<m>> /\ m \in FromClient)
  OBVIOUS
<1>3. /\ Base' /\ n \in ClientIds /\ Cur(c)' = n /\ n[2] > made[n[1]]
      /\ \E E \in Flows : /\ \A T : Kept(FlowNow, E, T)
                          /\ \/ msgs = <<>> /\ FlowNow' = E
                             \/ msgs = <<m>> /\ FlowNow' = Put(E, Up(n), m)
      /\ Spares(Own(c), FlowNow, broker, FlowNow', broker')
  BY <1>1, <1>2, ClientConnects
<1>4. msgs # <<>>
  OBVIOUS
<1> QED
  BY <1>3, <1>4

\* mdcli_send tries again or gives up.
LEMMA StepClientTimeout ==
    ASSUME MdpInv, NEW c \in Clients, ClientTimeout(c), UNCHANGED acli
    PROVE  MdpInv'
<1>1. /\ cli[c].pc = "poll" /\ DropPipe(Cur(c)) /\ UNCHANGED <<restarts, wrk, crashes>>
      /\ c \in Processes /\ c \notin Workers /\ Base /\ Rest
  BY ProcessFacts DEF ClientTimeout, workerVars, MdpInv, Base
<1>2. sock[c] # 0 /\ cli[c].service \in Names /\ cli[c].body \in Bodies
  BY <1>1 DEF Rest
<1>3. PICK d : d = broker'
  OBVIOUS
<1>4. Parted(c, d)
  BY <1>1, <1>2, <1>3, PartedDrop
<1>5. ASSUME cli[c].retries_left > 1, cli' = [cli EXCEPT ![c].retries_left = @ - 1],
             Reconnect(c, <<ClientMsg(cli[c].service, cli[c].body)>>)
      PROVE  MdpInv'
  <2>1. PICK r : r = [cli[c] EXCEPT !.retries_left = @ - 1]
    OBVIOUS
  <2>2. cli' = [cli EXCEPT ![c] = r]
    BY <1>1, <1>5, <2>1 DEF Rest
  <2>3. /\ r \in [pc : {"idle", "poll", "stopped"}, n : Nat, service : Names \cup {None},
                  body : Bodies \cup {None}, retries_left : Nat]
        /\ r.pc = "poll" /\ r.service = cli[c].service /\ r.body = cli[c].body
    <3>1. cli[c] \in [pc : {"idle", "poll", "stopped"}, n : Nat, service : Names \cup {None},
                      body : Bodies \cup {None}, retries_left : Nat]
      BY <1>1, ClientRecord
    <3>2. cli[c].retries_left - 1 \in Nat
      BY <1>5, <3>1
    <3> QED
      BY <1>1, <2>1, <3>1, <3>2
  <2>4. PICK n, m, msgs : /\ n = <<c, made[c] + 1>> /\ m = ClientMsg(cli[c].service, cli[c].body)
                          /\ msgs = <<m>>
    OBVIOUS
  <2>5. m \in FromClient /\ m.service = cli[c].service /\ m.body = cli[c].body
    BY <1>2, <2>4 DEF ClientMsg, FromClient
  <2>6. Reconnect(c, msgs)
    BY <1>5, <2>4
  <2>7. Sockets(c) /\ sock'[c] # 0 /\ made'[c] = made[c] + 1 /\ made'[c] >= made[c]
    <3>1. made[c] \in Nat
      BY <1>1 DEF Rest
    <3> QED
      BY <1>1, <2>6, <3>1, SocketsConnect
  <2>8. Rest'
    BY <1>1, <1>2, <2>2, <2>3, <2>7, RestCli
  <2>9. /\ Base' /\ n \in ClientIds /\ Cur(c)' = n /\ n[2] > made[n[1]]
        /\ \E E \in Flows : (\A T : Kept(FlowNow, E, T)) /\ FlowNow' = Put(E, Up(n), m)
        /\ Spares(Own(c), FlowNow, broker, FlowNow', broker')
    BY <1>1, <1>3, <1>4, <2>4, <2>5, <2>6, <2>8, ClientRetries
  <2>10. Nowhere(FlowNow, AllOf(n))
    BY <2>9 DEF MdpInv, Unmade
  <2>11. PICK E \in Flows : Nowhere(E, AllOf(n)) /\ FlowNow' = Put(E, Up(n), m)
    BY <2>9, <2>10 DEF Kept
  <2>12. PICK G, sv : G = FlowNow' /\ sv = d.service
    OBVIOUS
  <2>13. /\ One(G, AllOf(n)) /\ ~Nowhere(G, AllOf(n))
         /\ Nowhere(G, Misfits(sv, n, {m.service}, {m.body}))
    BY <2>5, <2>9, <2>11, <2>12, FirstCopy
  <2>14. SyncAt(c)'
    <3>1. cli'[c] = r
      BY <1>1, <2>2 DEF Rest
    <3> QED
      BY <1>3, <2>3, <2>5, <2>9, <2>12, <2>13, <3>1 DEF SyncAt
  <2>15. \A i \in Own(c) : i[1] = c /\ ~(i[2] > made'[i[1]])
    BY <1>1, <2>7, OwnMade
  <2> QED
    BY <1>1, <2>2, <2>7, <2>9, <2>14, <2>15, ClientInv
<1>6. ASSUME cli' = [cli EXCEPT ![c].pc = "stopped", ![c].retries_left = 0], Close(c)
      PROVE  MdpInv'
  <2>1. PICK r : r = [cli[c] EXCEPT !.pc = "stopped", !.retries_left = 0]
    OBVIOUS
  <2>2. cli' = [cli EXCEPT ![c] = r]
    BY <1>1, <1>6, <2>1, Zenon DEF Rest
  <2>3. /\ r \in [pc : {"idle", "poll", "stopped"}, n : Nat, service : Names \cup {None},
                  body : Bodies \cup {None}, retries_left : Nat]
        /\ r.pc = "stopped"
    <3>1. cli[c] \in [pc : {"idle", "poll", "stopped"}, n : Nat, service : Names \cup {None},
                      body : Bodies \cup {None}, retries_left : Nat]
      BY <1>1, ClientRecord
    <3> QED
      BY <2>1, <3>1
  <2>4. Sockets(c) /\ sock'[c] = 0 /\ made' = made
    BY <1>1, <1>6, SocketsClose
  <2>5. Rest'
    BY <1>1, <2>2, <2>3, <2>4, RestCli
  <2>6. PICK J : J = {Cur(c)}
    OBVIOUS
  <2>7. Base' /\ Spares(J, FlowNow, broker, FlowNow', broker')
    BY <1>1, <1>2, <1>6, <2>5, <2>6, ClientCloses
  <2>8. SyncAt(c)'
    BY <2>4 DEF SyncAt
  <2>9. \A i \in J : i[1] = c /\ ~(i[2] > made'[i[1]])
    BY <1>1, <1>2, <2>4, <2>6, CurFacts
  <2>10. made'[c] >= made[c]
    <3>1. made[c] \in Nat
      BY <1>1 DEF Rest
    <3> QED
      BY <2>4, <3>1
  <2> QED
    BY <1>1, <2>2, <2>4, <2>7, <2>8, <2>9, <2>10, ClientInv
<1> QED
  BY <1>5, <1>6 DEF ClientTimeout

\* A step of the client a that leaves it in order keeps the invariant.
LEMMA AsyncInv ==
    ASSUME MdpInv, Base', NEW a \in AsyncClients, Sockets(a), made'[a] >= made[a],
           NEW J, \A i \in J : i[1] = a /\ ~(i[2] > made'[i[1]]),
           Spares(J, FlowNow, broker, FlowNow', broker'), NEW r, acli' = [acli EXCEPT ![a] = r],
           UNCHANGED <<restarts, crashes, cli>>, AsyncAt(a)',
           IsInjective(r.replies), ToSet(r.replies) \subseteq {<<a, i>> : i \in 1..r.n}
    PROVE  MdpInv'
<1>1. a \in Processes /\ a \notin Workers /\ a \notin Clients
  BY ProcessFacts
<1>2. acli'[a] = r /\ \A x \in AsyncClients : x # a => acli'[x] = acli[x]
  BY DEF MdpInv, Base, Rest
<1>3. /\ Unmade'
      /\ \A c \in Clients : SyncAt(c)'
      /\ \A x \in AsyncClients : x # a => AsyncAt(x)'
  BY <1>1, <1>2, InvSpares
<1>4. \A x \in AsyncClients : AsyncAt(x)'
  BY <1>3
<1>5. AsyncRepliesDistinct'
  <2>1. ASSUME NEW x \in AsyncClients
        PROVE  /\ IsInjective(acli'[x].replies)
               /\ ToSet(acli'[x].replies) \subseteq {<<x, i>> : i \in 1..acli'[x].n}
    <3>1. CASE x = a
      BY <1>2, <3>1
    <3>2. CASE x # a
      BY <1>2, <3>2 DEF MdpInv, AsyncRepliesDistinct
    <3> QED
      BY <3>1, <3>2
  <2> QED
    BY <2>1 DEF AsyncRepliesDistinct
<1> QED
  BY <1>3, <1>4, <1>5 DEF MdpInv

\* The record of an asynchronous client.
LEMMA AsyncRecord ==
    ASSUME MdpInv, NEW a \in AsyncClients
    PROVE  /\ acli[a] \in [pc : {"new", "send", "recv", "stopped"}, n : Nat, replies : Seq(Bodies)]
           /\ acli[a] = [pc |-> acli[a].pc, n |-> acli[a].n, replies |-> acli[a].replies]
           /\ acli[a].n \in Nat /\ acli[a].replies \in Seq(Bodies)
           /\ IsInjective(acli[a].replies)
           /\ ToSet(acli[a].replies) \subseteq {<<a, i>> : i \in 1..acli[a].n}
           /\ acli[a].pc \in {"send", "recv"} <=> sock[a] # 0
           /\ acli[a].pc = "new" => acli[a].n = 0 /\ acli[a].replies = <<>>
<1>1. acli[a] \in [pc : {"new", "send", "recv", "stopped"}, n : Nat, replies : Seq(Bodies)]
  BY DEF MdpInv, Base, Rest
<1>2. /\ acli[a].pc \in {"send", "recv"} <=> sock[a] # 0
      /\ acli[a].pc = "new" => acli[a].n = 0 /\ acli[a].replies = <<>>
  BY DEF MdpInv, Base, Rest
<1>3. /\ IsInjective(acli[a].replies)
      /\ ToSet(acli[a].replies) \subseteq {<<a, i>> : i \in 1..acli[a].n}
  BY DEF MdpInv, AsyncRepliesDistinct
<1> QED
  BY <1>1, <1>2, <1>3

\* mdcli_new of mdcliapi2.c.
LEMMA StepAsyncStart ==
    ASSUME MdpInv, NEW a \in AsyncClients, AsyncStart(a)
    PROVE  MdpInv'
<1>1. /\ acli[a].pc = "new" /\ Reconnect(a, <<>>)
      /\ acli' = [acli EXCEPT ![a].pc = "send"]
      /\ UNCHANGED <<broker, restarts, wrk, crashes, cli>> /\ a \in Processes /\ a \notin Workers
      /\ Base /\ Rest
  BY ProcessFacts DEF AsyncStart, brokerVars, workerVars, MdpInv, Base
<1>2. Sockets(a) /\ sock'[a] # 0 /\ made'[a] = made[a] + 1 /\ made'[a] >= made[a]
  <2>1. made[a] \in Nat
    BY <1>1 DEF Rest
  <2> QED
    BY <1>1, <2>1, SocketsConnect
<1>3. acli[a].n = 0 /\ acli[a].replies = <<>> /\ sock[a] = 0
  BY <1>1, AsyncRecord
<1>4. PICK r : r = [pc |-> "send", n |-> 0, replies |-> <<>>]
  OBVIOUS
<1>5. acli' = [acli EXCEPT ![a] = r]
  <2>0. acli[a] \in [pc : {"new", "send", "recv", "stopped"}, n : Nat, replies : Seq(Bodies)]
    BY AsyncRecord
  <2>1. [acli[a] EXCEPT !.pc = "send"] = r
    BY <1>3, <1>4, <2>0
  <2> QED
    BY <1>1, <2>1 DEF Rest
<1>6. /\ r \in [pc : {"send", "recv", "stopped"}, n : Nat, replies : Seq(Bodies)]
      /\ r.pc = "send" /\ IsInjective(r.replies)
      /\ ToSet(r.replies) \subseteq {<<a, i>> : i \in 1..r.n}
  BY <1>4 DEF IsInjective, ToSet
<1>7. Rest'
  BY <1>1, <1>2, <1>5, <1>6, RestAsync
<1>8. Parted(a, broker)
  BY <1>1, <1>3, PartedSame
<1>9. PICK n, msgs, m : n = <<a, made[a] + 1>> /\ msgs = <<>> /\ m = 0
  OBVIOUS
<1>10. /\ Base' /\ n \in ClientIds /\ Cur(a)' = n /\ n[2] > made[n[1]]
       /\ \E E \in Flows : /\ \A T : Kept(FlowNow, E, T)
                           /\ \/ msgs = <<>> /\ FlowNow' = E
                              \/ msgs = <<m>> /\ FlowNow' = Put(E, Up(n), m)
       /\ Spares(Own(a), FlowNow, broker, FlowNow', broker')
  <2>1. Reconnect(a, msgs) /\ n = <<a, made[a] + 1>> /\ msgs = <<>> /\ broker' = broker
    BY <1>1, <1>9
  <2>2. UNCHANGED <<restarts, crashes, wrk>> /\ a \in Processes /\ a \notin Workers /\ Base
    BY <1>1
  <2> QED
    BY <1>7, <1>8, <2>1, <2>2, ClientConnects
<1>11. Nowhere(FlowNow, AllOf(n))
  BY <1>10 DEF MdpInv, Unmade
<1>12. PICK G \in Flows : G = FlowNow' /\ Nowhere(G, AllOf(n))
  <2>1. msgs # <<m>>
    BY <1>9
  <2> QED
    BY <1>10, <1>11, <2>1 DEF Kept
<1>13. AsyncAt(a)'
  <2>1. PICK sv, X : sv = broker'.service /\ X = Due(a)'
    OBVIOUS
  <2>2. Nowhere(G, Misfits(sv, n, Services, X)) /\ \A x : One(G, CopiesOf(n, {x}, Services))
    BY <1>12, MisfitsAreCopies, NowhereOne
  <2> QED
    BY <1>10, <1>12, <2>1, <2>2 DEF AsyncAt
<1>14. \A i \in Own(a) : i[1] = a /\ ~(i[2] > made'[i[1]])
  BY <1>1, <1>2, OwnMade
<1> QED
  BY <1>1, <1>2, <1>5, <1>6, <1>10, <1>13, <1>14, AsyncInv

\* mdclient2.c ends.
LEMMA StepAsyncStop ==
    ASSUME MdpInv, NEW a \in AsyncClients, AsyncStop(a)
    PROVE  MdpInv'
<1>1. /\ acli[a].pc = "recv" /\ Close(a) /\ DropPipe(Cur(a))
      /\ acli' = [acli EXCEPT ![a].pc = "stopped"]
      /\ UNCHANGED <<restarts, wrk, crashes, cli>> /\ a \in Processes /\ a \notin Workers
      /\ Base /\ Rest
  BY ProcessFacts DEF AsyncStop, workerVars, MdpInv, Base
<1>2. Sockets(a) /\ sock'[a] = 0 /\ made' = made
  BY <1>1, SocketsClose
<1>3. sock[a] # 0
  BY <1>1, AsyncRecord
<1>4. PICK r : r = [pc |-> "stopped", n |-> acli[a].n, replies |-> acli[a].replies]
  OBVIOUS
<1>5. acli' = [acli EXCEPT ![a] = r]
  <2>0. acli[a] \in [pc : {"new", "send", "recv", "stopped"}, n : Nat, replies : Seq(Bodies)]
    BY AsyncRecord
  <2>1. [acli[a] EXCEPT !.pc = "stopped"] = r
    BY <1>4, <2>0
  <2> QED
    BY <1>1, <2>1 DEF Rest
<1>6. /\ r \in [pc : {"send", "recv", "stopped"}, n : Nat, replies : Seq(Bodies)]
      /\ r.pc = "stopped" /\ r.n = acli[a].n /\ r.replies = acli[a].replies
  BY <1>4, AsyncRecord
<1>7. IsInjective(r.replies) /\ ToSet(r.replies) \subseteq {<<a, i>> : i \in 1..r.n}
  BY <1>6, AsyncRecord
<1>8. Rest'
  BY <1>1, <1>2, <1>5, <1>6, RestAsync
<1>9. PICK J : J = {Cur(a)}
  OBVIOUS
<1>10. Base' /\ Spares(J, FlowNow, broker, FlowNow', broker')
  BY <1>1, <1>3, <1>8, <1>9, ClientCloses
<1>11. AsyncAt(a)'
  BY <1>2 DEF AsyncAt
<1>12. \A i \in J : i[1] = a /\ ~(i[2] > made'[i[1]])
  BY <1>1, <1>2, <1>3, <1>9, CurFacts
<1>13. made'[a] >= made[a]
  <2>1. made[a] \in Nat
    BY <1>1 DEF Rest
  <2> QED
    BY <1>2, <2>1
<1> QED
  BY <1>1, <1>2, <1>5, <1>7, <1>10, <1>11, <1>12, <1>13, AsyncInv

\* The names of the kinds of places.
LEMMA PlaceNames ==
    ASSUME NEW p \in Places
    PROVE  p[1] \in {"up", "pipe", "busy", "queue"}
BY PlaceCases

\* More bodies, fewer misfits.
LEMMA MisfitsGrow ==
    ASSUME NEW F \in Flows, NEW sv, NEW id, NEW S, NEW X, NEW Y, X \subseteq Y,
           Nowhere(F, Misfits(sv, id, S, X))
    PROVE  Nowhere(F, Misfits(sv, id, S, Y))
<1>1. PICK T, V : T = Misfits(sv, id, S, X) /\ V = Misfits(sv, id, S, Y)
  OBVIOUS
<1>2. ASSUME NEW p \in Places, NEW m \in Msgs, m \in V[p] PROVE m \in T[p]
  <2>1. IsCopy(p, m, id) /\ ~Fits(p, m, sv, S, Y)
    BY <1>1, <1>2, MisfitAt
  <2>2. ~Fits(p, m, sv, S, X)
    BY <2>1 DEF Fits
  <2> QED
    BY <1>1, <2>1, <2>2, MisfitAt
<1>3. Nowhere(F, V)
  BY <1>1, <1>2, NowhereSubset
<1> QED
  BY <1>1, <1>3

\* A copy of what is not due does not fit.
LEMMA CopiesMisfit ==
    ASSUME NEW F \in Flows, NEW sv, NEW id, NEW X, NEW x, x \notin X,
           Nowhere(F, Misfits(sv, id, Services, X))
    PROVE  Nowhere(F, CopiesOf(id, {x}, Services))
<1>1. PICK T, V, Y : T = Misfits(sv, id, Services, X) /\ V = CopiesOf(id, Y, Services) /\ Y = {x}
  OBVIOUS
<1>2. ASSUME NEW p \in Places, NEW m \in Msgs, m \in V[p] PROVE m \in T[p]
  <2>1. /\ IsCopy(p, m, id) /\ m.body \in Y
        /\ p[1] \in {"up", "pipe"} /\ m.kind \in {"CLIENT", "ANSWER"} => m.service \in Services
    BY <1>1, <1>2, CopyAt
  <2>2. ~Fits(p, m, sv, Services, X)
    <3>1. m.body \notin X
      BY <1>1, <2>1
    <3>2. p[1] \in {"up", "pipe", "busy", "queue"}
      BY PlaceNames
    <3>3. \A s \in Services : s \notin MmiNames
      BY NetAssumption
    <3> QED
      BY <2>1, <3>1, <3>2, <3>3 DEF Fits
  <2> QED
    BY <1>1, <2>1, <2>2, MisfitAt
<1>3. Nowhere(F, V)
  BY <1>1, <1>2, NowhereSubset
<1> QED
  BY <1>1, <1>3

\* When x is no longer due and there is no copy of it, everything still fits.
LEMMA MisfitsLess ==
    ASSUME NEW F \in Flows, NEW sv, NEW id, NEW X, NEW x,
           Nowhere(F, Misfits(sv, id, Services, X)), Nowhere(F, CopiesOf(id, {x}, Services))
    PROVE  Nowhere(F, Misfits(sv, id, Services, X \ {x}))
<1>1. PICK T, V, Y, Z, W : /\ T = Misfits(sv, id, Services, X) /\ V = CopiesOf(id, Y, Services)
                           /\ Y = {x} /\ Z = X \ {x} /\ W = Misfits(sv, id, Services, Z)
  OBVIOUS
<1>2. ASSUME NEW p \in Places, NEW m \in Msgs, m \in W[p] PROVE m \in T[p] \/ m \in V[p]
  <2>1. IsCopy(p, m, id) /\ ~Fits(p, m, sv, Services, Z)
    BY <1>1, <1>2, MisfitAt
  <2>2. CASE ~Fits(p, m, sv, Services, X)
    BY <1>1, <2>1, <2>2, MisfitAt
  <2>3. CASE Fits(p, m, sv, Services, X)
    <3>1. m.body \in Y
      BY <1>1, <2>1, <2>3 DEF Fits
    <3>2. p[1] \in {"up", "pipe"} /\ m.kind \in {"CLIENT", "ANSWER"} => m.service \in Services
      BY <2>3 DEF Fits
    <3> QED
      BY <1>1, <2>1, <3>1, <3>2, CopyAt
  <2> QED
    BY <2>2, <2>3
<1>3. ASSUME NEW p \in Places PROVE ~Has(F[p], W[p])
  <2>1. F[p] \in Seq(Msgs) /\ ~Has(F[p], T[p]) /\ ~Has(F[p], V[p])
    BY <1>1 DEF Flows, Nowhere
  <2>2. \A k \in 1..Len(F[p]) : F[p][k] \in Msgs
    BY <2>1
  <2> QED
    BY <1>2, <2>1, <2>2 DEF Has
<1> QED
  BY <1>1, <1>3 DEF Nowhere

\* mdcli_send of mdcliapi2.c: a new request, so far without a copy.
LEMMA StepAsyncSend ==
    ASSUME MdpInv, NEW a \in AsyncClients, AsyncSend(a)
    PROVE  MdpInv'
<1>1. /\ acli[a].pc = "send"
      /\ acli' = [acli EXCEPT ![a].n = @ + 1,
                              ![a].pc = IF acli[a].n + 1 = MaxRequests THEN "recv" ELSE "send"]
      /\ UNCHANGED <<broker, restarts, wrk, crashes, cli>> /\ a \in Processes /\ a \notin Workers
      /\ Base /\ Rest
  BY ProcessFacts DEF AsyncSend, brokerVars, workerVars, MdpInv, Base
<1>2. PICK x : x = <<a, acli[a].n + 1>>
  OBVIOUS
<1>3. PICK s \in Services : SendUp(a, <<ClientMsg(s, x)>>)
  BY <1>2 DEF AsyncSend
<1>4. PICK m : m = ClientMsg(s, x)
  OBVIOUS
<1>5. acli[a].n \in Nat /\ sock[a] # 0
  BY <1>1, AsyncRecord
<1>6. m \in FromClient /\ m.kind = "CLIENT" /\ m.service = s /\ m.body = x /\ m \in Msgs
  <2>1. x \in Bodies /\ s \in Names
    BY <1>1, <1>2, <1>5 DEF Bodies, Names
  <2> QED
    BY <1>4, <2>1, MessageKinds DEF ClientMsg, FromClient
<1>7. PICK pc : pc = IF acli[a].n + 1 = MaxRequests THEN "recv" ELSE "send"
  OBVIOUS
<1>8. PICK k, r : k = acli[a].n + 1 /\ r = [pc |-> pc, n |-> k, replies |-> acli[a].replies]
  OBVIOUS
<1>9. acli' = [acli EXCEPT ![a] = r]
  <2>1. acli[a] \in [pc : {"new", "send", "recv", "stopped"}, n : Nat, replies : Seq(Bodies)]
    BY AsyncRecord
  <2>2. [acli[a] EXCEPT !.n = k, !.pc = pc] = [pc |-> pc, n |-> k, replies |-> acli[a].replies]
    <3>1. PICK u : u = acli[a]
      OBVIOUS
    <3>2. PICK v : v = [u EXCEPT !.n = k]
      OBVIOUS
    <3>3. v = [pc |-> u.pc, n |-> k, replies |-> u.replies]
      BY <2>1, <3>1, <3>2
    <3>4. [v EXCEPT !.pc = pc] = [pc |-> pc, n |-> k, replies |-> u.replies]
      BY <3>3
    <3>5. [u EXCEPT !.n = k, !.pc = pc] = [v EXCEPT !.pc = pc]
      BY <3>2, Zenon
    <3> QED
      BY <3>1, <3>4, <3>5
  <2>3. acli' = [acli EXCEPT ![a] = [acli[a] EXCEPT !.n = k, !.pc = pc]]
    <3>1. acli' = [acli EXCEPT ![a].n = @ + 1, ![a].pc = pc]
      BY <1>1, <1>7
    <3>2. acli' = [acli EXCEPT ![a] = [acli[a] EXCEPT !.n = @ + 1, !.pc = pc]]
      BY <3>1, Zenon
    <3> QED
      BY <1>8, <3>2, Zenon
  <2> QED
    BY <1>8, <2>2, <2>3
<1>10. /\ r \in [pc : {"send", "recv", "stopped"}, n : Nat, replies : Seq(Bodies)]
       /\ r.pc \in {"send", "recv"} /\ r.n = acli[a].n + 1 /\ r.replies = acli[a].replies
  <2>1. pc \in {"send", "recv"} /\ k \in Nat
    BY <1>5, <1>7, <1>8
  <2>2. acli[a] \in [pc : {"new", "send", "recv", "stopped"}, n : Nat, replies : Seq(Bodies)]
    BY AsyncRecord
  <2>3. acli[a].replies \in Seq(Bodies)
    BY <2>2
  <2> QED
    BY <1>8, <2>1, <2>3
<1>11. /\ IsInjective(acli[a].replies)
       /\ ToSet(acli[a].replies) \subseteq {<<a, i>> : i \in 1..acli[a].n}
  BY AsyncRecord
<1>12. IsInjective(r.replies) /\ ToSet(r.replies) \subseteq {<<a, i>> : i \in 1..r.n}
  <2>1. {<<a, i>> : i \in 1..acli[a].n} \subseteq {<<a, i>> : i \in 1..(acli[a].n + 1)}
    BY <1>5
  <2> QED
    BY <1>10, <1>11, <2>1
<1>13. UNCHANGED <<sock, made>>
  BY <1>3 DEF SendUp
<1>14. Sockets(a) /\ made'[a] >= made[a]
  <2>1. made[a] \in Nat
    BY <1>1 DEF Rest
  <2> QED
    BY <1>1, <1>13, <2>1, SocketsSame
<1>15. Rest'
  BY <1>1, <1>5, <1>9, <1>10, <1>13, <1>14, RestAsync
<1>16. /\ Base' /\ FlowNow' = Put(FlowNow, Up(Cur(a)), m)
       /\ Spares({Cur(a)}, FlowNow, broker, FlowNow', broker')
  BY <1>1, <1>3, <1>4, <1>5, <1>6, <1>15, ClientPuts
<1>17. PICK id, F, G, sv, X : /\ id = Cur(a) /\ F = FlowNow /\ G = FlowNow' /\ sv = broker.service
                              /\ X = Due(a)
  OBVIOUS
<1>18. /\ id \in ClientIds /\ id \in Ids /\ F \in Flows /\ Up(id) \in Places
       /\ \A z : One(F, CopiesOf(id, {z}, Services))
       /\ Nowhere(F, Misfits(sv, id, Services, X))
  BY <1>1, <1>5, <1>17, CurFacts, NowFlow, PlaceCases DEF MdpInv, AsyncAt
<1>19. x \notin X /\ x \notin ToSet(acli[a].replies)
  <2>1. x \notin {<<a, i>> : i \in 1..acli[a].n}
    BY <1>2, <1>5
  <2> QED
    BY <1>11, <1>17, <2>1 DEF Due
<1>20. Due(a)' = X \cup {x}
  <2>1. acli'[a] = r
    BY <1>1, <1>9 DEF Rest
  <2>2. Due(a)' = {<<a, i>> : i \in 1..(acli[a].n + 1)} \ ToSet(acli[a].replies)
    BY <1>10, <2>1 DEF Due
  <2>3. {<<a, i>> : i \in 1..(acli[a].n + 1)} = {<<a, i>> : i \in 1..acli[a].n} \cup {x}
    <3>1. 1..(acli[a].n + 1) = 1..acli[a].n \cup {acli[a].n + 1}
      BY <1>5
    <3> QED
      BY <1>2, <3>1
  <2> QED
    BY <1>17, <1>19, <2>2, <2>3 DEF Due
<1>21. PICK Y : Y = X \cup {x}
  OBVIOUS
<1>22. Nowhere(G, Misfits(sv, id, Services, Y))
  <2>1. Nowhere(F, Misfits(sv, id, Services, Y))
    BY <1>18, <1>21, MisfitsGrow
  <2>2. m \in Misfits(sv, id, Services, Y)[Up(id)] <=>
              \/ m.kind = "CLIENT" /\ id = id /\ ~(m.service \in Services /\ m.body \in Y)
              \/ m.kind = "REPLY" /\ m.client = id /\ ~(sv[id] \in Services \cup {None} /\ m.body \in Y)
    <3>1. m \in Msgs /\ id \in Ids
      BY <1>6, <1>18
    <3> QED
      BY <3>1, MisfitUp
  <2>3. m \notin Misfits(sv, id, Services, Y)[Up(id)]
    BY <1>6, <1>21, <2>2
  <2> QED
    BY <1>6, <1>16, <1>17, <1>18, <2>1, <2>3, FlowPut
<1>23. ASSUME NEW z PROVE One(G, CopiesOf(id, {z}, Services))
  <2>1. z = x => Nowhere(F, CopiesOf(id, {z}, Services))
    BY <1>18, <1>19, CopiesMisfit
  <2>2. PICK Z : Z = {z}
    OBVIOUS
  <2>3. m \in CopiesOf(id, Z, Services)[Up(id)] => m.body \in Z
    <3>1. m \in Msgs /\ id \in Ids
      BY <1>6, <1>18
    <3> QED
      BY <3>1, CopyUp
  <2>4. m \in CopiesOf(id, Z, Services)[Up(id)] => Nowhere(F, CopiesOf(id, Z, Services))
    BY <1>6, <2>1, <2>2, <2>3
  <2>5. One(F, CopiesOf(id, Z, Services))
    BY <1>18, <2>2
  <2>6. One(G, CopiesOf(id, Z, Services))
    BY <1>6, <1>16, <1>17, <1>18, <2>4, <2>5, FlowPut
  <2> QED
    BY <2>2, <2>6
<1>24. AsyncAt(a)'
  <2>1. Cur(a)' = id /\ broker'.service = sv /\ Due(a)' = Y
    BY <1>1, <1>13, <1>17, <1>20, <1>21 DEF Cur
  <2> QED
    BY <1>17, <1>22, <1>23, <2>1 DEF AsyncAt
<1>25. PICK J : J = {Cur(a)}
  OBVIOUS
<1>26. \A i \in J : i[1] = a /\ ~(i[2] > made'[i[1]])
  BY <1>1, <1>5, <1>13, <1>25, CurFacts
<1>27. Spares(J, FlowNow, broker, FlowNow', broker')
  BY <1>16, <1>25
<1> QED
  BY <1>1, <1>9, <1>12, <1>14, <1>16, <1>24, <1>26, <1>27, AsyncInv

\* mdcli_recv: what it returns was due, and is under way no more.
LEMMA StepAsyncReply ==
    ASSUME MdpInv, NEW a \in AsyncClients, AsyncReply(a)
    PROVE  MdpInv'
<1>1. /\ acli[a].pc = "recv" /\ broker.pipe[Cur(a)] # <<>> /\ ReadPipe(Cur(a))
      /\ acli' = [acli EXCEPT ![a].replies = Append(@, Head(broker.pipe[Cur(a)]).body)]
      /\ UNCHANGED <<netVars, sock, made, restarts, wrk, crashes, cli>>
      /\ a \in Processes /\ a \notin Workers /\ Base /\ Rest
  BY ProcessFacts DEF AsyncReply, netVars, workerVars, MdpInv, Base
<1>2. sock[a] # 0 /\ acli[a].n \in Nat /\ acli[a].replies \in Seq(Bodies)
  BY <1>1, AsyncRecord
<1>3. PICK id, F, G, sv, X, m, x : /\ id = Cur(a) /\ F = FlowNow /\ G = FlowNow' /\ sv = broker.service
                                   /\ X = Due(a) /\ m = Head(broker.pipe[id]) /\ x = m.body
  OBVIOUS
<1>4. /\ id \in ClientIds /\ id \in Ids /\ F \in Flows /\ Pipe(id) \in Places
      /\ \A z : One(F, CopiesOf(id, {z}, Services))
      /\ Nowhere(F, Misfits(sv, id, Services, X))
  BY <1>1, <1>2, <1>3, CurFacts, NowFlow, PlaceCases DEF MdpInv, AsyncAt
<1>5. F[Pipe(id)] = broker.pipe[id] /\ m \in ToClient
  <2>1. /\ up \in Ups /\ broker \in Brokers /\ Hd \in Ups /\ F = FlowOf(up, broker, Hd)
        /\ broker.pipe[id] \in Seq(ToClient)
    BY <1>1, <1>3, <1>4 DEF Base, Seen, View, Kinds, FlowNow
  <2>2. F[Pipe(id)] = broker.pipe[id]
    BY <1>4, <2>1, FlowOfFacts DEF IsFlow
  <2> QED
    BY <1>1, <1>3, <2>1, <2>2
<1>6. m \in Msgs /\ m.kind = "ANSWER" /\ x \in Bodies
  BY <1>3, <1>5, MessageKinds
<1>7. x \in X /\ m.service \in Services
  <2>1. m \in Misfits(sv, id, Services, X)[Pipe(id)] <=>
              \/ /\ m.kind = "ANSWER" /\ id = id
                 /\ ~(m.service \in Services /\ (m.service \in MmiNames \/ m.body \in X))
              \/ m.kind = "REQUEST" /\ m.client = id /\ ~(sv[id] \in Services \cup {None} /\ m.body \in X)
    <3>1. m \in Msgs /\ id \in Ids
      BY <1>4, <1>6
    <3> QED
      BY <3>1, MisfitPipe
  <2>2. m \notin Misfits(sv, id, Services, X)[Pipe(id)]
    BY <1>1, <1>3, <1>4, <1>5, FlowTake
  <2>3. m.service \in Services /\ (m.service \in MmiNames \/ m.body \in X)
    BY <1>6, <2>1, <2>2
  <2> QED
    BY <1>3, <2>3, NetAssumption
<1>8. x \in {<<a, i>> : i \in 1..acli[a].n} /\ x \notin ToSet(acli[a].replies)
  BY <1>3, <1>7 DEF Due
<1>9. PICK t, r : t = Append(acli[a].replies, x) /\ r = [pc |-> "recv", n |-> acli[a].n, replies |-> t]
  OBVIOUS
<1>10. acli' = [acli EXCEPT ![a] = r]
  <2>1. acli[a] \in [pc : {"new", "send", "recv", "stopped"}, n : Nat, replies : Seq(Bodies)]
    BY AsyncRecord
  <2>2. [acli[a] EXCEPT !.replies = t] = [pc |-> acli[a].pc, n |-> acli[a].n, replies |-> t]
    BY <2>1
  <2>3. [acli[a] EXCEPT !.replies = t] = r
    BY <1>1, <1>9, <2>2
  <2>4. acli' = [acli EXCEPT ![a] = [acli[a] EXCEPT !.replies = t]]
    BY <1>1, <1>3, <1>9, Zenon DEF Rest
  <2> QED
    BY <2>3, <2>4
<1>11. /\ t \in Seq(Bodies) /\ ToSet(t) = ToSet(acli[a].replies) \cup {x} /\ IsInjective(t)
       /\ ToSet(acli[a].replies) \subseteq {<<a, i>> : i \in 1..acli[a].n}
  <2>1. PICK l : l = acli[a].replies
    OBVIOUS
  <2>2. IsInjective(l) /\ ToSet(acli[a].replies) \subseteq {<<a, i>> : i \in 1..acli[a].n}
    BY <2>1, AsyncRecord
  <2>3. l \in Seq(Bodies) /\ x \in Bodies /\ x \notin ToSet(l) /\ t = Append(l, x)
    BY <1>2, <1>6, <1>8, <1>9, <2>1
  <2>4. t \in Seq(Bodies) /\ ToSet(t) = ToSet(l) \cup {x} /\ IsInjective(t)
    BY <2>2, <2>3, AppendFacts
  <2> QED
    BY <2>1, <2>2, <2>4
<1>12. /\ r \in [pc : {"send", "recv", "stopped"}, n : Nat, replies : Seq(Bodies)]
       /\ r.pc = "recv" /\ r.n = acli[a].n /\ r.replies = t
  BY <1>2, <1>9, <1>11
<1>13. IsInjective(r.replies) /\ ToSet(r.replies) \subseteq {<<a, i>> : i \in 1..r.n}
  <2>1. ToSet(t) \subseteq {<<a, i>> : i \in 1..acli[a].n}
    BY <1>8, <1>11
  <2> QED
    BY <1>11, <1>12, <2>1
<1>14. Sockets(a) /\ made'[a] >= made[a]
  <2>1. made[a] \in Nat
    BY <1>1 DEF Rest
  <2> QED
    BY <1>1, <2>1, SocketsSame
<1>15. Rest'
  BY <1>1, <1>2, <1>10, <1>12, <1>14, RestAsync
<1>16. /\ Base' /\ FlowNow' = Take(FlowNow, Pipe(Cur(a)))
       /\ Spares({Cur(a)}, FlowNow, broker, FlowNow', broker')
  BY <1>1, <1>2, <1>15, ClientTakes
<1>17. G = Take(F, Pipe(id)) /\ G \in Flows /\ F[Pipe(id)] # <<>> /\ m = Head(F[Pipe(id)])
  BY <1>1, <1>3, <1>4, <1>5, <1>16, FlowTake
<1>18. ASSUME NEW z PROVE One(G, CopiesOf(id, {z}, Services))
  BY <1>4, <1>17, FlowTake
<1>19. Nowhere(G, CopiesOf(id, {x}, Services))
  <2>1. PICK Z : Z = {x}
    OBVIOUS
  <2>2. m \in CopiesOf(id, Z, Services)[Pipe(id)] <=>
              /\ m.body \in Z
              /\ \/ m.kind = "ANSWER" /\ id = id /\ m.service \in Services
                 \/ m.kind = "REQUEST" /\ m.client = id
    <3>1. m \in Msgs /\ id \in Ids
      BY <1>4, <1>6
    <3> QED
      BY <3>1, CopyPipe
  <2>3. m \in CopiesOf(id, Z, Services)[Pipe(id)]
    BY <1>3, <1>6, <1>7, <2>1, <2>2
  <2>4. One(F, CopiesOf(id, Z, Services))
    BY <1>4, <2>1
  <2>5. Nowhere(G, CopiesOf(id, Z, Services))
    BY <1>4, <1>17, <2>3, <2>4, FlowTake
  <2> QED
    BY <2>1, <2>5
<1>20. PICK Y : Y = X \ {x}
  OBVIOUS
<1>21. Due(a)' = Y
  <2>1. acli'[a] = r
    BY <1>1, <1>10 DEF Rest
  <2>2. Due(a)' = {<<a, i>> : i \in 1..acli[a].n} \ ToSet(t)
    BY <1>12, <2>1 DEF Due
  <2> QED
    BY <1>3, <1>11, <1>20, <2>2 DEF Due
<1>22. Nowhere(G, Misfits(sv, id, Services, Y))
  <2>1. Nowhere(G, Misfits(sv, id, Services, X))
    BY <1>4, <1>17, FlowTake
  <2> QED
    BY <1>17, <1>19, <1>20, <2>1, MisfitsLess
<1>23. AsyncAt(a)'
  <2>1. Cur(a)' = id /\ broker'.service = sv
    BY <1>1, <1>3, <1>16 DEF Cur, Spares
  <2> QED
    BY <1>3, <1>18, <1>21, <1>22, <2>1 DEF AsyncAt
<1>24. PICK J : J = {Cur(a)}
  OBVIOUS
<1>25. \A i \in J : i[1] = a /\ ~(i[2] > made'[i[1]])
  BY <1>1, <1>2, <1>24, CurFacts
<1>26. Spares(J, FlowNow, broker, FlowNow', broker')
  BY <1>16, <1>24
<1> QED
  BY <1>1, <1>10, <1>13, <1>14, <1>16, <1>23, <1>25, <1>26, AsyncInv

\* Clients' sockets are left alone, and failures are counted.
Grows ==
    /\ \A p \in Processes : /\ made'[p] >= made[p]
                            /\ p \notin Workers => sock'[p] = sock[p] /\ made'[p] = made[p]
    /\ restarts' >= restarts /\ crashes' >= crashes

\* Steps that leave the sockets alone.
LEMMA StillGrows ==
    ASSUME Rest, UNCHANGED <<sock, made>>, restarts' = restarts \/ restarts' = restarts + 1,
           crashes' = crashes
    PROVE  Grows
<1>1. restarts \in Nat /\ crashes \in Nat /\ \A p \in Processes : made[p] \in Nat
  BY DEF Rest
<1> QED
  BY <1>1 DEF Grows

\* A worker opens a socket.
LEMMA ConnectGrows ==
    ASSUME Rest, NEW w \in Workers, NEW msgs, Reconnect(w, msgs), UNCHANGED <<restarts, crashes>>
    PROVE  Grows
<1>1. restarts \in Nat /\ crashes \in Nat /\ \A p \in Processes : made[p] \in Nat
  BY DEF Rest
<1>2. /\ made'[w] = made[w] + 1 /\ w \in Processes
      /\ \A q \in Processes : q # w => sock'[q] = sock[q] /\ made'[q] = made[q]
  BY SocketsAfter, ProcessFacts
<1>3. ASSUME NEW p \in Processes PROVE made'[p] >= made[p]
  BY <1>1, <1>2
<1> QED
  BY <1>1, <1>2, <1>3 DEF Grows

\* A worker crashes.
LEMMA CrashGrows ==
    ASSUME Rest, NEW w \in Workers, WorkerCrash(w)
    PROVE  Grows
<1>1. restarts \in Nat /\ crashes \in Nat /\ \A p \in Processes : made[p] \in Nat
  BY DEF Rest
<1>2. made' = made /\ crashes' = crashes + 1 /\ restarts' = restarts
  BY DEF WorkerCrash, Close
<1>3. \A q \in Processes : q # w => sock'[q] = sock[q]
  BY DEF WorkerCrash, Close, Rest
<1> QED
  BY <1>1, <1>2, <1>3 DEF Grows

\* A step of the broker or of a worker keeps the invariant.
LEMMA InvGrows ==
    ASSUME MdpInv, Base', Delivers(FlowNow, broker, FlowNow', broker'), UNCHANGED <<cli, acli>>,
           Grows
    PROVE  MdpInv'
<1>1. Rest /\ Rest'
  BY DEF MdpInv, Base
<1>2. ASSUME Quiet' PROVE Quiet
  <2>1. restarts' \in Nat /\ crashes' \in Nat /\ restarts \in Nat /\ crashes \in Nat
    BY <1>1 DEF Rest
  <2>2. restarts = 0 /\ crashes = 0
    BY <1>2, <2>1 DEF Grows, Quiet
  <2>3. ASSUME NEW v \in Workers PROVE made[v] <= 1
    <3>1. v \in Processes
      BY ProcessFacts
    <3>2. made[v] \in Nat /\ made'[v] \in Nat
      BY <1>1, <3>1 DEF Rest
    <3>3. made'[v] >= made[v] /\ made'[v] <= 1
      BY <1>2, <3>1 DEF Grows, Quiet
    <3> QED
      BY <3>2, <3>3
  <2> QED
    BY <2>2, <2>3 DEF Quiet
<1>3. \A p \in Processes : p \notin Workers => sock'[p] = sock[p] /\ made'[p] = made[p]
  BY DEF Grows
<1> QED
  BY <1>2, <1>3, InvDelivers

\* Every step of the broker keeps the invariant.
LEMMA StepBroker ==
    ASSUME MdpInv, Broker
    PROVE  MdpInv'
<1>1. Base /\ Rest
  BY DEF MdpInv, Base
<1>2. UNCHANGED <<workerVars, cli, acli>> /\ UNCHANGED <<cli, acli>> /\ crashes' = crashes
  BY DEF Broker, workerVars
<1>3. Base' /\ Delivers(FlowNow, broker, FlowNow', broker')
  <2>1. ASSUME NEW i \in Ids, BrokerRecv(i) PROVE Base' /\ Delivers(FlowNow, broker, FlowNow', broker')
    BY <1>1, <1>2, <2>1, StepRecv
  <2>2. CASE BrokerHeartbeat
    BY <1>1, <1>2, <2>2, StepBeat
  <2>3. CASE TimePasses
    BY <1>1, <1>2, <2>3, StepTime
  <2>4. CASE BrokerRestart
    BY <1>1, <1>2, <2>4, StepRestart
  <2> QED
    BY <2>1, <2>2, <2>3, <2>4 DEF Broker
<1>4. UNCHANGED <<sock, made>> /\ (restarts' = restarts \/ restarts' = restarts + 1)
  BY DEF Broker, BrokerRecv, BrokerHeartbeat, TimePasses, BrokerRestart, netVars
<1>5. Grows
  BY <1>1, <1>2, <1>4, StillGrows
<1> QED
  BY <1>2, <1>3, <1>5, InvGrows

\* Every step of a worker keeps the invariant.
LEMMA StepWorker ==
    ASSUME MdpInv, NEW w \in Workers, Worker(w)
    PROVE  MdpInv'
<1>1. Base /\ Rest
  BY DEF MdpInv, Base
<1>2. UNCHANGED <<cli, acli>>
  BY DEF Worker
<1>3. CASE WorkerStart(w)
  <2>1. UNCHANGED <<restarts, crashes>> /\ \E msgs : Reconnect(w, msgs)
    BY <1>3 DEF WorkerStart, ConnectToBroker, brokerVars
  <2> QED
    BY <1>1, <1>2, <1>3, <2>1, StepStart, ConnectGrows, InvGrows
<1>4. CASE WorkerRequest(w)
  <2>1. UNCHANGED <<sock, made, restarts, crashes>>
    BY <1>4 DEF WorkerRequest, netVars
  <2> QED
    BY <1>1, <1>2, <1>4, <2>1, StepRequest, StillGrows, InvGrows
<1>5. CASE WorkerHeartbeat(w)
  <2>1. UNCHANGED <<sock, made, restarts, crashes>>
    BY <1>5 DEF WorkerHeartbeat, MaybeHeartbeat, SendUp, netVars
  <2> QED
    BY <1>1, <1>2, <1>5, <2>1, StepWorkerBeat, StillGrows, InvGrows
<1>6. CASE WorkerDisconnect(w)
  <2>1. UNCHANGED <<restarts, crashes>> /\ \E msgs : Reconnect(w, msgs)
    BY <1>6 DEF WorkerDisconnect, ConnectToBroker
  <2> QED
    BY <1>1, <1>2, <1>6, <2>1, StepDisconnect, ConnectGrows, InvGrows
<1>7. CASE WorkerTimeout(w) /\ wrk[w].liveness > 1
  <2>1. UNCHANGED <<sock, made, restarts, crashes>>
    BY <1>7 DEF WorkerTimeout, MaybeHeartbeat, SendUp, netVars, brokerVars
  <2> QED
    BY <1>1, <1>2, <1>7, <2>1, StepTimeout, StillGrows, InvGrows
<1>8. CASE WorkerTimeout(w) /\ ~(wrk[w].liveness > 1)
  <2>1. UNCHANGED <<restarts, crashes>> /\ \E msgs : Reconnect(w, msgs)
    BY <1>8 DEF WorkerTimeout, ConnectToBroker, brokerVars
  <2> QED
    BY <1>1, <1>2, <1>8, <2>1, StepGiveUp, ConnectGrows, InvGrows
<1>9. CASE WorkerReply(w)
  <2>1. UNCHANGED <<sock, made, restarts, crashes>>
    BY <1>9 DEF WorkerReply, SendUp, brokerVars
  <2> QED
    BY <1>1, <1>2, <1>9, <2>1, StepReply, StillGrows, InvGrows
<1>10. CASE WorkerCrash(w)
  BY <1>1, <1>2, <1>10, StepCrash, CrashGrows, InvGrows
<1> QED
  BY <1>3, <1>4, <1>5, <1>6, <1>7, <1>8, <1>9, <1>10 DEF Worker

\* Nothing happens.
LEMMA StepStutter ==
    ASSUME MdpInv, UNCHANGED vars
    PROVE  MdpInv'
<1>1. UNCHANGED <<sock, made, up, broker, restarts, wrk, crashes, cli, acli>>
  BY DEF vars, netVars, brokerVars, workerVars
<1>2. UNCHANGED <<cli, acli>> /\ Rest
  BY <1>1 DEF MdpInv, Base
<1>3. Hd' = Hd
  BY <1>1 DEF Hd, Hands, Connected
<1>4. Base'
  <2>1. Rest'
    BY <1>1, <1>2, RestSame
  <2>2. Seen'
    BY <1>1, <1>3, SeenAgain DEF MdpInv, Base, Seen
  <2>3. Sound(broker)'
    BY <1>1 DEF MdpInv, Base, Sound, Lists, Drained
  <2> QED
    BY <2>1, <2>2, <2>3 DEF Base
<1>5. FlowNow' = FlowNow
  BY <1>1, <1>3 DEF FlowNow, FlowOf
<1>6. Delivers(FlowNow, broker, FlowNow', broker')
  BY <1>1, <1>5 DEF Delivers, Carries, Kept, Saved
<1>7. Grows
  BY <1>1, <1>2, StillGrows
<1> QED
  BY <1>2, <1>4, <1>6, <1>7, InvGrows

\* Every step keeps the invariant.
LEMMA MdpNext ==
    ASSUME MdpInv, [Next]_vars
    PROVE  MdpInv'
<1>1. CASE Broker
  BY <1>1, StepBroker
<1>2. ASSUME NEW w \in Workers, Worker(w) PROVE MdpInv'
  BY <1>2, StepWorker
<1>3. ASSUME NEW c \in Clients, Client(c) PROVE MdpInv'
  BY <1>3, StepClientStart, StepClientSend, StepClientReply, StepClientTimeout DEF Client
<1>4. ASSUME NEW a \in AsyncClients, AsyncClient(a) PROVE MdpInv'
  BY <1>4, StepAsyncStart, StepAsyncSend, StepAsyncReply, StepAsyncStop DEF AsyncClient
<1>5. CASE UNCHANGED vars
  BY <1>5, StepStutter
<1> QED
  BY <1>1, <1>2, <1>3, <1>4, <1>5 DEF Next

\* At first nothing is anywhere.
LEMMA InitEmpty ==
    ASSUME Init
    PROVE  /\ Rest /\ Sound(broker)
           /\ \A i \in Ids : /\ up[i] = <<>> /\ broker.pipe[i] = <<>> /\ Hd[i] = <<>>
                             /\ broker.service[i] = None
           /\ \A s \in Services : broker.requests[s] = <<>>
           /\ broker.waiting = <<>> /\ up \in Ups /\ Hd \in Ups
<1>1. /\ broker = s_broker_new /\ restarts = 0 /\ crashes = 0
      /\ sock = [p \in Processes |-> 0] /\ made = [p \in Processes |-> 0]
      /\ up = [id \in Ids |-> <<>>]
  BY DEF Init, NetInit, BrokerInit, WorkerInit
<1>2. /\ wrk = [w \in Workers |-> [pc |-> "down", service |-> None, reply_to |-> NoRequest,
                                   liveness |-> HEARTBEAT_LIVENESS]]
      /\ cli = [c \in Clients |-> [pc |-> "idle", n |-> 0, service |-> None,
                                   body |-> None, retries_left |-> 0]]
      /\ acli = [a \in AsyncClients |-> [pc |-> "new", n |-> 0, replies |-> <<>>]]
  BY DEF Init, WorkerInit, ClientInit, AsyncInit
<1>3. Rest
  <2>1. sock \in [Processes -> 0..MaxSockets] /\ made \in [Processes -> 0..MaxSockets]
    BY <1>1, NetAssumption
  <2>2. \A p \in Processes : sock[p] = 0 /\ made[p] = 0
    BY <1>1
  <2>3. wrk \in [Workers -> [pc : {"down", "recv", "busy"},
                            service : Services \cup {None},
                            reply_to : Pending \cup {NoRequest},
                            liveness : 1..HEARTBEAT_LIVENESS]]
    BY <1>2, WorkerAssumption
  <2>4. cli \in [Clients -> [pc : {"idle", "poll", "stopped"}, n : Nat,
                            service : Names \cup {None},
                            body : Bodies \cup {None}, retries_left : Nat]]
    BY <1>2
  <2>5. acli \in [AsyncClients -> [pc : {"new", "send", "recv", "stopped"},
                                  n : Nat, replies : Seq(Bodies)]]
    <3>1. <<>> \in Seq(Bodies)
      OBVIOUS
    <3> QED
      BY <1>2, <3>1
  <2>6. \A w \in Workers : wrk[w].pc = "down"
    BY <1>2
  <2>7. \A c \in Clients : cli[c].pc = "idle"
    BY <1>2
  <2>8. \A a \in AsyncClients : acli[a].pc = "new" /\ acli[a].n = 0 /\ acli[a].replies = <<>>
    BY <1>2
  <2>9. Workers \subseteq Processes /\ Clients \subseteq Processes /\ AsyncClients \subseteq Processes
    BY ProcessFacts
  <2> QED
    BY <1>1, <2>1, <2>2, <2>3, <2>4, <2>5, <2>6, <2>7, <2>8, <2>9 DEF Rest
<1>4. \A i \in Ids : ~Connected(i)
  BY <1>1, ProcessFacts DEF Connected
<1>5. Hd \in Ups /\ \A i \in Ids : Hd[i] = <<>>
  BY <1>3, <1>4, HandsFacts
<1>6. up \in Ups /\ \A i \in Ids : up[i] = <<>>
  BY <1>1 DEF Ups
<1>7. /\ Sound(broker) /\ broker.waiting = <<>>
      /\ \A i \in Ids : broker.pipe[i] = <<>> /\ broker.service[i] = None
      /\ \A s \in Services : broker.requests[s] = <<>>
  BY <1>1, NewBroker DEF s_broker_new
<1> QED
  BY <1>3, <1>5, <1>6, <1>7

\* Nothing is in empty queues.
LEMMA EmptyNowhere ==
    ASSUME NEW F, \A p \in Places : F[p] = <<>>, NEW T
    PROVE  Nowhere(F, T)
BY HasShort DEF Nowhere

\* The invariant holds at first.
LEMMA MdpInit ==
    ASSUME Init
    PROVE  MdpInv
<1>1. /\ Rest /\ Sound(broker) /\ broker \in Brokers /\ Lists(broker)
      /\ \A i \in Ids : /\ up[i] = <<>> /\ broker.pipe[i] = <<>> /\ Hd[i] = <<>>
                        /\ broker.service[i] = None
      /\ \A s \in Services : broker.requests[s] = <<>>
      /\ broker.waiting = <<>> /\ up \in Ups /\ Hd \in Ups
  BY InitEmpty DEF Sound
<1>2. \A T : Nowhere(FlowNow, T)
  <2>1. IsFlow(FlowNow, up, broker, Hd)
    BY <1>1, FlowOfFacts DEF FlowNow
  <2>2. \A p \in Places : FlowNow[p] = <<>>
    BY <1>1, <2>1, PlaceCases DEF IsFlow
  <2> QED
    BY <2>2, EmptyNowhere
<1>3. Seen
  <2>1. Kinds(up, broker) /\ Linked(up, broker)
    <3>1. /\ <<>> \in Seq(FromWorker) /\ <<>> \in Seq(ToWorker)
          /\ <<>> \in Seq(FromClient) /\ <<>> \in Seq(ToClient)
      OBVIOUS
    <3>2. Kinds(up, broker)
      BY <1>1, <3>1, IdFacts DEF Kinds
    <3>3. Linked(up, broker)
      BY <1>1 DEF Linked
    <3> QED
      BY <3>2, <3>3
  <2>2. ASSUME NEW i \in WorkerIds PROVE Work(FlowNow, up, broker, i)
    <3>1. up[i] = <<>> /\ Nowhere(FlowNow, JobsOf(i))
      BY <1>1, <1>2, IdFacts
    <3> QED
      BY <3>1, NowhereOne DEF Work
  <2> QED
    BY <1>1, <2>1, <2>2 DEF Seen, View, FlowNow
<1>4. \A p \in Processes : sock[p] = 0
  BY DEF Init, NetInit
<1>5. Unmade /\ (\A c \in Clients : SyncAt(c)) /\ \A a \in AsyncClients : AsyncAt(a)
  BY <1>2, <1>4, ProcessFacts DEF Unmade, SyncAt, AsyncAt
<1>6. AsyncRepliesDistinct
  <2>1. \A a \in AsyncClients : acli[a].replies = <<>>
    BY DEF Init, AsyncInit
  <2> QED
    BY <2>1 DEF AsyncRepliesDistinct, IsInjective, ToSet
<1> QED
  BY <1>1, <1>3, <1>5, <1>6 DEF MdpInv, Base

\* The invariant from which everything below follows.
THEOREM MdpInvariant == Spec => []MdpInv
<1>1. Init => MdpInv
  BY MdpInit
<1>2. MdpInv /\ [Next]_vars => MdpInv'
  BY MdpNext
<1> QED
  BY <1>1, <1>2, PTL DEF Spec

-----------------------------------------------------------------------------
(* The properties *)

\* Where the flow F has something of T.
Found(F, T) ==
    UNION {{<<p, k>> : k \in {k \in 1..Len(F[p]) : F[p][k] \in T[p]}} : p \in Places}

\* Counting what is found.
LEMMA FoundFacts ==
    ASSUME NEW F, NEW T
    PROVE  /\ Nowhere(F, T) <=> Found(F, T) = {}
           /\ One(F, T) => Cardinality(Found(F, T)) <= 1
<1>1. \A z : z \in Found(F, T) <=>
               \E p \in Places : \E k \in 1..Len(F[p]) : F[p][k] \in T[p] /\ z = <<p, k>>
  BY DEF Found
<1>2. Nowhere(F, T) <=> Found(F, T) = {}
  <2>1. ASSUME Nowhere(F, T) PROVE Found(F, T) = {}
    BY <1>1, <2>1 DEF Nowhere, Has
  <2>2. ASSUME Found(F, T) = {}, NEW p \in Places, NEW k \in 1..Len(F[p]), F[p][k] \in T[p]
        PROVE  FALSE
    <3>1. <<p, k>> \in Found(F, T)
      BY <1>1, <2>2
    <3> QED
      BY <2>2, <3>1
  <2> QED
    BY <2>1, <2>2 DEF Nowhere, Has
<1>3. ASSUME One(F, T) PROVE Cardinality(Found(F, T)) <= 1
  <2>1. ASSUME NEW y \in Found(F, T), NEW z \in Found(F, T) PROVE y = z
    <3>1. PICK p \in Places : \E k \in 1..Len(F[p]) : F[p][k] \in T[p] /\ y = <<p, k>>
      BY <1>1
    <3>2. PICK k \in 1..Len(F[p]) : F[p][k] \in T[p] /\ y = <<p, k>>
      BY <3>1
    <3>3. PICK q \in Places : \E l \in 1..Len(F[q]) : F[q][l] \in T[q] /\ z = <<q, l>>
      BY <1>1
    <3>4. PICK l \in 1..Len(F[q]) : F[q][l] \in T[q] /\ z = <<q, l>>
      BY <3>3
    <3>5. Has(F[p], T[p]) /\ Has(F[q], T[q])
      BY <3>2, <3>4 DEF Has
    <3>6. p = q
      BY <1>3, <3>5 DEF One
    <3>7. k = l
      BY <1>3, <3>2, <3>4, <3>6 DEF One, Once
    <3> QED
      BY <3>2, <3>4, <3>6, <3>7
  <2>2. CASE Found(F, T) = {}
    BY <2>2, FS_EmptySet
  <2>3. CASE Found(F, T) # {}
    <3>1. PICK y : y \in Found(F, T)
      BY <2>3
    <3>2. Found(F, T) = {y}
      BY <2>1, <3>1
    <3>3. Cardinality({y}) = 1
      BY FS_Singleton
    <3> QED
      BY <3>2, <3>3
  <2> QED
    BY <2>2, <2>3
<1> QED
  BY <1>2, <1>3

\* The flow of the proofs is what Mdp counts in.
LEMMA FlowIn ==
    ASSUME Base
    PROVE  \A p \in Places : /\ FlowNow[p] = In(p) /\ DOMAIN In(p) = 1..Len(FlowNow[p])
                             /\ \A k \in 1..Len(FlowNow[p]) : FlowNow[p][k] \in Msgs
<1>1. up \in Ups /\ broker \in Brokers /\ Hd \in Ups
  BY DEF Base, Seen, View
<1>2. IsFlow(FlowNow, up, broker, Hd)
  BY <1>1, FlowOfFacts DEF FlowNow
<1>3. ASSUME NEW p \in Places PROVE FlowNow[p] = In(p)
  <2>1. ASSUME NEW i \in Ids, p = Up(i) PROVE FlowNow[p] = In(p)
    BY <1>2, <2>1 DEF IsFlow, In, Up
  <2>2. ASSUME NEW i \in Ids, p = Pipe(i) PROVE FlowNow[p] = In(p)
    BY <1>2, <2>2 DEF IsFlow, In, Pipe
  <2>3. ASSUME NEW i \in Ids, p = Busy(i) PROVE FlowNow[p] = In(p)
    BY <1>2, <2>3 DEF IsFlow, In, Busy, Hd
  <2>4. ASSUME NEW s \in Services, p = Queue(s) PROVE FlowNow[p] = In(p)
    BY <1>2, <2>4 DEF IsFlow, In, Queue
  <2> QED
    BY <2>1, <2>2, <2>3, <2>4, PlaceCases
<1>4. ASSUME NEW p \in Places
      PROVE  /\ DOMAIN FlowNow[p] = 1..Len(FlowNow[p])
             /\ \A k \in 1..Len(FlowNow[p]) : FlowNow[p][k] \in Msgs
  <2>1. FlowNow[p] \in Seq(Msgs)
    BY <1>2 DEF IsFlow, Flows
  <2> QED
    BY <2>1
<1> QED
  BY <1>3, <1>4

\* Jobs, in terms of the flow.
LEMMA JobsFound ==
    ASSUME Base, NEW i
    PROVE  Jobs(i) = Found(FlowNow, JobsOf(i))
<1>1. ASSUME NEW p \in Places
      PROVE  {k \in DOMAIN In(p) : IsJob(p, In(p)[k], i)}
               = {k \in 1..Len(FlowNow[p]) : FlowNow[p][k] \in JobsOf(i)[p]}
  <2>1. /\ FlowNow[p] = In(p) /\ DOMAIN In(p) = 1..Len(FlowNow[p])
        /\ \A k \in 1..Len(FlowNow[p]) : FlowNow[p][k] \in Msgs
    BY FlowIn
  <2>2. \A m \in Msgs : m \in JobsOf(i)[p] <=> IsJob(p, m, i)
    BY DEF JobsOf
  <2> QED
    BY <2>1, <2>2
<1> QED
  BY <1>1 DEF Jobs, Found

\* Copies, in terms of the flow.
LEMMA CopiesFound ==
    ASSUME Base, NEW i
    PROVE  Copies(i) = Found(FlowNow, AllOf(i))
<1>1. ASSUME NEW p \in Places
      PROVE  {k \in DOMAIN In(p) : IsCopy(p, In(p)[k], i)}
               = {k \in 1..Len(FlowNow[p]) : FlowNow[p][k] \in AllOf(i)[p]}
  <2>1. /\ FlowNow[p] = In(p) /\ DOMAIN In(p) = 1..Len(FlowNow[p])
        /\ \A k \in 1..Len(FlowNow[p]) : FlowNow[p][k] \in Msgs
    BY FlowIn
  <2>2. \A m \in Msgs : m \in AllOf(i)[p] <=> IsCopy(p, m, i)
    BY AllIs
  <2> QED
    BY <2>1, <2>2
<1> QED
  BY <1>1 DEF Copies, Found

\* Messages, tables and processes keep the form that the functions of the
\* broker, the workers and the clients rely on, only workers get into the
\* broker's lists, and a worker's liveness never passes zero (mdbroker.c,
\* mdwrkapi.c, mdcliapi.c).
THEOREM TypeCorrect == Spec => []TypeOK
<1>1. MdpInv => TypeOK
  BY BaseType DEF MdpInv
<1> QED
  BY <1>1, MdpInvariant, PTL

\* broker->waiting, service->waiting and service->workers agree after any
\* sequence of registrations, replies, expiries, disconnects and crashes
\* (s_worker_waiting, s_worker_delete, s_broker_purge, s_service_dispatch).
THEOREM TheListsAgree == Spec => []ListsAgree
<1>1. MdpInv => ListsAgree
  BY DEF MdpInv, Base, Sound, Lists, ListsAgree
<1> QED
  BY <1>1, MdpInvariant, PTL

\* Whenever the broker waits for the next message, no request is queued for a
\* service that has a waiting worker (s_service_dispatch).
THEOREM NothingIdles == Spec => []NoIdleBacklog
<1>1. MdpInv => NoIdleBacklog
  BY DEF MdpInv, Base, Sound, Drained, NoIdleBacklog
<1> QED
  BY <1>1, MdpInvariant, PTL

\* A worker has one request at most, in its pipe, in its hands or on its way
\* back, and the broker does not take it for waiting meanwhile.
THEOREM OneRequest == Spec => []OneRequestPerWorker
<1>1. ASSUME MdpInv, NEW w \in Workers, sock[w] # 0
      PROVE  /\ Cardinality(Jobs(Cur(w))) <= 1
             /\ Jobs(Cur(w)) # {} => ~Contains(broker.waiting, Cur(w))
  <2>1. Base /\ Rest /\ Seen /\ broker \in Brokers /\ w \in Processes
    BY <1>1, ProcessFacts, NowFlow DEF MdpInv, Base
  <2>2. PICK i : i = Cur(w)
    OBVIOUS
  <2>3. i \in WorkerIds
    BY <1>1, <2>1, <2>2, CurFacts
  <2>4. Work(FlowNow, up, broker, i)
    BY <2>1, <2>3 DEF Seen, View, FlowNow
  <2>5. Jobs(i) = Found(FlowNow, JobsOf(i))
    BY <2>1, JobsFound
  <2>6. Cardinality(Jobs(i)) <= 1
    BY <2>4, <2>5, FoundFacts DEF Work
  <2>7. Jobs(i) # {} => i \notin ToSet(broker.waiting)
    BY <2>4, <2>5, FoundFacts DEF Work
  <2>8. Contains(broker.waiting, i) => i \in ToSet(broker.waiting)
    BY <2>1, BrokerFields DEF Contains, ToSet
  <2> QED
    BY <2>2, <2>6, <2>7, <2>8
<1>2. MdpInv => OneRequestPerWorker
  BY <1>1 DEF OneRequestPerWorker
<1> QED
  BY <1>2, MdpInvariant, PTL

\* What mdcli_send reads answers the request of this very call: its assertions
\* on the header and the service hold, whatever was retried before.
THEOREM RepliesMatchRequests == Spec => []RepliesMatch
<1>1. ASSUME MdpInv, NEW c \in Clients, cli[c].pc = "poll",
             NEW m \in ToSet(broker.pipe[Cur(c)])
      PROVE  /\ m.kind = "ANSWER" /\ m.service = cli[c].service
             /\ cli[c].service \notin MmiNames => m.body = cli[c].body
  <2>1. Base /\ Rest /\ Seen /\ c \in Processes /\ c \notin Workers
    BY <1>1, ProcessFacts DEF MdpInv, Base
  <2>2. sock[c] # 0
    BY <1>1, <2>1 DEF Rest
  <2>3. PICK id, sv, S, X : /\ id = Cur(c) /\ sv = broker.service
                            /\ S = {cli[c].service} /\ X = {cli[c].body}
    OBVIOUS
  <2>4. id \in ClientIds /\ id \in Ids /\ Pipe(id) \in Places
    BY <2>1, <2>2, <2>3, CurFacts, PlaceCases
  <2>5. broker.pipe[id] \in Seq(ToClient) /\ FlowNow[Pipe(id)] = broker.pipe[id]
    <3>1. up \in Ups /\ broker \in Brokers /\ Hd \in Ups /\ Kinds(up, broker)
      BY <2>1 DEF Seen, View
    <3> QED
      BY <2>4, <3>1, FlowOfFacts DEF Kinds, FlowNow, IsFlow
  <2>6. PICK k \in 1..Len(broker.pipe[id]) : m = broker.pipe[id][k]
    BY <1>1, <2>3, <2>5 DEF ToSet
  <2>7. m \in ToClient /\ m \in Msgs /\ m.kind = "ANSWER"
    BY <2>5, <2>6, MessageKinds
  <2>8. Nowhere(FlowNow, Misfits(sv, id, S, X))
    BY <1>1, <2>2, <2>3 DEF MdpInv, SyncAt
  <2>9. m \notin Misfits(sv, id, S, X)[Pipe(id)]
    BY <2>4, <2>5, <2>6, <2>8 DEF Nowhere, Has
  <2>10. m \in Misfits(sv, id, S, X)[Pipe(id)] <=>
              \/ /\ m.kind = "ANSWER" /\ id = id
                 /\ ~(m.service \in S /\ (m.service \in MmiNames \/ m.body \in X))
              \/ m.kind = "REQUEST" /\ m.client = id /\ ~(sv[id] \in S \cup {None} /\ m.body \in X)
    <3>1. m \in Msgs /\ id \in Ids
      BY <2>4, <2>7
    <3> QED
      BY <3>1, MisfitPipe
  <2>11. m.service \in S /\ (m.service \in MmiNames \/ m.body \in X)
    BY <2>7, <2>9, <2>10
  <2> QED
    BY <2>3, <2>7, <2>11
<1>2. MdpInv => RepliesMatch
  BY <1>1 DEF RepliesMatch
<1> QED
  BY <1>2, MdpInvariant, PTL

\* From mdcli_send to its reply a request is in one place at a time: the broker
\* and the workers never duplicate it, and lose it only when something failed
\* or a worker gave up its connection.
THEOREM RequestsConserved == Spec => []RequestConserved
<1>1. ASSUME MdpInv, NEW c \in Clients, cli[c].pc = "poll"
      PROVE  /\ Cardinality(Copies(Cur(c))) <= 1
             /\ crashes = 0 /\ restarts = 0 /\ (\A w \in Workers : made[w] <= 1)
                  => Copies(Cur(c)) # {}
  <2>1. Base /\ sock[c] # 0 /\ SyncAt(c)
    BY <1>1 DEF MdpInv, Base, Rest
  <2>2. PICK i : i = Cur(c)
    OBVIOUS
  <2>3. One(FlowNow, AllOf(i)) /\ (Quiet => ~Nowhere(FlowNow, AllOf(i)))
    BY <1>1, <2>1, <2>2 DEF SyncAt
  <2>4. Copies(i) = Found(FlowNow, AllOf(i))
    BY <2>1, CopiesFound
  <2>5. Cardinality(Copies(i)) <= 1 /\ (Quiet => Copies(i) # {})
    BY <2>3, <2>4, FoundFacts
  <2> QED
    BY <2>2, <2>5 DEF Quiet
<1>2. MdpInv => RequestConserved
  BY <1>1 DEF RequestConserved
<1> QED
  BY <1>2, MdpInvariant, PTL

\* An asynchronous client collects each reply once and only to its own requests
\* (mdcliapi2.c), in whatever order the workers finish.
THEOREM RepliesOnce == Spec => []AsyncRepliesDistinct
<1>1. MdpInv => AsyncRepliesDistinct
  BY DEF MdpInv
<1> QED
  BY <1>1, MdpInvariant, PTL
=============================================================================
