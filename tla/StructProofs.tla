---------------------------- MODULE StructProofs ----------------------------
(***************************************************************************)
(* TLAPS proofs about the structures of Tables.                            *)
(*                                                                         *)
(* list.c, stack.c and queue.c: the pointer-level list keeps its shape,    *)
(* leaks nothing and implements ListSpec, for every set of cells and data. *)
(*                                                                         *)
(* chtbl.c: the chained hash table implements the map of CHTblSpec, for    *)
(* every hash function and number of buckets.  The scans look in one       *)
(* bucket only, so that the invariant has to say that a key can be in no   *)
(* other (Placed).                                                         *)
(***************************************************************************)
EXTENDS Tables, SequenceTheorems, TLAPS

Items == [i \in 1..Len(cells) |-> data[cells[i]]]

USE NullAssumption

-----------------------------------------------------------------------------
(* The two sequence operations *)

\* An array of n values is a sequence.
LEMMA ArrayIsSeq ==
    ASSUME NEW S, NEW n \in Nat, NEW f \in [1..n -> S]
    PROVE  f \in Seq(S) /\ Len(f) = n
  OBVIOUS

\* Putting an item after place p leaves a sequence one longer, in which the
\* items behind p have moved down by one.
LEMMA InsertAfterIsSeq ==
    ASSUME NEW S, NEW s \in Seq(S), NEW p \in 0..Len(s), NEW e \in S
    PROVE  /\ LS!InsertAfter(s, p, e) \in Seq(S)
           /\ Len(LS!InsertAfter(s, p, e)) = Len(s) + 1
           /\ \A i \in 1..(Len(s) + 1) :
                 LS!InsertAfter(s, p, e)[i] =
                    IF i <= p THEN s[i] ELSE IF i = p + 1 THEN e ELSE s[i - 1]
  <1> DEFINE f == [i \in 1..(Len(s) + 1) |->
                      IF i <= p THEN s[i] ELSE IF i = p + 1 THEN e ELSE s[i - 1]]
  <1>1. Len(s) \in Nat
    BY LenProperties
  <1>2. ASSUME NEW i \in 1..(Len(s) + 1)
        PROVE  (IF i <= p THEN s[i] ELSE IF i = p + 1 THEN e ELSE s[i - 1]) \in S
    <2>1. CASE i <= p
      BY <1>1, <2>1, ElementOfSeq
    <2>2. CASE i = p + 1
      BY <1>1, <2>2
    <2>3. CASE i > p + 1
      <3>1. i - 1 \in 1..Len(s)
        BY <1>1, <2>3
      <3> QED  BY <1>1, <2>3, <3>1, ElementOfSeq
    <2> QED  BY <1>1, <2>1, <2>2, <2>3
  <1>3. f \in [1..(Len(s) + 1) -> S]
    BY <1>2
  <1>4. Len(s) + 1 \in Nat
    BY <1>1
  <1>5. f \in Seq(S) /\ Len(f) = Len(s) + 1
    BY <1>3, <1>4, IsASeq, LenProperties, SMT
  <1> QED  BY <1>5 DEF LS!InsertAfter

\* Taking out the item after place p leaves a sequence one shorter, in which
\* the items behind p have moved up by one.
LEMMA RemoveAfterIsSeq ==
    ASSUME NEW S, NEW s \in Seq(S), NEW p \in 0..Len(s), p < Len(s)
    PROVE  /\ LS!RemoveAfter(s, p) \in Seq(S)
           /\ Len(LS!RemoveAfter(s, p)) = Len(s) - 1
           /\ \A i \in 1..(Len(s) - 1) :
                 LS!RemoveAfter(s, p)[i] = IF i <= p THEN s[i] ELSE s[i + 1]
  <1> DEFINE f == [i \in 1..(Len(s) - 1) |-> IF i <= p THEN s[i] ELSE s[i + 1]]
  <1>1. Len(s) \in Nat
    BY LenProperties
  <1>2. ASSUME NEW i \in 1..(Len(s) - 1)
        PROVE  (IF i <= p THEN s[i] ELSE s[i + 1]) \in S
    <2>1. i \in 1..Len(s) /\ i + 1 \in 1..Len(s)
      BY <1>1
    <2> QED  BY <2>1, ElementOfSeq
  <1>3. f \in [1..(Len(s) - 1) -> S]
    BY <1>2
  <1>4. Len(s) - 1 \in Nat
    BY <1>1
  <1>5. f \in Seq(S) /\ Len(f) = Len(s) - 1
    BY <1>3, <1>4, IsASeq, LenProperties, SMT
  <1> QED  BY <1>5 DEF LS!RemoveAfter

-----------------------------------------------------------------------------
(* Elements and their places *)

LEMMA PlaceOf ==
    ASSUME IInv, NEW element \in Elements \cup {NULL}
    PROVE  /\ Place(element) \in 0..Len(cells)
           /\ element = NULL <=> Place(element) = 0
           /\ element # NULL => /\ Place(element) \in 1..Len(cells)
                                /\ cells[Place(element)] = element
                                /\ element \in Cells
  <1>1. Len(cells) \in Nat /\ \A i \in 1..Len(cells) : cells[i] \in Cells
    BY LenProperties, ElementOfSeq DEF IInv, TypeOK
  <1>2. CASE element = NULL
    BY <1>1, <1>2 DEF Place
  <1>3. CASE element # NULL
    <2>1. PICK i \in 1..Len(cells) : cells[i] = element
      BY <1>3 DEF Elements
    <2>2. Place(element) \in 1..Len(cells) /\ cells[Place(element)] = element
      BY <1>3, <2>1 DEF Place
    <2> QED  BY <1>1, <1>3, <2>2
  <1> QED  BY <1>2, <1>3

\* The tail is the last element, so that queue_enqueue appends.
LEMMA PlaceOfTail ==
    ASSUME IInv
    PROVE  tail \in Elements \cup {NULL} /\ Place(tail) = Len(cells)
  <1>1. cells \in Seq(Cells) /\ Len(cells) \in Nat
    BY LenProperties DEF IInv, TypeOK
  <1>2. CASE cells = <<>>
    BY <1>1, <1>2 DEF IInv, ListShape, Place
  <1>3. CASE cells # <<>>
    <2>1. Len(cells) \in 1..Len(cells) /\ tail = cells[Len(cells)]
      <3>1. Len(cells) \in 1..Len(cells)
        BY <1>1, <1>3
      <3>2. tail = cells[Len(cells)]
        BY <1>3 DEF IInv, ListShape
      <3> QED  BY <3>1, <3>2
    <2>2. tail \in Elements
      BY <2>1 DEF Elements
    <2>3. tail \in Cells /\ tail # NULL
      BY <2>1, ElementOfSeq DEF IInv, TypeOK
    <2>4. Place(tail) \in 1..Len(cells) /\ cells[Place(tail)] = tail
      BY <2>2, <2>3, PlaceOf
    <2>5. Place(tail) = Len(cells)
      BY <2>1, <2>4 DEF IInv, ListShape
    <2> QED  BY <2>2, <2>5
  <1> QED  BY <1>2, <1>3

-----------------------------------------------------------------------------
(* What an insertion and a removal do to the chain *)

\* The cells of the list are cells, never NULL.
LEMMA LenFacts ==
    ASSUME IInv
    PROVE  /\ Len(cells) \in Nat
           /\ cells = <<>> <=> Len(cells) = 0
           /\ \A i \in 1..Len(cells) : cells[i] \in Cells /\ cells[i] # NULL
  BY LenProperties, EmptySeq, ElementOfSeq DEF IInv, TypeOK

\* list_ins_next, whatever element it is given, keeps the chain, the two end
\* pointers and the count consistent, and inserts the datum where it should.
LEMMA InsertKeepsShape ==
    ASSUME IInv, NEW element \in Elements \cup {NULL}, NEW d \in Data, NEW op,
           list_ins_next(op, element, d)
    PROVE  /\ TypeOK' /\ ListShape' /\ NoLeak'
           /\ Items' = LS!InsertAfter(Items, Place(element), d)
  <1> DEFINE p == Place(element)
             n == Len(cells)
  <1>1. PICK c \in Cells \ allocated :
          /\ allocated' = allocated \cup {c}
          /\ data' = [data EXCEPT ![c] = d]
          /\ IF element = NULL
             THEN /\ tail' = IF size = 0 THEN c ELSE tail
                  /\ next' = [next EXCEPT ![c] = head]
                  /\ head' = c
             ELSE /\ tail' = IF next[element] = NULL THEN c ELSE tail
                  /\ next' = [next EXCEPT ![c] = next[element], ![element] = c]
                  /\ head' = head
          /\ cells' = LS!InsertAfter(cells, p, c)
          /\ size' = size + 1
    BY DEF list_ins_next
  <1>2. /\ n \in Nat
        /\ cells = <<>> <=> n = 0
        /\ \A i \in 1..n : cells[i] \in Cells /\ cells[i] # NULL
    BY LenFacts
  <1>3. /\ p \in 0..n
        /\ element = NULL <=> p = 0
        /\ element # NULL => p \in 1..n /\ cells[p] = element /\ element \in Cells
    BY PlaceOf
  <1>4. c \in Cells /\ c # NULL /\ \A i \in 1..n : cells[i] # c
    BY <1>1 DEF IInv, NoLeak, Elements
  <1>5. /\ cells' \in Seq(Cells)
        /\ Len(cells') = n + 1
        /\ \A i \in 1..(n + 1) :
              cells'[i] = IF i <= p THEN cells[i]
                          ELSE IF i = p + 1 THEN c ELSE cells[i - 1]
    <2>1. cells \in Seq(Cells)
      BY DEF IInv, TypeOK
    <2>2. /\ LS!InsertAfter(cells, p, c) \in Seq(Cells)
          /\ Len(LS!InsertAfter(cells, p, c)) = n + 1
          /\ \A i \in 1..(n + 1) :
                LS!InsertAfter(cells, p, c)[i] =
                   IF i <= p THEN cells[i] ELSE IF i = p + 1 THEN c ELSE cells[i - 1]
      <3> HIDE DEF p
      <3> QED  BY <1>3, <1>4, <2>1, InsertAfterIsSeq
    <2>3. cells' = LS!InsertAfter(cells, p, c)
      BY <1>1
    <2> HIDE DEF p, n
    <2> QED  BY <2>2, <2>3
  <1> HIDE DEF p, n
  <1>6. cells' # <<>>
    BY <1>2, <1>5
  <1>7. /\ size = n
        /\ head = IF n = 0 THEN NULL ELSE cells[1]
        /\ tail = IF n = 0 THEN NULL ELSE cells[n]
        /\ \A i \in 1..n : next[cells[i]] = IF i = n THEN NULL ELSE cells[i + 1]
        /\ \A i, j \in 1..n : cells[i] = cells[j] => i = j
    BY <1>2 DEF IInv, ListShape, n
  <1>8. /\ next \in [Cells -> Cells \cup {NULL}]
        /\ data \in [Cells -> Data \cup {NoData}]
        /\ head \in Cells \cup {NULL} /\ tail \in Cells \cup {NULL}
        /\ allocated \subseteq Cells
    BY DEF IInv, TypeOK
  <1>9. /\ next' \in [Cells -> Cells \cup {NULL}]
        /\ \A i \in 1..n : i # p => next'[cells[i]] = next[cells[i]]
        /\ next'[c] = IF p = 0 THEN head ELSE next[element]
        /\ p # 0 => next'[cells[p]] = c
    <2>1. CASE element = NULL
      <3>1. next' = [next EXCEPT ![c] = head]
        BY <1>1, <2>1
      <3> QED  BY <1>2, <1>3, <1>4, <1>8, <2>1, <3>1
    <2>2. CASE element # NULL
      <3>1. next' = [next EXCEPT ![c] = next[element], ![element] = c]
        BY <1>1, <2>2
      <3>2. element # c
        BY <1>3, <1>4, <2>2
      <3>3. next' \in [Cells -> Cells \cup {NULL}]
        BY <1>3, <1>4, <1>8, <2>2, <3>1
      <3>4. ASSUME NEW i \in 1..n, i # p PROVE next'[cells[i]] = next[cells[i]]
        <4>1. cells[i] # element /\ cells[i] # c /\ cells[i] \in Cells
          BY <1>2, <1>3, <1>4, <1>7, <2>2, <3>4
        <4> QED  BY <1>8, <3>1, <4>1
      <3>5. element \in Cells /\ element = cells[p] /\ p # 0
        BY <1>3, <2>2
      <3>6. next'[c] = next[element] /\ next'[element] = c
        BY <1>4, <1>8, <3>1, <3>2, <3>5
      <3> QED  BY <3>3, <3>4, <3>5, <3>6
    <2> QED  BY <2>1, <2>2
  <1>10. size' = Len(cells')
    BY <1>1, <1>5, <1>7
  <1>11. head' = cells'[1]
    <2>1. CASE p = 0
      BY <1>1, <1>2, <1>3, <1>5, <2>1
    <2>2. CASE p # 0
      BY <1>1, <1>2, <1>3, <1>5, <1>7, <2>2
    <2> QED  BY <2>1, <2>2
  <1>12. tail' = cells'[n + 1]
    <2>1. CASE p = 0
      <3>1. tail' = IF size = 0 THEN c ELSE tail
        BY <1>1, <1>3, <2>1
      <3>2. CASE n = 0
        BY <1>5, <1>7, <2>1, <3>1, <3>2
      <3>3. CASE n # 0
        BY <1>2, <1>5, <1>7, <2>1, <3>1, <3>3
      <3> QED  BY <3>2, <3>3
    <2>2. CASE p # 0
      <3>1. tail' = IF next[cells[p]] = NULL THEN c ELSE tail
        BY <1>1, <1>3, <2>2
      <3>2. CASE p = n
        <4>1. tail' = c
          BY <1>3, <1>7, <2>2, <3>1, <3>2
        <4> QED  BY <1>2, <1>5, <3>2, <4>1
      <3>3. CASE p # n
        <4>1. p \in 1..n /\ p + 1 \in 1..n
          BY <1>2, <1>3, <2>2, <3>3
        <4>2. next[cells[p]] = cells[p + 1] /\ cells[p + 1] # NULL
          BY <1>2, <1>7, <3>3, <4>1
        <4>3. tail' = cells[n]
          BY <1>2, <1>7, <3>1, <4>1, <4>2
        <4> QED  BY <1>2, <1>3, <1>5, <3>3, <4>1, <4>3
      <3> QED  BY <3>2, <3>3
    <2> QED  BY <2>1, <2>2
  <1>13. ASSUME NEW i \in 1..(n + 1)
         PROVE  next'[cells'[i]] = IF i = n + 1 THEN NULL ELSE cells'[i + 1]
    <2>1. CASE i < p
      <3>1. i \in 1..n /\ i # p /\ i # n /\ i + 1 \in 1..(n + 1) /\ i + 1 <= p
        BY <1>2, <1>3, <2>1
      <3>2. cells'[i] = cells[i] /\ cells'[i + 1] = cells[i + 1]
        <4>1. i <= p /\ i \in 1..(n + 1)
          BY <1>2, <1>3, <2>1
        <4> QED  BY <1>5, <3>1, <4>1
      <3>3. next'[cells[i]] = cells[i + 1]
        BY <1>7, <1>9, <3>1
      <3> QED  BY <1>2, <3>1, <3>2, <3>3
    <2>2. CASE i = p
      <3>1. p # 0 /\ p + 1 \in 1..(n + 1) /\ i # n + 1
        BY <1>2, <1>3, <2>2
      <3>2. cells'[i] = cells[p] /\ cells'[i + 1] = c
        BY <1>2, <1>3, <1>5, <2>2, <3>1
      <3> QED  BY <1>9, <3>1, <3>2
    <2>3. CASE i = p + 1
      <3>1. cells'[i] = c
        BY <1>2, <1>3, <1>5, <2>3
      <3>2. CASE p = 0
        <4>1. next'[c] = head
          BY <1>9, <3>2
        <4>2. CASE n = 0
          BY <1>7, <2>3, <3>1, <3>2, <4>1, <4>2
        <4>3. CASE n # 0
          <5>1. i + 1 \in 1..(n + 1) /\ i + 1 = 2 /\ i # n + 1
            BY <1>2, <2>3, <3>2, <4>3
          <5>2. cells'[2] = cells[1]
            BY <1>5, <3>2, <5>1
          <5> QED  BY <1>7, <3>1, <4>1, <4>3, <5>1, <5>2
        <4> QED  BY <4>2, <4>3
      <3>3. CASE p # 0
        <4>1. next'[c] = next[cells[p]] /\ p \in 1..n
          BY <1>3, <1>9, <3>3
        <4>2. CASE p = n
          BY <1>7, <2>3, <3>1, <4>1, <4>2
        <4>3. CASE p # n
          <5>1. i + 1 \in 1..(n + 1) /\ i # n + 1 /\ ~(i + 1 <= p) /\ i + 1 # p + 1
            BY <1>2, <2>3, <4>1, <4>3
          <5>2. cells'[i + 1] = cells[p + 1]
            BY <1>2, <1>3, <1>5, <2>3, <5>1
          <5> QED  BY <1>7, <3>1, <4>1, <4>3, <5>1, <5>2
        <4> QED  BY <4>2, <4>3
      <3> QED  BY <3>2, <3>3
    <2>4. CASE i > p + 1
      <3>1. i - 1 \in 1..n /\ i - 1 # p /\ ~(i <= p) /\ i # p + 1
        BY <1>2, <1>3, <2>4
      <3>2. cells'[i] = cells[i - 1]
        BY <1>5, <3>1
      <3>3. next'[cells[i - 1]] = IF i - 1 = n THEN NULL ELSE cells[(i - 1) + 1]
        BY <1>7, <1>9, <3>1
      <3>4. CASE i = n + 1
        BY <1>2, <3>2, <3>3, <3>4
      <3>5. CASE i # n + 1
        <4>1. i + 1 \in 1..(n + 1) /\ ~(i + 1 <= p) /\ i + 1 # p + 1 /\ i - 1 # n
              /\ (i - 1) + 1 = i /\ (i + 1) - 1 = i
          BY <1>2, <1>3, <2>4, <3>5
        <4>2. cells'[i + 1] = cells[i]
          BY <1>5, <4>1
        <4> QED  BY <3>2, <3>3, <3>5, <4>1, <4>2
      <3> QED  BY <3>4, <3>5
    <2> QED  BY <1>2, <1>3, <2>1, <2>2, <2>3, <2>4
  <1>14. ASSUME NEW i \in 1..(n + 1), NEW j \in 1..(n + 1), cells'[i] = cells'[j]
         PROVE  i = j
    <2> DEFINE From(k) == IF k <= p THEN k ELSE k - 1
    <2>2. \A k \in 1..(n + 1) : k # p + 1 => From(k) \in 1..n /\ cells'[k] = cells[From(k)]
      <3> TAKE k \in 1..(n + 1)
      <3> HAVE k # p + 1
      <3>1. CASE k <= p
        BY <1>2, <1>3, <1>5, <3>1
      <3>2. CASE ~(k <= p)
        BY <1>2, <1>3, <1>5, <3>2
      <3> QED  BY <3>1, <3>2
    <2> HIDE DEF From
    <2>3. i = p + 1 <=> j = p + 1
      <3>1. \A k \in 1..(n + 1) : k = p + 1 <=> cells'[k] = c
        <4> TAKE k \in 1..(n + 1)
        <4>1. k = p + 1 => cells'[k] = c
          BY <1>2, <1>3, <1>5
        <4>2. k # p + 1 => cells'[k] # c
          BY <1>4, <2>2
        <4> QED  BY <4>1, <4>2
      <3> QED  BY <1>14, <3>1
    <2>4. i # p + 1 => From(i) = From(j)
      BY <1>7, <1>14, <2>2, <2>3
    <2>5. i # p + 1 => i = j
      BY <1>2, <1>3, <2>3, <2>4 DEF From
    <2> QED  BY <2>3, <2>5
  <1>15. NoLeak'
    <2>1. \A x : x \in Elements' <=> \E i \in 1..(n + 1) : cells'[i] = x
      BY <1>5 DEF Elements
    <2>2. ASSUME NEW x \in Elements' PROVE x \in Elements \cup {c}
      <3>1. PICK i \in 1..(n + 1) : cells'[i] = x
        BY <2>1, <2>2
      <3>2. CASE i <= p
        BY <1>2, <1>3, <1>5, <3>1, <3>2 DEF Elements, n
      <3>3. CASE i = p + 1
        BY <1>2, <1>3, <1>5, <3>1, <3>3
      <3>4. CASE i > p + 1
        <4>1. i - 1 \in 1..n /\ x = cells[i - 1]
          BY <1>2, <1>3, <1>5, <3>1, <3>4
        <4> QED  BY <4>1 DEF Elements, n
      <3> QED  BY <1>2, <1>3, <3>2, <3>3, <3>4
    <2>3. c \in Elements'
      <3>1. p + 1 \in 1..(n + 1) /\ cells'[p + 1] = c
        BY <1>2, <1>3, <1>5
      <3> QED  BY <2>1, <3>1
    <2>4. ASSUME NEW x \in Elements PROVE x \in Elements'
      <3>1. PICK i \in 1..n : cells[i] = x
        BY DEF Elements, n
      <3>2. CASE i <= p
        <4>1. i \in 1..(n + 1) /\ cells'[i] = x
          BY <1>2, <1>5, <3>1, <3>2
        <4> QED  BY <2>1, <4>1
      <3>3. CASE i > p
        <4>1. i + 1 \in 1..(n + 1) /\ ~(i + 1 <= p) /\ i + 1 # p + 1 /\ (i + 1) - 1 = i
          BY <1>2, <1>3, <3>3
        <4>2. cells'[i + 1] = x
          BY <1>5, <3>1, <4>1
        <4> QED  BY <2>1, <4>1, <4>2
      <3> QED  BY <1>2, <1>3, <3>2, <3>3
    <2>5. Elements' = Elements \cup {c}
      BY <2>2, <2>3, <2>4
    <2> QED  BY <1>1, <2>5 DEF NoLeak, IInv
  <1>16. data' \in [Cells -> Data \cup {NoData}] /\ data'[c] = d
         /\ \A i \in 1..n : data'[cells[i]] = data[cells[i]]
    BY <1>1, <1>2, <1>4, <1>8
  <1>17. TypeOK'
    <2>1. size' \in Nat
      BY <1>1, <1>2, <1>7
    <2>2. head' \in Cells \cup {NULL} /\ tail' \in Cells \cup {NULL}
      BY <1>2, <1>5, <1>11, <1>12, ElementOfSeq
    <2>3. allocated' \in SUBSET Cells
      BY <1>1, <1>8
    <2>4. destroy' \in BOOLEAN /\ destroying' \in BOOLEAN
          /\ destroyed' \in Seq(Data \cup {NoData})
      BY DEF list_ins_next, IInv, TypeOK
    <2> QED  BY <1>5, <1>9, <1>16, <2>1, <2>2, <2>3, <2>4 DEF TypeOK
  <1>18. ListShape'
    BY <1>2, <1>5, <1>6, <1>10, <1>11, <1>12, <1>13, <1>14 DEF ListShape
  <1>19. Items' = LS!InsertAfter(Items, p, d)
    <2>1. Items \in Seq(Data \cup {NoData}) /\ Len(Items) = n
          /\ \A i \in 1..n : Items[i] = data[cells[i]]
      <3>1. Items \in [1..n -> Data \cup {NoData}]
        BY <1>2, <1>8 DEF Items, n
      <3>2. n \in Nat /\ \A i \in 1..n : Items[i] = data[cells[i]]
        BY <1>2 DEF Items, n
      <3> HIDE DEF Items, n
      <3> QED  BY <3>1, <3>2, ArrayIsSeq
    <2>2. LS!InsertAfter(Items, p, d) =
            [i \in 1..(n + 1) |-> IF i <= p THEN Items[i]
                                  ELSE IF i = p + 1 THEN d ELSE Items[i - 1]]
      BY <2>1 DEF LS!InsertAfter
    <2>3. Items' = [i \in 1..(n + 1) |-> data'[cells'[i]]]
      BY <1>5 DEF Items
    <2>4. ASSUME NEW i \in 1..(n + 1)
          PROVE  data'[cells'[i]] = IF i <= p THEN Items[i]
                                    ELSE IF i = p + 1 THEN d ELSE Items[i - 1]
      <3>1. CASE i <= p
        <4>1. i \in 1..n /\ cells'[i] = cells[i]
          BY <1>2, <1>3, <1>5, <3>1
        <4> QED  BY <1>2, <1>16, <2>1, <3>1, <4>1
      <3>2. CASE i = p + 1
        BY <1>2, <1>3, <1>5, <1>16, <3>2
      <3>3. CASE i > p + 1
        <4>1. i - 1 \in 1..n /\ cells'[i] = cells[i - 1] /\ ~(i <= p) /\ i # p + 1
          BY <1>2, <1>3, <1>5, <3>3
        <4> QED  BY <1>16, <2>1, <4>1
      <3> QED  BY <1>2, <1>3, <3>1, <3>2, <3>3
    <2> QED  BY <2>2, <2>3, <2>4
  <1> QED  BY <1>15, <1>17, <1>18, <1>19 DEF p

\* element is in the list and something follows it (or it is NULL and the
\* list is not empty): what list_rem_next and list_destroy have tested.
Removable(element) ==
    /\ element \in Elements \cup {NULL}
    /\ size # 0
    /\ element # NULL => next[element] # NULL

\* So does the unlinking that list_rem_next and list_destroy share, and the
\* item it takes out is the one behind the element it is given.
LEMMA RemoveKeepsShape ==
    ASSUME IInv, NEW element, Removable(element),
           Unlink(element, Old(element)),
           destroy' \in BOOLEAN, destroying' \in BOOLEAN,
           destroyed' \in Seq(Data \cup {NoData})
    PROVE  /\ TypeOK' /\ ListShape' /\ NoLeak'
           /\ Place(element) < Len(cells)
           /\ Old(element) = cells[Place(element) + 1]
           /\ Items' = LS!RemoveAfter(Items, Place(element))
  <1> DEFINE p == Place(element)
             n == Len(cells)
             old == Old(element)
  <1>1. /\ IF element = NULL
           THEN /\ head' = next[head]
                /\ tail' = IF size = 1 THEN NULL ELSE tail
                /\ next' = next
           ELSE /\ next' = [next EXCEPT ![element] = next[old]]
                /\ tail' = IF next[old] = NULL THEN element ELSE tail
                /\ head' = head
        /\ allocated' = allocated \ {old}
        /\ size' = size - 1
        /\ cells' = LS!RemoveAfter(cells, p)
        /\ data' = data
    BY DEF Unlink
  <1>2. /\ n \in Nat
        /\ cells = <<>> <=> n = 0
        /\ \A i \in 1..n : cells[i] \in Cells /\ cells[i] # NULL
    BY LenFacts
  <1>3. /\ p \in 0..n
        /\ element = NULL <=> p = 0
        /\ element # NULL => p \in 1..n /\ cells[p] = element /\ element \in Cells
    BY PlaceOf DEF Removable
  <1>4. /\ size = n
        /\ head = IF n = 0 THEN NULL ELSE cells[1]
        /\ tail = IF n = 0 THEN NULL ELSE cells[n]
        /\ \A i \in 1..n : next[cells[i]] = IF i = n THEN NULL ELSE cells[i + 1]
        /\ \A i, j \in 1..n : cells[i] = cells[j] => i = j
    BY <1>2 DEF IInv, ListShape
  <1>5. /\ next \in [Cells -> Cells \cup {NULL}]
        /\ data \in [Cells -> Data \cup {NoData}]
        /\ allocated \subseteq Cells
    BY DEF IInv, TypeOK
  <1>6. n # 0 /\ p < n /\ p + 1 \in 1..n /\ old = cells[p + 1]
    <2>1. n # 0
      BY <1>4 DEF Removable
    <2>2. CASE p = 0
      <3>1. cells \in Seq(Cells) /\ n > 0
        BY <1>2, <2>1 DEF IInv, TypeOK
      <3> QED  BY <1>2, <1>3, <1>4, <2>2, <3>1 DEF Old
    <2>3. CASE p # 0
      <3>1. p \in 1..n /\ next[cells[p]] # NULL /\ old = next[cells[p]]
        BY <1>3, <2>3 DEF Removable, Old
      <3>2. p # n
        BY <1>4, <3>1
      <3> QED  BY <1>2, <1>4, <2>1, <3>1, <3>2
    <2> QED  BY <2>2, <2>3
  <1>7. /\ cells' \in Seq(Cells)
        /\ Len(cells') = n - 1
        /\ \A i \in 1..(n - 1) :
              cells'[i] = IF i <= p THEN cells[i] ELSE cells[i + 1]
    <2>1. cells \in Seq(Cells)
      BY DEF IInv, TypeOK
    <2>2. /\ LS!RemoveAfter(cells, p) \in Seq(Cells)
          /\ Len(LS!RemoveAfter(cells, p)) = n - 1
          /\ \A i \in 1..(n - 1) :
                LS!RemoveAfter(cells, p)[i] = IF i <= p THEN cells[i] ELSE cells[i + 1]
      <3> HIDE DEF p
      <3> QED  BY <1>3, <1>6, <2>1, RemoveAfterIsSeq
    <2>3. cells' = LS!RemoveAfter(cells, p)
      BY <1>1
    <2> HIDE DEF p, n
    <2> QED  BY <2>2, <2>3
  <1> HIDE DEF p, n, old
  <1>8. \* The remaining cells, and where they came from.
        \A i \in 1..(n - 1) :
           \/ i <= p /\ i \in 1..n /\ cells'[i] = cells[i]
           \/ i > p /\ i + 1 \in 1..n /\ cells'[i] = cells[i + 1]
    BY <1>2, <1>3, <1>6, <1>7
  <1>9. cells' = <<>> <=> n = 1
    BY <1>2, <1>6, <1>7, EmptySeq
  <1>10. next[cells[p + 1]] = IF p + 1 = n THEN NULL ELSE cells[p + 2]
    <2>1. next[cells[p + 1]] = IF p + 1 = n THEN NULL ELSE cells[(p + 1) + 1]
      BY <1>4, <1>6
    <2>2. (p + 1) + 1 = p + 2
      BY <1>2, <1>3
    <2> QED  BY <2>1, <2>2
  <1>11. /\ next' \in [Cells -> Cells \cup {NULL}]
         /\ \A i \in 1..n : i # p => next'[cells[i]] = next[cells[i]]
         /\ p # 0 => next'[cells[p]] = next[old]
    <2>1. CASE element = NULL
      BY <1>1, <1>3, <1>5, <2>1
    <2>2. CASE element # NULL
      <3>1. next' = [next EXCEPT ![element] = next[old]]
        BY <1>1, <2>2
      <3>2. element \in Cells /\ element = cells[p] /\ p \in 1..n
        BY <1>3, <2>2
      <3>3. old \in Cells
        BY <1>2, <1>6
      <3>4. next' \in [Cells -> Cells \cup {NULL}] /\ next'[element] = next[old]
        BY <1>5, <3>1, <3>2, <3>3
      <3>5. ASSUME NEW i \in 1..n, i # p PROVE next'[cells[i]] = next[cells[i]]
        <4>1. cells[i] # element /\ cells[i] \in Cells
          BY <1>2, <1>4, <3>2, <3>5
        <4> QED  BY <1>5, <3>1, <4>1
      <3> QED  BY <3>2, <3>4, <3>5
    <2> QED  BY <2>1, <2>2
  <1>12. size' = Len(cells')
    BY <1>1, <1>4, <1>7
  <1>13. head' = IF n = 1 THEN NULL ELSE cells'[1]
    <2>1. CASE p = 0
      <3>1. head' = next[cells[1]]
        BY <1>1, <1>3, <1>4, <1>6, <2>1
      <3>2. CASE n = 1
        BY <1>4, <3>1, <3>2
      <3>3. CASE n # 1
        <4>1. 1 \in 1..(n - 1) /\ 1 \in 1..n
          BY <1>2, <1>6, <3>3
        <4>2. cells'[1] = cells[2]
          BY <1>7, <2>1, <4>1
        <4> QED  BY <1>4, <3>1, <3>3, <4>1, <4>2
      <3> QED  BY <3>2, <3>3
    <2>2. CASE p # 0
      <3>1. head' = cells[1] /\ n # 1 /\ 1 \in 1..(n - 1) /\ 1 <= p
        BY <1>1, <1>2, <1>3, <1>4, <1>6, <2>2
      <3> QED  BY <1>7, <3>1
    <2> QED  BY <2>1, <2>2
  <1>14. tail' = IF n = 1 THEN NULL ELSE cells'[n - 1]
    <2>1. n # 1 => n - 1 \in 1..(n - 1)
      BY <1>2, <1>6
    <2>2. CASE p = 0
      <3>1. tail' = IF n = 1 THEN NULL ELSE cells[n]
        BY <1>1, <1>3, <1>4, <1>6, <2>2
      <3>2. n # 1 => cells'[n - 1] = cells[n]
        BY <1>2, <1>6, <1>7, <2>1, <2>2
      <3> QED  BY <3>1, <3>2
    <2>3. CASE p # 0
      <3>1. n # 1 /\ p \in 1..n
        BY <1>2, <1>3, <1>6, <2>3
      <3>2. tail' = IF next[cells[p + 1]] = NULL THEN cells[p] ELSE cells[n]
        BY <1>1, <1>3, <1>4, <1>6, <2>3
      <3>3. CASE p + 1 = n
        <4>1. tail' = cells[p]
          BY <1>10, <3>2, <3>3
        <4>2. n - 1 = p
          BY <1>2, <3>1, <3>3
        <4> QED  BY <1>7, <2>1, <3>1, <4>1, <4>2
      <3>4. CASE p + 1 # n
        <4>1. p + 2 \in 1..n
          BY <1>2, <1>6, <3>1, <3>4
        <4>2. tail' = cells[n]
          BY <1>2, <1>10, <3>2, <3>4, <4>1
        <4>3. ~(n - 1 <= p) /\ (n - 1) + 1 = n
          BY <1>2, <3>1, <3>4, <4>1
        <4> QED  BY <1>7, <2>1, <3>1, <4>2, <4>3
      <3> QED  BY <3>3, <3>4
    <2> QED  BY <2>2, <2>3
  <1>15. ASSUME NEW i \in 1..(n - 1)
         PROVE  next'[cells'[i]] = IF i = n - 1 THEN NULL ELSE cells'[i + 1]
    <2>1. CASE i < p
      <3>1. i \in 1..n /\ i # p /\ i # n /\ i # n - 1 /\ i <= p
            /\ i + 1 \in 1..(n - 1) /\ i + 1 <= p
        BY <1>2, <1>3, <1>6, <2>1
      <3>2. cells'[i] = cells[i] /\ cells'[i + 1] = cells[i + 1]
        BY <1>7, <3>1
      <3> QED  BY <1>4, <1>11, <3>1, <3>2
    <2>2. CASE i = p
      <3>1. p # 0 /\ p <= p /\ cells'[i] = cells[p]
        BY <1>2, <1>3, <1>7, <2>2
      <3>2. next'[cells[p]] = IF p + 1 = n THEN NULL ELSE cells[p + 2]
        BY <1>6, <1>10, <1>11, <3>1
      <3>3. CASE p + 1 = n
        <4>1. i = n - 1
          BY <1>2, <1>3, <2>2, <3>3
        <4> QED  BY <3>1, <3>2, <3>3, <4>1
      <3>4. CASE p + 1 # n
        <4>1. i # n - 1 /\ i + 1 \in 1..(n - 1) /\ ~(i + 1 <= p) /\ (i + 1) + 1 = p + 2
          BY <1>2, <1>3, <1>6, <2>2, <3>4
        <4>2. cells'[i + 1] = cells[p + 2]
          BY <1>7, <4>1
        <4> QED  BY <3>1, <3>2, <3>4, <4>1, <4>2
      <3> QED  BY <3>3, <3>4
    <2>3. CASE i > p
      <3>1. i + 1 \in 1..n /\ i + 1 # p /\ ~(i <= p)
        BY <1>2, <1>3, <2>3
      <3>2. cells'[i] = cells[i + 1]
        BY <1>7, <3>1
      <3>3. next'[cells[i + 1]] = IF i + 1 = n THEN NULL ELSE cells[(i + 1) + 1]
        BY <1>4, <1>11, <3>1
      <3>4. CASE i = n - 1
        <4>1. i + 1 = n
          BY <1>2, <3>4
        <4> QED  BY <3>2, <3>3, <3>4, <4>1
      <3>5. CASE i # n - 1
        <4>1. i + 1 # n /\ i + 1 \in 1..(n - 1) /\ ~(i + 1 <= p)
          BY <1>2, <1>3, <2>3, <3>5
        <4>2. cells'[i + 1] = cells[(i + 1) + 1]
          BY <1>7, <4>1
        <4> QED  BY <3>2, <3>3, <3>5, <4>1, <4>2
      <3> QED  BY <3>4, <3>5
    <2> QED  BY <1>2, <1>3, <2>1, <2>2, <2>3
  <1> DEFINE From(k) == IF k <= p THEN k ELSE k + 1
  <1>16. \A k \in 1..(n - 1) : From(k) \in 1..n /\ From(k) # p + 1
                               /\ cells'[k] = cells[From(k)]
    <2> TAKE k \in 1..(n - 1)
    <2>1. CASE k <= p
      BY <1>2, <1>3, <1>7, <2>1
    <2>2. CASE ~(k <= p)
      BY <1>2, <1>3, <1>7, <2>2
    <2> QED  BY <2>1, <2>2
  <1> HIDE DEF From
  <1>17. ASSUME NEW i \in 1..(n - 1), NEW j \in 1..(n - 1), cells'[i] = cells'[j]
         PROVE  i = j
    <2>1. From(i) = From(j)
      BY <1>4, <1>16, <1>17
    <2> QED  BY <1>2, <1>3, <2>1 DEF From
  <1>18. NoLeak'
    <2>1. \A x : x \in Elements' <=> \E i \in 1..(n - 1) : cells'[i] = x
      BY <1>7 DEF Elements
    <2>2. \A x : x \in Elements <=> \E i \in 1..n : cells[i] = x
      BY DEF Elements, n
    <2>3. ASSUME NEW x \in Elements' PROVE x \in Elements \ {old}
      <3>1. PICK i \in 1..(n - 1) : cells'[i] = x
        BY <2>1, <2>3
      <3>2. From(i) \in 1..n /\ From(i) # p + 1 /\ cells[From(i)] = x
        BY <1>16, <3>1
      <3>3. x # old
        BY <1>4, <1>6, <3>2
      <3> QED  BY <2>2, <3>2, <3>3
    <2>4. ASSUME NEW x \in Elements, x # old PROVE x \in Elements'
      <3>1. PICK i \in 1..n : cells[i] = x
        BY <2>2
      <3>2. i # p + 1
        BY <1>6, <2>4, <3>1
      <3>3. CASE i <= p
        <4>1. i \in 1..(n - 1) /\ cells'[i] = x
          BY <1>2, <1>3, <1>6, <1>7, <3>1, <3>3
        <4> QED  BY <2>1, <4>1
      <3>4. CASE i > p
        <4>1. i - 1 \in 1..(n - 1) /\ ~(i - 1 <= p) /\ (i - 1) + 1 = i
          BY <1>2, <1>3, <1>6, <3>2, <3>4
        <4>2. cells'[i - 1] = x
          BY <1>7, <3>1, <4>1
        <4> QED  BY <2>1, <4>1, <4>2
      <3> QED  BY <1>2, <1>3, <3>3, <3>4
    <2>5. Elements' = Elements \ {old}
      BY <2>3, <2>4
    <2> QED  BY <1>1, <2>5 DEF NoLeak, IInv
  <1>19. TypeOK'
    <2>1. size' \in Nat
      BY <1>1, <1>2, <1>4, <1>6
    <2>2. head' \in Cells \cup {NULL} /\ tail' \in Cells \cup {NULL}
      <3>1. n # 1 => 1 \in 1..Len(cells') /\ n - 1 \in 1..Len(cells')
        BY <1>2, <1>6, <1>7
      <3> QED  BY <1>7, <1>13, <1>14, <3>1, ElementOfSeq
    <2>3. allocated' \in SUBSET Cells /\ data' \in [Cells -> Data \cup {NoData}]
      BY <1>1, <1>5
    <2> QED  BY <1>7, <1>11, <2>1, <2>2, <2>3 DEF TypeOK
  <1>20. ListShape'
    BY <1>2, <1>6, <1>7, <1>9, <1>12, <1>13, <1>14, <1>15, <1>17 DEF ListShape
  <1>21. Items' = LS!RemoveAfter(Items, p)
    <2>1. Len(Items) = n /\ \A i \in 1..n : Items[i] = data[cells[i]]
      <3>1. Items \in [1..n -> Data \cup {NoData}]
        BY <1>2, <1>5 DEF Items, n
      <3>2. n \in Nat /\ \A i \in 1..n : Items[i] = data[cells[i]]
        BY <1>2 DEF Items, n
      <3> HIDE DEF Items, n
      <3> QED  BY <3>1, <3>2, ArrayIsSeq
    <2>2. LS!RemoveAfter(Items, p) =
            [i \in 1..(n - 1) |-> IF i <= p THEN Items[i] ELSE Items[i + 1]]
      BY <2>1 DEF LS!RemoveAfter
    <2>3. Items' = [i \in 1..(n - 1) |-> data[cells'[i]]]
      BY <1>1, <1>7 DEF Items
    <2>4. ASSUME NEW i \in 1..(n - 1)
          PROVE  data[cells'[i]] = IF i <= p THEN Items[i] ELSE Items[i + 1]
      BY <1>2, <1>3, <1>8, <2>1
    <2> QED  BY <2>2, <2>3, <2>4
  <1> QED  BY <1>6, <1>18, <1>19, <1>20, <1>21 DEF p, n, old

-----------------------------------------------------------------------------
(* Every step keeps the invariant and is a step of ListSpec *)

LEMMA InitIInv == Init => IInv /\ LS!Init
  <1> SUFFICES ASSUME Init PROVE IInv /\ LS!Init
    OBVIOUS
  <1>1. cells = <<>> /\ Len(cells) = 0
    BY DEF Init
  <1>2. TypeOK
    <2>1. cells \in Seq(Cells) /\ destroyed \in Seq(Data \cup {NoData})
      BY EmptySeq DEF Init
    <2>2. /\ next \in [Cells -> Cells \cup {NULL}]
          /\ data \in [Cells -> Data \cup {NoData}]
          /\ head \in Cells \cup {NULL} /\ tail \in Cells \cup {NULL}
          /\ size \in Nat /\ allocated \in SUBSET Cells
      BY DEF Init
    <2> QED  BY <2>1, <2>2 DEF Init, TypeOK
  <1>3. ListShape
    BY <1>1 DEF Init, ListShape
  <1>4. NoLeak
    BY <1>1 DEF Init, NoLeak, Elements
  <1>5. LS!Init
    <2>1. [i \in 1..Len(cells) |-> data[cells[i]]] = <<>>
      BY <1>1
    <2> QED  BY <2>1 DEF Init, LS!Init
  <1> QED  BY <1>2, <1>3, <1>4, <1>5 DEF IInv

\* The length of the abstract sequence.
LEMMA ItemsLen ==
    ASSUME IInv
    PROVE  /\ Len(Items) = Len(cells)
           /\ Items = <<>> <=> size = 0
           /\ \A i \in 1..Len(cells) : Items[i] = data[cells[i]]
           /\ \A i \in 1..Len(cells) : Items[i] \in Data \cup {NoData}
  <1>1. Len(cells) \in Nat /\ \A i \in 1..Len(cells) : cells[i] \in Cells
    BY LenFacts
  <1>2. data \in [Cells -> Data \cup {NoData}] /\ size = Len(cells)
    BY DEF IInv, TypeOK, ListShape
  <1>3. Items \in [1..Len(cells) -> Data \cup {NoData}]
    BY <1>1, <1>2 DEF Items
  <1>4. Items \in Seq(Data \cup {NoData}) /\ Len(Items) = Len(cells)
    BY <1>1, <1>3, ArrayIsSeq
  <1>5. Items = <<>> <=> Len(Items) = 0
    BY <1>4, EmptySeq
  <1> QED  BY <1>2, <1>3, <1>4, <1>5 DEF Items

\* A successful insertion is an insertion into the abstract sequence.
LEMMA InsertStep ==
    ASSUME IInv, NEW op, NEW element \in Elements \cup {NULL}, NEW d \in Data,
           list_ins_next(op, element, d)
    PROVE  IInv' /\ LS!Insert(op, Place(element), d)
  <1>1. IInv' /\ Items' = LS!InsertAfter(Items, Place(element), d)
    BY InsertKeepsShape DEF IInv
  <1>2. /\ ~destroying /\ UNCHANGED <<destroy, destroying, destroyed>>
        /\ result' = <<op, 0, NoData>>
    BY DEF list_ins_next
  <1> QED  BY <1>1, <1>2 DEF LS!Insert, Items

\* A successful removal is a removal from the abstract sequence, and hands out
\* the item of that place.
LEMMA RemoveStep ==
    ASSUME IInv, NEW op, NEW element \in Elements \cup {NULL},
           list_rem_next(op, element)
    PROVE  IInv' /\ LS!Remove(op, Place(element))
  <1>1. /\ ~destroying /\ UNCHANGED <<destroy, destroying, destroyed>>
        /\ result' = <<op, 0, data[Old(element)]>>
        /\ Unlink(element, Old(element))
        /\ Removable(element)
    BY DEF list_rem_next, Removable
  <1>2. /\ destroy' \in BOOLEAN /\ destroying' \in BOOLEAN
        /\ destroyed' \in Seq(Data \cup {NoData})
    BY <1>1 DEF IInv, TypeOK
  <1>3. /\ IInv'
        /\ Place(element) < Len(cells)
        /\ Old(element) = cells[Place(element) + 1]
        /\ Items' = LS!RemoveAfter(Items, Place(element))
    BY <1>1, <1>2, RemoveKeepsShape DEF IInv
  <1>4. Place(element) \in 0..Len(cells) /\ Len(cells) \in Nat
    BY PlaceOf, LenFacts
  <1>5. Place(element) + 1 \in 1..Len(cells)
    BY <1>3, <1>4
  <1>6. Len(Items) = Len(cells)
        /\ data[Old(element)] = Items[Place(element) + 1]
    BY <1>3, <1>5, ItemsLen
  <1> QED  BY <1>1, <1>3, <1>6 DEF LS!Remove, Items

\* What the failing calls need: nothing follows element.
LEMMA RemoveFailStep ==
    ASSUME IInv, NEW op, NEW element \in Elements \cup {NULL},
           RemNextFails(op, element)
    PROVE  /\ IInv' /\ LS!Fail(op)
           /\ element = NULL => Items = <<>>
           /\ Place(element) = Len(Items)
  <1>1. UNCHANGED <<structVars, destroy, destroying, destroyed>>
    BY DEF RemNextFails
  <1>2. IInv'
    BY <1>1 DEF IInv, TypeOK, ListShape, NoLeak, Elements, structVars
  <1>3. LS!Fail(op)
    BY <1>1 DEF RemNextFails, LS!Fail, structVars
  <1>4. element = NULL => size = 0
    BY DEF RemNextFails
  <1>5. /\ Len(cells) \in Nat /\ Len(Items) = Len(cells)
        /\ Place(element) \in 0..Len(cells) /\ size = Len(cells)
    BY LenFacts, ItemsLen, PlaceOf DEF IInv, ListShape
  <1>6. Place(element) = Len(cells)
    <2>1. CASE size = 0
      BY <1>5, <2>1
    <2>2. CASE element # NULL /\ next[element] = NULL
      <3>1. Place(element) \in 1..Len(cells) /\ cells[Place(element)] = element
        BY <2>2, PlaceOf
      <3>2. Place(element) + 1 \in 1..Len(cells) => cells[Place(element) + 1] # NULL
        BY LenFacts, NullAssumption
      <3> QED  BY <1>5, <2>2, <3>1, <3>2 DEF IInv, ListShape
    <2> QED  BY <2>1, <2>2 DEF RemNextFails
  <1> QED  BY <1>2, <1>3, <1>4, <1>5, <1>6, ItemsLen

\* One turn of list_destroy's loop removes the first item and, when there is
\* a callback, destroys it.
LEMMA DestroyStep ==
    ASSUME IInv, DestroyItem
    PROVE  IInv' /\ LS!DestroyItem
  <1>1. /\ destroying /\ size > 0 /\ Unlink(NULL, head)
        /\ destroyed' = IF destroy THEN Append(destroyed, data[head]) ELSE destroyed
        /\ UNCHANGED <<destroy, destroying, result>>
    BY DEF DestroyItem
  <1>2. size \in Nat /\ Removable(NULL) /\ Old(NULL) = head
    BY <1>1 DEF IInv, TypeOK, Removable, Old
  <1>3. Place(NULL) = 0
    BY DEF Place
  <1>4. size = Len(cells) /\ cells # <<>> /\ head = cells[1] /\ 1 \in 1..Len(cells)
    <2>1. size = Len(cells) /\ Len(cells) \in Nat /\ cells # <<>>
      BY <1>1, LenFacts DEF IInv, ListShape
    <2> QED  BY <1>1, <2>1 DEF IInv, ListShape
  <1>5. data[head] = Items[1] /\ Items # <<>> /\ data[head] \in Data \cup {NoData}
    BY <1>1, <1>2, <1>4, ItemsLen
  <1>6. /\ destroy' \in BOOLEAN /\ destroying' \in BOOLEAN
        /\ destroyed' \in Seq(Data \cup {NoData})
    <2>1. destroyed \in Seq(Data \cup {NoData}) /\ destroy \in BOOLEAN
          /\ destroying \in BOOLEAN
      BY DEF IInv, TypeOK
    <2>2. Append(destroyed, data[head]) \in Seq(Data \cup {NoData})
      BY <1>5, <2>1, AppendProperties
    <2> QED  BY <1>1, <2>1, <2>2
  <1>7. Unlink(NULL, Old(NULL))
    BY <1>1, <1>2
  <1>8. IInv' /\ Items' = LS!RemoveAfter(Items, 0)
    BY <1>2, <1>3, <1>6, <1>7, RemoveKeepsShape DEF IInv
  <1> QED  BY <1>1, <1>5, <1>8 DEF LS!DestroyItem, Items

\* Clearing the structure of an empty list, as list_init and the memset of
\* list_destroy do.
LEMMA ClearedKeepsIInv ==
    ASSUME IInv, size = 0, size' = 0, head' = NULL, tail' = NULL,
           UNCHANGED <<next, data, allocated, cells>>,
           destroy' \in BOOLEAN, destroying' \in BOOLEAN,
           destroyed' \in Seq(Data \cup {NoData})
    PROVE  IInv'
  <1>1. cells = <<>> /\ Len(cells) = 0 /\ cells' = cells
    BY LenFacts DEF IInv, ListShape
  <1>2. TypeOK'
    BY DEF IInv, TypeOK
  <1>3. ListShape'
    BY <1>1 DEF ListShape
  <1>4. NoLeak'
    BY <1>1 DEF IInv, NoLeak, Elements
  <1> QED  BY <1>2, <1>3, <1>4 DEF IInv

\* Every step of the list keeps the inductive invariant and is a step of the
\* abstract sequence or a stutter.
LEMMA StepCorrect ==
    ASSUME IInv, [Next]_vars
    PROVE  IInv' /\ [LS!Next]_(LS!vars)
  <1>1. NULL \in Elements \cup {NULL}
    OBVIOUS
  <1>2. Place(NULL) = 0 /\ tail \in Elements \cup {NULL} /\ Place(tail) = Len(Items)
    BY PlaceOfTail, ItemsLen DEF Place
  <1>3. \A element \in Elements \cup {NULL} : Place(element) \in 0..Len(Items)
    BY PlaceOf, ItemsLen
  <1>4. CASE InsNext
    <2>1. PICK element \in Elements \cup {NULL}, d \in Data :
             list_ins_next(<<"ins_next", Place(element), d>>, element, d)
      BY <1>4 DEF InsNext
    <2>2. IInv' /\ LS!Insert(<<"ins_next", Place(element), d>>, Place(element), d)
      BY <2>1, InsertStep
    <2>3. LS!InsNext
      BY <1>3, <2>2 DEF LS!InsNext, Items
    <2> QED  BY <2>2, <2>3 DEF LS!Next
  <1>5. CASE RemNext
    <2>1. PICK element \in Elements \cup {NULL} :
             \/ list_rem_next(<<"rem_next", Place(element)>>, element)
             \/ RemNextFails(<<"rem_next", Place(element)>>, element)
      BY <1>5 DEF RemNext
    <2>2. CASE list_rem_next(<<"rem_next", Place(element)>>, element)
      <3>1. IInv' /\ LS!Remove(<<"rem_next", Place(element)>>, Place(element))
        BY <2>2, RemoveStep
      <3>2. Place(element) \in 0..Len(Items)
        BY <1>3
      <3>3. LS!RemNext
        BY <3>1, <3>2 DEF LS!RemNext, LS!Remove, Items
      <3> QED  BY <3>1, <3>3 DEF LS!Next
    <2>3. CASE RemNextFails(<<"rem_next", Place(element)>>, element)
      <3>1. /\ IInv' /\ LS!Fail(<<"rem_next", Place(element)>>)
            /\ Place(element) \in 0..Len(Items) /\ Place(element) = Len(Items)
        BY <1>3, <2>3, RemoveFailStep
      <3>2. LS!RemNext
        BY <3>1 DEF LS!RemNext, Items
      <3> QED  BY <3>1, <3>2 DEF LS!Next
    <2> QED  BY <2>1, <2>2, <2>3
  <1>6. CASE stack_push
    <2>1. PICK d \in Data : list_ins_next(<<"push", d>>, NULL, d)
      BY <1>6 DEF stack_push
    <2>2. IInv' /\ LS!Insert(<<"push", d>>, 0, d)
      BY <1>2, <2>1, InsertStep
    <2> QED  BY <2>2 DEF LS!Push, LS!Next
  <1>7. CASE stack_pop
    <2>1. CASE list_rem_next(<<"pop">>, NULL)
      <3>1. IInv' /\ LS!Remove(<<"pop">>, Place(NULL))
        BY <1>1, <2>1, RemoveStep DEF LS!Remove
      <3>2. LS!Pop
        BY <1>2, <3>1 DEF LS!Pop, LS!Remove
      <3> QED  BY <3>1, <3>2 DEF LS!Next
    <2>2. CASE RemNextFails(<<"pop">>, NULL)
      <3>1. IInv' /\ LS!Fail(<<"pop">>) /\ Items = <<>>
        BY <2>2, RemoveFailStep
      <3> QED  BY <3>1 DEF LS!Pop, LS!Next, Items
    <2> QED  BY <1>7, <2>1, <2>2 DEF stack_pop
  <1>8. CASE queue_enqueue
    <2>1. PICK d \in Data : list_ins_next(<<"enqueue", d>>, tail, d)
      BY <1>8 DEF queue_enqueue
    <2>2. IInv' /\ LS!Insert(<<"enqueue", d>>, Len(Items), d)
      BY <1>2, <2>1, InsertStep
    <2> QED  BY <2>2 DEF LS!Enqueue, LS!Next, Items
  <1>9. CASE queue_dequeue
    <2>1. CASE list_rem_next(<<"dequeue">>, NULL)
      <3>1. IInv' /\ LS!Remove(<<"dequeue">>, Place(NULL))
        BY <1>1, <2>1, RemoveStep DEF LS!Remove
      <3>2. LS!Dequeue
        BY <1>2, <3>1 DEF LS!Dequeue, LS!Remove
      <3> QED  BY <3>1, <3>2 DEF LS!Next
    <2>2. CASE RemNextFails(<<"dequeue">>, NULL)
      <3>1. IInv' /\ LS!Fail(<<"dequeue">>) /\ Items = <<>>
        BY <2>2, RemoveFailStep
      <3> QED  BY <3>1 DEF LS!Dequeue, LS!Next, Items
    <2> QED  BY <1>9, <2>1, <2>2 DEF queue_dequeue
  <1>10. CASE Fails
    <2>1. ASSUME NEW op, InsNextFails(op) PROVE IInv' /\ LS!Fail(op)
      <3>1. IInv'
        BY <2>1 DEF InsNextFails, IInv, TypeOK, ListShape, NoLeak, Elements, structVars
      <3>2. LS!Fail(op)
        BY <2>1 DEF InsNextFails, LS!Fail, structVars
      <3> QED  BY <3>1, <3>2
    <2>2. PICK d \in Data :
             \/ \E element \in Elements \cup {NULL} :
                   InsNextFails(<<"ins_next", Place(element), d>>)
             \/ InsNextFails(<<"push", d>>)
             \/ InsNextFails(<<"enqueue", d>>)
      BY <1>10 DEF Fails
    <2>3. CASE \E element \in Elements \cup {NULL} :
                  InsNextFails(<<"ins_next", Place(element), d>>)
      <3>1. PICK element \in Elements \cup {NULL} :
               InsNextFails(<<"ins_next", Place(element), d>>)
        BY <2>3
      <3>2. /\ IInv' /\ LS!Fail(<<"ins_next", Place(element), d>>)
            /\ Place(element) \in 0..Len(Items)
        BY <1>3, <2>1, <3>1
      <3>3. LS!InsNext
        BY <3>2 DEF LS!InsNext, Items
      <3> QED  BY <3>2, <3>3 DEF LS!Next
    <2>4. CASE InsNextFails(<<"push", d>>)
      BY <2>1, <2>4 DEF LS!Push, LS!Next
    <2>5. CASE InsNextFails(<<"enqueue", d>>)
      BY <2>1, <2>5 DEF LS!Enqueue, LS!Next
    <2> QED  BY <2>2, <2>3, <2>4, <2>5
  <1>11. CASE list_init
    <2>1. /\ size = 0 /\ size' = 0 /\ head' = NULL /\ tail' = NULL
          /\ destroy' \in BOOLEAN
          /\ UNCHANGED <<next, data, allocated, cells, destroying, destroyed>>
      BY <1>11 DEF list_init
    <2>2. Items = <<>> /\ destroying' \in BOOLEAN /\ destroyed' \in Seq(Data \cup {NoData})
      BY <2>1, ItemsLen DEF IInv, TypeOK
    <2>3. LS!Reinit
      BY <1>11, <2>1, <2>2 DEF list_init, LS!Reinit, Items
    <2>4. IInv'
      BY <2>1, <2>2, ClearedKeepsIInv
    <2> QED  BY <2>3, <2>4 DEF LS!Next
  <1>12. CASE DestroyBegin
    <2>1. UNCHANGED <<structVars, destroy>> /\ destroying' = TRUE /\ destroyed' = <<>>
      BY <1>12 DEF DestroyBegin
    <2>2. IInv'
      BY <2>1 DEF IInv, TypeOK, ListShape, NoLeak, Elements, structVars
    <2>3. LS!DestroyBegin
      BY <1>12, <2>1 DEF DestroyBegin, LS!DestroyBegin, structVars
    <2> QED  BY <2>2, <2>3 DEF LS!Next
  <1>13. CASE DestroyItem
    BY <1>13, DestroyStep DEF LS!Next
  <1>14. CASE DestroyEnd
    <2>1. /\ size = 0 /\ size' = 0 /\ head' = NULL /\ tail' = NULL
          /\ destroying' = FALSE /\ destroy' = FALSE
          /\ UNCHANGED <<next, data, allocated, destroyed, cells>>
      BY <1>14 DEF DestroyEnd
    <2>2. Items = <<>> /\ Len(cells) = 0 /\ cells = <<>>
      BY <2>1, ItemsLen, LenFacts DEF IInv, ListShape
    <2>3. LS!DestroyEnd
      BY <1>14, <2>1, <2>2 DEF DestroyEnd, LS!DestroyEnd, Items
    <2>4. destroy' \in BOOLEAN /\ destroying' \in BOOLEAN
          /\ destroyed' \in Seq(Data \cup {NoData})
      BY <2>1 DEF IInv, TypeOK
    <2>5. IInv'
      BY <2>1, <2>4, ClearedKeepsIInv
    <2> QED  BY <2>3, <2>5 DEF LS!Next
  <1>15. CASE UNCHANGED vars
    <2>1. UNCHANGED <<structVars, destroy, destroying, destroyed, result>>
      BY <1>15 DEF vars
    <2>2. IInv'
      BY <2>1 DEF IInv, TypeOK, ListShape, NoLeak, Elements, structVars
    <2>3. UNCHANGED LS!vars
      BY <2>1 DEF LS!vars, structVars
    <2> QED  BY <2>2, <2>3
  <1> QED
    BY <1>4, <1>5, <1>6, <1>7, <1>8, <1>9, <1>10, <1>11, <1>12, <1>13, <1>14,
       <1>15 DEF Next

-----------------------------------------------------------------------------
\* The invariant of list.c: head, tail, size and the next pointers describe
\* one chain, and the elements that are allocated are those of the chain.
THEOREM Invariance == Spec => []IInv
  <1>1. Init => IInv
    BY InitIInv
  <1>2. IInv /\ [Next]_vars => IInv'
    BY StepCorrect
  <1> QED  BY <1>1, <1>2, PTL DEF Spec

\* The fields hold what they are declared to hold.
THEOREM TypeCorrect == Spec => []TypeOK
  <1>1. IInv => TypeOK
    BY DEF IInv
  <1> QED  BY <1>1, Invariance, PTL

\* tail and size are never stale, whatever mixture of list, stack and queue
\* calls was made, failed calls and list_destroy included; list_rem_next frees
\* what it unlinks, and nothing that is still linked.
THEOREM SoundKept == Spec => []ListSound
  <1>1. IInv => ListSound
    BY DEF IInv, ListSound
  <1> QED  BY <1>1, Invariance, PTL

\* list.c, stack.c and queue.c implement the sequence of ListSpec.
THEOREM Implements == Spec => Refines
  <1>1. Init => LS!Init
    BY InitIInv
  <1>2. IInv /\ [Next]_vars => [LS!Next]_(LS!vars)
    BY StepCorrect
  <1> QED  BY <1>1, <1>2, Invariance, PTL DEF Spec, LS!Spec, Refines

-----------------------------------------------------------------------------
(* Sets of data as maps *)

\* The map that a set of data is, and that it has every key once.
MapOf(S) == [k \in {d[1] : d \in S} |-> (CHOOSE d \in S : d[1] = k)[2]]
UniqueKeys(S) == \A d, e \in S : d[1] = e[1] => d = e

TableData == TableKeys \X TableValues

\* What is in the map is what is in the set.
LEMMA MapValues ==
    ASSUME NEW S, UniqueKeys(S)
    PROVE  /\ \A d \in S : d[1] \in DOMAIN MapOf(S) /\ MapOf(S)[d[1]] = d[2]
           /\ \A k \in DOMAIN MapOf(S) : \E d \in S : d[1] = k
<1>1. ASSUME NEW d \in S PROVE (CHOOSE e \in S : e[1] = d[1]) = d
  BY <1>1 DEF UniqueKeys
<1> QED
  BY <1>1 DEF MapOf

\* A datum with a new key adds its key and value.
LEMMA MapAdd ==
    ASSUME NEW S \in SUBSET TableData, UniqueKeys(S),
           NEW k \in TableKeys, NEW v \in TableValues, \A d \in S : d[1] # k
    PROVE  /\ UniqueKeys(S \cup {<<k, v>>})
           /\ MapOf(S \cup {<<k, v>>}) =
                 [j \in DOMAIN MapOf(S) \cup {k} |-> IF j = k THEN v ELSE MapOf(S)[j]]
<1> DEFINE T == S \cup {<<k, v>>}
<1>0. <<k, v>>[1] = k /\ <<k, v>>[2] = v /\ <<k, v>> \in T /\ S \subseteq T
  OBVIOUS
<1>1. UniqueKeys(T)
  BY <1>0 DEF UniqueKeys
<1>2. DOMAIN MapOf(T) = DOMAIN MapOf(S) \cup {k}
  BY <1>0 DEF MapOf
<1>3. ASSUME NEW j \in DOMAIN MapOf(T)
      PROVE  MapOf(T)[j] = IF j = k THEN v ELSE MapOf(S)[j]
  <2>1. CASE j = k
    BY <2>1, <1>0, <1>1, MapValues
  <2>2. CASE j # k
    <3>1. PICK d \in S : d[1] = j
      BY <2>2, <1>2, <1>3, MapValues
    <3> QED
      BY <3>1, <2>2, <1>0, <1>1, MapValues
  <2> QED
    BY <2>1, <2>2
<1>4. MapOf(T) = [j \in DOMAIN MapOf(T) |-> MapOf(T)[j]]
  BY DEF MapOf
<1> HIDE DEF T
<1>5. MapOf(T) = [j \in DOMAIN MapOf(S) \cup {k} |-> IF j = k THEN v ELSE MapOf(S)[j]]
  BY <1>2, <1>3, <1>4
<1> QED
  BY <1>1, <1>5 DEF T

\* A datum that is taken out takes its key with it.
LEMMA MapRemove ==
    ASSUME NEW S, UniqueKeys(S), NEW d \in S
    PROVE  /\ UniqueKeys(S \ {d})
           /\ MapOf(S \ {d}) = [j \in DOMAIN MapOf(S) \ {d[1]} |-> MapOf(S)[j]]
<1> DEFINE T == S \ {d}
<1>1. UniqueKeys(T)
  BY DEF UniqueKeys
<1>2. DOMAIN MapOf(T) = DOMAIN MapOf(S) \ {d[1]}
  BY DEF MapOf, UniqueKeys
<1>3. ASSUME NEW j \in DOMAIN MapOf(T) PROVE MapOf(T)[j] = MapOf(S)[j]
  <2>1. PICK e \in T : e[1] = j
    BY <1>1, <1>3, MapValues
  <2> QED
    BY <2>1, <1>1, MapValues
<1>4. MapOf(T) = [j \in DOMAIN MapOf(T) |-> MapOf(T)[j]]
  BY DEF MapOf
<1> HIDE DEF T
<1>5. MapOf(T) = [j \in DOMAIN MapOf(S) \ {d[1]} |-> MapOf(S)[j]]
  BY <1>2, <1>3, <1>4
<1> QED
  BY <1>1, <1>5 DEF T

\* The pairs of the map are the data.
LEMMA MapPairs ==
    ASSUME NEW S \in SUBSET TableData, UniqueKeys(S)
    PROVE  Table!CS!Pairs(MapOf(S)) = S
<1>1. \A d \in S : d = <<d[1], d[2]>>
  BY DEF TableData
<1> QED
  BY <1>1, MapValues DEF Table!CS!Pairs
-----------------------------------------------------------------------------
(* Buckets *)

InBucket(s) == {s[j] : j \in 1..Len(s)}
KeysOnce(s) == \A j, l \in 1..Len(s) : s[j][1] = s[l][1] => j = l

\* list_ins_next at the head of a bucket.
LEMMA BucketAdd ==
    ASSUME NEW s \in Seq(TableData), NEW x \in TableData, KeysOnce(s),
           \A j \in 1..Len(s) : s[j][1] # x[1]
    PROVE  /\ <<x>> \o s \in Seq(TableData)
           /\ KeysOnce(<<x>> \o s)
           /\ InBucket(<<x>> \o s) = InBucket(s) \cup {x}
<1> DEFINE t == <<x>> \o s
<1>1. /\ t \in Seq(TableData) /\ Len(t) = Len(s) + 1 /\ Len(s) \in Nat
      /\ t[1] = x /\ \A j \in 2..Len(t) : t[j] = s[j - 1]
  OBVIOUS
<1> HIDE DEF t
<1>2. \A j \in 2..Len(t) : j - 1 \in 1..Len(s)
  BY <1>1
<1>3. \A j \in 1..Len(s) : j + 1 \in 2..Len(t) /\ t[j + 1] = s[j]
  BY <1>1
<1>4. KeysOnce(t)
  <2> SUFFICES ASSUME NEW j \in 1..Len(t), NEW l \in 1..Len(t), t[j][1] = t[l][1]
               PROVE  j = l
    BY DEF KeysOnce
  <2>1. ASSUME NEW p \in 1..Len(t), p # 1
        PROVE  p - 1 \in 1..Len(s) /\ t[p] = s[p - 1] /\ p \in Int
    BY <2>1, <1>1
  <2>2. CASE j = 1 /\ l # 1
    <3>1. l - 1 \in 1..Len(s) /\ t[l] = s[l - 1]
      BY <2>2, <2>1
    <3> QED
      BY <2>2, <3>1, <1>1
  <2>3. CASE j # 1 /\ l = 1
    <3>1. j - 1 \in 1..Len(s) /\ t[j] = s[j - 1]
      BY <2>3, <2>1
    <3> QED
      BY <2>3, <3>1, <1>1
  <2>4. CASE j # 1 /\ l # 1
    <3>1. /\ j - 1 \in 1..Len(s) /\ t[j] = s[j - 1] /\ j \in Int
          /\ l - 1 \in 1..Len(s) /\ t[l] = s[l - 1] /\ l \in Int
      BY <2>4, <2>1
    <3>2. s[j - 1][1] = s[l - 1][1]
      BY <3>1
    <3>3. j - 1 = l - 1
      BY <3>1, <3>2 DEF KeysOnce
    <3> QED
      BY <3>1, <3>3
  <2> QED
    BY <2>2, <2>3, <2>4
<1>5. InBucket(t) = InBucket(s) \cup {x}
  <2>1. ASSUME NEW y \in InBucket(t) PROVE y \in InBucket(s) \cup {x}
    <3>1. PICK j \in 1..Len(t) : y = t[j]
      BY <2>1 DEF InBucket
    <3>2. j = 1 \/ j \in 2..Len(t)
      BY <1>1
    <3> QED
      BY <3>1, <3>2, <1>1, <1>2 DEF InBucket
  <2>2. x \in InBucket(t)
    BY <1>1 DEF InBucket
  <2>3. ASSUME NEW y \in InBucket(s) PROVE y \in InBucket(t)
    <3>1. PICK j \in 1..Len(s) : y = s[j]
      BY <2>3 DEF InBucket
    <3>2. j + 1 \in 1..Len(t) /\ t[j + 1] = y
      BY <3>1, <1>1, <1>3
    <3> QED
      BY <3>2 DEF InBucket
  <2> QED
    BY <2>1, <2>2, <2>3
<1> QED
  BY <1>1, <1>4, <1>5 DEF t

\* list_rem_next of the element at place m.
LEMMA BucketCut ==
    ASSUME NEW s \in Seq(TableData), NEW m \in 1..Len(s), KeysOnce(s)
    PROVE  /\ SubSeq(s, 1, m - 1) \o SubSeq(s, m + 1, Len(s)) \in Seq(TableData)
           /\ KeysOnce(SubSeq(s, 1, m - 1) \o SubSeq(s, m + 1, Len(s)))
           /\ InBucket(SubSeq(s, 1, m - 1) \o SubSeq(s, m + 1, Len(s)))
                 = InBucket(s) \ {s[m]}
<1> DEFINE a == SubSeq(s, 1, m - 1)
           b == SubSeq(s, m + 1, Len(s))
           t == a \o b
<1>0. Len(s) \in Nat
  OBVIOUS
<1>1. /\ a \in Seq(TableData) /\ Len(a) = m - 1 /\ \A j \in 1..(m - 1) : a[j] = s[j]
      /\ b \in Seq(TableData) /\ Len(b) = Len(s) - m
      /\ \A j \in 1..(Len(s) - m) : b[j] = s[m + j]
  BY <1>0
<1> HIDE DEF a, b
<1>2. /\ t \in Seq(TableData) /\ Len(t) = Len(s) - 1
      /\ \A j \in 1..(Len(s) - 1) : t[j] = IF j < m THEN s[j] ELSE s[j + 1]
  <2>1. /\ t \in Seq(TableData) /\ Len(t) = Len(a) + Len(b)
        /\ \A j \in 1..(Len(a) + Len(b)) :
              t[j] = IF j <= Len(a) THEN a[j] ELSE b[j - Len(a)]
    BY <1>1, ConcatProperties, Zenon
  <2> HIDE DEF t
  <2>2. Len(t) = Len(s) - 1
    BY <2>1, <1>0, <1>1
  <2>3. ASSUME NEW j \in 1..(Len(s) - 1)
        PROVE  t[j] = IF j < m THEN s[j] ELSE s[j + 1]
    <3>1. CASE j < m
      <4>1. j \in 1..(m - 1) /\ j <= Len(a)
        BY <3>1, <1>1
      <4> QED
        BY <3>1, <4>1, <2>1, <2>2, <1>1
    <3>2. CASE ~(j < m)
      <4>1. j - (m - 1) \in 1..(Len(s) - m) /\ ~(j <= m - 1) /\ m + (j - (m - 1)) = j + 1
        BY <3>2, <1>0
      <4>2. t[j] = b[j - (m - 1)]
        BY <4>1, <2>1, <2>2, <1>1
      <4> QED
        BY <3>2, <4>1, <4>2, <1>1
    <3> QED
      BY <3>1, <3>2
  <2> QED
    BY <2>1, <2>2, <2>3
<1> HIDE DEF t
<1>3. \A j \in 1..(Len(s) - 1) : j \in 1..Len(s) /\ j + 1 \in 1..Len(s)
  BY <1>0
<1>4. KeysOnce(t)
  <2> SUFFICES ASSUME NEW j \in 1..Len(t), NEW l \in 1..Len(t), t[j][1] = t[l][1]
               PROVE  j = l
    BY DEF KeysOnce
  <2> DEFINE p == IF j < m THEN j ELSE j + 1
             q == IF l < m THEN l ELSE l + 1
  <2>1. p \in 1..Len(s) /\ q \in 1..Len(s) /\ s[p][1] = s[q][1]
    BY <1>0, <1>2, <1>3
  <2>2. p = q
    BY <2>1 DEF KeysOnce
  <2> QED
    BY <2>2, <1>0
<1>5. InBucket(t) = InBucket(s) \ {s[m]}
  <2>1. ASSUME NEW y \in InBucket(t) PROVE y \in InBucket(s) \ {s[m]}
    <3>1. PICK j \in 1..Len(t) : y = t[j]
      BY <2>1 DEF InBucket
    <3> DEFINE p == IF j < m THEN j ELSE j + 1
    <3>2. p \in 1..Len(s) /\ y = s[p] /\ p # m
      BY <3>1, <1>0, <1>2, <1>3
    <3>3. s[p] # s[m]
      BY <3>2 DEF KeysOnce
    <3> QED
      BY <3>2, <3>3 DEF InBucket
  <2>2. ASSUME NEW y \in InBucket(s) \ {s[m]} PROVE y \in InBucket(t)
    <3>1. PICK p \in 1..Len(s) : y = s[p]
      BY <2>2 DEF InBucket
    <3> DEFINE j == IF p < m THEN p ELSE p - 1
    <3>2. j \in 1..Len(t) /\ t[j] = y
      BY <3>1, <2>2, <1>0, <1>2
    <3> QED
      BY <3>2 DEF InBucket
  <2> QED
    BY <2>1, <2>2
<1> QED
  BY <1>1, <1>2, <1>4, <1>5 DEF a, b, t

-----------------------------------------------------------------------------
(* chtbl.c *)

\* The types that the table's operations rely on; chtbl_destroy and a failed
\* chtbl_init leave size and destroy at 0.
TableType ==
    /\ buckets \in Nat
    /\ table \in [0..(buckets - 1) -> Seq(TableData)]
    /\ tableDestroy \in BOOLEAN
    /\ buckets = 0 => tableSize = 0 /\ ~tableDestroy

TableInv == TableType /\ Table!Placed

\* What is in a bucket, as Placed says it.
LEMMA PlacedIff ==
    ASSUME TableType
    PROVE  Table!Placed <=>
             \A b \in 0..(buckets - 1) :
                /\ KeysOnce(table[b])
                /\ \A d \in InBucket(table[b]) : TableHash[d[1]] % buckets = b
<1>1. DOMAIN table = 0..(buckets - 1)
  BY DEF TableType
<1>2. ASSUME NEW b \in 0..(buckets - 1)
      PROVE  (\A j \in 1..Len(table[b]) :
                 /\ Table!Bucket(table[b][j][1]) = b
                 /\ \A l \in 1..Len(table[b]) : table[b][j][1] = table[b][l][1] => j = l)
             <=> /\ KeysOnce(table[b])
                 /\ \A d \in InBucket(table[b]) : TableHash[d[1]] % buckets = b
  BY DEF KeysOnce, InBucket, Table!Bucket
<1> QED
  BY <1>1, <1>2 DEF Table!Placed

\* The data of the table are those of its buckets.
LEMMA StoredIs ==
    ASSUME TableType
    PROVE  Table!Stored = UNION {InBucket(table[b]) : b \in 0..(buckets - 1)}
<1>1. DOMAIN table = 0..(buckets - 1)
  BY DEF TableType
<1> QED
  BY <1>1 DEF Table!Stored, InBucket

\* No two buckets, and no two places of a bucket, have the same key.
LEMMA StoredUnique ==
    ASSUME TableInv
    PROVE  Table!Stored \in SUBSET TableData /\ UniqueKeys(Table!Stored)
<1>1. TableType /\ Table!Placed
  BY DEF TableInv
<1>2. \A b \in 0..(buckets - 1) :
         /\ KeysOnce(table[b])
         /\ \A d \in InBucket(table[b]) : TableHash[d[1]] % buckets = b
  BY <1>1, PlacedIff
<1>3. ASSUME NEW b \in 0..(buckets - 1) PROVE InBucket(table[b]) \subseteq TableData
  <2>1. table[b] \in Seq(TableData)
    BY <1>1 DEF TableType
  <2> QED
    BY <2>1 DEF InBucket
<1>4. ASSUME NEW d \in Table!Stored, NEW e \in Table!Stored, d[1] = e[1]
      PROVE  d = e
  <2>1. PICK b \in 0..(buckets - 1) : d \in InBucket(table[b])
    BY <1>1, StoredIs
  <2>2. PICK c \in 0..(buckets - 1) : e \in InBucket(table[c])
    BY <1>1, StoredIs
  <2>3. b = c
    BY <1>2, <1>4, <2>1, <2>2
  <2>4. KeysOnce(table[b]) /\ e \in InBucket(table[b])
    BY <1>2, <2>2, <2>3
  <2> QED
    BY <1>4, <2>1, <2>4 DEF KeysOnce, InBucket
<1>5. Table!Stored \in SUBSET TableData
  BY <1>1, <1>3, StoredIs
<1> QED
  BY <1>4, <1>5 DEF UniqueKeys

\* A key's bucket is one of the table's.
LEMMA BucketIsThere ==
    ASSUME TableType, buckets > 0, NEW k \in TableKeys
    PROVE  Table!Bucket(k) \in 0..(buckets - 1)
<1>1. TableHash[k] \in Nat /\ buckets \in Nat
  BY TableAssumption DEF TableType
<1>2. TableHash[k] % buckets \in 0..(buckets - 1)
  BY <1>1
<1> QED
  BY <1>2 DEF Table!Bucket

\* The scan of the one bucket decides whether the table has the key.
LEMMA MatchDecides ==
    ASSUME TableInv, buckets > 0, NEW k \in TableKeys
    PROVE  LET m == Table!Match(k)
               list == table[Table!Bucket(k)]
           IN  \/ m = 0 /\ \A d \in Table!Stored : d[1] # k
               \/ m # 0 /\ m \in 1..Len(list) /\ list[m][1] = k
<1> DEFINE list == table[Table!Bucket(k)]
           hits == {j \in 1..Len(list) : list[j][1] = k}
<1>1. TableType /\ Table!Placed
  BY DEF TableInv
<1>2. Table!Bucket(k) \in 0..(buckets - 1)
  BY <1>1, BucketIsThere
<1>3. list \in Seq(TableData) /\ KeysOnce(list)
  BY <1>1, <1>2, PlacedIff DEF TableType
<1>4. Table!Match(k) = IF hits = {} THEN 0 ELSE CHOOSE j \in hits : \A l \in hits : j <= l
  BY DEF Table!Match
<1>5. CASE hits = {}
  <2>1. ASSUME NEW d \in Table!Stored, d[1] = k PROVE FALSE
    <3>1. PICK b \in 0..(buckets - 1) : d \in InBucket(table[b])
      BY <1>1, StoredIs
    <3>2. TableHash[k] % buckets = b
      BY <3>1, <2>1, <1>1, PlacedIff
    <3>3. d \in InBucket(list)
      BY <3>1, <3>2 DEF Table!Bucket
    <3> QED
      BY <3>3, <2>1, <1>5 DEF InBucket
  <2> QED
    BY <2>1, <1>4, <1>5
<1>6. CASE hits # {}
  <2>1. PICK j \in hits : TRUE
    BY <1>6
  <2>2. \A l \in hits : l = j
    BY <2>1, <1>3 DEF KeysOnce
  <2>3. j \in Nat \ {0}
    BY <2>1, <1>3
  <2>4. hits = {j} /\ j <= j
    BY <2>1, <2>2, <2>3
  <2>5. Table!Match(k) = j
    <3> HIDE DEF hits
    <3> QED
      BY <1>4, <1>6, <2>4
  <2> QED
    BY <2>1, <2>3, <2>5
<1> QED
  BY <1>5, <1>6

\* One bucket changes: the table stays in order if the bucket does.
LEMMA BucketChange ==
    ASSUME TableInv, buckets' = buckets, tableDestroy' = tableDestroy,
           NEW b \in 0..(buckets - 1), NEW s \in Seq(TableData),
           table' = [table EXCEPT ![b] = s],
           KeysOnce(s), \A d \in InBucket(s) : TableHash[d[1]] % buckets = b
    PROVE  /\ TableInv'
           /\ Table!Stored' =
                 InBucket(s) \cup
                    UNION {InBucket(table[c]) : c \in (0..(buckets - 1)) \ {b}}
<1>1. TableType /\ Table!Placed
  BY DEF TableInv
<1>2. TableType'
  <2>1. buckets # 0
    BY <1>1 DEF TableType
  <2> QED
    BY <1>1, <2>1 DEF TableType
<1>3. \A c \in 0..(buckets - 1) : table'[c] = IF c = b THEN s ELSE table[c]
  BY <1>1 DEF TableType
<1>4. \A c \in 0..(buckets - 1) :
         /\ KeysOnce(table[c])
         /\ \A d \in InBucket(table[c]) : TableHash[d[1]] % buckets = c
  BY <1>1, PlacedIff
<1>5. Table!Placed'
  <2>1. \A c \in 0..(buckets - 1) :
           /\ KeysOnce(table'[c])
           /\ \A d \in InBucket(table'[c]) : TableHash[d[1]] % buckets = c
    BY <1>3, <1>4
  <2>2. DOMAIN table' = 0..(buckets - 1)
    BY <1>2 DEF TableType
  <2> SUFFICES ASSUME NEW c \in 0..(buckets - 1), NEW j \in 1..Len(table'[c])
               PROVE  /\ TableHash[table'[c][j][1]] % buckets = c
                      /\ \A l \in 1..Len(table'[c]) :
                            table'[c][j][1] = table'[c][l][1] => j = l
    BY <2>2 DEF Table!Placed, Table!Bucket
  <2>3. KeysOnce(table'[c]) /\ \A d \in InBucket(table'[c]) : TableHash[d[1]] % buckets = c
    BY <2>1
  <2>4. table'[c][j] \in InBucket(table'[c])
    BY DEF InBucket
  <2> QED
    BY <2>3, <2>4 DEF KeysOnce
<1>6. Table!Stored' = UNION {InBucket(table'[c]) : c \in 0..(buckets - 1)}
  <2>1. DOMAIN table' = 0..(buckets - 1)
    BY <1>2 DEF TableType
  <2> QED
    BY <2>1 DEF Table!Stored, InBucket
<1>7. UNION {InBucket(table'[c]) : c \in 0..(buckets - 1)}
        = InBucket(s) \cup UNION {InBucket(table[c]) : c \in (0..(buckets - 1)) \ {b}}
  BY <1>3
<1> QED
  BY <1>2, <1>5, <1>6, <1>7 DEF TableInv

\* chtbl_insert adds one datum, in the bucket of its key.
LEMMA InsertAdds ==
    ASSUME TableInv, buckets > 0, buckets' = buckets, tableDestroy' = tableDestroy,
           NEW k \in TableKeys, NEW v \in TableValues, Table!Match(k) = 0,
           table' = [table EXCEPT ![Table!Bucket(k)] = <<<<k, v>>>> \o @]
    PROVE  /\ TableInv'
           /\ \A d \in Table!Stored : d[1] # k
           /\ Table!Stored' = Table!Stored \cup {<<k, v>>}
<1> DEFINE b == Table!Bucket(k)
           x == <<k, v>>
           s == <<x>> \o table[b]
<1>1. TableType /\ Table!Placed
  BY DEF TableInv
<1>2. b \in 0..(buckets - 1)
  BY <1>1, BucketIsThere
<1>3. \A d \in Table!Stored : d[1] # k
  BY MatchDecides
<1>4. x \in TableData /\ x[1] = k
  BY DEF TableData
<1>5. table[b] \in Seq(TableData)
  BY <1>1, <1>2 DEF TableType
<1>6. KeysOnce(table[b]) /\ \A d \in InBucket(table[b]) : TableHash[d[1]] % buckets = b
  BY <1>1, <1>2, PlacedIff
<1>7. Table!Stored = UNION {InBucket(table[c]) : c \in 0..(buckets - 1)}
  BY <1>1, StoredIs
<1>8. TableHash[k] % buckets = b
  BY DEF Table!Bucket
<1>9. table' = [table EXCEPT ![b] = s]
  OBVIOUS
<1> HIDE DEF b, x
<1>10. \A j \in 1..Len(table[b]) : table[b][j][1] # x[1]
  BY <1>2, <1>3, <1>4, <1>7 DEF InBucket
<1>11. s \in Seq(TableData) /\ KeysOnce(s) /\ InBucket(s) = InBucket(table[b]) \cup {x}
  BY <1>4, <1>5, <1>6, <1>10, BucketAdd
<1> HIDE DEF s
<1>12. \A d \in InBucket(s) : TableHash[d[1]] % buckets = b
  BY <1>4, <1>6, <1>8, <1>11
<1>13. /\ TableInv'
       /\ Table!Stored' = InBucket(s) \cup
             UNION {InBucket(table[c]) : c \in (0..(buckets - 1)) \ {b}}
  BY <1>2, <1>9, <1>11, <1>12, BucketChange
<1>14. Table!Stored' = Table!Stored \cup {x}
  BY <1>2, <1>7, <1>11, <1>13
<1> QED
  BY <1>3, <1>13, <1>14 DEF x

\* chtbl_remove takes the one datum with the key.
LEMMA RemoveTakes ==
    ASSUME TableInv, buckets > 0, buckets' = buckets, tableDestroy' = tableDestroy,
           NEW k \in TableKeys, NEW m, m = Table!Match(k), m # 0,
           NEW list, list = table[Table!Bucket(k)],
           table' = [table EXCEPT ![Table!Bucket(k)] =
                        SubSeq(list, 1, m - 1) \o SubSeq(list, m + 1, Len(list))]
    PROVE  /\ TableInv'
           /\ list[m] \in Table!Stored /\ list[m][1] = k
           /\ Table!Stored' = Table!Stored \ {list[m]}
<1> DEFINE b == Table!Bucket(k)
           s == SubSeq(list, 1, m - 1) \o SubSeq(list, m + 1, Len(list))
<1>1. TableType /\ Table!Placed
  BY DEF TableInv
<1>2. b \in 0..(buckets - 1)
  BY <1>1, BucketIsThere
<1>3. m \in 1..Len(list) /\ list[m][1] = k
  BY MatchDecides
<1>5. list \in Seq(TableData) /\ list = table[b]
  BY <1>1, <1>2 DEF TableType
<1>6. \A c \in 0..(buckets - 1) :
         /\ KeysOnce(table[c])
         /\ \A d \in InBucket(table[c]) : TableHash[d[1]] % buckets = c
  BY <1>1, PlacedIff
<1>7. Table!Stored = UNION {InBucket(table[c]) : c \in 0..(buckets - 1)}
  BY <1>1, StoredIs
<1>9. table' = [table EXCEPT ![b] = s]
  OBVIOUS
<1> HIDE DEF b
<1>10. KeysOnce(list)
  BY <1>2, <1>5, <1>6
<1>11. s \in Seq(TableData) /\ KeysOnce(s) /\ InBucket(s) = InBucket(list) \ {list[m]}
  BY <1>3, <1>5, <1>10, BucketCut
<1> HIDE DEF s
<1>12. \A d \in InBucket(s) : TableHash[d[1]] % buckets = b
  BY <1>2, <1>5, <1>6, <1>11
<1>13. /\ TableInv'
       /\ Table!Stored' = InBucket(s) \cup
             UNION {InBucket(table[c]) : c \in (0..(buckets - 1)) \ {b}}
  BY <1>2, <1>9, <1>11, <1>12, BucketChange
<1>14. list[m] \in InBucket(table[b])
  BY <1>3, <1>5 DEF InBucket
<1>15. \A c \in (0..(buckets - 1)) \ {b} : list[m] \notin InBucket(table[c])
  BY <1>2, <1>6, <1>14
<1>16. Table!Stored' = Table!Stored \ {list[m]}
  BY <1>2, <1>5, <1>7, <1>11, <1>13, <1>15
<1> QED
  BY <1>2, <1>3, <1>7, <1>13, <1>14, <1>16

\* The table before its first call is empty.
LEMMA TableInit == Table!Init => TableInv /\ Table!CS!Init
<1> SUFFICES ASSUME Table!Init PROVE TableInv /\ Table!CS!Init
  OBVIOUS
<1>1. /\ buckets = 0 /\ tableSize = 0 /\ tableDestroy = FALSE /\ DOMAIN table = {}
      /\ table = [b \in {} |-> <<>>]
  BY DEF Table!Init, Table!NoTable
<1>2. 0..(buckets - 1) = {}
  BY <1>1
<1>3. TableType
  BY <1>1, <1>2 DEF TableType
<1>4. Table!Placed
  BY <1>1 DEF Table!Placed
<1>5. Table!Stored = {}
  BY <1>1 DEF Table!Stored
<1>6. Table!Contents = Table!CS!Empty
  BY <1>5 DEF Table!Contents, Table!CS!Empty
<1> QED
  BY <1>1, <1>3, <1>4, <1>6 DEF TableInv, Table!Init, Table!CS!Init

\* A new table has all its buckets, and nothing in them.
LEMMA EmptyTable ==
    ASSUME NEW n \in Nat, buckets' = n, tableDestroy' \in BOOLEAN, tableSize' = 0,
           n = 0 => ~tableDestroy',
           table' = [b \in 0..(n - 1) |-> <<>>]
    PROVE  TableInv' /\ Table!Stored' = {} /\ Table!Contents' = Table!CS!Empty
<1>1. DOMAIN table' = 0..(n - 1) /\ \A b \in 0..(n - 1) : table'[b] = <<>>
  OBVIOUS
<1>2. \A b \in 0..(n - 1) : 1..Len(table'[b]) = {}
  BY <1>1
<1>3. TableType'
  <2>1. <<>> \in Seq(TableData)
    OBVIOUS
  <2> QED
    BY <1>1, <2>1 DEF TableType
<1>4. Table!Placed'
  BY <1>1, <1>2 DEF Table!Placed
<1>5. Table!Stored' = {}
  BY <1>1, <1>2 DEF Table!Stored
<1>6. Table!Contents' = Table!CS!Empty
  BY <1>5 DEF Table!Contents, Table!CS!Empty
<1> QED
  BY <1>3, <1>4, <1>5, <1>6 DEF TableInv

\* Contents as a map of the data, before and after a step.
LEMMA ContentsIs ==
    /\ Table!Contents = MapOf(Table!Stored)
    /\ Table!Contents' = MapOf(Table!Stored')
  BY DEF Table!Contents, MapOf

\* What a call leaves alone.
LEMMA TableFrame ==
    ASSUME TableInv, UNCHANGED <<buckets, table, tableDestroy>>,
           buckets # 0 \/ tableSize' = tableSize
    PROVE  TableInv' /\ Table!Contents' = Table!Contents
  BY DEF TableInv, TableType, Table!Placed, Table!Bucket, Table!Contents, Table!Stored

\* The scan and the map agree on whether there is a key, and on its value.
LEMMA MatchContents ==
    ASSUME TableInv, buckets > 0, NEW k \in TableKeys
    PROVE  LET m == Table!Match(k)
               list == table[Table!Bucket(k)]
           IN  /\ m = 0 <=> k \notin DOMAIN Table!Contents
               /\ m # 0 => Table!Contents[k] = list[m][2]
<1> DEFINE m == Table!Match(k)
           list == table[Table!Bucket(k)]
<1>1. UniqueKeys(Table!Stored)
  BY StoredUnique
<1>2. CASE m = 0 /\ \A d \in Table!Stored : d[1] # k
  <2>1. k \notin DOMAIN Table!Contents
    BY <1>1, <1>2, ContentsIs, MapValues
  <2> QED
    BY <1>2, <2>1
<1>3. CASE m # 0 /\ m \in 1..Len(list) /\ list[m][1] = k
  <2>1. list[m] \in Table!Stored
    <3>1. Table!Bucket(k) \in 0..(buckets - 1) /\ TableType
      BY BucketIsThere DEF TableInv
    <3>2. list[m] \in InBucket(list)
      BY <1>3 DEF InBucket
    <3> QED
      BY <3>1, <3>2, StoredIs
  <2>2. k \in DOMAIN Table!Contents /\ Table!Contents[k] = list[m][2]
    BY <1>1, <1>3, <2>1, ContentsIs, MapValues
  <2> QED
    BY <1>3, <2>2
<1> QED
  BY <1>2, <1>3, MatchDecides

\* chtbl_insert and chtbl_insert_kv.
LEMMA InsertImplements ==
    ASSUME TableInv, NEW isKv, Table!Call(isKv),
           NEW k \in TableKeys, NEW v \in TableValues, Table!Insert(k, v)
    PROVE  TableInv' /\ Table!CS!Insert(k, v)
<1>1. /\ buckets > 0 /\ buckets' = buckets /\ tableDestroy' = tableDestroy
      /\ tableDestroyed' = {}
  BY DEF Table!Call
<1>2. PICK nomem \in BOOLEAN :
        LET ret == IF Table!Match(k) # 0 THEN 1 ELSE IF nomem THEN -1 ELSE 0
        IN  /\ tableResult' = <<<<"insert", k, v>>, ret, NoValue>>
            /\ IF ret = 0
               THEN /\ table' = [table EXCEPT ![Table!Bucket(k)] = <<<<k, v>>>> \o @]
                    /\ tableSize' = tableSize + 1
               ELSE UNCHANGED <<table, tableSize>>
  BY DEF Table!Insert
<1> DEFINE ret == IF Table!Match(k) # 0 THEN 1 ELSE IF nomem THEN -1 ELSE 0
<1>3. ret \in {-1, 0, 1} /\ (ret = 1 <=> k \in DOMAIN Table!Contents)
  BY <1>1, MatchContents
<1>4. CASE ret = 0
  <2>1. Table!Match(k) = 0
    BY <1>4
  <2>2. table' = [table EXCEPT ![Table!Bucket(k)] = <<<<k, v>>>> \o @]
    BY <1>2, <1>4
  <2>3. /\ TableInv'
        /\ \A d \in Table!Stored : d[1] # k
        /\ Table!Stored' = Table!Stored \cup {<<k, v>>}
    BY <1>1, <2>1, <2>2, InsertAdds
  <2>4. Table!Contents' = [j \in DOMAIN Table!Contents \cup {k} |->
                              IF j = k THEN v ELSE Table!Contents[j]]
    BY <2>3, StoredUnique, ContentsIs, MapAdd
  <2> HIDE DEF ret
  <2>5. tableSize' = tableSize + 1 /\ tableResult' = <<<<"insert", k, v>>, ret, NoValue>>
    BY <1>2, <1>4 DEF ret
  <2> QED
    BY <1>1, <1>3, <1>4, <2>3, <2>4, <2>5 DEF Table!CS!Insert
<1>5. CASE ret # 0
  <2>1. /\ UNCHANGED <<table, tableSize>>
        /\ tableResult' = <<<<"insert", k, v>>, ret, NoValue>>
    BY <1>2, <1>5
  <2>2. TableInv' /\ Table!Contents' = Table!Contents
    BY <1>1, <2>1, TableFrame
  <2> HIDE DEF ret
  <2> QED
    BY <1>1, <1>3, <1>5, <2>1, <2>2 DEF Table!CS!Insert
<1> QED
  BY <1>4, <1>5

\* chtbl_remove and chtbl_remove_kv.
LEMMA RemoveImplements ==
    ASSUME TableInv, NEW isKv, Table!Call(isKv), NEW k \in TableKeys, Table!Remove(k)
    PROVE  TableInv' /\ Table!CS!Remove(k)
<1> DEFINE m == Table!Match(k)
           list == table[Table!Bucket(k)]
<1>1. /\ buckets > 0 /\ buckets' = buckets /\ tableDestroy' = tableDestroy
      /\ tableDestroyed' = {}
  BY DEF Table!Call
<1>2. /\ m = 0 <=> k \notin DOMAIN Table!Contents
      /\ m # 0 => Table!Contents[k] = list[m][2]
  BY <1>1, MatchContents
<1>3. CASE m = 0
  <2>1. tableResult' = <<<<"remove", k>>, -1, NoValue>> /\ UNCHANGED <<table, tableSize>>
    BY <1>3 DEF Table!Remove, Table!Prev
  <2>2. TableInv' /\ Table!Contents' = Table!Contents
    BY <1>1, <2>1, TableFrame
  <2>3. Table!Contents = [j \in DOMAIN Table!Contents \ {k} |-> Table!Contents[j]]
    BY <1>2, <1>3 DEF Table!Contents
  <2> QED
    BY <1>1, <1>2, <1>3, <2>1, <2>2, <2>3 DEF Table!CS!Remove
<1>4. CASE m # 0
  <2>1. /\ table' = [table EXCEPT ![Table!Bucket(k)] =
                        SubSeq(list, 1, m - 1) \o SubSeq(list, m + 1, Len(list))]
        /\ tableSize' = tableSize - 1
        /\ tableResult' = <<<<"remove", k>>, 0, list[m][2]>>
    <3>1. m \in 1..Len(list)
      BY <1>1, <1>4, MatchDecides DEF TableInv
    <3> HIDE DEF m, list
    <3>2. /\ Table!Prev(m) = m - 1 /\ Table!Prev(m) # Len(list)
          /\ Table!Prev(m) + 1 = m /\ Table!Prev(m) + 2 = m + 1
      BY <3>1 DEF Table!Prev
    <3> QED
      BY <1>4, <3>2 DEF Table!Remove, m, list
  <2>2. /\ TableInv'
        /\ list[m] \in Table!Stored /\ list[m][1] = k
        /\ Table!Stored' = Table!Stored \ {list[m]}
    BY <1>1, <1>4, <2>1, RemoveTakes
  <2> HIDE DEF m, list
  <2>3. Table!Contents' = [j \in DOMAIN Table!Contents \ {k} |-> Table!Contents[j]]
    BY <2>2, StoredUnique, ContentsIs, MapRemove
  <2> QED
    BY <1>1, <1>2, <1>4, <2>1, <2>2, <2>3 DEF Table!CS!Remove
<1> QED
  BY <1>3, <1>4

\* chtbl_lookup, chtbl_lookup_kv and chtbl_find_kv.
LEMMA LookupImplements ==
    ASSUME TableInv, NEW isKv, Table!Call(isKv), NEW k \in TableKeys,
           NEW op, Table!Lookup(op, k)
    PROVE  TableInv' /\ Table!CS!Find(op, k)
<1>1. /\ buckets > 0 /\ buckets' = buckets /\ tableDestroy' = tableDestroy
      /\ tableDestroyed' = {} /\ UNCHANGED <<table, tableSize>>
  BY DEF Table!Call, Table!Lookup
<1>2. TableInv' /\ Table!Contents' = Table!Contents
  BY <1>1, TableFrame
<1>3. tableResult' = IF k \in DOMAIN Table!Contents
                     THEN <<<<op, k>>, 0, Table!Contents[k]>>
                     ELSE <<<<op, k>>, -1, NoValue>>
  BY <1>1, MatchContents DEF Table!Lookup
<1> QED
  BY <1>1, <1>2, <1>3 DEF Table!CS!Find

\* chtbl_destroy.
LEMMA DestroyImplements ==
    ASSUME TableInv, Table!chtbl_destroy
    PROVE  TableInv' /\ Table!CS!Destroy
<1>1. /\ buckets > 0 /\ buckets' = 0 /\ tableSize' = 0 /\ tableDestroy' = FALSE
      /\ table' = [b \in {} |-> <<>>]
      /\ tableResult' = <<<<"destroy">>, 0, NoValue>>
  BY DEF Table!chtbl_destroy, Table!NoTable
<1>2. 0..(0 - 1) = {}
  OBVIOUS
<1>3. TableInv' /\ Table!Contents' = Table!CS!Empty
  <2>1. table' = [b \in 0..(0 - 1) |-> <<>>]
    BY <1>1, <1>2
  <2> QED
    BY <1>1, <2>1, EmptyTable
<1>4. TableType
  BY DEF TableInv
<1>5. tableDestroyed' = IF ~tableDestroy THEN {} ELSE Table!Stored
  <2>1. DOMAIN table = 0..(buckets - 1)
    BY <1>4 DEF TableType
  <2> QED
    BY <2>1 DEF Table!chtbl_destroy, Table!Stored
<1>6. Table!Stored = Table!CS!Pairs(Table!Contents)
  BY StoredUnique, ContentsIs, MapPairs
<1> QED
  BY <1>1, <1>3, <1>5, <1>6 DEF Table!CS!Destroy

\* chtbl_init and chtbl_init_kv, with and without memory.
LEMMA CreateImplements ==
    ASSUME TableInv, Table!InitFails \/ \E isKv \in BOOLEAN : Table!MakeTable(isKv)
    PROVE  TableInv' /\ Table!CS!Create
<1>1. CASE Table!InitFails
  <2>1. UNCHANGED <<buckets, tableSize, table, tableDestroy>> /\ buckets = 0
    BY <1>1 DEF Table!InitFails
  <2>2. TableInv' /\ Table!Contents' = Table!Contents
    BY <2>1, TableFrame
  <2> QED
    BY <1>1, <2>1, <2>2 DEF Table!InitFails, Table!CS!Create
<1>2. ASSUME NEW isKv \in BOOLEAN, Table!MakeTable(isKv)
      PROVE  TableInv' /\ Table!CS!Create
  <2>1. /\ buckets = 0 /\ buckets' \in Nat /\ buckets' > 0
        /\ tableDestroy' \in BOOLEAN
        /\ table' = [b \in 0..(buckets' - 1) |-> <<>>]
        /\ tableSize' = 0 /\ tableDestroyed' = {}
        /\ tableResult' = <<<<"init">>, 0, NoValue>>
    BY <1>2, TableAssumption DEF Table!MakeTable
  <2>2. Table!Contents = Table!CS!Empty /\ tableSize = 0 /\ tableDestroy = FALSE
    <3>1. TableType /\ 0..(buckets - 1) = {}
      BY <2>1 DEF TableInv
    <3>2. DOMAIN table = {} /\ tableSize = 0 /\ tableDestroy = FALSE
      BY <2>1, <3>1 DEF TableType
    <3>3. Table!Stored = {}
      BY <3>2 DEF Table!Stored
    <3> QED
      BY <3>2, <3>3 DEF Table!Contents, Table!CS!Empty
  <2>3. TableInv' /\ Table!Contents' = Table!CS!Empty
    <3> DEFINE n == buckets'
    <3>1. n \in Nat /\ n # 0 /\ buckets' = n /\ table' = [b \in 0..(n - 1) |-> <<>>]
      BY <2>1
    <3> HIDE DEF n
    <3> QED
      BY <2>1, <3>1, EmptyTable
  <2>4. ~(buckets > 0) /\ (buckets > 0)' = TRUE
    BY <2>1
  <2>5. tableDestroy' \in {tableDestroy, (buckets > 0)'}
    BY <2>1, <2>2, <2>4, Zenon
  <2>6. UNCHANGED <<Table!Contents, tableSize>>
    BY <2>1, <2>2, <2>3
  <2> QED
    BY <2>1, <2>3, <2>4, <2>5, <2>6 DEF Table!CS!Create
<1> QED
  BY <1>1, <1>2

\* Every call of chtbl.c is a call of the abstract table.
LEMMA TableStep ==
    ASSUME TableInv, [Table!Next]_(Table!vars)
    PROVE  TableInv' /\ [Table!CS!Next]_(Table!CS!vars)
<1>1. CASE Table!InitFails \/ Table!chtbl_init \/ Table!chtbl_init_kv
  <2>1. Table!InitFails \/ \E isKv \in BOOLEAN : Table!MakeTable(isKv)
    BY <1>1 DEF Table!chtbl_init, Table!chtbl_init_kv
  <2>2. TableInv' /\ Table!CS!Create
    BY <2>1, CreateImplements
  <2> QED
    BY <2>2 DEF Table!CS!Next
<1>2. CASE Table!chtbl_destroy
  BY <1>2, DestroyImplements DEF Table!CS!Next
<1>3. CASE Table!chtbl_insert \/ Table!chtbl_insert_kv
  <2>1. PICK isKv \in BOOLEAN, k \in TableKeys, v \in TableValues :
           Table!Call(isKv) /\ Table!Insert(k, v)
    BY <1>3 DEF Table!chtbl_insert, Table!chtbl_insert_kv
  <2>2. TableInv' /\ Table!CS!Insert(k, v)
    BY <2>1, InsertImplements
  <2> QED
    BY <2>2 DEF Table!CS!Next
<1>4. CASE Table!chtbl_remove \/ Table!chtbl_remove_kv
  <2>1. PICK isKv \in BOOLEAN, k \in TableKeys : Table!Call(isKv) /\ Table!Remove(k)
    BY <1>4 DEF Table!chtbl_remove, Table!chtbl_remove_kv
  <2>2. TableInv' /\ Table!CS!Remove(k)
    BY <2>1, RemoveImplements
  <2> QED
    BY <2>2 DEF Table!CS!Next
<1>5. CASE Table!chtbl_lookup \/ Table!chtbl_lookup_kv \/ Table!chtbl_find_kv
  <2>1. PICK isKv \in BOOLEAN, k \in TableKeys, op \in {"lookup", "find"} :
           Table!Call(isKv) /\ Table!Lookup(op, k)
    BY <1>5 DEF Table!chtbl_lookup, Table!chtbl_lookup_kv, Table!chtbl_find_kv
  <2>2. TableInv' /\ Table!CS!Find(op, k)
    BY <2>1, LookupImplements
  <2> QED
    BY <2>2 DEF Table!CS!Next
<1>6. CASE UNCHANGED Table!vars
  <2>1. UNCHANGED <<buckets, tableSize, table, tableDestroy, tableDestroyed, tableResult>>
    BY <1>6 DEF Table!vars
  <2>2. TableInv' /\ Table!Contents' = Table!Contents
    BY <2>1, TableFrame
  <2>3. (buckets > 0)' = (buckets > 0)
    BY <2>1
  <2> QED
    BY <2>1, <2>2, <2>3 DEF Table!CS!vars
<1> QED
  BY <1>1, <1>2, <1>3, <1>4, <1>5, <1>6 DEF Table!Next

\* chtbl.c: every datum is in the bucket in which the scans look for it, and
\* no key is stored twice, whatever the hash function and number of buckets.
THEOREM TableInvariance == Table!Spec => []TableInv
<1>1. Table!Init => TableInv
  BY TableInit
<1>2. TableInv /\ [Table!Next]_(Table!vars) => TableInv'
  BY TableStep
<1> QED
  BY <1>1, <1>2, PTL DEF Table!Spec

\* chtbl.c implements the map of CHTblSpec: what was inserted is found until
\* it is removed, and chtbl_destroy hands what is left to the callback, for
\* any keys, hash function and number of buckets.
THEOREM TableImplements == Table!Spec => TableRefines
<1>1. Table!Init => Table!CS!Init
  BY TableInit
<1>2. TableInv /\ [Table!Next]_(Table!vars) => [Table!CS!Next]_(Table!CS!vars)
  BY TableStep
<1> QED
  BY <1>1, <1>2, TableInvariance, PTL
  DEF Table!Spec, TableRefines, Table!Refines, Table!CS!Spec
=============================================================================
