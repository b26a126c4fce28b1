-------------------------- MODULE EchoServerProofs --------------------------
(***************************************************************************)
(* TLAPS proofs about EchoServer, for any buffer size and any stream: the  *)
(* indices stay in the buffer, no complete line loses its write event, and *)
(* the bytes come back in the order in which they were stored.             *)
(***************************************************************************)
EXTENDS EchoServer, SequenceTheorems, TLAPS

Byte == 0..MaxBytes

\* The buffer is a sequence of MAX_LINE cells.
LEMMA BufferIsSeq ==
    ASSUME NEW b \in [1..MAX_LINE -> Byte]
    PROVE  b \in Seq(Byte) /\ Len(b) = MAX_LINE
  BY ConstantsAssumption

\* Storing a byte in the first free cell appends it to the used part.
LEMMA StoreAppends ==
    ASSUME NEW S, NEW b \in Seq(S), NEW e \in S, NEW u \in Nat, NEW n \in 0..u,
           u < Len(b)
    PROVE  SubSeq([b EXCEPT ![u + 1] = e], n + 1, u + 1)
             = Append(SubSeq(b, n + 1, u), e)
<1> DEFINE c == [b EXCEPT ![u + 1] = e]
<1>1. c \in Seq(S) /\ Len(c) = Len(b)
  BY ExceptSeq
<1>2. \A i \in 1..Len(b) : c[i] = IF i = u + 1 THEN e ELSE b[i]
  BY ExceptSeq
<1> HIDE DEF c
<1>3. /\ SubSeq(c, n + 1, u + 1) \in Seq(S)
      /\ Len(SubSeq(c, n + 1, u + 1)) = u + 1 - n
      /\ \A i \in 1..(u + 1 - n) : SubSeq(c, n + 1, u + 1)[i] = c[n + i]
  <2>1. \A i \in (n + 1)..(u + 1) : c[i] \in S
    BY <1>1, ElementOfSeq
  <2> QED
    BY <2>1, SubSeqProperties
<1>4. /\ SubSeq(b, n + 1, u) \in Seq(S)
      /\ Len(SubSeq(b, n + 1, u)) = u - n
      /\ \A i \in 1..(u - n) : SubSeq(b, n + 1, u)[i] = b[n + i]
  <2>1. \A i \in (n + 1)..u : b[i] \in S
    BY ElementOfSeq
  <2> QED
    BY <2>1, SubSeqProperties
<1>5. /\ Append(SubSeq(b, n + 1, u), e) \in Seq(S)
      /\ Len(Append(SubSeq(b, n + 1, u), e)) = u - n + 1
      /\ \A i \in 1..(u - n) : Append(SubSeq(b, n + 1, u), e)[i] = b[n + i]
      /\ Append(SubSeq(b, n + 1, u), e)[u - n + 1] = e
  BY <1>4, AppendProperties
<1>6. \A i \in 1..(u + 1 - n) :
         SubSeq(c, n + 1, u + 1)[i] = Append(SubSeq(b, n + 1, u), e)[i]
  BY <1>2, <1>3, <1>5
<1> QED
  BY <1>3, <1>5, <1>6, SeqEqual DEF c

\* Appending to the second of two sequences appends to both together.
LEMMA ConcatAppend ==
    ASSUME NEW S, NEW s \in Seq(S), NEW t \in Seq(S), NEW e \in S
    PROVE  s \o Append(t, e) = Append(s \o t, e)
<1>1. Append(t, e) = t \o <<e>> /\ Append(s \o t, e) = (s \o t) \o <<e>>
  BY AppendIsConcat, ConcatProperties
<1>2. <<e>> \in Seq(S)
  OBVIOUS
<1> QED
  BY <1>1, <1>2, ConcatAssociative

\* The same facts about sequences of bytes.
LEMMA ByteConcat ==
    /\ \A s, t \in Seq(Byte) : \A e \in Byte :
          s \o Append(t, e) = Append(s \o t, e)
    /\ \A s, t, u \in Seq(Byte) : (s \o t) \o u = s \o (t \o u)
<1>1. ASSUME NEW s \in Seq(Byte), NEW t \in Seq(Byte), NEW e \in Byte
      PROVE  s \o Append(t, e) = Append(s \o t, e)
  BY ConcatAppend
<1>2. ASSUME NEW s \in Seq(Byte), NEW t \in Seq(Byte), NEW u \in Seq(Byte)
      PROVE  (s \o t) \o u = s \o (t \o u)
  BY ConcatAssociative
<1> QED
  BY <1>1, <1>2

-----------------------------------------------------------------------------
\* The invariant holds before do_accept.
LEMMA InitIInv == Init => IInv
<1> SUFFICES ASSUME Init PROVE IInv
  OBVIOUS
<1> USE ConstantsAssumption DEF Init
<1>1. /\ stream \in Seq(BOOLEAN) /\ Len(stream) = 0
      /\ accepted \in Seq(Positions) /\ out \in Seq(Byte)
  OBVIOUS
<1>2. buffer \in [1..MAX_LINE -> Byte]
  BY DEF Byte
<1>3. TypeOK
  <2>1. /\ conn \in {"none", "open", "freed"} /\ at \in {"loop", "read", "write"}
        /\ eof \in BOOLEAN /\ write_event \in BOOLEAN
    OBVIOUS
  <2>2. /\ Len(stream) <= MaxBytes /\ received \in 0..Len(stream)
        /\ buffer_used \in Nat /\ n_written \in Nat /\ write_upto \in Nat
    BY <1>1
  <2> QED
    BY <1>1, <1>2, <2>1, <2>2 DEF TypeOK, Byte
<1>4. IndicesOrdered /\ LinePendingHasEvent /\ EchoInOrder /\ Callbacks
  BY DEF IndicesOrdered, LinePendingHasEvent, EchoInOrder, Callbacks
<1> QED
  BY <1>3, <1>4 DEF IInv

\* A byte that do_read stores extends both the used part of the buffer and
\* the history of stored bytes.
LEMMA ReadByteEchoes ==
    ASSUME IInv, ReadByte PROVE EchoInOrder'
<1> USE ConstantsAssumption
<1>1. /\ conn = "open"
      /\ out \o SubSeq(buffer, n_written + 1, buffer_used) = accepted
  BY DEF IInv, ReadByte, Callbacks, EchoInOrder
<1>2. CASE buffer_used < MAX_LINE
  <2>1. /\ buffer' = [buffer EXCEPT ![buffer_used + 1] = received + 1]
        /\ buffer_used' = buffer_used + 1
        /\ accepted' = Append(accepted, received + 1)
        /\ n_written' = n_written /\ out' = out
    BY <1>2 DEF ReadByte
  <2>2. /\ buffer \in Seq(Byte) /\ Len(buffer) = MAX_LINE
        /\ out \in Seq(Byte) /\ received + 1 \in Byte
        /\ buffer_used \in Nat /\ n_written \in 0..buffer_used
    <3>1. buffer \in [1..MAX_LINE -> Byte] /\ out \in Seq(Byte)
      BY DEF IInv, TypeOK, Byte
    <3>2. received + 1 \in Byte /\ buffer_used \in Nat /\ n_written \in 0..buffer_used
      BY DEF IInv, TypeOK, IndicesOrdered, ReadByte, Byte
    <3> QED
      BY <3>1, <3>2, BufferIsSeq
  <2>3. SubSeq(buffer, n_written + 1, buffer_used) \in Seq(Byte)
    <3>1. \A i \in (n_written + 1)..buffer_used : buffer[i] \in Byte
      BY <1>2, <2>2, ElementOfSeq
    <3> QED
      BY <2>2, <3>1, SubSeqProperties
  <2>4. SubSeq(buffer', n_written' + 1, buffer_used')
          = Append(SubSeq(buffer, n_written + 1, buffer_used), received + 1)
    BY <1>2, <2>1, <2>2, StoreAppends
  <2> DEFINE t == SubSeq(buffer, n_written + 1, buffer_used)
  <2> HIDE DEF t
  <2>5. out \o Append(t, received + 1) = Append(out \o t, received + 1)
    <3>1. out \in Seq(Byte) /\ t \in Seq(Byte) /\ received + 1 \in Byte
      BY <2>2, <2>3 DEF t
    <3> QED
      BY <3>1, ByteConcat
  <2>6. out' \o SubSeq(buffer', n_written' + 1, buffer_used')
          = Append(out \o t, received + 1)
    BY <2>1, <2>4, <2>5 DEF t
  <2> QED
    BY <1>1, <2>1, <2>6 DEF EchoInOrder, t
<1>3. CASE ~(buffer_used < MAX_LINE)
  BY <1>1, <1>3 DEF ReadByte, EchoInOrder
<1> QED
  BY <1>2, <1>3

\* What send takes moves from the buffer to the end of the output.
LEMMA WriteSomeEchoes ==
    ASSUME IInv, WriteSome PROVE EchoInOrder'
<1> USE ConstantsAssumption
<1>1. /\ conn = "open"
      /\ out \o SubSeq(buffer, n_written + 1, buffer_used) = accepted
  BY DEF IInv, WriteSome, Callbacks, EchoInOrder
<1>2. PICK k \in 1..(write_upto - n_written) :
         /\ out' = out \o SubSeq(buffer, n_written + 1, n_written + k)
         /\ n_written' = n_written + k
  BY DEF WriteSome
<1>3. /\ buffer \in Seq(Byte) /\ Len(buffer) = MAX_LINE /\ out \in Seq(Byte)
      /\ n_written \in Nat /\ buffer_used \in Nat /\ write_upto \in Nat
      /\ n_written + k <= buffer_used /\ buffer_used <= MAX_LINE
  <2>1. buffer \in [1..MAX_LINE -> Byte] /\ out \in Seq(Byte)
    BY DEF IInv, TypeOK, Byte
  <2>2. /\ n_written \in Nat /\ buffer_used \in Nat /\ write_upto \in Nat
        /\ n_written + k <= buffer_used /\ buffer_used <= MAX_LINE
    BY <1>2 DEF IInv, TypeOK, IndicesOrdered
  <2> QED
    BY <2>1, <2>2, BufferIsSeq
<1>4. /\ SubSeq(buffer, n_written + 1, n_written + k) \in Seq(Byte)
      /\ SubSeq(buffer, n_written + k + 1, buffer_used) \in Seq(Byte)
  <2>1. /\ \A i \in (n_written + 1)..(n_written + k) : buffer[i] \in Byte
        /\ \A i \in (n_written + k + 1)..buffer_used : buffer[i] \in Byte
    BY <1>3, ElementOfSeq
  <2> QED
    BY <1>3, <2>1, SubSeqProperties
<1>5. SubSeq(buffer, n_written + 1, n_written + k)
        \o SubSeq(buffer, n_written + k + 1, buffer_used)
      = SubSeq(buffer, n_written + 1, buffer_used)
  <2>1. /\ n_written + 1 \in 1..(Len(buffer) + 1)
        /\ n_written + k \in (n_written + 1 - 1)..Len(buffer)
        /\ buffer_used \in (n_written + k)..Len(buffer)
    BY <1>3
  <2> QED
    BY <1>3, <2>1, ConcatAdjacentSubSeq
<1>6. (out \o SubSeq(buffer, n_written + 1, n_written + k))
        \o SubSeq(buffer, n_written + k + 1, buffer_used) = accepted
  <2> DEFINE s == SubSeq(buffer, n_written + 1, n_written + k)
             t == SubSeq(buffer, n_written + k + 1, buffer_used)
  <2>1. s \in Seq(Byte) /\ t \in Seq(Byte) /\ out \in Seq(Byte)
    BY <1>3, <1>4
  <2>2. out \o (s \o t) = accepted
    BY <1>1, <1>5
  <2> HIDE DEF s, t
  <2>3. (out \o s) \o t = accepted
    BY <2>1, <2>2, ByteConcat
  <2> QED
    BY <2>3 DEF s, t
<1> QED
  BY <1>2, <1>6 DEF WriteSome, EchoInOrder

\* Emptying the buffer once all of it was sent changes nothing.
LEMMA WriteDoneEchoes ==
    ASSUME IInv, WriteDone PROVE EchoInOrder'
<1>1. CASE n_written = buffer_used
  <2>1. n_written' = 1 /\ buffer_used' = 1 /\ buffer' = buffer
    BY <1>1 DEF WriteDone
  <2>2. /\ SubSeq(buffer, n_written + 1, buffer_used) = <<>>
        /\ SubSeq(buffer', n_written' + 1, buffer_used') = <<>>
    <3>1. n_written \in Nat /\ buffer_used < n_written + 1
      BY <1>1 DEF IInv, TypeOK
    <3> QED
      BY <2>1, <3>1, SubSeqEmpty DEF IInv, TypeOK
  <2> QED
    BY <2>2 DEF IInv, WriteDone, EchoInOrder
<1>2. CASE n_written # buffer_used
  BY <1>2 DEF IInv, WriteDone, EchoInOrder
<1> QED
  BY <1>1, <1>2

-----------------------------------------------------------------------------
\* Every step of the peer, of the event loop and of the callbacks preserves
\* the invariant.
LEMMA NextIInv == IInv /\ [Next]_vars => IInv'
<1> SUFFICES ASSUME IInv, [Next]_vars PROVE IInv'
  OBVIOUS
<1> USE ConstantsAssumption
<1>i. TypeOK /\ IndicesOrdered /\ LinePendingHasEvent /\ EchoInOrder /\ Callbacks
  BY DEF IInv
<1>1. CASE PeerSend
  <2>1. TypeOK'
    BY <1>1, <1>i DEF PeerSend, TypeOK, stateVars
  <2>2. (IndicesOrdered /\ LinePendingHasEvent /\ EchoInOrder /\ Callbacks)'
    BY <1>1, <1>i DEF PeerSend, stateVars, IndicesOrdered,
                      LinePendingHasEvent, EchoInOrder, Callbacks
  <2> QED
    BY <2>1, <2>2 DEF IInv
<1>2. CASE PeerClose
  BY <1>2, <1>i DEF PeerClose, stateVars, IInv, TypeOK, IndicesOrdered,
                    LinePendingHasEvent, EchoInOrder, Callbacks
<1>3. CASE Accept
  <2>1. TypeOK' /\ IndicesOrdered' /\ LinePendingHasEvent' /\ Callbacks'
    BY <1>3, <1>i DEF Accept, peerVars, TypeOK, IndicesOrdered,
                      LinePendingHasEvent, Callbacks
  <2>2. EchoInOrder'
    BY <1>3, <1>i DEF Accept, EchoInOrder, Callbacks
  <2> QED
    BY <2>1, <2>2 DEF IInv
<1>4. CASE ReadReady
  BY <1>4, <1>i DEF ReadReady, peerVars, stateVars, IInv, TypeOK,
                    IndicesOrdered, LinePendingHasEvent, EchoInOrder, Callbacks
<1>5. CASE ReadByte
  <2>1. TypeOK'
    <3>1. received + 1 \in Positions /\ received + 1 \in 0..Len(stream)
      BY <1>5, <1>i DEF ReadByte, TypeOK, Positions
    <3>2. /\ buffer' \in [1..MAX_LINE -> 0..MaxBytes] /\ buffer_used' \in Nat
          /\ accepted' \in Seq(Positions)
      <4>1. CASE buffer_used < MAX_LINE
        <5>1. /\ buffer' = [buffer EXCEPT ![buffer_used + 1] = received + 1]
              /\ buffer_used' = buffer_used + 1
              /\ accepted' = Append(accepted, received + 1)
          BY <1>5, <4>1 DEF ReadByte
        <5>2. accepted' \in Seq(Positions)
          BY <1>i, <3>1, <5>1, AppendProperties DEF TypeOK
        <5>3. received + 1 \in 0..MaxBytes /\ buffer \in [1..MAX_LINE -> 0..MaxBytes]
          BY <1>i, <3>1 DEF TypeOK, Positions
        <5>4. buffer' \in [1..MAX_LINE -> 0..MaxBytes]
          BY <5>1, <5>3
        <5> QED
          BY <1>i, <5>1, <5>2, <5>4 DEF TypeOK
      <4>2. CASE ~(buffer_used < MAX_LINE)
        BY <1>5, <1>i, <4>2 DEF ReadByte, TypeOK
      <4> QED
        BY <4>1, <4>2
    <3>3. write_upto' \in Nat
      BY <1>5, <1>i, <3>2 DEF ReadByte, TypeOK
    <3>4. write_event' \in BOOLEAN
      BY <1>5, <1>i DEF ReadByte, TypeOK
    <3> QED
      BY <1>5, <1>i, <3>1, <3>2, <3>3, <3>4 DEF ReadByte, peerVars, TypeOK
  <2>2. IndicesOrdered'
    BY <1>5, <1>i DEF ReadByte, TypeOK, IndicesOrdered
  <2>3. LinePendingHasEvent' /\ Callbacks'
    BY <1>5, <1>i DEF ReadByte, TypeOK, LinePendingHasEvent, Callbacks
  <2>4. EchoInOrder'
    BY <1>5, ReadByteEchoes
  <2> QED
    BY <2>1, <2>2, <2>3, <2>4 DEF IInv
<1>6. CASE ReadAgain
  BY <1>6, <1>i DEF ReadAgain, peerVars, stateVars, IInv, TypeOK,
                    IndicesOrdered, LinePendingHasEvent, EchoInOrder, Callbacks
<1>7. CASE ReadEof
  BY <1>7, <1>i DEF ReadEof, Free, peerVars, stateVars, IInv, TypeOK,
                    IndicesOrdered, LinePendingHasEvent, EchoInOrder, Callbacks
<1>8. CASE WriteReady
  BY <1>8, <1>i DEF WriteReady, peerVars, stateVars, IInv, TypeOK,
                    IndicesOrdered, LinePendingHasEvent, EchoInOrder, Callbacks
<1>9. CASE WriteSome
  <2>1. PICK k \in 1..(write_upto - n_written) :
           /\ out' = out \o SubSeq(buffer, n_written + 1, n_written + k)
           /\ n_written' = n_written + k
    BY <1>9 DEF WriteSome
  <2>2. out' \in Seq(0..MaxBytes)
    <3>1. \A i \in (n_written + 1)..(n_written + k) : buffer[i] \in 0..MaxBytes
      BY <1>i, <2>1 DEF TypeOK, IndicesOrdered
    <3>2. SubSeq(buffer, n_written + 1, n_written + k) \in Seq(0..MaxBytes)
      BY <1>i, <2>1, <3>1, SubSeqProperties DEF TypeOK
    <3> QED
      BY <1>i, <2>1, <3>2, ConcatProperties DEF TypeOK
  <2>3. TypeOK' /\ IndicesOrdered' /\ LinePendingHasEvent' /\ Callbacks'
    BY <1>9, <1>i, <2>1, <2>2
    DEF WriteSome, peerVars, TypeOK, IndicesOrdered, LinePendingHasEvent,
        Callbacks
  <2>4. EchoInOrder'
    BY <1>9, WriteSomeEchoes
  <2> QED
    BY <2>3, <2>4 DEF IInv
<1>10. CASE WriteBlocked
  BY <1>10, <1>i DEF WriteBlocked, peerVars, stateVars, IInv, TypeOK,
                     IndicesOrdered, LinePendingHasEvent, EchoInOrder, Callbacks
<1>11. CASE WriteFailed
  BY <1>11, <1>i DEF WriteFailed, Free, peerVars, stateVars, IInv, TypeOK,
                     IndicesOrdered, LinePendingHasEvent, EchoInOrder, Callbacks
<1>12. CASE WriteDone
  <2>1. TypeOK' /\ IndicesOrdered'
    <3>1. CASE n_written = buffer_used
      <4>1. n_written' = 1 /\ write_upto' = 1 /\ buffer_used' = 1
        BY <1>12, <3>1 DEF WriteDone
      <4>2. IndicesOrdered'
        BY <4>1 DEF IndicesOrdered
      <4> QED
        BY <1>12, <1>i, <4>1, <4>2 DEF WriteDone, peerVars, TypeOK
    <3>2. CASE n_written # buffer_used
      BY <1>12, <1>i, <3>2 DEF WriteDone, peerVars, TypeOK, IndicesOrdered
    <3> QED
      BY <3>1, <3>2
  <2>2. LinePendingHasEvent' /\ Callbacks'
    BY <1>12, <1>i DEF WriteDone, TypeOK, LinePendingHasEvent, Callbacks
  <2>3. EchoInOrder'
    BY <1>12, WriteDoneEchoes
  <2> QED
    BY <2>1, <2>2, <2>3 DEF IInv
<1>13. CASE UNCHANGED vars
  BY <1>13, <1>i DEF vars, IInv, TypeOK, IndicesOrdered, LinePendingHasEvent,
                     EchoInOrder, Callbacks
<1> QED
  BY <1>1, <1>2, <1>3, <1>4, <1>5, <1>6, <1>7, <1>8, <1>9, <1>10, <1>11,
     <1>12, <1>13
  DEF Next

-----------------------------------------------------------------------------
\* The invariant holds in every reachable state.
THEOREM Invariance == Spec => []IInv
  BY InitIInv, NextIInv, PTL DEF Spec

\* The fields of fd_state keep their types.
THEOREM TypeCorrect == Spec => []TypeOK
<1>1. IInv => TypeOK
  BY DEF IInv
<1> QED
  BY <1>1, Invariance, PTL

\* No store and no send leaves the buffer, whatever its size.
THEOREM BufferSafe == Spec => []IndicesOrdered
<1>1. IInv => IndicesOrdered
  BY DEF IInv
<1> QED
  BY <1>1, Invariance, PTL

\* No complete line is left without its write event.
THEOREM NoLineForgotten == Spec => []LinePendingHasEvent
<1>1. IInv => LinePendingHasEvent
  BY DEF IInv
<1> QED
  BY <1>1, Invariance, PTL

\* The bytes come back in order, each once.
THEOREM EchoFaithful == Spec => []EchoInOrder
<1>1. IInv => EchoInOrder
  BY DEF IInv
<1> QED
  BY <1>1, Invariance, PTL
=============================================================================
