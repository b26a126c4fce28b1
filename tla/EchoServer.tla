----------------------------- MODULE EchoServer -----------------------------
(***************************************************************************)
(* lib/libevent/lowlevel_libevent_server.c: a line echo server on raw      *)
(* libevent events, seen through one connection.  do_read collects bytes   *)
(* in a fixed buffer and asks for a write at every newline; do_write sends *)
(* what is complete.  The callbacks run one at a time in the event loop    *)
(* and are cut into their loop iterations; the peer and the kernel act at  *)
(* any moment in between.                                                  *)
(*                                                                         *)
(* A byte is known by its position in the peer's stream; all that the code *)
(* looks at is whether it is a newline.                                    *)
(***************************************************************************)
EXTENDS Integers, Sequences

CONSTANTS
    MAX_LINE,     \* size of the buffer, 80 in the code
    MaxBytes      \* bound on the peer's stream

ASSUME ConstantsAssumption ==
    /\ MAX_LINE \in Nat \ {0}
    /\ MaxBytes \in Nat

VARIABLES
    conn,          \* "none", "open", or "freed" after free_fd_state
    at,            \* "loop" or the callback that runs: "read", "write"
    stream,        \* the peer's bytes so far: TRUE for a newline
    eof,           \* the peer has closed its side
    received,      \* how many bytes of stream recv has returned
    buffer, buffer_used, n_written, write_upto,
    write_event,   \* write_event is added
    accepted,      \* history: positions of the bytes stored in the buffer
    out            \* positions of the bytes sent back

vars == <<conn, at, stream, eof, received, buffer, buffer_used, n_written,
          write_upto, write_event, accepted, out>>

peerVars == <<stream, eof>>
stateVars == <<buffer, buffer_used, n_written, write_upto>>

Positions == 1..MaxBytes

Init ==
    /\ conn = "none"
    /\ at = "loop"
    /\ stream = <<>>
    /\ eof = FALSE
    /\ received = 0
    /\ buffer = [i \in 1..MAX_LINE |-> 0]
    /\ buffer_used = 0
    /\ n_written = 0
    /\ write_upto = 0
    /\ write_event = FALSE
    /\ accepted = <<>>
    /\ out = <<>>

-----------------------------------------------------------------------------
(* The peer *)

PeerSend ==
    /\ conn = "open"
    /\ ~eof
    /\ Len(stream) < MaxBytes
    /\ \E newline \in BOOLEAN : stream' = Append(stream, newline)
    /\ UNCHANGED <<conn, at, eof, received, stateVars, write_event, accepted,
                   out>>

PeerClose ==
    /\ conn = "open"
    /\ eof' = TRUE
    /\ UNCHANGED <<conn, at, stream, received, stateVars, write_event,
                   accepted, out>>

-----------------------------------------------------------------------------
(* The server *)

\* do_accept and alloc_fd_state.
Accept ==
    /\ conn = "none"
    /\ conn' = "open"
    /\ buffer_used' = 0
    /\ n_written' = 0
    /\ write_upto' = 0
    /\ UNCHANGED <<at, peerVars, received, buffer, write_event, accepted, out>>

\* free_fd_state removes both events and ends the callback.
Free ==
    /\ conn' = "freed"
    /\ at' = "loop"
    /\ write_event' = FALSE

\* The socket is readable, or do_read was called for an error on it.
ReadReady ==
    /\ conn = "open"
    /\ at = "loop"
    /\ received < Len(stream) \/ eof
    /\ at' = "read"
    /\ UNCHANGED <<conn, peerVars, received, stateVars, write_event, accepted,
                   out>>

\* Mutant of ReadByte: the bound check is off by one.
ReadByteOverflow ==
    /\ at = "read"
    /\ received < Len(stream)
    /\ received' = received + 1
    /\ IF buffer_used <= MAX_LINE
       THEN /\ buffer' = [buffer EXCEPT ![buffer_used + 1] = received + 1]
            /\ buffer_used' = buffer_used + 1
            /\ accepted' = Append(accepted, received + 1)
       ELSE UNCHANGED <<buffer, buffer_used, accepted>>
    /\ IF stream[received + 1]
       THEN write_event' = TRUE /\ write_upto' = buffer_used'
       ELSE UNCHANGED <<write_event, write_upto>>
    /\ UNCHANGED <<conn, at, peerVars, n_written, out>>

\* Mutant of ReadByte: event_add is forgotten once the buffer is full.
ReadByteNoEvent ==
    /\ at = "read"
    /\ received < Len(stream)
    /\ received' = received + 1
    /\ IF buffer_used < MAX_LINE
       THEN /\ buffer' = [buffer EXCEPT ![buffer_used + 1] = received + 1]
            /\ buffer_used' = buffer_used + 1
            /\ accepted' = Append(accepted, received + 1)
       ELSE UNCHANGED <<buffer, buffer_used, accepted>>
    /\ IF stream[received + 1]
       THEN write_event' = (write_event \/ buffer_used < MAX_LINE) /\ write_upto' = buffer_used'
       ELSE UNCHANGED <<write_event, write_upto>>
    /\ UNCHANGED <<conn, at, peerVars, n_written, out>>

\* One byte of the for loop of do_read: a byte that does not fit is dropped,
\* but a newline asks for the write all the same.
ReadByte ==
    /\ at = "read"
    /\ received < Len(stream)
    /\ received' = received + 1
    /\ IF buffer_used < MAX_LINE
       THEN /\ buffer' = [buffer EXCEPT ![buffer_used + 1] = received + 1]
            /\ buffer_used' = buffer_used + 1
            /\ accepted' = Append(accepted, received + 1)
       ELSE UNCHANGED <<buffer, buffer_used, accepted>>
    /\ IF stream[received + 1]
       THEN write_event' = TRUE /\ write_upto' = buffer_used'
       ELSE UNCHANGED <<write_event, write_upto>>
    /\ UNCHANGED <<conn, at, peerVars, n_written, out>>

\* recv returns -1.  Because errno is assigned and not compared, do_read
\* returns for every error as it does for EAGAIN.
ReadAgain ==
    /\ at = "read"
    /\ at' = "loop"
    /\ UNCHANGED <<conn, peerVars, received, stateVars, write_event, accepted,
                   out>>

\* recv returns 0: the connection's state is freed, unsent lines included.
ReadEof ==
    /\ at = "read"
    /\ received = Len(stream)
    /\ eof
    /\ Free
    /\ UNCHANGED <<peerVars, received, stateVars, accepted, out>>

WriteReady ==
    /\ conn = "open"
    /\ at = "loop"
    /\ write_event
    /\ at' = "write"
    /\ UNCHANGED <<conn, peerVars, received, stateVars, write_event, accepted,
                   out>>

\* send takes some of what is complete.
WriteSome ==
    /\ at = "write"
    /\ n_written < write_upto
    /\ \E k \in 1..(write_upto - n_written) :
          /\ out' = out \o SubSeq(buffer, n_written + 1, n_written + k)
          /\ n_written' = n_written + k
    /\ UNCHANGED <<conn, at, peerVars, received, buffer, buffer_used,
                   write_upto, write_event, accepted>>

\* Mutant of WriteBlocked: the event is deleted although bytes are left.
WriteBlockedDeletes ==
    /\ at = "write"
    /\ n_written < write_upto
    /\ at' = "loop"
    /\ write_event' = FALSE
    /\ UNCHANGED <<conn, peerVars, received, stateVars, accepted, out>>

\* send fails with EAGAIN; the event is persistent.
WriteBlocked ==
    /\ at = "write"
    /\ n_written < write_upto
    /\ at' = "loop"
    /\ UNCHANGED <<conn, peerVars, received, stateVars, write_event, accepted,
                   out>>

\* send fails otherwise.
WriteFailed ==
    /\ at = "write"
    /\ n_written < write_upto
    /\ Free
    /\ UNCHANGED <<peerVars, received, stateVars, accepted, out>>

\* Mutant of WriteDone: the buffer is emptied although an incomplete line
\* follows what was sent.
WriteDoneDropsRest ==
    /\ at = "write"
    /\ n_written >= write_upto
    /\ n_written' = 1
    /\ write_upto' = 1
    /\ buffer_used' = 1
    /\ write_event' = FALSE
    /\ at' = "loop"
    /\ UNCHANGED <<conn, peerVars, received, buffer, accepted, out>>

\* All that is complete was sent.  If nothing incomplete follows it, the
\* three indices go back to 1 (not to 0), so that the first cell of the
\* buffer is used only once in the life of a connection.
WriteDone ==
    /\ at = "write"
    /\ n_written >= write_upto
    /\ IF n_written = buffer_used
       THEN n_written' = 1 /\ write_upto' = 1 /\ buffer_used' = 1
       ELSE UNCHANGED <<n_written, write_upto, buffer_used>>
    /\ write_event' = FALSE
    /\ at' = "loop"
    /\ UNCHANGED <<conn, peerVars, received, buffer, accepted, out>>

-----------------------------------------------------------------------------
Next ==
    \/ PeerSend
    \/ PeerClose
    \/ Accept
    \/ ReadReady
    \/ ReadByte
    \/ ReadAgain
    \/ ReadEof
    \/ WriteReady
    \/ WriteSome
    \/ WriteBlocked
    \/ WriteFailed
    \/ WriteDone

Spec == Init /\ [][Next]_vars

\* The event loop calls back for what is ready (libevent serves all active
\* events of a round), recv ends with the bytes there are, and the peer
\* reads its replies, so that send succeeds again and again.
Fairness ==
    /\ SF_vars(ReadReady)
    /\ WF_vars(ReadByte \/ ReadAgain \/ ReadEof)
    /\ SF_vars(WriteReady)
    /\ SF_vars(WriteSome)
    /\ WF_vars(WriteSome \/ WriteBlocked \/ WriteDone)

FairSpec == Spec /\ Fairness

-----------------------------------------------------------------------------
(* Properties *)

\* The buffer and its three indices (size_t in the code: none may go below
\* zero) have their types, and no more is received than was sent.
TypeOK ==
    /\ conn \in {"none", "open", "freed"}
    /\ at \in {"loop", "read", "write"}
    /\ stream \in Seq(BOOLEAN)
    /\ Len(stream) <= MaxBytes
    /\ eof \in BOOLEAN
    /\ received \in 0..Len(stream)
    /\ buffer \in [1..MAX_LINE -> 0..MaxBytes]
    /\ buffer_used \in Nat
    /\ n_written \in Nat
    /\ write_upto \in Nat
    /\ write_event \in BOOLEAN
    /\ accepted \in Seq(Positions)
    /\ out \in Seq(0..MaxBytes)

\* Neither callback leaves the buffer: do_read stores and do_write reads
\* inside it, and the lengths passed to send never wrap (size_t).
IndicesOrdered ==
    /\ n_written <= write_upto
    /\ write_upto <= buffer_used
    /\ buffer_used <= MAX_LINE

\* While a complete line is unsent, its write event stays registered: no
\* order of reads, partial writes and EAGAINs leaves a line behind for good.
LinePendingHasEvent ==
    conn = "open" /\ n_written < write_upto => write_event

\* What was sent, followed by what is still in the buffer, is what was
\* stored, in the order of arrival: nothing is sent twice, skipped, or read
\* from a cell that was not filled (the reset to 1 included).
EchoInOrder ==
    conn = "open" =>
        out \o SubSeq(buffer, n_written + 1, buffer_used) = accepted

\* Callbacks run only for a connection that exists, and nothing has moved
\* before it does.
Callbacks ==
    /\ at # "loop" => conn = "open"
    /\ conn = "none" => out = <<>> /\ accepted = <<>>

\* The inductive invariant of the proofs in EchoServerProofs.
IInv ==
    /\ TypeOK
    /\ IndicesOrdered
    /\ LinePendingHasEvent
    /\ EchoInOrder
    /\ Callbacks

\* A complete line is eventually sent, unless the connection goes away.
LineIsSent ==
    \A n \in 1..MaxBytes :
        (conn = "open" /\ Len(out) < n /\ n <= Len(accepted) - (buffer_used - write_upto))
            ~> (Len(out) >= n \/ conn = "freed")
=============================================================================
