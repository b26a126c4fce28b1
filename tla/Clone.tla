------------------------------- MODULE Clone -------------------------------
(***************************************************************************)
(* lib/zeromq/clone: clonesrv2.c publishes numbered updates of a key-value *)
(* map and passes each on to its state_manager thread, which answers       *)
(* requests for a snapshot; clonecli2.c subscribes, asks for a snapshot    *)
(* and applies the updates that are newer.  clonesrv1.c and clonecli1.c do *)
(* without snapshots: the client has what it has received.  Which of the   *)
(* two pairs runs is chosen at the start.  Messages are those of           *)
(* kvsimple.c.                                                             *)
(*                                                                         *)
(* An update is known by its number, and so is a value in a map: the entry *)
(* of a key is the number of the update it was stored from, 0 if the map   *)
(* does not have the key.  ZeroMQ is external: all sockets are FIFO, a     *)
(* subscription takes effect some time after connect, and PUB drops what a *)
(* subscriber's full queue cannot take.  A snapshot fits the queues of its *)
(* sockets.                                                                *)
(***************************************************************************)
EXTENDS Integers, Sequences

CONSTANTS
    Keys,
    Clients,
    Base,          \* values of a byte, 256 in the code
    HighWater,     \* messages a subscriber's queue holds
    MaxUpdates     \* bound: updates published

ASSUME CloneAssumption ==
    /\ Base \in Nat /\ Base >= 2
    /\ HighWater \in Nat \ {0}
    /\ MaxUpdates \in Nat

VARIABLES
    model,         \* 1 or 2: the pair of programs
    sequence,      \* of main: number of the update made last
    sending,       \* main has published it and not passed it on
    key,           \* history: the key of each update
    pipe,          \* updates on the way to state_manager
    kvmap,         \* of state_manager
    mgrSequence,   \* state_manager's variable sequence
    at,            \* each client: "start", "snapshot" or "updates"
    asked,         \* clients whose ICANHAZ? has not been answered
    answer,        \* messages of the snapshot on the way to each client
    subscribed,    \* clients whose subscription is in force
    queue,         \* updates in each subscriber's queue
    missed,        \* history: updates that were never put there
    snap,          \* history: number of the client's snapshot
    map,           \* kvmap of each client
    seen           \* sequence of each client

serverVars == <<model, sequence, sending, key, pipe, kvmap, mgrSequence>>
clientVars == <<at, snap, map, seen>>
netVars == <<asked, answer, subscribed, queue, missed>>
vars == <<serverVars, clientVars, netVars>>

Updates == 1..MaxUpdates
Numbers == 0..MaxUpdates

-----------------------------------------------------------------------------
(* kvsimple.c *)

\* The powers of Base for the eight bytes.
Powers ==
    LET b2 == Base * Base
        b4 == b2 * b2
    IN  <<1, Base, b2, b2 * Base, b4, b4 * Base, b4 * b2, b4 * b2 * Base>>

Power(n) == Powers[n + 1]

\* kvmsg_set_sequence: eight bytes, the most significant first.
Frame(n) == [i \in 0..7 |-> (n \div Power(7 - i)) % Base]

\* Mutant of Shift: byte 5 is shifted by two bytes.
ShiftByPlace(i) == Power(7 - i)

\* By how much kvmsg_sequence shifts byte i.  Byte 5, which should be shifted
\* by two bytes, is shifted by 26 bits: three bytes and two bits.
Shift(i) == IF i = 5 THEN 4 * Power(3) ELSE Power(7 - i)

kvmsg_sequence(frame) ==
    frame[0] * Shift(0) + frame[1] * Shift(1) + frame[2] * Shift(2)
    + frame[3] * Shift(3) + frame[4] * Shift(4) + frame[5] * Shift(5)
    + frame[6] * Shift(6) + frame[7] * Shift(7)

\* The number that arrives when n is sent.
Wire(n) == kvmsg_sequence(Frame(n))

\* The map with update n, of key k, in the place of what it had.
kvmsg_store(k, n, hash) == [hash EXCEPT ![k] = n]

\* Messages of the snapshot: the stored updates, and the end of it with the
\* manager's sequence; upto is history, the number of the last stored update.
Stored(n) == [end |-> FALSE, number |-> n, upto |-> 0]
KTHXBAI(n, upto) == [end |-> TRUE, number |-> n, upto |-> upto]

-----------------------------------------------------------------------------
Init ==
    /\ model \in {1, 2}
    /\ sequence = 0
    /\ sending = FALSE
    /\ key = <<>>
    /\ pipe = <<>>
    /\ kvmap = [k \in Keys |-> 0]
    /\ mgrSequence = 0
    /\ at = [c \in Clients |-> "start"]
    /\ asked = {}
    /\ answer = [c \in Clients |-> <<>>]
    /\ subscribed = {}
    /\ queue = [c \in Clients |-> <<>>]
    /\ missed = [c \in Clients |-> {}]
    /\ snap = [c \in Clients |-> 0]
    /\ map = [c \in Clients |-> [k \in Keys |-> 0]]
    /\ seen = [c \in Clients |-> 0]

-----------------------------------------------------------------------------
(* clonesrv2.c and clonesrv1.c *)

\* The subscribers whose queue takes another message.
Reached == {c \in subscribed : Len(queue[c]) < HighWater}

\* main makes an update and sends it to the subscribers.
Send ==
    /\ sequence < MaxUpdates
    /\ sequence' = sequence + 1
    /\ \E k \in Keys : key' = Append(key, k)
    /\ queue' = [c \in Clients |-> IF c \in Reached
                                   THEN Append(queue[c], sequence + 1)
                                   ELSE queue[c]]
    /\ missed' = [c \in Clients |-> IF c \in Reached THEN missed[c]
                                    ELSE missed[c] \cup {sequence + 1}]
    /\ UNCHANGED <<model, clientVars, asked, answer, subscribed>>

Publish ==
    /\ model = 2
    /\ ~sending
    /\ Send
    /\ sending' = TRUE
    /\ UNCHANGED <<pipe, kvmap, mgrSequence>>

\* clonesrv1.c stores the update itself.
PublishAndStore ==
    /\ model = 1
    /\ Send
    /\ kvmap' = kvmsg_store(key'[sequence'], sequence', kvmap)
    /\ UNCHANGED <<sending, pipe, mgrSequence>>

\* main passes it on to state_manager.
PassOn ==
    /\ sending
    /\ sending' = FALSE
    /\ pipe' = Append(pipe, sequence)
    /\ UNCHANGED <<model, sequence, key, kvmap, mgrSequence, clientVars, netVars>>

\* state_manager stores an update.
Store ==
    /\ pipe # <<>>
    /\ pipe' = Tail(pipe)
    /\ kvmap' = kvmsg_store(key[Head(pipe)], Head(pipe), kvmap)
    /\ mgrSequence' = Wire(Head(pipe))
    /\ UNCHANGED <<model, sequence, sending, key, clientVars, netVars>>

\* How many updates state_manager has stored.
Taken == sequence - Len(pipe) - (IF sending THEN 1 ELSE 0)

\* Orders in which zhash_foreach may go through the entries of the map.
Listings ==
    LET entries == {kvmap[k] : k \in Keys} \ {0}
    IN  {s \in UNION {[1..n -> entries] : n \in 0..MaxUpdates} :
            /\ \A e \in entries : \E i \in DOMAIN s : s[i] = e
            /\ \A i, j \in DOMAIN s : s[i] = s[j] => i = j}

\* Mutant of Snapshot: KTHXBAI carries main's sequence, not state_manager's.
SnapshotOfMain(c) ==
    /\ c \in asked
    /\ asked' = asked \ {c}
    /\ \E s \in Listings :
          answer' = [answer EXCEPT ![c] =
                       Append([i \in DOMAIN s |-> Stored(s[i])],
                              KTHXBAI(sequence, Taken))]
    /\ UNCHANGED <<serverVars, clientVars, subscribed, queue, missed>>

\* state_manager answers a request: the entries, and KTHXBAI with its number.
Snapshot(c) ==
    /\ c \in asked
    /\ asked' = asked \ {c}
    /\ \E s \in Listings :
          answer' = [answer EXCEPT ![c] =
                       Append([i \in DOMAIN s |-> Stored(s[i])],
                              KTHXBAI(mgrSequence, Taken))]
    /\ UNCHANGED <<serverVars, clientVars, subscribed, queue, missed>>

-----------------------------------------------------------------------------
(* clonecli2.c and clonecli1.c *)

\* The client has connected both sockets and asks for a snapshot.
Ask(c) ==
    /\ model = 2
    /\ at[c] = "start"
    /\ at' = [at EXCEPT ![c] = "snapshot"]
    /\ asked' = asked \cup {c}
    /\ UNCHANGED <<serverVars, snap, map, seen, answer, subscribed, queue,
                   missed>>

\* clonecli1.c has connected and waits for updates at once.
Join(c) ==
    /\ model = 1
    /\ at[c] = "start"
    /\ at' = [at EXCEPT ![c] = "updates"]
    /\ UNCHANGED <<serverVars, snap, map, seen, netVars>>

\* The publisher learns of the subscription.
Subscribe(c) ==
    /\ at[c] # "start"
    /\ c \notin subscribed
    /\ subscribed' = subscribed \cup {c}
    /\ UNCHANGED <<serverVars, clientVars, asked, answer, queue, missed>>

\* A message of the snapshot: kvmsg_store, or the end.
ReadSnapshot(c) ==
    /\ at[c] = "snapshot"
    /\ answer[c] # <<>>
    /\ answer' = [answer EXCEPT ![c] = Tail(@)]
    /\ LET m == Head(answer[c])
       IN  IF m.end
           THEN /\ at' = [at EXCEPT ![c] = "updates"]
                /\ seen' = [seen EXCEPT ![c] = Wire(m.number)]
                /\ snap' = [snap EXCEPT ![c] = m.upto]
                /\ UNCHANGED map
           ELSE /\ map' = [map EXCEPT ![c] = kvmsg_store(key[m.number], m.number, @)]
                /\ UNCHANGED <<at, seen, snap>>
    /\ UNCHANGED <<serverVars, asked, subscribed, queue, missed>>

\* Mutant of ReadUpdate: old updates are applied too.
ReadUpdateAlways(c) ==
    /\ model = 2
    /\ at[c] = "updates"
    /\ queue[c] # <<>>
    /\ queue' = [queue EXCEPT ![c] = Tail(@)]
    /\ LET n == Head(queue[c])
       IN  /\ seen' = [seen EXCEPT ![c] = Wire(n)]
           /\ map' = [map EXCEPT ![c] = kvmsg_store(key[n], n, @)]
    /\ UNCHANGED <<serverVars, at, snap, asked, answer, subscribed, missed>>

\* An update from the subscription: stored if it is newer.
ReadUpdate(c) ==
    /\ model = 2
    /\ at[c] = "updates"
    /\ queue[c] # <<>>
    /\ queue' = [queue EXCEPT ![c] = Tail(@)]
    /\ LET n == Head(queue[c])
       IN  IF Wire(n) > seen[c]
           THEN /\ seen' = [seen EXCEPT ![c] = Wire(n)]
                /\ map' = [map EXCEPT ![c] = kvmsg_store(key[n], n, @)]
           ELSE UNCHANGED <<seen, map>>
    /\ UNCHANGED <<serverVars, at, snap, asked, answer, subscribed, missed>>

\* clonecli1.c stores every update and counts it.
ReadEvery(c) ==
    /\ model = 1
    /\ at[c] = "updates"
    /\ queue[c] # <<>>
    /\ queue' = [queue EXCEPT ![c] = Tail(@)]
    /\ map' = [map EXCEPT ![c] = kvmsg_store(key[Head(queue[c])], Head(queue[c]), @)]
    /\ seen' = [seen EXCEPT ![c] = @ + 1]
    /\ UNCHANGED <<serverVars, at, snap, asked, answer, subscribed, missed>>

-----------------------------------------------------------------------------
Next ==
    \/ Publish \/ PassOn \/ Store \/ PublishAndStore
    \/ \E c \in Clients :
          \/ Snapshot(c) \/ Ask(c) \/ Subscribe(c)
          \/ ReadSnapshot(c) \/ ReadUpdate(c)
          \/ Join(c) \/ ReadEvery(c)

Spec == Init /\ [][Next]_vars

-----------------------------------------------------------------------------
(* Properties *)

\* Numbers, queues and maps have their types; a subscriber's queue never
\* holds more than its high-water mark.
TypeOK ==
    /\ model \in {1, 2}
    /\ sequence \in Numbers
    /\ sending \in BOOLEAN
    /\ key \in Seq(Keys)
    /\ pipe \in Seq(Updates)
    /\ kvmap \in [Keys -> Numbers]
    /\ mgrSequence \in Nat
    /\ at \in [Clients -> {"start", "snapshot", "updates"}]
    /\ asked \in SUBSET Clients
    /\ \A c \in Clients : \A i \in 1..Len(answer[c]) :
          answer[c][i].number \in Nat /\ answer[c][i].upto \in Numbers
    /\ subscribed \in SUBSET Clients
    /\ queue \in [Clients -> Seq(Updates)]
    /\ \A c \in Clients : Len(queue[c]) <= HighWater
    /\ missed \in [Clients -> SUBSET Updates]
    /\ snap \in [Clients -> Numbers]
    /\ map \in [Clients -> [Keys -> Numbers]]
    /\ seen \in [Clients -> Nat]

\* n is the latest update of the set S, 0 if there is none.
Latest(S, n) ==
    /\ n \in S \/ (n = 0 /\ S = {})
    /\ \A m \in S : m <= n

\* The updates of key k that a client has to have: those of its snapshot, and
\* of the later ones up to its sequence those the network did not drop.
\* Without snapshots, the ones that have left its queue.
Known(c, k) ==
    {n \in 1..sequence : /\ key[n] = k
                         /\ n <= snap[c] \/ n \notin missed[c]
                         /\ IF model = 2 THEN Wire(n) <= seen[c]
                            ELSE \A i \in 1..Len(queue[c]) : queue[c][i] # n}

\* The first number whose third byte from the right does not hold it: 2^24.
Limit == Base * Base * Base

\* The codec can be trusted up to number n: each number arrives as a larger
\* one than the number before it, and passing one on a second time, as the snapshot
\* does, leaves it alone.
Trusted(n) ==
    /\ \A i \in 1..n : Wire(i - 1) < Wire(i)
    /\ \A i \in 0..n : Wire(Wire(i)) = Wire(i)

\* The shift of 26 bits in kvmsg_sequence does no harm to the first 2^24 - 1
\* updates, although it changes most of their numbers: whatever is compared
\* has passed through it.  From update 2^24 on the order is lost.
RangeIsExact == Trusted(sequence) <=> sequence < Limit

\* No update so far has lost its place; clonesrv1.c and clonecli1.c send
\* numbers and never look at them.
InRange == model = 2 => sequence < Limit

\* Although the snapshot is taken by another thread than the one that
\* publishes, and the subscription starts at any moment before or after it, a
\* client's map is the result of the updates it has to know: none is skipped,
\* and none is undone by an older one that was still in the queue.  In
\* particular, with a subscription in force before the snapshot and no
\* overflow, it is the server's map at the client's sequence number.  This
\* is so up to number 2^24 - 1.
ReplicaConsistent ==
    InRange => \A c \in Clients : at[c] = "updates" =>
                  \A k \in Keys : Latest(Known(c, k), map[c][k])

\* Up to number 2^24 - 1 no value of a client is replaced by an older one.
NeverBack ==
    [][InRange' => \A c \in Clients, k \in Keys : map'[c][k] >= map[c][k]]_vars
=============================================================================
