--------------------------- MODULE PatternsProofs ---------------------------
(***************************************************************************)
(* TLAPS proofs about the systems of Patterns, for any constants.          *)
(*                                                                         *)
(* The clone pattern, for any keys, clients, high-water mark and number of *)
(* updates in the range in which kvsimple.c carries numbers in their order *)
(* (CloneAssumption): a client's map is the result of the updates it has   *)
(* to have, and no value in it ever goes back.  The replica is right       *)
(* because of three things that the programs never say: the pipe to        *)
(* state_manager holds exactly the updates after those in its map          *)
(* (Server), what has left a subscriber's queue is older than what is      *)
(* still in it (Queued), and a snapshot on its way holds the latest update *)
(* of every key up to the number that ends it (Loading).                   *)
(*                                                                         *)
(* chat_server.c: the mutex gives all clients one order of the             *)
(* conversation.                                                           *)
(*                                                                         *)
(* The pirates: the results of PirateProofs, about the instance of Pirate  *)
(* that Patterns has.                                                      *)
(***************************************************************************)
EXTENDS Patterns, SequenceTheorems, TLAPS

-----------------------------------------------------------------------------
(* The clone pattern *)

Message == [end : BOOLEAN, number : Nat, upto : Numbers]

\* The types of the state, as far as the proofs need them, in range.
CloneType ==
    /\ model \in {1, 2}
    /\ sequence \in Numbers
    /\ model = 2 => sequence < Limit
    /\ sending \in BOOLEAN
    /\ key \in Seq(Keys) /\ Len(key) = sequence
    /\ pipe \in Seq(Updates)
    /\ kvmap \in [Keys -> Numbers]
    /\ at \in [Clients -> {"start", "snapshot", "updates"}]
    /\ answer \in [Clients -> Seq(Message)]
    /\ queue \in [Clients -> Seq(Updates)]
    /\ missed \in [Clients -> SUBSET Updates]
    /\ snap \in [Clients -> Numbers]
    /\ map \in [Clients -> [Keys -> Numbers]]
    /\ seen \in [Clients -> Nat]

\* The updates of key k up to number u.
Upto(k, u) == {n \in 1..u : key[n] = k}

\* clonesrv2.c: state_manager's map is that of the updates before the pipe.
Server ==
    /\ Taken \in 0..sequence
    /\ \A i \in 1..Len(pipe) : pipe[i] = Taken + i
    /\ model = 1 => ~sending /\ pipe = <<>>
    /\ model = 2 => /\ mgrSequence = Wire(Taken)
                    /\ \A k \in Keys : Latest(Upto(k, Taken), kvmap[k])

InQueue(c, n) == \E i \in 1..Len(queue[c]) : queue[c][i] = n

\* What client c has read from its queue.
Left(c) == {n \in 1..sequence : n \notin missed[c] /\ ~InQueue(c, n)}

\* A queue is in order, and what was read from it is older.
Queued(c) ==
    /\ \A i \in 1..Len(queue[c]) : queue[c][i] \in 1..sequence /\ queue[c][i] \notin missed[c]
    /\ \A i, j \in 1..Len(queue[c]) : i < j => queue[c][i] < queue[c][j]
    /\ \A n \in missed[c] : n <= sequence
    /\ \A n \in Left(c) : \A i \in 1..Len(queue[c]) : n < queue[c][i]

\* The snapshot up to update u is on its way to c: the latest updates of the
\* keys, of which c has some, and the end.
LoadingTo(c, u) ==
    LET last == Len(answer[c])
    IN  /\ last >= 1
        /\ answer[c][last] = KTHXBAI(Wire(u), u)
        /\ \A i \in 1..(last - 1) :
              LET n == answer[c][i].number
              IN  /\ ~answer[c][i].end
                  /\ n \in 1..u /\ Latest(Upto(key[n], u), n)
        /\ \A k \in Keys :
              \/ Latest(Upto(k, u), map[c][k])
              \/ map[c][k] = 0 /\ \E i \in 1..(last - 1) : key[answer[c][i].number] = k

Loading(c) == \E u \in 0..sequence : LoadingTo(c, u)

\* clonecli2.c and clonecli1.c: what is true of a client in each phase.
Starts(c) ==
    /\ Left(c) = {} /\ snap[c] = 0
    /\ c \notin asked /\ answer[c] = <<>>
    /\ \A k \in Keys : map[c][k] = 0

Waits(c) ==
    /\ model = 2 /\ Left(c) = {}
    /\ \/ c \in asked /\ answer[c] = <<>> /\ \A k \in Keys : map[c][k] = 0
       \/ c \notin asked /\ Loading(c)

Follows(c) ==
    /\ c \notin asked /\ answer[c] = <<>>
    /\ snap[c] <= sequence
    /\ model = 1 => snap[c] = 0
    /\ model = 2 => /\ Wire(snap[c]) <= seen[c] /\ seen[c] <= Wire(sequence)
                    /\ \A n \in Left(c) : Wire(n) <= seen[c]
    /\ \A k \in Keys : Latest(Known(c, k), map[c][k])

Replica(c) ==
    /\ at[c] = "start" => Starts(c)
    /\ at[c] = "snapshot" => Waits(c)
    /\ at[c] = "updates" => Follows(c)

CloneInv == CloneType /\ Server /\ \A c \in Clients : Queued(c) /\ Replica(c)

-----------------------------------------------------------------------------
(* The codec of kvsimple.c *)

\* Quotient and remainder are the only ones.
LEMMA DivUnique ==
    ASSUME NEW b \in Nat \ {0}, NEW q \in Nat, NEW r \in 0..(b - 1),
           NEW n \in Nat, n = b * q + r
    PROVE  n \div b = q /\ n % b = r
<1>1. /\ n \div b \in Nat /\ n % b \in 0..(b - 1)
      /\ n = b * (n \div b) + (n % b)
  OBVIOUS
<1> DEFINE p == n \div b
           s == n % b
<1>2. p \in Nat /\ s \in 0..(b-1) /\ b * p + s = b * q + r
  BY <1>1
<1> HIDE DEF p, s
<1>3. \A x, y \in Nat : x < y => b * x + b <= b * y
  <2> TAKE x, y \in Nat
  <2> HAVE x < y
  <2>1. y = x + 1 + (y - x - 1) /\ y - x - 1 \in Nat
    OBVIOUS
  <2>2. b * (y - x - 1) \in Nat
    BY <2>1
  <2>3. b * y = b * x + b + b * (y - x - 1)
    BY <2>1
  <2> QED
    BY <2>2, <2>3
<1>4. ~(p < q) /\ ~(q < p)
  BY <1>2, <1>3
<1>5. p = q
  BY <1>2, <1>4
<1> QED
  BY <1>2, <1>5 DEF p, s

\* They exist.
LEMMA DivRem ==
    ASSUME NEW n \in Nat, NEW b \in Nat \ {0}
    PROVE  /\ n \div b \in Nat /\ n % b \in 0..(b - 1)
           /\ n = b * (n \div b) + (n % b)
OBVIOUS

\* Products of numbers.
LEMMA Products ==
    ASSUME NEW x \in Nat, NEW y \in Nat
    PROVE  /\ x * y \in Nat
           /\ x > 0 /\ y > 0 => x * y > 0
           /\ y > 0 => x <= x * y
<1>1. x * y \in Nat
  OBVIOUS
<1>2. y > 0 => x * (y - 1) \in Nat
  OBVIOUS
<1>3. x * y = x * (y - 1) + x
  OBVIOUS
<1> QED
  BY <1>1, <1>2, <1>3

\* Dividing twice.
LEMMA DivDiv ==
    ASSUME NEW n \in Nat, NEW a \in Nat \ {0}, NEW b \in Nat \ {0}
    PROVE  n \div (a * b) = (n \div a) \div b
<1> DEFINE p == n \div a
           s == n % a
           q == p \div b
           r == p % b
<1>1. /\ p \in Nat /\ s \in 0..(a - 1) /\ n = a * p + s
      /\ q \in Nat /\ r \in 0..(b - 1) /\ p = b * q + r
  BY DivRem
<1> HIDE DEF p, s, q, r
<1>2. n = (a * b) * q + (a * r + s)
  <2>1. a * p = a * (b * q + r)
    BY <1>1
  <2>2. a * (b * q + r) = (a * b) * q + a * r
    BY <1>1
  <2> QED
    BY <1>1, <2>1, <2>2
<1>3. a * r + s \in 0..(a * b - 1) /\ a * b \in Nat \ {0}
  <2>1. a * r + a <= a * b
    <3>1. a * (b - 1 - r) \in Nat
      BY <1>1
    <3>2. a * b = a * r + a + a * (b - 1 - r)
      BY <1>1
    <3>3. a * r \in Nat /\ a * b \in Nat
      BY <1>1
    <3> QED
      BY <1>1, <3>1, <3>2, <3>3
  <2>2. a * r \in Nat /\ a * b \in Nat /\ a * b > 0
    BY <1>1, Products
  <2> QED
    BY <1>1, <2>1, <2>2
<1>4. n \div (a * b) = q
  BY <1>1, <1>2, <1>3, DivUnique
<1> QED
  BY <1>4 DEF p, q

\* A number below Base ^ 3 has three digits.
LEMMA Digits ==
    ASSUME NEW n \in Nat, n < Base * Base * Base
    PROVE  LET hi == n \div (Base * Base)
               mid == (n \div Base) % Base
               lo == n % Base
           IN  /\ hi \in 0..(Base - 1) /\ mid \in 0..(Base - 1) /\ lo \in 0..(Base - 1)
               /\ n = (Base * Base) * hi + (Base * mid + lo)
               /\ Base * mid + lo \in 0..(Base * Base - 1)
<1> DEFINE p == n \div Base
           lo == n % Base
           hi == p \div Base
           mid == p % Base
<1>0. Base \in Nat \ {0}
  BY CloneAssumption
<1>1. /\ p \in Nat /\ lo \in 0..(Base - 1) /\ n = Base * p + lo
      /\ hi \in Nat /\ mid \in 0..(Base - 1) /\ p = Base * hi + mid
  BY <1>0, DivRem
<1>2. hi = n \div (Base * Base)
  BY <1>0, DivDiv
<1> HIDE DEF p, lo, hi, mid
<1>3. n = (Base * Base) * hi + (Base * mid + lo)
  <2>1. Base * p = Base * (Base * hi + mid)
    BY <1>1
  <2>2. Base * (Base * hi + mid) = (Base * Base) * hi + Base * mid
    BY <1>1, <1>0
  <2> QED
    BY <1>0, <1>1, <2>1, <2>2
<1>4. Base * mid + lo \in 0..(Base * Base - 1)
  <2>1. Base * (Base - 1 - mid) \in Nat
    BY <1>0, <1>1
  <2>2. Base * Base = Base * mid + Base + Base * (Base - 1 - mid)
    BY <1>0, <1>1
  <2>3. Base * mid \in Nat /\ Base * Base \in Nat
    BY <1>0, <1>1
  <2> QED
    BY <1>0, <1>1, <2>1, <2>2, <2>3
<1>5. hi <= Base - 1
  <2>1. SUFFICES ASSUME hi >= Base PROVE FALSE
    BY <1>0, <1>1
  <2>2. (Base * Base) * (hi - Base) \in Nat
    BY <1>0, <1>1, <2>1
  <2>3. (Base * Base) * hi = Base * Base * Base + (Base * Base) * (hi - Base)
    BY <1>0, <1>1
  <2>4. Base * Base * Base \in Nat /\ Base * mid + lo \in Nat
    BY <1>0, <1>1
  <2> QED
    BY <1>3, <2>2, <2>3, <2>4
<1> QED
  BY <1>0, <1>1, <1>2, <1>3, <1>4, <1>5 DEF p, lo, hi, mid

\* The powers of Base, from the third on as multiples of it.
LEMMA Powers3 ==
    LET d == Base * Base * Base
    IN  /\ Power(0) = 1 /\ Power(1) = Base /\ Power(2) = Base * Base /\ Power(3) = d
        /\ Power(4) = d * Base /\ Power(5) = d * (Base * Base)
        /\ Power(6) = d * d /\ Power(7) = d * (d * Base)
        /\ d \in Nat \ {0} /\ Base * Base \in Nat \ {0} /\ Base \in Nat \ {0}
<1>0. Base \in Nat \ {0}
  BY CloneAssumption
<1>1. /\ Power(0) = 1 /\ Power(1) = Base /\ Power(2) = Base * Base
      /\ Power(3) = (Base * Base) * Base
      /\ Power(4) = (Base * Base) * (Base * Base)
      /\ Power(5) = ((Base * Base) * (Base * Base)) * Base
      /\ Power(6) = ((Base * Base) * (Base * Base)) * (Base * Base)
      /\ Power(7) = (((Base * Base) * (Base * Base)) * (Base * Base)) * Base
  BY DEF Power, Powers
<1>2. Base * Base \in Nat \ {0}
  BY <1>0, Products
<1>3. (Base * Base) * Base \in Nat \ {0}
  BY <1>0, <1>2, Products
<1>4. /\ (Base * Base) * (Base * Base) = ((Base * Base) * Base) * Base
      /\ ((Base * Base) * (Base * Base)) * Base = ((Base * Base) * Base) * (Base * Base)
      /\ ((Base * Base) * (Base * Base)) * (Base * Base)
         = ((Base * Base) * Base) * ((Base * Base) * Base)
      /\ (((Base * Base) * (Base * Base)) * (Base * Base)) * Base
         = ((Base * Base) * Base) * (((Base * Base) * Base) * Base)
  BY <1>0
<1> QED
  BY <1>0, <1>1, <1>2, <1>3, <1>4

\* The bytes of a frame, and what they count for.
LEMMA Decoded ==
    ASSUME NEW n \in Nat
    PROVE  LET f(i) == (n \div Power(7 - i)) % Base
           IN  Wire(n) = f(0) * Power(7) + f(1) * Power(6) + f(2) * Power(5) + f(3) * Power(4)
                         + f(4) * Power(3) + f(5) * (4 * Power(3)) + f(6) * Power(1)
                         + f(7) * Power(0)
<1>1. \A i \in 0..7 : Frame(n)[i] = (n \div Power(7 - i)) % Base
  BY DEF Frame
<1>2. /\ Shift(0) = Power(7) /\ Shift(1) = Power(6) /\ Shift(2) = Power(5)
      /\ Shift(3) = Power(4) /\ Shift(4) = Power(3) /\ Shift(5) = 4 * Power(3)
      /\ Shift(6) = Power(1) /\ Shift(7) = Power(0)
  BY DEF Shift
<1> QED
  BY <1>1, <1>2 DEF Wire, kvmsg_sequence

\* kvmsg_sequence, of a number in range: the third digit is moved up.
LEMMA WireValue ==
    ASSUME NEW n \in Nat, n < Base * Base * Base
    PROVE  LET hi == n \div (Base * Base)
               mid == (n \div Base) % Base
               lo == n % Base
           IN  Wire(n) = (Base * Base * Base) * (4 * hi) + (Base * mid + lo)
<1> DEFINE d == Base * Base * Base
           hi == n \div (Base * Base)
           mid == (n \div Base) % Base
           lo == n % Base
           f(i) == (n \div Power(7 - i)) % Base
<1>1. /\ Base \in Nat \ {0} /\ d \in Nat \ {0} /\ Base * Base \in Nat \ {0}
      /\ hi \in 0..(Base - 1) /\ mid \in 0..(Base - 1) /\ lo \in 0..(Base - 1)
  BY Powers3, Digits
<1>2. ASSUME NEW k \in Nat \ {0} PROVE (n \div (d * k)) % Base = 0
  <2> DEFINE e == d * k
  <2>1. e \in Nat /\ d <= e
    BY <1>1, Products
  <2>2. e \in Nat \ {0} /\ n \in 0..(e - 1) /\ n = e * 0 + n
    BY <1>1, <2>1
  <2> HIDE DEF e
  <2>3. n \div e = 0
    BY <2>2, DivUnique
  <2>4. 0 % Base = 0
    BY <1>1
  <2> QED
    BY <2>3, <2>4 DEF e
<1>3. d * 1 = d /\ d * Base \in Nat \ {0}
  BY <1>1, Products
<1>4. f(0) = 0 /\ f(1) = 0 /\ f(2) = 0 /\ f(3) = 0 /\ f(4) = 0
  <2>1. /\ Power(7 - 0) = d * (d * Base) /\ Power(7 - 1) = d * d /\ Power(7 - 2) = d * (Base * Base)
        /\ Power(7 - 3) = d * Base /\ Power(7 - 4) = d * 1
    BY <1>3, Powers3
  <2> HIDE DEF d
  <2> QED
    BY <1>1, <1>2, <1>3, <2>1
<1>5. n \div 1 = n
  OBVIOUS
<1>6. f(5) = hi % Base /\ f(6) = mid /\ f(7) = lo
  BY <1>5, Powers3
<1>7. hi % Base = hi
  BY <1>1
<1>8. Wire(n) = f(0) * Power(7) + f(1) * Power(6) + f(2) * Power(5) + f(3) * Power(4)
                         + f(4) * Power(3) + f(5) * (4 * Power(3)) + f(6) * Power(1)
                         + f(7) * Power(0)
  BY Decoded
<1>9. Wire(n) = 0 + hi * (4 * d) + mid * Base + lo
  BY <1>1, <1>4, <1>6, <1>7, <1>8, Powers3
<1>10. /\ hi * (4 * d) = d * (4 * hi)
       /\ mid * Base = Base * mid
  BY <1>1
<1> QED
  BY <1>1, <1>9, <1>10

\* In range the numbers arrive in the order in which they were sent.
LEMMA WireGrows ==
    ASSUME NEW m \in Nat, NEW n \in Nat, m < n, n < Base * Base * Base
    PROVE  Wire(m) \in Nat /\ Wire(n) \in Nat /\ Wire(m) < Wire(n)
<1> DEFINE c == Base * Base
           d == c * Base
           h(x) == x \div c
           l(x) == Base * ((x \div Base) % Base) + (x % Base)
<1>1. /\ c \in Nat \ {0} /\ d \in Nat \ {0} /\ c <= d
  BY Powers3, Products
<1>2. ASSUME NEW x \in Nat, x < d
      PROVE  /\ h(x) \in Nat /\ l(x) \in 0..(c - 1) /\ x = c * h(x) + l(x)
             /\ Wire(x) = d * (4 * h(x)) + l(x)
  BY <1>2, Digits, WireValue
<1>3. /\ h(m) \in Nat /\ l(m) \in 0..(c - 1) /\ m = c * h(m) + l(m)
      /\ Wire(m) = d * (4 * h(m)) + l(m)
      /\ h(n) \in Nat /\ l(n) \in 0..(c - 1) /\ n = c * h(n) + l(n)
      /\ Wire(n) = d * (4 * h(n)) + l(n)
  <2>1. m < d /\ n < d
    <3> HIDE DEF h, l
    <3> QED
      BY <1>1
  <2> HIDE DEF c, d, h, l
  <2> QED
    BY <1>2, <2>1
<1> HIDE DEF c, d, h, l
<1>4. /\ d * (4 * h(m)) \in Nat /\ d * (4 * h(n)) \in Nat
  BY <1>1, <1>3
<1>5. h(m) <= h(n)
  <2>1. SUFFICES ASSUME h(n) < h(m) PROVE FALSE
    BY <1>3
  <2>2. c * (h(m) - h(n) - 1) \in Nat
    BY <1>1, <1>3, <2>1
  <2>3. c * h(m) = c * h(n) + c + c * (h(m) - h(n) - 1)
    BY <1>1, <1>3
  <2>4. c * h(m) \in Nat /\ c * h(n) \in Nat
    BY <1>1, <1>3
  <2> QED
    BY <1>1, <1>3, <2>2, <2>3, <2>4
<1>6. CASE h(m) = h(n)
  <2>1. c * h(m) = c * h(n) /\ c * h(n) \in Nat
    BY <1>1, <1>3, <1>6
  <2>2. l(m) < l(n)
    BY <1>1, <1>3, <2>1
  <2>3. d * (4 * h(m)) = d * (4 * h(n))
    BY <1>6
  <2> QED
    BY <1>1, <1>3, <1>4, <2>2, <2>3
<1>7. CASE h(m) < h(n)
  <2>1. d * (4 * (h(n) - h(m)) - 1) \in Nat
    BY <1>1, <1>3, <1>7
  <2>2. d * (4 * h(n)) = d * (4 * h(m)) + d + d * (4 * (h(n) - h(m)) - 1)
    BY <1>1, <1>3
  <2> QED
    BY <1>1, <1>3, <1>4, <2>1, <2>2
<1> QED
  BY <1>3, <1>5, <1>6, <1>7

\* Passing a number on a second time does not change it again.
LEMMA WireStable ==
    ASSUME NEW n \in Nat, n < Base * Base * Base
    PROVE  Wire(n) \in Nat /\ Wire(Wire(n)) = Wire(n)
<1> DEFINE b == Base
           c == b * b
           d == c * b
           hi == n \div c
           mid == (n \div b) % b
           lo == n % b
           y == 4 * hi
           x == d * y + (b * mid + lo)
           f(i) == (x \div Power(7 - i)) % b
<1>1. /\ b \in Nat \ {0} /\ c \in Nat \ {0} /\ d \in Nat \ {0}
      /\ hi \in 0..(b - 1) /\ mid \in 0..(b - 1) /\ lo \in 0..(b - 1)
      /\ b * mid + lo \in 0..(c - 1)
      /\ Wire(n) = x
  BY Powers3, Digits, WireValue
<1>2. /\ Power(0) = 1 /\ Power(1) = b /\ Power(2) = c /\ Power(3) = d
      /\ Power(4) = d * b /\ Power(5) = d * c /\ Power(6) = d * d /\ Power(7) = d * (d * b)
  BY Powers3
<1>3. b >= 2
  BY CloneAssumption
<1> HIDE DEF b, hi, mid, lo
<1>4. y \in Nat /\ y < d /\ c <= d /\ x \in Nat
  <2>1. c * (b - 1) \in Nat /\ d = c + c * (b - 1)
    BY <1>1
  <2>2. c >= 4
    <3>1. (b - 2) * (b - 2) \in Nat /\ c = 4 + 4 * (b - 2) + (b - 2) * (b - 2)
      BY <1>1, <1>3
    <3> QED
      BY <1>1, <1>3, <3>1
  <2>3. d >= 4 * b
    <3>1. (c - 4) * b \in Nat /\ d = 4 * b + (c - 4) * b
      BY <1>1, <2>2
    <3> QED
      BY <1>1, <3>1
  <2>4. y \in Nat /\ y < d
    BY <1>1, <2>3
  <2>5. d * y \in Nat
    BY <1>1, <2>4
  <2> QED
    BY <1>1, <2>1, <2>4, <2>5
<1>5. x \div d = y
  <2> HIDE DEF d, y
  <2>1. b * mid + lo \in 0..(d - 1)
    BY <1>1, <1>4
  <2> DEFINE r == b * mid + lo
  <2> HIDE DEF r
  <2>2. x = d * y + r /\ r \in 0..(d - 1)
    BY <2>1 DEF r
  <2> QED
    BY <1>1, <1>4, <2>2, DivUnique
<1>6. x % b = lo /\ x \div b = c * y + mid
  <2>1. c * y + mid \in Nat
    BY <1>1, <1>4
  <2>2. x = b * (c * y + mid) + lo
    BY <1>1, <1>4
  <2> DEFINE q == c * y + mid
  <2> HIDE DEF q, x
  <2>3. q \in Nat /\ x = b * q + lo
    BY <2>1, <2>2 DEF q
  <2>4. x % b = lo /\ x \div b = q
    BY <1>1, <1>4, <2>3, DivUnique
  <2> QED
    BY <2>4 DEF q
<1>7. (x \div b) % b = mid /\ (x \div b) \div b = b * y
  <2>1. b * y \in Nat /\ c * y + mid \in Nat
    BY <1>1, <1>4
  <2>2. c * y + mid = b * (b * y) + mid
    BY <1>1, <1>4
  <2> DEFINE q == c * y + mid
             p == b * y
  <2> HIDE DEF p, q, x
  <2>3. p \in Nat /\ q \in Nat /\ q = b * p + mid /\ x \div b = q
    BY <1>6, <2>1, <2>2 DEF p, q
  <2>4. q % b = mid /\ q \div b = p
    BY <1>1, <2>3, DivUnique
  <2> QED
    BY <2>3, <2>4 DEF p
<1>8. (x \div c) % b = 0
  <2>1. x \div c = b * y
    BY <1>1, <1>4, <1>7, DivDiv
  <2>2. b * y = b * y + 0 /\ 0 \in 0..(b - 1) /\ b * y \in Nat
    BY <1>1, <1>4
  <2>3. (b * y) % b = 0
    BY <1>1, <1>4, <2>2, DivUnique
  <2> QED
    BY <2>1, <2>3
<1> DEFINE g2 == y \div c
           g3 == (y \div b) % b
           g4 == y % b
<1>9. /\ g2 \in 0..(b - 1) /\ g3 \in 0..(b - 1) /\ g4 \in 0..(b - 1)
      /\ y = c * g2 + (b * g3 + g4)
  BY <1>4, Digits DEF b
<1>10. f(2) = g2 /\ f(3) = g3 /\ f(4) = g4
  <2> HIDE DEF c, d, x, y
  <2>1. x \div (d * c) = y \div c /\ x \div (d * b) = y \div b
    BY <1>1, <1>4, <1>5, DivDiv
  <2>2. g2 % b = g2
    <3> HIDE DEF g2
    <3> QED
      BY <1>1, <1>9
  <2>3. Power(7 - 2) = d * c /\ Power(7 - 3) = d * b /\ Power(7 - 4) = d
    BY <1>2
  <2> QED
    BY <1>5, <2>1, <2>2, <2>3
<1>11. f(0) = 0 /\ f(1) = 0
  <2> HIDE DEF c, d, x, y
  <2>1. d * b \in Nat /\ d <= d * b
    BY <1>1, Products
  <2>2. ASSUME NEW e \in Nat, d <= e PROVE (x \div (d * e)) % b = 0
    <3>1. e \in Nat \ {0} /\ y \in 0..(e - 1) /\ y = e * 0 + y
      BY <1>1, <1>4, <2>2
    <3>2. y \div e = 0
      BY <1>4, <3>1, DivUnique
    <3>3. x \div (d * e) = 0
      BY <1>1, <1>4, <1>5, <3>1, <3>2, DivDiv
    <3>4. 0 % b = 0
      BY <1>1
    <3> QED
      BY <3>3, <3>4
  <2>3. Power(7 - 0) = d * (d * b) /\ Power(7 - 1) = d * d
    BY <1>2
  <2>4. d \in Nat /\ d <= d
    BY <1>1
  <2>5. (x \div (d * (d * b))) % b = 0 /\ (x \div (d * d)) % b = 0
    <3> DEFINE e == d * b
    <3> HIDE DEF e
    <3>1. e \in Nat /\ d <= e
      BY <1>1, <2>1 DEF e
    <3>2. (x \div (d * e)) % b = 0 /\ (x \div (d * d)) % b = 0
      BY <2>2, <2>4, <3>1
    <3> QED
      BY <3>2 DEF e
  <2> QED
    BY <2>3, <2>5
<1>12. f(5) = 0 /\ f(6) = mid /\ f(7) = lo
  <2>1. Power(7 - 5) = c /\ Power(7 - 6) = b /\ Power(7 - 7) = 1
    BY <1>2
  <2>2. x \div 1 = x
    BY <1>4
  <2> HIDE DEF c, d, x, y
  <2> QED
    BY <1>6, <1>7, <1>8, <2>1, <2>2
<1>13. Wire(x) = f(0) * Power(7) + f(1) * Power(6) + f(2) * Power(5) + f(3) * Power(4)
                         + f(4) * Power(3) + f(5) * (4 * Power(3)) + f(6) * Power(1)
                         + f(7) * Power(0)
  <2> HIDE DEF x
  <2> QED
    BY <1>4, Decoded DEF b
<1>14. Wire(x) = g2 * (d * c) + g3 * (d * b) + g4 * d + mid * b + lo
  <2> HIDE DEF x, f, g2, g3, g4, c, d, y
  <2> QED
    BY <1>1, <1>2, <1>9, <1>10, <1>11, <1>12, <1>13
<1>15. g2 * (d * c) + g3 * (d * b) + g4 * d = d * (c * g2 + (b * g3 + g4))
  <2> HIDE DEF g2, g3, g4, c, d, y
  <2> QED
    BY <1>1, <1>9
<1>16. Wire(x) = d * y + (b * mid + lo)
  <2> HIDE DEF g2, g3, g4, c, d, y
  <2> QED
    BY <1>1, <1>4, <1>9, <1>14, <1>15
<1> QED
  BY <1>1, <1>4, <1>16

\* At Base ^ 3 the order is lost.
LEMMA WireBreaks ==
    LET d == Base * Base * Base
    IN  Wire(d) < Wire(d - 1) /\ Wire(d) \in Nat /\ Wire(d - 1) \in Nat
<1> DEFINE b == Base
           c == b * b
           d == c * b
           n == d - 1
           f(i) == (d \div Power(7 - i)) % b
<1>1. /\ b \in Nat \ {0} /\ c \in Nat \ {0} /\ d \in Nat \ {0} /\ b >= 2
  BY Powers3, CloneAssumption
<1>2. Wire(d) = d
  <2>1. Power(7 - 0) = d * (d * b) /\ Power(7 - 1) = d * d /\ Power(7 - 2) = d * c
        /\ Power(7 - 3) = d * b /\ Power(7 - 4) = d * 1 /\ Power(7 - 5) = c
        /\ Power(7 - 6) = b /\ Power(7 - 7) = 1
        /\ Power(3) = d /\ Power(7) = d * (d * b)
    BY <1>1, Powers3
  <2>2. d \div d = 1 /\ 1 % b = 1
    BY <1>1
  <2>3. ASSUME NEW e \in Nat, e >= 2 PROVE (d \div (d * e)) % b = 0
    <3> HIDE DEF d
    <3>1. 1 \div e = 0 /\ 0 % b = 0
      BY <1>1, <2>3
    <3>2. d \div (d * e) = (d \div d) \div e
      BY <1>1, <2>3, DivDiv
    <3> QED
      BY <2>2, <3>1, <3>2
  <2>4. b <= c /\ c <= d /\ d <= d * b /\ d * b \in Nat
    BY <1>1, Products
  <2>5. f(0) = 0 /\ f(1) = 0 /\ f(2) = 0 /\ f(3) = 0 /\ f(4) = 1
    <3> HIDE DEF b, c, d
    <3> QED
      BY <1>1, <2>1, <2>2, <2>3, <2>4
  <2>6. d \div c = b /\ d \div b = c /\ d \div 1 = d
    <3>1. d = c * b + 0 /\ d = b * c + 0
      BY <1>1
    <3> HIDE DEF c, d
    <3> QED
      BY <1>1, <3>1, DivUnique
  <2>7. b % b = 0 /\ c % b = 0 /\ d % b = 0
    <3>1. b = b * 1 + 0 /\ c = b * b + 0 /\ d = b * c + 0
      BY <1>1
    <3> HIDE DEF b, c, d
    <3> QED
      BY <1>1, <3>1, DivUnique
  <2>8. f(5) = 0 /\ f(6) = 0 /\ f(7) = 0
    BY <2>1, <2>6, <2>7
  <2>9. Wire(d) = f(0) * Power(7) + f(1) * Power(6) + f(2) * Power(5) + f(3) * Power(4)
                         + f(4) * Power(3) + f(5) * (4 * Power(3)) + f(6) * Power(1)
                         + f(7) * Power(0)
    BY <1>1, Decoded
  <2>10. Power(0) \in Nat /\ Power(1) \in Nat /\ Power(4) \in Nat /\ Power(5) \in Nat
         /\ Power(6) \in Nat /\ Power(7) \in Nat
    BY <1>1, Powers3, Products
  <2> HIDE DEF f, d
  <2> QED
    BY <1>1, <2>1, <2>5, <2>8, <2>9, <2>10
<1>3. n \in Nat /\ n < d
  BY <1>1
<1>4. n \div c >= 1
  <2>1. n \div c \in Nat /\ n % c \in 0..(c - 1) /\ n = c * (n \div c) + (n % c)
    <3> HIDE DEF n
    <3> QED
      BY <1>1, <1>3, DivRem
  <2>2. c * (b - 2) \in Nat /\ d = c + c + c * (b - 2)
    BY <1>1
  <2> DEFINE q == n \div c
             r == n % c
  <2> HIDE DEF q, r, c
  <2>3. SUFFICES ASSUME q = 0 PROVE FALSE
    BY <2>1 DEF q
  <2> QED
    BY <1>1, <2>1, <2>2, <2>3 DEF q, r
<1>5. Wire(n) = d * (4 * (n \div c)) + (b * ((n \div b) % b) + (n % b))
      /\ b * ((n \div b) % b) + (n % b) \in Nat /\ n \div c \in Nat
  <2> HIDE DEF n
  <2> QED
    BY <1>3, WireValue, Digits
<1>6. d * (4 * (n \div c) - 2) \in Nat
      /\ d * (4 * (n \div c)) = d + d + d * (4 * (n \div c) - 2)
  <2> HIDE DEF n, d
  <2> QED
    BY <1>1, <1>4, <1>5
<1>7. d < Wire(n) /\ Wire(n) \in Nat
  <2> HIDE DEF n, d
  <2> QED
    BY <1>1, <1>5, <1>6
<1> QED
  BY <1>1, <1>2, <1>7

-----------------------------------------------------------------------------
(* Operators of the model *)

\* kvsimple.c: numbers in range arrive in the order in which they are sent.
LEMMA WireOrder ==
    ASSUME NEW m \in Nat, NEW n \in Nat, m < Limit, n < Limit
    PROVE  /\ Wire(m) \in Nat /\ Wire(n) \in Nat
           /\ m < n => Wire(m) < Wire(n)
           /\ Wire(m) <= Wire(n) => m <= n
           /\ m <= n => Wire(m) <= Wire(n)
<1>2. Wire(m) \in Nat /\ Wire(n) \in Nat
  BY WireStable DEF Limit
<1>3. (m < n => Wire(m) < Wire(n)) /\ (n < m => Wire(n) < Wire(m))
  BY WireGrows DEF Limit
<1>4. m = n => Wire(m) = Wire(n)
  OBVIOUS
<1> QED
  BY <1>2, <1>3, <1>4

\* The first number arrives as it is.
LEMMA WireZero == Wire(0) = 0 /\ Limit \in Nat \ {0}
<1>1. /\ Base \in Nat \ {0} /\ Base * Base \in Nat \ {0}
      /\ Base * Base * Base \in Nat \ {0}
  BY Powers3
<1>2. \A b \in Nat \ {0} : 0 \div b = 0 /\ 0 % b = 0
  OBVIOUS
<1>3. Wire(0) = (Base * Base * Base) * (4 * 0) + (Base * 0 + 0)
  <2>1. 0 < Base * Base * Base
    BY <1>1
  <2>2. Wire(0) = (Base * Base * Base) * (4 * (0 \div (Base * Base)))
                  + (Base * ((0 \div Base) % Base) + (0 % Base))
    BY <2>1, WireValue
  <2>3. /\ 0 \div (Base * Base) = 0 /\ 0 \div Base = 0 /\ 0 % Base = 0
    BY <1>1, <1>2
  <2> QED
    BY <2>2, <2>3
<1> QED
  BY <1>1, <1>3 DEF Limit

\* The numbers of clonesrv2.c up to now, as they arrive.
LEMMA Ranged ==
    ASSUME CloneType, model = 2, NEW n \in 0..sequence
    PROVE  /\ n \in Nat /\ n < Limit /\ n \in Numbers
           /\ Wire(n) \in Nat /\ Wire(Wire(n)) = Wire(n)
<1>1. n \in Nat /\ n < Limit /\ n \in Numbers
  BY CloneAssumption, WireZero DEF CloneType, Numbers
<1> QED
  BY <1>1, WireStable DEF Limit

\* A newer update becomes the latest.
LEMMA LatestGrows ==
    ASSUME NEW S \in SUBSET Nat, NEW n \in Nat, \A m \in S : m <= n
    PROVE  Latest(S \cup {n}, n)
  BY DEF Latest

\* The number of updates that state_manager has stored.
LEMMA TakenFacts ==
    ASSUME CloneType
    PROVE  /\ Taken = IF sending THEN sequence - Len(pipe) - 1 ELSE sequence - Len(pipe)
           /\ Len(pipe) \in Nat /\ sequence \in Nat
  BY CloneAssumption DEF CloneType, Taken, Numbers

\* What a step that leaves the updates, the server's choices and everything
\* of client c alone keeps.
LEMMA ClientFrame ==
    ASSUME NEW c, Queued(c), Replica(c),
           UNCHANGED <<model, sequence, key>>,
           queue'[c] = queue[c], missed'[c] = missed[c], answer'[c] = answer[c],
           at'[c] = at[c], snap'[c] = snap[c], map'[c] = map[c], seen'[c] = seen[c],
           c \in asked' <=> c \in asked
    PROVE  Queued(c)' /\ Replica(c)'
<1>1. Left(c)' = Left(c)
  BY DEF Left, InQueue
<1>2. Queued(c)'
  BY <1>1 DEF Queued
<1>3. Loading(c) => Loading(c)'
  <2>1. \A k, u : Upto(k, u)' = Upto(k, u)
    BY DEF Upto
  <2>2. \A u : LoadingTo(c, u) => LoadingTo(c, u)'
    BY <2>1 DEF LoadingTo
  <2> QED
    BY <2>2 DEF Loading
<1>4. \A k : Known(c, k)' = Known(c, k)
  BY DEF Known
<1>5. Starts(c) => Starts(c)'
  BY <1>1 DEF Starts
<1>6. Waits(c) => Waits(c)'
  BY <1>1, <1>3 DEF Waits
<1>7. Follows(c) => Follows(c)'
  BY <1>1, <1>4 DEF Follows
<1> QED
  BY <1>2, <1>5, <1>6, <1>7 DEF Replica

\* What a step that leaves the server alone keeps.
LEMMA ServerFrame ==
    ASSUME Server, UNCHANGED <<model, sequence, sending, key, pipe, kvmap, mgrSequence>>
    PROVE  Server'
  BY DEF Server, Taken, Upto

\* The empty state is a good one.
LEMMA CloneInit ==
    ASSUME Init
    PROVE  CloneInv
<1>1. 0 \in Numbers /\ MaxUpdates \in Nat /\ Wire(0) = 0
  BY CloneAssumption, WireZero DEF Numbers
<1>2. CloneType
  <2>1. /\ key \in Seq(Keys) /\ Len(key) = sequence /\ pipe \in Seq(Updates)
        /\ answer \in [Clients -> Seq(Message)] /\ queue \in [Clients -> Seq(Updates)]
    BY DEF Init
  <2>2. /\ kvmap \in [Keys -> Numbers] /\ snap \in [Clients -> Numbers]
        /\ map \in [Clients -> [Keys -> Numbers]]
    BY <1>1 DEF Init
  <2>3. /\ missed \in [Clients -> SUBSET Updates] /\ seen \in [Clients -> Nat]
        /\ at \in [Clients -> {"start", "snapshot", "updates"}]
    BY DEF Init
  <2> QED
    <3>0. sequence = 0 /\ model \in {1, 2} /\ sending = FALSE
      BY DEF Init
    <3>1. sequence < Limit /\ sequence \in Numbers
      BY <1>1, <3>0, WireZero
    <3>2. sending \in BOOLEAN
      BY <3>0
    <3> QED
      BY <3>0, <3>2, <2>1, <2>2, <2>3, <3>1 DEF CloneType
<1>3. Taken = 0 /\ sequence = 0 /\ pipe = <<>> /\ Len(pipe) = 0
  <2>1. sequence = 0 /\ pipe = <<>> /\ ~sending
    BY DEF Init
  <2>2. Len(pipe) = 0
    BY <2>1, EmptySeq
  <2>3. Taken = sequence - Len(pipe)
    BY <1>2, <2>1, TakenFacts
  <2> QED
    BY <2>1, <2>2, <2>3
<1>4. Server
  <2>1. \A k \in Keys : Upto(k, 0) = {} /\ kvmap[k] = 0
    <3>1. 1..0 = {}
      OBVIOUS
    <3> QED
      BY <3>1 DEF Upto, Init
  <2>2. mgrSequence = Wire(0) /\ ~sending
    BY <1>1 DEF Init
  <2> QED
    BY <1>3, <2>1, <2>2 DEF Server, Latest
<1>5. ASSUME NEW c \in Clients PROVE Queued(c) /\ Replica(c)
  <2>1. queue[c] = <<>> /\ missed[c] = {} /\ Len(queue[c]) = 0 /\ at[c] = "start"
    BY DEF Init
  <2>2. Left(c) = {}
    BY <1>3 DEF Left
  <2>3. Queued(c)
    BY <2>1, <2>2 DEF Queued
  <2>4. Starts(c)
    BY <2>2 DEF Init, Starts
  <2> QED
    BY <2>1, <2>3, <2>4 DEF Replica
<1> QED
  BY <1>2, <1>4, <1>5 DEF CloneInv

-----------------------------------------------------------------------------
(* clonesrv2.c and clonesrv1.c *)

\* An update that is published: it is last in a queue, or missed.
LEMMA SendTypes ==
    ASSUME CloneType, Send
    PROVE  /\ sequence' = sequence + 1 /\ sequence' \in Numbers /\ sequence \in Nat
           /\ key' \in Seq(Keys) /\ Len(key') = sequence' /\ key'[sequence'] \in Keys
           /\ \A n \in 1..sequence : key'[n] = key[n]
           /\ queue' \in [Clients -> Seq(Updates)]
           /\ missed' \in [Clients -> SUBSET Updates]
           /\ UNCHANGED <<model, at, snap, map, seen, asked, answer>>
<1>1. /\ sequence < MaxUpdates /\ sequence' = sequence + 1
      /\ UNCHANGED <<model, at, snap, map, seen, asked, answer>>
  BY DEF Send, clientVars
<1>2. sequence \in Nat /\ sequence' \in Numbers /\ sequence + 1 \in Updates
  BY <1>1, CloneAssumption DEF CloneType, Numbers, Updates
<1>3. /\ key' \in Seq(Keys) /\ Len(key') = sequence' /\ key'[sequence'] \in Keys
      /\ \A n \in 1..sequence : key'[n] = key[n]
  <2>1. PICK k \in Keys : key' = Append(key, k)
    BY DEF Send
  <2>2. key \in Seq(Keys) /\ Len(key) = sequence
    BY DEF CloneType
  <2> QED
    BY <1>1, <2>1, <2>2, AppendProperties
<1>4. queue' \in [Clients -> Seq(Updates)]
  <2>1. \A c \in Clients : Append(queue[c], sequence + 1) \in Seq(Updates)
    BY <1>2, AppendProperties DEF CloneType
  <2> QED
    BY <2>1 DEF Send, CloneType
<1>5. missed' \in [Clients -> SUBSET Updates]
  BY <1>2 DEF Send, CloneType
<1> QED
  BY <1>1, <1>2, <1>3, <1>4, <1>5

\* A client's queue after an update is published.
LEMMA SendQueue ==
    ASSUME CloneType, Send, NEW c \in Clients, Queued(c)
    PROVE  /\ Queued(c)'
           /\ Left(c)' = Left(c)
           /\ \A n \in 1..sequence : /\ InQueue(c, n)' <=> InQueue(c, n)
                                     /\ n \in missed'[c] <=> n \in missed[c]
           /\ sequence' \in missed'[c] \/ InQueue(c, sequence)'
<1> DEFINE N == sequence + 1
           q == queue[c]
<1>1. sequence' = N /\ sequence \in Nat /\ N \in Updates
  BY SendTypes, CloneAssumption DEF Numbers, Updates
<1>2. q \in Seq(Updates) /\ Len(q) \in Nat /\ \A i \in 1..Len(q) : q[i] \in Updates
  BY DEF CloneType
<1>3. /\ \A i \in 1..Len(q) : q[i] \in 1..sequence /\ q[i] \notin missed[c]
      /\ \A i, j \in 1..Len(q) : i < j => q[i] < q[j]
      /\ \A n \in missed[c] : n <= sequence
      /\ \A n \in Left(c) : \A i \in 1..Len(q) : n < q[i]
  BY DEF Queued
<1>4. N \notin missed[c] /\ ~InQueue(c, N) /\ \A n \in 1..sequence : n # N /\ n < N
  BY <1>1, <1>3 DEF InQueue
<1>5. CASE c \in Reached
  <2>1. queue'[c] = Append(q, N) /\ missed'[c] = missed[c]
    BY <1>5 DEF Send
  <2>2. /\ Len(queue'[c]) = Len(q) + 1
        /\ \A i \in 1..Len(q) : queue'[c][i] = q[i]
        /\ queue'[c][Len(q) + 1] = N
    BY <1>1, <1>2, <2>1, AppendProperties
  <2> HIDE DEF N, q
  <2>3. \A i \in 1..Len(queue'[c]) : i \in 1..Len(q) \/ i = Len(q) + 1
    BY <1>2, <2>2
  <2>4. \A n : InQueue(c, n)' <=> InQueue(c, n) \/ n = N
    <3>1. \A n : InQueue(c, n)' => InQueue(c, n) \/ n = N
      BY <2>2, <2>3 DEF InQueue, q
    <3>2. \A n : InQueue(c, n) => InQueue(c, n)'
      <4>1. \A i \in 1..Len(q) : i \in 1..Len(queue'[c]) /\ queue'[c][i] = q[i]
        BY <1>2, <2>2
      <4> QED
        BY <4>1 DEF InQueue, q
    <3>3. ASSUME NEW n, n = N PROVE InQueue(c, n)'
      <4>1. Len(q) + 1 \in 1..Len(queue'[c])
        BY <1>2, <2>2
      <4> QED
        BY <2>2, <3>3, <4>1 DEF InQueue
    <3> QED
      BY <3>1, <3>2, <3>3
  <2>5. Left(c)' = Left(c)
    <3>1. \A n : n \in 1..N <=> n \in 1..sequence \/ n = N
      BY <1>1 DEF N
    <3> QED
      BY <1>1, <1>4, <2>1, <2>4, <3>1 DEF Left
  <2>6. Queued(c)'
    <3>1. \A i \in 1..Len(queue'[c]) : queue'[c][i] \in 1..sequence' /\ queue'[c][i] \notin missed'[c]
      <4>1. N \in 1..N /\ \A n \in 1..sequence : n \in 1..N
        BY <1>1 DEF N
      <4> QED
        BY <1>1, <1>3, <1>4, <2>1, <2>2, <2>3, <4>1
    <3>2. ASSUME NEW i \in 1..Len(queue'[c]), NEW j \in 1..Len(queue'[c]), i < j
          PROVE  queue'[c][i] < queue'[c][j]
      <4>1. i \in 1..Len(q)
        BY <1>2, <2>2, <3>2
      <4>2. CASE j \in 1..Len(q)
        BY <1>3, <2>2, <3>2, <4>1, <4>2
      <4>3. CASE j = Len(q) + 1
        BY <1>3, <1>4, <2>2, <4>1, <4>3
      <4> QED
        BY <2>3, <4>2, <4>3
    <3>3. \A n \in missed'[c] : n <= sequence'
      <4>1. \A n \in missed[c] : n \in Nat
        BY CloneAssumption DEF CloneType, Updates
      <4> QED
        BY <1>1, <1>3, <2>1, <4>1 DEF N
    <3>4. ASSUME NEW n \in Left(c), NEW i \in 1..Len(queue'[c]) PROVE n < queue'[c][i]
      <4>1. n \in 1..sequence
        BY DEF Left
      <4> QED
        BY <1>3, <1>4, <2>2, <2>3, <4>1
    <3> QED
      BY <2>5, <3>1, <3>2, <3>3, <3>4 DEF Queued
  <2> QED
    BY <1>1, <1>4, <2>1, <2>4, <2>5, <2>6
<1>6. CASE c \notin Reached
  <2>1. queue'[c] = q /\ missed'[c] = missed[c] \cup {N}
    BY <1>6 DEF Send
  <2>2. \A n : InQueue(c, n)' <=> InQueue(c, n)
    BY <2>1 DEF InQueue
  <2> HIDE DEF N, q
  <2>3. Left(c)' = Left(c)
    <3>1. \A n : n \in 1..N <=> n \in 1..sequence \/ n = N
      BY <1>1 DEF N
    <3> QED
      BY <1>1, <1>4, <2>1, <2>2, <3>1 DEF Left
  <2>4. Queued(c)'
    <3>1. \A i \in 1..Len(q) : q[i] \in 1..sequence' /\ q[i] \notin missed'[c]
      <4>1. \A n \in 1..sequence : n \in 1..N
        BY <1>1 DEF N
      <4> QED
        BY <1>1, <1>3, <1>4, <2>1, <4>1
    <3>2. \A n \in missed'[c] : n <= sequence'
      <4>1. \A n \in missed[c] : n \in Nat
        BY CloneAssumption DEF CloneType, Updates
      <4> QED
        BY <1>1, <1>3, <2>1, <4>1 DEF N
    <3> QED
      BY <1>3, <2>1, <2>3, <3>1, <3>2 DEF Queued
  <2> QED
    BY <1>1, <1>4, <2>1, <2>2, <2>3, <2>4
<1> QED
  BY <1>5, <1>6

\* Old updates keep their keys.
LEMMA SendUpto ==
    ASSUME CloneType, Send
    PROVE  \A k : \A u \in 0..sequence : Upto(k, u)' = Upto(k, u)
<1>1. sequence \in Nat /\ \A n \in 1..sequence : key'[n] = key[n]
  BY SendTypes
<1>2. \A u \in 0..sequence : \A n \in 1..u : n \in 1..sequence
  BY <1>1
<1> QED
  BY <1>1, <1>2 DEF Upto

\* Nothing of a client changes when an update is published.
LEMMA SendReplica ==
    ASSUME CloneType, Send, InRange', NEW c \in Clients, Queued(c), Replica(c)
    PROVE  Queued(c)' /\ Replica(c)'
<1>1. /\ Queued(c)' /\ Left(c)' = Left(c)
      /\ \A n \in 1..sequence : /\ InQueue(c, n)' <=> InQueue(c, n)
                                /\ n \in missed'[c] <=> n \in missed[c]
      /\ sequence' \in missed'[c] \/ InQueue(c, sequence)'
  BY SendQueue
<1>2. /\ sequence' = sequence + 1 /\ sequence \in Numbers /\ sequence' \in Numbers /\ sequence \in Nat
      /\ \A n \in 1..sequence : key'[n] = key[n]
      /\ UNCHANGED <<model, at, snap, map, seen, asked, answer>>
  BY SendTypes DEF CloneType
<1>3. Loading(c) => Loading(c)'
  <2> SUFFICES ASSUME NEW u \in 0..sequence, LoadingTo(c, u) PROVE Loading(c)'
    BY DEF Loading
  <2>1. \A k : Upto(k, u)' = Upto(k, u)
    BY SendUpto
  <2>2. u \in 0..sequence' /\ \A n \in 1..u : key'[n] = key[n]
    BY <1>2
  <2> DEFINE last == Len(answer[c])
  <2>3. \A i \in 1..(last - 1) : key'[answer[c][i].number] = key[answer[c][i].number]
    BY <2>2 DEF LoadingTo
  <2>4. ASSUME NEW i \in 1..(last - 1)
        PROVE  /\ ~answer'[c][i].end
               /\ answer'[c][i].number \in 1..u
               /\ Latest(Upto(key[answer[c][i].number], u)', answer'[c][i].number)
    BY <1>2, <2>1 DEF LoadingTo
  <2>5. ASSUME NEW k \in Keys
        PROVE  \/ Latest(Upto(k, u)', map'[c][k])
               \/ map'[c][k] = 0 /\ \E i \in 1..(last - 1) : key'[answer'[c][i].number] = k
    BY <1>2, <2>1, <2>3 DEF LoadingTo
  <2>6. LoadingTo(c, u)'
    BY <1>2, <2>3, <2>4, <2>5 DEF LoadingTo
  <2> QED
    BY <2>2, <2>6 DEF Loading
<1>4. Starts(c) => Starts(c)'
  BY <1>1, <1>2 DEF Starts
<1>5. Waits(c) => Waits(c)'
  BY <1>1, <1>2, <1>3 DEF Waits
<1>6. Follows(c) => Follows(c)'
  <2> SUFFICES ASSUME Follows(c) PROVE Follows(c)'
    OBVIOUS
  <2>1. /\ c \notin asked /\ answer[c] = <<>> /\ snap[c] <= sequence /\ snap[c] \in Nat
        /\ seen[c] \in Nat
        /\ model = 1 => snap[c] = 0
        /\ model = 2 => /\ Wire(snap[c]) <= seen[c] /\ seen[c] <= Wire(sequence)
                        /\ \A n \in Left(c) : Wire(n) <= seen[c]
        /\ \A k \in Keys : Latest(Known(c, k), map[c][k])
    BY CloneAssumption DEF Follows, CloneType, Numbers
  <2>2. model = 2 => /\ Wire(sequence) < Wire(sequence')
                     /\ Wire(sequence) \in Nat /\ Wire(sequence') \in Nat
    <3>1. model = 2 => sequence' < Limit
      BY <1>2 DEF InRange
    <3>2. model = 2 => sequence < Limit /\ sequence < sequence' /\ sequence' \in Nat
      BY <1>2, <3>1, WireZero
    <3> QED
      BY <1>2, <3>1, <3>2, WireOrder
  <2>3. ASSUME NEW k \in Keys PROVE Known(c, k)' = Known(c, k)
    <3>1. \A n : n \in 1..sequence' <=> n \in 1..sequence \/ n = sequence'
      BY <1>2
    <3>2. ASSUME NEW n \in 1..sequence PROVE n \in Known(c, k)' <=> n \in Known(c, k)
      <4>1. /\ key'[n] = key[n] /\ snap'[c] = snap[c] /\ seen'[c] = seen[c] /\ model' = model
            /\ n \in missed'[c] <=> n \in missed[c]
            /\ InQueue(c, n)' <=> InQueue(c, n)
            /\ n \in 1..sequence'
        BY <1>1, <1>2, <3>1
      <4> QED
        BY <4>1 DEF Known, InQueue
    <3>3. sequence' \notin Known(c, k)'
      <4> SUFFICES ASSUME sequence' \in Known(c, k)' PROVE FALSE
        OBVIOUS
      <4>1. /\ sequence' <= snap'[c] \/ sequence' \notin missed'[c]
            /\ IF model' = 2 THEN Wire(sequence') <= seen'[c] ELSE ~InQueue(c, sequence)'
        BY DEF Known, InQueue
      <4>2. ~(sequence' <= snap'[c])
        BY <1>2, <2>1
      <4>3. model' = 2
        BY <1>1, <4>1, <4>2
      <4> QED
        BY <1>2, <2>1, <2>2, <4>1, <4>3
    <3>4. \A n \in Known(c, k) : n \in 1..sequence
      BY DEF Known
    <3>5. \A n \in Known(c, k)' : n \in 1..sequence'
      BY DEF Known
    <3> QED
      BY <3>1, <3>2, <3>3, <3>4, <3>5
  <2>4. model = 2 => Wire(snap[c]) <= seen[c] /\ seen[c] <= Wire(sequence')
    BY <2>1, <2>2
  <2>5. snap[c] <= sequence'
    BY <1>2, <2>1
  <2> QED
    BY <1>1, <1>2, <2>1, <2>3, <2>4, <2>5 DEF Follows
<1> QED
  BY <1>1, <1>2, <1>4, <1>5, <1>6 DEF Replica

\* main of clonesrv2.c publishes; state_manager knows nothing of it yet.
LEMMA PublishStep ==
    ASSUME CloneInv, Publish, InRange'
    PROVE  CloneInv'
<1> USE DEF CloneInv
<1>1. /\ model = 2 /\ ~sending /\ Send /\ sending' = TRUE
      /\ UNCHANGED <<pipe, kvmap, mgrSequence>>
  BY DEF Publish
<1>2. CloneType'
  BY <1>1, SendTypes DEF CloneType, InRange
<1>3. /\ Taken' = Taken /\ Taken \in 0..sequence /\ sequence' = sequence + 1
      /\ sequence \in Nat /\ model' = model
  <2>1. sequence' = sequence + 1 /\ model' = model /\ sequence \in Nat
    BY <1>1, SendTypes
  <2>2. Taken = sequence - Len(pipe) /\ Taken' = sequence' - Len(pipe') - 1 /\ Len(pipe) \in Nat
    BY <1>1, <2>1, TakenFacts DEF Taken
  <2> QED
    BY <1>1, <2>1, <2>2 DEF Server
<1>4. \A k \in Keys : Upto(k, Taken)' = Upto(k, Taken)
  <2>1. \A n \in 1..sequence : key'[n] = key[n]
    BY <1>1, SendTypes
  <2>2. \A n \in 1..Taken : n \in 1..sequence
    BY <1>3
  <2> QED
    BY <1>3, <2>1, <2>2 DEF Upto
<1>5. Server'
  <2>1. Taken' \in 0..sequence'
    BY <1>3
  <2> QED
    BY <1>1, <1>3, <1>4, <2>1 DEF Server
<1>6. \A c \in Clients : Queued(c)' /\ Replica(c)'
  BY <1>1, SendReplica
<1> QED
  BY <1>2, <1>5, <1>6

\* clonesrv1.c publishes and stores.
LEMMA PublishAndStoreStep ==
    ASSUME CloneInv, PublishAndStore
    PROVE  CloneInv'
<1> USE DEF CloneInv
<1>1. /\ model = 1 /\ Send /\ UNCHANGED <<sending, pipe, mgrSequence>>
      /\ kvmap' = [kvmap EXCEPT ![key'[sequence']] = sequence']
  BY DEF PublishAndStore, kvmsg_store
<1>2. CloneType'
  <2>1. kvmap' \in [Keys -> Numbers]
    BY <1>1, SendTypes DEF CloneType
  <2> QED
    BY <1>1, <2>1, SendTypes DEF CloneType
<1>3. Server'
  <2>1. /\ ~sending /\ pipe = <<>> /\ sequence' \in Nat /\ model' = model
        /\ sequence' = sequence + 1 /\ sequence \in Nat
    BY <1>1, SendTypes, CloneAssumption DEF Server, Numbers
  <2>2. Len(pipe) = 0
    BY <2>1, EmptySeq
  <2>3. Taken' = sequence' - Len(pipe') - 0
    BY <1>1, <2>1 DEF Taken
  <2>4. Taken' \in 0..sequence'
    BY <1>1, <2>1, <2>2, <2>3
  <2> QED
    BY <1>1, <2>1, <2>2, <2>4 DEF Server
<1>4. InRange'
  BY <1>1, SendTypes DEF InRange
<1>5. \A c \in Clients : Queued(c)' /\ Replica(c)'
  BY <1>1, <1>4, SendReplica
<1> QED
  BY <1>2, <1>3, <1>5

\* The clients see nothing of what main and state_manager do between them.
LEMMA ClientsFrame ==
    ASSUME CloneInv, UNCHANGED <<model, sequence, key, clientVars, netVars>>
    PROVE  \A c \in Clients : Queued(c)' /\ Replica(c)'
  BY ClientFrame DEF CloneInv, clientVars, netVars

\* The update goes to the end of the pipe.
LEMMA PassOnStep ==
    ASSUME CloneInv, PassOn
    PROVE  CloneInv'
<1> USE DEF CloneInv
<1>1. /\ sending /\ sending' = FALSE /\ pipe' = Append(pipe, sequence)
      /\ UNCHANGED <<model, sequence, key, kvmap, mgrSequence, clientVars, netVars>>
  BY DEF PassOn
<1>2. /\ Taken = sequence - Len(pipe) - 1 /\ Len(pipe) \in Nat /\ sequence \in Nat
      /\ Taken \in 0..sequence /\ model = 2
  BY <1>1, TakenFacts DEF Server, CloneType
<1>3. sequence \in Updates /\ pipe \in Seq(Updates)
  BY <1>2, CloneAssumption DEF CloneType, Numbers, Updates
<1>4. /\ pipe' \in Seq(Updates) /\ Len(pipe') = Len(pipe) + 1
      /\ \A i \in 1..Len(pipe) : pipe'[i] = pipe[i]
      /\ pipe'[Len(pipe) + 1] = sequence
  BY <1>1, <1>3, AppendProperties
<1>5. CloneType'
  BY <1>1, <1>4 DEF CloneType, clientVars, netVars
<1>6. Taken' = Taken
  <2>1. Taken' = sequence - Len(pipe') - 0
    BY <1>1 DEF Taken
  <2> QED
    BY <1>2, <1>4, <2>1
<1>7. \A i \in 1..Len(pipe') : pipe'[i] = Taken + i
  <2>1. \A i \in 1..Len(pipe') : i \in 1..Len(pipe) \/ i = Len(pipe) + 1
    BY <1>2, <1>4
  <2>2. sequence = Taken + (Len(pipe) + 1)
    BY <1>2
  <2> QED
    BY <1>4, <2>1, <2>2 DEF Server
<1>8. Server'
  BY <1>1, <1>2, <1>6, <1>7 DEF Server, Upto
<1> QED
  BY <1>1, <1>5, <1>8, ClientsFrame

\* state_manager stores the next update.
LEMMA StoreStep ==
    ASSUME CloneInv, Store
    PROVE  CloneInv'
<1> USE DEF CloneInv
<1> DEFINE h == Head(pipe)
<1>1. /\ pipe # <<>> /\ pipe' = Tail(pipe)
      /\ kvmap' = [kvmap EXCEPT ![key[h]] = h]
      /\ mgrSequence' = Wire(h)
      /\ UNCHANGED <<model, sequence, sending, key, clientVars, netVars>>
  BY DEF Store, kvmsg_store
<1>2. model = 2 /\ pipe \in Seq(Updates)
  BY <1>1 DEF Server, CloneType
<1>3. /\ pipe' \in Seq(Updates) /\ Len(pipe') = Len(pipe) - 1 /\ Len(pipe) \in Nat \ {0}
      /\ \A i \in 1..Len(pipe') : pipe'[i] = pipe[i + 1]
      /\ h = pipe[1]
  BY <1>1, <1>2, HeadTailProperties, EmptySeq
<1>4. /\ h = Taken + 1 /\ Taken \in Nat /\ h \in 1..sequence /\ sequence \in Nat
      /\ h \in Numbers
  <2>1. h = Taken + 1
    BY <1>3 DEF Server
  <2>2. Taken \in 0..sequence /\ sequence \in Numbers /\ sequence \in Nat
    BY CloneAssumption DEF Server, CloneType, Numbers
  <2>3. Taken <= sequence - Len(pipe)
    BY <1>3, TakenFacts
  <2> QED
    BY <1>3, <2>1, <2>2, <2>3, CloneAssumption DEF Numbers
<1> HIDE DEF h
<1>5. key[h] \in Keys
  BY <1>4 DEF CloneType
<1>6. CloneType'
  <2>1. kvmap' \in [Keys -> Numbers]
    BY <1>1, <1>4 DEF CloneType
  <2> QED
    BY <1>1, <1>3, <2>1 DEF CloneType, clientVars, netVars
<1>7. Taken' = Taken + 1
  <2> DEFINE one == IF sending THEN 1 ELSE 0
  <2>1. Taken' = sequence - Len(pipe') - one /\ Taken = sequence - Len(pipe) - one
    BY <1>1 DEF Taken
  <2>2. one \in Int
    OBVIOUS
  <2> HIDE DEF one
  <2> QED
    BY <1>3, <1>4, <2>1, <2>2
<1>8. \A i \in 1..Len(pipe') : pipe'[i] = Taken' + i
  <2>1. \A i \in 1..Len(pipe') : i + 1 \in 1..Len(pipe) /\ Taken + (i + 1) = (Taken + 1) + i
    BY <1>3, <1>4
  <2> QED
    BY <1>3, <1>7, <2>1 DEF Server
<1>9. ASSUME NEW k \in Keys PROVE Latest(Upto(k, Taken)', kvmap'[k])
  <2>1. Latest(Upto(k, Taken), kvmap[k])
    BY <1>2 DEF Server
  <2>2. Upto(k, Taken)' = {n \in 1..h : key[n] = k}
    BY <1>1, <1>4, <1>7 DEF Upto
  <2>3. \A n : n \in 1..h <=> n \in 1..Taken \/ n = h
    BY <1>4
  <2>4. CASE k = key[h]
    <3>1. Upto(k, Taken)' = Upto(k, Taken) \cup {h}
      BY <2>2, <2>3, <2>4 DEF Upto
    <3>2. Upto(k, Taken) \in SUBSET Nat /\ \A m \in Upto(k, Taken) : m <= h
      BY <1>4 DEF Upto
    <3>3. kvmap'[k] = h /\ h \in Nat
      BY <1>1, <1>4, <2>4 DEF CloneType
    <3> QED
      BY <3>1, <3>2, <3>3, LatestGrows
  <2>5. CASE k # key[h]
    <3>1. Upto(k, Taken)' = Upto(k, Taken)
      BY <2>2, <2>3, <2>5 DEF Upto
    <3>2. kvmap'[k] = kvmap[k]
      BY <1>1, <2>5 DEF CloneType
    <3> QED
      BY <2>1, <3>1, <3>2
  <2> QED
    BY <2>4, <2>5
<1>10. Server'
  <2>1. Taken' \in 0..sequence'
    BY <1>1, <1>4, <1>7
  <2>2. \A k \in Keys : Latest(Upto(k, Taken), kvmap[k])'
    BY <1>9 DEF Latest
  <2> QED
    BY <1>1, <1>2, <1>4, <1>7, <1>8, <2>1, <2>2 DEF Server
<1> QED
  BY <1>1, <1>6, <1>10, ClientsFrame

\* state_manager answers: what it sends has the latest update of each key.
LEMMA SnapshotStep ==
    ASSUME CloneInv, NEW c \in Clients, Snapshot(c)
    PROVE  CloneInv'
<1> USE DEF CloneInv
<1>1. /\ c \in asked /\ asked' = asked \ {c}
      /\ UNCHANGED <<model, sequence, sending, key, pipe, kvmap, mgrSequence, at, snap,
                     map, seen, subscribed, queue, missed>>
  BY DEF Snapshot, serverVars, clientVars
<1> DEFINE entries == {kvmap[k] : k \in Keys} \ {0}
<1>2. PICK s \in Listings :
         answer' = [answer EXCEPT ![c] =
                      Append([i \in DOMAIN s |-> Stored(s[i])], KTHXBAI(mgrSequence, Taken))]
  BY DEF Snapshot
<1>3. PICK n \in 0..MaxUpdates : s \in [1..n -> entries]
  BY DEF Listings
<1>4. \A e \in entries : \E i \in DOMAIN s : s[i] = e
  BY DEF Listings
<1>5. /\ at[c] = "snapshot" /\ model = 2 /\ Left(c) = {}
      /\ \A k \in Keys : map[c][k] = 0
  <2>1. Replica(c)
    OBVIOUS
  <2> QED
    BY <1>1, <2>1 DEF Replica, CloneType, Starts, Waits, Follows
<1>6. /\ Taken \in 0..sequence /\ sequence \in Nat /\ Taken \in Nat /\ Taken \in Numbers
      /\ mgrSequence = Wire(Taken) /\ Wire(Taken) \in Nat
      /\ \A k \in Keys : Latest(Upto(k, Taken), kvmap[k])
  <2>1. Taken \in 0..sequence /\ sequence \in 0..MaxUpdates /\ MaxUpdates \in Nat
    BY CloneAssumption DEF Server, CloneType, Numbers
  <2>2. Taken \in Numbers /\ Taken \in Nat
    BY <2>1 DEF Numbers
  <2> QED
    BY <1>5, <2>1, <2>2, Ranged DEF Server
<1>7. ASSUME NEW e \in entries
      PROVE  e \in 1..Taken /\ Latest(Upto(key[e], Taken), e) /\ e \in Nat
  <2>1. PICK k \in Keys : e = kvmap[k] /\ e # 0
    OBVIOUS
  <2>2. e \in Upto(k, Taken) /\ Latest(Upto(k, Taken), e)
    BY <1>6, <2>1 DEF Latest
  <2> QED
    BY <1>6, <2>2 DEF Upto
<1> DEFINE u == Taken
           body == [i \in DOMAIN s |-> Stored(s[i])]
           end == KTHXBAI(mgrSequence, Taken)
           a == Append(body, end)
<1>8. DOMAIN s = 1..n /\ n \in Nat
  BY <1>3, CloneAssumption
<1>9. /\ body \in Seq(Message) /\ Len(body) = n
      /\ \A i \in 1..n : body[i] = Stored(s[i]) /\ s[i] \in entries
  <2>1. \A i \in 1..n : s[i] \in entries /\ Stored(s[i]) \in Message
    BY <1>3, <1>7, CloneAssumption DEF Stored, Message, Numbers
  <2>2. body = [i \in 1..n |-> Stored(s[i])]
    BY <1>8
  <2> HIDE DEF entries, body
  <2>3. body \in Seq(Message) /\ Len(body) = n
    BY <1>8, <2>1, <2>2, SeqDef
  <2> QED
    BY <2>1, <2>2, <2>3
<1>10. end \in Message /\ end = KTHXBAI(Wire(u), u)
  BY <1>6 DEF KTHXBAI, Message
<1> HIDE DEF body, end, entries, u
<1>11. /\ a \in Seq(Message) /\ Len(a) = n + 1 /\ a[n + 1] = end
       /\ \A i \in 1..n : a[i] = Stored(s[i]) /\ s[i] \in entries
  BY <1>9, <1>10, AppendProperties
<1>12. answer'[c] = a /\ \A d \in Clients : d # c => answer'[d] = answer[d]
  BY <1>2 DEF CloneType, body, end
<1>13. CloneType'
  <2>1. answer' \in [Clients -> Seq(Message)]
    <3>1. answer' = [answer EXCEPT ![c] = a]
      BY <1>2 DEF body, end
    <3> HIDE DEF a
    <3> QED
      BY <1>11, <3>1 DEF CloneType
  <2> QED
    BY <1>1, <2>1 DEF CloneType
<1> HIDE DEF a
<1>14. Server'
  BY <1>1, ServerFrame
<1>15. ASSUME NEW d \in Clients, d # c PROVE Queued(d)' /\ Replica(d)'
  <2>1. d \in asked' <=> d \in asked
    BY <1>1, <1>15
  <2> QED
    BY <1>1, <1>12, <1>15, <2>1, ClientFrame
<1>16. Queued(c)' /\ Left(c)' = Left(c)
  BY <1>1 DEF Queued, Left, InQueue
<1>17. ASSUME NEW v, v = u PROVE LoadingTo(c, v)'
  <2>1. ASSUME NEW i \in 1..n
        PROVE  /\ a[i].number = s[i] /\ ~a[i].end
               /\ s[i] \in 1..u /\ Latest(Upto(key[s[i]], u), s[i])
    <3>1. a[i] = [end |-> FALSE, number |-> s[i], upto |-> 0] /\ s[i] \in entries
      BY <1>11 DEF Stored
    <3>2. a[i].number = s[i] /\ ~a[i].end
      BY <3>1
    <3> QED
      BY <1>7, <3>1, <3>2 DEF u
  <2>2. ASSUME NEW k \in Keys
        PROVE  \/ Latest(Upto(k, u), map[c][k])
               \/ map[c][k] = 0 /\ \E i \in 1..n : key[a[i].number] = k
    <3>1. CASE kvmap[k] = 0
      BY <1>5, <1>6, <3>1 DEF u
    <3>2. CASE kvmap[k] # 0
      <4>1. kvmap[k] \in entries /\ kvmap[k] \in Upto(k, u)
        BY <1>6, <3>2 DEF entries, Latest, u
      <4>2. PICK i \in 1..n : s[i] = kvmap[k]
        BY <1>4, <1>8, <4>1
      <4>3. key[a[i].number] = k
        BY <2>1, <4>1, <4>2 DEF Upto
      <4> QED
        BY <1>5, <4>3
    <3> QED
      BY <3>1, <3>2
  <2>3. Len(answer'[c]) = n + 1 /\ (n + 1) - 1 = n /\ n + 1 >= 1
    BY <1>8, <1>11, <1>12
  <2>4. answer'[c][n + 1] = KTHXBAI(Wire(v), v)
    BY <1>10, <1>11, <1>12, <1>17
  <2>5. \A k : Upto(k, v)' = Upto(k, u)
    BY <1>1, <1>17 DEF Upto
  <2> QED
    BY <1>1, <1>12, <1>17, <2>1, <2>2, <2>3, <2>4, <2>5 DEF LoadingTo
<1>18. Loading(c)'
  <2>1. u \in 0..sequence'
    BY <1>1, <1>6 DEF u
  <2> QED
    BY <1>17, <2>1 DEF Loading
<1>19. Replica(c)'
  BY <1>1, <1>5, <1>16, <1>18 DEF Replica, Waits
<1> QED
  BY <1>13, <1>14, <1>15, <1>16, <1>19

-----------------------------------------------------------------------------
(* clonecli2.c and clonecli1.c *)

\* A step of client c leaves the server and the other clients alone.
LEMMA ClientStep ==
    ASSUME CloneInv, NEW c \in Clients, UNCHANGED serverVars, CloneType',
           \A d \in Clients : d # c =>
              /\ queue'[d] = queue[d] /\ missed'[d] = missed[d] /\ answer'[d] = answer[d]
              /\ at'[d] = at[d] /\ snap'[d] = snap[d] /\ map'[d] = map[d]
              /\ seen'[d] = seen[d]
              /\ d \in asked' <=> d \in asked,
           Queued(c)', Replica(c)'
    PROVE  CloneInv'
<1>1. UNCHANGED <<model, sequence, sending, key, pipe, kvmap, mgrSequence>>
  BY DEF serverVars
<1>2. Server'
  BY <1>1, ServerFrame DEF CloneInv
<1>3. ASSUME NEW d \in Clients, d # c PROVE Queued(d)' /\ Replica(d)'
  BY <1>1, <1>3, ClientFrame DEF CloneInv
<1> QED
  BY <1>2, <1>3 DEF CloneInv

\* The request for a snapshot.
LEMMA AskStep ==
    ASSUME CloneInv, NEW c \in Clients, Ask(c)
    PROVE  CloneInv'
<1>1. /\ model = 2 /\ at[c] = "start"
      /\ at' = [at EXCEPT ![c] = "snapshot"]
      /\ asked' = asked \cup {c}
      /\ UNCHANGED <<serverVars, snap, map, seen, answer, subscribed, queue, missed>>
      /\ UNCHANGED <<model, sequence, key, sending, pipe, kvmap>>
  BY DEF Ask, serverVars
<1>2. CloneType'
  BY <1>1 DEF CloneInv, CloneType
<1>3. at'[c] = "snapshot" /\ \A d \in Clients : d # c => at'[d] = at[d]
  BY <1>1 DEF CloneInv, CloneType
<1>4. Queued(c) /\ Starts(c)
  BY <1>1 DEF CloneInv, Replica
<1>5. Left(c)' = Left(c)
  BY <1>1 DEF Left, InQueue
<1>6. Queued(c)'
  BY <1>1, <1>4, <1>5 DEF Queued
<1>7. Replica(c)'
  BY <1>1, <1>3, <1>4, <1>5 DEF Replica, Starts, Waits
<1> QED
  BY <1>1, <1>2, <1>3, <1>6, <1>7, ClientStep

\* clonecli1.c starts with an empty map.
LEMMA JoinStep ==
    ASSUME CloneInv, NEW c \in Clients, Join(c)
    PROVE  CloneInv'
<1>1. /\ model = 1 /\ at[c] = "start"
      /\ at' = [at EXCEPT ![c] = "updates"]
      /\ UNCHANGED <<serverVars, snap, map, seen, asked, answer, subscribed, queue, missed>>
      /\ UNCHANGED <<model, sequence, key, sending, pipe, kvmap>>
  BY DEF Join, serverVars, netVars
<1>2. CloneType'
  BY <1>1 DEF CloneInv, CloneType
<1>3. at'[c] = "updates" /\ \A d \in Clients : d # c => at'[d] = at[d]
  BY <1>1 DEF CloneInv, CloneType
<1>4. Queued(c) /\ Starts(c) /\ sequence \in Nat
  BY <1>1, CloneAssumption DEF CloneInv, CloneType, Replica, Numbers
<1>5. Left(c)' = Left(c)
  BY <1>1 DEF Left, InQueue
<1>6. Queued(c)'
  BY <1>1, <1>4, <1>5 DEF Queued
<1>7. ASSUME NEW k \in Keys PROVE Latest(Known(c, k), map[c][k])'
  <2>1. Known(c, k)' = {}
    <3>1. \A n \in 1..sequence : ~(n <= snap[c]) /\ n \notin Left(c)
      BY <1>4 DEF Starts
    <3> QED
      BY <1>1, <3>1 DEF Known, Left, InQueue
  <2>2. map'[c][k] = 0
    BY <1>1, <1>4 DEF Starts
  <2> QED
    BY <2>1, <2>2 DEF Latest
<1>8. Replica(c)'
  BY <1>1, <1>3, <1>4, <1>7 DEF Replica, Starts, Follows
<1> QED
  BY <1>1, <1>2, <1>3, <1>6, <1>8, ClientStep

\* The subscription is in force.
LEMMA SubscribeStep ==
    ASSUME CloneInv, NEW c \in Clients, Subscribe(c)
    PROVE  CloneInv'
<1>1. UNCHANGED <<model, sequence, sending, key, pipe, kvmap, mgrSequence, at, snap, map,
                  seen, asked, answer, queue, missed>>
  BY DEF Subscribe, serverVars, clientVars
<1>2. CloneType'
  BY <1>1 DEF CloneInv, CloneType
<1>3. Server'
  BY <1>1, ServerFrame DEF CloneInv
<1>4. \A d \in Clients : Queued(d)' /\ Replica(d)'
  BY <1>1, ClientFrame DEF CloneInv
<1> QED
  BY <1>2, <1>3, <1>4 DEF CloneInv

\* A message of the snapshot: an entry, which is the latest of its key, or
\* the end, after which the map is that of all updates up to it.
LEMMA ReadSnapshotStep ==
    ASSUME CloneInv, NEW c \in Clients, ReadSnapshot(c)
    PROVE  /\ CloneInv'
           /\ \A k \in Keys : map'[c][k] >= map[c][k]
           /\ \A d \in Clients : d # c => map'[d] = map[d]
<1> USE DEF CloneInv
<1> DEFINE m == Head(answer[c])
<1>1. /\ at[c] = "snapshot" /\ answer[c] # <<>>
      /\ answer' = [answer EXCEPT ![c] = Tail(@)]
      /\ UNCHANGED <<serverVars, asked, subscribed, queue, missed>>
      /\ UNCHANGED <<model, sequence, key, sending, pipe, kvmap>>
      /\ IF m.end
         THEN /\ at' = [at EXCEPT ![c] = "updates"]
              /\ seen' = [seen EXCEPT ![c] = Wire(m.number)]
              /\ snap' = [snap EXCEPT ![c] = m.upto]
              /\ UNCHANGED map
         ELSE /\ map' = [map EXCEPT ![c] = [@ EXCEPT ![key[m.number]] = m.number]]
              /\ UNCHANGED <<at, seen, snap>>
  BY DEF ReadSnapshot, serverVars, kvmsg_store
<1>2. model = 2 /\ Left(c) = {} /\ c \notin asked /\ Loading(c) /\ Queued(c)
  BY <1>1 DEF Replica, Waits
<1>3. PICK u \in 0..sequence : LoadingTo(c, u)
  BY <1>2 DEF Loading
<1> DEFINE a == answer[c]
           last == Len(a)
<1>4. /\ a \in Seq(Message) /\ Tail(a) \in Seq(Message) /\ m = a[1]
      /\ Len(Tail(a)) = last - 1 /\ last \in Nat /\ last >= 1
      /\ \A i \in 1..Len(Tail(a)) : Tail(a)[i] = a[i + 1]
  <2>1. a \in Seq(Message)
    BY DEF CloneType
  <2> QED
    BY <1>1, <2>1, HeadTailProperties, EmptySeq
<1>5. /\ a[last] = KTHXBAI(Wire(u), u)
      /\ \A i \in 1..(last - 1) :
            /\ ~a[i].end
            /\ a[i].number \in 1..u /\ Latest(Upto(key[a[i].number], u), a[i].number)
      /\ \A k \in Keys :
            \/ Latest(Upto(k, u), map[c][k])
            \/ map[c][k] = 0 /\ \E i \in 1..(last - 1) : key[a[i].number] = k
  BY <1>3 DEF LoadingTo
<1>6. /\ u \in Numbers /\ u \in Nat /\ sequence \in Nat /\ sequence \in Numbers
      /\ u <= sequence /\ \A n \in 1..u : n \in 1..sequence /\ n \in Numbers
  BY CloneAssumption DEF CloneType, Numbers
<1>7. answer'[c] = Tail(a) /\ \A d \in Clients : d # c => answer'[d] = answer[d]
  BY <1>1 DEF CloneType
<1>8. answer' \in [Clients -> Seq(Message)]
  BY <1>1, <1>4 DEF CloneType
<1>9. Left(c)' = Left(c) /\ Queued(c)'
  BY <1>1, <1>2 DEF Queued, Left, InQueue
<1> HIDE DEF m, a
<1>10. CASE m.end
  <2>1. last = 1
    <3>1. last # 1 => 1 \in 1..(last - 1)
      BY <1>4
    <3> QED
      BY <1>4, <1>5, <1>10, <3>1
  <2>2. m.number = Wire(u) /\ m.upto = u /\ Wire(Wire(u)) = Wire(u) /\ Wire(u) \in Nat
    BY <1>2, <1>4, <1>5, <1>6, <2>1, Ranged DEF KTHXBAI
  <2>3. /\ at' = [at EXCEPT ![c] = "updates"]
        /\ seen' = [seen EXCEPT ![c] = Wire(u)]
        /\ snap' = [snap EXCEPT ![c] = u]
        /\ map' = map
    BY <1>1, <1>10, <2>2
  <2>4. CloneType'
    <3>1. /\ at' \in [Clients -> {"start", "snapshot", "updates"}]
          /\ seen' \in [Clients -> Nat] /\ snap' \in [Clients -> Numbers]
      BY <1>6, <2>2, <2>3 DEF CloneType
    <3> QED
      BY <1>1, <1>8, <2>3, <3>1 DEF CloneType
  <2>5. /\ at'[c] = "updates" /\ seen'[c] = Wire(u) /\ snap'[c] = u
        /\ \A d \in Clients : d # c => /\ at'[d] = at[d] /\ seen'[d] = seen[d]
                                       /\ snap'[d] = snap[d]
    BY <2>3 DEF CloneType
  <2>6. Tail(a) = <<>>
    <3>1. Len(Tail(a)) = 0
      BY <1>4, <2>1
    <3> QED
      BY <1>4, <3>1, EmptySeq
  <2>7. ASSUME NEW k \in Keys PROVE Latest(Known(c, k), map[c][k])'
    <3>1. Latest(Upto(k, u), map[c][k])
      <4>1. ~\E i \in 1..(last - 1) : TRUE
        BY <2>1
      <4> QED
        BY <1>5, <4>1
    <3>2. \A n \in 1..sequence : Wire(n) <= Wire(u) <=> n <= u
      <4>1. \A n \in 0..sequence : n \in Nat /\ n < Limit
        BY <1>2, Ranged
      <4> QED
        BY <1>6, <4>1, WireOrder
    <3>3. Known(c, k)' = {n \in 1..sequence : /\ key[n] = k
                                              /\ n <= u \/ n \notin missed[c]
                                              /\ Wire(n) <= Wire(u)}
      BY <1>1, <1>2, <2>5 DEF Known
    <3>4. \A n : n \in 1..u <=> n \in 1..sequence /\ n <= u
      BY <1>6
    <3>5. Known(c, k)' = Upto(k, u)
      BY <3>2, <3>3, <3>4 DEF Upto
    <3> QED
      BY <2>3, <3>1, <3>5 DEF Latest
  <2>8. Follows(c)'
    <3>1. /\ Wire(u) <= Wire(sequence) /\ Wire(u) <= Wire(u)
      <4>1. u < Limit /\ sequence < Limit
        BY <1>2, <1>6, Ranged
      <4> QED
        BY <1>6, <4>1, WireOrder
    <3>2. /\ Wire(snap'[c]) <= seen'[c] /\ seen'[c] <= Wire(sequence')
          /\ snap'[c] <= sequence' /\ model' = 2
      BY <1>1, <1>2, <1>6, <2>5, <3>1
    <3>3. c \notin asked' /\ answer'[c] = <<>> /\ Left(c)' = {}
      BY <1>1, <1>2, <1>7, <1>9, <2>6
    <3> QED
      BY <2>7, <3>2, <3>3 DEF Follows
  <2>9. CloneInv'
    BY <1>1, <1>7, <1>9, <2>3, <2>4, <2>5, <2>8, ClientStep DEF Replica
  <2>10. \A k \in Keys : map[c][k] \in Nat
    BY CloneAssumption DEF CloneType, Numbers
  <2> QED
    BY <2>3, <2>9, <2>10
<1>11. CASE ~m.end
  <2> DEFINE x == m.number
  <2>1. last # 1 /\ 1 \in 1..(last - 1)
    <3>1. last # 1
      BY <1>4, <1>5, <1>11 DEF KTHXBAI
    <3> QED
      BY <1>4, <3>1
  <2>2. x \in 1..u /\ Latest(Upto(key[x], u), x) /\ x \in Nat /\ x \in Numbers
    BY <1>4, <1>5, <1>6, <2>1
  <2> HIDE DEF x
  <2>3. key[x] \in Keys
    BY <1>6, <2>2 DEF CloneType
  <2>4. /\ map' = [map EXCEPT ![c] = [@ EXCEPT ![key[x]] = x]]
        /\ UNCHANGED <<at, seen, snap>>
    BY <1>1, <1>11 DEF x
  <2>5. map[c] \in [Keys -> Numbers]
    BY DEF CloneType
  <2>6. /\ map'[c][key[x]] = x /\ \A k \in Keys : k # key[x] => map'[c][k] = map[c][k]
        /\ \A d \in Clients : d # c => map'[d] = map[d]
    BY <2>3, <2>4, <2>5 DEF CloneType
  <2>7. CloneType'
    <3>1. [map[c] EXCEPT ![key[x]] = x] \in [Keys -> Numbers]
      BY <2>2, <2>5
    <3>2. map' \in [Clients -> [Keys -> Numbers]]
      BY <2>4, <3>1 DEF CloneType
    <3> QED
      BY <1>1, <1>8, <2>4, <3>2 DEF CloneType
  <2>8. ASSUME NEW v, v = u PROVE LoadingTo(c, v)'
    <3> DEFINE rest == Len(Tail(a))
    <3>1. /\ rest = last - 1 /\ rest >= 1 /\ rest \in Nat
          /\ Tail(a)[rest] = a[last]
      BY <1>4, <2>1
    <3>2. \A i \in 1..(rest - 1) : i + 1 \in 1..(last - 1) /\ Tail(a)[i] = a[i + 1]
      BY <1>4, <3>1
    <3>3. ASSUME NEW k \in Keys
          PROVE  \/ Latest(Upto(k, u), map'[c][k])
                 \/ map'[c][k] = 0 /\ \E i \in 1..(rest - 1) : key[Tail(a)[i].number] = k
      <4>1. CASE k = key[x]
        BY <2>2, <2>6, <4>1
      <4>2. CASE k # key[x]
        <5>1. CASE Latest(Upto(k, u), map[c][k])
          BY <2>6, <4>2, <5>1
        <5>2. CASE map[c][k] = 0 /\ \E i \in 1..(last - 1) : key[a[i].number] = k
          <6>1. PICK i \in 1..(last - 1) : key[a[i].number] = k
            BY <5>2
          <6>2. i # 1
            BY <1>4, <4>2, <6>1 DEF x
          <6>3. i - 1 \in 1..(rest - 1) /\ Tail(a)[i - 1] = a[i]
            BY <1>4, <3>1, <6>1, <6>2
          <6> QED
            BY <2>6, <4>2, <5>2, <6>1, <6>3
        <5> QED
          BY <1>5, <5>1, <5>2
      <4> QED
        BY <4>1, <4>2
    <3>4. \A i \in 1..(rest - 1) :
             /\ ~Tail(a)[i].end
             /\ Tail(a)[i].number \in 1..u
             /\ Latest(Upto(key[Tail(a)[i].number], u), Tail(a)[i].number)
      BY <1>5, <3>2
    <3>5. \A k : Upto(k, v)' = Upto(k, u)
      BY <1>1, <2>8 DEF Upto
    <3>6. Tail(a)[rest] = KTHXBAI(Wire(v), v)
      BY <1>5, <2>8, <3>1
    <3>7. answer'[c] = Tail(a) /\ Len(answer'[c]) = rest /\ key' = key
      BY <1>1, <1>7
    <3> HIDE DEF rest
    <3> QED
      BY <2>8, <3>1, <3>3, <3>4, <3>5, <3>6, <3>7 DEF LoadingTo
  <2>9. Replica(c)'
    <3>1. Loading(c)'
      BY <1>1, <2>8 DEF Loading
    <3> QED
      BY <1>1, <1>2, <1>9, <2>4, <3>1 DEF Replica, Waits
  <2>10. CloneInv'
    BY <1>1, <1>7, <1>9, <2>4, <2>6, <2>7, <2>9, ClientStep
  <2>11. ASSUME NEW k \in Keys PROVE map'[c][k] >= map[c][k]
    <3>1. map[c][k] \in Nat
      BY <2>5, CloneAssumption DEF Numbers
    <3>2. CASE k = key[x]
      <4>1. Latest(Upto(k, u), map[c][k]) => map[c][k] <= x
        BY <2>2, <3>1, <3>2 DEF Latest
      <4>2. map[c][k] <= x
        BY <1>5, <2>2, <4>1
      <4> QED
        BY <2>2, <2>6, <3>1, <3>2, <4>2
    <3>3. CASE k # key[x]
      BY <2>6, <3>1, <3>3
    <3> QED
      BY <3>2, <3>3
  <2> QED
    BY <2>6, <2>10, <2>11
<1> QED
  BY <1>10, <1>11

\* The update at the head of the queue is newer than those read before, and
\* older than those behind it.
LEMMA ReadQueue ==
    ASSUME CloneType, NEW c \in Clients, Queued(c), queue[c] # <<>>,
           queue' = [queue EXCEPT ![c] = Tail(@)], UNCHANGED <<sequence, missed>>
    PROVE  LET h == Head(queue[c])
           IN  /\ queue' \in [Clients -> Seq(Updates)]
               /\ \A d \in Clients : d # c => queue'[d] = queue[d]
               /\ h \in 1..sequence /\ h \in Numbers /\ h \notin missed[c]
               /\ \A n : InQueue(c, n) => n \in 1..sequence /\ h <= n
               /\ \A n \in Left(c) : n < h
               /\ Left(c)' = Left(c) \cup {h}
               /\ Queued(c)'
<1> DEFINE q == queue[c]
           h == Head(queue[c])
<1>1. q \in Seq(Updates)
  BY DEF CloneType
<1>2. /\ Tail(q) \in Seq(Updates) /\ Len(Tail(q)) = Len(q) - 1
      /\ Len(q) \in Nat /\ 1 \in 1..Len(q) /\ h = q[1]
      /\ \A i \in 1..Len(Tail(q)) : Tail(q)[i] = q[i + 1]
  <2>1. Len(q) \in Nat \ {0}
    BY <1>1, EmptySeq
  <2> QED
    BY <1>1, <2>1, HeadTailProperties
<1>3. queue'[c] = Tail(q) /\ \A d \in Clients : d # c => queue'[d] = queue[d]
  BY DEF CloneType
<1>4. queue' \in [Clients -> Seq(Updates)]
  BY <1>2 DEF CloneType
<1>5. /\ \A i \in 1..Len(q) : q[i] \in 1..sequence /\ q[i] \notin missed[c]
      /\ \A i, j \in 1..Len(q) : i < j => q[i] < q[j]
      /\ \A n \in missed[c] : n <= sequence
      /\ \A n \in Left(c) : \A i \in 1..Len(q) : n < q[i]
  BY DEF Queued
<1>6. sequence \in Nat /\ \A n \in 1..sequence : n \in Numbers /\ n \in Nat
  BY CloneAssumption DEF CloneType, Numbers
<1> HIDE DEF q, h
<1>7. h \in 1..sequence /\ h \in Numbers /\ h \notin missed[c] /\ h \in Nat
  BY <1>2, <1>5, <1>6
<1>8. \A n \in Left(c) : n < h
  BY <1>2, <1>5
<1>9. \A i \in 1..Len(Tail(q)) : i + 1 \in 1..Len(q) /\ 1 < i + 1 /\ Tail(q)[i] = q[i + 1]
  BY <1>2
<1>10. \A i \in 1..Len(q) : i = 1 \/ (i - 1 \in 1..Len(Tail(q)) /\ Tail(q)[i - 1] = q[i])
  <2>1. \A i \in 1..Len(q) : i = 1 \/ (i - 1 \in 1..Len(Tail(q)) /\ (i - 1) + 1 = i)
    BY <1>2
  <2> QED
    BY <1>2, <2>1
<1>11. \A n : InQueue(c, n) => n \in 1..sequence /\ h <= n
  <2>1. \A i \in 1..Len(q) : i = 1 \/ 1 < i
    BY <1>2
  <2>2. \A i \in 1..Len(q) : h <= q[i] /\ q[i] \in 1..sequence
    BY <1>2, <1>5, <1>6, <1>7, <2>1
  <2> QED
    BY <2>2 DEF InQueue, q
<1>12. \A n : InQueue(c, n)' <=> InQueue(c, n) /\ n # h
  <2>1. ASSUME NEW n, InQueue(c, n)' PROVE InQueue(c, n) /\ n # h
    <3>1. PICK i \in 1..Len(Tail(q)) : Tail(q)[i] = n
      BY <1>3, <2>1 DEF InQueue
    <3>2. i + 1 \in 1..Len(q) /\ q[i + 1] = n /\ q[1] < q[i + 1]
      BY <1>2, <1>5, <1>9, <3>1
    <3>3. n # h
      BY <1>2, <1>7, <3>2
    <3> QED
      BY <3>2, <3>3 DEF InQueue, q
  <2>2. ASSUME NEW n, InQueue(c, n), n # h PROVE InQueue(c, n)'
    <3>1. PICK i \in 1..Len(q) : q[i] = n
      BY <2>2 DEF InQueue, q
    <3>2. i - 1 \in 1..Len(Tail(q)) /\ Tail(q)[i - 1] = n
      BY <1>2, <1>10, <2>2, <3>1
    <3> QED
      BY <1>3, <3>2 DEF InQueue
  <2> QED
    BY <2>1, <2>2
<1>13. Left(c)' = Left(c) \cup {h}
  BY <1>7, <1>12 DEF Left
<1>14. Queued(c)'
  <2>1. \A i \in 1..Len(Tail(q)) : Tail(q)[i] \in 1..sequence /\ Tail(q)[i] \notin missed[c]
    BY <1>5, <1>9
  <2>2. ASSUME NEW i \in 1..Len(Tail(q)), NEW j \in 1..Len(Tail(q)), i < j
        PROVE  Tail(q)[i] < Tail(q)[j]
    <3>1. i + 1 < j + 1
      BY <1>2, <2>2
    <3> QED
      BY <1>5, <1>9, <3>1
  <2>3. \A n \in Left(c) \cup {h} : \A i \in 1..Len(Tail(q)) : n < Tail(q)[i]
    BY <1>2, <1>5, <1>9
  <2> QED
    BY <1>3, <1>5, <1>13, <2>1, <2>2, <2>3 DEF Queued
<1> QED
  BY <1>3, <1>4, <1>7, <1>8, <1>11, <1>13, <1>14 DEF h

\* The map of c, with update h, is the result of the updates it has to have
\* then: the ones before, all of them older, and h.
LEMMA StoreLatest ==
    ASSUME CloneType, NEW c \in Clients, NEW h \in Numbers, h \in 1..sequence,
           map' = [map EXCEPT ![c] = kvmsg_store(key[h], h, @)],
           \A k \in Keys : /\ Latest(Known(c, k), map[c][k])
                           /\ \A n \in Known(c, k) : n <= h
                           /\ Known(c, k)' = IF k = key[h] THEN Known(c, k) \cup {h}
                                             ELSE Known(c, k)
    PROVE  /\ map' \in [Clients -> [Keys -> Numbers]]
           /\ \A d \in Clients : d # c => map'[d] = map[d]
           /\ \A k \in Keys : /\ Latest(Known(c, k), map[c][k])'
                              /\ map'[c][k] >= map[c][k]
<1>1. key[h] \in Keys /\ map[c] \in [Keys -> Numbers] /\ h \in Nat
  BY CloneAssumption DEF CloneType, Numbers
<1>2. map' = [map EXCEPT ![c] = [@ EXCEPT ![key[h]] = h]]
  BY DEF kvmsg_store
<1>3. [map[c] EXCEPT ![key[h]] = h] \in [Keys -> Numbers]
  BY <1>1
<1>4. /\ map' \in [Clients -> [Keys -> Numbers]]
      /\ \A d \in Clients : d # c => map'[d] = map[d]
      /\ map'[c][key[h]] = h
      /\ \A k \in Keys : k # key[h] => map'[c][k] = map[c][k]
  <2>1. /\ map'[c] = [map[c] EXCEPT ![key[h]] = h]
        /\ \A d \in Clients : d # c => map'[d] = map[d]
    BY <1>2 DEF CloneType
  <2>2. map' \in [Clients -> [Keys -> Numbers]]
    BY <1>2, <1>3 DEF CloneType
  <2> QED
    BY <1>1, <2>1, <2>2
<1>5. ASSUME NEW k \in Keys
      PROVE  Latest(Known(c, k)', map'[c][k]) /\ map'[c][k] >= map[c][k]
  <2>0. map[c][k] \in Nat /\ Known(c, k) \in SUBSET Nat
    BY <1>1, CloneAssumption DEF Numbers, Known
  <2>1. CASE k = key[h]
    <3>1. Latest(Known(c, k) \cup {h}, h)
      BY <1>1, <2>0, LatestGrows
    <3>2. map[c][k] <= h
      BY <1>1, <2>0 DEF Latest
    <3> QED
      BY <1>1, <1>4, <2>0, <2>1, <3>1, <3>2
  <2>2. CASE k # key[h]
    BY <1>4, <2>0, <2>2
  <2> QED
    BY <2>1, <2>2
<1> QED
  BY <1>4, <1>5 DEF Latest

\* clonecli2.c: an update is applied if it is newer.
LEMMA ReadUpdateStep ==
    ASSUME CloneInv, NEW c \in Clients, ReadUpdate(c)
    PROVE  /\ CloneInv'
           /\ \A k \in Keys : map'[c][k] >= map[c][k]
           /\ \A d \in Clients : d # c => map'[d] = map[d]
<1> USE DEF CloneInv
<1> DEFINE h == Head(queue[c])
<1>1. /\ model = 2 /\ at[c] = "updates" /\ queue[c] # <<>>
      /\ queue' = [queue EXCEPT ![c] = Tail(@)]
      /\ UNCHANGED <<serverVars, at, snap, asked, answer, subscribed, missed>>
      /\ UNCHANGED <<model, sequence, key, sending, pipe, kvmap>>
      /\ IF Wire(h) > seen[c]
         THEN /\ seen' = [seen EXCEPT ![c] = Wire(h)]
              /\ map' = [map EXCEPT ![c] = kvmsg_store(key[h], h, @)]
         ELSE UNCHANGED <<seen, map>>
  BY DEF ReadUpdate, serverVars
<1>2. Queued(c) /\ Follows(c)
  BY <1>1 DEF Replica
<1>3. /\ queue' \in [Clients -> Seq(Updates)]
      /\ \A d \in Clients : d # c => queue'[d] = queue[d]
      /\ h \in 1..sequence /\ h \in Numbers /\ h \notin missed[c]
      /\ \A n : InQueue(c, n) => n \in 1..sequence /\ h <= n
      /\ \A n \in Left(c) : n < h
      /\ Left(c)' = Left(c) \cup {h}
      /\ Queued(c)'
  BY <1>1, <1>2, ReadQueue
<1> HIDE DEF h
<1>4. /\ c \notin asked /\ answer[c] = <<>> /\ snap[c] <= sequence
      /\ Wire(snap[c]) <= seen[c] /\ seen[c] <= Wire(sequence)
      /\ \A n \in Left(c) : Wire(n) <= seen[c]
      /\ \A k \in Keys : Latest(Known(c, k), map[c][k])
  BY <1>1, <1>2 DEF Follows
<1>5. /\ snap[c] \in Numbers /\ sequence \in Numbers /\ seen[c] \in Nat
      /\ snap[c] \in Nat /\ sequence \in Nat
      /\ \A n \in 1..sequence : n \in Numbers /\ n \in Nat
      /\ snap[c] < Limit /\ sequence < Limit /\ \A n \in 1..sequence : n < Limit
      /\ Wire(snap[c]) \in Nat
  <2>1. /\ snap[c] \in Numbers /\ sequence \in Numbers /\ seen[c] \in Nat
        /\ snap[c] \in Nat /\ sequence \in Nat
    BY CloneAssumption DEF CloneType, Numbers
  <2>2. snap[c] \in 0..sequence /\ sequence \in 0..sequence
    BY <1>4, <2>1
  <2>3. \A n \in 0..sequence : n \in Nat /\ n \in Numbers /\ n < Limit /\ Wire(n) \in Nat
    BY <1>1, Ranged
  <2> QED
    BY <2>1, <2>2, <2>3
<1>6. /\ Wire(h) \in Nat /\ Wire(h) <= Wire(sequence) /\ Wire(sequence) \in Nat
      /\ \A n \in 1..sequence : /\ Wire(n) \in Nat
                                /\ Wire(n) <= Wire(h) <=> n <= h
                                /\ n <= snap[c] => Wire(n) <= Wire(snap[c])
  <2>1. \A n \in 1..sequence : Wire(n) <= Wire(h) <=> n <= h
    BY <1>3, <1>5, WireOrder
  <2>2. \A n \in 1..sequence : n <= snap[c] => Wire(n) <= Wire(snap[c])
    BY <1>5, WireOrder
  <2>3. h <= sequence
    BY <1>3, <1>5
  <2>4. Wire(h) <= Wire(sequence) /\ Wire(sequence) \in Nat /\ Wire(h) \in Nat
    BY <1>3, <1>5, <2>3, WireOrder
  <2>5. \A n \in 1..sequence : Wire(n) \in Nat
    BY <1>5, WireOrder
  <2> QED
    BY <2>1, <2>2, <2>4, <2>5
<1>7. CASE Wire(h) > seen[c]
  <2>1. /\ seen' = [seen EXCEPT ![c] = Wire(h)]
        /\ map' = [map EXCEPT ![c] = kvmsg_store(key[h], h, @)]
    BY <1>1, <1>7
  <2>2. /\ seen'[c] = Wire(h) /\ seen' \in [Clients -> Nat]
        /\ \A d \in Clients : d # c => seen'[d] = seen[d]
    BY <1>6, <2>1 DEF CloneType
  <2>3. ASSUME NEW k \in Keys
        PROVE  /\ \A n \in Known(c, k) : n <= h
               /\ Known(c, k)' = IF k = key[h] THEN Known(c, k) \cup {h} ELSE Known(c, k)
    <3>1. Known(c, k) = {n \in 1..sequence : /\ key[n] = k
                                             /\ n <= snap[c] \/ n \notin missed[c]
                                             /\ Wire(n) <= seen[c]}
      BY <1>1 DEF Known
    <3>2. Known(c, k)' = {n \in 1..sequence : /\ key[n] = k
                                              /\ n <= snap[c] \/ n \notin missed[c]
                                              /\ Wire(n) <= Wire(h)}
      BY <1>1, <2>2 DEF Known
    <3>3. ASSUME NEW n \in 1..sequence, Wire(n) <= seen[c] PROVE n <= h /\ Wire(n) <= Wire(h)
      <4>1. Wire(n) <= Wire(h)
        BY <1>5, <1>6, <1>7, <3>3
      <4> QED
        BY <1>6, <4>1
    <3>4. ASSUME NEW n \in 1..sequence, n <= snap[c] \/ n \notin missed[c],
                 Wire(n) <= Wire(h), n # h
          PROVE  Wire(n) <= seen[c]
      <4>1. CASE n <= snap[c]
        BY <1>4, <1>5, <1>6, <4>1
      <4>2. CASE n \notin missed[c]
        <5>1. n < h
          BY <1>3, <1>5, <1>6, <3>4
        <5>2. ~InQueue(c, n)
          BY <1>3, <1>5, <5>1
        <5>3. n \in Left(c)
          BY <4>2, <5>2 DEF Left
        <5> QED
          BY <1>4, <5>3
      <4> QED
        BY <3>4, <4>1, <4>2
    <3>5. Wire(h) <= Wire(h)
      BY <1>6
    <3>6. ASSUME NEW n
          PROVE  n \in Known(c, k)' <=> n \in Known(c, k) \/ (n = h /\ k = key[h])
      BY <1>3, <3>1, <3>2, <3>3, <3>4, <3>5
    <3>7. \A n \in Known(c, k) : n <= h
      BY <3>1, <3>3
    <3> QED
      BY <3>6, <3>7
  <2>4. /\ map' \in [Clients -> [Keys -> Numbers]]
        /\ \A d \in Clients : d # c => map'[d] = map[d]
        /\ \A k \in Keys : Latest(Known(c, k), map[c][k])' /\ map'[c][k] >= map[c][k]
    BY <1>3, <1>4, <2>1, <2>3, StoreLatest
  <2>5. CloneType'
    BY <1>1, <1>3, <2>2, <2>4 DEF CloneType
  <2>6. Follows(c)'
    <3>1. \A n \in Left(c) : Wire(n) <= Wire(h)
      <4>1. \A n \in Left(c) : n \in 1..sequence
        BY DEF Left
      <4> QED
        BY <1>4, <1>5, <1>6, <1>7, <4>1
    <3>2. Wire(snap[c]) <= Wire(h) /\ Wire(h) <= Wire(h)
      BY <1>4, <1>5, <1>6, <1>7
    <3>3. /\ Wire(snap'[c]) <= seen'[c] /\ seen'[c] <= Wire(sequence')
          /\ \A n \in Left(c)' : Wire(n) <= seen'[c]
      BY <1>1, <1>3, <1>6, <2>2, <3>1, <3>2
    <3> QED
      BY <1>1, <1>4, <2>4, <3>3 DEF Follows
  <2>7. Replica(c)'
    BY <1>1, <2>6 DEF Replica
  <2> QED
    BY <1>1, <1>3, <2>2, <2>4, <2>5, <2>7, ClientStep
<1>8. CASE ~(Wire(h) > seen[c])
  <2>1. seen' = seen /\ map' = map
    BY <1>1, <1>8
  <2>2. CloneType'
    BY <1>1, <1>3, <2>1 DEF CloneType
  <2>3. \A k \in Keys : Latest(Known(c, k), map[c][k])'
    <3>1. \A k \in Keys : Known(c, k)' = Known(c, k)
      BY <1>1, <2>1 DEF Known
    <3> QED
      BY <1>4, <2>1, <3>1
  <2>4. Follows(c)'
    <3>1. Wire(h) <= seen[c]
      BY <1>5, <1>6, <1>8
    <3>2. \A n \in Left(c)' : Wire(n) <= seen'[c]
      BY <1>3, <1>4, <2>1, <3>1
    <3> QED
      BY <1>1, <1>4, <2>1, <2>3, <3>2 DEF Follows
  <2>5. Replica(c)'
    BY <1>1, <2>4 DEF Replica
  <2>6. \A k \in Keys : map[c][k] \in Nat
    BY CloneAssumption DEF CloneType, Numbers
  <2> QED
    BY <1>1, <1>3, <2>1, <2>2, <2>5, <2>6, ClientStep
<1> QED
  BY <1>7, <1>8

\* clonecli1.c: every update is applied, and they come in order.
LEMMA ReadEveryStep ==
    ASSUME CloneInv, NEW c \in Clients, ReadEvery(c)
    PROVE  /\ CloneInv'
           /\ \A k \in Keys : map'[c][k] >= map[c][k]
           /\ \A d \in Clients : d # c => map'[d] = map[d]
<1> USE DEF CloneInv
<1> DEFINE h == Head(queue[c])
<1>1. /\ model = 1 /\ at[c] = "updates" /\ queue[c] # <<>>
      /\ queue' = [queue EXCEPT ![c] = Tail(@)]
      /\ map' = [map EXCEPT ![c] = kvmsg_store(key[h], h, @)]
      /\ seen' = [seen EXCEPT ![c] = @ + 1]
      /\ UNCHANGED <<serverVars, at, snap, asked, answer, subscribed, missed>>
      /\ UNCHANGED <<model, sequence, key, sending, pipe, kvmap>>
  BY DEF ReadEvery, serverVars
<1>2. Queued(c) /\ Follows(c)
  BY <1>1 DEF Replica
<1>3. /\ queue' \in [Clients -> Seq(Updates)]
      /\ \A d \in Clients : d # c => queue'[d] = queue[d]
      /\ h \in 1..sequence /\ h \in Numbers /\ h \notin missed[c]
      /\ \A n \in Left(c) : n < h
      /\ Left(c)' = Left(c) \cup {h}
      /\ Queued(c)'
  BY <1>1, <1>2, ReadQueue
<1> HIDE DEF h
<1>4. /\ c \notin asked /\ answer[c] = <<>> /\ snap[c] <= sequence /\ snap[c] = 0
      /\ \A k \in Keys : Latest(Known(c, k), map[c][k])
  BY <1>1, <1>2 DEF Follows
<1>5. /\ seen' \in [Clients -> Nat]
      /\ \A d \in Clients : d # c => seen'[d] = seen[d]
  BY <1>1 DEF CloneType
<1>6. \A n \in 1..sequence : n \in Nat /\ ~(n <= 0)
  BY CloneAssumption DEF CloneType, Numbers
<1>7. ASSUME NEW k \in Keys
      PROVE  /\ \A n \in Known(c, k) : n <= h
             /\ Known(c, k)' = IF k = key[h] THEN Known(c, k) \cup {h} ELSE Known(c, k)
  <2>1. Known(c, k) = {n \in Left(c) : key[n] = k}
    <3>1. ASSUME NEW n PROVE n \in Known(c, k) <=> n \in Left(c) /\ key[n] = k
      BY <1>1, <1>4, <1>6 DEF Known, Left, InQueue
    <3> QED
      BY <3>1
  <2>2. Known(c, k)' = {n \in Left(c)' : key[n] = k}
    <3>1. /\ snap'[c] = 0 /\ model' # 2 /\ model' = 1 /\ sequence' = sequence /\ key' = key
          /\ missed' = missed
      BY <1>1, <1>4
    <3>2. Known(c, k)' = {n \in 1..sequence : /\ key[n] = k
                                              /\ n <= 0 \/ n \notin missed[c]
                                              /\ ~InQueue(c, n)'}
      BY <3>1 DEF Known, InQueue
    <3>3. Left(c)' = {n \in 1..sequence : n \notin missed[c] /\ ~InQueue(c, n)'}
      BY <3>1 DEF Left
    <3> QED
      BY <1>6, <3>2, <3>3
  <2>3. \A n \in Left(c) : n <= h
    <3>1. \A n \in Left(c) : n \in 1..sequence
      BY DEF Left
    <3> QED
      BY <1>3, <1>6, <3>1
  <2> QED
    BY <1>3, <2>1, <2>2, <2>3
<1>8. /\ map' \in [Clients -> [Keys -> Numbers]]
      /\ \A d \in Clients : d # c => map'[d] = map[d]
      /\ \A k \in Keys : Latest(Known(c, k), map[c][k])' /\ map'[c][k] >= map[c][k]
  <2>1. map' = [map EXCEPT ![c] = kvmsg_store(key[h], h, @)]
    BY <1>1
  <2>2. CloneType /\ h \in Numbers /\ h \in 1..sequence
    BY <1>1, <1>3
  <2>3. \A k \in Keys : /\ Latest(Known(c, k), map[c][k])
                        /\ \A n \in Known(c, k) : n <= h
                        /\ Known(c, k)' = IF k = key[h] THEN Known(c, k) \cup {h}
                                          ELSE Known(c, k)
    BY <1>4, <1>7
  <2> QED
    BY <2>1, <2>2, <2>3, StoreLatest
<1>9. CloneType'
  BY <1>1, <1>3, <1>5, <1>8 DEF CloneType
<1>10. Replica(c)'
  BY <1>1, <1>4, <1>8 DEF Replica, Follows
<1> QED
  BY <1>1, <1>3, <1>5, <1>8, <1>9, <1>10, ClientStep

-----------------------------------------------------------------------------
(* The theorems *)

\* A step in range keeps the invariant, and takes no value back.
LEMMA CloneStep ==
    ASSUME CloneInv, [Next]_vars, InRange'
    PROVE  /\ CloneInv'
           /\ \A c \in Clients, k \in Keys : map'[c][k] >= map[c][k]
<1>1. \A c \in Clients, k \in Keys : map[c][k] \in Nat
  BY CloneAssumption DEF CloneInv, CloneType, Numbers
<1>2. ASSUME map' = map PROVE \A c \in Clients, k \in Keys : map'[c][k] >= map[c][k]
  BY <1>1, <1>2
<1>3. CASE UNCHANGED vars
  <2>1. UNCHANGED <<model, sequence, sending, key, pipe, kvmap, mgrSequence, at, snap, map,
                    seen, asked, answer, queue, missed>>
    BY <1>3 DEF vars, serverVars, clientVars, netVars
  <2>2. CloneType' /\ Server' /\ \A c \in Clients : Queued(c)' /\ Replica(c)'
    BY <2>1, ServerFrame, ClientFrame DEF CloneInv, CloneType
  <2> QED
    BY <1>2, <2>1, <2>2 DEF CloneInv
<1>4. CASE Publish \/ PassOn \/ Store \/ PublishAndStore
  <2>1. map' = map
    BY <1>4 DEF Publish, PassOn, Store, PublishAndStore, Send, clientVars
  <2> QED
    BY <1>2, <1>4, <2>1, PublishStep, PassOnStep, StoreStep, PublishAndStoreStep
<1>5. ASSUME NEW c \in Clients, Snapshot(c) \/ Ask(c) \/ Subscribe(c) \/ Join(c)
      PROVE  CloneInv' /\ map' = map
  <2>1. map' = map
    BY <1>5 DEF Snapshot, Ask, Subscribe, Join, clientVars
  <2> QED
    BY <1>5, <2>1, SnapshotStep, AskStep, SubscribeStep, JoinStep
<1>6. ASSUME NEW c \in Clients, ReadSnapshot(c) \/ ReadUpdate(c) \/ ReadEvery(c)
      PROVE  /\ CloneInv'
             /\ \A k \in Keys : map'[c][k] >= map[c][k]
             /\ \A d \in Clients : d # c => map'[d] = map[d]
  BY <1>6, ReadSnapshotStep, ReadUpdateStep, ReadEveryStep
<1>7. ASSUME NEW c \in Clients, ReadSnapshot(c) \/ ReadUpdate(c) \/ ReadEvery(c)
      PROVE  \A d \in Clients, k \in Keys : map'[d][k] >= map[d][k]
  BY <1>1, <1>6, <1>7
<1> QED
  BY <1>2, <1>3, <1>4, <1>5, <1>6, <1>7 DEF Next

\* What holds of every state, in range and beyond: the number of the last
\* update only grows, so that a behaviour that has left the range stays out.
CloneGuarded ==
    /\ model \in {1, 2} /\ sequence \in Nat
    /\ InRange => CloneInv

\* The number and the pair of programs after a step.
LEMMA SequenceGrows ==
    ASSUME sequence \in Nat, [Next]_vars
    PROVE  /\ model' = model
           /\ sequence' \in Nat
           /\ InRange' => InRange
<1>1. model' = model /\ (sequence' = sequence \/ sequence' = sequence + 1)
  BY DEF Next, vars, serverVars, clientVars, netVars, Publish, PassOn, Store,
         PublishAndStore, Send, Snapshot, Ask, Subscribe, Join, ReadSnapshot,
         ReadUpdate, ReadEvery
<1>2. sequence' \in Nat /\ sequence <= sequence'
  BY <1>1
<1>3. InRange' => InRange
  BY <1>1, <1>2, WireZero DEF InRange
<1> QED
  BY <1>1, <1>2, <1>3

\* The strengthening is an invariant of both pairs of programs.
THEOREM CloneInvariance == Spec => []CloneGuarded
<1>1. Init => CloneGuarded
  <2> SUFFICES ASSUME Init PROVE CloneGuarded
    OBVIOUS
  <2>1. model \in {1, 2} /\ sequence \in Nat
    BY DEF Init
  <2> QED
    BY <2>1, CloneInit DEF CloneGuarded
<1>2. CloneGuarded /\ [Next]_vars => CloneGuarded'
  BY SequenceGrows, CloneStep DEF CloneGuarded
<1> QED
  BY <1>1, <1>2, PTL DEF Spec

\* clonecli2.c:33: whatever the order in which publisher, state_manager and
\* network take their steps, up to update Base ^ 3 - 1 a client's map is that
\* of the updates it has to have, none skipped and none undone.
THEOREM ReplicasRight == Spec => []ReplicaConsistent
<1>1. CloneGuarded => ReplicaConsistent
  BY DEF CloneGuarded, CloneInv, Replica, Follows, ReplicaConsistent
<1> QED
  BY <1>1, CloneInvariance, PTL

\* kvsimple.c and the clients: up to update Base ^ 3 - 1 no value is replaced
\* by an older one, in the snapshot, at its end, or from the queue.
THEOREM ValuesForward == Spec => NeverBack
<1>1. CloneGuarded /\ [Next]_vars
        => [InRange' => \A c \in Clients, k \in Keys : map'[c][k] >= map[c][k]]_vars
  BY SequenceGrows, CloneStep DEF CloneGuarded
<1> QED
  BY <1>1, CloneInvariance, PTL DEF Spec, NeverBack

\* kvsimple.c:151: Base ^ 3 is where the range of the two theorems above ends,
\* for bytes of any size: below it the decoded numbers are in order and
\* stable, and at it they are not.
THEOREM RangeEnds == Spec => []RangeIsExact
<1>1. ASSUME NEW n \in Nat PROVE Trusted(n) <=> n < Limit
  <2>1. CASE n < Limit
    <3>1. \A i \in 0..n : i \in Nat /\ i < Limit
      BY <2>1, WireZero
    <3>2. ASSUME NEW i \in 1..n PROVE Wire(i - 1) < Wire(i)
      <4>1. i - 1 \in 0..n /\ i \in 0..n /\ i - 1 < i
        OBVIOUS
      <4> QED
        BY <3>1, <4>1, WireOrder
    <3>3. \A i \in 0..n : Wire(Wire(i)) = Wire(i)
      BY <3>1, WireStable DEF Limit
    <3> QED
      BY <2>1, <3>2, <3>3 DEF Trusted
  <2>2. CASE ~(n < Limit)
    <3>1. Limit \in 1..n
      BY <2>2, WireZero
    <3>2. Wire(Limit) < Wire(Limit - 1)
      BY WireBreaks DEF Limit
    <3>3. Wire(Limit) \in Int /\ Wire(Limit - 1) \in Int
      BY WireBreaks DEF Limit
    <3>4. ~(Wire(Limit - 1) < Wire(Limit))
      BY <3>2, <3>3
    <3> QED
      BY <2>2, <3>1, <3>4 DEF Trusted
  <2> QED
    BY <2>1, <2>2
<1>2. CloneGuarded => RangeIsExact
  BY <1>1 DEF CloneGuarded, RangeIsExact
<1> QED
  BY <1>2, CloneInvariance, PTL

-----------------------------------------------------------------------------
(* chat_server.c *)

\* The variables that the order of the conversation depends on.
ChatType ==
    /\ thread \in [ChatClients -> {"none", "new", "read", "locked", "eof", "done"}]
    /\ msg \in [ChatClients -> Nat]
    /\ printed \in [ChatClients -> Seq(Nat)]
    /\ order \in Nat

\* Only the thread that holds the mutex is in send_msg, with the latest of
\* the broadcasts in its hands.
Exclusion ==
    \A t \in ChatClients : thread[t] = "locked" => mutx = t /\ msg[t] = order

\* Nobody has printed a broadcast that has not begun.
PrintedBound ==
    \A c \in ChatClients : \A j \in 1..Len(printed[c]) : printed[c][j] <= order

ChatInv == ChatType /\ Exclusion /\ PrintedBound /\ Chat!SameOrder

\* A number that is not below any other can be added at the end.
LEMMA AppendInOrder ==
    ASSUME NEW s \in Seq(Nat), NEW n \in Nat,
           \A j \in 1..Len(s) : s[j] <= n,
           \A j, k \in 1..Len(s) : j < k => s[j] <= s[k]
    PROVE  /\ \A j \in 1..Len(Append(s, n)) : Append(s, n)[j] <= n
           /\ \A j, k \in 1..Len(Append(s, n)) :
                 j < k => Append(s, n)[j] <= Append(s, n)[k]
<1>1. /\ Len(Append(s, n)) = Len(s) + 1 /\ Len(s) \in Nat
      /\ \A j \in 1..Len(s) : Append(s, n)[j] = s[j] /\ s[j] \in Nat
      /\ Append(s, n)[Len(s) + 1] = n
  OBVIOUS
<1>2. ASSUME NEW j \in 1..(Len(s) + 1) PROVE Append(s, n)[j] <= n
  BY <1>1, <1>2
<1> QED
  BY <1>1, <1>2

\* The server starts with the mutex free and nothing printed.
LEMMA ChatInit == Chat!Init => ChatInv
  BY DEF Chat!Init, ChatInv, ChatType, Exclusion, PrintedBound, Chat!SameOrder

\* main, the threads and the clients preserve the invariant.
LEMMA ChatNext ==
    ASSUME ChatInv, [Chat!Next]_(Chat!vars)
    PROVE  ChatInv'
<1> USE PatternsAssumption
<1>t. ChatType /\ Exclusion /\ PrintedBound /\ Chat!SameOrder
  BY DEF ChatInv
<1>a. ASSUME UNCHANGED <<printed, order, msg, mutx>>,
             thread' \in [ChatClients -> {"none", "new", "read", "locked", "eof", "done"}],
             \A t \in ChatClients : thread'[t] = "locked" => thread[t] = "locked"
      PROVE  ChatInv'
  BY <1>a, <1>t DEF ChatInv, ChatType, Exclusion, PrintedBound, Chat!SameOrder
<1>1. CASE Chat!Accept
  BY <1>1, <1>a, <1>t DEF Chat!Accept, ChatType, Chat!tableVars, Chat!threadVars, Chat!clientVars
<1>2. CASE Chat!Add
  BY <1>2, <1>a, <1>t DEF Chat!Add, ChatType, Chat!threadVars, Chat!clientVars
<1>3. CASE Chat!Create
  BY <1>3, <1>a, <1>t DEF Chat!Create, ChatType, Chat!tableVars, Chat!clientVars
<1>4. ASSUME NEW t \in ChatClients, Chat!Start(t) PROVE ChatInv'
  BY <1>4, <1>a, <1>t DEF Chat!Start, ChatType, Chat!tableVars, Chat!clientVars
<1>5. ASSUME NEW t \in ChatClients, Chat!Lock(t) PROVE ChatInv'
  <2>1. ChatType'
    BY <1>5, <1>t DEF Chat!Lock, ChatType
  <2>2. Exclusion'
    BY <1>5, <1>t DEF Chat!Lock, ChatType, Exclusion
  <2>3. PrintedBound' /\ Chat!SameOrder'
    <3>1. printed' = printed /\ order' = order + 1
      BY <1>5 DEF Chat!Lock
    <3> QED
      BY <3>1, <1>t DEF ChatType, PrintedBound, Chat!SameOrder
  <2> QED
    BY <2>1, <2>2, <2>3 DEF ChatInv
<1>6. ASSUME NEW t \in ChatClients, Chat!Write(t) PROVE ChatInv'
  <2> DEFINE f == clnt_socks[writing[t]]
             c == IF f = 0 THEN 0 ELSE owner[f]
  <2>1. /\ UNCHANGED <<order, msg, mutx, thread>>
        /\ thread[t] = "locked"
        /\ \/ printed' = printed
           \/ printed' = [printed EXCEPT ![c] = Append(@, msg[t])]
    BY <1>6 DEF Chat!Write, Chat!recv_msg, Chat!tableVars
  <2> HIDE DEF c
  <2>2. msg[t] = order /\ order \in Nat
    BY <2>1, <1>t DEF Exclusion, ChatType
  <2>3. CASE printed' = printed
    BY <2>1, <2>3, <1>a, <1>t DEF ChatType
  <2>4. CASE printed' = [printed EXCEPT ![c] = Append(@, msg[t])] /\ c \in ChatClients
    <3>1. ASSUME NEW d \in ChatClients
          PROVE  /\ printed[d] \in Seq(Nat)
                 /\ printed'[d] \in Seq(Nat)
                 /\ \/ printed'[d] = printed[d]
                    \/ printed'[d] = Append(printed[d], order)
      BY <2>2, <2>4, <1>t DEF ChatType
    <3>2. ChatType'
      BY <2>1, <2>2, <2>4, <1>t DEF ChatType
    <3>3. ASSUME NEW d \in ChatClients
          PROVE  /\ \A j \in 1..Len(printed'[d]) : printed'[d][j] <= order
                 /\ \A j, k \in 1..Len(printed'[d]) :
                       j < k => printed'[d][j] <= printed'[d][k]
      <4>1. /\ \A j \in 1..Len(printed[d]) : printed[d][j] <= order
            /\ \A j, k \in 1..Len(printed[d]) :
                  j < k => printed[d][j] <= printed[d][k]
        BY <1>t DEF PrintedBound, Chat!SameOrder
      <4>2. CASE printed'[d] = printed[d]
        BY <4>1, <4>2
      <4>3. CASE printed'[d] = Append(printed[d], order)
        BY <4>1, <4>3, <3>1, <2>2, AppendInOrder
      <4> QED
        BY <4>2, <4>3, <3>1
    <3> QED
      BY <3>2, <3>3, <2>1, <1>t DEF ChatInv, Exclusion, PrintedBound, Chat!SameOrder
  <2>5. CASE printed' = [printed EXCEPT ![c] = Append(@, msg[t])] /\ c \notin ChatClients
    <3>1. printed' = printed
      BY <2>5, <1>t DEF ChatType
    <3> QED
      BY <3>1, <2>3
  <2> QED
    BY <2>1, <2>3, <2>4, <2>5
<1>7. ASSUME NEW t \in ChatClients, Chat!Unlock(t) PROVE ChatInv'
  <2>1. ChatType'
    BY <1>7, <1>t DEF Chat!Unlock, ChatType, Chat!clientVars
  <2>2. Exclusion'
    BY <1>7, <1>t DEF Chat!Unlock, ChatType, Exclusion
  <2>3. PrintedBound' /\ Chat!SameOrder'
    BY <1>7, <1>t DEF Chat!Unlock, Chat!clientVars, PrintedBound, Chat!SameOrder
  <2> QED
    BY <2>1, <2>2, <2>3 DEF ChatInv
<1>8. ASSUME NEW t \in ChatClients, Chat!ReadEnd(t) PROVE ChatInv'
  BY <1>8, <1>a, <1>t DEF Chat!ReadEnd, ChatType, Chat!tableVars, Chat!clientVars
<1>9. ASSUME NEW t \in ChatClients, Chat!Leave(t) PROVE ChatInv'
  BY <1>9, <1>a, <1>t DEF Chat!Leave, ChatType, Chat!clientVars
<1>10. ASSUME NEW c \in ChatClients, Chat!Say(c) PROVE ChatInv'
  BY <1>10, <1>a, <1>t DEF Chat!Say, ChatType, Chat!tableVars, Chat!threadVars
<1>11. ASSUME NEW c \in ChatClients, Chat!Quit(c) PROVE ChatInv'
  BY <1>11, <1>a, <1>t DEF Chat!Quit, ChatType, Chat!tableVars, Chat!threadVars
<1>12. CASE UNCHANGED Chat!vars
  BY <1>12, <1>a, <1>t DEF Chat!vars, ChatType, Chat!tableVars, Chat!threadVars, Chat!clientVars
<1> QED
  BY <1>1, <1>2, <1>3, <1>4, <1>5, <1>6, <1>7, <1>8, <1>9, <1>10, <1>11, <1>12 DEF Chat!Next

\* Whatever send_msg finds in the table, all clients of chat_server.c print
\* the broadcasts in the order in which send_msg took the mutex for them.
THEOREM OneOrder == Chat!Spec => []SameOrder
<1>1. Chat!Init => ChatInv
  BY ChatInit
<1>2. ChatInv /\ [Chat!Next]_(Chat!vars) => ChatInv'
  BY ChatNext
<1>3. ChatInv => SameOrder
  BY DEF ChatInv, SameOrder
<1> QED
  BY <1>1, <1>2, <1>3, PTL DEF Chat!Spec

-----------------------------------------------------------------------------
(* The pirates *)

\* The instance of Pirate that Patterns has, with what is proved of it.
Proved == INSTANCE PirateProofs WITH
    Clients <- PirateClients, Server <- PirateServer, sequence <- requestNo

\* The constants of both instances are the same.
LEMMA SameConstants == Proved!PirateConstants
  BY PatternsAssumption
  DEF Pirate!PirateConstants, Proved!PirateConstants,
      Pirate!Signs, Proved!Signs, Pirate!Requests, Proved!Requests,
      Pirate!Identities, Proved!Identities

\* lpclient.c: a reply that reaches a client answers the request it waits
\* for, whatever was repeated, lost or answered late before.
THEOREM RepliesFresh == Proved!Spec => []NoStaleReply
<1>1. Proved!Spec => []Proved!NoStaleReply
  BY SameConstants, Proved!RepliesFresh
<1>2. Proved!NoStaleReply => NoStaleReply
  BY DEF Proved!NoStaleReply, NoStaleReply, Pirate!NoStaleReply
<1> QED
  BY <1>1, <1>2, PTL

\* spqueue.c and spworker.c: a worker is waiting, sent a request, working or
\* heard of, and never two of these.
THEOREM WorkersAlone == Proved!Spec => []OneAtATime
<1>1. Proved!Spec => []Proved!OneAtATime
  BY SameConstants, Proved!WorkersAlone
<1>2. Proved!OneAtATime => OneAtATime
  BY DEF Proved!OneAtATime, OneAtATime, Pirate!OneAtATime,
         Proved!Places, Pirate!Places, Proved!Identity, Pirate!Identity
<1> QED
  BY <1>1, <1>2, PTL

\* ppqueue.c: the list has every worker once, and those who expire first
\* first, so that s_workers_purge may stop at one that is alive.
THEOREM ListOrdered == Proved!Spec => []ListInOrder
<1>1. Proved!Spec => []Proved!ListInOrder
  BY SameConstants, Proved!ListOrdered
<1>2. Proved!ListInOrder => ListInOrder
  BY DEF Proved!ListInOrder, ListInOrder, Pirate!ListInOrder
<1> QED
  BY <1>1, <1>2, PTL
=============================================================================
