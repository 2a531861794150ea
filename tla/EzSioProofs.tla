------------------------------ MODULE EzSioProofs ------------------------------
(* Theorems about the serial driver for every size of its rings and of the   *)
(* UART's FIFOs, checked by TLAPS.                                            *)
EXTENDS EzSio, SequenceTheorems, TLAPS

-------------------------------------------------------------------------------
(* Arithmetic modulo the size of a ring. *)

LEMMA DivMod ==
  ASSUME NEW s \in Nat \ {0}, NEW a \in Int
  PROVE  /\ a = s * (a \div s) + (a % s)
         /\ a % s \in 0 .. s - 1
         /\ a \div s \in Int
  BY SMTT(30)

LEMMA Unique ==
  ASSUME NEW s \in Nat \ {0}, NEW p \in Int, NEW q \in Int,
         NEW r \in 0 .. s - 1, NEW t \in 0 .. s - 1, s * p + r = s * q + t
  PROVE  r = t
<1>1. s * p \in Int /\ s * q \in Int
  BY SMT
<1>2. s * (p - q) = t - r
  <2>1. s * (p - q) = s * p - s * q
    BY SMTT(30)
  <2> QED BY <1>1, <2>1
<1>3. CASE p - q = 0
  BY <1>2, <1>3
<1>4. CASE p - q >= 1
  <2>1. s * (p - q) >= s
    BY <1>4, SMTT(30)
  <2> QED BY <1>2, <2>1
<1>5. CASE p - q <= -1
  <2>1. s * (p - q) <= -s
    BY <1>5, SMTT(30)
  <2> QED BY <1>2, <2>1
<1> QED BY <1>3, <1>4, <1>5

LEMMA ModShift ==
  ASSUME NEW s \in Nat \ {0}, NEW a \in Int, NEW t \in Int
  PROVE  (a + s * t) % s = a % s
<1> DEFINE b == a + s * t
<1>1. b \in Int
  BY SMT
<1>2. a = s * (a \div s) + (a % s) /\ a % s \in 0 .. s - 1 /\ a \div s \in Int
  BY DivMod
<1>3. b = s * (b \div s) + (b % s) /\ b % s \in 0 .. s - 1 /\ b \div s \in Int
  BY <1>1, DivMod
<1>4. s * ((a \div s) + t) + (a % s) = s * (b \div s) + (b % s)
  <2> DEFINE q == a \div s
             r == a % s
  <2>1. q \in Int /\ r \in Int /\ a = s * q + r
    BY <1>2
  <2>2. s * (q + t) + r = s * q + r + s * t
    <3> HIDE DEF q, r
    <3> QED BY <2>1, SMTT(30)
  <2>3. s * (q + t) + r = b
    BY <2>1, <2>2
  <2> QED BY <1>3, <2>3
<1>5. (a \div s) + t \in Int
  BY <1>2
<1> HIDE DEF b
<1>6. b % s = a % s
  <2> DEFINE p == (a \div s) + t
             q == b \div s
             u == a % s
             v == b % s
  <2>1. s * p + u = s * q + v /\ p \in Int /\ q \in Int /\ u \in 0 .. s - 1 /\ v \in 0 .. s - 1
    BY <1>2, <1>3, <1>4, <1>5
  <2> HIDE DEF p, q, u, v
  <2>2. u = v
    BY <2>1, Unique
  <2> QED BY <2>2 DEF u, v
<1> QED BY <1>6 DEF b

\* A number may be reduced before another is added to it.
LEMMA ModAdd ==
  ASSUME NEW s \in Nat \ {0}, NEW a \in Int, NEW b \in Int
  PROVE  ((a % s) + b) % s = (a + b) % s
<1> DEFINE q == a \div s
           r == a % s
<1>1. a = s * q + r /\ r \in Int /\ q \in Int
  BY DivMod
<1> HIDE DEF q, r
<1>2. a + b = (r + b) + s * q
  <2>1. s * q \in Int
    BY <1>1, SMT
  <2> QED BY <1>1, <2>1
<1>3. ((r + b) + s * q) % s = (r + b) % s
  <2>1. r + b \in Int
    BY <1>1
  <2> QED BY <1>1, <2>1, ModShift, Zenon
<1>4. (a + b) % s = (r + b) % s
  BY <1>2, <1>3
<1> QED BY <1>4 DEF r

\* Numbers equal modulo the size may replace each other.
LEMMA ModEqual ==
  ASSUME NEW s \in Nat \ {0}, NEW a \in Int, NEW b \in Int, NEW c \in Int,
         a % s = b % s
  PROVE  (a + c) % s = (b + c) % s /\ (c - a) % s = (c - b) % s
<1>1. (a + c) % s = (b + c) % s
  <2>1. ((a % s) + c) % s = (a + c) % s /\ ((b % s) + c) % s = (b + c) % s
    BY ModAdd, Zenon
  <2> QED BY <2>1, Zenon
<1> DEFINE p == a \div s
           q == b \div s
           r == a % s
<1>2. a = s * p + r /\ b = s * q + r /\ p \in Int /\ q \in Int /\ r \in Int
  BY DivMod
<1> HIDE DEF p, q, r
<1>3. c - a = (c - b) + s * (q - p)
  <2>1. s * (q - p) = s * q - s * p /\ s * q \in Int /\ s * p \in Int
    BY <1>2, SMTT(30)
  <2> QED BY <1>2, <2>1
<1>4. ((c - b) + s * (q - p)) % s = (c - b) % s
  <2>1. c - b \in Int /\ q - p \in Int
    BY <1>2
  <2> QED BY <2>1, ModShift, Zenon
<1> QED BY <1>1, <1>3, <1>4

LEMMA ModSmall ==
  ASSUME NEW s \in Nat \ {0}, NEW a \in Int
  PROVE  /\ a \in 0 .. s - 1 => a % s = a
         /\ a \in -s .. -1 => a % s = a + s
<1>1. ASSUME NEW b \in 0 .. s - 1 PROVE b % s = b
  <2> DEFINE q == b \div s
             r == b % s
  <2>1. b = s * q + r /\ r \in 0 .. s - 1 /\ q \in Int
    BY DivMod
  <2> HIDE DEF q, r
  <2>2. s * 0 + b = s * q + r
    BY <2>1, SMT
  <2>3. b = r
    BY <2>1, <2>2, Unique
  <2> QED BY <2>3 DEF r
<1>2. ASSUME a \in -s .. -1 PROVE a % s = a + s
  <2>1. (a + s * 1) % s = a % s
    <3>1. 1 \in Int
      OBVIOUS
    <3> QED BY <3>1, ModShift, Zenon
  <2>2. s * 1 = s
    BY SMT
  <2>3. (a + s) % s = a + s
    BY <1>1, <1>2
  <2> QED BY <2>1, <2>2, <2>3
<1> QED BY <1>1, <1>2

\* Advancing an index n times, reduced before each use, advances it by n.
LEMMA AdvanceIndex ==
  ASSUME NEW s \in Nat \ {0}, NEW i \in 0 .. s, NEW n \in Nat
  PROVE  /\ Advanced(i, n, s) \in 0 .. s
         /\ Advanced(i, n, s) % s = (i + n) % s
<1>1. CASE n = 0
  BY <1>1 DEF Advanced
<1>2. CASE n # 0
  <2>1. (i + n - 1) % s \in 0 .. s - 1
    BY <1>2, DivMod
  <2>2. (((i + n - 1) % s) + 1) % s = (i + n - 1 + 1) % s
    <3>1. i + n - 1 \in Int /\ 1 \in Int
      OBVIOUS
    <3> QED BY <3>1, ModAdd, Zenon
  <2>3. i + n - 1 + 1 = i + n
    OBVIOUS
  <2> QED BY <1>2, <2>1, <2>2, <2>3 DEF Advanced
<1> QED BY <1>1, <1>2

-------------------------------------------------------------------------------
(* The ring is a queue. *)

\* A ring as rb_init makes it and as the operations leave it.
Ring(rb, size) ==
  /\ rb = [buf |-> rb.buf, size |-> rb.size, avail |-> rb.avail,
           wridx |-> rb.wridx, rdidx |-> rb.rdidx]
  /\ rb.buf \in [0 .. size - 1 -> Int] /\ rb.size = size
  /\ Sound(rb)

\* The fields that rb_pop and rb_push change, and those they keep.
LEMMA PopFields ==
  ASSUME NEW s, NEW rb, Ring(rb, s), NEW c
  PROVE  rb_pop(rb, c) = [buf |-> rb.buf, size |-> s, avail |-> rb.avail + PopCount(rb, c),
                          wridx |-> rb.wridx,
                          rdidx |-> Advanced(rb.rdidx, PopCount(rb, c), s)]
<1>1. PICK b, v, w, r : rb = [buf |-> b, size |-> s, avail |-> v, wridx |-> w, rdidx |-> r]
  BY Zenon DEF Ring
<1> DEFINE n == PopCount(rb, c)
<1> HIDE DEF n
<1>2. rb_pop(rb, c) = [rb EXCEPT !.rdidx = Advanced(rb.rdidx, n, rb.size), !.avail = rb.avail + n]
  BY DEF rb_pop, n
<1>3. rb_pop(rb, c) = [buf |-> rb.buf, size |-> s, avail |-> rb.avail + n, wridx |-> rb.wridx,
                       rdidx |-> Advanced(rb.rdidx, n, s)]
  BY <1>1, <1>2
<1> QED BY <1>3 DEF n

Cells(rb, items, s) ==
  [i \in 0 .. s - 1 |->
     IF (i - rb.wridx) % s < PushCount(rb, Len(items)) THEN items[((i - rb.wridx) % s) + 1]
     ELSE rb.buf[i]]

LEMMA PushFields ==
  ASSUME NEW s, NEW rb, Ring(rb, s), NEW items
  PROVE  rb_push(rb, items) =
           [buf |-> Cells(rb, items, s), size |-> s,
            avail |-> rb.avail - PushCount(rb, Len(items)),
            wridx |-> Advanced(rb.wridx, PushCount(rb, Len(items)), s), rdidx |-> rb.rdidx]
<1>1. PICK b, v, w, r : rb = [buf |-> b, size |-> s, avail |-> v, wridx |-> w, rdidx |-> r]
  BY Zenon DEF Ring
<1> DEFINE n == PushCount(rb, Len(items))
           cells == Cells(rb, items, s)
<1>2. rb_push(rb, items) = [rb EXCEPT !.buf = cells, !.wridx = Advanced(rb.wridx, n, rb.size),
                                      !.avail = rb.avail - n]
  <2>1. rb.size = s /\ DOMAIN rb.buf = 0 .. s - 1
    BY DEF Ring
  <2> QED BY <2>1, Zenon DEF rb_push, Cells
<1> HIDE DEF n, cells
<1>3. rb_push(rb, items) = [buf |-> cells, size |-> s, avail |-> rb.avail - n,
                            wridx |-> Advanced(rb.wridx, n, s), rdidx |-> rb.rdidx]
  BY <1>1, <1>2
<1> QED BY <1>3, Zenon DEF n, cells

LEMMA PopKeepsRing ==
  ASSUME NEW s \in Nat \ {0}, NEW rb, Ring(rb, s), NEW c \in Nat
  PROVE  /\ Ring(rb_pop(rb, c), s)
         /\ PopCount(rb, c) \in 0 .. Used(rb)
         /\ Used(rb_pop(rb, c)) = Used(rb) - PopCount(rb, c)
<1> DEFINE n == PopCount(rb, c)
           new == rb_pop(rb, c)
<1>1. /\ rb.size = s /\ rb.avail \in 0 .. s /\ rb.rdidx \in 0 .. s /\ rb.wridx \in 0 .. s
      /\ rb.buf \in [0 .. s - 1 -> Int] /\ Used(rb) = s - rb.avail
      /\ (rb.rdidx + Used(rb)) % s = rb.wridx % s
  BY DEF Ring, Sound, Used
<1>2. n \in 0 .. Used(rb)
  <2>1. Used(rb) \in Nat
    BY <1>1
  <2> QED BY <2>1 DEF PopCount, Least
<1>3. /\ Advanced(rb.rdidx, n, s) \in 0 .. s
      /\ Advanced(rb.rdidx, n, s) % s = (rb.rdidx + n) % s
  <2>1. n \in Nat
    BY <1>1, <1>2
  <2> QED BY <1>1, <2>1, AdvanceIndex, Zenon
<1>4. new = [buf |-> rb.buf, size |-> s, avail |-> rb.avail + n, wridx |-> rb.wridx,
             rdidx |-> Advanced(rb.rdidx, n, s)]
  BY PopFields, Zenon
<1>5. /\ new.buf = rb.buf /\ new.size = s /\ new.avail = rb.avail + n
      /\ new.wridx = rb.wridx /\ new.rdidx = Advanced(rb.rdidx, n, s)
      /\ Used(new) = Used(rb) - n
  BY <1>1, <1>2, <1>4 DEF Used
<1> HIDE DEF new, n
<1>6. (new.rdidx + Used(new)) % s = new.wridx % s
  <2>1. (new.rdidx + Used(new)) % s = (rb.rdidx + n + Used(new)) % s
    <3>1. new.rdidx \in Int /\ rb.rdidx + n \in Int /\ Used(new) \in Int
      <4>1. new.rdidx \in 0 .. s
        BY <1>3, <1>5, Zenon
      <4>2. rb.rdidx \in 0 .. s /\ rb.avail \in 0 .. s /\ Used(rb) = s - rb.avail
            /\ n \in 0 .. Used(rb) /\ Used(new) = Used(rb) - n
        BY <1>1, <1>2, <1>5, Zenon
      <4> QED BY <4>1, <4>2
    <3>2. new.rdidx % s = (rb.rdidx + n) % s
      BY <1>3, <1>5
    <3> QED BY <3>1, <3>2, ModEqual, Zenon
  <2>2. rb.rdidx + n + Used(new) = rb.rdidx + Used(rb)
    <3>1. /\ rb.rdidx \in 0 .. s /\ rb.avail \in 0 .. s /\ Used(rb) = s - rb.avail
          /\ n \in 0 .. Used(rb) /\ Used(new) = Used(rb) - n
      BY <1>1, <1>2, <1>5, Zenon
    <3> QED BY <3>1
  <2> QED BY <1>1, <1>5, <2>1, <2>2
<1>7. Ring(new, s)
  BY <1>1, <1>2, <1>3, <1>4, <1>5, <1>6 DEF Ring, Sound
<1> QED BY <1>2, <1>5, <1>7 DEF new, n

LEMMA PushKeepsRing ==
  ASSUME NEW s \in Nat \ {0}, NEW rb, Ring(rb, s), NEW items \in Seq(Int)
  PROVE  /\ Ring(rb_push(rb, items), s)
         /\ PushCount(rb, Len(items)) \in 0 .. rb.avail
         /\ PushCount(rb, Len(items)) <= Len(items)
         /\ Used(rb_push(rb, items)) = Used(rb) + PushCount(rb, Len(items))
<1> DEFINE n == PushCount(rb, Len(items))
           new == rb_push(rb, items)
           place(i) == (i - rb.wridx) % s
           cells == Cells(rb, items, s)
<1>1. /\ rb.size = s /\ rb.avail \in 0 .. s /\ rb.rdidx \in 0 .. s /\ rb.wridx \in 0 .. s
      /\ rb.buf \in [0 .. s - 1 -> Int] /\ Used(rb) = s - rb.avail
      /\ (rb.rdidx + Used(rb)) % s = rb.wridx % s
      /\ Len(items) \in Nat
  BY DEF Ring, Sound, Used
<1>2. n \in 0 .. rb.avail /\ n <= Len(items)
  BY <1>1 DEF PushCount, Least
<1>3. /\ Advanced(rb.wridx, n, s) \in 0 .. s
      /\ Advanced(rb.wridx, n, s) % s = (rb.wridx + n) % s
  <2>1. n \in Nat
    BY <1>1, <1>2
  <2> QED BY <1>1, <2>1, AdvanceIndex, Zenon
<1>4. new = [buf |-> cells, size |-> s, avail |-> rb.avail - n,
             wridx |-> Advanced(rb.wridx, n, s), rdidx |-> rb.rdidx]
  BY PushFields, Zenon
<1>5. cells \in [0 .. s - 1 -> Int]
  <2> SUFFICES ASSUME NEW i \in 0 .. s - 1
               PROVE  (IF place(i) < n THEN items[place(i) + 1] ELSE rb.buf[i]) \in Int
    BY Zenon DEF Cells
  <2>1. place(i) \in 0 .. s - 1
    <3>1. i - rb.wridx \in Int
      BY <1>1
    <3> QED BY <3>1, DivMod, Zenon
  <2>2. place(i) < n => place(i) + 1 \in 1 .. Len(items)
    BY <1>2, <2>1
  <2> QED BY <1>1, <2>2
<1> HIDE DEF cells, place
<1>6. /\ new.buf = cells /\ new.size = s /\ new.avail = rb.avail - n
      /\ new.wridx = Advanced(rb.wridx, n, s) /\ new.rdidx = rb.rdidx
      /\ Used(new) = Used(rb) + n
  BY <1>1, <1>2, <1>4 DEF Used
<1> HIDE DEF new, n
<1>7. (new.rdidx + Used(new)) % s = new.wridx % s
  <2>1. (rb.rdidx + Used(rb) + n) % s = (rb.wridx + n) % s
    <3>1. rb.rdidx + Used(rb) \in Int /\ rb.wridx \in Int /\ n \in Int
      BY <1>1, <1>2
    <3> QED BY <1>1, <3>1, ModEqual, Zenon
  <2>2. new.rdidx + Used(new) = rb.rdidx + Used(rb) + n
    <3>1. /\ rb.rdidx \in 0 .. s /\ rb.avail \in 0 .. s /\ Used(rb) = s - rb.avail
          /\ n \in 0 .. rb.avail /\ Used(new) = Used(rb) + n /\ new.rdidx = rb.rdidx
      BY <1>1, <1>2, <1>6, Zenon
    <3> QED BY <3>1
  <2> QED BY <1>3, <1>6, <2>1, <2>2
<1>8. Ring(new, s)
  BY <1>1, <1>2, <1>3, <1>4, <1>5, <1>6, <1>7 DEF Ring, Sound
<1> QED BY <1>2, <1>6, <1>8 DEF new, n

LEMMA EmptyRing ==
  ASSUME NEW s \in Nat \ {0}, NEW rb, Ring(rb, s)
  PROVE  rb_isempty(rb) <=> Used(rb) = 0
  BY DEF Ring, Sound, rb_isempty, Used

\* The place of the k-th byte of a ring.
LEMMA PlaceInRing ==
  ASSUME NEW s \in Nat \ {0}, NEW rb, Ring(rb, s), NEW k \in Nat
  PROVE  /\ (rb.rdidx + k - 1) % s \in 0 .. s - 1
         /\ rb.buf[(rb.rdidx + k - 1) % s] \in Int
<1>1. rb.rdidx \in 0 .. s /\ rb.buf \in [0 .. s - 1 -> Int]
  BY DEF Ring, Sound
<1>2. (rb.rdidx + k - 1) % s \in 0 .. s - 1
  <2>1. rb.rdidx + k - 1 \in Int
    BY <1>1
  <2> QED BY <2>1, DivMod, Zenon
<1> QED BY <1>1, <1>2

LEMMA PoppedIsSeq ==
  ASSUME NEW s \in Nat \ {0}, NEW rb, Ring(rb, s), NEW c \in Nat
  PROVE  /\ Popped(rb, c) \in Seq(Int)
         /\ Len(Popped(rb, c)) = PopCount(rb, c)
         /\ \A k \in 1 .. PopCount(rb, c) :
              Popped(rb, c)[k] = rb.buf[(rb.rdidx + k - 1) % s]
<1> DEFINE n == PopCount(rb, c)
           at_(k) == rb.buf[(rb.rdidx + k - 1) % s]
<1>1. n \in Nat
  <2>1. rb.size = s /\ rb.avail \in 0 .. s
    BY DEF Ring, Sound
  <2> QED BY <2>1 DEF PopCount, Least, Used
<1>2. \A k \in 1 .. n : at_(k) \in Int
  <2> TAKE k \in 1 .. n
  <2>1. k \in Nat
    BY <1>1
  <2> QED BY <2>1, PlaceInRing, Zenon
<1>3. Popped(rb, c) = [k \in 1 .. n |-> at_(k)]
  <2>1. rb.size = s
    BY DEF Ring
  <2> QED BY <2>1 DEF Popped
<1> HIDE DEF n, at_
<1>4. Popped(rb, c) \in Seq(Int) /\ Len(Popped(rb, c)) = n
  BY <1>1, <1>2, <1>3
<1>5. \A k \in 1 .. n : Popped(rb, c)[k] = at_(k)
  BY <1>3
<1> QED BY <1>4, <1>5 DEF n, at_

LEMMA ContentsIsSeq ==
  ASSUME NEW s \in Nat \ {0}, NEW rb, Ring(rb, s)
  PROVE  /\ Contents(rb) \in Seq(Int)
         /\ Used(rb) \in 0 .. s
         /\ Len(Contents(rb)) = Used(rb)
         /\ \A k \in 1 .. Used(rb) : Contents(rb)[k] = rb.buf[(rb.rdidx + k - 1) % s]
<1>1. rb.size = s /\ Used(rb) \in 0 .. s
  BY DEF Ring, Sound, Used
<1>2. PopCount(rb, s) = Used(rb)
  BY <1>1 DEF PopCount, Least
<1>3. Contents(rb) = Popped(rb, s)
  BY <1>1 DEF Contents
<1>4. s \in Nat
  OBVIOUS
<1>5. /\ Popped(rb, s) \in Seq(Int) /\ Len(Popped(rb, s)) = PopCount(rb, s)
      /\ \A k \in 1 .. PopCount(rb, s) : Popped(rb, s)[k] = rb.buf[(rb.rdidx + k - 1) % s]
  BY <1>4, PoppedIsSeq, Zenon
<1> QED BY <1>1, <1>2, <1>3, <1>5, Zenon

\* rb_pop takes what it returns off the front of the ring.
LEMMA ContentsPop ==
  ASSUME NEW s \in Nat \ {0}, NEW rb, Ring(rb, s), NEW c \in Nat
  PROVE  Contents(rb) = Popped(rb, c) \o Contents(rb_pop(rb, c))
<1> DEFINE n == PopCount(rb, c)
           new == rb_pop(rb, c)
           out == Popped(rb, c)
           rest == Contents(new)
           all == Contents(rb)
<1>1. Ring(new, s) /\ n \in 0 .. Used(rb) /\ Used(new) = Used(rb) - n
  BY PopKeepsRing, Zenon
<1>2. /\ out \in Seq(Int) /\ Len(out) = n
      /\ \A k \in 1 .. n : out[k] = rb.buf[(rb.rdidx + k - 1) % s]
  BY PoppedIsSeq, Zenon
<1>3. /\ all \in Seq(Int) /\ Len(all) = Used(rb) /\ Used(rb) \in 0 .. s
      /\ \A k \in 1 .. Used(rb) : all[k] = rb.buf[(rb.rdidx + k - 1) % s]
  BY ContentsIsSeq, Zenon
<1>4. /\ rest \in Seq(Int) /\ Len(rest) = Used(new)
      /\ \A k \in 1 .. Used(new) : rest[k] = new.buf[(new.rdidx + k - 1) % s]
  BY <1>1, ContentsIsSeq, Zenon
<1>5. new.buf = rb.buf /\ new.rdidx = Advanced(rb.rdidx, n, s)
  <2>1. new = [buf |-> rb.buf, size |-> s, avail |-> rb.avail + n, wridx |-> rb.wridx,
               rdidx |-> Advanced(rb.rdidx, n, s)]
    BY PopFields, Zenon
  <2> QED BY <2>1
<1>6. new.rdidx \in 0 .. s /\ rb.rdidx \in 0 .. s
  BY <1>1 DEF Ring, Sound
<1>7. new.rdidx % s = (rb.rdidx + n) % s
  <2>1. n \in Nat
    BY <1>1, <1>3
  <2> QED BY <1>5, <1>6, <2>1, AdvanceIndex, Zenon
<1>8. \A k \in 1 .. Used(new) : (new.rdidx + k - 1) % s = (rb.rdidx + (k + n) - 1) % s
  <2> HIDE DEF n, new
  <2> TAKE k \in 1 .. Used(new)
  <2>1. new.rdidx \in Int /\ rb.rdidx + n \in Int /\ k - 1 \in Int
    BY <1>1, <1>3, <1>6
  <2>2. (new.rdidx + (k - 1)) % s = ((rb.rdidx + n) + (k - 1)) % s
    BY <1>7, <2>1, ModEqual, Zenon
  <2>3. /\ new.rdidx + (k - 1) = new.rdidx + k - 1
        /\ (rb.rdidx + n) + (k - 1) = rb.rdidx + (k + n) - 1
    BY <1>1, <1>3, <1>6
  <2> QED BY <2>2, <2>3
<1> HIDE DEF n, new, out, rest, all
<1>9. /\ out \o rest \in Seq(Int) /\ Len(out \o rest) = Used(rb)
      /\ \A k \in 1 .. Used(rb) : (out \o rest)[k] = IF k <= n THEN out[k] ELSE rest[k - n]
  <2>1. /\ out \o rest \in Seq(Int) /\ Len(out \o rest) = Len(out) + Len(rest)
        /\ \A k \in 1 .. Len(out) + Len(rest) :
             (out \o rest)[k] = IF k <= Len(out) THEN out[k] ELSE rest[k - Len(out)]
    BY <1>2, <1>4, ConcatProperties, Zenon
  <2>2. Len(out) + Len(rest) = Used(rb)
    BY <1>1, <1>2, <1>3, <1>4
  <2> QED BY <1>2, <2>1, <2>2
<1>10. \A k \in 1 .. Used(rb) : all[k] = (out \o rest)[k]
  <2> TAKE k \in 1 .. Used(rb)
  <2>1. CASE k <= n
    <3>1. k \in 1 .. n
      BY <1>1, <1>3, <2>1
    <3> QED BY <1>2, <1>3, <1>9, <2>1, <3>1, Zenon
  <2>2. CASE k > n
    <3>1. k - n \in 1 .. Used(new) /\ (k - n) + n = k /\ ~(k <= n)
      BY <1>1, <1>3, <2>2
    <3>2. rest[k - n] = rb.buf[(rb.rdidx + k - 1) % s]
      BY <1>4, <1>5, <1>8, <3>1, Zenon
    <3> QED BY <1>3, <1>9, <3>1, <3>2, Zenon
  <2>3. k <= n \/ k > n
    BY <1>1, <1>3
  <2> QED BY <2>1, <2>2, <2>3
<1>11. all = out \o rest
  BY <1>3, <1>9, <1>10, SeqEqual, Zenon
<1> QED BY <1>11 DEF all, out, rest, new

\* How far behind the write index the k-th byte of a ring is.
LEMMA PlaceFromWrite ==
  ASSUME NEW s \in Nat \ {0}, NEW rb, Ring(rb, s), NEW k \in 1 .. s
  PROVE  (((rb.rdidx + k - 1) % s) - rb.wridx) % s
           = IF k <= Used(rb) THEN k - 1 + rb.avail ELSE k - 1 - Used(rb)
<1> DEFINE u == Used(rb)
<1>1. /\ rb.rdidx \in 0 .. s /\ rb.wridx \in 0 .. s /\ rb.avail \in 0 .. s
      /\ u = s - rb.avail /\ (rb.rdidx + u) % s = rb.wridx % s
  BY DEF Ring, Sound, Used
<1> HIDE DEF u
<1>2. (((rb.rdidx + k - 1) % s) + (-rb.wridx)) % s = (rb.rdidx + k - 1 + (-rb.wridx)) % s
  <2>1. rb.rdidx + k - 1 \in Int /\ -rb.wridx \in Int
    BY <1>1
  <2> QED BY <2>1, ModAdd, Zenon
<1>3. ((rb.rdidx + k - 1) - rb.wridx) % s = ((rb.rdidx + k - 1) - (rb.rdidx + u)) % s
  <2>1. rb.rdidx + k - 1 \in Int /\ rb.rdidx + u \in Int /\ rb.wridx \in Int
    BY <1>1
  <2> QED BY <1>1, <2>1, ModEqual, Zenon
<1>4. /\ rb.rdidx + k - 1 + (-rb.wridx) = (rb.rdidx + k - 1) - rb.wridx
      /\ (rb.rdidx + k - 1) - (rb.rdidx + u) = k - 1 - u
  BY <1>1
<1>5. ((rb.rdidx + k - 1) % s) + (-rb.wridx) = ((rb.rdidx + k - 1) % s) - rb.wridx
  <2>1. (rb.rdidx + k - 1) % s \in Int
    <3>1. k \in Nat
      OBVIOUS
    <3>2. (rb.rdidx + k - 1) % s \in 0 .. s - 1
      BY <3>1, PlaceInRing, Zenon
    <3> QED BY <3>2
  <2> QED BY <1>1, <2>1
<1>6. (((rb.rdidx + k - 1) % s) - rb.wridx) % s = (k - 1 - u) % s
  BY <1>2, <1>3, <1>4, <1>5, Zenon
<1>7. /\ k - 1 - u \in Int
      /\ k <= u => k - 1 - u \in -s .. -1 /\ k - 1 - u + s = k - 1 + rb.avail
      /\ ~(k <= u) => k - 1 - u \in 0 .. s - 1
  BY <1>1
<1>8. (k - 1 - u) % s = IF k <= u THEN k - 1 + rb.avail ELSE k - 1 - u
  BY <1>7, ModSmall, Zenon
<1> QED BY <1>6, <1>8 DEF u

\* rb_push puts the items it takes behind what is in the ring.
LEMMA ContentsPush ==
  ASSUME NEW s \in Nat \ {0}, NEW rb, Ring(rb, s), NEW items \in Seq(Int)
  PROVE  Contents(rb_push(rb, items))
           = Contents(rb) \o SubSeq(items, 1, PushCount(rb, Len(items)))
<1> DEFINE n == PushCount(rb, Len(items))
           new == rb_push(rb, items)
           head == SubSeq(items, 1, n)
           old == Contents(rb)
           all == Contents(new)
           place(k) == (rb.rdidx + k - 1) % s
<1>1. /\ Ring(new, s) /\ n \in 0 .. rb.avail /\ n <= Len(items) /\ Used(new) = Used(rb) + n
      /\ rb.avail \in 0 .. s /\ Used(rb) = s - rb.avail /\ Len(items) \in Nat
  <2>1. rb.avail \in 0 .. s /\ Used(rb) = s - rb.avail /\ Len(items) \in Nat
    BY DEF Ring, Sound, Used
  <2> QED BY <2>1, PushKeepsRing, Zenon
<1>2. /\ all \in Seq(Int) /\ Len(all) = Used(new) /\ Used(new) \in 0 .. s
      /\ \A k \in 1 .. Used(new) : all[k] = new.buf[(new.rdidx + k - 1) % s]
  BY <1>1, ContentsIsSeq, Zenon
<1>3. /\ old \in Seq(Int) /\ Len(old) = Used(rb)
      /\ \A k \in 1 .. Used(rb) : old[k] = rb.buf[place(k)]
  BY ContentsIsSeq, Zenon
<1>4. new.buf = Cells(rb, items, s) /\ new.rdidx = rb.rdidx
  <2>1. new = [buf |-> Cells(rb, items, s), size |-> s, avail |-> rb.avail - n,
               wridx |-> Advanced(rb.wridx, n, s), rdidx |-> rb.rdidx]
    BY PushFields, Zenon
  <2> QED BY <2>1
<1>5. ASSUME NEW k \in 1 .. Used(new)
      PROVE  all[k] = IF k <= Used(rb) THEN old[k] ELSE items[k - Used(rb)]
  <2> DEFINE p == (place(k) - rb.wridx) % s
  <2>1. k \in 1 .. s /\ k \in Nat
    BY <1>2
  <2>2. p = IF k <= Used(rb) THEN k - 1 + rb.avail ELSE k - 1 - Used(rb)
    BY <2>1, PlaceFromWrite, Zenon
  <2>3. place(k) \in 0 .. s - 1
    BY <2>1, PlaceInRing, Zenon
  <2>4. all[k] = IF p < n THEN items[p + 1] ELSE rb.buf[place(k)]
    <3>1. all[k] = Cells(rb, items, s)[place(k)]
      BY <1>2, <1>4, Zenon
    <3> QED BY <2>3, <3>1 DEF Cells
  <2> HIDE DEF p, place, n, new, all, old
  <2>5. CASE k <= Used(rb)
    <3>1. ~(p < n) /\ k \in 1 .. Used(rb)
      BY <1>1, <2>1, <2>2, <2>5
    <3> QED BY <1>3, <2>4, <2>5, <3>1, Zenon
  <2>6. CASE ~(k <= Used(rb))
    <3>1. p < n /\ p + 1 = k - Used(rb)
      BY <1>1, <2>1, <2>2, <2>6
    <3> QED BY <2>4, <2>6, <3>1, Zenon
  <2> QED BY <2>5, <2>6
<1> HIDE DEF n, new, old, all, place
<1>6. /\ head \in Seq(Int) /\ Len(head) = n
      /\ \A i \in 1 .. n : head[i] = items[i]
  <2>1. n \in Int /\ \A i \in 1 .. n : items[i] \in Int
    BY <1>1
  <2>2. /\ head \in Seq(Int) /\ Len(head) = (IF 1 <= n THEN n - 1 + 1 ELSE 0)
        /\ \A i \in 1 .. n - 1 + 1 : head[i] = items[1 + i - 1]
    BY <2>1, SubSeqProperties DEF head
  <2>3. n - 1 + 1 = n /\ Len(head) = n
    BY <1>1, <2>2
  <2>4. \A i \in 1 .. n : 1 + i - 1 = i
    BY <1>1
  <2> QED BY <2>2, <2>3, <2>4, Zenon
<1> HIDE DEF head
<1>7. /\ old \o head \in Seq(Int) /\ Len(old \o head) = Used(new)
      /\ \A k \in 1 .. Used(new) :
           (old \o head)[k] = IF k <= Used(rb) THEN old[k] ELSE head[k - Used(rb)]
  <2>1. /\ old \o head \in Seq(Int) /\ Len(old \o head) = Len(old) + Len(head)
        /\ \A k \in 1 .. Len(old) + Len(head) :
             (old \o head)[k] = IF k <= Len(old) THEN old[k] ELSE head[k - Len(old)]
    BY <1>3, <1>6, ConcatProperties, Zenon
  <2> QED BY <1>1, <1>3, <1>6, <2>1
<1>8. \A k \in 1 .. Used(new) : all[k] = (old \o head)[k]
  <2> TAKE k \in 1 .. Used(new)
  <2>1. ~(k <= Used(rb)) => k - Used(rb) \in 1 .. n
    BY <1>1, <1>2
  <2> QED BY <1>5, <1>6, <1>7, <2>1, Zenon
<1>9. all = old \o head
  BY <1>2, <1>7, <1>8, SeqEqual, Zenon
<1> QED BY <1>9 DEF all, old, head, new, n

LEMMA InitialRing ==
  ASSUME NEW s \in Nat \ {0}
  PROVE  /\ Ring(rb_init(s, 0), s)
         /\ Contents(rb_init(s, 0)) = <<>>
         /\ rb_isempty(rb_init(s, 0))
<1> DEFINE rb == rb_init(s, 0)
<1>1. /\ rb.buf = [i \in 0 .. s - 1 |-> 0] /\ rb.size = s /\ rb.avail = s
      /\ rb.wridx = 0 /\ rb.rdidx = 0 /\ Used(rb) = 0
      /\ rb = [buf |-> rb.buf, size |-> rb.size, avail |-> rb.avail,
               wridx |-> rb.wridx, rdidx |-> rb.rdidx]
  BY DEF rb_init, Used
<1> HIDE DEF rb
<1>2. Sound(rb)
  <2>1. rb.rdidx + Used(rb) = rb.wridx
    BY <1>1
  <2> QED BY <1>1, <2>1 DEF Sound
<1>3. Ring(rb, s)
  BY <1>1, <1>2 DEF Ring
<1>4. Contents(rb) \in Seq(Int) /\ Len(Contents(rb)) = 0
  BY <1>1, <1>3, ContentsIsSeq, Zenon
<1>5. Contents(rb) = <<>>
  BY <1>4
<1> QED BY <1>1, <1>3, <1>5 DEF rb, rb_isempty

\* What ez_sio_write gives the UART and what of the rest the ring takes are the
\* first bytes of what it was given.
IsSplit(buf, cnt, d, n) ==
  /\ SubSeq(buf, 1, d) \in Seq(Int) /\ Len(SubSeq(buf, 1, d)) = d
  /\ SubSeq(buf, d + 1, cnt) \in Seq(Int) /\ Len(SubSeq(buf, d + 1, cnt)) = cnt - d
  /\ SubSeq(buf, 1, d + n) \in Seq(Int)
  /\ SubSeq(buf, 1, d) \o SubSeq(SubSeq(buf, d + 1, cnt), 1, n) = SubSeq(buf, 1, d + n)

LEMMA WriteSplit ==
  ASSUME NEW cnt \in Nat \ {0}, NEW w \in Nat, NEW d \in 0 .. cnt, NEW n \in 0 .. cnt - d,
         NEW buf, buf = [i \in 1 .. cnt |-> w + i]
  PROVE  IsSplit(buf, cnt, d, n)
<1>1. buf \in Seq(Int) /\ Len(buf) = cnt
  BY SMT
<1>2. SubSeq(buf, 1, d) \in Seq(Int) /\ Len(SubSeq(buf, 1, d)) = d
  BY <1>1
<1>3. SubSeq(buf, d + 1, cnt) \in Seq(Int) /\ Len(SubSeq(buf, d + 1, cnt)) = cnt - d
  BY <1>1
<1>4. SubSeq(buf, 1, d + n) \in Seq(Int)
  BY <1>1
<1>5. SubSeq(SubSeq(buf, d + 1, cnt), 1, n) = SubSeq(buf, d + 1, d + n)
  <2>1. CASE n = 0
    <3>1. /\ 1 \in Int /\ n \in Int /\ n < 1
          /\ d + 1 \in Int /\ d + n \in Int /\ d + n < d + 1
      BY <2>1
    <3> QED BY <3>1, SubSeqEmpty, Zenon
  <2>2. CASE n # 0
    <3>1. /\ d + 1 \in 1 .. Len(buf) /\ cnt \in 1 .. Len(buf)
          /\ 1 \in 1 .. cnt - (d + 1) + 1 /\ n \in 1 .. cnt - (d + 1) + 1
      BY <1>1, <2>2
    <3>2. SubSeq(SubSeq(buf, d + 1, cnt), 1, n) = SubSeq(buf, d + 1 + 1 - 1, d + 1 + n - 1)
      BY <1>1, <3>1, SubSeqOfSubSeq, SMT
    <3>3. d + 1 + 1 - 1 = d + 1 /\ d + 1 + n - 1 = d + n
      OBVIOUS
    <3> QED BY <3>2, <3>3, Zenon
  <2> QED BY <2>1, <2>2
<1>6. SubSeq(buf, 1, d) \o SubSeq(buf, d + 1, d + n) = SubSeq(buf, 1, d + n)
  <2>1. 1 \in 1 .. Len(buf) + 1 /\ d \in 1 - 1 .. Len(buf) /\ d + n \in d .. Len(buf)
    BY <1>1
  <2> QED BY <1>1, <2>1, ConcatAdjacentSubSeq, Zenon
<1> QED BY <1>2, <1>3, <1>4, <1>5, <1>6 DEF IsSplit

LEMMA Regroup ==
  ASSUME NEW a \in Seq(Int), NEW b \in Seq(Int), NEW c \in Seq(Int)
  PROVE  /\ a \o b \in Seq(Int)
         /\ (a \o b) \o c = a \o (b \o c)
<1>1. a \o b \in Seq(Int)
  BY ConcatProperties, Zenon
<1>2. (a \o b) \o c = a \o (b \o c)
  BY ConcatAssociative
<1> QED BY <1>1, <1>2

\* Bytes may go to the UART directly, or into the ring, if none waits in the ring
\* or none goes directly.
StaysInOrder(l, h, c, a, r) ==
  (l \o (h \o a)) \o (c \o r) = ((l \o h) \o c) \o (a \o r)

LEMMA NoOvertaking ==
  ASSUME NEW l \in Seq(Int), NEW h \in Seq(Int), NEW c \in Seq(Int),
         NEW a \in Seq(Int), NEW r \in Seq(Int), a = <<>> \/ c = <<>>
  PROVE  StaysInOrder(l, h, c, a, r)
<1> USE DEF StaysInOrder
<1> DEFINE x == l \o h
<1>1. x \in Seq(Int) /\ l \o (h \o a) = x \o a
  <2>1. l \o h \in Seq(Int) /\ (l \o h) \o a = l \o (h \o a)
    BY Regroup
  <2> QED BY <2>1, Zenon
<1> HIDE DEF x
<1>2. CASE a = <<>>
  <2>1. x \o a = x /\ a \o r = r
    BY <1>1, <1>2, ConcatEmptySeq, Zenon
  <2>2. x \o (c \o r) = (x \o c) \o r
    BY <1>1, Regroup, Zenon
  <2> QED BY <1>1, <2>1, <2>2, Zenon DEF x
<1>3. CASE c = <<>>
  <2>1. x \o c = x /\ c \o r = r
    BY <1>1, <1>3, ConcatEmptySeq, Zenon
  <2>2. (x \o a) \o r = x \o (a \o r)
    BY <1>1, Regroup, Zenon
  <2> QED BY <1>1, <2>1, <2>2, Zenon DEF x
<1> QED BY <1>2, <1>3

-------------------------------------------------------------------------------
(* The inductive invariant. *)

SerialData ==
  /\ at \in {"main", "isr", "tx"} /\ txInt \in BOOLEAN
  /\ Ring(snd_rb, TxSize) /\ Ring(rcv_rb, RxSize)
  /\ hwTx \in Seq(Int) /\ Len(hwTx) <= Depth
  /\ hwRx \in Seq(Int) /\ Len(hwRx) <= Depth
  /\ arrived \in Nat /\ written \in Nat
  /\ accepted \in Seq(Int) /\ line \in Seq(Int)

SerialIInv == SerialData /\ NoStrandedByte /\ SentInOrder

\* The receiving half, which the sending half does not touch.
ReceiveIInv ==
  /\ got \in Seq(Int) /\ overrun \subseteq 1 .. arrived
  /\ ReceivedInOrder

LEMMA InitSerial == Init => SerialIInv
<1> SUFFICES ASSUME Init PROVE SerialIInv
  OBVIOUS
<1>1. /\ Ring(snd_rb, TxSize) /\ Contents(snd_rb) = <<>> /\ rb_isempty(snd_rb)
      /\ Ring(rcv_rb, RxSize)
  <2>1. TxSize \in Nat \ {0} /\ RxSize \in Nat \ {0}
    BY EzSioAssumption
  <2> QED BY <2>1, InitialRing, Zenon DEF Init
<1>2. SerialData
  <2>1. <<>> \in Seq(Int) /\ Len(<<>>) = 0 /\ 0 \in Nat /\ 0 <= Depth
    BY EzSioAssumption
  <2> QED BY <1>1, <2>1, Zenon DEF Init, SerialData
<1>3. SentInOrder
  BY <1>1 DEF Init, SentInOrder
<1> QED BY <1>1, <1>2, <1>3 DEF SerialIInv, NoStrandedByte

LEMMA TxAvailIsNat == TxAvail \subseteq Nat
  BY EzSioAssumption DEF TxAvail

\* The program's write: the step that both enables the interrupt and may pass the
\* ring by.
LEMMA WriteStep ==
  ASSUME SerialIInv, NEW cnt \in WriteSizes, ez_sio_write(cnt)
  PROVE  SerialIInv'
<1> DEFINE buf == [i \in 1 .. cnt |-> written + i]
           dir(w) == IF w > cnt THEN cnt ELSE w
           rest(w) == SubSeq(buf, dir(w) + 1, cnt)
           taken(w) == PushCount(snd_rb, cnt - dir(w))
<1>1. PICK w \in DirectAvail :
        /\ Len(hwTx) + dir(w) <= Depth
        /\ hwTx' = hwTx \o SubSeq(buf, 1, dir(w))
        /\ snd_rb' = rb_push(snd_rb, rest(w))
        /\ txInt' = (txInt \/ EnablesTxInt(dir(w), cnt))
        /\ accepted' = accepted \o SubSeq(buf, 1, dir(w) + taken(w))
  BY Zenon DEF ez_sio_write
<1>2. /\ UNCHANGED <<at, rcv_rb, hwRx, arrived, line>> /\ written' = written + cnt
      /\ cnt \in Nat \ {0} /\ TxSize \in Nat \ {0}
  BY EzSioAssumption DEF ez_sio_write, rxVars
<1> DEFINE d == dir(w)
           n == taken(w)
           a == SubSeq(buf, 1, d)
           later == rest(w)
           r == SubSeq(later, 1, n)
           whole == SubSeq(buf, 1, d + n)
<1>3. d \in 0 .. cnt /\ (rb_isempty(snd_rb) \/ d = 0)
  <2>1. w \in Nat /\ (rb_isempty(snd_rb) \/ w = 0)
    BY TxAvailIsNat DEF DirectAvail
  <2> QED BY <1>2, <2>1
<1> HIDE DEF dir
<1>4. /\ Ring(snd_rb, TxSize) /\ snd_rb.avail \in 0 .. TxSize /\ snd_rb.size = TxSize
      /\ written \in Nat /\ hwTx \in Seq(Int) /\ line \in Seq(Int) /\ accepted \in Seq(Int)
  BY DEF SerialIInv, SerialData, Ring, Sound
<1>5. n \in 0 .. cnt - d
  BY <1>2, <1>3, <1>4 DEF PushCount, Least
<1>b. buf = [i \in 1 .. cnt |-> written + i]
  OBVIOUS
<1>c. /\ a = SubSeq(buf, 1, d) /\ later = SubSeq(buf, d + 1, cnt)
      /\ r = SubSeq(later, 1, n) /\ whole = SubSeq(buf, 1, d + n)
  OBVIOUS
<1> HIDE DEF taken, buf, rest, d, n, a, later, r, whole
<1>6. /\ a \in Seq(Int) /\ Len(a) = d
      /\ later \in Seq(Int) /\ Len(later) = cnt - d
      /\ whole \in Seq(Int) /\ a \o r = whole
  <2>1. IsSplit(buf, cnt, d, n)
    BY <1>2, <1>3, <1>4, <1>5, <1>b, WriteSplit, Zenon
  <2> QED BY <1>c, <2>1, Zenon DEF IsSplit
<1>7. /\ Ring(snd_rb', TxSize)
      /\ Contents(snd_rb') = Contents(snd_rb) \o r
      /\ Used(snd_rb') = Used(snd_rb) + n
      /\ Contents(snd_rb) \in Seq(Int) /\ Used(snd_rb) \in 0 .. TxSize
      /\ Len(Contents(snd_rb)) = Used(snd_rb)
  <2>1. snd_rb' = rb_push(snd_rb, later) /\ n = PushCount(snd_rb, Len(later))
    BY <1>1, <1>6, Zenon DEF taken, later, n, d
  <2>2. /\ Ring(rb_push(snd_rb, later), TxSize)
        /\ Used(rb_push(snd_rb, later)) = Used(snd_rb) + n
    BY <1>2, <1>4, <1>6, <2>1, PushKeepsRing, Zenon
  <2>3. Contents(rb_push(snd_rb, later)) = Contents(snd_rb) \o r
    BY <1>2, <1>4, <1>6, <1>c, <2>1, ContentsPush, Zenon
  <2> QED BY <1>2, <1>4, <2>1, <2>2, <2>3, ContentsIsSeq, Zenon
<1>8. SerialData'
  <2>1. hwTx' = hwTx \o a /\ accepted' = accepted \o whole /\ txInt' \in BOOLEAN
        /\ Len(hwTx) + d <= Depth
    BY <1>1 DEF a, d, whole, n, SerialIInv, SerialData
  <2>2. hwTx' \in Seq(Int) /\ Len(hwTx') <= Depth /\ accepted' \in Seq(Int)
    BY <1>3, <1>4, <1>6, <2>1, EzSioAssumption
  <2> QED BY <1>2, <1>7, <2>1, <2>2 DEF SerialIInv, SerialData
<1>9. NoStrandedByte'
  <2>1. CASE d < cnt
    <3>1. EnablesTxInt(d, cnt)
      BY <2>1 DEF EnablesTxInt
    <3>2. txInt'
      BY <1>1, <3>1 DEF d
    <3> QED BY <3>2 DEF NoStrandedByte
  <2>2. CASE d = cnt
    <3>1. Used(snd_rb') = Used(snd_rb)
      BY <1>2, <1>5, <1>7, <2>2
    <3>2. rb_isempty(snd_rb') <=> rb_isempty(snd_rb)
      BY <1>2, <1>4, <1>7, <3>1, EmptyRing, Zenon
    <3>3. txInt => txInt'
      BY <1>1
    <3> QED BY <3>2, <3>3 DEF NoStrandedByte, SerialIInv
  <2> QED BY <1>2, <1>3, <2>1, <2>2
<1>10. SentInOrder'
  <2>1. a = <<>> \/ Contents(snd_rb) = <<>>
    <3>1. rb_isempty(snd_rb) => Used(snd_rb) = 0
      BY <1>2, <1>4, EmptyRing, Zenon
    <3> QED BY <1>3, <1>6, <1>7, <3>1
  <2>2. r \in Seq(Int)
    BY <1>5, <1>6 DEF r
  <2>3. (line \o (hwTx \o a)) \o (Contents(snd_rb) \o r)
          = ((line \o hwTx) \o Contents(snd_rb)) \o (a \o r)
    <3>1. /\ line \in Seq(Int) /\ hwTx \in Seq(Int) /\ Contents(snd_rb) \in Seq(Int)
          /\ a \in Seq(Int)
      BY <1>4, <1>6, <1>7, Zenon
    <3>2. StaysInOrder(line, hwTx, Contents(snd_rb), a, r)
      BY <2>1, <2>2, <3>1, NoOvertaking, Zenon
    <3> QED BY <3>2, Zenon DEF StaysInOrder
  <2>4. /\ hwTx' = hwTx \o a /\ line' = line /\ Contents(snd_rb)' = Contents(snd_rb) \o r
        /\ accepted' = accepted \o whole
    BY <1>1, <1>2, <1>7 DEF a, d, whole, n, SerialIInv
  <2>5. accepted = (line \o hwTx) \o Contents(snd_rb)
    BY DEF SerialIInv, SentInOrder
  <2> QED BY <1>6, <2>3, <2>4, <2>5, Zenon DEF SentInOrder
<1> QED BY <1>8, <1>9, <1>10 DEF SerialIInv

\* A round of the callback: the step that disables the interrupt.
LEMMA CallbackStep ==
  ASSUME SerialIInv, sio_tx_callback
  PROVE  SerialIInv'
<1> DEFINE n(w) == PopCount(snd_rb, w)
<1>1. PICK w \in TxAvail :
        /\ Len(hwTx) + n(w) <= Depth
        /\ hwTx' = hwTx \o Popped(snd_rb, w)
        /\ snd_rb' = rb_pop(snd_rb, w)
        /\ txInt' = (txInt /\ ~DisablesTxInt(w, n(w)))
        /\ at' = IF w > 0 /\ n(w) = w THEN "tx" ELSE "isr"
  BY Zenon DEF sio_tx_callback
<1> DEFINE out == Popped(snd_rb, w)
           rest == Contents(snd_rb')
<1>2. /\ w \in Nat /\ TxSize \in Nat \ {0} /\ Ring(snd_rb, TxSize) /\ hwTx \in Seq(Int)
      /\ line \in Seq(Int) /\ Used(snd_rb) \in 0 .. TxSize
      /\ (line \o hwTx) \o Contents(snd_rb) = accepted /\ (~rb_isempty(snd_rb) => txInt)
  <2>1. w \in Nat /\ TxSize \in Nat \ {0} /\ Ring(snd_rb, TxSize)
    BY TxAvailIsNat, EzSioAssumption DEF SerialIInv, SerialData
  <2> QED BY <2>1, ContentsIsSeq, Zenon
          DEF SerialIInv, SerialData, SentInOrder, NoStrandedByte
<1>3. /\ Ring(snd_rb', TxSize) /\ n(w) \in 0 .. Used(snd_rb)
      /\ Used(snd_rb') = Used(snd_rb) - n(w)
      /\ out \in Seq(Int) /\ Len(out) = n(w)
      /\ Contents(snd_rb) = out \o rest
  BY <1>1, <1>2, PopKeepsRing, PoppedIsSeq, ContentsPop, Zenon
<1>4. rest \in Seq(Int)
  BY <1>2, <1>3, ContentsIsSeq, Zenon
<1>5. UNCHANGED <<rcv_rb, hwRx, arrived, written, accepted, line>>
  BY DEF sio_tx_callback, rxVars
<1>6. NoStrandedByte'
  <2>1. CASE n(w) = 0 /\ w > 0
    <3>1. Used(snd_rb') = 0
      <4>1. Used(snd_rb) = 0
        <5>1. snd_rb.size = TxSize /\ snd_rb.avail \in 0 .. TxSize
          BY <1>2 DEF Ring, Sound
        <5> QED BY <1>2, <2>1, <5>1 DEF PopCount, Least
      <4> QED BY <1>2, <1>3, <2>1, <4>1
    <3>2. rb_isempty(snd_rb')
      BY <1>2, <1>3, <3>1, EmptyRing, Zenon
    <3> QED BY <3>2 DEF NoStrandedByte
  <2>2. CASE ~(n(w) = 0 /\ w > 0)
    <3>1. txInt' = txInt
      BY <1>1, <2>2 DEF DisablesTxInt, SerialIInv, SerialData
    <3>2. rb_isempty(snd_rb) => rb_isempty(snd_rb')
      <4>1. Used(snd_rb) = 0 => Used(snd_rb') = 0
        BY <1>2, <1>3
      <4> QED BY <1>2, <1>3, <4>1, EmptyRing, Zenon
    <3> QED BY <1>2, <3>1, <3>2 DEF NoStrandedByte
  <2> QED BY <2>1, <2>2, Zenon
<1>7. SerialData'
  <2>1. at' \in {"main", "isr", "tx"} /\ txInt' \in BOOLEAN
    BY <1>1 DEF SerialIInv, SerialData
  <2> HIDE DEF n, out, rest
  <2>2. hwTx' \in Seq(Int) /\ Len(hwTx') <= Depth
    <3>1. hwTx' = hwTx \o out
      BY <1>1 DEF out
    <3> QED BY <1>1, <1>2, <1>3, <3>1, EzSioAssumption
  <2> QED BY <1>2, <1>3, <1>5, <2>1, <2>2 DEF SerialIInv, SerialData
<1>8. SentInOrder'
  <2> HIDE DEF out, rest
  <2>1. line \o (hwTx \o out) = (line \o hwTx) \o out /\ line \o hwTx \in Seq(Int)
    BY <1>2, <1>3, Regroup
  <2>2. ((line \o hwTx) \o out) \o rest = (line \o hwTx) \o (out \o rest)
    BY <1>3, <1>4, <2>1, Regroup, Zenon
  <2>3. hwTx' = hwTx \o out /\ Contents(snd_rb)' = rest
    BY <1>1 DEF out, rest
  <2> QED BY <1>2, <1>3, <1>5, <2>1, <2>2, <2>3, Zenon DEF SentInOrder
<1> QED BY <1>6, <1>7, <1>8 DEF SerialIInv

LEMMA NextSerial == SerialIInv /\ [Next]_vars => SerialIInv'
<1> SUFFICES ASSUME SerialIInv, [Next]_vars PROVE SerialIInv'
  OBVIOUS
<1>1. ASSUME Arrive PROVE SerialIInv'
  <2>1. hwRx' \in Seq(Int) /\ Len(hwRx') <= Depth /\ arrived' \in Nat
    <3>1. /\ hwRx \in Seq(Int) /\ Len(hwRx) <= Depth /\ arrived \in Nat /\ Depth \in Nat
          /\ arrived + 1 \in Int
      BY EzSioAssumption DEF SerialIInv, SerialData
    <3>2. CASE Len(hwRx) < Depth
      <4>1. hwRx' = Append(hwRx, arrived + 1) /\ arrived' = arrived + 1
        BY <1>1, <3>2 DEF Arrive
      <4> QED BY <3>1, <3>2, <4>1, AppendProperties
    <3>3. CASE ~(Len(hwRx) < Depth)
      BY <1>1, <3>1, <3>3 DEF Arrive
    <3> QED BY <3>2, <3>3
  <2> QED BY <1>1, <2>1
          DEF Arrive, txVars, SerialIInv, SerialData, NoStrandedByte, SentInOrder
<1>2. ASSUME Transmit PROVE SerialIInv'
  <2>1. hwTx \in Seq(Int) /\ hwTx # <<>> /\ line \in Seq(Int) /\ Len(hwTx) <= Depth
    BY <1>2 DEF Transmit, SerialIInv, SerialData
  <2>2. Head(hwTx) \in Int /\ Tail(hwTx) \in Seq(Int) /\ Len(Tail(hwTx)) <= Depth
    BY <2>1, EzSioAssumption
  <2>3. Append(line, Head(hwTx)) \in Seq(Int)
    BY <2>1, <2>2
  <2>4. Append(line, Head(hwTx)) \o Tail(hwTx) = line \o hwTx
    BY <2>1, <2>2
  <2> QED BY <1>2, <2>2, <2>3, <2>4
          DEF Transmit, rxVars, SerialIInv, SerialData, NoStrandedByte, SentInOrder
<1>3. ASSUME NEW cnt \in WriteSizes, ez_sio_write(cnt) PROVE SerialIInv'
  BY <1>3, WriteStep
<1>4. ASSUME NEW cnt \in ReadSizes, ez_sio_read(cnt) PROVE SerialIInv'
  <2>1. Ring(rb_pop(rcv_rb, cnt), RxSize)
    <3>1. RxSize \in Nat \ {0} /\ cnt \in Nat /\ Ring(rcv_rb, RxSize)
      BY EzSioAssumption DEF SerialIInv, SerialData
    <3> QED BY <3>1, PopKeepsRing, Zenon
  <2> QED BY <1>4, <2>1
          DEF ez_sio_read, txVars, SerialIInv, SerialData, NoStrandedByte, SentInOrder
<1>5. ASSUME Interrupt \/ EnterTxCallback \/ ReturnFromInterrupt PROVE SerialIInv'
  BY <1>5 DEF Interrupt, EnterTxCallback, ReturnFromInterrupt, rxVars, txVars,
              SerialIInv, SerialData, NoStrandedByte, SentInOrder
<1>6. ASSUME sio_rx_callback PROVE SerialIInv'
  <2>1. Ring(rb_push(rcv_rb, <<Head(hwRx)>>), RxSize)
        /\ Tail(hwRx) \in Seq(Int) /\ Len(Tail(hwRx)) <= Depth
    <3>1. RxSize \in Nat \ {0} /\ Ring(rcv_rb, RxSize) /\ hwRx \in Seq(Int) /\ hwRx # <<>>
          /\ Len(hwRx) <= Depth
      BY <1>6, EzSioAssumption DEF sio_rx_callback, RxCause, SerialIInv, SerialData
    <3>2. <<Head(hwRx)>> \in Seq(Int) /\ Tail(hwRx) \in Seq(Int) /\ Len(Tail(hwRx)) <= Depth
      BY <3>1, EzSioAssumption
    <3> QED BY <3>1, <3>2, PushKeepsRing, Zenon
  <2> QED BY <1>6, <2>1
          DEF sio_rx_callback, txVars, SerialIInv, SerialData, NoStrandedByte, SentInOrder
<1>7. ASSUME sio_tx_callback PROVE SerialIInv'
  BY <1>7, CallbackStep
<1>8. CASE UNCHANGED vars
  BY <1>8 DEF vars, rxVars, txVars, SerialIInv, SerialData, NoStrandedByte, SentInOrder
<1> QED BY <1>1, <1>2, <1>3, <1>4, <1>5, <1>6, <1>7, <1>8, Zenon DEF Next, Isr

-------------------------------------------------------------------------------
(* Receiving. *)

\* A sequence of the numbers up to n, in order, each once, but for those in lost.
Numbered(s, n, lost) ==
  /\ {s[i] : i \in 1 .. Len(s)} = (1 .. n) \ lost
  /\ \A i, j \in 1 .. Len(s) : i < j => s[i] < s[j]

LEMMA NumberedSkips ==
  ASSUME NEW s, NEW n \in Nat, NEW lost \in SUBSET (1 .. n), Numbered(s, n, lost)
  PROVE  Numbered(s, n + 1, lost \cup {n + 1})
<1>1. (1 .. n + 1) \ (lost \cup {n + 1}) = (1 .. n) \ lost
  OBVIOUS
<1> QED BY <1>1, Zenon DEF Numbered

LEMMA NumberedAppends ==
  ASSUME NEW s \in Seq(Int), NEW n \in Nat, NEW lost \in SUBSET (1 .. n),
         Numbered(s, n, lost)
  PROVE  Numbered(Append(s, n + 1), n + 1, lost)
<1> DEFINE t == Append(s, n + 1)
           l == Len(s)
<1>1. /\ l \in Nat /\ Len(t) = l + 1
      /\ \A i \in 1 .. l : t[i] = s[i] /\ s[i] \in Int
      /\ t[l + 1] = n + 1
  BY AppendProperties
<1>2. \A i \in 1 .. l : s[i] \in (1 .. n) \ lost
  BY Zenon DEF Numbered
<1>3. \A m \in (1 .. n) \ lost : \E i \in 1 .. l : s[i] = m
  BY Zenon DEF Numbered
<1> HIDE DEF t, l
<1>4. {t[i] : i \in 1 .. Len(t)} = (1 .. n + 1) \ lost
  <2>1. ASSUME NEW i \in 1 .. Len(t) PROVE t[i] \in (1 .. n + 1) \ lost
    <3>1. CASE i \in 1 .. l
      BY <1>1, <1>2, <3>1
    <3>2. CASE i = l + 1
      BY <1>1, <3>2
    <3> QED BY <1>1, <3>1, <3>2
  <2>2. ASSUME NEW m \in (1 .. n + 1) \ lost PROVE \E i \in 1 .. Len(t) : t[i] = m
    <3>1. CASE m = n + 1
      <4>1. l + 1 \in 1 .. Len(t)
        BY <1>1
      <4> QED BY <1>1, <3>1, <4>1
    <3>2. CASE m # n + 1
      <4>1. m \in (1 .. n) \ lost
        BY <3>2
      <4>2. PICK i \in 1 .. l : s[i] = m
        BY <1>3, <4>1, Zenon
      <4>3. i \in 1 .. Len(t)
        BY <1>1
      <4> QED BY <1>1, <4>2, <4>3
    <3> QED BY <3>1, <3>2
  <2> QED BY <2>1, <2>2
<1>5. ASSUME NEW i \in 1 .. Len(t), NEW j \in 1 .. Len(t), i < j PROVE t[i] < t[j]
  <2>1. i \in 1 .. l
    BY <1>1, <1>5
  <2>2. CASE j \in 1 .. l
    <3>1. s[i] < s[j]
      BY <1>5, <2>1, <2>2 DEF Numbered, l
    <3> QED BY <1>1, <2>1, <2>2, <3>1
  <2>3. CASE j = l + 1
    BY <1>1, <1>2, <2>1, <2>3
  <2> QED BY <1>1, <2>2, <2>3
<1> QED BY <1>4, <1>5, Zenon DEF Numbered, t

LEMMA ReceivedIsNumbered == ReceivedInOrder <=> Numbered(Received, arrived, overrun)
  BY DEF ReceivedInOrder, Numbered

LEMMA ReceivedIsSeq ==
  ASSUME SerialIInv, ReceiveIInv
  PROVE  Contents(rcv_rb) \in Seq(Int) /\ hwRx \in Seq(Int) /\ Received \in Seq(Int)
<1>1. got \in Seq(Int) /\ hwRx \in Seq(Int) /\ Ring(rcv_rb, RxSize) /\ RxSize \in Nat \ {0}
  BY EzSioAssumption DEF SerialIInv, SerialData, ReceiveIInv
<1>2. Contents(rcv_rb) \in Seq(Int)
  BY <1>1, ContentsIsSeq, Zenon
<1>3. got \o Contents(rcv_rb) \in Seq(Int)
  BY <1>1, <1>2, Regroup
<1> QED BY <1>1, <1>2, <1>3, Regroup DEF Received

\* A step by which bytes only move on leaves what was received as it was.
LEMMA OnlyMoved ==
  ASSUME ReceiveIInv, got' \in Seq(Int), Received' = Received, UNCHANGED <<arrived, overrun>>
  PROVE  ReceiveIInv'
<1>1. Numbered(Received, arrived, overrun)
  BY ReceivedIsNumbered DEF ReceiveIInv
<1>2. ReceivedInOrder'
  BY <1>1 DEF ReceivedInOrder, Numbered
<1> QED BY <1>2 DEF ReceiveIInv

LEMMA InitReceive == Init => ReceiveIInv
<1> SUFFICES ASSUME Init PROVE ReceiveIInv
  OBVIOUS
<1>1. Contents(rcv_rb) = <<>>
  <2>1. RxSize \in Nat \ {0}
    BY EzSioAssumption
  <2> QED BY <2>1, InitialRing, Zenon DEF Init
<1>2. Received = <<>> /\ arrived = 0 /\ overrun = {} /\ got = <<>>
  BY <1>1 DEF Init, Received
<1>3. Len(Received) = 0 /\ 1 .. Len(Received) = {} /\ 1 .. arrived = {}
  BY <1>2
<1> QED BY <1>2, <1>3 DEF ReceiveIInv, ReceivedInOrder

LEMMA NextReceive == SerialIInv /\ ReceiveIInv /\ [Next]_vars => ReceiveIInv'
<1> SUFFICES ASSUME SerialIInv, ReceiveIInv, [Next]_vars PROVE ReceiveIInv'
  OBVIOUS
<1> DEFINE C == Contents(rcv_rb)
<1>t. /\ got \in Seq(Int) /\ C \in Seq(Int) /\ hwRx \in Seq(Int) /\ Received \in Seq(Int)
      /\ got \o C \in Seq(Int) /\ Received = (got \o C) \o hwRx
      /\ Ring(rcv_rb, RxSize) /\ RxSize \in Nat \ {0} /\ arrived \in Nat
      /\ overrun \in SUBSET (1 .. arrived) /\ Numbered(Received, arrived, overrun)
  <2>1. got \in Seq(Int) /\ C \in Seq(Int) /\ hwRx \in Seq(Int) /\ Received \in Seq(Int)
    BY ReceivedIsSeq DEF ReceiveIInv
  <2>2. got \o C \in Seq(Int)
    BY <2>1, Regroup
  <2> QED BY <2>1, <2>2, ReceivedIsNumbered, EzSioAssumption
          DEF SerialIInv, SerialData, ReceiveIInv, Received
<1> HIDE DEF C
<1>1. ASSUME Arrive PROVE ReceiveIInv'
  <2>1. UNCHANGED <<got, rcv_rb>> /\ arrived' = arrived + 1 /\ Contents(rcv_rb)' = C
    BY <1>1 DEF Arrive, C
  <2>2. CASE Len(hwRx) < Depth
    <3>1. hwRx' = Append(hwRx, arrived + 1) /\ overrun' = overrun
      BY <1>1, <2>2 DEF Arrive
    <3>2. Received' = Append(Received, arrived + 1)
      <4>1. (got \o C) \o Append(hwRx, arrived + 1)
              = Append((got \o C) \o hwRx, arrived + 1)
        BY <1>t
      <4> QED BY <1>t, <2>1, <3>1, <4>1 DEF Received
    <3>3. Numbered(Received', arrived', overrun')
      BY <1>t, <2>1, <3>1, <3>2, NumberedAppends
    <3>4. overrun' \subseteq 1 .. arrived'
      BY <1>t, <2>1, <3>1
    <3> QED BY <1>t, <2>1, <3>3, <3>4 DEF ReceiveIInv, ReceivedInOrder, Numbered
  <2>3. CASE ~(Len(hwRx) < Depth)
    <3>1. hwRx' = hwRx /\ overrun' = overrun \cup {arrived + 1}
      BY <1>1, <2>3 DEF Arrive
    <3>2. Received' = Received
      BY <2>1, <3>1 DEF Received
    <3>3. Numbered(Received', arrived', overrun')
      BY <1>t, <2>1, <3>1, <3>2, NumberedSkips
    <3>4. overrun' \subseteq 1 .. arrived'
      BY <1>t, <2>1, <3>1
    <3> QED BY <1>t, <2>1, <3>3, <3>4 DEF ReceiveIInv, ReceivedInOrder, Numbered
  <2> QED BY <2>2, <2>3
<1>2. ASSUME NEW cnt \in ReadSizes, ez_sio_read(cnt) PROVE ReceiveIInv'
  <2> DEFINE out == Popped(rcv_rb, cnt)
             rest == Contents(rb_pop(rcv_rb, cnt))
  <2>1. /\ got' = got \o out /\ Contents(rcv_rb)' = rest
        /\ UNCHANGED <<hwRx, arrived, overrun>>
    BY <1>2 DEF ez_sio_read
  <2>2. cnt \in Nat
    BY EzSioAssumption
  <2>3. C = out \o rest
    BY <1>t, <2>2, ContentsPop, Zenon DEF C
  <2>4. out \in Seq(Int)
    BY <1>t, <2>2, PoppedIsSeq, Zenon
  <2>5. rest \in Seq(Int)
    <3>1. Ring(rb_pop(rcv_rb, cnt), RxSize)
      BY <1>t, <2>2, PopKeepsRing, Zenon
    <3> QED BY <1>t, <3>1, ContentsIsSeq, Zenon
  <2> HIDE DEF out, rest
  <2>6. (got \o out) \o rest = got \o C /\ got \o out \in Seq(Int)
    <3>1. got \in Seq(Int)
      BY <1>t
    <3>2. got \o out \in Seq(Int) /\ (got \o out) \o rest = got \o (out \o rest)
      BY <2>4, <2>5, <3>1, Regroup
    <3> QED BY <2>3, <3>2, Zenon
  <2>7. Received' = Received
    BY <1>t, <2>1, <2>6, Zenon DEF Received
  <2> QED BY <2>1, <2>6, <2>7, OnlyMoved, Zenon
<1>3. ASSUME sio_rx_callback PROVE ReceiveIInv'
  <2>1. UNCHANGED <<arrived, overrun, got>> /\ hwRx # <<>>
    BY <1>3 DEF sio_rx_callback, RxCause
  <2>2. CASE rb_isfull(rcv_rb)
    <3>1. Received' = Received
      BY <1>3, <2>1, <2>2 DEF sio_rx_callback, Received
    <3> QED BY <1>t, <2>1, <3>1, OnlyMoved, Zenon
  <2>3. CASE ~rb_isfull(rcv_rb)
    <3> DEFINE one == <<Head(hwRx)>>
    <3>1. rcv_rb' = rb_push(rcv_rb, one) /\ hwRx' = Tail(hwRx)
      BY <1>3, <2>3 DEF sio_rx_callback
    <3>2. one \in Seq(Int) /\ Len(one) = 1 /\ Tail(hwRx) \in Seq(Int) /\ one \o Tail(hwRx) = hwRx
      BY <1>t, <2>1
    <3>3. PushCount(rcv_rb, Len(one)) = 1
      <4>1. rcv_rb.avail \in 0 .. RxSize /\ rcv_rb.avail # 0
        BY <1>t, <2>3 DEF Ring, Sound, rb_isfull
      <4> QED BY <3>2, <4>1 DEF PushCount, Least
    <3>4. SubSeq(one, 1, 1) = one
      BY <3>2, SubSeqFull
    <3> HIDE DEF one
    <3>5. Contents(rcv_rb)' = C \o one
      <4>1. Contents(rb_push(rcv_rb, one)) = C \o SubSeq(one, 1, PushCount(rcv_rb, Len(one)))
        BY <1>t, <3>2, ContentsPush, Zenon DEF C
      <4> QED BY <3>1, <3>3, <3>4, <4>1
    <3>6. (got \o (C \o one)) \o Tail(hwRx) = (got \o C) \o hwRx
      <4>1. got \o (C \o one) = (got \o C) \o one
        <5>1. got \in Seq(Int) /\ C \in Seq(Int) /\ one \in Seq(Int)
          BY <1>t, <3>2
        <5> QED BY <5>1, Regroup
      <4>2. ((got \o C) \o one) \o Tail(hwRx) = (got \o C) \o (one \o Tail(hwRx))
        BY <1>t, <3>2, Regroup, Zenon
      <4> QED BY <3>2, <4>1, <4>2
    <3>7. Received' = Received
      BY <1>t, <2>1, <3>1, <3>5, <3>6, Zenon DEF Received
    <3> QED BY <1>t, <2>1, <3>7, OnlyMoved, Zenon
  <2> QED BY <2>2, <2>3
<1>4. ASSUME UNCHANGED rxVars PROVE ReceiveIInv'
  <2>1. Received' = Received /\ UNCHANGED <<arrived, overrun, got>>
    BY <1>4 DEF rxVars, Received
  <2> QED BY <1>t, <2>1, OnlyMoved, Zenon
<1>5. ASSUME Transmit \/ Interrupt \/ EnterTxCallback \/ ReturnFromInterrupt
             \/ sio_tx_callback \/ UNCHANGED vars
      PROVE  UNCHANGED rxVars
  BY <1>5, Zenon DEF Transmit, Interrupt, EnterTxCallback, ReturnFromInterrupt, sio_tx_callback, vars
<1>6. ASSUME NEW cnt \in WriteSizes, ez_sio_write(cnt) PROVE UNCHANGED rxVars
  BY <1>6, Zenon DEF ez_sio_write
<1> QED BY <1>1, <1>2, <1>3, <1>4, <1>5, <1>6, Zenon DEF Next, Isr

-------------------------------------------------------------------------------
(* The theorems. *)

\* The rings are sound, sending loses, doubles and reorders nothing, and no byte
\* waits without an interrupt, in every state.
THEOREM SerialInvariance == Spec => []SerialIInv
<1>1. Init => SerialIInv
  BY InitSerial
<1>2. SerialIInv /\ [Next]_vars => SerialIInv'
  BY NextSerial
<1> QED BY <1>1, <1>2, PTL DEF Spec

\* The types of the driver's variables, and the soundness of avail and of the
\* indices of both rings (ringbuffer.c).
THEOREM SerialTypeCorrect == Spec => []SerialTypeOK
<1>1. SerialIInv => SerialTypeOK
  BY DEF SerialIInv, SerialData, SerialTypeOK, Ring
<1> QED BY <1>1, SerialInvariance, PTL

\* What ez_sio_write counted leaves in the order it was written, though some of it
\* goes to the UART directly and some by way of the ring.
THEOREM SendsInOrder == Spec => []SentInOrder
<1>1. SerialIInv => SentInOrder
  BY DEF SerialIInv
<1> QED BY <1>1, SerialInvariance, PTL

\* ez_sio_write's enabling of the transmit interrupt and sio_tx_callback's
\* disabling of it never leave a byte in the ring with nothing to fetch it.
THEOREM NothingStranded == Spec => []NoStrandedByte
<1>1. SerialIInv => NoStrandedByte
  BY DEF SerialIInv
<1> QED BY <1>1, SerialInvariance, PTL

\* sio_rx_callback and ez_sio_read: what the program reads is what arrived, in
\* order, each byte once, but for the bytes the full FIFO of the UART lost.
THEOREM ReceivesInOrder == Spec => []ReceivedInOrder
<1>1. Init => ReceiveIInv
  BY InitReceive
<1>2. SerialIInv /\ ReceiveIInv /\ [Next]_vars => ReceiveIInv'
  BY NextReceive
<1>3. ReceiveIInv => ReceivedInOrder
  BY DEF ReceiveIInv
<1> QED BY <1>1, <1>2, <1>3, SerialInvariance, PTL DEF Spec
===============================================================================
