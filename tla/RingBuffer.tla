------------------------------ MODULE RingBuffer -------------------------------
(***************************************************************************)
(* The byte ring of middleware/common/ringbuffer: a buffer, two indices     *)
(* and the count of free places, 'avail', which alone tells a full ring     *)
(* from an empty one.  An index is reduced modulo the size before it is     *)
(* used and incremented after, so that it ranges from 0 to the size.        *)
(***************************************************************************)
EXTENDS Integers, Sequences

Least(a, b) == IF a < b THEN a ELSE b

rb_init(size, none) ==
  [buf |-> [i \in 0 .. size - 1 |-> none],
   size |-> size, avail |-> size, wridx |-> 0, rdidx |-> 0]

rb_isfull(rb) == rb.avail = 0
rb_isempty(rb) == rb.avail = rb.size

Used(rb) == rb.size - rb.avail

\* Mutant of Advanced: the index is not reduced.
AdvancedUnreduced(index, count, size) == index + count

\* An index after 'count' uses of it.
Advanced(index, count, size) ==
  IF count = 0 THEN index ELSE ((index + count - 1) % size) + 1

\* How many of 'cnt' items rb_push takes, and rb_pop gives.
PushCount(rb, cnt) == Least(cnt, rb.avail)
PopCount(rb, cnt) == Least(cnt, Used(rb))

\* The first items of 'items', as many as fit, go behind the last one.
rb_push(rb, items) ==
  LET n == PushCount(rb, Len(items))
      place(i) == (i - rb.wridx) % rb.size
  IN [rb EXCEPT !.buf = [i \in DOMAIN rb.buf |->
                           IF place(i) < n THEN items[place(i) + 1] ELSE rb.buf[i]],
                !.wridx = Advanced(rb.wridx, n, rb.size),
                !.avail = rb.avail - n]

\* What rb_pop writes to its caller's buffer, and the ring it leaves.
Popped(rb, cnt) ==
  [k \in 1 .. PopCount(rb, cnt) |-> rb.buf[(rb.rdidx + k - 1) % rb.size]]
rb_pop(rb, cnt) ==
  [rb EXCEPT !.rdidx = Advanced(rb.rdidx, PopCount(rb, cnt), rb.size),
             !.avail = rb.avail + PopCount(rb, cnt)]

\* Everything in the ring, oldest first.
Contents(rb) == Popped(rb, rb.size)
===============================================================================
