---------------------------- MODULE AgreementProofs ---------------------------
(* The theorem that the app's list and the server's agree once everything     *)
(* under way has arrived, for every set of plain names and any number of      *)
(* devices, threads, gestures, launches and restarts, checked by TLAPS.       *)
EXTENDS RegistryProofs, FiniteSetTheorems, NaturalsInduction, WellFoundedInduction

-------------------------------------------------------------------------------
(* A queue of pending changes, and what the list it leads to will hold.       *)
(* q is the queue, each element with a kind ("reg", "init", "del" or another) *)
(* and a target; S the set of the targets that the list holds now.            *)

Adds(q, i, t) == q[i].kind \in {"reg", "init"} /\ q[i].target = t
Removes(q, i, t) == q[i].kind = "del" /\ q[i].target = t

\* By the changes between c and k, target t is in the list just before the k-th;
\* with c = 0, by the list as it is now or by the changes since.
Holds(q, S, c, k, t) ==
  \/ \E i \in c + 1 .. k - 1 :
       Adds(q, i, t) /\ \A j \in i + 1 .. k - 1 : ~Removes(q, j, t)
  \/ c = 0 /\ t \in S /\ \A j \in 1 .. k - 1 : ~Removes(q, j, t)

\* The n changes lead to a list with nothing but T in it, and no registration
\* meets its target in the list.
AtMost(q, n, S, T) ==
  /\ \A t : Holds(q, S, 0, n + 1, t) => t \in T
  /\ \A k \in 1 .. n : q[k].kind = "reg" => ~Holds(q, S, 0, k, q[k].target)

\* Whatever the first c changes do, the n changes lead to a list with all of T in
\* it, and each deletion after the first c meets its target in the list.
AtLeast(q, n, S, T, c) ==
  /\ \A t \in T : Holds(q, S, c, n + 1, t)
  /\ \A k \in c + 1 .. n : q[k].kind = "del" => Holds(q, S, c, k, q[k].target)

LEMMA HoldsSame ==
  ASSUME NEW q, NEW p, NEW S, NEW c \in Nat, NEW k \in Nat, NEW t,
         \A i \in 1 .. k - 1 : p[i] = q[i]
  PROVE  Holds(p, S, c, k, t) <=> Holds(q, S, c, k, t)
<1>1. \A i \in 1 .. k - 1 : /\ Adds(p, i, t) <=> Adds(q, i, t)
                            /\ Removes(p, i, t) <=> Removes(q, i, t)
  BY DEF Adds, Removes
<1>2. \A i \in c + 1 .. k - 1 : i \in 1 .. k - 1 /\ \A j \in i + 1 .. k - 1 : j \in 1 .. k - 1
  OBVIOUS
<1> QED BY <1>1, <1>2 DEF Holds

\* What one more change does.
LEMMA HoldsNext ==
  ASSUME NEW q, NEW S, NEW c \in Nat, NEW k \in Nat, c < k, NEW t
  PROVE  Holds(q, S, c, k + 1, t) <=> \/ Adds(q, k, t)
                                      \/ ~Removes(q, k, t) /\ Holds(q, S, c, k, t)
<1>1. Adds(q, k, t) => ~Removes(q, k, t)
  BY DEF Adds, Removes
<1>2. ASSUME Adds(q, k, t) PROVE Holds(q, S, c, k + 1, t)
  <2>1. k \in c + 1 .. (k + 1) - 1 /\ \A j \in k + 1 .. (k + 1) - 1 : FALSE
    OBVIOUS
  <2> QED BY <1>2, <2>1 DEF Holds
<1>3. ASSUME ~Adds(q, k, t), Holds(q, S, c, k + 1, t)
      PROVE  ~Removes(q, k, t) /\ Holds(q, S, c, k, t)
  <2>1. CASE \E i \in c + 1 .. (k + 1) - 1 :
               Adds(q, i, t) /\ \A j \in i + 1 .. (k + 1) - 1 : ~Removes(q, j, t)
    <3>1. PICK i \in c + 1 .. (k + 1) - 1 :
            Adds(q, i, t) /\ \A j \in i + 1 .. (k + 1) - 1 : ~Removes(q, j, t)
      BY <2>1, Zenon
    <3>2. i # k
      BY <1>3, <3>1
    <3>3. i \in c + 1 .. k - 1 /\ k \in i + 1 .. (k + 1) - 1
          /\ \A j \in i + 1 .. k - 1 : j \in i + 1 .. (k + 1) - 1
      BY <3>2
    <3> QED BY <3>1, <3>3 DEF Holds
  <2>2. CASE c = 0 /\ t \in S /\ \A j \in 1 .. (k + 1) - 1 : ~Removes(q, j, t)
    <3>1. k \in 1 .. (k + 1) - 1 /\ \A j \in 1 .. k - 1 : j \in 1 .. (k + 1) - 1
      OBVIOUS
    <3> QED BY <2>2, <3>1 DEF Holds
  <2> QED BY <1>3, <2>1, <2>2, Zenon DEF Holds
<1>4. ASSUME ~Removes(q, k, t), Holds(q, S, c, k, t) PROVE Holds(q, S, c, k + 1, t)
  <2>1. CASE \E i \in c + 1 .. k - 1 :
               Adds(q, i, t) /\ \A j \in i + 1 .. k - 1 : ~Removes(q, j, t)
    <3>1. PICK i \in c + 1 .. k - 1 :
            Adds(q, i, t) /\ \A j \in i + 1 .. k - 1 : ~Removes(q, j, t)
      BY <2>1, Zenon
    <3>2. i \in c + 1 .. (k + 1) - 1
          /\ \A j \in i + 1 .. (k + 1) - 1 : j = k \/ j \in i + 1 .. k - 1
      OBVIOUS
    <3> QED BY <1>4, <3>1, <3>2 DEF Holds
  <2>2. CASE c = 0 /\ t \in S /\ \A j \in 1 .. k - 1 : ~Removes(q, j, t)
    <3>1. \A j \in 1 .. (k + 1) - 1 : j = k \/ j \in 1 .. k - 1
      OBVIOUS
    <3> QED BY <1>4, <2>2, <3>1 DEF Holds
  <2> QED BY <1>4, <2>1, <2>2, Zenon DEF Holds
<1> QED BY <1>1, <1>2, <1>3, <1>4, Zenon

\* The same queue leads to the same list.
LEMMA AtMostSame ==
  ASSUME NEW q, NEW p, NEW n \in Nat, NEW S, NEW S2 \in SUBSET S, NEW T, NEW T2, T \subseteq T2,
         AtMost(q, n, S, T), \A i \in 1 .. n : p[i] = q[i]
  PROVE  AtMost(p, n, S2, T2)
<1>1. \A k \in 1 .. n + 1 : \A t : Holds(p, S2, 0, k, t) => Holds(q, S, 0, k, t)
  <2> TAKE k \in 1 .. n + 1
  <2> TAKE t
  <2>1. Holds(p, S2, 0, k, t) => Holds(p, S, 0, k, t)
    BY Zenon DEF Holds
  <2>2. Holds(p, S, 0, k, t) <=> Holds(q, S, 0, k, t)
    <3>1. k \in Nat /\ \A i \in 1 .. k - 1 : i \in 1 .. n
      OBVIOUS
    <3>2. \A i \in 1 .. k - 1 : p[i] = q[i]
      BY <3>1
    <3> QED BY <3>1, <3>2, HoldsSame
  <2> QED BY <2>1, <2>2
<1>2. \A k \in 1 .. n : k \in 1 .. n + 1
  OBVIOUS
<1>3. n + 1 \in 1 .. n + 1
  OBVIOUS
<1> QED BY <1>1, <1>2, <1>3 DEF AtMost

LEMMA AtLeastSame ==
  ASSUME NEW q, NEW p, NEW n \in Nat, NEW S, NEW T, NEW c \in 0 .. n,
         AtLeast(q, n, S, T, c), \A i \in 1 .. n : p[i] = q[i]
  PROVE  AtLeast(p, n, S, T, c)
<1>1. \A k \in 1 .. n + 1 : \A t : Holds(p, S, c, k, t) <=> Holds(q, S, c, k, t)
  <2> TAKE k \in 1 .. n + 1
  <2> TAKE t
  <2>1. k \in Nat /\ \A i \in 1 .. k - 1 : i \in 1 .. n
    OBVIOUS
  <2>2. \A i \in 1 .. k - 1 : p[i] = q[i]
    BY <2>1
  <2> QED BY <2>1, <2>2, HoldsSame
<1>2. \A k \in c + 1 .. n : k \in 1 .. n + 1 /\ k \in 1 .. n
  OBVIOUS
<1>3. n + 1 \in 1 .. n + 1
  OBVIOUS
<1> QED BY <1>1, <1>2, <1>3 DEF AtLeast

\* A change at the end.
LEMMA HoldsAppended ==
  ASSUME NEW q, NEW p, NEW n \in Nat, NEW S, NEW c \in 0 .. n, NEW t,
         \A i \in 1 .. n : p[i] = q[i]
  PROVE  Holds(p, S, c, n + 2, t) <=> \/ Adds(p, n + 1, t)
                                      \/ ~Removes(p, n + 1, t) /\ Holds(q, S, c, n + 1, t)
<1>1. c \in Nat /\ n + 1 \in Nat /\ c < n + 1 /\ (n + 1) + 1 = n + 2 /\ (n + 1) - 1 = n
  OBVIOUS
<1>2. Holds(p, S, c, n + 2, t) <=> \/ Adds(p, n + 1, t)
                                   \/ ~Removes(p, n + 1, t) /\ Holds(p, S, c, n + 1, t)
  BY <1>1, HoldsNext
<1>3. Holds(p, S, c, n + 1, t) <=> Holds(q, S, c, n + 1, t)
  BY <1>1, HoldsSame
<1> QED BY <1>2, <1>3

LEMMA AtMostAppended ==
  ASSUME NEW q, NEW p, NEW n \in Nat, NEW S, NEW T, NEW T2, AtMost(q, n, S, T),
         \A i \in 1 .. n : p[i] = q[i],
         p[n + 1].kind = "reg" => p[n + 1].target \notin T,
         \A t : Adds(p, n + 1, t) => t \in T2,
         \A t \in T : Removes(p, n + 1, t) \/ t \in T2
  PROVE  AtMost(p, n + 1, S, T2)
<1>1. 0 \in 0 .. n
  OBVIOUS
<1>2. ASSUME NEW t, Holds(p, S, 0, n + 2, t) PROVE t \in T2
  <2>1. Adds(p, n + 1, t) \/ (~Removes(p, n + 1, t) /\ Holds(q, S, 0, n + 1, t))
    BY <1>1, <1>2, HoldsAppended
  <2>2. Holds(q, S, 0, n + 1, t) => t \in T
    BY DEF AtMost
  <2> QED BY <2>1, <2>2
<1>3. ASSUME NEW k \in 1 .. n + 1, p[k].kind = "reg" PROVE ~Holds(p, S, 0, k, p[k].target)
  <2>1. Holds(p, S, 0, k, p[k].target) <=> Holds(q, S, 0, k, p[k].target)
    <3>1. k \in Nat /\ 0 \in Nat /\ \A i \in 1 .. k - 1 : i \in 1 .. n
      OBVIOUS
    <3>2. \A i \in 1 .. k - 1 : p[i] = q[i]
      BY <3>1
    <3> QED BY <3>1, <3>2, HoldsSame
  <2>2. CASE k \in 1 .. n
    <3>1. p[k] = q[k]
      BY <2>2
    <3> QED BY <1>3, <2>1, <2>2, <3>1 DEF AtMost
  <2>3. CASE k = n + 1
    <3>1. p[k].target \notin T
      BY <1>3, <2>3
    <3>2. ~Holds(q, S, 0, n + 1, p[k].target)
      BY <3>1 DEF AtMost
    <3> QED BY <2>1, <2>3, <3>2
  <2> QED BY <2>2, <2>3
<1>4. (n + 1) + 1 = n + 2
  OBVIOUS
<1> QED BY <1>2, <1>3, <1>4 DEF AtMost

LEMMA AtLeastAppended ==
  ASSUME NEW q, NEW p, NEW n \in Nat, NEW S, NEW T, NEW T2, NEW c \in 0 .. n,
         AtLeast(q, n, S, T, c),
         \A i \in 1 .. n : p[i] = q[i],
         p[n + 1].kind = "del" => p[n + 1].target \in T,
         \A t \in T2 : Adds(p, n + 1, t) \/ (~Removes(p, n + 1, t) /\ t \in T)
  PROVE  AtLeast(p, n + 1, S, T2, c)
<1>1. ASSUME NEW t \in T2 PROVE Holds(p, S, c, n + 2, t)
  <2>1. t \in T => Holds(q, S, c, n + 1, t)
    BY DEF AtLeast
  <2> QED BY <1>1, <2>1, HoldsAppended
<1>2. ASSUME NEW k \in c + 1 .. n + 1, p[k].kind = "del" PROVE Holds(p, S, c, k, p[k].target)
  <2>1. Holds(p, S, c, k, p[k].target) <=> Holds(q, S, c, k, p[k].target)
    <3>1. k \in Nat /\ c \in Nat /\ \A i \in 1 .. k - 1 : i \in 1 .. n
      OBVIOUS
    <3>2. \A i \in 1 .. k - 1 : p[i] = q[i]
      BY <3>1
    <3> QED BY <3>1, <3>2, HoldsSame
  <2>2. CASE k \in c + 1 .. n
    <3>1. p[k] = q[k]
      BY <2>2
    <3> QED BY <1>2, <2>1, <2>2, <3>1 DEF AtLeast
  <2>3. CASE k = n + 1
    <3>1. p[k].target \in T
      BY <1>2, <2>3
    <3> QED BY <2>1, <2>3, <3>1 DEF AtLeast
  <2> QED BY <2>2, <2>3
<1>3. (n + 1) + 1 = n + 2
  OBVIOUS
<1> QED BY <1>1, <1>2, <1>3 DEF AtLeast

\* All of T is announced at the end: nothing before it matters any more.
LEMMA AllAnnounced ==
  ASSUME NEW q, NEW p, NEW n \in Nat, NEW m \in Nat, n <= m, NEW S, NEW T,
         AtMost(q, n, S, T), \A i \in 1 .. n : p[i] = q[i],
         \A i \in n + 1 .. m : p[i].kind = "init" /\ p[i].target \in T,
         \A t \in T : \E i \in n + 1 .. m : p[i].target = t
  PROVE  AtMost(p, m, S, T) /\ AtLeast(p, m, S, T, n)
<1>1. ASSUME NEW t, Holds(p, S, 0, m + 1, t) PROVE t \in T
  <2>1. \A i \in n + 1 .. m : Adds(p, i, t) => t \in T
    BY DEF Adds
  <2>2. ASSUME NEW i \in 1 .. m, i \notin n + 1 .. m, Adds(p, i, t),
               \A j \in i + 1 .. m : ~Removes(p, j, t)
        PROVE  t \in T
    <3>1. i \in 1 .. n /\ (n + 1) - 1 = n /\ \A j \in i + 1 .. n : j \in i + 1 .. m /\ j \in 1 .. n
      BY <2>2
    <3>2. Adds(q, i, t) /\ \A j \in i + 1 .. n : ~Removes(q, j, t)
      BY <2>2, <3>1 DEF Adds, Removes
    <3>3. Holds(q, S, 0, n + 1, t)
      BY <3>1, <3>2 DEF Holds
    <3> QED BY <3>3 DEF AtMost
  <2>3. ASSUME t \in S, \A j \in 1 .. m : ~Removes(p, j, t) PROVE t \in T
    <3>1. (n + 1) - 1 = n /\ \A j \in 1 .. n : j \in 1 .. m
      OBVIOUS
    <3>2. \A j \in 1 .. n : ~Removes(q, j, t)
      BY <2>3, <3>1 DEF Removes
    <3>3. Holds(q, S, 0, n + 1, t)
      BY <2>3, <3>1, <3>2 DEF Holds
    <3> QED BY <3>3 DEF AtMost
  <2>4. (m + 1) - 1 = m /\ 0 + 1 = 1
    OBVIOUS
  <2> QED BY <1>1, <2>1, <2>2, <2>3, <2>4 DEF Holds
<1>2. ASSUME NEW k \in 1 .. m, p[k].kind = "reg" PROVE ~Holds(p, S, 0, k, p[k].target)
  <2>1. k \in 1 .. n
    BY <1>2
  <2>2. p[k] = q[k] /\ ~Holds(q, S, 0, k, q[k].target)
    BY <1>2, <2>1 DEF AtMost
  <2>3. k \in Nat /\ 0 \in Nat /\ \A i \in 1 .. k - 1 : i \in 1 .. n
    BY <2>1
  <2>4. \A i \in 1 .. k - 1 : p[i] = q[i]
    BY <2>3
  <2> QED BY <2>2, <2>3, <2>4, HoldsSame
<1>3. ASSUME NEW t \in T PROVE Holds(p, S, n, m + 1, t)
  <2>1. PICK i \in n + 1 .. m : p[i].target = t
    BY <1>3
  <2>2. Adds(p, i, t)
    BY <2>1 DEF Adds
  <2>3. i \in n + 1 .. (m + 1) - 1 /\ \A j \in i + 1 .. (m + 1) - 1 : j \in n + 1 .. m
    OBVIOUS
  <2>4. \A j \in i + 1 .. (m + 1) - 1 : ~Removes(p, j, t)
    BY <2>3 DEF Removes
  <2> QED BY <2>2, <2>3, <2>4 DEF Holds
<1>4. \A k \in n + 1 .. m : p[k].kind # "del"
  OBVIOUS
<1> QED BY <1>1, <1>2, <1>3, <1>4 DEF AtMost, AtLeast

\* Changes that only add may change places.
SameBlock(q, p, n, l, m) ==
  /\ \A i \in 1 .. n : i \notin l .. m => p[i] = q[i]
  /\ \A i \in l .. m : p[i].kind = "init" /\ q[i].kind = "init"
  /\ \A i \in l .. m : \E j \in l .. m : p[i].target = q[j].target

LEMMA HoldsExchanged ==
  ASSUME NEW q, NEW p, NEW n \in Nat, NEW l \in 1 .. n, NEW m \in l .. n, NEW S,
         NEW c \in 0 .. n, c < l, NEW k \in 1 .. n + 1, k \notin l + 1 .. m, NEW t,
         SameBlock(q, p, n, l, m), Holds(p, S, c, k, t)
  PROVE  Holds(q, S, c, k, t)
<1>1. \A j \in 1 .. n : Removes(q, j, t) => Removes(p, j, t)
  BY DEF Removes, SameBlock
<1>2. CASE \E i \in c + 1 .. k - 1 :
             Adds(p, i, t) /\ \A j \in i + 1 .. k - 1 : ~Removes(p, j, t)
  <2>1. PICK i \in c + 1 .. k - 1 :
          Adds(p, i, t) /\ \A j \in i + 1 .. k - 1 : ~Removes(p, j, t)
    BY <1>2, Zenon
  <2>2. CASE i \notin l .. m
    <3>1. i \in 1 .. n /\ \A j \in i + 1 .. k - 1 : j \in 1 .. n
      OBVIOUS
    <3>2. Adds(q, i, t) /\ \A j \in i + 1 .. k - 1 : ~Removes(q, j, t)
      BY <1>1, <2>1, <2>2, <3>1 DEF Adds, SameBlock
    <3> QED BY <3>2 DEF Holds
  <2>3. CASE i \in l .. m
    <3>1. PICK h \in l .. m : p[i].target = q[h].target
      BY <2>3 DEF SameBlock
    <3>2. Adds(q, h, t)
      BY <2>1, <3>1 DEF Adds, SameBlock
    <3>3. h \in c + 1 .. k - 1
      BY <2>3
    <3>4. ASSUME NEW j \in h + 1 .. k - 1 PROVE ~Removes(q, j, t)
      <4>1. CASE j \in l .. m
        BY <4>1 DEF Removes, SameBlock
      <4>2. CASE j \notin l .. m
        <5>1. j \in i + 1 .. k - 1 /\ j \in 1 .. n
          BY <2>3, <4>2
        <5> QED BY <1>1, <2>1, <5>1
      <4> QED BY <4>1, <4>2
    <3> QED BY <3>2, <3>3, <3>4 DEF Holds
  <2> QED BY <2>2, <2>3
<1>3. CASE c = 0 /\ t \in S /\ \A j \in 1 .. k - 1 : ~Removes(p, j, t)
  <2>1. \A j \in 1 .. k - 1 : j \in 1 .. n
    OBVIOUS
  <2> QED BY <1>1, <1>3, <2>1 DEF Holds
<1> QED BY <1>2, <1>3, Zenon DEF Holds

LEMMA Exchanged ==
  ASSUME NEW q, NEW p, NEW n \in Nat, NEW l \in 1 .. n, NEW m \in l .. n, NEW S, NEW T,
         SameBlock(q, p, n, l, m), SameBlock(p, q, n, l, m)
  PROVE  /\ AtMost(q, n, S, T) => AtMost(p, n, S, T)
         /\ \A c \in 0 .. n : c < l /\ AtLeast(q, n, S, T, c) => AtLeast(p, n, S, T, c)
<1>1. \A c \in 0 .. n, k \in 1 .. n + 1 : \A t :
        c < l /\ k \notin l + 1 .. m => (Holds(p, S, c, k, t) <=> Holds(q, S, c, k, t))
  BY HoldsExchanged
<1>2. 0 \in 0 .. n /\ 0 < l /\ n + 1 \in 1 .. n + 1 /\ n + 1 \notin l + 1 .. m
  OBVIOUS
<1>3. ASSUME NEW k \in 1 .. n, p[k].kind # "init" \/ q[k].kind # "init"
      PROVE  k \in 1 .. n + 1 /\ k \notin l + 1 .. m /\ p[k] = q[k]
  <2>1. k \notin l .. m
    BY <1>3 DEF SameBlock
  <2> QED BY <2>1 DEF SameBlock
<1>4. ASSUME AtMost(q, n, S, T) PROVE AtMost(p, n, S, T)
  <2>1. \A t : Holds(p, S, 0, n + 1, t) => t \in T
    BY <1>1, <1>2, <1>4 DEF AtMost
  <2>2. ASSUME NEW k \in 1 .. n, p[k].kind = "reg" PROVE ~Holds(p, S, 0, k, p[k].target)
    <3>1. k \in 1 .. n + 1 /\ k \notin l + 1 .. m /\ p[k] = q[k]
      BY <1>3, <2>2
    <3> QED BY <1>1, <1>2, <1>4, <2>2, <3>1 DEF AtMost
  <2> QED BY <2>1, <2>2 DEF AtMost
<1>5. ASSUME NEW c \in 0 .. n, c < l, AtLeast(q, n, S, T, c) PROVE AtLeast(p, n, S, T, c)
  <2>1. \A t \in T : Holds(p, S, c, n + 1, t)
    BY <1>1, <1>2, <1>5 DEF AtLeast
  <2>2. ASSUME NEW k \in c + 1 .. n, p[k].kind = "del" PROVE Holds(p, S, c, k, p[k].target)
    <3>1. k \in 1 .. n
      OBVIOUS
    <3>2. k \in 1 .. n + 1 /\ k \notin l + 1 .. m /\ p[k] = q[k]
      BY <1>3, <2>2, <3>1
    <3> QED BY <1>1, <1>5, <2>2, <3>2 DEF AtLeast
  <2> QED BY <2>1, <2>2 DEF AtLeast
<1> QED BY <1>4, <1>5

\* The first change arrives and turns S into S2.
LEMMA HoldsArrived ==
  ASSUME NEW q, NEW p, NEW k \in Nat \ {0}, NEW S, NEW S2, NEW t,
         \A i \in 1 .. k - 1 : p[i] = q[i + 1]
  PROVE  /\ (t \in S2 => Adds(q, 1, t) \/ (t \in S /\ ~Removes(q, 1, t)))
            /\ Holds(p, S2, 0, k, t)
              => Holds(q, S, 0, k + 1, t)
         /\ (Adds(q, 1, t) \/ (t \in S /\ ~Removes(q, 1, t)) => t \in S2)
            /\ Holds(q, S, 0, k + 1, t)
              => Holds(p, S2, 0, k, t)
         /\ \A c \in Nat \ {0} : Holds(q, S, c, k + 1, t) => Holds(p, S2, c - 1, k, t)
<1>1. \A i \in 1 .. k - 1 : /\ Adds(p, i, t) <=> Adds(q, i + 1, t)
                            /\ Removes(p, i, t) <=> Removes(q, i + 1, t)
  BY DEF Adds, Removes
<1>2. (k + 1) - 1 = k
  OBVIOUS
<1>3. ASSUME t \in S2 => Adds(q, 1, t) \/ (t \in S /\ ~Removes(q, 1, t)),
             Holds(p, S2, 0, k, t)
      PROVE  Holds(q, S, 0, k + 1, t)
  <2>1. ASSUME NEW i \in 1 .. k - 1, Adds(p, i, t),
               \A j \in i + 1 .. k - 1 : ~Removes(p, j, t)
        PROVE  Holds(q, S, 0, k + 1, t)
    <3>1. i + 1 \in 1 .. k /\ Adds(q, i + 1, t)
      BY <1>1, <2>1
    <3>2. ASSUME NEW j \in i + 2 .. k PROVE ~Removes(q, j, t)
      <4>1. j - 1 \in i + 1 .. k - 1 /\ j - 1 \in 1 .. k - 1 /\ (j - 1) + 1 = j
        OBVIOUS
      <4> QED BY <1>1, <2>1, <4>1
    <3>3. (i + 1) + 1 = i + 2
      OBVIOUS
    <3> QED BY <1>2, <3>1, <3>2, <3>3 DEF Holds
  <2>2. ASSUME t \in S2, \A j \in 1 .. k - 1 : ~Removes(p, j, t)
        PROVE  Holds(q, S, 0, k + 1, t)
    <3>1. ASSUME NEW j \in 2 .. k PROVE ~Removes(q, j, t)
      <4>1. j - 1 \in 1 .. k - 1 /\ (j - 1) + 1 = j
        OBVIOUS
      <4> QED BY <1>1, <2>2, <4>1
    <3>2. CASE Adds(q, 1, t)
      <4>1. 1 \in 0 + 1 .. k /\ 1 + 1 = 2
        OBVIOUS
      <4> QED BY <1>2, <3>1, <3>2, <4>1 DEF Holds
    <3>3. CASE t \in S /\ ~Removes(q, 1, t)
      <4>1. \A j \in 1 .. k : j = 1 \/ j \in 2 .. k
        OBVIOUS
      <4> QED BY <1>2, <3>1, <3>3, <4>1 DEF Holds
    <3> QED BY <1>3, <2>2, <3>2, <3>3
  <2>3. 0 + 1 = 1
    OBVIOUS
  <2> QED BY <1>3, <2>1, <2>2, <2>3 DEF Holds
<1>4. ASSUME NEW c \in Nat, NEW d \in Nat, d = IF c = 0 THEN 0 ELSE c - 1,
             c # 0 \/ (Adds(q, 1, t) \/ (t \in S /\ ~Removes(q, 1, t)) => t \in S2),
             Holds(q, S, c, k + 1, t)
      PROVE  Holds(p, S2, d, k, t)
  <2>1. ASSUME NEW i \in c + 1 .. k, Adds(q, i, t), \A j \in i + 1 .. k : ~Removes(q, j, t)
        PROVE  Holds(p, S2, d, k, t)
    <3>0. ASSUME NEW j \in 1 .. k - 1, j >= i PROVE ~Removes(p, j, t)
      <4>1. j + 1 \in i + 1 .. k
        BY <3>0
      <4> QED BY <1>1, <2>1, <4>1
    <3>1. CASE i = 1
      <4>1. c = 0 /\ d = 0 /\ t \in S2
        BY <1>4, <2>1, <3>1
      <4>2. \A j \in 1 .. k - 1 : ~Removes(p, j, t)
        BY <3>0, <3>1
      <4> QED BY <4>1, <4>2 DEF Holds
    <3>2. CASE i # 1
      <4>1. i - 1 \in d + 1 .. k - 1 /\ i - 1 \in 1 .. k - 1 /\ (i - 1) + 1 = i
        BY <1>4, <3>2
      <4>2. Adds(p, i - 1, t)
        BY <1>1, <2>1, <4>1
      <4>3. \A j \in (i - 1) + 1 .. k - 1 : j \in 1 .. k - 1 /\ j >= i
        BY <4>1
      <4> QED BY <3>0, <4>1, <4>2, <4>3 DEF Holds
    <3> QED BY <3>1, <3>2
  <2>2. ASSUME c = 0, t \in S, \A j \in 1 .. k : ~Removes(q, j, t)
        PROVE  Holds(p, S2, d, k, t)
    <3>1. 1 \in 1 .. k /\ d = 0 /\ \A j \in 1 .. k - 1 : j + 1 \in 1 .. k
      BY <1>4, <2>2
    <3>2. t \in S2 /\ \A j \in 1 .. k - 1 : ~Removes(p, j, t)
      BY <1>1, <1>4, <2>2, <3>1
    <3> QED BY <3>1, <3>2 DEF Holds
  <2> QED BY <1>2, <1>4, <2>1, <2>2 DEF Holds
<1>5. ASSUME NEW c \in Nat \ {0}, Holds(q, S, c, k + 1, t) PROVE Holds(p, S2, c - 1, k, t)
  <2>1. c \in Nat /\ c - 1 \in Nat /\ c # 0 /\ c - 1 = IF c = 0 THEN 0 ELSE c - 1
    OBVIOUS
  <2> QED BY <1>4, <1>5, <2>1
<1>6. 0 \in Nat /\ 0 = IF 0 = 0 THEN 0 ELSE 0 - 1
  OBVIOUS
<1> QED BY <1>3, <1>4, <1>5, <1>6

LEMMA AtMostArrived ==
  ASSUME NEW q, NEW p, NEW n \in Nat \ {0}, NEW S, NEW S2, NEW T, AtMost(q, n, S, T),
         \A i \in 1 .. n - 1 : p[i] = q[i + 1],
         \A t \in S2 : Adds(q, 1, t) \/ (t \in S /\ ~Removes(q, 1, t))
  PROVE  AtMost(p, n - 1, S2, T)
<1>1. ASSUME NEW k \in 1 .. n, NEW t, Holds(p, S2, 0, k, t) PROVE Holds(q, S, 0, k + 1, t)
  <2>1. k \in Nat \ {0} /\ \A i \in 1 .. k - 1 : i \in 1 .. n - 1
    OBVIOUS
  <2>2. \A i \in 1 .. k - 1 : p[i] = q[i + 1]
    BY <2>1
  <2> QED BY <1>1, <2>1, <2>2, HoldsArrived
<1>2. ASSUME NEW t, Holds(p, S2, 0, (n - 1) + 1, t) PROVE t \in T
  <2>1. n \in 1 .. n /\ (n - 1) + 1 = n
    OBVIOUS
  <2> QED BY <1>1, <1>2, <2>1 DEF AtMost
<1>3. ASSUME NEW k \in 1 .. n - 1, p[k].kind = "reg" PROVE ~Holds(p, S2, 0, k, p[k].target)
  <2>1. k \in 1 .. n /\ k + 1 \in 1 .. n /\ p[k] = q[k + 1]
    OBVIOUS
  <2> QED BY <1>1, <1>3, <2>1 DEF AtMost
<1> QED BY <1>2, <1>3 DEF AtMost

LEMMA AtLeastArrived ==
  ASSUME NEW q, NEW p, NEW n \in Nat \ {0}, NEW S, NEW S2, NEW T, NEW c \in 0 .. n,
         NEW d \in 0 .. n - 1, d = IF c = 0 THEN 0 ELSE c - 1,
         AtLeast(q, n, S, T, c), \A i \in 1 .. n - 1 : p[i] = q[i + 1],
         c # 0 \/ \A t : Adds(q, 1, t) \/ (t \in S /\ ~Removes(q, 1, t)) => t \in S2
  PROVE  AtLeast(p, n - 1, S2, T, d)
<1>1. ASSUME NEW k \in 1 .. n, NEW t, Holds(q, S, c, k + 1, t) PROVE Holds(p, S2, d, k, t)
  <2>1. k \in Nat \ {0} /\ \A i \in 1 .. k - 1 : i \in 1 .. n - 1
    OBVIOUS
  <2>2. \A i \in 1 .. k - 1 : p[i] = q[i + 1]
    BY <2>1
  <2>3. CASE c = 0
    BY <1>1, <2>1, <2>2, <2>3, HoldsArrived
  <2>4. CASE c # 0
    <3>1. c \in Nat \ {0} /\ d = c - 1
      BY <2>4
    <3> QED BY <1>1, <2>1, <2>2, <3>1, HoldsArrived
  <2> QED BY <2>3, <2>4
<1>2. ASSUME NEW t \in T PROVE Holds(p, S2, d, (n - 1) + 1, t)
  <2>1. n \in 1 .. n /\ (n - 1) + 1 = n
    OBVIOUS
  <2> QED BY <1>1, <2>1 DEF AtLeast
<1>3. ASSUME NEW k \in d + 1 .. n - 1, p[k].kind = "del" PROVE Holds(p, S2, d, k, p[k].target)
  <2>1. k \in 1 .. n /\ k + 1 \in c + 1 .. n /\ p[k] = q[k + 1]
    OBVIOUS
  <2> QED BY <1>1, <1>3, <2>1 DEF AtLeast
<1> QED BY <1>2, <1>3 DEF AtLeast

-------------------------------------------------------------------------------
(* Sequences of anything, and Array.prototype's methods on them. *)

AnySeq(s) == s \in Seq({s[i] : i \in 1 .. Len(s)})

LEMMA AnySeqOf ==
  ASSUME NEW E, NEW s \in Seq(E)
  PROVE  AnySeq(s) /\ Len(s) \in Nat
<1>1. Len(s) \in Nat /\ DOMAIN s = 1 .. Len(s) /\ s = [i \in 1 .. Len(s) |-> s[i]]
  OBVIOUS
<1> QED BY <1>1 DEF AnySeq

LEMMA AnyAppend ==
  ASSUME NEW s, AnySeq(s), NEW e
  PROVE  /\ AnySeq(Append(s, e)) /\ Len(s) \in Nat
         /\ Len(Append(s, e)) = Len(s) + 1
         /\ \A i \in 1 .. Len(s) : Append(s, e)[i] = s[i]
         /\ Append(s, e)[Len(s) + 1] = e
<1> DEFINE E == {s[i] : i \in 1 .. Len(s)} \cup {e}
<1>1. s \in Seq({s[i] : i \in 1 .. Len(s)}) /\ e \in E
  BY DEF AnySeq
<1>2. s \in Seq(E)
  <2>1. Len(s) \in Nat /\ s = [i \in 1 .. Len(s) |-> s[i]]
    BY <1>1
  <2>2. \A i \in 1 .. Len(s) : s[i] \in E
    OBVIOUS
  <2> QED BY <2>1, <2>2
<1> HIDE DEF E
<1>3. Append(s, e) \in Seq(E) /\ Len(s) \in Nat
  BY <1>1, <1>2, AppendProperties
<1>4. /\ Len(Append(s, e)) = Len(s) + 1
      /\ \A i \in 1 .. Len(s) : Append(s, e)[i] = s[i]
      /\ Append(s, e)[Len(s) + 1] = e
  BY <1>1, <1>2, AppendProperties
<1> QED BY <1>3, <1>4, AnySeqOf

LEMMA AnyTail ==
  ASSUME NEW s, AnySeq(s), s # <<>>
  PROVE  /\ AnySeq(Tail(s)) /\ Len(s) \in Nat \ {0} /\ Head(s) = s[1]
         /\ Len(Tail(s)) = Len(s) - 1
         /\ \A i \in 1 .. Len(s) - 1 : Tail(s)[i] = s[i + 1]
<1> DEFINE E == {s[i] : i \in 1 .. Len(s)}
<1>1. s \in Seq(E)
  BY DEF AnySeq
<1> HIDE DEF E
<1>2. /\ Tail(s) \in Seq(E) /\ Len(s) \in Nat \ {0} /\ Head(s) = s[1]
      /\ Len(Tail(s)) = Len(s) - 1
      /\ \A i \in 1 .. Len(s) - 1 : Tail(s)[i] = s[i + 1]
  BY <1>1
<1> QED BY <1>2, AnySeqOf

LEMMA AnyRemoved ==
  ASSUME NEW s, AnySeq(s), NEW k \in 1 .. Len(s)
  PROVE  /\ AnySeq(RemoveAt(s, k)) /\ Len(s) \in Nat
         /\ Len(RemoveAt(s, k)) = Len(s) - 1
         /\ \A i \in 1 .. Len(s) - 1 : RemoveAt(s, k)[i] = IF i < k THEN s[i] ELSE s[i + 1]
<1> DEFINE E == {s[i] : i \in 1 .. Len(s)}
           a == SubSeq(s, 1, k - 1)
           b == SubSeq(s, k + 1, Len(s))
<1>1. s \in Seq(E)
  BY DEF AnySeq
<1> HIDE DEF E
<1>2. /\ a \in Seq(E) /\ Len(a) = k - 1 /\ \A i \in 1 .. k - 1 : a[i] = s[i]
      /\ Len(s) \in Nat
  BY <1>1
<1>3. /\ b \in Seq(E) /\ Len(b) = Len(s) - k
      /\ \A i \in 1 .. Len(s) - k : b[i] = s[k + i]
  BY <1>1
<1>4. RemoveAt(s, k) = a \o b
  BY DEF RemoveAt
<1> HIDE DEF a, b
<1>5. /\ a \o b \in Seq(E) /\ Len(a \o b) = Len(s) - 1
      /\ \A i \in 1 .. Len(s) - 1 :
           (a \o b)[i] = IF i <= k - 1 THEN a[i] ELSE b[i - (k - 1)]
  <2>1. Len(a) + Len(b) = Len(s) - 1
    BY <1>2, <1>3
  <2>2. /\ a \o b \in Seq(E) /\ Len(a \o b) = Len(a) + Len(b)
        /\ \A i \in 1 .. Len(a) + Len(b) :
             (a \o b)[i] = IF i <= Len(a) THEN a[i] ELSE b[i - Len(a)]
    <3>1. a \in Seq(E) /\ b \in Seq(E)
      BY <1>2, <1>3
    <3> QED BY ONLY <3>1, ConcatProperties
  <2>3. Len(a) = k - 1
    BY <1>2
  <2> QED BY <2>1, <2>2, <2>3
<1>6. ASSUME NEW i \in 1 .. Len(s) - 1
      PROVE  (a \o b)[i] = IF i < k THEN s[i] ELSE s[i + 1]
  <2>1. CASE i < k
    <3>1. i <= k - 1 /\ i \in 1 .. k - 1
      BY <2>1
    <3> QED BY <1>2, <1>5, <2>1, <3>1
  <2>2. CASE ~(i < k)
    <3>1. ~(i <= k - 1) /\ i - (k - 1) \in 1 .. Len(s) - k /\ k + (i - (k - 1)) = i + 1
      BY <1>2, <2>2
    <3> QED BY <1>3, <1>5, <2>2, <3>1
  <2> QED BY <2>1, <2>2
<1> QED BY <1>2, <1>4, <1>5, <1>6, AnySeqOf

LEMMA ElementsOf ==
  ASSUME NEW s, AnySeq(s)
  PROVE  ToSet(s) = {s[i] : i \in 1 .. Len(s)} /\ DOMAIN s = 1 .. Len(s) /\ Len(s) \in Nat
<1>1. DOMAIN s = 1 .. Len(s) /\ Len(s) \in Nat
  BY DEF AnySeq
<1> QED BY <1>1 DEF ToSet

\* A list without doubles loses one element.
LEMMA RemovedElement ==
  ASSUME NEW s, AnySeq(s), IsInjective(s), NEW k \in 1 .. Len(s)
  PROVE  /\ AnySeq(RemoveAt(s, k)) /\ IsInjective(RemoveAt(s, k))
         /\ ToSet(RemoveAt(s, k)) = ToSet(s) \ {s[k]}
<1> DEFINE r == RemoveAt(s, k)
           n == Len(s)
<1>1. /\ AnySeq(r) /\ n \in Nat /\ Len(r) = n - 1
      /\ \A i \in 1 .. n - 1 : r[i] = IF i < k THEN s[i] ELSE s[i + 1]
  BY AnyRemoved
<1>2. /\ ToSet(s) = {s[i] : i \in 1 .. n} /\ DOMAIN s = 1 .. n
      /\ ToSet(r) = {r[i] : i \in 1 .. n - 1} /\ DOMAIN r = 1 .. n - 1
  BY <1>1, ElementsOf
<1>3. \A i, j \in 1 .. n : s[i] = s[j] => i = j
  BY <1>2 DEF IsInjective
<1> HIDE DEF r, n
<1>4. IsInjective(r)
  <2>1. ASSUME NEW i \in 1 .. n - 1, NEW j \in 1 .. n - 1, r[i] = r[j] PROVE i = j
    <3>1. i \in 1 .. n /\ i + 1 \in 1 .. n /\ j \in 1 .. n /\ j + 1 \in 1 .. n
      BY <1>1
    <3> QED BY <1>1, <1>3, <2>1, <3>1
  <2> QED BY <1>2, <2>1 DEF IsInjective
<1>5. ASSUME NEW i \in 1 .. n - 1 PROVE r[i] \in ToSet(s) \ {s[k]}
  <2>1. i \in 1 .. n /\ i + 1 \in 1 .. n /\ k \in 1 .. n
    BY <1>1 DEF n
  <2> QED BY <1>1, <1>2, <1>3, <2>1
<1>6. ASSUME NEW i \in 1 .. n, s[i] # s[k] PROVE s[i] \in ToSet(r)
  <2>1. CASE i < k
    <3>1. i \in 1 .. n - 1
      BY <1>1, <2>1 DEF n
    <3> QED BY <1>1, <1>2, <2>1, <3>1
  <2>2. CASE i > k
    <3>1. i - 1 \in 1 .. n - 1 /\ (i - 1) + 1 = i /\ ~(i - 1 < k)
      BY <1>1, <2>2 DEF n
    <3> QED BY <1>1, <1>2, <3>1
  <2>3. i # k
    BY <1>6
  <2>4. i \in Nat /\ k \in Nat
    BY <1>1 DEF n
  <2> QED BY <2>1, <2>2, <2>3, <2>4
<1> QED BY <1>1, <1>2, <1>4, <1>5, <1>6 DEF r

LEMMA AppendedElement ==
  ASSUME NEW s, AnySeq(s), IsInjective(s), NEW e
  PROVE  /\ AnySeq(Append(s, e)) /\ ToSet(Append(s, e)) = ToSet(s) \cup {e}
         /\ e \notin ToSet(s) => IsInjective(Append(s, e))
<1> DEFINE r == Append(s, e)
           n == Len(s)
<1>1. /\ AnySeq(r) /\ n \in Nat /\ Len(r) = n + 1
      /\ \A i \in 1 .. n : r[i] = s[i]
      /\ r[n + 1] = e
  BY AnyAppend
<1>2. /\ ToSet(s) = {s[i] : i \in 1 .. n} /\ DOMAIN s = 1 .. n
      /\ ToSet(r) = {r[i] : i \in 1 .. n + 1} /\ DOMAIN r = 1 .. n + 1
  BY <1>1, ElementsOf
<1>3. \A i, j \in 1 .. n : s[i] = s[j] => i = j
  BY <1>2 DEF IsInjective
<1> HIDE DEF r, n
<1>4. \A i \in 1 .. n + 1 : i \in 1 .. n \/ i = n + 1
  BY <1>1
<1>5. \A i \in 1 .. n : i \in 1 .. n + 1
  BY <1>1
<1>6. n + 1 \in 1 .. n + 1
  BY <1>1
<1>7. ToSet(r) = ToSet(s) \cup {e}
  BY <1>1, <1>2, <1>4, <1>5, <1>6
<1>8. ASSUME e \notin ToSet(s) PROVE IsInjective(r)
  <2>1. ASSUME NEW i \in 1 .. n + 1, NEW j \in 1 .. n + 1, r[i] = r[j] PROVE i = j
    BY <1>1, <1>2, <1>3, <1>4, <1>8, <2>1
  <2> QED BY <1>2, <2>1 DEF IsInjective
<1> QED BY <1>1, <1>7, <1>8 DEF r

\* The first of the positions that hold x.
LEMMA SelectedPlace ==
  ASSUME NEW s, AnySeq(s), NEW x, x \in ToSet(s)
  PROVE  /\ Min({i \in 1 .. Len(s) : s[i] = x}) \in 1 .. Len(s)
         /\ s[Min({i \in 1 .. Len(s) : s[i] = x})] = x
<1> DEFINE I == {i \in 1 .. Len(s) : s[i] = x}
           R == OpToRel(<, Nat)
<1>1. I # {} /\ I \in SUBSET Nat
  BY ElementsOf
<1>2. IsWellFoundedOn(R, Nat)
  BY NatLessThanWellFounded
<1>3. \A a, b \in Nat : <<a, b>> \in R <=> a < b
  BY DEF OpToRel
<1> HIDE DEF R
<1>4. PICK a \in I : \A b \in I : ~ (<<b, a>> \in R)
  BY <1>1, <1>2, WFMin, Zenon
<1>5. a \in I /\ \A b \in I : a <= b
  <2>1. ASSUME NEW b \in I PROVE a <= b
    <3>1. a \in Nat /\ b \in Nat
      BY <1>1
    <3>2. ~(b < a)
      BY <1>3, <1>4, <3>1, Zenon
    <3> QED BY <3>1, <3>2
  <2> QED BY <1>4, <2>1
<1>6. Min(I) \in I
  BY <1>5, Zenon DEF Min
<1> QED BY <1>6

LEMMA RemovedFirst ==
  ASSUME NEW s, AnySeq(s), NEW k \in 1 .. Len(s), IsInjective(s)
  PROVE  RemoveFirst(s, s[k]) = RemoveAt(s, k)
<1> DEFINE m == Min({i \in 1 .. Len(s) : s[i] = s[k]})
<1>1. s[k] \in ToSet(s) /\ DOMAIN s = 1 .. Len(s)
  BY ElementsOf
<1>2. m \in 1 .. Len(s) /\ s[m] = s[k]
  BY <1>1, SelectedPlace
<1>3. m = k
  BY <1>1, <1>2 DEF IsInjective
<1>4. SelectInSeq(s, LAMBDA v : v = s[k]) = m
  BY DEF SelectInSeq
<1> QED BY <1>3, <1>4 DEF RemoveFirst

-------------------------------------------------------------------------------
(* The server's list. *)

LEMMA PlaceInList ==
  ASSUME NEW s, AnySeq(s), NEW x
  PROVE  /\ x \in ToSet(s) => /\ Server!indexOf(s, x) \in Nat
                              /\ Server!indexOf(s, x) + 1 \in 1 .. Len(s)
                              /\ s[Server!indexOf(s, x) + 1] = x
         /\ x \notin ToSet(s) => Server!indexOf(s, x) = -1
<1> DEFINE I == {i \in 1 .. Len(s) : s[i] = x}
<1>1. ToSet(s) = {s[i] : i \in 1 .. Len(s)} /\ Len(s) \in Nat
  BY ElementsOf
<1>2. Server!indexOf(s, x) = (IF I # {} THEN Min(I) ELSE 0) - 1
  BY DEF Server!indexOf, Server!SelectInSeq, Server!Min, Min
<1>3. ASSUME x \in ToSet(s)
      PROVE  /\ Server!indexOf(s, x) \in Nat
             /\ Server!indexOf(s, x) + 1 \in 1 .. Len(s) /\ s[Server!indexOf(s, x) + 1] = x
  <2>1. Min(I) \in 1 .. Len(s) /\ s[Min(I)] = x
    BY <1>3, SelectedPlace
  <2>2. I # {}
    BY <1>1, <1>3
  <2> HIDE DEF I
  <2>3. (Min(I) - 1) + 1 = Min(I) /\ Min(I) - 1 \in Nat
    BY <2>1
  <2> QED BY <1>2, <2>1, <2>2, <2>3
<1>4. ASSUME x \notin ToSet(s) PROVE I = {}
  BY <1>1, <1>4
<1>5. (0 - 1) = -1
  OBVIOUS
<1> HIDE DEF I
<1> QED BY <1>2, <1>3, <1>4, <1>5

LEMMA SplicedList ==
  ASSUME NEW s, AnySeq(s), IsInjective(s), NEW x,
         NEW r, r = Server!splice(s, Server!indexOf(s, x))
  PROVE  /\ AnySeq(r) /\ IsInjective(r)
         /\ ToSet(r) \subseteq ToSet(s) \ {x}
         /\ x \in ToSet(s) => ToSet(r) = ToSet(s) \ {x}
<1> DEFINE i == Server!indexOf(s, x)
<1>1. Len(s) \in Nat /\ r = Server!splice(s, i)
  BY ElementsOf
<1>2. CASE x \in ToSet(s)
  <2>1. i \in Nat /\ i + 1 \in 1 .. Len(s) /\ s[i + 1] = x
    BY <1>2, PlaceInList
  <2> HIDE DEF i
  <2>2. r = RemoveAt(s, i + 1)
    <3>1. ~(i < 0) /\ i \in 0 .. Len(s) - 1
      BY <1>1, <2>1
    <3> QED BY <1>1, <3>1 DEF Server!splice, Server!RemoveAt, RemoveAt
  <2> QED BY <1>2, <2>1, <2>2, RemovedElement
<1>3. CASE x \notin ToSet(s)
  <2>1. i = -1
    BY <1>3, PlaceInList
  <2> HIDE DEF i
  <2>2. CASE Len(s) # 0
    <3>1. i < 0 /\ Len(s) + i \in 0 .. Len(s) - 1 /\ (Len(s) + i) + 1 = Len(s)
          /\ Len(s) \in 1 .. Len(s)
      BY <1>1, <2>1, <2>2
    <3>2. r = RemoveAt(s, Len(s))
      BY <1>1, <3>1 DEF Server!splice, Server!RemoveAt, RemoveAt
    <3>3. AnySeq(r) /\ IsInjective(r) /\ ToSet(r) = ToSet(s) \ {s[Len(s)]}
      BY <3>1, <3>2, RemovedElement
    <3> QED BY <1>3, <3>3
  <2>3. CASE Len(s) = 0
    <3>1. i < 0 /\ ~(Len(s) + i \in 0 .. Len(s) - 1)
      BY <2>1, <2>3
    <3>2. r = s
      BY <1>1, <3>1 DEF Server!splice
    <3> QED BY <1>3, <3>2
  <2> QED BY <2>2, <2>3
<1> QED BY <1>2, <1>3

LEMMA ListWithDevice ==
  ASSUME NEW s, AnySeq(s), IsInjective(s), NEW x, NEW r, r = Server!WithDevice(s, x)
  PROVE  AnySeq(r) /\ IsInjective(r) /\ ToSet(r) = ToSet(s) \cup {x}
<1>1. CASE x \in ToSet(s)
  <2>1. Server!indexOf(s, x) + 1 \in 1 .. Len(s) /\ Len(s) \in Nat
    BY <1>1, PlaceInList, ElementsOf
  <2>2. Server!indexOf(s, x) # -1
    BY <2>1
  <2> QED BY <1>1, <2>2 DEF Server!WithDevice
<1>2. CASE x \notin ToSet(s)
  BY <1>2, PlaceInList, AppendedElement DEF Server!WithDevice
<1> QED BY <1>1, <1>2

-------------------------------------------------------------------------------
(* The inductive invariant. *)

\* What the theorem assumes: no name has a slash (server.js:87 deletes another device
\* than such a name means), and the file that the app finds when it is first started
\* is one that it could have written with such names, each device registered once.
Devs == {<<part, Place>> : part \in STRING}
PlainNames == \A name \in Names : Len(name) = 1
StoredByApp ==
  \A f \in Stored : /\ \A i \in 1 .. Len(f) : f[i].dev \in Devs
                    /\ \A i, j \in 1 .. Len(f) : f[i] = f[j] => i = j

\* The state has to be good only as long as nothing was lost, registered twice or
\* raced: once one of these has happened it stays so.
Clean == ~lost /\ ~doubled /\ ~raced

\* The list entry i with its own MAC: between the two halves of a deletion, the
\* MACs from the deleted one on are still one place further on.
EntryMac(i) ==
  IF ui.at = "removeMac" /\ i >= ui.index THEN regDevicesMac[i + 1] ELSE regDevicesMac[i]
EntryAt(i) == Target(<<regDevices[i][1]>>, regDevices[i], EntryMac(i))

\* Entries that no message or thread has told the server of: a new one until sendMsg
\* starts its publisher, and one that sendMsg has announced to be deleted.
Sending == {"new", "putAction", "putTarget"}
Untold ==
  {i \in 1 .. Len(regDevices) :
     /\ ui.at = "removeData" \/ (ui.at \in Sending /\ ui.action = "reg")
     /\ i = ui.index}
Told == {EntryAt(i) : i \in (1 .. Len(regDevices)) \ Untold}

GoodLists ==
  /\ \A i \in 1 .. Len(regDevices) : regDevices[i] \in Devs
  /\ \A i, j \in 1 .. Len(regDevices) : EntryAt(i) = EntryAt(j) => i = j
  /\ \A i \in 1 .. Len(file) : file[i].dev \in Devs
  /\ \A i, j \in 1 .. Len(file) : file[i] = file[j] => i = j

\* What the UI thread is about to add is not in the list, and what sendMsg says is
\* about the entry that it names.
GoodUi ==
  /\ ui.at = "addData" =>
       \A i \in 1 .. Len(regDevices) :
         ~(regDevices[i] = ui.name \o <<Place>> /\ regDevicesMac[i] = regDevicesMac[Len(regDevices) + 1])
  /\ ui.at \in Sending => /\ ui.id = <<regDevices[ui.index][1]>>
                          /\ ui.action \in {"reg", "trig", "del"}

Reads(p) == thread[p].at \in {"getDevice", "getMac"}

GoodThread(p) ==
  /\ thread[p].topic \in {"arc", "init"}
  /\ thread[p].topic = "arc" =>
       thread[p].at \in {"text", "publish"} /\ thread[p].meant.action \in {"reg", "trig", "del"}
  /\ Reads(p) => thread[p].index \in 1 .. Len(regDevices) /\ ui.at # "removeMac"
  /\ thread[p].at = "getMac" => thread[p].device = regDevices[thread[p].index]
  /\ thread[p].at = "publish" => thread[p].text = thread[p].meant

\* Until the stored devices are sent, no publisher of theirs is at work.
GoodThreads ==
  /\ DOMAIN thread = Publishers /\ started \in Seq(Publishers)
  /\ IsInjective(started) /\ ToSet(started) = Running
  /\ \A p \in Running : GoodThread(p)
  /\ conn = "connecting" => ~builtMsg
  /\ conn = "connecting" \/ builtMsg => \A p \in Running : thread[p].topic = "arc"

GoodWires ==
  /\ AnySeq(net)
  /\ \A i \in 1 .. Len(net) :
       net[i].topic = "init" \/ (net[i].topic = "arc" /\ net[i].text.action \in {"reg", "trig", "del"})
  /\ conn # "up" => net = <<>>
  /\ AnySeq(serverDevices) /\ IsInjective(serverDevices)

\* Everything under way, in the order in which it is published or its threads were
\* started: what is said with it, and of which target.
OfMessage(m) ==
  [kind |-> IF m.topic = "init" THEN "init" ELSE m.text.action, target |-> m.text.target]
OfThread(p) ==
  [kind   |-> IF thread[p].topic = "init" THEN "init" ELSE thread[p].meant.action,
   target |-> IF Reads(p) THEN TargetAt(thread[p].index) ELSE thread[p].meant.target]
UnderWay == Len(net) + Len(started)
Pending ==
  [i \in 1 .. UnderWay |->
     IF i <= Len(net) THEN OfMessage(net[i]) ELSE OfThread(started[i - Len(net)])]

\* From the c-th on, what is under way tells the server of all that is told; the
\* threads among the first c were started by sendMsg.
Announced(c) ==
  /\ AtLeast(Pending, UnderWay, ToSet(serverDevices), Told, c)
  /\ \A i \in 1 .. Len(started) : Len(net) + i <= c => thread[started[i]].topic = "arc"

Agreement ==
  /\ AtMost(Pending, UnderWay, ToSet(serverDevices), Told)
  /\ conn = "up" /\ ~builtMsg => \E c \in 0 .. UnderWay : Announced(c)

Good == GoodLists /\ GoodUi /\ GoodThreads /\ GoodWires /\ Agreement
AgreementIInv == RegistryIInv /\ (Clean => Good)

-------------------------------------------------------------------------------
(* The lists. *)

\* A history once set stays set.
LEMMA CleanBefore == [Next]_vars /\ Clean' => Clean
<1> SUFFICES ASSUME [Next]_vars, Clean' PROVE Clean
  OBVIOUS
<1>1. ASSUME UNCHANGED <<lost, doubled, raced>> PROVE Clean
  BY <1>1, Zenon DEF Clean
<1>2. ASSUME NEW X, NEW Y, NEW Z,
             lost' = lost \/ lost' = (lost \/ X), doubled' = doubled \/ doubled' = (doubled \/ Y),
             raced' = raced \/ raced' = (raced \/ Z)
      PROVE  Clean
  <2>1. ASSUME NEW h, NEW h2, NEW H, h2 = h \/ h2 = (h \/ H), ~h2 PROVE ~h
    BY <2>1
  <2>2. ~lost' /\ ~doubled' /\ ~raced'
    BY Zenon DEF Clean
  <2>3. ~lost
    BY <1>2, <2>1, <2>2, Zenon
  <2>4. ~doubled
    BY <1>2, <2>1, <2>2, Zenon
  <2>5. ~raced
    BY <1>2, <2>1, <2>2, Zenon
  <2> QED BY <2>3, <2>4, <2>5, Zenon DEF Clean
<1>3. CASE AppStep
  <2>1. CASE User
    <3>1. ASSUME NEW name \in Names, NEW mac \in Macs, Register(name, mac) PROVE Clean
      BY <1>2, <3>1, Zenon DEF Register
    <3>2. ASSUME NEW i \in 1 .. MaxDevices, Tap(i) \/ ConfirmDelete(i) PROVE Clean
      BY <1>1, <3>2, Zenon DEF Tap, ConfirmDelete, userVars
    <3> QED BY <2>1, <3>1, <3>2, Zenon DEF User
  <2>2. CASE UiStep
    <3>1. CASE RemoveDevice
      BY <1>2, <3>1, Zenon DEF RemoveDevice
    <3>2. CASE AddData \/ SendMsg \/ RemoveMac
      <4>1. UNCHANGED userVars
        BY <3>2, Zenon DEF AddData, SendMsg, SendMsgNew, SendMsgPutAction, SendMsgPutTarget, RemoveMac
      <4> QED BY <1>1, <4>1, Zenon DEF userVars
    <3> QED BY <2>2, <3>1, <3>2, Zenon DEF UiStep
  <2>3. CASE SendStoredDevices
    BY <1>1, <2>3, Zenon DEF SendStoredDevices
  <2>4. CASE OnStop
    BY <1>1, <2>4, Zenon DEF OnStop
  <2>5. CASE Connect
    BY <1>2, <2>5, Zenon DEF Connect, connVars
  <2>6. CASE ConnectionLost
    BY <1>2, <2>6, Zenon DEF ConnectionLost, connVars
  <2>7. ASSUME StartAgain PROVE Clean
    BY <1>2, <2>7, Zenon DEF StartAgain
  <2>8. ASSUME NEW p \in Publishers, Publisher(p) PROVE Clean
    <3>1. CASE GetDevice(p) \/ GetMac(p) \/ PutTarget(p)
      BY <1>1, <3>1, Zenon DEF GetDevice, GetMac, PutTarget, threadVars
    <3>2. CASE ToText(p)
      BY <1>2, <3>2, Zenon DEF ToText, threadVars
    <3>3. CASE Publish(p)
      BY <1>2, <3>3, Zenon DEF Publish, threadVars
    <3>4. CASE ToTextFails(p)
      BY <2>7, <3>4, Zenon DEF ToTextFails, Clean
    <3> QED BY <2>8, <3>1, <3>2, <3>3, <3>4, Zenon DEF Publisher
  <2> QED BY <1>3, <2>1, <2>2, <2>3, <2>4, <2>5, <2>6, <2>7, <2>8, Zenon DEF AppStep, Relaunch
<1>4. CASE Deliver
  BY <1>1, <1>4, Zenon DEF Deliver
<1>5. CASE RestartServer
  BY <1>2, <1>5, Zenon DEF RestartServer
<1>6. CASE UNCHANGED vars
  BY <1>1, <1>6, Zenon DEF vars, appVars
<1> QED BY <1>3, <1>4, <1>5, <1>6, Zenon DEF Next

LEMMA PlainName ==
  ASSUME PlainNames, NEW name \in Names
  PROVE  /\ name = <<name[1]>> /\ name[1] \in STRING
         /\ name \o <<Place>> = <<name[1], Place>> /\ name \o <<Place>> \in Devs
<1>1. name \in Seq(STRING) /\ Len(name) = 1 /\ Place \in STRING
  BY AppAssumption DEF PlainNames
<1>2. name = <<name[1]>> /\ name[1] \in STRING
  BY <1>1
<1>3. <<name[1]>> \o <<Place>> = <<name[1], Place>>
  <2> DEFINE a == <<name[1]>>
             b == <<Place>>
  <2>1. a \in Seq(STRING) /\ b \in Seq(STRING) /\ Len(a) = 1 /\ Len(b) = 1
        /\ a[1] = name[1] /\ b[1] = Place
    BY <1>1, <1>2
  <2> HIDE DEF a, b
  <2>2. /\ a \o b \in Seq(STRING) /\ Len(a \o b) = Len(a) + Len(b)
        /\ \A i \in 1 .. Len(a) + Len(b) :
             (a \o b)[i] = IF i <= Len(a) THEN a[i] ELSE b[i - Len(a)]
    BY <2>1, ConcatProperties
  <2>3. Len(a \o b) = 2 /\ (a \o b)[1] = a[1] /\ (a \o b)[2] = b[1]
    BY <2>1, <2>2
  <2>4. a \o b = <<a[1], b[1]>>
    <3>1. \A s \in Seq(STRING) : Len(s) = 2 => s = <<s[1], s[2]>>
      OBVIOUS
    <3> QED BY <2>2, <2>3, <3>1
  <2> QED BY <2>1, <2>4 DEF a, b
<1> QED BY <1>2, <1>3 DEF Devs

\* Two plain entries with the same target are the same.
LEMMA SameTarget ==
  ASSUME NEW d \in Devs, NEW e \in Devs, NEW m, NEW n,
         Target(<<d[1]>>, d, m) = Target(<<e[1]>>, e, n)
  PROVE  d = e /\ m = n
<1>1. <<d[1]>> = <<e[1]>> /\ m = n
  BY DEF Target
<1>2. d = <<d[1], Place>> /\ e = <<e[1], Place>>
  BY DEF Devs
<1> QED BY <1>1, <1>2

\* What the steps of the UI thread keep: the lists are good, nothing more and nothing
\* less is told, and the threads that read the lists find in them what they found.
UiKeeps ==
  /\ GoodLists' /\ GoodUi' /\ Told' = Told
  /\ \/ Reading = {}
     \/ /\ \A i \in 1 .. Len(regDevices) :
             /\ i \in 1 .. Len(regDevices')
             /\ regDevices'[i] = regDevices[i] /\ regDevicesMac'[i] = regDevicesMac[i]
        /\ ui.at # "removeMac" => ui'.at # "removeMac"

LEMMA RegisterKeeps ==
  ASSUME RegistryIInv, GoodLists, Clean', NEW name \in Names, NEW mac \in Macs, Register(name, mac)
  PROVE  UiKeeps
<1>1. /\ ui = Idle /\ Aligned /\ regDevicesMac \in Seq(STRING) /\ Len(regDevicesMac) \in Nat
      /\ ui.at = "idle" /\ ui'.at = "addData" /\ ui'.name = name
      /\ Len(regDevices) = Len(regDevicesMac) /\ UNCHANGED <<regDevices, file>>
      /\ mac \in STRING
  BY AppAssumption DEF Register, UserActs, RegistryIInv, UiPlace, Lists, Idle, Aligned
<1>2. /\ \A i \in 1 .. Len(regDevices) : regDevicesMac'[i] = regDevicesMac[i]
      /\ regDevicesMac'[Len(regDevices) + 1] = mac
  BY <1>1, AppendProperties DEF Register
<1>3. \A i \in 1 .. Len(regDevices) : EntryAt(i)' = EntryAt(i)
  BY <1>1, <1>2 DEF EntryAt, EntryMac, Target
<1>4. Untold = {} /\ Untold' = {}
  BY <1>1 DEF Untold, Sending
<1>5. Told' = Told
  BY <1>1, <1>3, <1>4 DEF Told
<1>6. GoodLists'
  BY <1>1, <1>3 DEF GoodLists
<1>7. GoodUi'
  BY <1>1, <1>2 DEF GoodUi, Sending, Register, Clean
<1> QED BY <1>1, <1>2, <1>5, <1>6, <1>7 DEF UiKeeps

LEMMA ChooseKeeps ==
  ASSUME RegistryIInv, GoodLists, NEW i \in 1 .. MaxDevices, Tap(i) \/ ConfirmDelete(i)
  PROVE  UiKeeps
<1>1. /\ ui = Idle /\ ui.at = "idle" /\ ui'.at = "new" /\ ui'.index = i
      /\ ui'.id = <<regDevices[i][1]>> /\ ui'.action \in {"trig", "del"}
      /\ UNCHANGED <<regDevices, regDevicesMac, file>>
  BY DEF Tap, ConfirmDelete, UserActs, userVars, Idle
<1>2. \A j : EntryAt(j)' = EntryAt(j)
  BY <1>1 DEF EntryAt, EntryMac, Target
<1>3. Untold = {} /\ Untold' = {}
  BY <1>1 DEF Untold, Sending
<1>4. Told' = Told
  BY <1>1, <1>2, <1>3 DEF Told
<1>5. GoodLists'
  BY <1>1, <1>2 DEF GoodLists
<1>6. GoodUi'
  BY <1>1 DEF GoodUi, Sending
<1> QED BY <1>1, <1>4, <1>5, <1>6 DEF UiKeeps

LEMMA AddDataKeeps ==
  ASSUME PlainNames, RegistryIInv, GoodLists, GoodUi, AddData
  PROVE  UiKeeps
<1>0. PICK n : n = Len(regDevices)
  OBVIOUS
<1> DEFINE d == ui.name \o <<Place>>
<1>1. /\ regDevices \in Seq(Seq(STRING)) /\ n \in Nat /\ regDevicesMac \in Seq(STRING)
      /\ Len(regDevicesMac) = n + 1
      /\ ui.at = "addData" /\ ui'.at = "new" /\ ui'.index = n + 1 /\ ui.name \in Names
      /\ ui'.action = "reg" /\ ui'.id = ui.name
      /\ regDevices' = Append(regDevices, d) /\ UNCHANGED <<regDevicesMac, file>>
  BY <1>0 DEF AddData, RegistryIInv, UiPlace, Lists, Idle, MacsAhead, userVars
<1>2. /\ ui.name = <<ui.name[1]>> /\ d = <<ui.name[1], Place>> /\ d \in Devs /\ d \in Seq(STRING)
  <2>1. d = <<ui.name[1], Place>> /\ d \in Devs /\ ui.name = <<ui.name[1]>>
        /\ ui.name[1] \in STRING /\ Place \in STRING
    BY <1>1, PlainName, AppAssumption
  <2> QED BY <2>1
<1> HIDE DEF d
<1>3. /\ Len(regDevices') = n + 1
      /\ \A i \in 1 .. n : regDevices'[i] = regDevices[i]
      /\ regDevices'[n + 1] = d
  BY <1>0, <1>1, <1>2, AppendProperties
<1>4. \A i \in 1 .. n : EntryAt(i)' = EntryAt(i)
  BY <1>1, <1>3 DEF EntryAt, EntryMac, Target
<1>5. EntryAt(n + 1)' = Target(<<d[1]>>, d, regDevicesMac[n + 1])
  <2>1. EntryMac(n + 1)' = regDevicesMac[n + 1]
    BY <1>1 DEF EntryMac
  <2> QED BY <1>3, <2>1 DEF EntryAt, Target
<1>6. Untold = {} /\ Untold' = {n + 1}
  BY <1>0, <1>1, <1>3 DEF Untold, Sending
<1>7. Told' = Told
  <2>1. (1 .. n + 1) \ {n + 1} = 1 .. n
    BY <1>1
  <2> QED BY <1>0, <1>3, <1>4, <1>6, <2>1 DEF Told
<1>8. \A i \in 1 .. n + 1 : i \in 1 .. n \/ i = n + 1
  BY <1>1
<1>9. ASSUME NEW i \in 1 .. n PROVE EntryAt(i)' # EntryAt(n + 1)'
  <2>1. ~(regDevices[i] = d /\ regDevicesMac[i] = regDevicesMac[n + 1])
    BY <1>0, <1>1 DEF GoodUi, d
  <2>2. regDevices[i] \in Devs
    BY <1>0 DEF GoodLists
  <2>3. EntryAt(i) = Target(<<regDevices[i][1]>>, regDevices[i], regDevicesMac[i])
    BY <1>1 DEF EntryAt, EntryMac
  <2> QED BY <1>2, <1>4, <1>5, <2>1, <2>2, <2>3, SameTarget
<1>10. GoodLists'
  <2>1. \A i \in 1 .. n + 1 : regDevices'[i] \in Devs
    BY <1>0, <1>2, <1>3, <1>8 DEF GoodLists
  <2>2. \A i, j \in 1 .. n + 1 : EntryAt(i)' = EntryAt(j)' => i = j
    <3>1. \A i, j \in 1 .. n : EntryAt(i) = EntryAt(j) => i = j
      BY <1>0 DEF GoodLists
    <3>2. ASSUME NEW i \in 1 .. n + 1, NEW j \in 1 .. n + 1, EntryAt(i)' = EntryAt(j)'
          PROVE  i = j
      <4>1. CASE i \in 1 .. n /\ j \in 1 .. n
        BY <1>4, <3>1, <3>2, <4>1
      <4>2. CASE i \in 1 .. n /\ j = n + 1
        BY <1>9, <3>2, <4>2
      <4>3. CASE i = n + 1 /\ j \in 1 .. n
        BY <1>9, <3>2, <4>3
      <4> QED BY <1>8, <4>1, <4>2, <4>3
    <3> QED BY <3>2
  <2> QED BY <1>1, <1>3, <2>1, <2>2 DEF GoodLists
<1>11. GoodUi'
  <2>1. d[1] = ui.name[1]
    BY <1>2
  <2> QED BY <1>1, <1>2, <1>3, <2>1 DEF GoodUi, Sending
<1>12. \A i \in 1 .. n : i \in 1 .. n + 1
  BY <1>1
<1> QED BY <1>1, <1>3, <1>7, <1>10, <1>11, <1>12, <1>0 DEF UiKeeps

LEMMA SendingKeeps ==
  ASSUME RegistryIInv, GoodLists, GoodUi, SendMsgNew \/ SendMsgPutAction
  PROVE  UiKeeps
<1>1. /\ ui.at \in Sending /\ DOMAIN ui = {"at", "action", "id", "index"}
      /\ UNCHANGED <<regDevices, regDevicesMac, file>>
  BY DEF SendMsgNew, SendMsgPutAction, RegistryIInv, UiPlace, Sending, Idle, userVars
<1>2. ui'.at \in Sending /\ ui'.action = ui.action /\ ui'.id = ui.id /\ ui'.index = ui.index
  <2>1. PICK at \in {"putAction", "putTarget"} : ui' = [ui EXCEPT !.at = at]
    BY DEF SendMsgNew, SendMsgPutAction
  <2> QED BY <1>1, <2>1 DEF Sending
<1>3. \A j : EntryAt(j)' = EntryAt(j)
  <2>1. ui.at # "removeMac" /\ ui'.at # "removeMac"
    BY <1>1, <1>2 DEF Sending
  <2> QED BY <1>1, <2>1 DEF EntryAt, EntryMac, Target
<1>4. Untold' = Untold
  <2>1. ui.at # "removeData" /\ ui'.at # "removeData"
    BY <1>1, <1>2 DEF Sending
  <2> QED BY <1>1, <1>2, <2>1 DEF Untold
<1>5. Told' = Told
  BY <1>1, <1>3, <1>4 DEF Told
<1>6. GoodLists'
  BY <1>1, <1>3 DEF GoodLists
<1>7. GoodUi'
  BY <1>1, <1>2 DEF GoodUi, Sending
<1>8. ui'.at # "removeMac"
  BY <1>2 DEF Sending
<1> QED BY <1>1, <1>5, <1>6, <1>7, <1>8 DEF UiKeeps

\* removeData takes one entry out of the list of devices, then its MAC out of the
\* other: the entries that stay keep their MACs throughout.
LEMMA RemoveDeviceKeeps ==
  ASSUME RegistryIInv, GoodLists, Clean', RemoveDevice
  PROVE  UiKeeps
<1>0. PICK n, k : n = Len(regDevices) /\ k = ui.index
  OBVIOUS
<1>1. /\ regDevices \in Seq(Seq(STRING)) /\ n \in Nat /\ regDevicesMac \in Seq(STRING)
      /\ ui.at = "removeData" /\ DOMAIN ui = {"at", "index"} /\ k \in 1 .. n
      /\ regDevices' = RemoveAt(regDevices, k) /\ UNCHANGED <<regDevicesMac, file>>
  BY <1>0 DEF RemoveDevice, RegistryIInv, UiPlace, Lists, Idle
<1>2. ui'.at = "removeMac" /\ ui'.index = k
  BY <1>0, <1>1 DEF RemoveDevice
<1>3. Reading = {}
  BY Zenon DEF RemoveDevice, Clean
<1>4. /\ Len(regDevices') = n - 1
      /\ \A i \in 1 .. n - 1 : regDevices'[i] = IF i < k THEN regDevices[i] ELSE regDevices[i + 1]
  BY <1>0, <1>1, AnySeqOf, AnyRemoved
<1>5. ASSUME NEW i \in 1 .. n - 1
      PROVE  EntryAt(i)' = IF i < k THEN EntryAt(i) ELSE EntryAt(i + 1)
  <2>1. \A j : EntryMac(j) = regDevicesMac[j]
    BY <1>1 DEF EntryMac
  <2>2. EntryMac(i)' = IF i < k THEN regDevicesMac[i] ELSE regDevicesMac[i + 1]
    BY <1>1, <1>2 DEF EntryMac
  <2>3. CASE i < k
    BY <1>4, <2>1, <2>2, <2>3 DEF EntryAt, Target
  <2>4. CASE ~(i < k)
    BY <1>4, <2>1, <2>2, <2>4 DEF EntryAt, Target
  <2> QED BY <2>3, <2>4
<1>6. Untold = {k} /\ Untold' = {}
  BY <1>0, <1>1, <1>2 DEF Untold, Sending
<1>7. Told' = Told
  <2>1. Told = {EntryAt(i) : i \in (1 .. n) \ {k}}
    BY <1>0, <1>6 DEF Told
  <2>2. Told' = {EntryAt(i)' : i \in 1 .. n - 1}
    BY <1>4, <1>6 DEF Told
  <2>3. ASSUME NEW i \in 1 .. n - 1
        PROVE  \E j \in (1 .. n) \ {k} : EntryAt(i)' = EntryAt(j)
    <3>1. i \in (1 .. n) /\ i + 1 \in 1 .. n /\ (i < k => i # k) /\ (~(i < k) => i + 1 # k)
      BY <1>1
    <3> QED BY <1>5, <3>1
  <2>4. ASSUME NEW j \in (1 .. n) \ {k}
        PROVE  \E i \in 1 .. n - 1 : EntryAt(i)' = EntryAt(j)
    <3>1. CASE j < k
      <4>1. j \in 1 .. n - 1
        BY <1>1, <3>1
      <4> QED BY <1>5, <3>1, <4>1
    <3>2. CASE j > k
      <4>1. j - 1 \in 1 .. n - 1 /\ ~(j - 1 < k) /\ (j - 1) + 1 = j
        BY <1>1, <3>2
      <4> QED BY <1>5, <4>1
    <3> QED BY <1>1, <3>1, <3>2
  <2> QED BY <2>1, <2>2, <2>3, <2>4
<1>8. GoodLists'
  <2>1. \A i \in 1 .. n - 1 : i \in 1 .. n /\ i + 1 \in 1 .. n
    BY <1>1
  <2>2. \A i \in 1 .. n - 1 : regDevices'[i] \in Devs
    BY <1>0, <1>4, <2>1 DEF GoodLists
  <2>3. ASSUME NEW i \in 1 .. n - 1, NEW j \in 1 .. n - 1, EntryAt(i)' = EntryAt(j)'
        PROVE  i = j
    <3>1. \A a, b \in 1 .. n : EntryAt(a) = EntryAt(b) => a = b
      BY <1>0 DEF GoodLists
    <3>2. PICK a \in 1 .. n : a = (IF i < k THEN i ELSE i + 1) /\ EntryAt(i)' = EntryAt(a)
      BY <1>5, <2>1
    <3>3. PICK b \in 1 .. n : b = (IF j < k THEN j ELSE j + 1) /\ EntryAt(j)' = EntryAt(b)
      BY <1>5, <2>1
    <3>4. a = b
      BY <2>3, <3>1, <3>2, <3>3
    <3> QED BY <1>1, <3>2, <3>3, <3>4
  <2> QED BY <1>1, <1>4, <2>2, <2>3 DEF GoodLists
<1>9. GoodUi'
  BY <1>2 DEF GoodUi, Sending
<1> QED BY <1>3, <1>7, <1>8, <1>9 DEF UiKeeps

LEMMA RemoveMacKeeps ==
  ASSUME RegistryIInv, GoodLists, GoodThreads, RemoveMac
  PROVE  UiKeeps
<1>0. PICK n, k : n = Len(regDevices) /\ k = ui.index
  OBVIOUS
<1>1. /\ regDevices \in Seq(Seq(STRING)) /\ n \in Nat /\ regDevicesMac \in Seq(STRING)
      /\ Len(regDevicesMac) = n + 1
      /\ ui.at = "removeMac" /\ DOMAIN ui = {"at", "index"} /\ k \in 1 .. n + 1
      /\ regDevicesMac' = RemoveAt(regDevicesMac, k) /\ UNCHANGED <<regDevices, file>>
      /\ ui' = Idle /\ ui'.at = "idle"
  BY <1>0 DEF RemoveMac, RegistryIInv, UiPlace, Lists, Idle, MacsAhead, userVars
<1>2. Reading = {}
  BY <1>1 DEF Reading, GoodThreads, GoodThread, Reads
<1>3. \A i \in 1 .. n :
        regDevicesMac'[i] = IF i < k THEN regDevicesMac[i] ELSE regDevicesMac[i + 1]
  <2>1. AnySeq(regDevicesMac) /\ k \in 1 .. Len(regDevicesMac) /\ Len(regDevicesMac) - 1 = n
    BY <1>1, AnySeqOf
  <2> QED BY <1>1, <2>1, AnyRemoved
<1>4. ASSUME NEW i \in 1 .. n PROVE EntryAt(i)' = EntryAt(i)
  <2>1. EntryMac(i) = IF i < k THEN regDevicesMac[i] ELSE regDevicesMac[i + 1]
    BY <1>0, <1>1 DEF EntryMac
  <2>2. EntryMac(i)' = regDevicesMac'[i]
    BY <1>1 DEF EntryMac
  <2>3. EntryMac(i)' = EntryMac(i)
    BY <1>3, <2>1, <2>2
  <2> QED BY <1>1, <2>3 DEF EntryAt, Target
<1>5. Untold = {} /\ Untold' = {}
  BY <1>1 DEF Untold, Sending
<1>6. Told' = Told
  BY <1>0, <1>1, <1>4, <1>5 DEF Told
<1>7. GoodLists'
  BY <1>0, <1>1, <1>4 DEF GoodLists
<1>8. GoodUi'
  BY <1>1 DEF GoodUi, Sending
<1> QED BY <1>2, <1>6, <1>7, <1>8 DEF UiKeeps

LEMMA OnStopKeeps ==
  ASSUME RegistryIInv, GoodLists, OnStop
  PROVE  UiKeeps
<1>1. /\ ui = Idle /\ ui.at = "idle" /\ UNCHANGED <<regDevices, regDevicesMac, ui>>
      /\ Len(regDevices) \in Nat
      /\ file' = [i \in 1 .. Len(regDevices) |-> [dev |-> regDevices[i], mac |-> regDevicesMac[i]]]
  BY DEF OnStop, Idle, RegistryIInv, Lists
<1>2. \A j : EntryAt(j)' = EntryAt(j)
  BY <1>1 DEF EntryAt, EntryMac, Target
<1>3. Told' = Told
  <2>1. Untold' = Untold
    BY <1>1 DEF Untold
  <2> QED BY <1>1, <1>2, <2>1 DEF Told
<1>4. GoodLists'
  <2>1. /\ Len(file') = Len(regDevices)
        /\ \A i \in 1 .. Len(regDevices) : /\ file'[i].dev = regDevices[i]
                                           /\ file'[i].mac = regDevicesMac[i]
    BY <1>1
  <2>2. \A i : EntryAt(i) = Target(<<regDevices[i][1]>>, regDevices[i], regDevicesMac[i])
    BY <1>1 DEF EntryAt, EntryMac
  <2>3. ASSUME NEW i \in 1 .. Len(regDevices), NEW j \in 1 .. Len(regDevices),
               file'[i] = file'[j]
        PROVE  i = j
    <3>1. regDevices[i] = regDevices[j] /\ regDevicesMac[i] = regDevicesMac[j]
      BY <2>1, <2>3
    <3>2. EntryAt(i) = EntryAt(j)
      BY <2>2, <3>1
    <3> QED BY <3>2 DEF GoodLists
  <2>4. \A i \in 1 .. Len(regDevices) : file'[i].dev \in Devs
    BY <2>1 DEF GoodLists
  <2>5. /\ \A i \in 1 .. Len(regDevices) : regDevices'[i] \in Devs
        /\ \A i, j \in 1 .. Len(regDevices) : EntryAt(i)' = EntryAt(j)' => i = j
    BY <1>1, <1>2 DEF GoodLists
  <2> QED BY <1>1, <2>1, <2>3, <2>4, <2>5 DEF GoodLists
<1>5. GoodUi'
  BY <1>1 DEF GoodUi, Sending
<1> QED BY <1>1, <1>3, <1>4, <1>5 DEF UiKeeps

-------------------------------------------------------------------------------
(* The queue. *)

LEMMA Lengths ==
  ASSUME GoodThreads, GoodWires
  PROVE  /\ Len(net) \in Nat /\ Len(started) \in Nat /\ UnderWay \in Nat
         /\ UnderWay = Len(net) + Len(started)
         /\ DOMAIN started = 1 .. Len(started)
         /\ \A i \in 1 .. Len(started) : started[i] \in Running /\ started[i] \in Publishers
         /\ \A p \in Running : \E i \in 1 .. Len(started) : started[i] = p
         /\ \A i, j \in 1 .. Len(started) : started[i] = started[j] => i = j
<1>1. started \in Seq(Publishers) /\ Len(net) \in Nat
  BY ElementsOf DEF GoodThreads, GoodWires
<1>2. ToSet(started) = {started[i] : i \in 1 .. Len(started)} /\ DOMAIN started = 1 .. Len(started)
  BY <1>1, AnySeqOf, ElementsOf
<1>3. Len(started) \in Nat /\ \A i \in 1 .. Len(started) : started[i] \in Publishers
  BY <1>1
<1>4. \A i, j \in 1 .. Len(started) : started[i] = started[j] => i = j
  BY <1>2 DEF GoodThreads, IsInjective
<1> QED BY <1>1, <1>2, <1>3, <1>4 DEF GoodThreads, UnderWay

LEMMA InQueue ==
  ASSUME GoodThreads, GoodWires
  PROVE  /\ \A i \in 1 .. Len(net) : i \in 1 .. UnderWay /\ Pending[i] = OfMessage(net[i])
         /\ \A i \in 1 .. Len(started) : /\ Len(net) + i \in 1 .. UnderWay
                                         /\ Pending[Len(net) + i] = OfThread(started[i])
         /\ \A k \in 1 .. UnderWay : \/ k \in 1 .. Len(net)
                                     \/ \E i \in 1 .. Len(started) : k = Len(net) + i
<1>1. Len(net) \in Nat /\ Len(started) \in Nat /\ UnderWay = Len(net) + Len(started)
  BY Lengths
<1>2. ASSUME NEW i \in 1 .. Len(started)
      PROVE  /\ Len(net) + i \in 1 .. UnderWay /\ ~(Len(net) + i <= Len(net))
             /\ (Len(net) + i) - Len(net) = i
  BY <1>1
<1>3. ASSUME NEW i \in 1 .. Len(net) PROVE i \in 1 .. UnderWay /\ i <= Len(net)
  BY <1>1
<1>4. ASSUME NEW k \in 1 .. UnderWay, k \notin 1 .. Len(net)
      PROVE  k - Len(net) \in 1 .. Len(started) /\ k = Len(net) + (k - Len(net))
  BY <1>1, <1>4
<1> QED BY <1>2, <1>3, <1>4 DEF Pending

\* The same messages and threads, which say the same.
LEMMA SameQueue ==
  ASSUME GoodThreads, GoodWires, Agreement, UNCHANGED <<net, started>>,
         \A p \in Running : OfThread(p)' = OfThread(p) /\ thread'[p].topic = thread[p].topic,
         ToSet(serverDevices') \subseteq ToSet(serverDevices), Told' = Told,
         conn' = "up" /\ ~builtMsg'
           => conn = "up" /\ ~builtMsg /\ UNCHANGED serverDevices
  PROVE  Agreement'
<1> DEFINE q == Pending
<1>1. /\ UnderWay \in Nat /\ UnderWay' = UnderWay
      /\ \A i \in 1 .. Len(started) : started[i] \in Running
  BY Lengths DEF UnderWay
<1>2. \A m : OfMessage(m)' = OfMessage(m)
  BY DEF OfMessage
<1>3. Pending' = Pending
  <2>1. \A i \in 1 .. UnderWay : ~(i <= Len(net)) => started[i - Len(net)] \in Running
    BY <1>1, Lengths
  <2>2. ASSUME NEW i \in 1 .. UnderWay
        PROVE  (IF i <= Len(net) THEN OfMessage(net[i]) ELSE OfThread(started[i - Len(net)]))'
               = IF i <= Len(net) THEN OfMessage(net[i]) ELSE OfThread(started[i - Len(net)])
    <3>1. CASE i <= Len(net)
      BY <3>1 DEF OfMessage
    <3>2. CASE ~(i <= Len(net))
      <4>1. PICK p \in Running : p = started[i - Len(net)]
        BY <2>1, <3>2
      <4>2. OfThread(started[i - Len(net)])' = OfThread(p)'
        BY <4>1 DEF OfThread, Reads, TargetAt
      <4> QED BY <3>2, <4>1, <4>2
    <3> QED BY <3>1, <3>2
  <2> QED BY <1>1, <2>2 DEF Pending
<1>4. AtMost(Pending, UnderWay, ToSet(serverDevices), Told)
  BY DEF Agreement
<1>5. AtMost(Pending', UnderWay', ToSet(serverDevices'), Told')
  BY <1>1, <1>3, <1>4, AtMostSame
<1>6. ASSUME conn' = "up", ~builtMsg' PROVE \E c \in 0 .. UnderWay' : Announced(c)'
  <2>1. conn = "up" /\ ~builtMsg /\ serverDevices' = serverDevices
    BY <1>6
  <2>2. PICK c \in 0 .. UnderWay : Announced(c)
    BY <2>1 DEF Agreement
  <2>3. AtLeast(Pending', UnderWay', ToSet(serverDevices'), Told', c)
    BY <1>1, <1>3, <2>1, <2>2 DEF Announced
  <2>4. ASSUME NEW i \in 1 .. Len(started'), Len(net') + i <= c
        PROVE  thread'[started'[i]].topic = "arc"
    BY <1>1, <2>2, <2>4 DEF Announced
  <2> QED BY <1>1, <2>3, <2>4 DEF Announced
<1> QED BY <1>5, <1>6 DEF Agreement

\* The publishers do not notice what the UI thread does.
LEMMA SameThreads ==
  ASSUME GoodThreads, UiKeeps, UNCHANGED <<thread, started, conn, builtMsg>>
  PROVE  /\ GoodThreads' /\ Running' = Running
         /\ \A p \in Running : OfThread(p)' = OfThread(p) /\ thread'[p].topic = thread[p].topic
<1>1. Running' = Running
  BY DEF Running
<1>2. ASSUME NEW p \in Running PROVE GoodThread(p)' /\ OfThread(p)' = OfThread(p)
  <2>0. GoodThread(p) /\ Reads(p)' = Reads(p)
    BY DEF GoodThreads, Reads
  <2>1. CASE Reads(p)
    <3>1. p \in Reading
      BY <2>1 DEF Reading, Reads
    <3>2. PICK i \in 1 .. Len(regDevices) : i = thread[p].index
      BY <2>0, <2>1 DEF GoodThread
    <3>3. /\ i \in 1 .. Len(regDevices') /\ regDevices'[i] = regDevices[i]
          /\ regDevicesMac'[i] = regDevicesMac[i]
          /\ ui.at # "removeMac" => ui'.at # "removeMac"
      BY <3>1, <3>2 DEF UiKeeps
    <3>4. TargetAt(i)' = TargetAt(i)
      BY <3>3 DEF TargetAt, Target
    <3>5. TargetAt(thread[p].index)' = TargetAt(i)'
      BY <3>2 DEF TargetAt
    <3>6. OfThread(p)' = OfThread(p)
      BY <2>0, <2>1, <3>2, <3>4, <3>5 DEF OfThread
    <3>7. GoodThread(p)'
      BY <2>0, <2>1, <3>2, <3>3 DEF GoodThread, Reads
    <3> QED BY <3>6, <3>7
  <2>2. CASE ~Reads(p)
    BY <2>0, <2>2 DEF OfThread, GoodThread, Reads
  <2> QED BY <2>1, <2>2
<1>3. GoodThreads'
  BY <1>1, <1>2 DEF GoodThreads
<1> QED BY <1>1, <1>2, <1>3

LEMMA UiKeepsGood ==
  ASSUME Good, UiKeeps,
         UNCHANGED <<thread, started, conn, builtMsg, net, serverDevices>>
  PROVE  Good'
<1>1. GoodThreads' /\ \A p \in Running : OfThread(p)' = OfThread(p) /\ thread'[p].topic = thread[p].topic
  BY SameThreads DEF Good
<1>2. GoodWires'
  BY DEF Good, GoodWires
<1>3. Agreement'
  <2>1. ToSet(serverDevices') \subseteq ToSet(serverDevices) /\ Told' = Told
    BY DEF UiKeeps
  <2> QED BY <1>1, <2>1, SameQueue DEF Good
<1> QED BY <1>1, <1>2, <1>3 DEF Good, UiKeeps

\* GoodLists, GoodUi and Told depend on nothing else.
LEMMA SameLists ==
  ASSUME UNCHANGED <<regDevices, regDevicesMac, ui, file>>
  PROVE  /\ GoodLists' <=> GoodLists
         /\ GoodUi' <=> GoodUi
         /\ Told' = Told
         /\ \A i : TargetAt(i)' = TargetAt(i)
<1>1. \A i : EntryAt(i)' = EntryAt(i) /\ TargetAt(i)' = TargetAt(i)
  BY DEF EntryAt, EntryMac, TargetAt, Target
<1>2. Untold' = Untold
  BY DEF Untold
<1>3. Told' = Told
  BY <1>1, <1>2 DEF Told
<1>4. GoodLists' <=> GoodLists
  BY <1>1 DEF GoodLists
<1>5. GoodUi' <=> GoodUi
  BY DEF GoodUi
<1> QED BY <1>1, <1>3, <1>4, <1>5

\* One publisher goes on to its next step and still means the same.
LEMMA ThreadGoesOn ==
  ASSUME Good, NEW p \in Running, NEW t, t # NoThread, GoOn(p, t),
         UNCHANGED <<regDevices, regDevicesMac, ui, file, conn, builtMsg, net, serverDevices>>,
         t.topic = thread[p].topic, GoodThread(p)', OfThread(p)' = OfThread(p)
  PROVE  Good'
<1>1. /\ DOMAIN thread = Publishers /\ p \in Publishers /\ UNCHANGED started
      /\ thread' = [thread EXCEPT ![p] = t]
  BY DEF Good, GoodThreads, GoOn, Running
<1>2. DOMAIN thread' = Publishers /\ thread'[p] = t /\ \A r \in Publishers \ {p} : thread'[r] = thread[r]
  BY <1>1
<1>3. Running' = Running
  BY <1>2 DEF Running
<1>4. \A i : TargetAt(i)' = TargetAt(i)
  BY SameLists
<1>5. ASSUME NEW r \in Running
      PROVE  /\ GoodThread(r)' /\ OfThread(r)' = OfThread(r)
             /\ thread'[r].topic = thread[r].topic
  <2>1. CASE r = p
    BY <1>2, <2>1
  <2>2. CASE r # p
    <3>1. thread'[r] = thread[r]
      BY <1>2, <2>2 DEF Running
    <3>2. GoodThread(r)
      BY DEF Good, GoodThreads
    <3>3. GoodThread(r)'
      BY <3>1, <3>2 DEF GoodThread, Reads
    <3>4. OfThread(r)' = OfThread(r)
      <4>1. PICK i : i = thread[r].index
        OBVIOUS
      <4>2. TargetAt(thread[r].index)' = TargetAt(i)' /\ TargetAt(thread[r].index) = TargetAt(i)
        BY <3>1, <4>1 DEF TargetAt
      <4> QED BY <1>4, <3>1, <4>2 DEF OfThread, Reads
    <3> QED BY <3>1, <3>3, <3>4
  <2> QED BY <2>1, <2>2
<1>6. GoodThreads'
  BY <1>1, <1>2, <1>3, <1>5 DEF Good, GoodThreads
<1>7. GoodWires' /\ GoodLists' /\ GoodUi'
  BY SameLists DEF Good, GoodWires
<1>8. Agreement'
  <2>1. ToSet(serverDevices') \subseteq ToSet(serverDevices) /\ Told' = Told
    BY SameLists
  <2> QED BY <1>1, <1>5, <2>1, SameQueue DEF Good
<1> QED BY <1>6, <1>7, <1>8 DEF Good

LEMMA GetDeviceKeeps ==
  ASSUME Good, RegistryIInv, NEW p \in Publishers, GetDevice(p), UNCHANGED serverDevices
  PROVE  Good'
<1>1. /\ p \in Running /\ Reads(p) /\ GoodThread(p)
      /\ UNCHANGED <<regDevices, regDevicesMac, ui, file, conn, builtMsg, net>>
  BY DEF GetDevice, Running, NoThread, Reads, Good, GoodThreads, threadVars
<1>2. PICK i \in 1 .. Len(regDevices) : i = thread[p].index
  BY <1>1 DEF GoodThread
<1>3. PICK t : t = [at |-> "getMac", topic |-> "init", index |-> i, device |-> regDevices[i]]
  OBVIOUS
<1>4. GoOn(p, t) /\ thread[p].topic = "init"
  <2>1. i <= Len(regDevices) /\ thread[p].topic = "init"
    BY <1>1, <1>2 DEF GoodThread, Reads, RegistryIInv, Lists
  <2> QED BY <1>2, <1>3, <2>1 DEF GetDevice
<1>5. t # NoThread
  BY <1>3 DEF NoThread
<1>6. thread'[p] = t
  BY <1>4 DEF GoOn, Good, GoodThreads
<1>7. GoodThread(p)'
  BY <1>1, <1>2, <1>3, <1>6 DEF GoodThread, Reads
<1>8. OfThread(p)' = OfThread(p)
  <2>1. TargetAt(i)' = TargetAt(i) /\ TargetAt(thread[p].index)' = TargetAt(i)'
    BY <1>1, <1>2, <1>3, <1>6, SameLists DEF TargetAt
  <2> QED BY <1>1, <1>2, <1>3, <1>4, <1>6, <2>1 DEF OfThread, Reads
<1> QED BY <1>1, <1>3, <1>4, <1>5, <1>7, <1>8, ThreadGoesOn

LEMMA GetMacKeeps ==
  ASSUME Good, RegistryIInv, NEW p \in Publishers, GetMac(p), UNCHANGED serverDevices
  PROVE  Good'
<1>1. /\ p \in Running /\ Reads(p) /\ GoodThread(p) /\ thread[p].at = "getMac"
      /\ UNCHANGED <<regDevices, regDevicesMac, ui, file, conn, builtMsg, net>>
  BY DEF GetMac, Running, NoThread, Reads, Good, GoodThreads, threadVars
<1>2. PICK i \in 1 .. Len(regDevices) : i = thread[p].index
  BY <1>1 DEF GoodThread
<1>3. PICK t : t = [at |-> "put", topic |-> "init",
                    meant |-> [action |-> NoAction, target |-> TargetAt(i)]]
  OBVIOUS
<1>4. GoOn(p, t) /\ thread[p].topic = "init"
  <2>1. thread[p].topic = "init" /\ thread[p].device = regDevices[i]
    BY <1>1, <1>2 DEF GoodThread, Reads
  <2>2. i <= Len(regDevicesMac)
    BY <1>2 DEF RegistryIInv, Lists, UiPlace, Aligned, MacsAhead
  <2> QED BY <1>2, <1>3, <2>1, <2>2 DEF GetMac, TargetAt
<1>5. t # NoThread
  BY <1>3 DEF NoThread
<1>6. thread'[p] = t
  BY <1>4 DEF GoOn, Good, GoodThreads
<1>7. GoodThread(p)'
  BY <1>3, <1>6 DEF GoodThread, Reads
<1>8. OfThread(p)' = OfThread(p)
  <2>1. ~Reads(p)'
    BY <1>3, <1>6 DEF Reads
  <2> QED BY <1>1, <1>2, <1>3, <1>4, <1>6, <2>1 DEF OfThread
<1> QED BY <1>1, <1>3, <1>4, <1>5, <1>7, <1>8, ThreadGoesOn

LEMMA PutTargetKeeps ==
  ASSUME Good, NEW p \in Publishers, PutTarget(p), UNCHANGED serverDevices
  PROVE  Good'
<1>1. /\ p \in Running /\ ~Reads(p) /\ GoodThread(p) /\ thread[p].at = "put"
      /\ UNCHANGED <<regDevices, regDevicesMac, ui, file, conn, builtMsg, net>>
  BY DEF PutTarget, Running, NoThread, Reads, Good, GoodThreads, threadVars
<1>2. PICK t : t = [at |-> "text", topic |-> thread[p].topic, meant |-> thread[p].meant]
  OBVIOUS
<1>3. GoOn(p, t)
  BY <1>2 DEF PutTarget
<1>4. t # NoThread
  BY <1>2 DEF NoThread
<1>5. thread'[p] = t
  BY <1>3 DEF GoOn, Good, GoodThreads
<1>6. GoodThread(p)'
  BY <1>1, <1>2, <1>5 DEF GoodThread, Reads
<1>7. OfThread(p)' = OfThread(p)
  BY <1>1, <1>2, <1>5 DEF OfThread, Reads
<1> QED BY <1>1, <1>2, <1>3, <1>4, <1>6, <1>7, ThreadGoesOn

\* While nothing has raced, the text is what the publisher means.
LEMMA ToTextKeeps ==
  ASSUME Good, Clean', NEW p \in Publishers, ToText(p), UNCHANGED serverDevices
  PROVE  Good'
<1>1. /\ p \in Running /\ ~Reads(p) /\ GoodThread(p) /\ thread[p].at = "text"
      /\ UNCHANGED <<regDevices, regDevicesMac, ui, file, conn, builtMsg, net>>
  BY DEF ToText, Running, NoThread, Reads, Good, GoodThreads, threadVars
<1>2. PICK t : t = [at |-> "publish", topic |-> thread[p].topic, meant |-> thread[p].meant,
                    text |-> payload]
  OBVIOUS
<1>3. GoOn(p, t)
  BY <1>2 DEF ToText
<1>4. t # NoThread
  BY <1>2 DEF NoThread
<1>5. thread'[p] = t
  BY <1>3 DEF GoOn, Good, GoodThreads
<1>6. payload = thread[p].meant
  BY Zenon DEF ToText, Mixed, Clean
<1>7. GoodThread(p)'
  BY <1>1, <1>2, <1>5, <1>6 DEF GoodThread, Reads
<1>8. OfThread(p)' = OfThread(p)
  BY <1>1, <1>2, <1>5 DEF OfThread, Reads
<1> QED BY <1>1, <1>2, <1>3, <1>4, <1>7, <1>8, ThreadGoesOn

\* u is v and the n elements of s, which are not in v.
Joins(P, v, n, s, u) ==
  /\ v \in Seq(P) /\ IsInjective(v)
  /\ n \in Nat /\ s \in [1 .. n -> P \ ToSet(v)] /\ IsInjective(s)
  /\ u = v \o s

LEMMA Joined ==
  ASSUME NEW P, NEW v, NEW n, NEW s, NEW u, Joins(P, v, n, s, u)
  PROVE  /\ u \in Seq(P) /\ IsInjective(u) /\ Len(u) = Len(v) + n
         /\ ToSet(u) = ToSet(v) \cup ToSet(s)
         /\ \A i \in 1 .. Len(v) : u[i] = v[i]
         /\ \A j \in 1 .. n : u[Len(v) + j] = s[j]
<1> USE DEF Joins
<1>0. PICK l : l = Len(v)
  OBVIOUS
<1>1. /\ \A j \in 1 .. n : s[j] \in P /\ s[j] \notin ToSet(v)
      /\ \A i, j \in 1 .. n : s[i] = s[j] => i = j
  BY DEF IsInjective
<1>2. s \in Seq(P) /\ Len(s) = n
  BY <1>1
<1>3. AnySeq(v) /\ ToSet(v) = {v[i] : i \in 1 .. l} /\ DOMAIN v = 1 .. l /\ l \in Nat
  BY <1>0, AnySeqOf, ElementsOf
<1>4. \A i, j \in 1 .. l : v[i] = v[j] => i = j
  BY <1>3 DEF IsInjective
<1>5. /\ u \in Seq(P) /\ Len(u) = l + n
      /\ \A i \in 1 .. l + n : u[i] = IF i <= l THEN v[i] ELSE s[i - l]
  <2>1. /\ v \o s \in Seq(P) /\ Len(v \o s) = Len(v) + Len(s)
        /\ \A i \in 1 .. Len(v) + Len(s) : (v \o s)[i] = IF i <= Len(v) THEN v[i] ELSE s[i - Len(v)]
    BY <1>2, ConcatProperties
  <2> QED BY <1>0, <1>2, <2>1
<1>6. AnySeq(u) /\ ToSet(u) = {u[i] : i \in 1 .. l + n} /\ DOMAIN u = 1 .. l + n
  <2>1. AnySeq(u)
    BY <1>5, AnySeqOf
  <2>2. ToSet(u) = {u[i] : i \in 1 .. Len(u)} /\ DOMAIN u = 1 .. Len(u)
    BY ONLY <2>1, ElementsOf, Zenon
  <2>3. Len(u) = l + n
    BY <1>5
  <2> QED BY <2>1, <2>2, <2>3
<1>7. \A i \in 1 .. l : i \in 1 .. l + n /\ u[i] = v[i] /\ v[i] \in ToSet(v)
  <2>1. \A i \in 1 .. l : i \in 1 .. l + n /\ i <= l
    BY <1>3
  <2> QED BY <1>3, <1>5, <2>1
<1>8. \A j \in 1 .. n : l + j \in 1 .. l + n /\ u[l + j] = s[j]
  <2>1. \A j \in 1 .. n : l + j \in 1 .. l + n /\ ~(l + j <= l) /\ (l + j) - l = j
    BY <1>3
  <2> QED BY <1>5, <2>1
<1>9. \A k \in 1 .. l + n : k \in 1 .. l \/ \E j \in 1 .. n : k = l + j
  <2>1. ASSUME NEW k \in 1 .. l + n, k \notin 1 .. l PROVE k - l \in 1 .. n /\ k = l + (k - l)
    BY <1>3, <2>1
  <2> QED BY <2>1
<1>10. IsInjective(u)
  <2>1. ASSUME NEW i \in 1 .. l + n, NEW j \in 1 .. l + n, u[i] = u[j] PROVE i = j
    <3>1. CASE i \in 1 .. l /\ j \in 1 .. l
      BY <1>4, <1>7, <2>1, <3>1
    <3>2. ASSUME NEW a \in 1 .. n, NEW b \in 1 .. n, i = l + a, j = l + b PROVE i = j
      BY <1>1, <1>8, <2>1, <3>2
    <3>3. ASSUME i \in 1 .. l, NEW b \in 1 .. n, j = l + b PROVE FALSE
      BY <1>1, <1>7, <1>8, <2>1, <3>3
    <3>4. ASSUME j \in 1 .. l, NEW a \in 1 .. n, i = l + a PROVE FALSE
      BY <1>1, <1>7, <1>8, <2>1, <3>4
    <3> QED BY <1>9, <3>1, <3>2, <3>3, <3>4
  <2> QED BY <1>6, <2>1 DEF IsInjective
<1>11. ToSet(u) = ToSet(v) \cup {s[j] : j \in 1 .. n}
  <2>1. ASSUME NEW k \in 1 .. l + n PROVE u[k] \in ToSet(v) \cup {s[j] : j \in 1 .. n}
    <3>1. CASE k \in 1 .. l
      BY <1>7, <3>1
    <3>2. ASSUME NEW j \in 1 .. n, k = l + j PROVE u[k] \in ToSet(v) \cup {s[i] : i \in 1 .. n}
      BY <1>8, <3>2
    <3> QED BY <1>9, <3>1, <3>2
  <2>2. \A i \in 1 .. l : v[i] \in {u[k] : k \in 1 .. l + n}
    BY <1>7
  <2>3. \A j \in 1 .. n : s[j] \in {u[k] : k \in 1 .. l + n}
    BY <1>8
  <2>4. ToSet(v) = {v[i] : i \in 1 .. l}
    BY <1>3
  <2>5. ToSet(u) \subseteq ToSet(v) \cup {s[j] : j \in 1 .. n}
    BY <1>6, <2>1
  <2>6. ToSet(v) \subseteq ToSet(u)
    BY <1>6, <2>2, <2>4
  <2>7. {s[j] : j \in 1 .. n} \subseteq ToSet(u)
    BY <1>6, <2>3
  <2> QED BY <2>5, <2>6, <2>7
<1>12. ToSet(s) = {s[j] : j \in 1 .. n}
  BY <1>2, AnySeqOf, ElementsOf
<1> QED BY <1>0, <1>5, <1>7, <1>8, <1>10, <1>11, <1>12

\* New threads are last in the queue, in the order of their start.
LEMMA ThreadsStart ==
  ASSUME GoodThreads, GoodWires, NEW n \in Nat, NEW s \in Free(n), started' = started \o s,
         DOMAIN thread' = Publishers,
         \A p \in Publishers : (\A j \in 1 .. n : p # s[j]) => thread'[p] = thread[p],
         \A j \in 1 .. n : thread'[s[j]] # NoThread,
         UNCHANGED <<regDevices, regDevicesMac, net>>
  PROVE  /\ started' \in Seq(Publishers) /\ IsInjective(started') /\ ToSet(started') = Running'
         /\ Len(started') = Len(started) + n
         /\ \A i \in 1 .. Len(started) : started'[i] = started[i]
         /\ \A j \in 1 .. n : started'[Len(started) + j] = s[j]
         /\ \A p \in Running : p \in Running' /\ thread'[p] = thread[p]
         /\ \A p \in Running' : p \in Running \/ \E j \in 1 .. n : p = s[j]
         /\ UnderWay' = UnderWay + n
         /\ \A i \in 1 .. UnderWay : Pending'[i] = Pending[i]
         /\ \A j \in 1 .. n : Pending'[UnderWay + j] = OfThread(s[j])'
<1>0. PICK l, w : l = Len(started) /\ w = UnderWay
  OBVIOUS
<1>1. /\ s \in [1 .. n -> Publishers \ Running] /\ IsInjective(s)
      /\ \A j \in 1 .. n : s[j] \in Publishers /\ s[j] \notin Running
      /\ \A i, j \in 1 .. n : s[i] = s[j] => i = j
  BY DEF Free, IsInjective
<1>3. l \in Nat /\ Len(net) \in Nat /\ w = Len(net) + l /\ w \in Nat
      /\ \A i \in 1 .. l : started[i] \in Running
  BY <1>0, Lengths
<1>4. /\ started' \in Seq(Publishers) /\ IsInjective(started') /\ Len(started') = l + n
      /\ ToSet(started') = Running \cup {s[j] : j \in 1 .. n}
      /\ ToSet(s) = {s[j] : j \in 1 .. n}
      /\ \A i \in 1 .. l : started'[i] = started[i]
      /\ \A j \in 1 .. n : started'[l + j] = s[j]
  <2>1. started \in Seq(Publishers) /\ IsInjective(started) /\ ToSet(started) = Running
    BY DEF GoodThreads
  <2>2. Joins(Publishers, started, n, s, started')
    BY <1>1, <2>1 DEF Joins
  <2>3. /\ started' \in Seq(Publishers) /\ IsInjective(started')
        /\ Len(started') = Len(started) + n
        /\ ToSet(started') = ToSet(started) \cup ToSet(s)
        /\ \A i \in 1 .. Len(started) : started'[i] = started[i]
        /\ \A j \in 1 .. n : started'[Len(started) + j] = s[j]
    BY ONLY <2>2, Joined
  <2>4. ToSet(s) = {s[j] : j \in 1 .. n}
    <3>1. AnySeq(s) /\ Len(s) = n
      BY <1>1 DEF AnySeq
    <3> QED BY <3>1, ElementsOf
  <2> QED BY <1>0, <2>1, <2>3, <2>4
<1>8. /\ \A p \in Running : p \in Running' /\ thread'[p] = thread[p]
      /\ \A j \in 1 .. n : s[j] \in Running'
      /\ \A p \in Running' : p \in Running \/ \E j \in 1 .. n : p = s[j]
  BY <1>1 DEF Running
<1>9. ToSet(started') = Running'
  BY <1>4, <1>8
<1>10. UnderWay' = w + n
  BY <1>3, <1>4 DEF UnderWay
<1>11. ASSUME NEW i \in 1 .. w PROVE Pending'[i] = Pending[i]
  <2>1. i \in 1 .. w + n
    BY <1>3
  <2>2. CASE i <= Len(net)
    BY <1>0, <1>10, <2>1, <2>2 DEF Pending, OfMessage
  <2>3. CASE ~(i <= Len(net))
    <3>1. i - Len(net) \in 1 .. l
      BY <1>3, <2>3
    <3>2. PICK p \in Running : p = started[i - Len(net)] /\ p = started'[i - Len(net)]
      BY <1>3, <1>4, <3>1
    <3>3. thread'[p] = thread[p]
      BY <1>8
    <3>4. OfThread(p)' = OfThread(p)
      <4>1. PICK k : k = thread[p].index
        OBVIOUS
      <4>2. TargetAt(k)' = TargetAt(k) /\ TargetAt(thread[p].index)' = TargetAt(k)'
        BY <3>3, <4>1 DEF TargetAt, Target
      <4> QED BY <3>3, <4>1, <4>2 DEF OfThread, Reads
    <3>5. Pending'[i] = OfThread(started[i - Len(net)])'
      BY <1>10, <2>1, <2>3 DEF Pending
    <3>6. OfThread(started[i - Len(net)])' = OfThread(p)'
      BY <3>2 DEF OfThread, Reads, TargetAt
    <3> QED BY <1>0, <2>3, <3>2, <3>4, <3>5, <3>6 DEF Pending
  <2> QED BY <2>2, <2>3
<1>12. ASSUME NEW j \in 1 .. n PROVE Pending'[w + j] = OfThread(s[j])'
  <2>1. w + j \in 1 .. w + n /\ ~(w + j <= Len(net)) /\ (w + j) - Len(net) = l + j
    BY <1>3
  <2>2. started'[(w + j) - Len(net)] = s[j]
    BY <1>4, <2>1
  <2>3. Pending'[w + j] = OfThread(started[(w + j) - Len(net)])'
    <3>1. PICK k : k = w + j
      OBVIOUS
    <3>2. k \in 1 .. w + n /\ ~(k <= Len(net))
      BY <2>1, <3>1
    <3>3. Pending'[k] = OfThread(started[k - Len(net)])'
      BY <1>10, <3>2 DEF Pending
    <3> QED BY <3>1, <3>3
  <2>4. OfThread(started[(w + j) - Len(net)])' = OfThread(s[j])'
    BY <2>2 DEF OfThread, Reads, TargetAt
  <2> QED BY <2>3, <2>4
<1> QED BY <1>0, <1>4, <1>8, <1>9, <1>10, <1>11, <1>12

\* sendMsg starts its publisher: a registration of what is not told yet, a deletion
\* of what is told.
LEMMA SendMsgPutTargetKeeps ==
  ASSUME RegistryIInv, Good, SendMsgPutTarget, UNCHANGED serverDevices
  PROVE  Good'
<1>0. PICK k, w, l : k = ui.index /\ w = UnderWay /\ l = Len(started)
  OBVIOUS
<1>1. PICK s \in Free(1) :
        /\ thread' = [thread EXCEPT ![s[1]] = [at |-> "text", topic |-> "arc", meant |-> Meant(ui)]]
        /\ started' = started \o s
  BY DEF SendMsgPutTarget
<1>2. PICK m, t : m = Meant(ui) /\ t = [at |-> "text", topic |-> "arc", meant |-> m]
  OBVIOUS
<1>3. PICK r : r = s[1]
  OBVIOUS
<1>4. /\ ui.at = "putTarget" /\ k \in 1 .. Len(regDevices)
      /\ UNCHANGED <<regDevices, regDevicesMac, conn, builtMsg, net, file>>
      /\ ui.action \in {"reg", "trig", "del"}
      /\ m.action = ui.action /\ m.target = TargetAt(k) /\ TargetAt(k) = EntryAt(k)
  <2>1. ui.at = "putTarget" /\ k \in 1 .. Len(regDevices)
        /\ UNCHANGED <<regDevices, regDevicesMac, conn, builtMsg, net, file>>
    BY <1>0 DEF SendMsgPutTarget, RegistryIInv, UiPlace, Idle, userVars
  <2>2. ui.id = <<regDevices[k][1]>> /\ ui.action \in {"reg", "trig", "del"}
    BY <1>0, <2>1 DEF Good, GoodUi, Sending
  <2>3. m.action = ui.action /\ m.target = TargetAt(k) /\ TargetAt(k) = EntryAt(k)
    BY <1>0, <1>2, <2>1, <2>2 DEF Meant, TargetAt, EntryAt, EntryMac
  <2> QED BY <2>1, <2>2, <2>3
<1>5. /\ ui'.at # "removeMac" /\ ui'.at \notin Sending /\ ui'.at # "addData"
      /\ ui.action = "del" => ui'.at = "removeData" /\ ui'.index = k
      /\ ui.action # "del" => ui'.at = "idle"
  BY <1>0 DEF SendMsgPutTarget, Idle, Sending
<1>6. \A i : EntryAt(i)' = EntryAt(i)
  BY <1>4, <1>5 DEF EntryAt, EntryMac, Target
<1>7. \A i, j \in 1 .. Len(regDevices) : EntryAt(i) = EntryAt(j) => i = j
  BY DEF Good, GoodLists
<1>8. /\ ui.action = "reg" => Untold = {k} /\ Untold' = {}
      /\ ui.action = "trig" => Untold = {} /\ Untold' = {}
      /\ ui.action = "del" => Untold = {} /\ Untold' = {k}
  BY <1>0, <1>4, <1>5 DEF Untold, Sending
<1>9. Told' = {EntryAt(i) : i \in (1 .. Len(regDevices)) \ Untold'}
  BY <1>4, <1>6 DEF Told
<1>10. /\ ui.action = "reg" => m.target \notin Told /\ Told' = Told \cup {m.target}
       /\ ui.action = "trig" => Told' = Told
       /\ ui.action = "del" => m.target \in Told /\ Told' = Told \ {m.target}
  <2>0. /\ \A i \in 1 .. Len(regDevices) : i # k => EntryAt(i) # m.target
        /\ EntryAt(k) = m.target /\ k \in 1 .. Len(regDevices)
    BY <1>4, <1>7
  <2>1. Told = {EntryAt(i) : i \in (1 .. Len(regDevices)) \ Untold}
    BY DEF Told
  <2>2. CASE ui.action = "reg"
    BY <1>8, <1>9, <2>0, <2>1, <2>2
  <2>3. CASE ui.action = "trig"
    BY <1>8, <1>9, <2>0, <2>1, <2>3
  <2>4. CASE ui.action = "del"
    BY <1>8, <1>9, <2>0, <2>1, <2>4
  <2> QED BY <1>4, <2>2, <2>3, <2>4
<1>11. GoodThreads /\ GoodWires /\ r \in Publishers \ Running /\ DOMAIN thread = Publishers
  BY <1>3 DEF Good, GoodThreads, Free
<1>12. /\ DOMAIN thread' = Publishers /\ thread'[r] = t
       /\ \A p \in Publishers : p # r => thread'[p] = thread[p]
  BY <1>1, <1>2, <1>3, <1>11
<1>13. /\ started' \in Seq(Publishers) /\ IsInjective(started') /\ ToSet(started') = Running'
       /\ Len(started') = l + 1
       /\ \A i \in 1 .. l : started'[i] = started[i]
       /\ started'[l + 1] = r
       /\ \A p \in Running : p \in Running' /\ thread'[p] = thread[p]
       /\ \A p \in Running' : p \in Running \/ p = r
       /\ UnderWay' = w + 1
       /\ \A i \in 1 .. w : Pending'[i] = Pending[i]
       /\ Pending'[w + 1] = OfThread(r)'
  <2>1. t # NoThread
    BY <1>2 DEF NoThread
  <2>2. /\ \A p \in Publishers : (\A j \in 1 .. 1 : p # s[j]) => thread'[p] = thread[p]
        /\ \A j \in 1 .. 1 : thread'[s[j]] # NoThread
        /\ 1 \in Nat /\ 1 \in 1 .. 1 /\ \A j \in 1 .. 1 : j = 1
    BY <1>3, <1>12, <2>1
  <2>3. /\ started' \in Seq(Publishers) /\ IsInjective(started') /\ ToSet(started') = Running'
        /\ Len(started') = Len(started) + 1
        /\ \A i \in 1 .. Len(started) : started'[i] = started[i]
        /\ \A j \in 1 .. 1 : started'[Len(started) + j] = s[j]
        /\ \A p \in Running : p \in Running' /\ thread'[p] = thread[p]
        /\ \A p \in Running' : p \in Running \/ \E j \in 1 .. 1 : p = s[j]
        /\ UnderWay' = UnderWay + 1
        /\ \A i \in 1 .. UnderWay : Pending'[i] = Pending[i]
        /\ \A j \in 1 .. 1 : Pending'[UnderWay + j] = OfThread(s[j])'
    <3>1. /\ GoodThreads /\ GoodWires /\ started' = started \o s /\ s \in Free(1)
          /\ DOMAIN thread' = Publishers /\ UNCHANGED <<regDevices, regDevicesMac, net>>
      BY <1>1, <1>4, <1>11, <1>12
    <3> QED BY ONLY <2>2, <3>1, ThreadsStart
  <2>4. OfThread(s[1])' = OfThread(r)'
    BY <1>3 DEF OfThread, Reads, TargetAt
  <2> QED BY <1>0, <1>3, <2>2, <2>3, <2>4
<1>14. OfThread(r)' = [kind |-> ui.action, target |-> m.target]
  BY <1>2, <1>4, <1>12 DEF OfThread, Reads
<1>15. GoodThreads'
  <2>1. GoodThread(r)'
    BY <1>2, <1>4, <1>12 DEF GoodThread, Reads
  <2>2. ASSUME NEW p \in Running PROVE GoodThread(p)'
    <3>1. GoodThread(p) /\ thread'[p] = thread[p]
      BY <1>13 DEF Good, GoodThreads
    <3> QED BY <1>4, <1>5, <3>1 DEF GoodThread, Reads
  <2>3. thread'[r].topic = "arc"
    BY <1>2, <1>12
  <2> QED BY <1>4, <1>12, <1>13, <2>1, <2>2, <2>3 DEF Good, GoodThreads
<1>16. GoodWires' /\ GoodLists' /\ GoodUi'
  <2>1. GoodWires' /\ GoodLists'
    BY <1>4, <1>6 DEF Good, GoodWires, GoodLists
  <2>2. GoodUi'
    BY <1>5 DEF GoodUi
  <2> QED BY <2>1, <2>2
<1>17. w \in Nat /\ Len(net) \in Nat /\ l \in Nat /\ w = Len(net) + l
  BY <1>0, <1>11, Lengths
<1>18. /\ Pending'[w + 1].kind = ui.action /\ Pending'[w + 1].target = m.target
       /\ \A x : Adds(Pending', w + 1, x) <=> ui.action = "reg" /\ x = m.target
       /\ \A x : Removes(Pending', w + 1, x) <=> ui.action = "del" /\ x = m.target
  <2>1. Pending'[w + 1].kind = ui.action /\ Pending'[w + 1].target = m.target
    BY <1>13, <1>14
  <2> QED BY <1>4, <2>1 DEF Adds, Removes
<1>19. AtMost(Pending', w + 1, ToSet(serverDevices), Told')
  <2>1. AtMost(Pending, w, ToSet(serverDevices), Told)
    BY <1>0 DEF Good, Agreement
  <2>2. /\ Pending'[w + 1].kind = "reg" => Pending'[w + 1].target \notin Told
        /\ \A x : Adds(Pending', w + 1, x) => x \in Told'
        /\ \A x \in Told : Removes(Pending', w + 1, x) \/ x \in Told'
    BY <1>4, <1>10, <1>18
  <2> QED BY <1>13, <1>17, <2>1, <2>2, AtMostAppended
<1>20. ASSUME conn = "up", ~builtMsg PROVE \E c \in 0 .. w + 1 : Announced(c)'
  <2>1. PICK c \in 0 .. w : Announced(c)
    BY <1>0, <1>20 DEF Good, Agreement
  <2>2. /\ Pending'[w + 1].kind = "del" => Pending'[w + 1].target \in Told
        /\ \A x \in Told' : Adds(Pending', w + 1, x) \/ (~Removes(Pending', w + 1, x) /\ x \in Told)
    BY <1>4, <1>10, <1>18
  <2>3. AtLeast(Pending', w + 1, ToSet(serverDevices), Told', c)
    <3>1. w \in Nat /\ AtLeast(Pending, w, ToSet(serverDevices), Told, c)
          /\ \A i \in 1 .. w : Pending'[i] = Pending[i]
      BY <1>0, <1>13, <1>17, <2>1 DEF Announced
    <3> QED BY ONLY c \in 0 .. w, <2>2, <3>1, AtLeastAppended
  <2>4. ASSUME NEW i \in 1 .. l + 1, Len(net) + i <= c PROVE thread'[started'[i]].topic = "arc"
    <3>1. i \in 1 .. l /\ started'[i] = started[i] /\ started[i] \in Running
      BY <1>0, <1>11, <1>13, <1>17, <2>4, Lengths
    <3> QED BY <1>0, <1>13, <2>1, <2>4, <3>1 DEF Announced
  <2>5. c \in 0 .. w + 1
    BY <1>17
  <2> QED BY <1>4, <1>13, <2>3, <2>4, <2>5 DEF Announced
<1>21. Agreement'
  BY <1>4, <1>13, <1>19, <1>20 DEF Agreement
<1> QED BY <1>15, <1>16, <1>21 DEF Good

\* The stored devices are sent: each of them is announced behind all that is under way.
LEMMA SendStoredDevicesKeeps ==
  ASSUME RegistryIInv, Good, SendStoredDevices, UNCHANGED serverDevices
  PROVE  Good'
<1>0. PICK n, w, l : n = Len(regDevices) /\ w = UnderWay /\ l = Len(started)
  OBVIOUS
<1>1. PICK s \in Free(n) :
        /\ thread' = [p \in Publishers |->
                        IF p \in ToSet(s)
                        THEN [at |-> "getDevice", topic |-> "init",
                              index |-> CHOOSE i \in DOMAIN s : s[i] = p]
                        ELSE thread[p]]
        /\ started' = started \o s
  BY <1>0 DEF SendStoredDevices
<1>2. /\ ui = Idle /\ ui.at = "idle" /\ builtMsg /\ ~builtMsg' /\ n \in Nat
      /\ UNCHANGED <<regDevices, regDevicesMac, ui, file, conn, net>>
      /\ GoodThreads /\ GoodWires /\ conn # "connecting"
      /\ \A p \in Running : thread[p].topic = "arc"
  BY <1>0 DEF SendStoredDevices, RegistryIInv, Lists, Idle, Good, GoodThreads
<1>3. /\ s \in [1 .. n -> Publishers] /\ DOMAIN s = 1 .. n /\ Len(s) = n
      /\ \A i, j \in 1 .. n : s[i] = s[j] => i = j
      /\ ToSet(s) = {s[j] : j \in 1 .. n}
  <2>1. s \in [1 .. n -> Publishers \ Running] /\ IsInjective(s)
    BY DEF Free
  <2>2. s \in [1 .. n -> Publishers] /\ DOMAIN s = 1 .. n /\ Len(s) = n /\ s \in Seq(Publishers)
    BY <1>2, <2>1
  <2>3. AnySeq(s)
    BY <2>2, AnySeqOf
  <2> QED BY <2>1, <2>2, <2>3, ElementsOf DEF IsInjective
<1>4. ASSUME NEW j \in 1 .. n
      PROVE  thread'[s[j]] = [at |-> "getDevice", topic |-> "init", index |-> j]
  <2>1. (CHOOSE i \in DOMAIN s : s[i] = s[j]) = j
    BY <1>3
  <2>2. s[j] \in Publishers /\ s[j] \in ToSet(s)
    BY <1>3
  <2> QED BY <1>1, <2>1, <2>2
<1>5. /\ DOMAIN thread' = Publishers
      /\ \A p \in Publishers : (\A j \in 1 .. n : p # s[j]) => thread'[p] = thread[p]
  BY <1>1, <1>3
<1>6. /\ started' \in Seq(Publishers) /\ IsInjective(started') /\ ToSet(started') = Running'
      /\ Len(started') = l + n
      /\ \A i \in 1 .. l : started'[i] = started[i]
      /\ \A p \in Running : p \in Running' /\ thread'[p] = thread[p]
      /\ \A p \in Running' : p \in Running \/ \E j \in 1 .. n : p = s[j]
      /\ UnderWay' = w + n
      /\ \A i \in 1 .. w : Pending'[i] = Pending[i]
      /\ \A j \in 1 .. n : Pending'[w + j] = OfThread(s[j])'
  <2>1. ASSUME NEW j \in 1 .. n PROVE thread'[s[j]] # NoThread
    <3>1. [at |-> "getDevice", topic |-> "init", index |-> j] # NoThread
      BY DEF NoThread
    <3> QED BY <1>4, <3>1
  <2>2. /\ GoodThreads /\ GoodWires /\ started' = started \o s /\ n \in Nat /\ s \in Free(n)
        /\ UNCHANGED <<regDevices, regDevicesMac, net>>
    BY <1>1, <1>2
  <2>3. /\ started' \in Seq(Publishers) /\ IsInjective(started') /\ ToSet(started') = Running'
        /\ Len(started') = Len(started) + n
        /\ \A i \in 1 .. Len(started) : started'[i] = started[i]
        /\ \A p \in Running : p \in Running' /\ thread'[p] = thread[p]
        /\ \A p \in Running' : p \in Running \/ \E j \in 1 .. n : p = s[j]
        /\ UnderWay' = UnderWay + n
        /\ \A i \in 1 .. UnderWay : Pending'[i] = Pending[i]
        /\ \A j \in 1 .. n : Pending'[UnderWay + j] = OfThread(s[j])'
    BY ONLY <1>5, <2>1, <2>2, ThreadsStart
  <2> QED BY <1>0, <2>3
<1>7. ASSUME NEW j \in 1 .. n
      PROVE  Pending'[w + j] = [kind |-> "init", target |-> TargetAt(j)]
  <2>1. PICK r : r = s[j]
    OBVIOUS
  <2>2. thread'[r] = [at |-> "getDevice", topic |-> "init", index |-> j]
    BY <1>4, <2>1
  <2>3. TargetAt(thread[r].index)' = TargetAt(j)
    BY <1>2, <2>2 DEF TargetAt, Target
  <2>4. OfThread(r)' = [kind |-> "init", target |-> TargetAt(j)]
    BY <2>2, <2>3 DEF OfThread, Reads
  <2>5. OfThread(s[j])' = OfThread(r)'
    BY <2>1 DEF OfThread, Reads, TargetAt
  <2> QED BY <1>6, <2>4, <2>5
<1>8. Told = {TargetAt(i) : i \in 1 .. n}
  <2>1. \A i : EntryAt(i) = TargetAt(i)
    BY <1>2 DEF EntryAt, EntryMac, TargetAt
  <2>2. Untold = {}
    BY <1>2 DEF Untold, Sending
  <2> QED BY <1>0, <2>1, <2>2 DEF Told
<1>9. w \in Nat /\ l \in Nat /\ Len(net) \in Nat /\ w = Len(net) + l
      /\ \A i \in 1 .. l : started[i] \in Running
  BY <1>0, <1>2, Lengths
<1>10. GoodThreads'
  <2>1. ASSUME NEW p \in Running PROVE GoodThread(p)'
    <3>1. GoodThread(p) /\ thread'[p] = thread[p]
      BY <1>2, <1>6 DEF GoodThreads
    <3> QED BY <1>2, <3>1 DEF GoodThread, Reads
  <2>2. ASSUME NEW j \in 1 .. n PROVE GoodThread(s[j])'
    <3>1. PICK r : r = s[j]
      OBVIOUS
    <3>2. thread'[r] = [at |-> "getDevice", topic |-> "init", index |-> j]
      BY <1>4, <3>1
    <3>3. GoodThread(r)'
      BY <1>0, <1>2, <3>2 DEF GoodThread, Reads
    <3> QED BY <3>1, <3>3
  <2> QED BY <1>2, <1>5, <1>6, <2>1, <2>2 DEF GoodThreads
<1>11. GoodWires' /\ GoodLists' /\ GoodUi' /\ Told' = Told
  BY <1>2, SameLists DEF Good, GoodWires
<1>12. /\ AtMost(Pending', w + n, ToSet(serverDevices), Told)
       /\ AtLeast(Pending', w + n, ToSet(serverDevices), Told, w)
  <2>1. AtMost(Pending, w, ToSet(serverDevices), Told)
    BY <1>0 DEF Good, Agreement
  <2>2. ASSUME NEW i \in w + 1 .. w + n
        PROVE  Pending'[i].kind = "init" /\ Pending'[i].target \in Told
    <3>1. i - w \in 1 .. n /\ w + (i - w) = i
      BY <1>2, <1>9
    <3>2. Pending'[w + (i - w)] = [kind |-> "init", target |-> TargetAt(i - w)]
      BY <1>7, <3>1
    <3> QED BY <1>8, <3>1, <3>2
  <2>3. ASSUME NEW x \in Told PROVE \E i \in w + 1 .. w + n : Pending'[i].target = x
    <3>1. PICK j \in 1 .. n : x = TargetAt(j)
      BY <1>8
    <3>2. w + j \in w + 1 .. w + n
      BY <1>2, <1>9
    <3>3. PICK i \in w + 1 .. w + n : i = w + j
      BY <3>2
    <3>4. Pending'[w + j] = [kind |-> "init", target |-> x]
      BY <1>7, <3>1
    <3>5. Pending'[i].target = x
      BY <3>3, <3>4
    <3> QED BY <3>5
  <2>4. w \in Nat /\ w + n \in Nat /\ w <= w + n /\ \A i \in 1 .. w : Pending'[i] = Pending[i]
    <3>1. w \in Nat /\ n \in Nat
      BY <1>2, <1>9
    <3>2. w + n \in Nat /\ w <= w + n
      BY ONLY <3>1
    <3>3. \A i \in 1 .. w : Pending'[i] = Pending[i]
      BY ONLY <1>6
    <3> QED BY ONLY <3>1, <3>2, <3>3
  <2> QED BY ONLY <2>1, <2>2, <2>3, <2>4, AllAnnounced
<1>13. Announced(w)'
  <2>1. ASSUME NEW i \in 1 .. l + n, Len(net) + i <= w PROVE thread'[started'[i]].topic = "arc"
    <3>1. i \in 1 .. l
      BY <1>2, <1>9, <2>1
    <3> QED BY <1>2, <1>6, <1>9, <3>1
  <2>2. AtLeast(Pending', UnderWay', ToSet(serverDevices'), Told', w)
    BY <1>6, <1>11, <1>12
  <2> QED BY <1>2, <1>6, <2>1, <2>2 DEF Announced
<1>14. Agreement'
  <2>1. AtMost(Pending', UnderWay', ToSet(serverDevices'), Told')
    BY <1>6, <1>11, <1>12
  <2>2. w \in 0 .. UnderWay'
    BY <1>2, <1>6, <1>9
  <2> QED BY <1>13, <2>1, <2>2 DEF Agreement
<1> QED BY <1>10, <1>11, <1>14 DEF Good

\* A thread that ends leaves its place in the queue.
LEMMA ThreadFinishes ==
  ASSUME GoodThreads, GoodWires, NEW j \in 1 .. Len(started), NEW p, p = started[j], Finish(p),
         UNCHANGED <<regDevices, regDevicesMac>>
  PROVE  /\ started' \in Seq(Publishers) /\ IsInjective(started') /\ ToSet(started') = Running'
         /\ Len(started') = Len(started) - 1
         /\ \A i \in 1 .. Len(started) - 1 :
              started'[i] = IF i < j THEN started[i] ELSE started[i + 1]
         /\ DOMAIN thread' = Publishers /\ Running' = Running \ {p}
         /\ \A r \in Running \ {p} : thread'[r] = thread[r] /\ OfThread(r)' = OfThread(r)
<1>1. /\ started \in Seq(Publishers) /\ IsInjective(started) /\ ToSet(started) = Running
      /\ DOMAIN thread = Publishers /\ p \in Publishers
  BY Lengths DEF GoodThreads
<1>2. AnySeq(started)
  BY <1>1, AnySeqOf
<1>3. started' = RemoveAt(started, j)
  <2>1. started' = RemoveFirst(started, started[j])
    BY DEF Finish
  <2> QED BY <1>1, <1>2, <2>1, RemovedFirst
<1>4. started' \in Seq(Publishers)
  BY <1>1, <1>3, RemovedIsSeq
<1>5. /\ Len(started') = Len(started) - 1
      /\ \A i \in 1 .. Len(started) - 1 :
           started'[i] = IF i < j THEN started[i] ELSE started[i + 1]
  BY <1>2, <1>3, AnyRemoved
<1>6. IsInjective(started') /\ ToSet(started') = Running \ {p}
  BY <1>1, <1>2, <1>3, RemovedElement
<1>7. /\ DOMAIN thread' = Publishers /\ thread'[p] = NoThread
      /\ \A r \in Publishers \ {p} : thread'[r] = thread[r]
  BY <1>1 DEF Finish
<1>8. Running' = Running \ {p}
  BY <1>7 DEF Running
<1>9. ASSUME NEW r \in Running \ {p} PROVE thread'[r] = thread[r] /\ OfThread(r)' = OfThread(r)
  <2>1. thread'[r] = thread[r]
    BY <1>7 DEF Running
  <2>2. PICK i : i = thread[r].index
    OBVIOUS
  <2>3. TargetAt(i)' = TargetAt(i) /\ TargetAt(thread[r].index)' = TargetAt(i)'
    BY <2>1, <2>2 DEF TargetAt, Target
  <2> QED BY <2>1, <2>2, <2>3 DEF OfThread, Reads
<1> QED BY <1>4, <1>5, <1>6, <1>7, <1>8, <1>9

\* The queue once the j-th thread has published: its message is where the first thread
\* was, and the threads before it have moved up.
LEMMA QueueAfterPublish ==
  ASSUME GoodThreads, GoodWires, NEW j \in 1 .. Len(started), NEW p, p = started[j], Finish(p),
         UNCHANGED <<regDevices, regDevicesMac>>,
         NEW m, net' = Append(net, m), OfMessage(m) = OfThread(p)
  PROVE  /\ UnderWay' = UnderWay
         /\ \A k \in 1 .. Len(net) : Pending'[k] = Pending[k]
         /\ Pending'[Len(net) + 1] = OfThread(p)
         /\ \A i \in 1 .. j - 1 : Pending'[Len(net) + 1 + i] = Pending[Len(net) + i]
         /\ \A k \in Len(net) + j + 1 .. UnderWay : Pending'[k] = Pending[k]
<1>0. PICK a, l, w : a = Len(net) /\ l = Len(started) /\ w = UnderWay
  OBVIOUS
<1>1. /\ a \in Nat /\ l \in Nat /\ w = a + l /\ j \in 1 .. l
      /\ \A i \in 1 .. l : started[i] \in Running
      /\ \A i \in 1 .. l : i # j => started[i] # p
  BY <1>0, Lengths
<1>2. Len(net') = a + 1 /\ net'[a + 1] = m /\ \A i \in 1 .. a : net'[i] = net[i]
  BY <1>0, AnyAppend DEF GoodWires
<1>3. /\ Len(started') = l - 1
      /\ \A i \in 1 .. l - 1 : started'[i] = IF i < j THEN started[i] ELSE started[i + 1]
      /\ \A r \in Running \ {p} : OfThread(r)' = OfThread(r)
  BY <1>0, ThreadFinishes
<1>4. UnderWay' = w
  BY <1>1, <1>2, <1>3 DEF UnderWay
<1>5. /\ \A i \in 1 .. a : Pending[i] = OfMessage(net[i])
      /\ \A i \in 1 .. l : Pending[a + i] = OfThread(started[i])
  BY <1>0, InQueue
<1>6. \A k \in 1 .. w :
        Pending'[k] = IF k <= a + 1 THEN OfMessage(net'[k])
                                    ELSE OfThread(started[k - (a + 1)])'
  <2>1. \A x : OfMessage(x)' = OfMessage(x)
    BY DEF OfMessage
  <2>2. Pending' = [k \in 1 .. w |-> IF k <= a + 1 THEN OfMessage(net'[k])
                                     ELSE OfThread(started[k - Len(net)])']
    <3>1. Pending' = [k \in 1 .. w |-> IF k <= Len(net') THEN OfMessage(net[k])'
                                       ELSE OfThread(started[k - Len(net)])']
      BY <1>4 DEF Pending
    <3>2. \A k : OfMessage(net[k])' = OfMessage(net'[k])
      BY DEF OfMessage
    <3> QED BY <1>2, <3>1, <3>2
  <2>3. ASSUME NEW k PROVE OfThread(started[k - Len(net)])' = OfThread(started[k - (a + 1)])'
    BY <1>2 DEF OfThread, Reads, TargetAt
  <2> QED BY <2>2, <2>3
<1>7. ASSUME NEW k \in a + 2 .. w, NEW i \in 1 .. l, i # j, started'[k - (a + 1)] = started[i]
      PROVE  Pending'[k] = Pending[a + i]
  <2>1. k \in 1 .. w /\ ~(k <= a + 1)
    BY <1>1
  <2>2. PICK r \in Running \ {p} : r = started[i]
    BY <1>1, <1>7
  <2>3. OfThread(started[k - (a + 1)])' = OfThread(r)'
    BY <1>7, <2>2 DEF OfThread, Reads, TargetAt
  <2> QED BY <1>3, <1>5, <1>6, <2>1, <2>2, <2>3
<1>8. ASSUME NEW i \in 1 .. j - 1 PROVE Pending'[a + 1 + i] = Pending[a + i]
  <2>1. PICK k : k = a + 1 + i
    OBVIOUS
  <2>2. k \in a + 2 .. w /\ k - (a + 1) = i /\ i \in 1 .. l - 1 /\ i \in 1 .. l /\ i < j /\ i # j
    BY <1>1, <2>1
  <2>3. started'[k - (a + 1)] = started[i]
    BY <1>3, <2>2
  <2> QED BY <1>7, <2>1, <2>2, <2>3
<1>9. ASSUME NEW k \in a + j + 1 .. w PROVE Pending'[k] = Pending[k]
  <2>1. PICK i : i = k - a
    OBVIOUS
  <2>2. /\ k \in a + 2 .. w /\ i \in 1 .. l /\ i # j /\ k - (a + 1) = i - 1 /\ i - 1 \in 1 .. l - 1
        /\ ~(i - 1 < j) /\ (i - 1) + 1 = i /\ a + i = k
    BY <1>1, <2>1
  <2>3. started'[k - (a + 1)] = started[i]
    BY <1>3, <2>2
  <2> QED BY <1>7, <2>2, <2>3
<1>10. \A k \in 1 .. a : Pending'[k] = Pending[k]
  <2>1. \A k \in 1 .. a : k \in 1 .. w /\ k <= a + 1
    BY <1>1
  <2> QED BY <1>2, <1>5, <1>6, <2>1
<1>11. Pending'[a + 1] = OfThread(p)
  <2>1. a + 1 \in 1 .. w /\ a + 1 <= a + 1
    BY <1>1
  <2> QED BY <1>2, <1>6, <2>1
<1> QED BY <1>0, <1>4, <1>8, <1>9, <1>10, <1>11

\* A message goes out.  Behind others, it and they are init messages, or it has overtaken.
LEMMA PublishSentKeeps ==
  ASSUME RegistryIInv, Good, Clean', NEW p \in Publishers, Publish(p), UNCHANGED serverDevices,
         conn = "up" /\ inflight < MaxInflight
  PROVE  Good'
<1>1. PICK m : /\ m = [topic |-> thread[p].topic, text |-> thread[p].text, meant |-> thread[p].meant]
               /\ net' = Append(net, m)
  BY DEF Publish
<1>2. /\ thread[p].at = "publish" /\ Finish(p) /\ p \in Running
      /\ UNCHANGED <<regDevices, regDevicesMac, ui, file, conn, builtMsg>>
      /\ GoodThreads /\ GoodWires
  BY DEF Publish, threadVars, Running, NoThread, Good
<1>3. /\ GoodThread(p) /\ ~Reads(p) /\ thread[p].text = thread[p].meant
      /\ thread[p].topic \in {"arc", "init"}
  BY <1>2 DEF GoodThreads, GoodThread, Reads
<1>4. OfMessage(m) = OfThread(p)
  BY <1>1, <1>3 DEF OfMessage, OfThread
<1>5. PICK a, l, w : a = Len(net) /\ l = Len(started) /\ w = UnderWay
  OBVIOUS
<1>6. /\ a \in Nat /\ l \in Nat /\ w \in Nat /\ w = a + l
      /\ \A i \in 1 .. l : started[i] \in Running
  BY <1>2, <1>5, Lengths
<1>7. PICK j \in 1 .. l : started[j] = p
  BY <1>2, <1>5, Lengths
<1>8. /\ UnderWay' = w
      /\ \A k \in 1 .. a : Pending'[k] = Pending[k]
      /\ Pending'[a + 1] = OfThread(p)
      /\ \A i \in 1 .. j - 1 : Pending'[a + 1 + i] = Pending[a + i]
      /\ \A k \in a + j + 1 .. w : Pending'[k] = Pending[k]
  <2>1. /\ GoodThreads /\ GoodWires /\ j \in 1 .. Len(started) /\ p = started[j] /\ Finish(p)
        /\ UNCHANGED <<regDevices, regDevicesMac>> /\ net' = Append(net, m)
        /\ OfMessage(m) = OfThread(p)
    BY <1>1, <1>2, <1>4, <1>5, <1>7
  <2>2. /\ UnderWay' = UnderWay
        /\ \A k \in 1 .. Len(net) : Pending'[k] = Pending[k]
        /\ Pending'[Len(net) + 1] = OfThread(p)
        /\ \A i \in 1 .. j - 1 : Pending'[Len(net) + 1 + i] = Pending[Len(net) + i]
        /\ \A k \in Len(net) + j + 1 .. UnderWay : Pending'[k] = Pending[k]
    BY ONLY <2>1, QueueAfterPublish
  <2> QED BY <1>5, <2>2
<1>9. /\ started' \in Seq(Publishers) /\ IsInjective(started') /\ ToSet(started') = Running'
      /\ Len(started') = l - 1
      /\ \A i \in 1 .. l - 1 : started'[i] = IF i < j THEN started[i] ELSE started[i + 1]
      /\ DOMAIN thread' = Publishers /\ Running' = Running \ {p}
      /\ \A r \in Running \ {p} : thread'[r] = thread[r]
  <2>1. /\ GoodThreads /\ GoodWires /\ j \in 1 .. Len(started) /\ p = started[j] /\ Finish(p)
        /\ UNCHANGED <<regDevices, regDevicesMac>>
    BY <1>2, <1>5, <1>7
  <2>2. /\ started' \in Seq(Publishers) /\ IsInjective(started') /\ ToSet(started') = Running'
        /\ Len(started') = Len(started) - 1
        /\ \A i \in 1 .. Len(started) - 1 :
             started'[i] = IF i < j THEN started[i] ELSE started[i + 1]
        /\ DOMAIN thread' = Publishers /\ Running' = Running \ {p}
        /\ \A r \in Running \ {p} : thread'[r] = thread[r]
    BY ONLY <2>1, ThreadFinishes
  <2> QED BY <1>5, <2>2
<1>10. GoodThreads'
  <2>1. ASSUME NEW r \in Running' PROVE GoodThread(r)'
    <3>1. thread'[r] = thread[r] /\ GoodThread(r)
      BY <1>2, <1>9 DEF GoodThreads
    <3> QED BY <1>2, <3>1 DEF GoodThread, Reads
  <2> QED BY <1>2, <1>9, <2>1 DEF GoodThreads
<1>11. GoodLists' /\ GoodUi' /\ Told' = Told
  BY <1>2, SameLists DEF Good
<1>12. GoodWires'
  <2>1. /\ AnySeq(net') /\ Len(net') = a + 1 /\ net'[a + 1] = m
        /\ \A i \in 1 .. a : net'[i] = net[i]
        /\ \A i \in 1 .. a + 1 : i \in 1 .. a \/ i = a + 1
    BY <1>1, <1>2, <1>5, <1>6, AnyAppend DEF GoodWires
  <2>2. m.topic = "init" \/ (m.topic = "arc" /\ m.text.action \in {"reg", "trig", "del"})
    BY <1>1, <1>3 DEF GoodThread
  <2> QED BY <1>2, <1>5, <2>1, <2>2 DEF GoodWires
<1>13. /\ \A i \in 1 .. a : Pending[i] = OfMessage(net[i])
       /\ \A i \in 1 .. l : a + i \in 1 .. w /\ Pending[a + i] = OfThread(started[i])
  BY <1>2, <1>5, InQueue
<1>14. \A i \in 1 .. l : i < j => thread[p].topic = "init" /\ thread[started[i]].topic = "init"
  <2>1. ~Overtakes(p)
    BY Zenon DEF Publish, Clean
  <2>2. ASSUME NEW i \in 1 .. l, i < j
        PROVE  "arc" \notin {thread[p].topic, thread[started[i]].topic}
    BY <1>5, <1>7, <2>1, <2>2 DEF Overtakes
  <2>3. \A r \in Running : thread[r].topic \in {"arc", "init"}
    BY <1>2 DEF GoodThreads, GoodThread
  <2> QED BY <1>2, <1>6, <2>2, <2>3
<1>15. \A i \in 1 .. j : i \in 1 .. l /\ (j # 1 => Pending[a + i].kind = "init")
  <2>1. ASSUME NEW i \in 1 .. j, j # 1 PROVE thread[started[i]].topic = "init"
    <3>1. 1 \in 1 .. l /\ 1 < j /\ i \in 1 .. l
      BY <1>6, <2>1
    <3> QED BY <1>7, <1>14, <3>1
  <2>2. \A i \in 1 .. j : i \in 1 .. l
    BY <1>6
  <2>3. ASSUME NEW i \in 1 .. j, j # 1 PROVE Pending[a + i].kind = "init"
    <3>1. OfThread(started[i]).kind = "init"
      BY <2>1, <2>3 DEF OfThread
    <3> QED BY <1>13, <2>2, <3>1
  <2> QED BY <2>2, <2>3
<1>16. AtMost(Pending', w, ToSet(serverDevices), Told)
       /\ (~builtMsg => \E c \in 0 .. w : /\ AtLeast(Pending', w, ToSet(serverDevices), Told, c)
                                         /\ \A i \in 1 .. l - 1 : a + 1 + i <= c =>
                                              thread'[started'[i]].topic = "arc")
  <2>1. AtMost(Pending, w, ToSet(serverDevices), Told)
    BY <1>5 DEF Good, Agreement
  <2>2. ASSUME ~builtMsg
        PROVE  \E c \in 0 .. w : /\ AtLeast(Pending, w, ToSet(serverDevices), Told, c)
                                 /\ \A i \in 1 .. l : a + i <= c => thread[started[i]].topic = "arc"
    BY <1>5, <2>2 DEF Good, Agreement, Announced
  <2>3. \A i \in 1 .. l - 1 : i >= j => /\ started'[i] = started[i + 1] /\ i + 1 \in 1 .. l
                                        /\ thread'[started'[i]] = thread[started[i + 1]]
    <3>1. ASSUME NEW i \in 1 .. l - 1, i >= j
          PROVE  started'[i] = started[i + 1] /\ i + 1 \in 1 .. l /\ i + 1 # j
      BY <1>6, <1>9, <3>1
    <3>2. \A i \in 1 .. l : i # j => started[i] # p
      BY <1>2, <1>5, <1>7, Lengths
    <3> QED BY <1>6, <1>9, <3>1, <3>2
  <2>4. CASE j = 1
    <3>1. ASSUME NEW k \in 1 .. w PROVE Pending'[k] = Pending[k]
      <4>1. k \in 1 .. a \/ k = a + 1 \/ k \in a + j + 1 .. w
        BY <1>6, <2>4
      <4>2. Pending'[a + 1] = Pending[a + 1]
        BY <1>7, <1>8, <1>13, <2>4
      <4> QED BY <1>8, <4>1, <4>2
    <3>2. AtMost(Pending', w, ToSet(serverDevices), Told)
      BY ONLY <1>6, <2>1, <3>1, AtMostSame
    <3>3. ASSUME ~builtMsg
          PROVE  \E c \in 0 .. w : /\ AtLeast(Pending', w, ToSet(serverDevices), Told, c)
                                   /\ \A i \in 1 .. l - 1 : a + 1 + i <= c =>
                                        thread'[started'[i]].topic = "arc"
      <4>1. PICK c \in 0 .. w : /\ AtLeast(Pending, w, ToSet(serverDevices), Told, c)
                                /\ \A i \in 1 .. l : a + i <= c => thread[started[i]].topic = "arc"
        BY <2>2, <3>3
      <4>2. AtLeast(Pending', w, ToSet(serverDevices), Told, c)
        BY ONLY <1>6, c \in 0 .. w, <3>1, <4>1, AtLeastSame
      <4>3. ASSUME NEW i \in 1 .. l - 1, a + 1 + i <= c PROVE thread'[started'[i]].topic = "arc"
        <5>1. i >= j /\ a + (i + 1) <= c
          BY <1>6, <2>4, <4>3
        <5> QED BY <2>3, <4>1, <5>1
      <4> QED BY <4>2, <4>3
    <3> QED BY <3>2, <3>3
  <2>5. CASE j # 1
    <3>1. a + 1 \in 1 .. w /\ a + j \in a + 1 .. w /\ a < a + 1
      BY <1>6
    <3>2. ASSUME NEW k \in a + 1 .. a + j
          PROVE  /\ Pending[k].kind = "init" /\ Pending'[k].kind = "init"
                 /\ \E h \in a + 1 .. a + j : Pending'[k].target = Pending[h].target
                 /\ \E h \in a + 1 .. a + j : Pending[k].target = Pending'[h].target
      <4>1. PICK i : i = k - a
        OBVIOUS
      <4>2. i \in 1 .. j /\ k = a + i
        BY <1>6, <4>1
      <4>3. Pending[k].kind = "init"
        BY <1>15, <2>5, <4>2
      <4>4. Pending'[a + 1] = Pending[a + j] /\ 1 \in 1 .. j /\ j \in 1 .. j
            /\ a + 1 \in a + 1 .. a + j /\ a + j \in a + 1 .. a + j
        BY <1>6, <1>7, <1>8, <1>13
      <4>5. Pending[a + j].kind = "init"
        BY <1>15, <2>5, <4>4
      <4>6. Pending'[k].kind = "init" /\ \E h \in a + 1 .. a + j : Pending'[k] = Pending[h]
        <5>1. CASE i = 1
          BY <4>2, <4>4, <4>5, <5>1
        <5>2. CASE i # 1
          <6>1. PICK b : b = i - 1
            OBVIOUS
          <6>2. b \in 1 .. j - 1 /\ b \in 1 .. j /\ a + 1 + b = k /\ a + b \in a + 1 .. a + j
            BY <1>6, <4>2, <5>2, <6>1
          <6>3. Pending'[k] = Pending[a + b] /\ Pending[a + b].kind = "init"
            BY <1>8, <1>15, <2>5, <6>2
          <6> QED BY <6>2, <6>3
        <5> QED BY <5>1, <5>2
      <4>7. \E h \in a + 1 .. a + j : Pending[k] = Pending'[h]
        <5>1. CASE i = j
          BY <4>2, <4>4, <5>1
        <5>2. CASE i # j
          <6>1. i \in 1 .. j - 1 /\ a + 1 + i \in a + 1 .. a + j
            BY <1>6, <4>2, <5>2
          <6>2. Pending'[a + 1 + i] = Pending[k]
            BY <1>8, <4>2, <6>1
          <6> QED BY <6>1, <6>2
        <5> QED BY <5>1, <5>2
      <4> QED BY <4>3, <4>6, <4>7
    <3>3. ASSUME NEW k \in 1 .. w, k \notin a + 1 .. a + j PROVE Pending'[k] = Pending[k]
      <4>1. k \in 1 .. a \/ k \in a + j + 1 .. w
        BY <1>6, <3>3
      <4> QED BY <1>8, <4>1
    <3>4. /\ SameBlock(Pending, Pending', w, a + 1, a + j)
          /\ SameBlock(Pending', Pending, w, a + 1, a + j)
      BY <3>2, <3>3 DEF SameBlock
    <3>5. /\ AtMost(Pending, w, ToSet(serverDevices), Told)
             => AtMost(Pending', w, ToSet(serverDevices), Told)
          /\ \A c \in 0 .. w : c < a + 1 /\ AtLeast(Pending, w, ToSet(serverDevices), Told, c)
                                 => AtLeast(Pending', w, ToSet(serverDevices), Told, c)
      BY ONLY <1>6, <3>1, <3>4, Exchanged
    <3>6. ASSUME ~builtMsg
          PROVE  \E c \in 0 .. w : /\ AtLeast(Pending', w, ToSet(serverDevices), Told, c)
                                   /\ \A i \in 1 .. l - 1 : a + 1 + i <= c =>
                                        thread'[started'[i]].topic = "arc"
      <4>1. PICK c \in 0 .. w : /\ AtLeast(Pending, w, ToSet(serverDevices), Told, c)
                                /\ \A i \in 1 .. l : a + i <= c => thread[started[i]].topic = "arc"
        BY <2>2, <3>6
      <4>2. c < a + 1
        <5>1. 1 \in 1 .. l /\ 1 < j
          BY <1>6, <2>5
        <5>2. thread[started[1]].topic # "arc"
          BY <1>14, <5>1
        <5>3. ~(a + 1 <= c)
          BY <4>1, <5>1, <5>2
        <5> QED BY <1>6, <5>3
      <4>3. \A i \in 1 .. l - 1 : ~(a + 1 + i <= c)
        BY <1>6, <4>2
      <4> QED BY <3>5, <4>1, <4>2, <4>3
    <3> QED BY <2>1, <3>5, <3>6
  <2> QED BY <2>4, <2>5
<1>17. Len(net') = a + 1
  BY <1>1, <1>2, <1>5, AnyAppend DEF GoodWires
<1>18. Agreement'
  <2>1. AtMost(Pending', UnderWay', ToSet(serverDevices'), Told')
    BY <1>8, <1>11, <1>16
  <2>2. ASSUME ~builtMsg' PROVE \E c \in 0 .. UnderWay' : Announced(c)'
    <3>1. PICK c \in 0 .. w : /\ AtLeast(Pending', w, ToSet(serverDevices), Told, c)
                              /\ \A i \in 1 .. l - 1 : a + 1 + i <= c =>
                                   thread'[started'[i]].topic = "arc"
      BY <1>2, <1>16, <2>2
    <3>2. AtLeast(Pending', UnderWay', ToSet(serverDevices'), Told', c)
      BY <1>8, <1>11, <3>1
    <3>3. \A i \in 1 .. Len(started') : Len(net') + i <= c => thread'[started'[i]].topic = "arc"
      BY <1>9, <1>17, <3>1
    <3> QED BY <1>8, <3>2, <3>3 DEF Announced
  <2> QED BY <2>1, <2>2 DEF Agreement
<1> QED BY <1>10, <1>11, <1>12, <1>18 DEF Good

\* A registration is dropped before the connection is built: nothing is before it, and the
\* stored devices that are sent then make it good.
LEMMA PublishDroppedKeeps ==
  ASSUME RegistryIInv, Good, Clean', NEW p \in Publishers, Publish(p), UNCHANGED serverDevices,
         ~(conn = "up" /\ inflight < MaxInflight)
  PROVE  Good'
<1>1. /\ conn = "connecting" /\ thread[p].meant.action = "reg"
  BY Zenon DEF Publish, Clean
<1>2. /\ thread[p].at = "publish" /\ Finish(p) /\ p \in Running
      /\ UNCHANGED <<regDevices, regDevicesMac, ui, file, conn, builtMsg, net>>
      /\ GoodThreads /\ GoodWires
  BY DEF Publish, threadVars, Running, NoThread, Good
<1>3. /\ net = <<>> /\ \A r \in Running : thread[r].topic = "arc"
  BY <1>1, <1>2 DEF GoodThreads, GoodWires
<1>4. PICK l : l = Len(started)
  OBVIOUS
<1>5. /\ Len(net) = 0 /\ l \in Nat /\ UnderWay = l
      /\ \A i \in 1 .. l : started[i] \in Running
  BY <1>2, <1>3, <1>4, Lengths
<1>6. PICK j \in 1 .. l : started[j] = p
  BY <1>2, <1>4, Lengths
<1>7. j = 1
  <2>1. ~Overtakes(p)
    BY Zenon DEF Publish, Clean
  <2>2. ~(1 < j)
    <3>1. 1 \in 1 .. l
      BY <1>5
    <3> QED BY <1>2, <1>3, <1>4, <1>6, <2>1, <3>1 DEF Overtakes
  <2> QED BY <1>5, <2>2
<1>8. /\ started' \in Seq(Publishers) /\ IsInjective(started') /\ ToSet(started') = Running'
      /\ Len(started') = l - 1
      /\ \A i \in 1 .. l - 1 : started'[i] = started[i + 1]
      /\ DOMAIN thread' = Publishers /\ Running' = Running \ {p}
      /\ \A r \in Running \ {p} : thread'[r] = thread[r] /\ OfThread(r)' = OfThread(r)
  <2>1. /\ GoodThreads /\ GoodWires /\ j \in 1 .. Len(started) /\ p = started[j] /\ Finish(p)
        /\ UNCHANGED <<regDevices, regDevicesMac>>
    BY <1>2, <1>4, <1>6
  <2>2. /\ started' \in Seq(Publishers) /\ IsInjective(started') /\ ToSet(started') = Running'
        /\ Len(started') = Len(started) - 1
        /\ \A i \in 1 .. Len(started) - 1 :
             started'[i] = IF i < j THEN started[i] ELSE started[i + 1]
        /\ DOMAIN thread' = Publishers /\ Running' = Running \ {p}
        /\ \A r \in Running \ {p} : thread'[r] = thread[r] /\ OfThread(r)' = OfThread(r)
    BY ONLY <2>1, ThreadFinishes
  <2>3. \A i \in 1 .. l - 1 : ~(i < j)
    BY <1>7
  <2> QED BY <1>4, <2>2, <2>3
<1>9. GoodThreads'
  <2>1. ASSUME NEW r \in Running' PROVE GoodThread(r)'
    <3>1. thread'[r] = thread[r] /\ GoodThread(r)
      BY <1>2, <1>8 DEF GoodThreads
    <3> QED BY <1>2, <3>1 DEF GoodThread, Reads
  <2> QED BY <1>2, <1>8, <2>1 DEF GoodThreads
<1>10. GoodLists' /\ GoodUi' /\ Told' = Told /\ GoodWires'
  BY <1>2, SameLists DEF Good, GoodWires
<1>11. /\ \A i \in 1 .. l : Pending[i] = OfThread(started[i])
       /\ UnderWay' = l - 1
       /\ \A i \in 1 .. l - 1 : Pending'[i] = OfThread(started[i])'
  <2>1. \A i \in 1 .. l : Len(net) + i = i
    BY <1>5
  <2>2. \A i \in 1 .. l : Pending[i] = OfThread(started[i])
    BY <1>2, <1>4, <2>1, InQueue
  <2>3. UnderWay' = l - 1
    BY <1>2, <1>5, <1>8 DEF UnderWay
  <2>4. ASSUME NEW i \in 1 .. l - 1 PROVE Pending'[i] = OfThread(started[i])'
    <3>1. ~(i <= Len(net)) /\ i - Len(net) = i
      BY <1>5
    <3>2. Pending'[i] = OfThread(started[i - Len(net)])'
      BY <1>2, <2>3, <3>1 DEF Pending
    <3>3. OfThread(started[i - Len(net)])' = OfThread(started[i])'
      BY <1>2, <3>1 DEF OfThread, Reads, TargetAt
    <3> QED BY <3>2, <3>3
  <2> QED BY <2>2, <2>3, <2>4
<1>12. ASSUME NEW i \in 1 .. l - 1 PROVE Pending'[i] = Pending[i + 1]
  <2>1. i + 1 \in 1 .. l /\ i + 1 # j
    BY <1>5, <1>7
  <2>2. PICK r \in Running \ {p} : r = started[i + 1]
    BY <1>2, <1>4, <1>5, <1>6, <2>1, Lengths
  <2>3. OfThread(started[i])' = OfThread(r)'
    BY <1>8, <2>2 DEF OfThread, Reads, TargetAt
  <2> QED BY <1>8, <1>11, <2>1, <2>2, <2>3
<1>13. AtMost(Pending', l - 1, ToSet(serverDevices), Told)
  <2>1. AtMost(Pending, l, ToSet(serverDevices), Told)
    BY <1>5 DEF Good, Agreement
  <2>2. l \in Nat \ {0}
    BY <1>5
  <2>3. ~ (Pending[1].kind = "del")
    <3>1. Pending[1] = OfThread(p)
      BY <1>6, <1>7, <1>11
    <3>2. OfThread(p).kind = "reg"
      BY <1>1, <1>2, <1>3 DEF OfThread
    <3> QED BY <3>1, <3>2
  <2>4. \A t \in ToSet(serverDevices) : ~Removes(Pending, 1, t)
    BY <2>3 DEF Removes
  <2> QED BY ONLY <1>12, <2>1, <2>2, <2>4, AtMostArrived
<1>14. Agreement'
  <2>1. AtMost(Pending', UnderWay', ToSet(serverDevices'), Told')
    BY <1>10, <1>11, <1>13
  <2> QED BY <1>1, <1>2, <2>1 DEF Agreement
<1> QED BY <1>9, <1>10, <1>14 DEF Good

\* A text that cannot be made loses a message.
LEMMA ToTextFailsLoses ==
  ASSUME Good, NEW p \in Publishers, ToTextFails(p)
  PROVE  lost'
<1>1. p \in Running
  BY DEF ToTextFails, Running, NoThread
<1>2. CASE thread[p].topic = "init"
  BY <1>2, Zenon DEF ToTextFails
<1>3. CASE thread[p].topic # "init"
  <2>1. thread[p].topic = "arc" /\ StartAgain
    BY <1>1, <1>3 DEF ToTextFails, Good, GoodThreads, GoodThread
  <2> QED BY <1>1, <2>1, Zenon DEF StartAgain
<1> QED BY <1>2, <1>3

-------------------------------------------------------------------------------
(* The connection, the process and the server. *)

LEMMA ConnectKeeps ==
  ASSUME Good, Connect \/ ConnectionLost, Clean', UNCHANGED serverDevices
  PROVE  Good'
<1>1. /\ UNCHANGED <<regDevices, regDevicesMac, ui, file, thread, started>>
      /\ GoodThreads /\ GoodWires
  BY DEF Connect, ConnectionLost, connVars, threads, Good
<1>2. UNCHANGED net
  <2>1. CASE Connect
    BY <2>1 DEF Connect
  <2>2. CASE ConnectionLost
    <3>1. net = <<>>
      BY <2>2, Zenon DEF ConnectionLost, Clean
    <3> QED BY <2>2, <3>1 DEF ConnectionLost
  <2> QED BY <2>1, <2>2
<1>3. Running' = Running
  BY <1>1 DEF Running
<1>4. /\ conn' # "connecting"
      /\ ~(conn' = "up" /\ ~builtMsg')
      /\ builtMsg' => \A p \in Running : thread[p].topic = "arc"
      /\ conn' # "up" => net = <<>>
  <2>1. CASE Connect
    BY <1>1, <2>1 DEF Connect, GoodThreads, GoodWires
  <2>2. CASE ConnectionLost
    BY <1>1, <1>2, <2>2 DEF ConnectionLost, GoodThreads, GoodWires
  <2> QED BY <2>1, <2>2
<1>5. ASSUME NEW p \in Running
      PROVE  /\ GoodThread(p)' /\ OfThread(p)' = OfThread(p) /\ thread'[p].topic = thread[p].topic
  <2>1. GoodThread(p)
    BY <1>1 DEF GoodThreads
  <2> QED BY <1>1, <2>1 DEF GoodThread, OfThread, Reads, TargetAt, Target
<1>6. GoodThreads'
  BY <1>1, <1>3, <1>4, <1>5 DEF GoodThreads
<1>7. GoodWires'
  BY <1>1, <1>2, <1>4 DEF GoodWires
<1>8. GoodLists' /\ GoodUi' /\ Told' = Told
  BY <1>1, SameLists DEF Good
<1>9. Agreement'
  BY <1>1, <1>2, <1>4, <1>5, <1>8, SameQueue DEF Good
<1> QED BY <1>6, <1>7, <1>8, <1>9 DEF Good

\* The server starts with an empty list, and the connection is gone.
LEMMA RestartServerKeeps ==
  ASSUME Good, RestartServer, Clean'
  PROVE  Good'
<1>1. /\ UNCHANGED <<regDevices, regDevicesMac, ui, file, thread, started, builtMsg>>
      /\ GoodThreads /\ GoodWires /\ serverDevices' = <<>>
      /\ conn' = IF conn = "up" THEN "down" ELSE conn
  BY DEF RestartServer, Server!Restart, threads, Good
<1>2. net = <<>> /\ net' = <<>>
  BY Zenon DEF RestartServer, Clean
<1>3. Running' = Running
  BY <1>1 DEF Running
<1>4. conn' # "up" /\ (conn' = "connecting" => conn = "connecting")
  BY <1>1
<1>5. ASSUME NEW p \in Running
      PROVE  /\ GoodThread(p)' /\ OfThread(p)' = OfThread(p) /\ thread'[p].topic = thread[p].topic
  <2>1. GoodThread(p)
    BY <1>1 DEF GoodThreads
  <2> QED BY <1>1, <2>1 DEF GoodThread, OfThread, Reads, TargetAt, Target
<1>6. GoodThreads'
  BY <1>1, <1>3, <1>4, <1>5 DEF GoodThreads
<1>7. AnySeq(<<>>) /\ IsInjective(<<>>) /\ ToSet(<<>>) = {} /\ Len(<<>>) = 0
  BY DEF AnySeq, IsInjective, ToSet
<1>8. GoodWires'
  BY <1>1, <1>2, <1>4, <1>7 DEF GoodWires
<1>9. GoodLists' /\ GoodUi' /\ Told' = Told
  BY <1>1, SameLists DEF Good
<1>10. Agreement'
  <2>1. ToSet(serverDevices') \subseteq ToSet(serverDevices)
    BY <1>1, <1>7
  <2> QED BY <1>1, <1>2, <1>4, <1>5, <1>9, <2>1, SameQueue DEF Good
<1> QED BY <1>6, <1>8, <1>9, <1>10 DEF Good

\* A new process has in its lists what the file holds: all that was in the old lists, as
\* long as nothing was lost.
LEMMA StartAgainKeeps ==
  ASSUME RegistryIInv, Good, StartAgain, Clean', UNCHANGED serverDevices
  PROVE  Good'
<1>1. /\ Aligned /\ net = <<>>
      /\ file = [i \in 1 .. Len(regDevices) |-> [dev |-> regDevices[i], mac |-> regDevicesMac[i]]]
      /\ ~\E p \in Running : thread[p].topic = "arc"
  BY Zenon DEF StartAgain, Clean, Saved
<1>2. /\ regDevices \in Seq(Seq(STRING)) /\ regDevicesMac \in Seq(STRING)
      /\ Len(regDevices) = Len(regDevicesMac) /\ Len(regDevices) \in Nat
  BY <1>1 DEF RegistryIInv, Lists, Aligned
<1>3. Len(file) = Len(regDevices)
  BY <1>1, <1>2
<1>4. regDevices' = regDevices
  <2>1. regDevices' = [i \in 1 .. Len(regDevices) |-> regDevices[i]]
    BY <1>1, <1>3 DEF StartAgain
  <2> QED BY <1>2, <2>1
<1>5. regDevicesMac' = regDevicesMac
  <2>1. regDevicesMac' = [i \in 1 .. Len(regDevicesMac) |-> regDevicesMac[i]]
    BY <1>1, <1>2, <1>3 DEF StartAgain
  <2> QED BY <1>2, <2>1
<1>6. /\ UNCHANGED file /\ ui' = Idle /\ ui'.at = "idle" /\ started' = <<>> /\ net' = <<>>
      /\ thread' = [p \in Publishers |-> NoThread]
      /\ conn' = "connecting" /\ builtMsg' = FALSE
  BY DEF StartAgain, Idle
<1>7. ui.at \notin {"addData", "removeMac"}
  <2>1. ~MacsAhead
    BY <1>2 DEF MacsAhead
  <2> QED BY <2>1 DEF RegistryIInv, UiPlace, Idle
<1>8. \A i : EntryAt(i)' = EntryAt(i)
  BY <1>4, <1>5, <1>6, <1>7 DEF EntryAt, EntryMac, Target
<1>9. GoodLists' /\ GoodUi'
  <2>1. GoodLists'
    BY <1>4, <1>6, <1>8 DEF Good, GoodLists
  <2>2. GoodUi'
    BY <1>6 DEF GoodUi, Sending
  <2> QED BY <2>1, <2>2
<1>10. Told \subseteq Told'
  <2>1. Untold' = {}
    BY <1>6 DEF Untold, Sending
  <2> QED BY <1>4, <1>8, <2>1 DEF Told
<1>11. AnySeq(<<>>) /\ IsInjective(<<>>) /\ ToSet(<<>>) = {} /\ Len(<<>>) = 0
       /\ <<>> \in Seq(Publishers)
  BY DEF AnySeq, IsInjective, ToSet
<1>12. Running' = {}
  BY <1>6 DEF Running
<1>13. GoodThreads'
  BY <1>6, <1>11, <1>12 DEF GoodThreads
<1>14. GoodWires'
  BY <1>6, <1>11 DEF Good, GoodWires
<1>15. ToSet(serverDevices) \subseteq Told
  <2>1. PICK w : w = UnderWay
    OBVIOUS
  <2>2. /\ w \in Nat /\ AtMost(Pending, w, ToSet(serverDevices), Told)
        /\ GoodThreads /\ GoodWires
    BY <2>1, Lengths DEF Good, Agreement
  <2>3. ASSUME NEW k \in 1 .. w PROVE Pending[k].kind = "init"
    <3>1. PICK i \in 1 .. Len(started) : k = Len(net) + i
      BY <1>1, <1>11, <2>1, <2>2, InQueue
    <3>2. started[i] \in Running /\ Pending[k] = OfThread(started[i])
      BY <2>2, <3>1, Lengths, InQueue
    <3>3. thread[started[i]].topic = "init"
      BY <1>1, <2>2, <3>2 DEF GoodThreads, GoodThread
    <3> QED BY <3>2, <3>3 DEF OfThread
  <2>4. ASSUME NEW t \in ToSet(serverDevices) PROVE t \in Told
    <3>1. \A k \in 1 .. (w + 1) - 1 : ~Removes(Pending, k, t)
      BY <2>2, <2>3 DEF Removes
    <3>2. Holds(Pending, ToSet(serverDevices), 0, w + 1, t)
      BY <3>1 DEF Holds
    <3> QED BY <2>2, <3>2 DEF AtMost
  <2> QED BY <2>4
<1>16. Agreement'
  <2>1. UnderWay' = 0
    BY <1>6, <1>11 DEF UnderWay
  <2>2. ASSUME NEW t, Holds(Pending', ToSet(serverDevices), 0, 0 + 1, t) PROVE t \in Told'
    <3>1. t \in ToSet(serverDevices)
      BY <2>2 DEF Holds
    <3> QED BY <1>10, <1>15, <3>1
  <2>3. AtMost(Pending', 0, ToSet(serverDevices), Told')
    BY <2>2 DEF AtMost
  <2> QED BY <1>6, <2>1, <2>3 DEF Agreement
<1> QED BY <1>9, <1>13, <1>14, <1>16 DEF Good

\* The server handles one message: its list becomes what the message says.
LEMMA ServerStep ==
  ASSUME GoodWires, Deliver, NEW S, S = ToSet(serverDevices), NEW m, m = net[1], NEW t, t = m.text.target,
         OfMessage(m).kind = "reg" => t \notin S
  PROVE  /\ AnySeq(serverDevices') /\ IsInjective(serverDevices')
         /\ OfMessage(m).kind \in {"reg", "init"} => ToSet(serverDevices') = S \cup {t}
         /\ OfMessage(m).kind = "trig" => ToSet(serverDevices') = S
         /\ OfMessage(m).kind = "del" => /\ ToSet(serverDevices') \subseteq S \ {t}
                                         /\ t \in S => ToSet(serverDevices') = S \ {t}
         /\ OfMessage(m).kind \in {"reg", "trig", "del", "init"} /\ OfMessage(m).target = t
<1>1. /\ net # <<>> /\ AnySeq(net) /\ Head(net) = m /\ 1 \in 1 .. Len(net)
      /\ AnySeq(serverDevices) /\ IsInjective(serverDevices)
  BY AnyTail DEF Deliver, GoodWires
<1>2. m.topic = "init" \/ (m.topic = "arc" /\ m.text.action \in {"reg", "trig", "del"})
  BY <1>1 DEF GoodWires
<1>3. CASE m.topic = "init"
  <2>1. serverDevices' = Server!WithDevice(serverDevices, t)
    BY <1>1, <1>3 DEF Deliver, Server!PublishedInit
  <2>2. /\ AnySeq(serverDevices') /\ IsInjective(serverDevices')
        /\ ToSet(serverDevices') = ToSet(serverDevices) \cup {t}
    BY <1>1, <2>1, ListWithDevice
  <2>3. OfMessage(m).kind = "init" /\ OfMessage(m).target = t
    BY <1>3 DEF OfMessage
  <2> QED BY <2>2, <2>3
<1>4. CASE m.topic = "arc" /\ m.text.action = "reg"
  <2>1. serverDevices' = Append(serverDevices, t)
    BY <1>1, <1>4 DEF Deliver, Server!PublishedArc
  <2>2. OfMessage(m).kind = "reg" /\ OfMessage(m).target = t
    BY <1>4 DEF OfMessage
  <2>3. /\ AnySeq(serverDevices') /\ IsInjective(serverDevices')
        /\ ToSet(serverDevices') = ToSet(serverDevices) \cup {t}
    BY <1>1, <2>1, <2>2, AppendedElement
  <2> QED BY <2>2, <2>3
<1>5. CASE m.topic = "arc" /\ m.text.action = "del"
  <2>1. serverDevices' = Server!splice(serverDevices, Server!indexOf(serverDevices, t))
    BY <1>1, <1>5 DEF Deliver, Server!PublishedArc
  <2>2. /\ AnySeq(serverDevices') /\ IsInjective(serverDevices')
        /\ ToSet(serverDevices') \subseteq ToSet(serverDevices) \ {t}
        /\ t \in ToSet(serverDevices) => ToSet(serverDevices') = ToSet(serverDevices) \ {t}
    BY <1>1, <2>1, SplicedList
  <2>3. OfMessage(m).kind = "del" /\ OfMessage(m).target = t
    BY <1>5 DEF OfMessage
  <2> QED BY <2>2, <2>3
<1>6. CASE m.topic = "arc" /\ m.text.action = "trig"
  <2>1. serverDevices' = serverDevices
    BY <1>1, <1>6 DEF Deliver, Server!PublishedArc
  <2>2. OfMessage(m).kind = "trig" /\ OfMessage(m).target = t
    BY <1>6 DEF OfMessage
  <2> QED BY <1>1, <2>1, <2>2
<1> QED BY <1>2, <1>3, <1>4, <1>5, <1>6

LEMMA DeliverKeeps ==
  ASSUME Good, Deliver
  PROVE  Good'
<1>1. /\ UNCHANGED <<regDevices, regDevicesMac, ui, file, thread, started, conn, builtMsg>>
      /\ GoodThreads /\ GoodWires /\ net # <<>> /\ net' = Tail(net)
  BY DEF Deliver, threads, Good
<1>2. PICK a, l, w, S, m, t :
        /\ a = Len(net) /\ l = Len(started) /\ w = UnderWay /\ S = ToSet(serverDevices)
        /\ m = net[1] /\ t = m.text.target
  OBVIOUS
<1>3. /\ AnySeq(net') /\ a \in Nat \ {0} /\ Len(net') = a - 1
      /\ \A i \in 1 .. a - 1 : net'[i] = net[i + 1]
  BY <1>1, <1>2, AnyTail DEF GoodWires
<1>4. /\ l \in Nat /\ w = a + l /\ w \in Nat \ {0}
      /\ \A i \in 1 .. l : started[i] \in Running
  BY <1>1, <1>2, <1>3, Lengths
<1>5. UnderWay' = w - 1
  BY <1>1, <1>2, <1>3, <1>4 DEF UnderWay
<1>6. Pending[1] = OfMessage(m)
  BY <1>1, <1>2, <1>3, InQueue
<1>7. ASSUME NEW p PROVE OfThread(p)' = OfThread(p)
  BY <1>1 DEF OfThread, Reads, TargetAt, Target
<1>8. ASSUME NEW i \in 1 .. w - 1 PROVE Pending'[i] = Pending[i + 1]
  <2>1. CASE i <= a - 1
    <3>1. i \in 1 .. a - 1 /\ i + 1 \in 1 .. a
      BY <1>3, <2>1
    <3>2. Pending'[i] = OfMessage(net[i])'
      BY <1>3, <1>5, <2>1 DEF Pending
    <3>3. OfMessage(net[i])' = OfMessage(net[i + 1])
      BY <1>3, <3>1 DEF OfMessage
    <3> QED BY <1>1, <1>2, <3>1, <3>2, <3>3, InQueue
  <2>2. CASE ~(i <= a - 1)
    <3>1. PICK k : k = i - (a - 1)
      OBVIOUS
    <3>2. k \in 1 .. l /\ a + k = i + 1
      BY <1>3, <1>4, <2>2, <3>1
    <3>3. Pending'[i] = OfThread(started[i - Len(net)])'
      BY <1>3, <1>5, <2>2 DEF Pending
    <3>4. OfThread(started[i - Len(net)])' = OfThread(started[k])'
      BY <1>3, <3>1 DEF OfThread, Reads, TargetAt
    <3>5. OfThread(started[k])' = OfThread(started[k])
      BY <1>1 DEF OfThread, Reads, TargetAt, Target
    <3> QED BY <1>1, <1>2, <3>2, <3>3, <3>4, <3>5, InQueue
  <2> QED BY <2>1, <2>2
<1>9. AtMost(Pending, w, S, Told)
  BY <1>2 DEF Good, Agreement
<1>10. OfMessage(m).kind = "reg" => t \notin S
  <2>1. ASSUME OfMessage(m).kind = "reg", t \in S PROVE FALSE
    <3>1. 1 \in 1 .. w /\ Pending[1].kind = "reg" /\ Pending[1].target = t
      BY <1>2, <1>4, <1>6, <2>1 DEF OfMessage
    <3>2. Holds(Pending, S, 0, 1, t)
      BY <2>1 DEF Holds
    <3> QED BY <1>9, <3>1, <3>2 DEF AtMost
  <2> QED BY <2>1
<1>11. /\ AnySeq(serverDevices') /\ IsInjective(serverDevices')
       /\ OfMessage(m).kind \in {"reg", "init"} => ToSet(serverDevices') = S \cup {t}
       /\ OfMessage(m).kind = "trig" => ToSet(serverDevices') = S
       /\ OfMessage(m).kind = "del" => /\ ToSet(serverDevices') \subseteq S \ {t}
                                       /\ t \in S => ToSet(serverDevices') = S \ {t}
       /\ OfMessage(m).kind \in {"reg", "trig", "del", "init"} /\ OfMessage(m).target = t
  BY <1>1, <1>2, <1>10, ServerStep
<1>12. /\ \A x : Adds(Pending, 1, x) <=> OfMessage(m).kind \in {"reg", "init"} /\ x = t
       /\ \A x : Removes(Pending, 1, x) <=> OfMessage(m).kind = "del" /\ x = t
  BY <1>6, <1>11 DEF Adds, Removes
<1>13. \A x \in ToSet(serverDevices') : Adds(Pending, 1, x) \/ (x \in S /\ ~Removes(Pending, 1, x))
  BY <1>11, <1>12
<1>14. AtMost(Pending', w - 1, ToSet(serverDevices'), Told)
  <2>1. w \in Nat \ {0}
    BY <1>4
  <2> QED BY ONLY <1>8, <1>9, <1>13, <2>1, AtMostArrived
<1>15. ASSUME NEW c \in 0 .. w, AtLeast(Pending, w, S, Told, c),
              NEW d, d = IF c = 0 THEN 0 ELSE c - 1
       PROVE  d \in 0 .. w - 1 /\ AtLeast(Pending', w - 1, ToSet(serverDevices'), Told, d)
  <2>1. w \in Nat \ {0} /\ d \in 0 .. w - 1
    BY <1>4, <1>15
  <2>2. ASSUME c = 0 PROVE OfMessage(m).kind = "del" => t \in S
    <3>1. ASSUME OfMessage(m).kind = "del" PROVE t \in S
      <4>1. 1 \in c + 1 .. w /\ Pending[1].kind = "del" /\ Pending[1].target = t
        BY <1>4, <1>6, <1>11, <2>2, <3>1
      <4>2. Holds(Pending, S, c, 1, t)
        BY <1>15, <4>1 DEF AtLeast
      <4> QED BY <4>2 DEF Holds
    <3> QED BY <3>1
  <2>3. ASSUME c = 0, NEW x, Adds(Pending, 1, x) \/ (x \in S /\ ~Removes(Pending, 1, x))
        PROVE  x \in ToSet(serverDevices')
    BY <1>11, <1>12, <2>2, <2>3
  <2>4. c # 0 \/ \A x : Adds(Pending, 1, x) \/ (x \in S /\ ~Removes(Pending, 1, x))
                          => x \in ToSet(serverDevices')
    BY <2>3
  <2> QED BY ONLY c \in 0 .. w, <1>8, <1>15, <2>1, <2>4, AtLeastArrived
<1>16. GoodThreads'
  <2>1. Running' = Running
    BY <1>1 DEF Running
  <2>2. ASSUME NEW p \in Running PROVE GoodThread(p)'
    <3>1. GoodThread(p)
      BY <1>1 DEF GoodThreads
    <3> QED BY <1>1, <3>1 DEF GoodThread, Reads
  <2> QED BY <1>1, <2>1, <2>2 DEF GoodThreads
<1>17. GoodLists' /\ GoodUi' /\ Told' = Told
  BY <1>1, SameLists DEF Good
<1>18. GoodWires'
  <2>1. \A i \in 1 .. a - 1 : i + 1 \in 1 .. a /\ net'[i] = net[i + 1]
    BY <1>3
  <2>2. conn = "up"
    BY <1>1 DEF GoodWires
  <2> QED BY <1>1, <1>2, <1>3, <1>11, <2>1, <2>2 DEF GoodWires
<1>19. Agreement'
  <2>1. AtMost(Pending', UnderWay', ToSet(serverDevices'), Told')
    BY <1>5, <1>14, <1>17
  <2>2. ASSUME conn' = "up", ~builtMsg' PROVE \E c \in 0 .. UnderWay' : Announced(c)'
    <3>1. PICK c \in 0 .. w : /\ AtLeast(Pending, w, S, Told, c)
                              /\ \A i \in 1 .. l : a + i <= c => thread[started[i]].topic = "arc"
      BY <1>1, <1>2, <2>2 DEF Good, Agreement, Announced
    <3>2. PICK d : d = IF c = 0 THEN 0 ELSE c - 1
      OBVIOUS
    <3>3. d \in 0 .. w - 1 /\ AtLeast(Pending', w - 1, ToSet(serverDevices'), Told, d)
      BY <1>15, <3>1, <3>2
    <3>4. ASSUME NEW i \in 1 .. l, (a - 1) + i <= d PROVE thread'[started'[i]].topic = "arc"
      <4>1. a + i <= c
        BY <1>3, <1>4, <3>2, <3>4
      <4> QED BY <1>1, <3>1, <4>1
    <3>5. AtLeast(Pending', UnderWay', ToSet(serverDevices'), Told', d)
      BY <1>5, <1>17, <3>3
    <3>6. \A i \in 1 .. Len(started') : Len(net') + i <= d => thread'[started'[i]].topic = "arc"
      BY <1>1, <1>2, <1>3, <3>4
    <3> QED BY <1>5, <3>3, <3>5, <3>6 DEF Announced
  <2> QED BY <2>1, <2>2 DEF Agreement
<1> QED BY <1>16, <1>17, <1>18, <1>19 DEF Good

-------------------------------------------------------------------------------
(* The invariant holds. *)

LEMMA InitAgreement ==
  ASSUME StoredByApp
  PROVE  Init => AgreementIInv
<1> SUFFICES ASSUME Init PROVE AgreementIInv
  OBVIOUS
<1>1. RegistryIInv
  BY InitRegistry
<1>2. /\ file \in Stored /\ file \in Seq(Entries) /\ Len(file) \in Nat
      /\ regDevices = [i \in 1 .. Len(file) |-> file[i].dev]
      /\ regDevicesMac = [i \in 1 .. Len(file) |-> file[i].mac]
      /\ ui = Idle /\ ui.at = "idle" /\ started = <<>> /\ net = <<>> /\ serverDevices = <<>>
      /\ thread = [p \in Publishers |-> NoThread] /\ conn = "connecting" /\ builtMsg = FALSE
  BY <1>1 DEF Init, AppInit, Server!Init, RegistryIInv, Lists, Idle
<1>3. /\ AnySeq(<<>>) /\ IsInjective(<<>>) /\ ToSet(<<>>) = {} /\ Len(<<>>) = 0
      /\ <<>> \in Seq(Publishers)
  BY DEF AnySeq, IsInjective, ToSet
<1>4. /\ Len(regDevices) = Len(file)
      /\ \A i \in 1 .. Len(file) : regDevices[i] = file[i].dev /\ regDevicesMac[i] = file[i].mac
  BY <1>2
<1>5. /\ \A i \in 1 .. Len(file) : file[i].dev \in Devs
      /\ \A i, j \in 1 .. Len(file) : file[i] = file[j] => i = j
  BY <1>2 DEF StoredByApp
<1>6. GoodLists
  <2>1. ASSUME NEW i \in 1 .. Len(file), NEW j \in 1 .. Len(file), EntryAt(i) = EntryAt(j)
        PROVE  i = j
    <3>1. \A k : EntryAt(k) = Target(<<regDevices[k][1]>>, regDevices[k], regDevicesMac[k])
      BY <1>2 DEF EntryAt, EntryMac
    <3>2. /\ EntryAt(i) = Target(<<file[i].dev[1]>>, file[i].dev, file[i].mac)
          /\ EntryAt(j) = Target(<<file[j].dev[1]>>, file[j].dev, file[j].mac)
      BY <1>4, <3>1
    <3>3. file[i].dev \in Devs /\ file[j].dev \in Devs
      BY <1>5
    <3>4. Target(<<file[i].dev[1]>>, file[i].dev, file[i].mac)
            = Target(<<file[j].dev[1]>>, file[j].dev, file[j].mac)
      BY <2>1, <3>2
    <3>5. file[i].dev = file[j].dev /\ file[i].mac = file[j].mac
      <4>1. ASSUME NEW d \in Devs, NEW e \in Devs, NEW m, NEW n,
                   Target(<<d[1]>>, d, m) = Target(<<e[1]>>, e, n)
            PROVE  d = e /\ m = n
        BY <4>1, SameTarget
      <4> QED BY <3>3, <3>4, <4>1
    <3>6. file[i] \in Entries /\ file[j] \in Entries
      BY <1>2
    <3>7. file[i] = file[j]
      BY <3>5, <3>6 DEF Entries
    <3> QED BY <1>5, <3>7
  <2> QED BY <1>4, <1>5, <2>1 DEF GoodLists
<1>7. GoodUi
  BY <1>2 DEF GoodUi, Sending
<1>8. Running = {}
  BY <1>2 DEF Running
<1>9. GoodThreads /\ GoodWires
  BY <1>2, <1>3, <1>8 DEF GoodThreads, GoodWires
<1>10. Agreement
  <2>1. UnderWay = 0
    BY <1>2, <1>3 DEF UnderWay
  <2>2. \A t : ~Holds(Pending, {}, 0, 0 + 1, t)
    BY DEF Holds
  <2>3. AtMost(Pending, 0, {}, Told)
    BY <2>2 DEF AtMost
  <2> QED BY <1>2, <1>3, <2>1, <2>3 DEF Agreement
<1> QED BY <1>1, <1>6, <1>7, <1>9, <1>10 DEF AgreementIInv, Good

LEMMA NextAgreement ==
  ASSUME PlainNames
  PROVE  AgreementIInv /\ [Next]_vars => AgreementIInv'
<1> SUFFICES ASSUME AgreementIInv, [Next]_vars PROVE AgreementIInv'
  OBVIOUS
<1>1. RegistryIInv /\ RegistryIInv'
  BY NextRegistry DEF AgreementIInv
<1> SUFFICES ASSUME Clean' PROVE Good'
  BY <1>1, Zenon DEF AgreementIInv
<1>2. Clean /\ Good
  BY CleanBefore, Zenon DEF AgreementIInv
<1>3. GoodLists /\ GoodUi /\ GoodThreads /\ GoodWires
  BY <1>2 DEF Good
<1>4. ASSUME AppStep, UNCHANGED serverDevices PROVE Good'
  <2>1. CASE User
    <3>1. UiKeeps
      <4>1. ASSUME NEW name \in Names, NEW mac \in Macs, Register(name, mac) PROVE UiKeeps
        BY <1>1, <1>3, <4>1, RegisterKeeps
      <4>2. ASSUME NEW i \in 1 .. MaxDevices, Tap(i) \/ ConfirmDelete(i) PROVE UiKeeps
        BY <1>1, <1>3, <4>2, ChooseKeeps
      <4> QED BY <2>1, <4>1, <4>2 DEF User
    <3>2. UNCHANGED <<thread, started, conn, builtMsg, net>>
      BY <2>1 DEF User, Register, Tap, ConfirmDelete, userVars, threads
    <3> QED BY <1>2, <1>4, <3>1, <3>2, UiKeepsGood
  <2>2. CASE SendMsgPutTarget
    BY <1>1, <1>2, <1>4, <2>2, SendMsgPutTargetKeeps
  <2>3. CASE AddData \/ SendMsgNew \/ SendMsgPutAction \/ RemoveDevice \/ RemoveMac \/ OnStop
    <3>1. UiKeeps
      BY <1>1, <1>3, <2>3, AddDataKeeps, SendingKeeps, RemoveDeviceKeeps, RemoveMacKeeps, OnStopKeeps
    <3>2. UNCHANGED <<thread, started, conn, builtMsg, net>>
      BY <2>3 DEF AddData, SendMsgNew, SendMsgPutAction, RemoveDevice, RemoveMac, OnStop,
         userVars, threads
    <3> QED BY <1>2, <1>4, <3>1, <3>2, UiKeepsGood
  <2>4. CASE SendStoredDevices
    BY <1>1, <1>2, <1>4, <2>4, SendStoredDevicesKeeps
  <2>5. ASSUME NEW p \in Publishers, Publisher(p) PROVE Good'
    <3>1. CASE GetDevice(p)
      BY <1>1, <1>2, <1>4, <3>1, GetDeviceKeeps
    <3>2. CASE GetMac(p)
      BY <1>1, <1>2, <1>4, <3>2, GetMacKeeps
    <3>3. CASE PutTarget(p)
      BY <1>2, <1>4, <3>3, PutTargetKeeps
    <3>4. CASE ToText(p)
      BY <1>2, <1>4, <3>4, ToTextKeeps
    <3>5. CASE Publish(p)
      BY <1>1, <1>2, <1>4, <3>5, PublishSentKeeps, PublishDroppedKeeps
    <3>6. CASE ToTextFails(p)
      <4>1. lost'
        BY <1>2, <3>6, ToTextFailsLoses
      <4> QED BY <4>1, Zenon DEF Clean
    <3> QED BY <2>5, <3>1, <3>2, <3>3, <3>4, <3>5, <3>6 DEF Publisher
  <2>6. CASE Connect \/ ConnectionLost
    BY <1>2, <1>4, <2>6, ConnectKeeps
  <2>7. CASE Relaunch
    BY <1>1, <1>2, <1>4, <2>7, StartAgainKeeps DEF Relaunch
  <2> QED BY <1>4, <2>1, <2>2, <2>3, <2>4, <2>5, <2>6, <2>7, Zenon DEF AppStep, UiStep, SendMsg
<1>5. CASE Deliver
  BY <1>2, <1>5, DeliverKeeps
<1>6. CASE RestartServer
  BY <1>2, <1>6, RestartServerKeeps
<1>7. CASE UNCHANGED vars
  <2>1. /\ UNCHANGED <<regDevices, regDevicesMac, ui, file, thread, started, conn, builtMsg, net,
                       serverDevices>>
    BY <1>7 DEF vars, appVars, threads
  <2>2. Running' = Running
    BY <2>1 DEF Running
  <2>3. \A p : /\ GoodThread(p)' <=> GoodThread(p)
               /\ OfThread(p)' = OfThread(p) /\ thread'[p].topic = thread[p].topic
    BY <2>1 DEF GoodThread, OfThread, Reads, TargetAt, Target
  <2>4. GoodThreads' /\ GoodWires'
    BY <1>3, <2>1, <2>2, <2>3 DEF GoodThreads, GoodWires
  <2>5. GoodLists' /\ GoodUi' /\ Told' = Told
    BY <1>3, <2>1, SameLists
  <2>6. Agreement'
    BY <1>2, <1>3, <2>1, <2>3, <2>5, SameQueue DEF Good
  <2> QED BY <2>4, <2>5, <2>6 DEF Good
<1> QED BY <1>4, <1>5, <1>6, <1>7 DEF Next

-------------------------------------------------------------------------------
(* The theorem. *)

LEMMA OneOfEach ==
  ASSUME NEW s, AnySeq(s), IsInjective(s)
  PROVE  BagOf(s) = [x \in ToSet(s) |-> 1]
<1>1. ToSet(s) = {s[i] : i \in 1 .. Len(s)} /\ DOMAIN s = 1 .. Len(s)
  BY ElementsOf
<1>2. ASSUME NEW x \in ToSet(s) PROVE Cardinality({i \in 1 .. Len(s) : s[i] = x}) = 1
  <2>1. PICK k \in 1 .. Len(s) : s[k] = x
    BY <1>1
  <2>2. {i \in 1 .. Len(s) : s[i] = x} = {k}
    BY <1>1, <2>1 DEF IsInjective
  <2> QED BY <2>2, FS_Singleton
<1> QED BY <1>2 DEF BagOf

LEMMA SettledAgree == RegistryIInv /\ Good /\ Settled => BagOf(serverDevices) = BagOf(AppTargets)
<1> SUFFICES ASSUME RegistryIInv, Good, Settled PROVE BagOf(serverDevices) = BagOf(AppTargets)
  OBVIOUS
<1>1. /\ conn = "up" /\ ~builtMsg /\ ui.at = "idle" /\ Running = {} /\ net = <<>>
      /\ GoodThreads /\ GoodWires /\ Len(regDevices) \in Nat
  BY DEF Settled, Idle, Good, RegistryIInv, Lists
<1>2. UnderWay = 0
  <2>1. /\ UnderWay = Len(net) + Len(started) /\ Len(started) \in Nat
        /\ \A i \in 1 .. Len(started) : started[i] \in Running
    BY <1>1, Lengths
  <2>2. Len(started) = 0
    <3>1. 1 \notin 1 .. Len(started)
      BY <1>1, <2>1
    <3> QED BY <2>1, <3>1
  <2> QED BY <1>1, <2>1, <2>2
<1>3. ToSet(serverDevices) = Told
  <2>1. /\ AtMost(Pending, 0, ToSet(serverDevices), Told)
        /\ \E c \in 0 .. 0 : AtLeast(Pending, 0, ToSet(serverDevices), Told, c)
    BY <1>1, <1>2 DEF Good, Agreement, Announced
  <2>2. AtLeast(Pending, 0, ToSet(serverDevices), Told, 0)
    BY <2>1
  <2>3. \A t : Holds(Pending, ToSet(serverDevices), 0, 0 + 1, t) <=> t \in ToSet(serverDevices)
    BY DEF Holds
  <2> QED BY <2>1, <2>2, <2>3 DEF AtMost, AtLeast
<1>4. \A i : EntryAt(i) = TargetAt(i)
  BY <1>1 DEF EntryAt, EntryMac, TargetAt
<1>5. /\ AnySeq(AppTargets) /\ Len(AppTargets) = Len(regDevices)
      /\ DOMAIN AppTargets = 1 .. Len(regDevices)
      /\ \A i \in 1 .. Len(regDevices) : AppTargets[i] = EntryAt(i)
  BY <1>1, <1>4 DEF AppTargets, AnySeq
<1>6. IsInjective(AppTargets)
  BY <1>5 DEF Good, GoodLists, IsInjective
<1>7. ToSet(AppTargets) = Told
  <2>1. Untold = {}
    BY <1>1 DEF Untold, Sending
  <2>2. ToSet(AppTargets) = {AppTargets[i] : i \in 1 .. Len(regDevices)}
    BY <1>5 DEF ToSet
  <2> QED BY <1>5, <2>1, <2>2 DEF Told
<1> QED BY <1>1, <1>3, <1>5, <1>6, <1>7, OneOfEach DEF GoodWires

\* ArcApp's threads and server.js: as long as nothing was lost, registered twice or raced,
\* what is pending, in its order, turns the server's list into the app's; an inductive
\* invariant.
THEOREM AgreementInvariance ==
  ASSUME PlainNames, StoredByApp
  PROVE  Spec => []AgreementIInv
<1>1. Init => AgreementIInv
  BY InitAgreement
<1>2. AgreementIInv /\ [Next]_vars => AgreementIInv'
  BY NextAgreement
<1> QED BY <1>1, <1>2, PTL DEF Spec

\* MainActivity.java and server.js: once everything under way has arrived, the server's list
\* holds exactly the devices in the app's list, each once, whatever was registered, tapped,
\* deleted, stored and loaded, wherever the process or the server died, however the threads
\* and the messages were scheduled, as long as nothing was lost that nothing repeats, no
\* device was registered twice, the publishers did not race in one of the three ways that
\* Registry names, and no name has a slash.
THEOREM AgreesWhenSettled ==
  ASSUME PlainNames, StoredByApp
  PROVE  Spec => []AgreeWhenSettled
<1>1. AgreementIInv => AgreeWhenSettled
  BY SettledAgree, Zenon DEF AgreementIInv, AgreeWhenSettled, Clean
<1> QED BY <1>1, AgreementInvariance, PTL
===============================================================================
