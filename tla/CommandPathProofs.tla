--------------------------- MODULE CommandPathProofs ---------------------------
(***************************************************************************)
(* Theorems about CommandPath for every number of messages, devices, polls *)
(* under way and broken connections, and every setting of the clock.       *)
(***************************************************************************)
EXTENDS CommandPath, MainLoopProofs, SequenceTheorems, FiniteSetTheorems, WellFoundedInduction

-------------------------------------------------------------------------------
(* Sequences and sets *)

\* A set of positions that is not empty has a first one.
LEMMA FirstIn ==
  ASSUME NEW S \in SUBSET Nat, S # {}
  PROVE  First(S) \in S
<1> DEFINE R == OpToRel(<, Nat)
<1>1. IsWellFoundedOn(R, Nat)
  BY NatLessThanWellFounded
<1>2. \A x, y \in Nat : <<x, y>> \in R <=> x < y
  BY DEF OpToRel
<1> HIDE DEF R
<1>3. PICK x \in S : \A y \in S : ~ (<<y, x>> \in R)
  BY <1>1, WFMin, Zenon
<1>4. \A y \in S : x <= y
  <2> TAKE y \in S
  <2>1. ~(y < x)
    BY <1>2, <1>3, Zenon
  <2>2. x \in Nat /\ y \in Nat
    OBVIOUS
  <2> QED BY <2>1, <2>2
<1> QED BY <1>3, <1>4, Zenon DEF First

LEMMA HalfIs == \A t \in Token : t.half \in 1 .. 2
BY DEF Token

LEMMA AppendedIs ==
  ASSUME NEW S, NEW s \in Seq(S), NEW x \in S
  PROVE  s \o <<x>> = Append(s, x)
<1>1. /\ s \o <<x>> \in Seq(S) /\ Append(s, x) \in Seq(S)
      /\ Len(s \o <<x>>) = Len(s) + 1 /\ Len(Append(s, x)) = Len(s) + 1
  OBVIOUS
<1>2. \A k \in 1 .. Len(s) + 1 : (s \o <<x>>)[k] = Append(s, x)[k]
  OBVIOUS
<1> QED BY <1>1, <1>2, SeqEqual

\* A read that holds the tokens of one message at most.
LEMMA OneId ==
  ASSUME NEW s \in Seq(Token), ~(Cardinality(Ids(s)) > 1),
         NEW i \in Ids(s), NEW j \in Ids(s)
  PROVE  i = j
<1>1. IsFiniteSet(1 .. Len(s))
  BY FS_Interval
<1>2. IsFiniteSet(Ids(s))
  <2> DEFINE f == [k \in 1 .. Len(s) |-> s[k].id]
  <2>1. f \in Surjection(1 .. Len(s), Ids(s))
    BY DEF Surjection, Ids
  <2> HIDE DEF f
  <2> QED BY <1>1, <2>1, FS_Surjection
<1>3. Cardinality(Ids(s)) \in Nat
  BY <1>2, FS_CardinalityType
<1>4. Cardinality(Ids(s)) # 0
  BY <1>2, FS_EmptySet
<1>5. Cardinality(Ids(s)) = 1
  BY <1>3, <1>4
<1>6. PICK x : Ids(s) = {x}
  BY <1>2, <1>5, FS_Singleton
<1> QED BY <1>6

LEMMA JoinIs ==
  ASSUME NEW u \in Seq(Token), NEW w \in Seq(Token)
  PROVE  /\ u \o w \in Seq(Token) /\ Len(u) \in Nat /\ Len(w) \in Nat
         /\ Len(u \o w) = Len(u) + Len(w)
         /\ \A k \in 1 .. Len(u) : (u \o w)[k] = u[k]
         /\ \A k \in 1 .. Len(w) : (u \o w)[Len(u) + k] = w[k]
         /\ Ids(u \o w) = Ids(u) \cup Ids(w)
<1>1. /\ u \o w \in Seq(Token) /\ Len(u) \in Nat /\ Len(w) \in Nat
      /\ Len(u \o w) = Len(u) + Len(w)
      /\ \A k \in 1 .. Len(u) : (u \o w)[k] = u[k]
      /\ \A k \in 1 .. Len(w) : (u \o w)[Len(u) + k] = w[k]
  OBVIOUS
<1>2. Ids(u) \cup Ids(w) \subseteq Ids(u \o w)
  <2>1. ASSUME NEW k \in 1 .. Len(u) PROVE u[k].id \in Ids(u \o w)
    <3>1. k \in 1 .. Len(u \o w) /\ (u \o w)[k] = u[k]
      BY <1>1, <2>1
    <3> QED BY <3>1 DEF Ids
  <2>2. ASSUME NEW k \in 1 .. Len(w) PROVE w[k].id \in Ids(u \o w)
    <3>1. Len(u) + k \in 1 .. Len(u \o w) /\ (u \o w)[Len(u) + k] = w[k]
      BY <1>1, <2>2
    <3> QED BY <3>1 DEF Ids
  <2> QED BY <2>1, <2>2 DEF Ids
<1>3. ASSUME NEW k \in 1 .. Len(u \o w) PROVE (u \o w)[k].id \in Ids(u) \cup Ids(w)
  <2>1. CASE k <= Len(u)
    <3>1. k \in 1 .. Len(u) /\ (u \o w)[k] = u[k]
      BY <1>1, <2>1
    <3> QED BY <3>1 DEF Ids
  <2>2. CASE k > Len(u)
    <3>1. k - Len(u) \in 1 .. Len(w) /\ Len(u) + (k - Len(u)) = k
      BY <1>1, <2>2
    <3>2. (u \o w)[k] = w[k - Len(u)]
      BY <1>1, <3>1
    <3> QED BY <3>1, <3>2 DEF Ids
  <2> QED BY <1>1, <2>1, <2>2
<1>4. Ids(u \o w) \subseteq Ids(u) \cup Ids(w)
  BY <1>3 DEF Ids
<1> QED BY <1>1, <1>2, <1>4

\* A token may go from the front of one part to the end of the other.
LEMMA HandedOver ==
  ASSUME NEW u \in Seq(Token), NEW w \in Seq(Token), w # <<>>
  PROVE  Append(u, Head(w)) \o Tail(w) = u \o w
<1>1. Head(w) \in Token /\ Tail(w) \in Seq(Token) /\ <<Head(w)>> \in Seq(Token)
  OBVIOUS
<1>2. w = <<Head(w)>> \o Tail(w)
  <2>1. <<Head(w)>> \o Tail(w) \in Seq(Token) /\ Len(<<Head(w)>> \o Tail(w)) = Len(w)
    BY <1>1
  <2>2. \A k \in 1 .. Len(w) : (<<Head(w)>> \o Tail(w))[k] = w[k]
    BY <1>1
  <2> QED BY <2>1, <2>2, SeqEqual
<1>3. Append(u, Head(w)) = u \o <<Head(w)>>
  <2>1. /\ Append(u, Head(w)) \in Seq(Token) /\ u \o <<Head(w)>> \in Seq(Token)
        /\ Len(Append(u, Head(w))) = Len(u) + 1 /\ Len(u \o <<Head(w)>>) = Len(u) + 1
    BY <1>1
  <2>2. \A k \in 1 .. Len(u) + 1 : Append(u, Head(w))[k] = (u \o <<Head(w)>>)[k]
    BY <1>1
  <2> QED BY <2>1, <2>2, SeqEqual
<1>4. (u \o <<Head(w)>>) \o Tail(w) = u \o (<<Head(w)>> \o Tail(w))
  BY <1>1, ConcatAssociative
<1> QED BY <1>2, <1>3, <1>4

\* The words of a message: its action, and then those in the device's name.
LEMMA WordsAre ==
  ASSUME NEW m \in Message
  PROVE  /\ <<m.action>> \o WordsIn[m.target] \in Seq(Actions \cup {"reg", "trig"})
         /\ Len(<<m.action>> \o WordsIn[m.target]) >= 1
         /\ \A i \in 1 .. Len(<<m.action>> \o WordsIn[m.target]) :
              \/ i = 1 /\ (<<m.action>> \o WordsIn[m.target])[i] = m.action
              \/ (<<m.action>> \o WordsIn[m.target])[i] \in Range(WordsIn[m.target])
<1> DEFINE S == Actions \cup {"reg", "trig"}
           w == WordsIn[m.target]
<1>1. m.action \in Actions /\ w \in Seq({"reg", "trig"})
  BY CommandPathAssumption DEF Message
<1>2. w \in Seq(S) /\ <<m.action>> \in Seq(S) /\ Len(<<m.action>>) = 1 /\ Len(w) \in Nat
      /\ <<m.action>>[1] = m.action
  BY <1>1
<1> HIDE DEF w, S
<1>3. /\ <<m.action>> \o w \in Seq(S) /\ Len(<<m.action>> \o w) = 1 + Len(w)
      /\ (<<m.action>> \o w)[1] = m.action
      /\ \A i \in 2 .. 1 + Len(w) : (<<m.action>> \o w)[i] = w[i - 1] /\ i - 1 \in 1 .. Len(w)
  BY <1>2
<1>4. \A i \in 1 .. Len(w) : w[i] \in Range(w)
  BY <1>2 DEF Range
<1> QED BY <1>2, <1>3, <1>4 DEF w, S

\* The tokens of a message: each word in two halves.
LEMMA TokensAre ==
  ASSUME NEW m \in Message
  PROVE  /\ Tokens(m) \in Seq(Token) /\ Len(Tokens(m)) \in Nat /\ Len(Tokens(m)) >= 2
         /\ Tokens(m)[1].half = 1
         /\ \A k \in 1 .. Len(Tokens(m)) :
              /\ Tokens(m)[k].id = m.id
              /\ Tokens(m)[k].word = m.action \/ Tokens(m)[k].word \in Range(WordsIn[m.target])
              /\ Tokens(m)[k].half = 1 /\ k > 1 => Tokens(m)[k].word \in Range(WordsIn[m.target])
              /\ Tokens(m)[k].half = 1 =>
                   /\ k < Len(Tokens(m)) /\ Tokens(m)[k + 1].half = 2
                   /\ Tokens(m)[k + 1].word = Tokens(m)[k].word
              /\ Tokens(m)[k].half = 2 => k > 1 /\ Tokens(m)[k - 1].half = 1
<1> DEFINE words == <<m.action>> \o WordsIn[m.target]
           t(k) == [word |-> words[(k + 1) \div 2], half |-> 2 - (k % 2), id |-> m.id]
           n == Len(words)
<1>1. m.action # "none" /\ m.id \in Nat
  BY DEF Message, Actions
<1>2. /\ words \in Seq(Actions \cup {"reg", "trig"}) /\ n \in Nat /\ n >= 1
      /\ \A i \in 1 .. n : (i = 1 /\ words[i] = m.action) \/ words[i] \in Range(WordsIn[m.target])
  BY WordsAre
<1>3. Tokens(m) = [k \in 1 .. 2 * n |-> t(k)]
  BY <1>1 DEF Tokens
<1> HIDE DEF words, n
<1>4. \A k \in 1 .. 2 * n :
        /\ (k + 1) \div 2 \in 1 .. n
        /\ k % 2 = 1 => k < 2 * n /\ (k + 1) % 2 = 0 /\ ((k + 1) + 1) \div 2 = (k + 1) \div 2
                       /\ (k > 1 => (k + 1) \div 2 # 1)
        /\ k % 2 = 0 => k > 1 /\ (k - 1) % 2 = 1
        /\ k % 2 \in 0 .. 1
  BY <1>2
<1>5. \A k \in 1 .. 2 * n : words[(k + 1) \div 2] \in Actions \cup {"reg", "trig"}
  BY <1>2, <1>4 DEF n
<1>6. \A k \in 1 .. 2 * n : t(k) \in Token
  <2> TAKE k \in 1 .. 2 * n
  <2>1. 2 - (k % 2) \in 1 .. 2
    BY <1>4
  <2> QED BY <1>1, <1>5, <2>1 DEF Token
<1> DEFINE T == Tokens(m)
<1>7. 2 * n \in Nat /\ 2 * n >= 2
  BY <1>2
<1>8. T \in Seq(Token) /\ Len(T) = 2 * n
  <2> HIDE DEF t
  <2>1. T = [k \in 1 .. 2 * n |-> t(k)]
    BY <1>3
  <2> HIDE DEF T
  <2> QED BY <1>6, <1>7, <2>1
<1>9. \A k \in 1 .. 2 * n : /\ T[k].word = words[(k + 1) \div 2] /\ T[k].id = m.id
                            /\ T[k].half = 2 - (k % 2)
  BY <1>3
<1> HIDE DEF T, t
<1>10. \A k \in 1 .. 2 * n : (T[k].half = 1 <=> k % 2 = 1) /\ (T[k].half = 2 <=> k % 2 = 0)
  BY <1>4, <1>9
<1>11. T[1].half = 1
  BY <1>7, <1>10
<1>12. ASSUME NEW k \in 1 .. 2 * n
       PROVE  /\ T[k].word = m.action \/ T[k].word \in Range(WordsIn[m.target])
              /\ T[k].half = 1 /\ k > 1 => T[k].word \in Range(WordsIn[m.target])
  BY <1>2, <1>4, <1>9, <1>10
<1>13. ASSUME NEW k \in 1 .. 2 * n, T[k].half = 1
       PROVE  k < 2 * n /\ T[k + 1].half = 2 /\ T[k + 1].word = T[k].word
  <2>1. k % 2 = 1
    BY <1>10, <1>13
  <2>2. k < 2 * n /\ k + 1 \in 1 .. 2 * n /\ (k + 1) % 2 = 0
        /\ ((k + 1) + 1) \div 2 = (k + 1) \div 2
    BY <1>4, <1>7, <2>1
  <2> QED BY <1>9, <1>10, <2>2
<1>14. ASSUME NEW k \in 1 .. 2 * n, T[k].half = 2
       PROVE  k > 1 /\ T[k - 1].half = 1
  <2>1. k > 1 /\ k - 1 \in 1 .. 2 * n /\ (k - 1) % 2 = 1
    BY <1>4, <1>7, <1>10, <1>14
  <2> QED BY <1>10, <2>1
<1> QED BY <1>7, <1>8, <1>9, <1>11, <1>12, <1>13, <1>14 DEF T

\* What a read makes the board execute: nothing, or the word "trig" it found.
LEMMA TriggedIs ==
  ASSUME NEW b \in Seq(Token)
  PROVE  \/ Trigged(b) = <<>>
         \/ \E k \in 1 .. Len(b) : Starts(b[k]) /\ Trigged(b) = <<b[k].id>>
<1> SUFFICES ASSUME Trigged(b) # <<>>
             PROVE  \E k \in 1 .. Len(b) : Starts(b[k]) /\ Trigged(b) = <<b[k].id>>
  OBVIOUS
<1> DEFINE S == FoundAt(b, "trig")
<1>1. S # {} /\ Trigged(b) = <<b[First(S)].id>>
  BY DEF Trigged
<1>2. S \in SUBSET Nat
  BY DEF FoundAt
<1>3. First(S) \in S
  BY <1>1, <1>2, FirstIn
<1>4. First(S) \in 1 .. Len(b) - 1 /\ Starts(b[First(S)])
  BY <1>3, Zenon DEF FoundAt, Starts
<1>5. First(S) \in 1 .. Len(b)
  BY <1>4
<1> QED BY <1>1, <1>4, <1>5, Zenon

LEMMA NoOpHasNoTokens == Tokens(Server!NoOp) = <<>>
BY DEF Tokens, Server!NoOp

\* A message is never the empty mailbox.
LEMMA MessageIsNoNoOp == \A m \in Message : m # Server!NoOp
BY DEF Message, Actions, Server!NoOp

-------------------------------------------------------------------------------
(* Steps that only take from the line *)

\* A step after which the line is a stretch of what it was.
LEMMA Stretched ==
  ASSUME Honest, Sorted, Mailbox, NEW n \in Nat, Len(Line') \in Nat, Len(Line) \in Nat,
         \A k \in 1 .. Len(Line') : n + k \in 1 .. Len(Line) /\ Line'[k] = Line[n + k],
         UNCHANGED <<published, flag, op>>
  PROVE  /\ Honest'
         /\ \A j, k \in 1 .. Len(Line') :
              j < k /\ Starts(Line'[j]) /\ Starts(Line'[k]) => NotBefore(Line'[j].id, Line'[k].id)
         /\ flag' => \A k \in 1 .. Len(Line') : Line'[k].id < op'.id
<1>1. Honest'
  BY DEF Honest, Names
<1>2. ASSUME NEW j \in 1 .. Len(Line'), NEW k \in 1 .. Len(Line'), j < k
      PROVE  n + j < n + k /\ n + j \in 1 .. Len(Line) /\ n + k \in 1 .. Len(Line)
  BY <1>2
<1>3. \A j, k \in 1 .. Len(Line') :
        j < k /\ Starts(Line'[j]) /\ Starts(Line'[k]) => NotBefore(Line'[j].id, Line'[k].id)
  BY <1>2, Zenon DEF Sorted
<1>4. flag' => \A k \in 1 .. Len(Line') : Line'[k].id < op'.id
  BY DEF Mailbox
<1> QED BY <1>1, <1>3, <1>4

\* Which names hold a word does not change with the network.
LEMMA NamesStay ==
  ASSUME UNCHANGED published
  PROVE  /\ \A i, w : Names(i, w)' = Names(i, w)
         /\ \A i, j : NotBefore(i, j)' = NotBefore(i, j)
         /\ Triggers' = Triggers
BY DEF Names, NotBefore, Triggers

LEMMA DrivenStays ==
  ASSUME DrivenOnceInOrder, UNCHANGED <<published, executed>>
  PROVE  DrivenOnceInOrder'
BY DEF DrivenOnceInOrder, NotBefore, Names, Triggers

\* The WiFi module hands a token over: the line stays as it is.
LEMMA ReceiveStep == PathIInv /\ Receive => PathIInv'
<1> SUFFICES ASSUME PathIInv, Receive PROVE PathIInv'
  OBVIOUS
<1>1. /\ wire # <<>> /\ uartRx' = Append(uartRx, Head(wire)) /\ wire' = Tail(wire)
      /\ UNCHANGED <<executed, flag, op, published, overwritten, reset, mangled, reqs>>
  BY DEF Receive
<1>2. PathTypes /\ uartRx \in Seq(Token) /\ wire \in Seq(Token)
  BY DEF PathIInv, PathTypes
<1>3. uartRx' \in Seq(Token) /\ wire' \in Seq(Token)
  BY <1>1, <1>2
<1>4. Line' = Line
  BY <1>1, <1>2, HandedOver DEF Line
<1>5. PathTypes'
  BY <1>1, <1>2, <1>3 DEF PathTypes
<1>6. OnTheWay' = OnTheWay
  <2>1. Ids(uartRx) \cup Ids(wire) = Ids(Line) /\ Ids(uartRx') \cup Ids(wire') = Ids(Line')
    BY <1>2, <1>3, JoinIs DEF Line
  <2>2. Ids(Line') = Ids(Line)
    BY <1>4 DEF Ids
  <2> QED BY <1>1, <2>1, <2>2 DEF OnTheWay, InMailbox
<1>7. Triggers' = Triggers /\ Executed' = Executed /\ Calm' = Calm
  BY <1>1 DEF Triggers, Executed, Calm
<1>8. LostForKnownCause'
  BY <1>1, <1>6, <1>7 DEF PathIInv, LostForKnownCause, Names
<1>9. DrivenOnceInOrder'
  BY <1>1, DrivenStays DEF PathIInv
<1>10. Honest' /\ Sorted' /\ Mailbox'
  BY <1>1, <1>4 DEF PathIInv, Honest, Sorted, Mailbox, NotBefore, Names
<1>11. Whole'
  BY <1>4, <1>7 DEF PathIInv, Whole
<1> QED BY <1>5, <1>8, <1>9, <1>10, <1>11 DEF PathIInv

\* The connection breaks: what is in the ring stays.
LEMMA ResetStep == PathIInv /\ Reset => PathIInv'
<1> SUFFICES ASSUME PathIInv, Reset PROVE PathIInv'
  OBVIOUS
<1>1. /\ wire' = <<>> /\ reqs' = 0 /\ reset' = TRUE
      /\ UNCHANGED <<uartRx, executed, flag, op, published, overwritten, mangled>>
  BY DEF Reset
<1>2. uartRx \in Seq(Token) /\ wire \in Seq(Token)
  BY DEF PathIInv, PathTypes
<1>3. PathTypes'
  BY <1>1 DEF PathIInv, PathTypes
<1>4. Line' = uartRx
  BY <1>1, <1>2, ConcatEmptySeq DEF Line
<1>5. /\ Len(Line') \in Nat /\ Len(Line) \in Nat
      /\ \A k \in 1 .. Len(Line') : 0 + k \in 1 .. Len(Line) /\ Line'[k] = Line[0 + k]
  BY <1>2, <1>4, JoinIs DEF Line
<1>6. /\ Honest'
      /\ \A j, k \in 1 .. Len(Line') :
           j < k /\ Starts(Line'[j]) /\ Starts(Line'[k]) => NotBefore(Line'[j].id, Line'[k].id)
      /\ flag' => \A k \in 1 .. Len(Line') : Line'[k].id < op'.id
  <2>1. Honest /\ Sorted /\ Mailbox /\ 0 \in Nat /\ UNCHANGED <<published, flag, op>>
    BY <1>1 DEF PathIInv
  <2> QED BY <1>5, <2>1, Stretched
<1>7. Sorted'
  BY <1>1, <1>5, <1>6 DEF PathIInv, Sorted, Starts, NotBefore, Names
<1>8. Mailbox'
  BY <1>1, <1>6 DEF PathIInv, Mailbox
<1>9. DrivenOnceInOrder'
  BY <1>1, DrivenStays DEF PathIInv
<1>10. ~Calm'
  BY <1>1 DEF Calm
<1>11. Whole' /\ LostForKnownCause'
  BY <1>10 DEF Whole, LostForKnownCause
<1> QED BY <1>3, <1>6, <1>7, <1>8, <1>9, <1>11 DEF PathIInv

\* Nothing of the path changes, but perhaps the number of polls under way.
LEMMA PathStays ==
  ASSUME PathIInv, reqs' \in Nat,
         UNCHANGED <<uartRx, wire, executed, flag, op, published, overwritten, reset, mangled>>
  PROVE  PathIInv'
<1>1. /\ Line' = Line /\ OnTheWay' = OnTheWay
      /\ Triggers' = Triggers /\ Executed' = Executed /\ Calm' = Calm
  BY DEF Line, OnTheWay, InMailbox, Ids, Triggers, Executed, Calm
<1>2. PathTypes'
  BY DEF PathIInv, PathTypes
<1>3. Honest' /\ Sorted' /\ Mailbox'
  BY <1>1 DEF PathIInv, Honest, Sorted, Mailbox, NotBefore, Names
<1>4. DrivenOnceInOrder'
  BY DrivenStays DEF PathIInv
<1>5. Whole'
  BY <1>1 DEF PathIInv, Whole
<1>6. LostForKnownCause'
  BY <1>1 DEF PathIInv, LostForKnownCause, Names
<1> QED BY <1>2, <1>3, <1>4, <1>5, <1>6 DEF PathIInv

-------------------------------------------------------------------------------
(* The server *)

\* A poll is answered with what the mailbox holds.
LEMMA ServeStep == PathIInv /\ ServePoll => PathIInv'
<1> SUFFICES ASSUME PathIInv, ServePoll PROVE PathIInv'
  OBVIOUS
<1>1. /\ reqs > 0 /\ reqs' = reqs - 1
      /\ wire' = wire \o Tokens(IF flag THEN op ELSE Server!NoOp)
      /\ flag' = FALSE /\ op' = Server!NoOp
      /\ UNCHANGED <<uartRx, executed, published, overwritten, reset, mangled>>
  BY DEF ServePoll, Server!HttpRoot
<1>2. /\ uartRx \in Seq(Token) /\ wire \in Seq(Token) /\ reqs' \in Nat
      /\ flag \in BOOLEAN /\ op \in Message \cup {Server!NoOp}
  BY <1>1 DEF PathIInv, PathTypes
<1>3. CASE ~flag
  <2>1. wire' = wire
    BY <1>1, <1>2, <1>3, NoOpHasNoTokens, ConcatEmptySeq
  <2>2. flag' = flag /\ op' = op
    BY <1>1, <1>2, <1>3 DEF PathIInv, Mailbox
  <2> QED BY <1>1, <1>2, <2>1, <2>2, PathStays
<1>4. CASE flag
  <2> DEFINE T == Tokens(op)
  <2>1. /\ op \in Message /\ op.id \in 1 .. Len(published) /\ published[op.id] = op
        /\ \A k \in 1 .. Len(Line) : Line[k].id < op.id
        /\ \A e \in 1 .. Len(executed) : executed[e] < op.id
    BY <1>2, <1>4 DEF PathIInv, Mailbox
  <2>2. /\ T \in Seq(Token) /\ Len(T) \in Nat /\ Len(T) >= 2
        /\ T[1].half = 1
        /\ \A k \in 1 .. Len(T) :
             /\ T[k].id = op.id
             /\ T[k].word = op.action \/ Names(op.id, T[k].word)
             /\ T[k].half = 1 /\ k > 1 => Names(op.id, T[k].word)
             /\ T[k].half = 1 =>
                  k < Len(T) /\ T[k + 1].half = 2 /\ T[k + 1].word = T[k].word
             /\ T[k].half = 2 => k > 1 /\ T[k - 1].half = 1
    BY <2>1, TokensAre DEF Names
  <2>3. wire' = wire \o T
    BY <1>1, <1>4
  <2> HIDE DEF T
  <2>4. Line' = Line \o T
    <3>1. (uartRx \o wire) \o T = uartRx \o (wire \o T)
      <4>1. T \in Seq(Token)
        BY <2>2
      <4> QED BY <1>2, <4>1, ConcatAssociative
    <3>2. Line' = uartRx \o (wire \o T)
      BY <1>1, <2>3, Zenon DEF Line
    <3> QED BY <3>1, <3>2, Zenon DEF Line
  <2> DEFINE L == Len(Line)
  <2>5. /\ L \in Nat /\ Len(Line') = L + Len(T)
        /\ \A k \in 1 .. L : Line'[k] = Line[k]
        /\ \A k \in 1 .. Len(T) : Line'[L + k] = T[k]
        /\ Ids(Line') = Ids(Line) \cup Ids(T)
    <3>1. Line \in Seq(Token)
      BY <1>2, JoinIs DEF Line
    <3> QED BY <2>2, <2>4, <3>1, JoinIs
  <2>6. \A k \in 1 .. Len(Line') : k \notin 1 .. L => k - L \in 1 .. Len(T) /\ Line'[k] = T[k - L]
    <3> SUFFICES ASSUME NEW k \in 1 .. Len(Line'), k \notin 1 .. L
                 PROVE  k - L \in 1 .. Len(T) /\ Line'[k] = T[k - L]
      OBVIOUS
    <3>1. k - L \in 1 .. Len(T) /\ L + (k - L) = k
      BY <2>2, <2>5
    <3> QED BY <2>5, <3>1
  <2>7. Calm' = Calm /\ Triggers' = Triggers /\ Executed' = Executed
    BY <1>1 DEF Calm, Triggers, Executed
  <2>8. PathTypes'
    <3>1. wire' \in Seq(Token)
      BY <1>2, <2>2, <2>3
    <3> QED BY <1>1, <1>2, <3>1 DEF PathIInv, PathTypes
  <2>9. Honest'
    <3> SUFFICES ASSUME NEW k \in 1 .. Len(Line')
                 PROVE  /\ Line'[k].id \in 1 .. Len(published)
                        /\ \/ Line'[k].word = published[Line'[k].id].action
                           \/ Names(Line'[k].id, Line'[k].word)
      BY <1>1, NamesStay DEF Honest
    <3>1. CASE k \in 1 .. L
      BY <2>5, <3>1 DEF PathIInv, Honest
    <3>2. CASE k \notin 1 .. L
      <4>1. k - L \in 1 .. Len(T) /\ Line'[k] = T[k - L]
        BY <2>6, <3>2
      <4> QED BY <2>1, <2>2, <4>1
    <3> QED BY <3>1, <3>2
  <2>10. Sorted'
    <3>1. ASSUME NEW j \in 1 .. Len(Line'), NEW k \in 1 .. Len(Line'),
                 j < k, Starts(Line'[j]), Starts(Line'[k])
          PROVE  NotBefore(Line'[j].id, Line'[k].id)
      <4>1. CASE k \in 1 .. L
        <5>1. j \in 1 .. L
          BY <2>5, <3>1, <4>1
        <5> QED BY <2>5, <3>1, <4>1, <5>1 DEF PathIInv, Sorted
      <4>2. CASE k \notin 1 .. L
        <5>1. k - L \in 1 .. Len(T) /\ Line'[k] = T[k - L]
          BY <2>6, <4>2
        <5>2. CASE j \in 1 .. L
          <6>1. Line'[j].id < op.id
            BY <2>1, <2>5, <5>2
          <6>2. Line'[k].id = op.id
            BY <2>2, <5>1
          <6> QED BY <6>1, <6>2 DEF NotBefore
        <5>3. CASE j \notin 1 .. L
          <6>1. j - L \in 1 .. Len(T) /\ Line'[j] = T[j - L]
            BY <2>6, <5>3
          <6>2. k - L > 1 /\ T[k - L].half = 1 /\ T[k - L].word = "trig"
            BY <2>5, <3>1, <5>1, <6>1 DEF Starts
          <6> QED BY <2>2, <5>1, <6>1, <6>2 DEF NotBefore
        <5> QED BY <5>2, <5>3
      <4> QED BY <4>1, <4>2
    <3>2. ASSUME NEW e \in 1 .. Len(executed), NEW k \in 1 .. Len(Line'), Starts(Line'[k])
          PROVE  NotBefore(executed[e], Line'[k].id)
      <4>1. CASE k \in 1 .. L
        BY <2>5, <3>2, <4>1 DEF PathIInv, Sorted
      <4>2. CASE k \notin 1 .. L
        <5>1. Line'[k].id = op.id
          BY <2>2, <2>6, <4>2
        <5> QED BY <2>1, <5>1 DEF NotBefore
      <4> QED BY <4>1, <4>2
    <3> QED BY <1>1, <3>1, <3>2 DEF Sorted, Starts, NotBefore, Names
  <2>11. Mailbox'
    BY <1>1 DEF Mailbox
  <2>12. DrivenOnceInOrder'
    BY <1>1, DrivenStays DEF PathIInv
  <2>13. Whole'
    <3> SUFFICES ASSUME Calm
                 PROVE  /\ Line' # <<>> => Line'[1].half # 2
                        /\ \A k \in 1 .. Len(Line') :
                             Line'[k].half = 1 =>
                               /\ k < Len(Line') /\ Line'[k + 1].half = 2
                               /\ Line'[k + 1].id = Line'[k].id /\ Line'[k + 1].word = Line'[k].word
                        /\ \A k \in 2 .. Len(Line') : Line'[k].half = 2 => Line'[k - 1].half = 1
      BY <2>7 DEF Whole
    <3>1. Line'[1].half # 2
      <4>1. CASE L = 0
        BY <2>2, <2>5, <4>1
      <4>2. CASE L > 0
        <5>1. Line # <<>> /\ 1 \in 1 .. L
          BY <2>5, <4>2, EmptySeq
        <5> QED BY <2>5, <5>1 DEF PathIInv, Whole
      <4> QED BY <2>5, <4>1, <4>2
    <3>2. ASSUME NEW k \in 1 .. Len(Line'), Line'[k].half = 1
          PROVE  /\ k < Len(Line') /\ Line'[k + 1].half = 2
                 /\ Line'[k + 1].id = Line'[k].id /\ Line'[k + 1].word = Line'[k].word
      <4>1. CASE k \in 1 .. L
        <5>1. /\ k < L /\ Line[k + 1].half = 2
              /\ Line[k + 1].id = Line[k].id /\ Line[k + 1].word = Line[k].word
          BY <2>5, <3>2, <4>1 DEF PathIInv, Whole
        <5>2. k + 1 \in 1 .. L /\ k < Len(Line')
          BY <2>2, <2>5, <4>1, <5>1
        <5> QED BY <2>5, <4>1, <5>1, <5>2
      <4>2. CASE k \notin 1 .. L
        <5>1. k - L \in 1 .. Len(T) /\ Line'[k] = T[k - L]
          BY <2>6, <4>2
        <5>2. /\ k - L < Len(T) /\ T[(k - L) + 1].half = 2 /\ T[(k - L) + 1].word = T[k - L].word
              /\ (k - L) + 1 \in 1 .. Len(T)
          <6>1. T[k - L].half = 1
            BY <3>2, <5>1
          <6>2. /\ k - L < Len(T) /\ T[(k - L) + 1].half = 2
                /\ T[(k - L) + 1].word = T[k - L].word
            BY <2>2, <5>1, <6>1
          <6> QED BY <2>2, <5>1, <6>2
        <5>3. k < Len(Line') /\ Line'[k + 1] = T[(k - L) + 1]
          <6>1. L + ((k - L) + 1) = k + 1 /\ k < Len(Line')
            BY <2>2, <2>5, <5>2
          <6> QED BY <2>5, <5>2, <6>1
        <5> QED BY <2>2, <5>1, <5>2, <5>3
      <4> QED BY <4>1, <4>2
    <3>3. ASSUME NEW k \in 2 .. Len(Line'), Line'[k].half = 2
          PROVE  Line'[k - 1].half = 1
      <4>1. CASE k \in 1 .. L
        <5>1. k \in 2 .. L /\ k - 1 \in 1 .. L
          BY <2>5, <4>1
        <5> QED BY <2>5, <3>3, <4>1, <5>1 DEF PathIInv, Whole
      <4>2. CASE k \notin 1 .. L
        <5>1. k \in 1 .. Len(Line')
          BY <2>5
        <5>2. k - L \in 1 .. Len(T) /\ Line'[k] = T[k - L]
          BY <2>6, <4>2, <5>1
        <5>3. k - L > 1 /\ T[(k - L) - 1].half = 1 /\ (k - L) - 1 \in 1 .. Len(T)
          BY <2>2, <3>3, <5>2
        <5>4. Line'[k - 1] = T[(k - L) - 1]
          <6>1. L + ((k - L) - 1) = k - 1
            BY <2>5
          <6> QED BY <2>5, <5>3, <6>1
        <5> QED BY <5>3, <5>4
      <4> QED BY <4>1, <4>2
    <3> QED BY <3>1, <3>2, <3>3
  <2>14. OnTheWay \subseteq OnTheWay'
    <3>1. Ids(uartRx) \cup Ids(wire) = Ids(Line) /\ Ids(uartRx') \cup Ids(wire') = Ids(Line')
      <4>1. uartRx' \in Seq(Token) /\ wire' \in Seq(Token)
        BY <2>8 DEF PathTypes
      <4> QED BY <1>2, <4>1, JoinIs DEF Line
    <3>2. op.id \in Ids(T)
      <4>1. 1 \in 1 .. Len(T) /\ T[1].id = op.id
        BY <2>2
      <4> QED BY <4>1 DEF Ids
    <3> QED BY <2>5, <3>1, <3>2 DEF OnTheWay, InMailbox
  <2>15. LostForKnownCause'
    BY <1>1, <2>7, <2>14, NamesStay DEF PathIInv, LostForKnownCause
  <2> QED BY <2>8, <2>9, <2>10, <2>11, <2>12, <2>13, <2>15 DEF PathIInv
<1> QED BY <1>2, <1>3, <1>4

\* A message goes into the mailbox, over whatever is there.
LEMMA PublishStep ==
  ASSUME NEW action \in Actions, NEW target \in Targets
  PROVE  PathIInv /\ Publish(action, target) => PathIInv'
<1> SUFFICES ASSUME PathIInv, Publish(action, target) PROVE PathIInv'
  OBVIOUS
<1> DEFINE n == Len(published)
           m == [action |-> action, target |-> target, id |-> n + 1]
<1>1. /\ published' = Append(published, m) /\ flag' = TRUE /\ op' = m
      /\ overwritten' = (overwritten \/ flag)
      /\ UNCHANGED <<uartRx, executed, reqs, wire, reset, mangled>>
  BY DEF Publish, Server!PublishedArc, loopVars, pollVars
<1>2. published \in Seq(Message) /\ n \in Nat /\ flag \in BOOLEAN /\ overwritten \in BOOLEAN
  BY DEF PathIInv, PathTypes
<1>3. m \in Message /\ m.id = n + 1
  BY <1>2 DEF Message
<1>4. /\ published' \in Seq(Message) /\ Len(published') = n + 1 /\ published'[n + 1] = m
      /\ \A i \in 1 .. n : published'[i] = published[i]
  BY <1>1, <1>2, <1>3
<1> HIDE DEF m
<1>5. Line' = Line /\ Executed' = Executed
  BY <1>1 DEF Line, Executed
<1>6. PathTypes'
  BY <1>1, <1>2, <1>3, <1>4 DEF PathIInv, PathTypes
<1>7. Honest'
  <2> SUFFICES ASSUME NEW k \in 1 .. Len(Line)
               PROVE  /\ Line[k].id \in 1 .. n + 1
                      /\ \/ Line[k].word = published'[Line[k].id].action
                         \/ Names(Line[k].id, Line[k].word)'
    BY <1>4, <1>5 DEF Honest, Names
  <2>1. Line[k].id \in 1 .. n /\ Line[k].id \in 1 .. n + 1
    BY <1>2 DEF PathIInv, Honest
  <2>2. published'[Line[k].id] = published[Line[k].id]
    BY <1>4, <2>1
  <2>3. Names(Line[k].id, Line[k].word)' <=> Names(Line[k].id, Line[k].word)
    BY <1>1, <2>2 DEF Names, Line
  <2> QED BY <2>1, <2>2, <2>3 DEF PathIInv, Honest
<1>9. Triggers \subseteq 1 .. n /\ Triggers \subseteq Triggers'
  BY <1>2, <1>4 DEF Triggers
<1>10. \A e \in 1 .. Len(executed) : executed[e] \in 1 .. n
  BY <1>9 DEF PathIInv, DrivenOnceInOrder
<1>16. \A i \in 1 .. n : \A w : Names(i, w)' = Names(i, w)
  BY <1>4 DEF Names
<1>8. Sorted'
  <2>1. \A k \in 1 .. Len(Line) : Line[k].id \in 1 .. n
    BY DEF PathIInv, Honest
  <2>2. ASSUME NEW j \in 1 .. Len(Line), NEW k \in 1 .. Len(Line),
               j < k, Starts(Line[j]), Starts(Line[k])
        PROVE  Line[j].id < Line[k].id \/ (Line[j].id = Line[k].id /\ "trig" \in Range(WordsIn[published'[Line[j].id].target]))
    BY <1>4, <2>1, <2>2 DEF PathIInv, Sorted, NotBefore, Names
  <2>3. ASSUME NEW e \in 1 .. Len(executed), NEW k \in 1 .. Len(Line), Starts(Line[k])
        PROVE  executed[e] < Line[k].id \/ (executed[e] = Line[k].id /\ "trig" \in Range(WordsIn[published'[executed[e]].target]))
    BY <1>4, <1>10, <2>3 DEF PathIInv, Sorted, NotBefore, Names
  <2> QED BY <1>1, <1>5, <2>2, <2>3 DEF Sorted, Starts, NotBefore, Names
<1>11. Mailbox'
  <2>1. m # Server!NoOp
    BY <1>3, MessageIsNoNoOp
  <2>2. \A k \in 1 .. Len(Line) : Line[k].id < m.id
    BY <1>2, <1>3 DEF PathIInv, Honest
  <2>3. \A e \in 1 .. Len(executed) : executed[e] < m.id
    BY <1>2, <1>3, <1>10
  <2>4. m.id \in 1 .. Len(published') /\ published'[m.id] = m
    BY <1>2, <1>3, <1>4
  <2> QED BY <1>1, <1>5, <2>1, <2>2, <2>3, <2>4 DEF Mailbox
<1>12. DrivenOnceInOrder'
  <2>1. ASSUME NEW e \in 1 .. Len(executed)
        PROVE  \/ executed[e] \in Triggers'
               \/ executed[e] \in 1 .. n + 1 /\ "trig" \in Range(WordsIn[published'[executed[e]].target])
    <3>1. executed[e] \in Triggers \/ Names(executed[e], "trig")
      BY DEF PathIInv, DrivenOnceInOrder
    <3>2. executed[e] \in 1 .. n + 1 /\ published'[executed[e]] = published[executed[e]]
      BY <1>2, <1>4, <1>10
    <3> QED BY <1>9, <3>1, <3>2 DEF Names
  <2>2. ASSUME NEW d \in 1 .. Len(executed), NEW e \in 1 .. Len(executed), d < e
        PROVE  executed[d] < executed[e] \/ (executed[d] = executed[e] /\ "trig" \in Range(WordsIn[published'[executed[d]].target]))
    BY <1>4, <1>10, <2>2 DEF PathIInv, DrivenOnceInOrder, NotBefore, Names
  <2> QED BY <1>1, <1>4, <2>1, <2>2 DEF DrivenOnceInOrder, NotBefore, Names
<1>13. Calm' => Calm /\ ~flag
  BY <1>1, <1>2 DEF Calm
<1>14. Whole'
  BY <1>5, <1>13 DEF PathIInv, Whole
<1>15. LostForKnownCause'
  <2> SUFFICES ASSUME Calm', NEW i \in Triggers', ~Names(i, "reg")'
               PROVE  i \in OnTheWay' \cup Executed'
    BY DEF LostForKnownCause
  <2>1. CASE i = n + 1
    <3>1. InMailbox' = {m.id}
      BY <1>1, <1>3, MessageIsNoNoOp DEF InMailbox
    <3> QED BY <1>3, <2>1, <3>1 DEF OnTheWay
  <2>2. CASE i # n + 1
    <3>1. i \in 1 .. n
      BY <1>2, <1>4, <2>2 DEF Triggers
    <3>2. i \in Triggers /\ ~Names(i, "reg")
      BY <1>4, <1>16, <3>1 DEF Triggers
    <3>3. i \in OnTheWay \cup Executed
      BY <1>13, <3>2 DEF PathIInv, LostForKnownCause
    <3>4. InMailbox = {}
      BY <1>13 DEF PathIInv, Mailbox, InMailbox
    <3>5. Ids(wire') = Ids(wire) /\ Ids(uartRx') = Ids(uartRx)
      BY <1>1
    <3> QED BY <1>5, <3>3, <3>4, <3>5 DEF OnTheWay
  <2> QED BY <2>1, <2>2
<1> QED BY <1>6, <1>7, <1>8, <1>11, <1>12, <1>14, <1>15 DEF PathIInv

-------------------------------------------------------------------------------
(* The board *)

\* A read that does not cut a word, of tokens of one message with a plain name,
\* makes the board execute that message's trigger.
LEMMA ReadExecutes ==
  ASSUME PathIInv, Calm, ~Mangled(uartRx),
         NEW i \in Triggers, ~Names(i, "reg"), i \in Ids(uartRx)
  PROVE  Trigged(uartRx) = <<i>>
<1> DEFINE n == Len(uartRx)
<1>1. /\ uartRx \in Seq(Token) /\ wire \in Seq(Token) /\ n \in Nat
      /\ Len(Line) \in Nat /\ n <= Len(Line)
      /\ \A k \in 1 .. n : k \in 1 .. Len(Line) /\ Line[k] = uartRx[k]
  <2>1. uartRx \in Seq(Token) /\ wire \in Seq(Token)
    BY DEF PathIInv, PathTypes
  <2> QED BY <2>1, JoinIs DEF Line
<1>2. uartRx # <<>> /\ n >= 1
  BY <1>1, EmptySeq DEF Ids
<1>3. /\ uartRx[n].half # 1 /\ uartRx[1].half # 2
      /\ ~(Cardinality(Ids(uartRx)) > 1)
  <2>1. Head(uartRx) = uartRx[1]
    BY <1>1, <1>2
  <2> QED BY <1>2, <2>1 DEF Mangled, Last
<1>4. \A k \in 1 .. n : uartRx[k].id = i
  <2> TAKE k \in 1 .. n
  <2>1. uartRx[k].id \in Ids(uartRx)
    BY DEF Ids
  <2> QED BY <1>1, <1>3, <2>1, OneId
<1>5. published[i].action = "trig"
  BY DEF Triggers
<1>6. \A k \in 1 .. n : uartRx[k].half \in {1, 2} /\ uartRx[k].word = "trig"
  <2> TAKE k \in 1 .. n
  <2>1. uartRx[k] \in Token
    BY <1>1
  <2>2. uartRx[k].half \in 1 .. 2
    BY <2>1, HalfIs
  <2>3. uartRx[k].word = published[i].action \/ Names(i, uartRx[k].word)
    BY <1>1, <1>4 DEF PathIInv, Honest
  <2>4. \A w : Names(i, w) => w \in {"reg", "trig"}
    <3>1. published[i].target \in Targets
      <4>1. published \in Seq(Message) /\ i \in 1 .. Len(published)
        BY DEF PathIInv, PathTypes, Triggers
      <4>2. published[i] \in Message
        BY <4>1
      <4> QED BY <4>2 DEF Message
    <3>2. WordsIn[published[i].target] \in Seq({"reg", "trig"})
      BY <3>1, CommandPathAssumption
    <3>3. \A w \in Range(WordsIn[published[i].target]) : w \in {"reg", "trig"}
      BY <3>2 DEF Range
    <3> QED BY <3>3 DEF Names
  <2> QED BY <1>5, <2>2, <2>3, <2>4
<1>7. uartRx[1].half = 1 /\ 1 < n
  BY <1>2, <1>3, <1>6
<1>8. uartRx[2].half = 2
  <2>1. Line[1].half = 1 /\ 1 \in 1 .. Len(Line) /\ 2 \in 1 .. n /\ 1 + 1 = 2
    BY <1>1, <1>2, <1>7
  <2>2. Line[2].half = 2
    BY <2>1 DEF PathIInv, Whole
  <2> QED BY <1>1, <2>1, <2>2
<1>9. 1 \in FoundAt(uartRx, "trig")
  <2>1. 1 \in 1 .. n - 1 /\ 1 \in 1 .. n /\ 2 \in 1 .. n /\ 1 + 1 = 2
    BY <1>1, <1>7
  <2> QED BY <1>6, <1>7, <1>8, <2>1 DEF FoundAt
<1>10. FoundAt(uartRx, "reg") = {}
  <2>1. \A k \in 1 .. n - 1 : uartRx[k].word # "reg"
    BY <1>1, <1>6
  <2> QED BY <2>1 DEF FoundAt
<1>11. Trigged(uartRx) # <<>>
  BY <1>9, <1>10 DEF Trigged
<1>12. PICK k \in 1 .. n : Trigged(uartRx) = <<uartRx[k].id>>
  BY <1>1, <1>11, TriggedIs
<1> QED BY <1>4, <1>12

\* The read of a poll.
LEMMA ReadStep ==
  ASSUME PathIInv, reqs' \in Nat, uartRx' = <<>>,
         executed' = executed \o Trigged(uartRx),
         mangled' = (mangled \/ Mangled(uartRx)),
         UNCHANGED <<wire, flag, op, published, overwritten, reset>>
  PROVE  PathIInv'
<1> DEFINE n == Len(uartRx)
<1>1. /\ uartRx \in Seq(Token) /\ wire \in Seq(Token) /\ executed \in Seq(Nat)
      /\ n \in Nat /\ Len(executed) \in Nat
  BY DEF PathIInv, PathTypes
<1>2. Line' = wire
  BY <1>1, ConcatEmptySeq DEF Line
<1>3. /\ Len(Line') \in Nat /\ Len(Line) \in Nat /\ Len(Line) = n + Len(Line')
      /\ \A k \in 1 .. Len(Line') : n + k \in 1 .. Len(Line) /\ Line'[k] = Line[n + k]
      /\ \A k \in 1 .. n : k \in 1 .. Len(Line) /\ Line[k] = uartRx[k]
  BY <1>1, <1>2, JoinIs DEF Line
<1> HIDE DEF n
<1>4. /\ Honest'
      /\ \A j, k \in 1 .. Len(Line') :
           j < k /\ Starts(Line'[j]) /\ Starts(Line'[k]) => NotBefore(Line'[j].id, Line'[k].id)
      /\ flag' => \A k \in 1 .. Len(Line') : Line'[k].id < op'.id
  <2>1. Honest /\ Sorted /\ Mailbox
    BY DEF PathIInv
  <2> QED BY <1>1, <1>3, <2>1, Stretched
<1>5. /\ Triggers' = Triggers
      /\ \A i, w : Names(i, w)' = Names(i, w)
      /\ \A i, j : NotBefore(i, j)' = NotBefore(i, j)
  BY NamesStay
\* What is executed was published, is newer than what was executed before, and
\* older than what is still to come.
<1>6. /\ executed' \in Seq(Nat)
      /\ Executed \subseteq Executed'
      /\ DrivenOnceInOrder'
      /\ \A e \in 1 .. Len(executed'), k \in 1 .. Len(Line') :
           Starts(Line'[k]) => NotBefore(executed'[e], Line'[k].id)
      /\ flag => \A e \in 1 .. Len(executed') : executed'[e] < op.id
  <2>1. CASE Trigged(uartRx) = <<>>
    <3>1. executed' = executed
      BY <1>1, <2>1, ConcatEmptySeq
    <3>2. \A e \in 1 .. Len(executed), k \in 1 .. Len(Line') :
            Starts(Line'[k]) => NotBefore(executed[e], Line'[k].id)
      BY <1>3 DEF PathIInv, Sorted
    <3>3. DrivenOnceInOrder'
      BY <3>1, DrivenStays DEF PathIInv
    <3> QED BY <1>1, <3>1, <3>2, <3>3 DEF PathIInv, Executed, Mailbox
  <2>2. CASE Trigged(uartRx) # <<>>
    <3>1. PICK h \in 1 .. n : Starts(uartRx[h]) /\ Trigged(uartRx) = <<uartRx[h].id>>
      BY <1>1, <2>2, TriggedIs DEF n
    <3> DEFINE x == Line[h].id
    <3>2. h \in 1 .. Len(Line) /\ Line[h] = uartRx[h] /\ h \in Nat /\ h <= n
      BY <1>1, <1>3
    <3>3. Starts(Line[h]) /\ Line[h].word = "trig"
      BY <3>1, <3>2 DEF Starts
    <3>4. /\ x \in Triggers \/ (x \in 1 .. Len(published) /\ Names(x, "trig"))
          /\ x \in Nat
      BY <3>2, <3>3 DEF PathIInv, Honest, Triggers
    <3>5. /\ \A e \in 1 .. Len(executed) : NotBefore(executed[e], x)
          /\ \A k \in 1 .. Len(Line') : Starts(Line'[k]) => NotBefore(x, Line'[k].id)
          /\ flag => x < op.id
      <4>1. \A e \in 1 .. Len(executed) : NotBefore(executed[e], x)
        BY <3>2, <3>3 DEF PathIInv, Sorted
      <4>2. ASSUME NEW k \in 1 .. Len(Line'), Starts(Line'[k]) PROVE NotBefore(x, Line'[k].id)
        <5>1. n + k \in 1 .. Len(Line) /\ Line'[k] = Line[n + k] /\ h < n + k
          BY <1>1, <1>3, <3>2
        <5> QED BY <3>2, <3>3, <4>2, <5>1 DEF PathIInv, Sorted
      <4>3. flag => x < op.id
        BY <3>2 DEF PathIInv, Mailbox
      <4> QED BY <4>1, <4>2, <4>3
    <3> HIDE DEF x
    <3>6. executed' = Append(executed, x)
      <4>1. executed' = executed \o <<x>>
        BY <3>1, <3>2 DEF x
      <4>2. executed \o <<x>> = Append(executed, x)
        BY <1>1, <3>4, AppendedIs
      <4> QED BY <4>1, <4>2
    <3>7. /\ executed' \in Seq(Nat) /\ Len(executed') = Len(executed) + 1
          /\ executed'[Len(executed) + 1] = x
          /\ \A e \in 1 .. Len(executed) : executed'[e] = executed[e]
      BY <1>1, <3>4, <3>6
    <3>8. \A e \in 1 .. Len(executed') : e \in 1 .. Len(executed) \/ executed'[e] = x
      BY <1>1, <3>7
    <3>9. Executed \subseteq Executed'
      <4>1. \A e \in 1 .. Len(executed) : e \in 1 .. Len(executed')
        BY <1>1, <3>7
      <4> QED BY <3>7, <4>1 DEF Executed
    <3>10. DrivenOnceInOrder'
      <4>1. \A e \in 1 .. Len(executed') :
              \/ executed'[e] \in Triggers
              \/ executed'[e] \in 1 .. Len(published) /\ Names(executed'[e], "trig")
        BY <3>4, <3>7, <3>8 DEF PathIInv, DrivenOnceInOrder
      <4>2. ASSUME NEW i \in 1 .. Len(executed'), NEW j \in 1 .. Len(executed'), i < j
            PROVE  NotBefore(executed'[i], executed'[j])
        <5>1. i \in 1 .. Len(executed)
          BY <1>1, <3>7, <4>2
        <5>2. CASE j \in 1 .. Len(executed)
          BY <3>7, <4>2, <5>1, <5>2 DEF PathIInv, DrivenOnceInOrder
        <5>3. CASE executed'[j] = x
          BY <3>5, <3>7, <5>1, <5>3
        <5> QED BY <3>8, <5>2, <5>3
      <4> QED BY <4>1, <4>2 DEF DrivenOnceInOrder, Triggers, NotBefore, Names
    <3>11. \A e \in 1 .. Len(executed'), k \in 1 .. Len(Line') :
             Starts(Line'[k]) => NotBefore(executed'[e], Line'[k].id)
      BY <1>3, <3>5, <3>7, <3>8 DEF PathIInv, Sorted
    <3>12. flag => \A e \in 1 .. Len(executed') : executed'[e] < op.id
      BY <3>5, <3>7, <3>8 DEF PathIInv, Mailbox
    <3> QED BY <3>7, <3>9, <3>10, <3>11, <3>12
  <2> QED BY <2>1, <2>2
<1>7. PathTypes'
  <2>1. mangled' \in BOOLEAN
    BY DEF Mangled
  <2> QED BY <1>6, <2>1 DEF PathIInv, PathTypes
<1>8. Sorted' /\ Mailbox'
  <2>2. Sorted'
    BY <1>4, <1>6 DEF Sorted, Starts, NotBefore, Names
  <2>3. Mailbox'
    BY <1>4, <1>6 DEF PathIInv, Mailbox
  <2> QED BY <2>2, <2>3
<1>9. Calm' => Calm /\ ~Mangled(uartRx)
  BY DEF Calm, Mangled, PathIInv, PathTypes
<1>10. Whole'
  <2> SUFFICES ASSUME Calm, ~Mangled(uartRx)
               PROVE  /\ Line' # <<>> => Line'[1].half # 2
                      /\ \A k \in 1 .. Len(Line') :
                           Line'[k].half = 1 =>
                             /\ k < Len(Line') /\ Line'[k + 1].half = 2
                             /\ Line'[k + 1].id = Line'[k].id /\ Line'[k + 1].word = Line'[k].word
                      /\ \A k \in 2 .. Len(Line') : Line'[k].half = 2 => Line'[k - 1].half = 1
    BY <1>9 DEF Whole
  <2>1. ASSUME Line' # <<>>, Line'[1].half = 2 PROVE FALSE
    <3>1. Len(Line') >= 1 /\ 1 \in 1 .. Len(Line')
      BY <1>1, <1>2, <2>1, EmptySeq
    <3>2. Line[n + 1].half = 2 /\ n + 1 \in 1 .. Len(Line)
      BY <1>3, <2>1, <3>1
    <3>3. CASE n = 0
      <4>1. Line # <<>>
        BY <1>3, <3>1, EmptySeq, <3>2
      <4> QED BY <3>2, <3>3, <4>1 DEF PathIInv, Whole
    <3>4. CASE n > 0
      <4>1. n + 1 \in 2 .. Len(Line) /\ (n + 1) - 1 = n /\ n \in 1 .. n
        BY <1>1, <3>2, <3>4
      <4>2. Line[n].half = 1
        BY <3>2, <4>1 DEF PathIInv, Whole
      <4>3. uartRx[n].half = 1 /\ uartRx # <<>>
        BY <1>1, <1>3, <4>1, <4>2, EmptySeq DEF n
      <4> QED BY <4>3 DEF Mangled, Last, n
    <3> QED BY <1>1, <3>3, <3>4
  <2>2. ASSUME NEW k \in 1 .. Len(Line'), Line'[k].half = 1
        PROVE  /\ k < Len(Line') /\ Line'[k + 1].half = 2
               /\ Line'[k + 1].id = Line'[k].id /\ Line'[k + 1].word = Line'[k].word
    <3>1. n + k \in 1 .. Len(Line) /\ Line'[k] = Line[n + k]
      BY <1>3
    <3>2. /\ n + k < Len(Line) /\ Line[(n + k) + 1].half = 2
          /\ Line[(n + k) + 1].id = Line[n + k].id /\ Line[(n + k) + 1].word = Line[n + k].word
      BY <2>2, <3>1 DEF PathIInv, Whole
    <3>3. k < Len(Line') /\ k + 1 \in 1 .. Len(Line') /\ (n + k) + 1 = n + (k + 1)
      <4>1. n \in Nat /\ Len(Line') \in Nat /\ Len(Line) = n + Len(Line') /\ n + k < Len(Line)
        BY <1>1, <1>3, <3>2
      <4> QED BY <4>1
    <3> QED BY <1>3, <3>1, <3>2, <3>3
  <2>3. ASSUME NEW k \in 2 .. Len(Line'), Line'[k].half = 2
        PROVE  Line'[k - 1].half = 1
    <3>1. k \in 1 .. Len(Line') /\ k - 1 \in 1 .. Len(Line') /\ n + k \in 2 .. Len(Line)
          /\ (n + k) - 1 = n + (k - 1)
      BY <1>1, <1>3
    <3>2. Line[(n + k) - 1].half = 1
      BY <1>3, <2>3, <3>1 DEF PathIInv, Whole
    <3> QED BY <1>3, <3>1, <3>2
  <2> QED BY <2>1, <2>2, <2>3
<1>11. LostForKnownCause'
  <2> SUFFICES ASSUME Calm, ~Mangled(uartRx), NEW i \in Triggers, ~Names(i, "reg")
               PROVE  i \in OnTheWay' \cup Executed'
    BY <1>5, <1>9 DEF LostForKnownCause
  <2>1. i \in OnTheWay \cup Executed
    BY DEF PathIInv, LostForKnownCause
  <2>2. CASE i \in Ids(uartRx)
    <3>1. Trigged(uartRx) = <<i>> /\ i \in Nat
      BY <2>2, ReadExecutes DEF Triggers
    <3>2. executed' = Append(executed, i)
      BY <1>1, <3>1, AppendedIs
    <3>3. Len(executed') = Len(executed) + 1 /\ executed'[Len(executed) + 1] = i
      BY <1>1, <3>1, <3>2
    <3>4. Len(executed) + 1 \in 1 .. Len(executed')
      BY <1>1, <3>3
    <3> QED BY <3>3, <3>4 DEF Executed
  <2>3. CASE i \notin Ids(uartRx)
    <3>1. InMailbox' = InMailbox /\ Ids(wire') = Ids(wire)
      BY DEF InMailbox
    <3> QED BY <1>6, <2>1, <2>3, <3>1 DEF OnTheWay
  <2> QED BY <2>2, <2>3
<1> QED BY <1>4, <1>6, <1>7, <1>8, <1>10, <1>11 DEF PathIInv

\* One part of the loop's body: only a poll that is due touches the path.
LEMMA BoardPathStep == PathIInv /\ BoardStep => PathIInv'
<1> SUFFICES ASSUME PathIInv, BoardStep PROVE PathIInv'
  OBVIOUS
<1>1. /\ mangled' = (mangled \/ (uartRx' = <<>> /\ Mangled(uartRx)))
      /\ UNCHANGED <<flag, op, wire, published, overwritten, reset>>
  BY DEF BoardStep
<1>2. reqs \in Nat /\ mangled \in BOOLEAN
  BY DEF PathIInv, PathTypes
<1>3. CASE UNCHANGED <<uartRx, reqs, executed>>
  <2>1. mangled' = mangled
    BY <1>1, <1>2, <1>3 DEF Mangled
  <2> QED BY <1>1, <1>2, <1>3, <2>1, PathStays
<1>4. CASE Poll(reqs < MaxReqs) /\ Elapsed(startMS) > POLL_PERIOD
  <2>1. /\ uartRx' = <<>> /\ executed' = executed \o Trigged(uartRx)
        /\ reqs' = IF reqs < MaxReqs THEN reqs + 1 ELSE reqs
    BY <1>4 DEF Poll
  <2>2. reqs' \in Nat /\ mangled' = (mangled \/ Mangled(uartRx))
    BY <1>1, <1>2, <2>1
  <2> QED BY <1>1, <2>1, <2>2, ReadStep
<1> QED BY <1>3, <1>4 DEF BoardStep, Loop, Recognise, CheckTimeout, Act, Poll, pollVars

LEMMA PathInit == Init => PathIInv
<1> SUFFICES ASSUME Init PROVE PathIInv
  OBVIOUS
<1>1. /\ uartRx = <<>> /\ wire = <<>> /\ published = <<>> /\ executed = <<>> /\ reqs = 0
      /\ flag = FALSE /\ op = Server!NoOp
      /\ overwritten = FALSE /\ reset = FALSE /\ mangled = FALSE
  BY DEF Init, LoopInit, Server!Init
<1>2. Line = <<>> /\ Len(Line) = 0
  BY <1>1 DEF Line
<1>3. Triggers = {}
  BY <1>1 DEF Triggers
<1>4. PathTypes
  <2>1. <<>> \in Seq(Token) /\ <<>> \in Seq(Message) /\ <<>> \in Seq(Nat)
    BY EmptySeq
  <2> QED BY <1>1, <2>1, Zenon DEF PathTypes
<1> QED
  BY <1>1, <1>2, <1>3, <1>4
  DEF PathIInv, Honest, Sorted, Mailbox, Whole, DrivenOnceInOrder, LostForKnownCause

-------------------------------------------------------------------------------
(* The theorems *)

\* No order of messages, polls, replies, reads and broken connections leaves
\* the invariant.
THEOREM PathInvariance == Spec => []PathIInv
<1>1. PathIInv /\ [Next]_vars => PathIInv'
  <2> SUFFICES ASSUME PathIInv, [Next]_vars PROVE PathIInv'
    OBVIOUS
  <2>1. CASE \E input \in Inputs : Publish(input[1], input[2])
    <3>1. PICK input \in Inputs : Publish(input[1], input[2])
      BY <2>1
    <3>2. input[1] \in Actions /\ input[2] \in Targets
      BY CommandPathAssumption
    <3> QED BY <3>1, <3>2, PublishStep
  <2>2. CASE (Tick /\ UNCHANGED netVars) \/ UNCHANGED vars
    <3>1. reqs \in Nat
      BY DEF PathIInv, PathTypes
    <3>2. UNCHANGED <<uartRx, wire, executed, reqs, flag, op, published, overwritten, reset, mangled>>
      BY <2>2 DEF Tick, netVars, vars, loopVars, pollVars
    <3> QED BY <3>1, <3>2, PathStays
  <2> QED
    BY <2>1, <2>2, ServeStep, ReceiveStep, ResetStep, BoardPathStep DEF Next
<1> QED BY PathInit, <1>1, PTL DEF Spec

\* The switch is driven only by a press or by a message about a device whose name
\* holds "trig", in the order of publication, and, but for such a name, once at most.
THEOREM AtMostOnceInOrder == Spec => []DrivenOnceInOrder
<1>1. PathIInv => DrivenOnceInOrder
  BY DEF PathIInv
<1> QED BY <1>1, PathInvariance, PTL

\* A press is on its way or carried out, unless it was overwritten, cut, mixed
\* or lost with the connection, or the device's name holds "reg".
THEOREM LostOnlySo == Spec => []LostForKnownCause
<1>1. PathIInv => LostForKnownCause
  BY DEF PathIInv
<1> QED BY <1>1, PathInvariance, PTL

-------------------------------------------------------------------------------
(* Types: voice control inside the composition, and the server's list *)

\* Voice control does not depend on the path.
LEMMA VoiceApart ==
  ASSUME LoopIInv, reqs' \in Nat, UNCHANGED <<clock, pc, sinceCheck, voiceVars, startMS>>
  PROVE  LoopIInv'
<1>1. LoopTypeOK'
  BY DEF LoopIInv, LoopTypeOK, voiceVars
<1>2. CodeMeans' /\ WindowOpen'
  BY DEF LoopIInv, CodeMeans, WindowOpen, Waiting, Elapsed, voiceVars
<1> QED BY <1>1, <1>2 DEF LoopIInv

\* A poll does not disturb voice control, sent or not.
LEMMA VoicePollStep ==
  ASSUME LoopIInv, Poll(reqs < MaxReqs)
  PROVE  LoopIInv'
<1>0. recNum \notin Commands
  BY DEF LoopIInv, CodeMeans, Poll
<1>1. LoopTypeOK'
  BY DEF LoopIInv, LoopTypeOK, Poll, voiceVars, pollVars
<1>2. CodeMeans'
  BY <1>0 DEF LoopIInv, CodeMeans, Poll, voiceVars
<1>3. WindowOpen'
  BY <1>0 DEF LoopIInv, WindowOpen, Waiting, Elapsed, Poll, voiceVars
<1> QED BY <1>1, <1>2, <1>3 DEF LoopIInv

\* splice keeps what it does not remove.
LEMMA SpliceKeeps ==
  ASSUME NEW S, NEW s \in Seq(S), NEW pos
  PROVE  Server!splice(s, pos) \in Seq(S)
<1> DEFINE at == IF pos < 0 THEN Len(s) + pos ELSE pos
<1>1. CASE at \in 0 .. Len(s) - 1
  <2>1. Server!splice(s, pos) = SubSeq(s, 1, (at + 1) - 1) \o SubSeq(s, (at + 1) + 1, Len(s))
    BY <1>1 DEF Server!splice, Server!RemoveAt
  <2> HIDE DEF at
  <2>2. /\ SubSeq(s, 1, (at + 1) - 1) \in Seq(S)
        /\ SubSeq(s, (at + 1) + 1, Len(s)) \in Seq(S)
    <3>1. /\ (at + 1) - 1 \in Int /\ (at + 1) + 1 \in Int /\ Len(s) \in Int
          /\ \A k \in 1 .. (at + 1) - 1 : k \in 1 .. Len(s)
          /\ \A k \in (at + 1) + 1 .. Len(s) : k \in 1 .. Len(s)
      BY <1>1
    <3>2. \A k \in 1 .. Len(s) : s[k] \in S
      OBVIOUS
    <3> QED BY <3>1, <3>2, SubSeqProperties
  <2> QED BY <2>1, <2>2, ConcatProperties
<1>2. CASE at \notin 0 .. Len(s) - 1
  BY <1>2, Zenon DEF Server!splice
<1> QED BY <1>1, <1>2

ComposedTypes == LoopIInv /\ reqs <= MaxReqs /\ regDevices \in Seq(Targets)

LEMMA ComposedInit == Init => ComposedTypes
<1> SUFFICES ASSUME Init PROVE ComposedTypes
  OBVIOUS
<1>1. LoopIInv
  BY LoopInitIInv DEF Init
<1>2. reqs = 0 /\ regDevices = <<>>
  BY DEF Init, LoopInit, Server!Init
<1> QED BY <1>1, <1>2, CommandPathAssumption, EmptySeq DEF ComposedTypes

LEMMA ComposedStep == PathIInv /\ ComposedTypes /\ [Next]_vars => ComposedTypes'
<1> SUFFICES ASSUME PathIInv, ComposedTypes, [Next]_vars PROVE ComposedTypes'
  OBVIOUS
<1>1. /\ LoopIInv /\ regDevices \in Seq(Targets) /\ reqs \in Nat
      /\ reqs <= MaxReqs /\ MaxReqs \in Nat
  BY CommandPathAssumption DEF ComposedTypes, PathIInv, PathTypes
<1>2. ASSUME NEW action \in Actions, NEW target \in Targets, Publish(action, target)
      PROVE  ComposedTypes'
  <2> DEFINE m == [action |-> action, target |-> target, id |-> Len(published) + 1]
  <2>1. UNCHANGED loopVars /\ Server!PublishedArc(m)
    BY <1>2 DEF Publish
  <2>2. LoopIInv' /\ reqs' = reqs
    BY <1>1, <2>1, LoopStutter DEF loopVars, pollVars
  <2>3. \/ regDevices' = Append(regDevices, m.target)
        \/ regDevices' = Server!splice(regDevices, Server!indexOf(regDevices, m.target))
        \/ regDevices' = regDevices
    BY <2>1 DEF Server!PublishedArc
  <2>4. m.target \in Targets
    OBVIOUS
  <2> HIDE DEF m
  <2>5. regDevices' \in Seq(Targets)
    BY <1>1, <2>3, <2>4, SpliceKeeps
  <2> QED BY <1>1, <2>2, <2>5 DEF ComposedTypes
<1>3. CASE ServePoll \/ Receive \/ Reset
  <2>1. /\ UNCHANGED <<clock, pc, sinceCheck, voiceVars, startMS, regDevices>>
        /\ reqs' \in Nat /\ reqs' <= MaxReqs
    BY <1>1, <1>3 DEF ServePoll, Receive, Reset, Server!HttpRoot
  <2> QED BY <1>1, <2>1, VoiceApart DEF ComposedTypes
<1>4. CASE Tick /\ UNCHANGED netVars
  <2>1. LoopIInv'
    BY <1>1, <1>4, TickStep
  <2>2. UNCHANGED <<reqs, regDevices>>
    BY <1>4 DEF Tick, pollVars, netVars
  <2> QED BY <1>1, <2>1, <2>2 DEF ComposedTypes
<1>5. CASE BoardStep
  <2>1. UNCHANGED regDevices /\ Loop(reqs < MaxReqs)
    BY <1>5 DEF BoardStep
  <2>2. LoopIInv'
    BY <1>1, <2>1, RecogniseStep, CheckStep, ActStep, VoicePollStep DEF Loop
  <2>3. reqs' <= MaxReqs
    BY <1>1, <2>1 DEF Loop, Recognise, CheckTimeout, Act, Poll, pollVars
  <2> QED BY <1>1, <2>1, <2>2, <2>3 DEF ComposedTypes
<1>6. CASE UNCHANGED vars
  <2>1. UNCHANGED loopVars /\ UNCHANGED <<reqs, regDevices>>
    BY <1>6 DEF vars, netVars, loopVars, pollVars
  <2> QED BY <1>1, <2>1, LoopStutter DEF ComposedTypes
<1>7. \A input \in Inputs : input[1] \in Actions /\ input[2] \in Targets
  BY CommandPathAssumption
<1> QED BY <1>2, <1>3, <1>4, <1>5, <1>6, <1>7 DEF Next

\* The variables of board and server keep their types when composed, and the
\* mailbox's flag says whether there is a message in it.
THEOREM PathTypeCorrect == Spec => []PathTypeOK
<1>1. PathIInv /\ ComposedTypes => PathTypeOK
  BY DEF PathIInv, PathTypes, ComposedTypes, LoopIInv, Mailbox, PathTypeOK
<1>2. PathIInv /\ ComposedTypes /\ [Next]_vars => ComposedTypes'
  BY ComposedStep
<1> QED BY ComposedInit, <1>1, <1>2, PathInvariance, PTL DEF Spec
===============================================================================
