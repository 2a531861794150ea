--------------------------- MODULE DeviceStoreProofs --------------------------
(* What the file format of StoreData.java keeps, for lists of any length and  *)
(* texts of any kind, and the properties of DeviceStore that rest on it,      *)
(* checked by TLAPS.                                                          *)
EXTENDS DeviceStore, SequenceTheorems, NaturalsInduction, WellFoundedInduction, TLAPS

Text == Seq(Tokens)
Texts == Seq(Text)

-------------------------------------------------------------------------------
(* Recursion over an index *)

\* Induction over 0 .. n, for the elements of a set.
LEMMA UpTo ==
  ASSUME NEW n \in Nat, NEW S, 0 \in S, \A i \in 1 .. n : i - 1 \in S => i \in S
  PROVE  \A i \in 0 .. n : i \in S
<1> DEFINE R == OpToRel(<, Nat)
           Bad == {i \in 0 .. n : i \notin S}
<1>1. IsWellFoundedOn(R, Nat)
  BY NatLessThanWellFounded
<1>2. \A x, y \in Nat : <<x, y>> \in R <=> x < y
  BY DEF OpToRel
<1> HIDE DEF R
<1>3. ASSUME Bad # {} PROVE FALSE
  <2>1. Bad \subseteq Nat
    OBVIOUS
  <2>2. PICK x \in Bad : \A y \in Bad : ~ (<<y, x>> \in R)
    BY <1>1, <1>3, <2>1, WFMin, Zenon
  <2>3. x \in 1 .. n /\ x - 1 \in 0 .. n /\ x - 1 < x /\ x \in Nat /\ x - 1 \in Nat
    BY <2>2
  <2>4. x - 1 \notin Bad
    <3>1. <<x - 1, x>> \in R
      BY <1>2, <2>3
    <3> QED BY <2>2, <3>1, Zenon
  <2> QED BY <2>2, <2>3, <2>4
<1> QED BY <1>3

\* The largest of some numbers between 1 and n exists.
LEMMA Largest ==
  ASSUME NEW n \in Nat, NEW S \in SUBSET (1 .. n), S # {}
  PROVE  \E i \in S : \A j \in S : j <= i
<1> DEFINE Above == {m \in 0 .. n : (\E i \in S : i <= m) =>
                       \E i \in S : i <= m /\ \A j \in S : j <= m => j <= i}
<1>1. 0 \in Above
  OBVIOUS
<1>2. ASSUME NEW m \in 1 .. n, m - 1 \in Above PROVE m \in Above
  <2>1. CASE m \in S
    BY <2>1
  <2>2. CASE m \notin S
    <3>1. \A i \in S : i <= m <=> i <= m - 1
      BY <2>2
    <3> QED BY <1>2, <3>1
  <2> QED BY <2>1, <2>2
<1>3. n \in Above
  <2> HIDE DEF Above
  <2> QED BY <1>1, <1>2, UpTo
<1>4. \A i \in S : i <= n
  OBVIOUS
<1>5. PICK k \in S : TRUE
  OBVIOUS
<1>6. k <= n
  BY <1>4
<1> QED BY <1>3, <1>4, <1>6

\* The functions on 0 .. n that start with base and go on as step says.
Steps(n, A, base, step) ==
  {g \in [0 .. n -> A] : g[0] = base /\ \A i \in 1 .. n : g[i] = step[i][g[i - 1]]}

\* A function may be defined by its value at 0 and each further value by the one
\* before it: step[i] is the i-th step.
LEMMA Recursion ==
  ASSUME NEW n \in Nat, NEW A, NEW base \in A, NEW step \in [1 .. n -> [A -> A]]
  PROVE  \E g : g \in Steps(n, A, base, step)
<1> DEFINE S == {m \in 0 .. n : \E g \in [0 .. m -> A] :
                   g[0] = base /\ \A i \in 1 .. m : g[i] = step[i][g[i - 1]]}
<1>1. 0 \in S
  <2> DEFINE g == [i \in 0 .. 0 |-> base]
  <2>1. g \in [0 .. 0 -> A] /\ g[0] = base /\ \A i \in 1 .. 0 : g[i] = step[i][g[i - 1]]
    OBVIOUS
  <2>2. 0 \in 0 .. n
    OBVIOUS
  <2> HIDE DEF g
  <2> QED BY <2>1, <2>2
<1>2. ASSUME NEW m \in 1 .. n, m - 1 \in S PROVE m \in S
  <2>1. PICK g \in [0 .. m - 1 -> A] :
          g[0] = base /\ \A i \in 1 .. m - 1 : g[i] = step[i][g[i - 1]]
    BY <1>2
  <2> DEFINE h == [i \in 0 .. m |-> IF i = m THEN step[m][g[m - 1]] ELSE g[i]]
  <2>2. step[m][g[m - 1]] \in A
    BY <2>1
  <2>3. h \in [0 .. m -> A] /\ h[0] = base
    BY <2>1, <2>2
  <2>4. \A i \in 1 .. m : h[i] = step[i][h[i - 1]]
    BY <2>1
  <2>5. m \in 0 .. n
    OBVIOUS
  <2> HIDE DEF h
  <2> QED BY <2>3, <2>4, <2>5
<1>3. n \in S
  <2>1. \A m \in 1 .. n : m - 1 \in S => m \in S
    BY <1>2
  <2> HIDE DEF S
  <2>2. \A m \in 0 .. n : m \in S
    BY ONLY <1>1, <2>1, n \in Nat, UpTo
  <2> QED BY <2>2
<1> QED BY <1>3 DEF Steps

\* Two such functions that take the same steps are equal.
LEMMA InStep ==
  ASSUME NEW n \in Nat, NEW g, NEW h, g[0] = h[0],
         \A i \in 1 .. n : g[i - 1] = h[i - 1] => g[i] = h[i]
  PROVE  g[n] = h[n]
<1> DEFINE S == {i \in 0 .. n : g[i] = h[i]}
<1>1. 0 \in S
  OBVIOUS
<1>2. \A i \in 1 .. n : i - 1 \in S => i \in S
  OBVIOUS
<1>3. n \in S
  <2> HIDE DEF S
  <2> QED BY <1>1, <1>2, UpTo
<1> QED BY <1>3

-------------------------------------------------------------------------------
(* What storeData writes *)

LEMMA Joined ==
  ASSUME NEW s \in Text, NEW t \in Text
  PROVE  /\ s \o t \in Text /\ Len(s \o t) = Len(s) + Len(t)
         /\ Len(s) \in Nat /\ Len(t) \in Nat
         /\ s # <<>> => s \o t # <<>>
  BY DEF Text

LEMMA Single ==
  ASSUME NEW A, NEW x \in A
  PROVE  <<x>> \in Seq(A) /\ Len(<<x>>) = 1 /\ <<x>>[1] = x
  OBVIOUS

LEMMA OneMore ==
  ASSUME NEW A, NEW x \in A, NEW y \in A
  PROVE  Append(<<x>>, y) = <<x, y>>
<1>1. /\ Append(<<x>>, y) \in Seq(A) /\ Len(Append(<<x>>, y)) = 2
      /\ Append(<<x>>, y)[1] = x /\ Append(<<x>>, y)[2] = y
  <2>1. <<x>> \in Seq(A) /\ Len(<<x>>) = 1 /\ <<x>>[1] = x
    OBVIOUS
  <2> DEFINE s == <<x>>
  <2> HIDE DEF s
  <2>2. /\ Append(s, y) \in Seq(A) /\ Len(Append(s, y)) = 2
        /\ Append(s, y)[1] = x /\ Append(s, y)[2] = y
    BY <2>1 DEF s
  <2> QED BY <2>2 DEF s
<1>2. <<x, y>> \in Seq(A) /\ Len(<<x, y>>) = 2 /\ <<x, y>>[1] = x /\ <<x, y>>[2] = y
  OBVIOUS
<1>3. \A i \in 1 .. Len(<<x, y>>) : i = 1 \/ i = 2
  OBVIOUS
<1> QED BY <1>1, <1>2, <1>3, SeqEqual

LEMMA Separators == <<At>> \in Text /\ <<Space>> \in Text
  BY StoreAssumption, Single DEF Text

LEMMA EntryText ==
  ASSUME NEW device \in Text, NEW mac \in Text
  PROVE  /\ Entry(device, mac) \in Text
         /\ Entry(device, mac) \o <<Space>> \in Text
         /\ device # <<>> => Entry(device, mac) # <<>>
<1>1. <<At>> \in Text /\ <<Space>> \in Text
  BY Separators
<1>2. device \o <<At>> \in Text /\ (device # <<>> => device \o <<At>> # <<>>)
  BY <1>1, Joined
<1>3. (device \o <<At>>) \o mac \in Text /\ (device # <<>> => (device \o <<At>>) \o mac # <<>>)
  BY <1>2, Joined
<1>4. Entry(device, mac) = (device \o <<At>>) \o mac
  BY DEF Entry
<1> QED BY <1>1, <1>3, <1>4, Joined

\* The text of the file grows by an entry and a space for each device.
LEMMA FormatTable ==
  ASSUME NEW devs \in Texts, NEW macs \in Texts, Len(devs) <= Len(macs)
  PROVE  \E data \in [0 .. Len(devs) -> Text] :
           /\ data[0] = <<>> /\ Format(devs, macs) = data[Len(devs)]
           /\ \A i \in 1 .. Len(devs) :
                data[i] = data[i - 1] \o Entry(devs[i], macs[i]) \o <<Space>>
<1> DEFINE n == Len(devs)
           step == [i \in 1 .. n |-> [a \in Text |-> a \o Entry(devs[i], macs[i]) \o <<Space>>]]
           f == CHOOSE g : g = [i \in 0 .. n |-> IF i = 0 THEN <<>>
                                  ELSE g[i - 1] \o Entry(devs[i], macs[i]) \o <<Space>>]
<1>1. n \in Nat /\ <<>> \in Text
  BY DEF Text, Texts
<1>2. \A i \in 1 .. n : devs[i] \in Text /\ macs[i] \in Text
  BY DEF Texts
<1>3. step \in [1 .. n -> [Text -> Text]]
  <2> SUFFICES ASSUME NEW i \in 1 .. n PROVE step[i] \in [Text -> Text]
    OBVIOUS
  <2>1. \A a \in Text : a \o Entry(devs[i], macs[i]) \o <<Space>> \in Text
    <3> TAKE a \in Text
    <3>1. Entry(devs[i], macs[i]) \in Text /\ <<Space>> \in Text
      BY <1>2, EntryText, Separators
    <3>2. a \o Entry(devs[i], macs[i]) \in Text
      BY <3>1, Joined
    <3> QED BY <3>1, <3>2, Joined
  <2> QED BY <2>1
<1>4. PICK g \in [0 .. n -> Text] : g[0] = <<>> /\ \A i \in 1 .. n : g[i] = step[i][g[i - 1]]
  <2> HIDE DEF n, step, f
  <2>1. PICK g : g \in Steps(n, Text, <<>>, step)
    BY ONLY <1>1, <1>3, Recursion
  <2> QED BY <2>1 DEF Steps
<1>5. \A i \in 1 .. n : g[i] = g[i - 1] \o Entry(devs[i], macs[i]) \o <<Space>>
  <2> TAKE i \in 1 .. n
  <2>1. g[i - 1] \in Text
    BY <1>1
  <2> QED BY <1>4, <2>1
<1>6. g = [i \in 0 .. n |-> IF i = 0 THEN <<>>
                             ELSE g[i - 1] \o Entry(devs[i], macs[i]) \o <<Space>>]
  <2> DEFINE h == [i \in 0 .. n |-> IF i = 0 THEN <<>>
                                    ELSE g[i - 1] \o Entry(devs[i], macs[i]) \o <<Space>>]
  <2>1. DOMAIN g = DOMAIN h /\ g = [i \in DOMAIN g |-> g[i]] /\ h = [i \in DOMAIN h |-> h[i]]
    BY <1>4
  <2>2. ASSUME NEW i \in 0 .. n PROVE g[i] = h[i]
    <3>1. CASE i = 0
      BY <1>4, <3>1
    <3>2. CASE i # 0
      <4>1. i \in 1 .. n
        BY <3>2
      <4> QED BY <1>5, <3>2, <4>1
    <3> QED BY <3>1, <3>2
  <2> QED BY <2>1, <2>2
<1>7. f = [i \in 0 .. n |-> IF i = 0 THEN <<>>
                             ELSE f[i - 1] \o Entry(devs[i], macs[i]) \o <<Space>>]
  <2> HIDE DEF n
  <2> QED BY <1>6, Zenon
<1>8. Format(devs, macs) = f[n]
  BY Zenon DEF Format
<1>9. f[n] = g[n]
  <2> HIDE DEF f, n, step
  <2>1. f[0] = g[0] /\ \A i \in 1 .. n : f[i] = f[i - 1] \o Entry(devs[i], macs[i]) \o <<Space>>
    <3>1. 0 \in 0 .. n /\ \A i \in 1 .. n : i \in 0 .. n /\ i # 0
      BY <1>1
    <3> QED BY <1>4, <1>7, <3>1, Zenon
  <2>2. \A i \in 1 .. n : f[i - 1] = g[i - 1] => f[i] = g[i]
    BY <1>5, <2>1
  <2> QED BY <1>1, <2>1, <2>2, InStep
<1> HIDE DEF f
<1> QED BY <1>4, <1>5, <1>8, <1>9

LEMMA FormatText ==
  ASSUME NEW devs \in Texts, NEW macs \in Texts, Len(devs) <= Len(macs)
  PROVE  Format(devs, macs) \in Text
<1>1. Len(devs) \in Nat /\ Len(devs) \in 0 .. Len(devs)
  BY DEF Texts
<1>2. PICK data \in [0 .. Len(devs) -> Text] : Format(devs, macs) = data[Len(devs)]
  BY FormatTable
<1> QED BY <1>1, <1>2

-------------------------------------------------------------------------------
(* String.split *)

PieceLists == {ps \in Texts : ps # <<>>}

LEMMA WithTokenType ==
  ASSUME NEW ps \in PieceLists, NEW tok \in Tokens, NEW sep
  PROVE  WithToken(ps, tok, sep) \in PieceLists
<1>1. ps \in Texts /\ Len(ps) \in 1 .. Len(ps) /\ ps[Len(ps)] \in Text
  BY DEF PieceLists, Texts
<1>2. CASE tok = sep
  <2>1. Append(ps, <<>>) \in Texts /\ Append(ps, <<>>) # <<>>
    BY <1>1 DEF Texts, Text
  <2> QED BY <1>2, <2>1 DEF WithToken, PieceLists
<1>3. CASE tok # sep
  <2>1. Append(ps[Len(ps)], tok) \in Text
    BY <1>1 DEF Text
  <2>2. [ps EXCEPT ![Len(ps)] = Append(ps[Len(ps)], tok)] \in Texts
    BY <1>1, <2>1, ExceptSeq DEF Texts
  <2>3. Len([ps EXCEPT ![Len(ps)] = Append(ps[Len(ps)], tok)]) = Len(ps)
    BY <1>1, <2>1, ExceptSeq DEF Texts
  <2>4. Len(ps) # 0
    BY <1>1
  <2>5. [ps EXCEPT ![Len(ps)] = Append(ps[Len(ps)], tok)] # <<>>
    BY <2>3, <2>4
  <2> QED BY <1>3, <2>2, <2>5 DEF WithToken, PieceLists
<1> QED BY <1>2, <1>3

\* The pieces of each of the text's beginnings.
LEMMA PiecesTable ==
  ASSUME NEW text \in Text, NEW sep
  PROVE  \E p \in [0 .. Len(text) -> PieceLists] :
           /\ p[0] = <<<<>>>> /\ Pieces(text, sep) = p[Len(text)]
           /\ \A i \in 1 .. Len(text) : p[i] = WithToken(p[i - 1], text[i], sep)
<1> DEFINE n == Len(text)
           step == [i \in 1 .. n |-> [ps \in PieceLists |-> WithToken(ps, text[i], sep)]]
           f == CHOOSE g : g = [i \in 0 .. n |-> IF i = 0 THEN <<<<>>>>
                                                 ELSE WithToken(g[i - 1], text[i], sep)]
<1>1. n \in Nat /\ <<<<>>>> \in PieceLists
  BY DEF Text, Texts, PieceLists
<1>2. \A i \in 1 .. n : text[i] \in Tokens
  BY DEF Text
<1>3. step \in [1 .. n -> [PieceLists -> PieceLists]]
  BY <1>2, WithTokenType
<1>4. PICK g \in [0 .. n -> PieceLists] :
        g[0] = <<<<>>>> /\ \A i \in 1 .. n : g[i] = step[i][g[i - 1]]
  <2> HIDE DEF n, step, f
  <2>1. PICK g : g \in Steps(n, PieceLists, <<<<>>>>, step)
    BY ONLY <1>1, <1>3, Recursion
  <2> QED BY <2>1 DEF Steps
<1>5. \A i \in 1 .. n : g[i] = WithToken(g[i - 1], text[i], sep)
  <2> TAKE i \in 1 .. n
  <2>1. g[i - 1] \in PieceLists
    BY <1>1
  <2> QED BY <1>4, <2>1
<1>6. g = [i \in 0 .. n |-> IF i = 0 THEN <<<<>>>> ELSE WithToken(g[i - 1], text[i], sep)]
  <2> DEFINE h == [i \in 0 .. n |-> IF i = 0 THEN <<<<>>>> ELSE WithToken(g[i - 1], text[i], sep)]
  <2>1. DOMAIN g = DOMAIN h /\ g = [i \in DOMAIN g |-> g[i]] /\ h = [i \in DOMAIN h |-> h[i]]
    BY <1>4
  <2>2. ASSUME NEW i \in 0 .. n PROVE g[i] = h[i]
    <3>1. CASE i = 0
      BY <1>4, <3>1
    <3>2. CASE i # 0
      <4>1. i \in 1 .. n
        BY <3>2
      <4> QED BY <1>5, <3>2, <4>1
    <3> QED BY <3>1, <3>2
  <2> QED BY <2>1, <2>2
<1>7. f = [i \in 0 .. n |-> IF i = 0 THEN <<<<>>>> ELSE WithToken(f[i - 1], text[i], sep)]
  <2> HIDE DEF n
  <2> QED BY <1>6, Zenon
<1>8. Pieces(text, sep) = f[n]
  BY Zenon DEF Pieces
<1>9. f[n] = g[n]
  <2> HIDE DEF f, n, step
  <2>1. f[0] = g[0] /\ \A i \in 1 .. n : f[i] = WithToken(f[i - 1], text[i], sep)
    <3>1. 0 \in 0 .. n /\ \A i \in 1 .. n : i \in 0 .. n /\ i # 0
      BY <1>1
    <3> QED BY <1>4, <1>7, <3>1, Zenon
  <2>2. \A i \in 1 .. n : f[i - 1] = g[i - 1] => f[i] = g[i]
    BY <1>5, <2>1
  <2> QED BY <1>1, <2>1, <2>2, InStep
<1> HIDE DEF f
<1> QED BY <1>4, <1>5, <1>8, <1>9

LEMMA PiecesType ==
  ASSUME NEW text \in Text, NEW sep
  PROVE  Pieces(text, sep) \in PieceLists
<1>1. Len(text) \in Nat /\ Len(text) \in 0 .. Len(text)
  BY DEF Text
<1>2. PICK p \in [0 .. Len(text) -> PieceLists] : Pieces(text, sep) = p[Len(text)]
  BY PiecesTable
<1> QED BY <1>1, <1>2

LEMMA PiecesEmpty ==
  ASSUME NEW sep
  PROVE  Pieces(<<>>, sep) = <<<<>>>>
<1>1. <<>> \in Text /\ Len(<<>>) = 0
  BY DEF Text
<1> QED BY <1>1, PiecesTable

\* One more token of the text is one more step of the loop.
LEMMA PiecesNext ==
  ASSUME NEW text \in Text, NEW tok \in Tokens, NEW sep
  PROVE  Pieces(Append(text, tok), sep) = WithToken(Pieces(text, sep), tok, sep)
<1> DEFINE n == Len(text)
<1>1. /\ Append(text, tok) \in Text /\ Len(Append(text, tok)) = n + 1 /\ n \in Nat
      /\ \A i \in 1 .. n : Append(text, tok)[i] = text[i]
      /\ Append(text, tok)[n + 1] = tok
  BY DEF Text
<1>2. PICK p : /\ p[0] = <<<<>>>> /\ Pieces(text, sep) = p[n]
               /\ \A i \in 1 .. n : p[i] = WithToken(p[i - 1], text[i], sep)
  BY PiecesTable
<1>3. PICK q : /\ q[0] = <<<<>>>> /\ Pieces(Append(text, tok), sep) = q[n + 1]
               /\ \A i \in 1 .. n + 1 : q[i] = WithToken(q[i - 1], Append(text, tok)[i], sep)
  <2> DEFINE longer == Append(text, tok)
  <2>1. longer \in Text /\ Len(longer) = n + 1
    BY <1>1
  <2> HIDE DEF longer
  <2>2. PICK q \in [0 .. Len(longer) -> PieceLists] :
                 /\ q[0] = <<<<>>>> /\ Pieces(longer, sep) = q[Len(longer)]
                 /\ \A i \in 1 .. Len(longer) : q[i] = WithToken(q[i - 1], longer[i], sep)
    <3>1. longer \in Text
      BY <2>1
    <3> QED BY ONLY <3>1, PiecesTable
  <2> QED BY <2>1, <2>2 DEF longer
<1>4. p[n] = q[n]
  <2> HIDE DEF n
  <2>1. \A i \in 1 .. n : p[i - 1] = q[i - 1] => p[i] = q[i]
    BY <1>1, <1>2, <1>3
  <2>2. n \in Nat /\ p[0] = q[0]
    BY <1>1, <1>2, <1>3
  <2> QED BY ONLY <2>1, <2>2, InStep
<1>5. q[n + 1] = WithToken(q[n], tok, sep)
  <2>1. n + 1 \in 1 .. n + 1 /\ (n + 1) - 1 = n
    BY <1>1
  <2> QED BY <1>1, <1>3, <2>1
<1> QED BY <1>2, <1>3, <1>4, <1>5

\* What follows the last separator goes to the last piece.
LastLonger(ps, word) == [ps EXCEPT ![Len(ps)] = ps[Len(ps)] \o word]

LEMMA PiecesWord ==
  ASSUME NEW text \in Text, NEW word \in Text, NEW sep, \A i \in 1 .. Len(word) : word[i] # sep
  PROVE  Pieces(text \o word, sep) = LastLonger(Pieces(text, sep), word)
<1> DEFINE n == Len(word)
           ps == Pieces(text, sep)
           Begin(i) == SubSeq(word, 1, i)
           S == {i \in 0 .. n : Pieces(text \o Begin(i), sep) = LastLonger(ps, Begin(i))}
<1>1. /\ n \in Nat /\ Begin(n) = word /\ Begin(0) = <<>>
      /\ \A i \in 0 .. n : Begin(i) \in Text
      /\ \A i \in 1 .. n : word[i] \in Tokens /\ Begin(i) = Append(Begin(i - 1), word[i])
  BY DEF Text
<1>2. ps \in PieceLists /\ ps \in Texts /\ Len(ps) \in 1 .. Len(ps) /\ ps[Len(ps)] \in Text
  BY PiecesType DEF PieceLists, Texts
<1>3. 0 \in S
  <2>1. text \o <<>> = text /\ ps[Len(ps)] \o <<>> = ps[Len(ps)]
    BY <1>2 DEF Text
  <2>2. [ps EXCEPT ![Len(ps)] = ps[Len(ps)]] = ps
    BY <1>2 DEF Texts
  <2>3. LastLonger(ps, <<>>) = ps
    <3> HIDE DEF ps
    <3> QED BY <2>1, <2>2 DEF LastLonger
  <2>4. Pieces(text \o <<>>, sep) = ps
    BY <2>1
  <2>5. 0 \in 0 .. n
    BY <1>1
  <2> HIDE DEF ps, Begin, n
  <2> QED BY <1>1, <2>3, <2>4, <2>5
<1>4. ASSUME NEW i \in 1 .. n, i - 1 \in S PROVE i \in S
  <2> DEFINE b == Begin(i - 1)
             last == ps[Len(ps)]
  <2>1. b \in Text /\ word[i] \in Tokens /\ Begin(i) = Append(b, word[i]) /\ i \in 0 .. n
        /\ word[i] # sep
    BY <1>1
  <2>2. text \o b \in Text /\ text \o Begin(i) = Append(text \o b, word[i])
    <3> HIDE DEF b, Begin
    <3> QED BY <2>1 DEF Text
  <2>3. last \o Begin(i) = Append(last \o b, word[i])
    <3>1. last \in Text
      BY <1>2
    <3> HIDE DEF b, Begin, last
    <3> QED BY <2>1, <3>1 DEF Text
  <2>4. Pieces(text \o b, sep) = LastLonger(ps, b)
    BY <1>4
  <2>5. Pieces(text \o Begin(i), sep) = WithToken(LastLonger(ps, b), word[i], sep)
    BY <2>1, <2>2, <2>4, PiecesNext
  <2>6. LastLonger(ps, b) = [ps EXCEPT ![Len(ps)] = last \o b]
        /\ LastLonger(ps, Begin(i)) = [ps EXCEPT ![Len(ps)] = last \o Begin(i)]
    BY DEF LastLonger
  <2>7. WithToken(LastLonger(ps, b), word[i], sep) = LastLonger(ps, Begin(i))
    <3>1. last \o b \in Text
      BY <1>2, <2>1, Joined
    <3> DEFINE x == last \o b
    <3>2. [ps EXCEPT ![Len(ps)] = x] \in Texts /\ Len([ps EXCEPT ![Len(ps)] = x]) = Len(ps)
      BY <1>2, <3>1, ExceptSeq DEF Texts
    <3> DEFINE qs == [ps EXCEPT ![Len(ps)] = x]
    <3>3. qs[Len(ps)] = x
      <4> HIDE DEF ps, x
      <4> QED BY <1>2, <3>1, ExceptSeq DEF Texts
    <3>4. WithToken(qs, word[i], sep) = [qs EXCEPT ![Len(ps)] = Append(x, word[i])]
      <4> HIDE DEF x
      <4>1. Len(qs) = Len(ps)
        BY <3>2
      <4> QED BY <2>1, <3>3, <4>1 DEF WithToken
    <3>5. [qs EXCEPT ![Len(ps)] = Append(x, word[i])] = [ps EXCEPT ![Len(ps)] = Append(x, word[i])]
      <4> HIDE DEF x
      <4> QED OBVIOUS
    <3> QED BY <2>3, <2>6, <3>4, <3>5
  <2> HIDE DEF b, Begin, ps
  <2> QED BY <2>1, <2>5, <2>7
<1>5. n \in S
  <2>1. \A i \in 1 .. n : i - 1 \in S => i \in S
    BY <1>4
  <2> HIDE DEF S, n
  <2> QED BY <1>1, <1>3, <2>1, UpTo
<1> QED BY <1>1, <1>5

\* A separator begins a new piece.
LEMMA PiecesSeparator ==
  ASSUME NEW text \in Text, NEW sep \in Tokens
  PROVE  Pieces(text \o <<sep>>, sep) = Append(Pieces(text, sep), <<>>)
<1>1. text \o <<sep>> = Append(text, sep)
  BY DEF Text
<1> QED BY <1>1, PiecesNext DEF WithToken

\* split drops the empty pieces at the end, and only those.
LEMMA SplitPieces ==
  ASSUME NEW text \in Text, NEW sep
  PROVE  \E k \in 0 .. Len(Pieces(text, sep)) :
           /\ Split(text, sep) = SubSeq(Pieces(text, sep), 1, k)
           /\ k > 0 => Pieces(text, sep)[k] # <<>>
           /\ \A j \in k + 1 .. Len(Pieces(text, sep)) : Pieces(text, sep)[j] = <<>>
<1> DEFINE ps == Pieces(text, sep)
           n == Len(ps)
           full == {i \in 1 .. n : ps[i] # <<>>}
           last == CHOOSE i \in full : \A j \in full : j <= i
           k == IF full = {} THEN 0 ELSE last
<1>1. ps \in Texts /\ n \in Nat
  BY PiecesType DEF PieceLists, Texts
<1>2. full # {} => last \in full /\ \A j \in full : j <= last
  <2>1. full \in SUBSET (1 .. n)
    OBVIOUS
  <2>2. full # {} => \E i \in full : \A j \in full : j <= i
    <3> HIDE DEF full, n
    <3> QED BY <1>1, <2>1, Largest
  <2> HIDE DEF full
  <2> QED BY <2>2, Zenon
<1>3. Split(text, sep) = SubSeq(ps, 1, k)
  BY Zenon DEF Split
<1>4. k \in 0 .. n /\ (k > 0 => ps[k] # <<>>)
  <2> HIDE DEF last, ps
  <2> QED BY <1>1, <1>2
<1>5. \A j \in k + 1 .. n : ps[j] = <<>>
  <2> SUFFICES ASSUME NEW j \in k + 1 .. n, ps[j] # <<>> PROVE FALSE
    OBVIOUS
  <2>1. j \in full
    BY <1>1, <1>4
  <2> HIDE DEF last, ps
  <2> QED BY <1>1, <1>2, <1>4, <2>1
<1> HIDE DEF k
<1> QED BY <1>3, <1>4, <1>5

LEMMA SplitType ==
  ASSUME NEW text \in Text, NEW sep
  PROVE  Split(text, sep) \in Texts
<1>1. Pieces(text, sep) \in Texts
  BY PiecesType DEF PieceLists
<1>2. PICK k \in 0 .. Len(Pieces(text, sep)) : Split(text, sep) = SubSeq(Pieces(text, sep), 1, k)
  BY SplitPieces
<1> HIDE DEF Pieces
<1> QED BY <1>1, <1>2 DEF Texts

\* Of pieces that are not empty, but for one at the end, all others are kept.
LEMMA SplitKeeps ==
  ASSUME NEW text \in Text, NEW sep, NEW es \in Texts, \A i \in 1 .. Len(es) : es[i] # <<>>,
         Pieces(text, sep) = es \/ Pieces(text, sep) = Append(es, <<>>)
  PROVE  Split(text, sep) = es
<1> DEFINE ps == Pieces(text, sep)
           n == Len(es)
<1>1. n \in Nat /\ SubSeq(es, 1, n) = es /\ SubSeq(Append(es, <<>>), 1, n) = es
  BY DEF Texts, Text
<1>2. /\ Len(ps) = n \/ (Len(ps) = n + 1 /\ ps[n + 1] = <<>>)
      /\ \A i \in 1 .. n : ps[i] = es[i]
      /\ SubSeq(ps, 1, n) = es
  <2>1. CASE ps = es
    <3> HIDE DEF ps
    <3> QED BY <1>1, <2>1
  <2>2. CASE ps = Append(es, <<>>)
    <3>1. <<>> \in Text /\ es \in Seq(Text)
      BY DEF Text, Texts
    <3>2. /\ Len(Append(es, <<>>)) = n + 1 /\ Append(es, <<>>)[n + 1] = <<>>
          /\ \A i \in 1 .. n : Append(es, <<>>)[i] = es[i]
      BY ONLY <3>1
    <3> HIDE DEF ps
    <3> QED BY <1>1, <2>2, <3>2
  <2> QED BY <2>1, <2>2
<1>3. PICK k \in 0 .. Len(ps) : /\ Split(text, sep) = SubSeq(ps, 1, k)
                                /\ k > 0 => ps[k] # <<>>
                                /\ \A j \in k + 1 .. Len(ps) : ps[j] = <<>>
  BY SplitPieces
<1>4. k = n
  <2> HIDE DEF ps, n
  <2>1. k < n => FALSE
    <3>1. k < n => n \in k + 1 .. Len(ps) /\ n \in 1 .. n
      BY <1>1, <1>2
    <3> QED BY <1>2, <1>3, <3>1 DEF n
  <2>2. k > n => FALSE
    <3>1. k > n => k = n + 1 /\ Len(ps) = n + 1 /\ k > 0
      BY <1>1, <1>2
    <3> QED BY <1>1, <1>2, <1>3, <3>1
  <2> QED BY <1>1, <2>1, <2>2
<1> QED BY <1>2, <1>3, <1>4

\* An entry with one separator between device and MAC is cut into the two again.
LEMMA EntrySplit ==
  ASSUME NEW device \in Text, NEW mac \in Text, device # <<>>, mac # <<>>,
         \A i \in 1 .. Len(device) : device[i] # At, \A i \in 1 .. Len(mac) : mac[i] # At
  PROVE  Split(Entry(device, mac), At) = <<device, mac>>
<1>1. <<>> \in Text /\ <<>> \o device = device /\ <<>> \o mac = mac
  BY DEF Text
<1>2. Pieces(device, At) = <<device>>
  <2>1. Pieces(<<>> \o device, At) = LastLonger(<<<<>>>>, device)
    BY <1>1, PiecesWord, PiecesEmpty
  <2>2. LastLonger(<<<<>>>>, device) = <<device>>
    <3>1. \A x, y \in Text : [<<x>> EXCEPT ![1] = y] = <<y>>
      OBVIOUS
    <3>2. Len(<<<<>>>>) = 1 /\ <<<<>>>>[1] = <<>>
      OBVIOUS
    <3> QED BY <1>1, <3>1, <3>2 DEF LastLonger
  <2> QED BY <1>1, <2>1, <2>2
<1>3. Pieces(device \o <<At>>, At) = <<device, <<>>>>
  <2>1. At \in Tokens
    BY StoreAssumption
  <2>2. Append(<<device>>, <<>>) = <<device, <<>>>>
    BY <1>1, OneMore
  <2> QED BY <1>2, <2>1, <2>2, PiecesSeparator
<1>4. Pieces((device \o <<At>>) \o mac, At) = <<device, mac>>
  <2>1. device \o <<At>> \in Text
    BY Separators, Joined
  <2>2. Pieces((device \o <<At>>) \o mac, At) = LastLonger(<<device, <<>>>>, mac)
    BY <1>3, <2>1, PiecesWord
  <2>3. LastLonger(<<device, <<>>>>, mac) = <<device, mac>>
    <3>1. \A x, y, z \in Text : [<<x, y>> EXCEPT ![2] = z] = <<x, z>>
      OBVIOUS
    <3>2. Len(<<device, <<>>>>) = 2 /\ <<device, <<>>>>[2] = <<>>
      OBVIOUS
    <3> QED BY <1>1, <3>1, <3>2 DEF LastLonger
  <2> QED BY <2>2, <2>3
<1>5. <<device, mac>> \in Texts /\ \A i \in 1 .. Len(<<device, mac>>) : <<device, mac>>[i] # <<>>
  BY DEF Texts
<1>6. Pieces(Entry(device, mac), At) = <<device, mac>>
  BY <1>4 DEF Entry
<1> QED BY <1>5, <1>6, EntryText, SplitKeeps

-------------------------------------------------------------------------------
(* What loadData makes of what storeData wrote *)

\* Texts without a separator.
Words == {t \in Text : t # <<>> /\ \A i \in 1 .. Len(t) : t[i] # At /\ t[i] # Space}

\* The first n entries of the file.
Entries(devs, macs, n) == [i \in 1 .. n |-> Entry(devs[i], macs[i])]

LEMMA WordLists ==
  ASSUME NEW s \in Seq(Words)
  PROVE  s \in Texts /\ Len(s) \in Nat /\ \A i \in 1 .. Len(s) : s[i] \in Words /\ s[i] \in Text
<1>1. Words \subseteq Text
  BY DEF Words
<1> HIDE DEF Words
<1> QED BY <1>1, SeqMonotonic DEF Texts

LEMMA EntryAvoids ==
  ASSUME NEW device \in Words, NEW mac \in Words
  PROVE  \A i \in 1 .. Len(Entry(device, mac)) : Entry(device, mac)[i] # Space
<1>1. ASSUME NEW s \in Text, NEW t \in Text, \A i \in 1 .. Len(s) : s[i] # Space,
             \A i \in 1 .. Len(t) : t[i] # Space
      PROVE  s \o t \in Text /\ \A i \in 1 .. Len(s \o t) : (s \o t)[i] # Space
  <2>1. s \o t \in Text /\ Len(s \o t) = Len(s) + Len(t) /\ Len(s) \in Nat /\ Len(t) \in Nat
    BY Joined
  <2>2. ASSUME NEW i \in 1 .. Len(s) + Len(t) PROVE (s \o t)[i] # Space
    <3>1. (s \o t)[i] = IF i <= Len(s) THEN s[i] ELSE t[i - Len(s)]
      BY ConcatProperties DEF Text
    <3>2. CASE i <= Len(s)
      <4>1. i \in 1 .. Len(s)
        BY <2>1, <3>2
      <4> QED BY <1>1, <3>1, <3>2, <4>1
    <3>3. CASE ~(i <= Len(s))
      <4>1. i - Len(s) \in 1 .. Len(t)
        BY <2>1, <3>3
      <4> QED BY <1>1, <3>1, <3>3, <4>1
    <3> QED BY <3>2, <3>3
  <2> QED BY <2>1, <2>2
<1>2. /\ device \in Text /\ mac \in Text
      /\ \A i \in 1 .. Len(device) : device[i] # Space
      /\ \A i \in 1 .. Len(mac) : mac[i] # Space
  BY DEF Words
<1>3. <<At>> \in Text /\ \A i \in 1 .. Len(<<At>>) : <<At>>[i] # Space
  BY Separators, StoreAssumption
<1>4. device \o <<At>> \in Text
      /\ \A i \in 1 .. Len(device \o <<At>>) : (device \o <<At>>)[i] # Space
  BY <1>1, <1>2, <1>3
<1>5. \A i \in 1 .. Len((device \o <<At>>) \o mac) : ((device \o <<At>>) \o mac)[i] # Space
  BY <1>1, <1>2, <1>4
<1> QED BY <1>5 DEF Entry

LEMMA EntriesNext ==
  ASSUME NEW devs \in Seq(Words), NEW macs \in Seq(Words), Len(devs) = Len(macs),
         NEW i \in 0 .. Len(devs)
  PROVE  /\ Entries(devs, macs, i) \in Texts /\ Len(Entries(devs, macs, i)) = i
         /\ \A j \in 1 .. i : /\ Entries(devs, macs, i)[j] = Entry(devs[j], macs[j])
                              /\ Entries(devs, macs, i)[j] \in Text
                              /\ Entries(devs, macs, i)[j] # <<>>
         /\ i > 0 => /\ Entries(devs, macs, i)
                          = Append(Entries(devs, macs, i - 1), Entry(devs[i], macs[i]))
                     /\ Entries(devs, macs, i - 1) \in Texts
<1>1. Len(devs) \in Nat
  BY WordLists
<1>2. ASSUME NEW j \in 1 .. Len(devs)
      PROVE  Entry(devs[j], macs[j]) \in Text /\ Entry(devs[j], macs[j]) # <<>>
  <2>1. devs[j] \in Words /\ macs[j] \in Words
    BY <1>1
  <2>2. devs[j] \in Text /\ macs[j] \in Text /\ devs[j] # <<>>
    BY <2>1 DEF Words
  <2> QED BY <2>2, EntryText
<1>3. ASSUME NEW k \in 0 .. Len(devs)
      PROVE  /\ Entries(devs, macs, k) \in Texts /\ Len(Entries(devs, macs, k)) = k
             /\ \A j \in 1 .. k : Entries(devs, macs, k)[j] = Entry(devs[j], macs[j])
  <2>1. k \in Nat /\ \A j \in 1 .. k : j \in 1 .. Len(devs)
    BY <1>1
  <2>2. Entries(devs, macs, k) \in [1 .. k -> Text]
    BY <1>2, <2>1 DEF Entries
  <2> QED BY <2>1, <2>2 DEF Entries, Texts
<1>4. ASSUME i > 0
      PROVE  Entries(devs, macs, i) = Append(Entries(devs, macs, i - 1), Entry(devs[i], macs[i]))
  <2> DEFINE e == Entry(devs[i], macs[i])
             s == Entries(devs, macs, i - 1)
             t == Entries(devs, macs, i)
  <2>1. i - 1 \in 0 .. Len(devs) /\ i \in 1 .. Len(devs) /\ i - 1 \in Nat /\ i \in Nat
    BY <1>1, <1>4
  <2>2. e \in Text
    BY <1>2, <2>1
  <2>3. /\ s \in Texts /\ Len(s) = i - 1
        /\ \A j \in 1 .. i - 1 : s[j] = Entry(devs[j], macs[j])
    BY <1>3, <2>1
  <2>4. /\ t \in Texts /\ Len(t) = i
        /\ \A j \in 1 .. i : t[j] = Entry(devs[j], macs[j])
    BY <1>3
  <2>5. t[i] = e /\ \A j \in 1 .. i - 1 : t[j] = s[j]
    BY <2>1, <2>3, <2>4
  <2> HIDE DEF e, s, t
  <2>6. Append(s, e) \in Texts /\ Len(Append(s, e)) = i
        /\ Append(s, e)[i] = e /\ \A j \in 1 .. i - 1 : Append(s, e)[j] = s[j]
    BY <2>1, <2>2, <2>3 DEF Texts
  <2>7. \A j \in 1 .. i : t[j] = Append(s, e)[j]
    <3>1. \A j \in 1 .. i : j = i \/ j \in 1 .. i - 1
      BY <2>1
    <3> QED BY <2>5, <2>6, <3>1
  <2>8. t = Append(s, e)
    BY <2>4, <2>6, <2>7, SeqEqual DEF Texts
  <2> QED BY <2>8 DEF e, s, t
<1>5. i > 0 => i - 1 \in 0 .. Len(devs)
  BY <1>1
<1>6. \A j \in 1 .. i : j \in 1 .. Len(devs)
  BY <1>1
<1> QED BY <1>2, <1>3, <1>4, <1>5, <1>6

\* The file is cut into its entries again.
LEMMA FormatSplit ==
  ASSUME NEW devs \in Seq(Words), NEW macs \in Seq(Words), Len(devs) = Len(macs)
  PROVE  /\ Format(devs, macs) \in Text
         /\ Split(Format(devs, macs), Space) = Entries(devs, macs, Len(devs))
<1> DEFINE n == Len(devs)
           E(i) == Entries(devs, macs, i)
<1>1. /\ devs \in Texts /\ macs \in Texts /\ Len(devs) = Len(macs) /\ n \in Nat
      /\ \A i \in 1 .. n : devs[i] \in Words /\ macs[i] \in Words
  BY WordLists
<1>2. PICK data \in [0 .. n -> Text] :
        /\ data[0] = <<>> /\ Format(devs, macs) = data[n]
        /\ \A i \in 1 .. n : data[i] = data[i - 1] \o Entry(devs[i], macs[i]) \o <<Space>>
  <2>1. devs \in Texts /\ macs \in Texts /\ Len(devs) <= Len(macs)
    BY <1>1
  <2> QED BY <2>1, FormatTable
<1> DEFINE S == {i \in 0 .. n : Pieces(data[i], Space) = Append(E(i), <<>>)}
<1>3. 0 \in S
  <2>1. E(0) = <<>>
    BY <1>1, EntriesNext DEF Texts
  <2>2. Append(<<>>, <<>>) = <<<<>>>>
    OBVIOUS
  <2>3. Pieces(data[0], Space) = <<<<>>>>
    BY <1>2, PiecesEmpty
  <2>4. 0 \in 0 .. n
    BY <1>1
  <2>5. Pieces(data[0], Space) = Append(E(0), <<>>)
    BY <2>1, <2>2, <2>3
  <2> HIDE DEF E, n
  <2> QED BY <2>4, <2>5
<1>4. ASSUME NEW i \in 1 .. n, i - 1 \in S PROVE i \in S
  <2> DEFINE e == Entry(devs[i], macs[i])
             d == data[i - 1]
             es == E(i - 1)
  <2>1. i \in 0 .. n /\ i - 1 \in 0 .. n /\ i > 0
    BY <1>1
  <2>2. e \in Text /\ \A j \in 1 .. Len(e) : e[j] # Space
    <3>1. devs[i] \in Words /\ macs[i] \in Words
      BY <1>1
    <3>2. devs[i] \in Text /\ macs[i] \in Text
      BY <3>1 DEF Words
    <3> QED BY <3>1, <3>2, EntryText, EntryAvoids
  <2>3. d \in Text /\ d \o e \in Text /\ data[i] = (d \o e) \o <<Space>>
    <3>1. d \in Text
      BY <1>2, <2>1
    <3> QED BY <1>2, <2>2, <3>1, Joined
  <2>4. Pieces(d, Space) = Append(es, <<>>)
    BY <1>4
  <2>5. es \in Texts /\ E(i) = Append(es, e)
    BY <2>1, EntriesNext
  <2> HIDE DEF e, d, es, E
  <2>6. Pieces(d \o e, Space) = LastLonger(Append(es, <<>>), e)
    <3>1. Pieces(d \o e, Space) = LastLonger(Pieces(d, Space), e)
      BY ONLY <2>2, <2>3, PiecesWord
    <3> QED BY <2>4, <3>1
  <2>7. LastLonger(Append(es, <<>>), e) = Append(es, e)
    <3>1. <<>> \in Text /\ <<>> \o e = e
      BY <2>2 DEF Text
    <3>2. /\ Append(es, <<>>) \in Seq(Text) /\ Len(Append(es, <<>>)) = Len(es) + 1
          /\ Len(es) \in Nat /\ Append(es, <<>>)[Len(es) + 1] = <<>>
          /\ \A j \in 1 .. Len(es) : Append(es, <<>>)[j] = es[j]
      BY <2>5, <3>1 DEF Texts
    <3> DEFINE a == Append(es, <<>>)
               b == [a EXCEPT ![Len(es) + 1] = e]
               c == Append(es, e)
    <3>3. c \in Seq(Text) /\ Len(c) = Len(es) + 1 /\ c[Len(es) + 1] = e
          /\ \A j \in 1 .. Len(es) : c[j] = es[j]
      BY <2>2, <2>5 DEF Texts
    <3>4. LastLonger(a, e) = b
      <4>1. LastLonger(a, e) = [a EXCEPT ![Len(a)] = a[Len(a)] \o e]
        BY DEF LastLonger
      <4> HIDE DEF a
      <4> QED BY <3>1, <3>2, <4>1 DEF a
    <3> HIDE DEF a, c
    <3>5. b \in Seq(Text) /\ Len(b) = Len(es) + 1
          /\ \A j \in 1 .. Len(es) + 1 : b[j] = IF j = Len(es) + 1 THEN e ELSE a[j]
      <4>1. a \in Seq(Text) /\ Len(es) + 1 \in 1 .. Len(a) /\ Len(a) = Len(es) + 1
        BY <3>2 DEF a
      <4> QED BY <2>2, <4>1, ExceptSeq
    <3> HIDE DEF b
    <3>6. \A j \in 1 .. Len(b) : b[j] = c[j]
      <4>1. \A j \in 1 .. Len(b) : j = Len(es) + 1 \/ j \in 1 .. Len(es)
        BY <3>2, <3>5
      <4> QED BY <3>2, <3>3, <3>5, <4>1 DEF a
    <3>7. b = c
      BY <3>3, <3>5, <3>6, SeqEqual
    <3> QED BY <3>4, <3>7 DEF a, c
  <2>8. Space \in Tokens
    BY StoreAssumption
  <2>9. Pieces(data[i], Space) = Append(E(i), <<>>)
    BY <2>3, <2>5, <2>6, <2>7, <2>8, PiecesSeparator
  <2> QED BY <2>1, <2>9
<1>5. n \in S
  <2>1. \A i \in 1 .. n : i - 1 \in S => i \in S
    BY <1>4
  <2>2. n \in Nat
    BY <1>1
  <2> HIDE DEF S, n
  <2>3. \A i \in 0 .. n : i \in S
    BY ONLY <1>3, <2>1, <2>2, UpTo
  <2> QED BY <2>2, <2>3
<1>6. Format(devs, macs) \in Text /\ Pieces(Format(devs, macs), Space) = Append(E(n), <<>>)
  BY <1>1, <1>2, <1>5
<1>7. E(n) \in Texts /\ Len(E(n)) = n /\ \A j \in 1 .. n : E(n)[j] # <<>>
  <2>1. n \in 0 .. Len(devs)
    BY <1>1
  <2> DEFINE es == Entries(devs, macs, n)
  <2>2. /\ es \in Texts /\ Len(es) = n
        /\ \A j \in 1 .. n : es[j] = Entry(devs[j], macs[j]) /\ es[j] \in Text /\ es[j] # <<>>
    <3> HIDE DEF n
    <3> QED BY <2>1, EntriesNext
  <2> QED BY <2>2
<1> HIDE DEF E, n
<1>8. Split(Format(devs, macs), Space) = E(n)
  BY ONLY <1>6, <1>7, SplitKeeps
<1> QED BY <1>6, <1>8 DEF E, n

-------------------------------------------------------------------------------
(* loadData's loop *)

Accs == {acc \in [devs : Texts, macs : Texts, failed : BOOLEAN] : Len(acc.macs) <= Len(acc.devs)}
\* The lists with which the loop begins.
From(devs, macs) == [devs |-> devs, macs |-> macs, failed |-> FALSE]

\* An entry is added to both lists, or to the devices alone, or to neither.
LEMMA LoadEntryType ==
  ASSUME NEW acc \in Accs, NEW entry \in Text
  PROVE  LoadEntry(acc, entry) \in Accs
<1> DEFINE pair == Split(entry, At)
<1>1. pair \in Seq(Text) /\ Len(pair) \in Nat
  BY SplitType DEF Texts
<1>2. /\ acc.devs \in Seq(Text) /\ acc.macs \in Seq(Text) /\ acc.failed \in BOOLEAN
      /\ Len(acc.macs) <= Len(acc.devs)
      /\ acc = [devs |-> acc.devs, macs |-> acc.macs, failed |-> acc.failed]
  BY DEF Accs, Texts
<1>3. CASE acc.failed \/ entry = <<>>
  BY <1>3 DEF LoadEntry
<1>4. CASE ~(acc.failed \/ entry = <<>>) /\ Len(pair) = 0
  <2>1. LoadEntry(acc, entry) = [devs |-> acc.devs, macs |-> acc.macs, failed |-> TRUE]
    BY <1>2, <1>4 DEF LoadEntry
  <2> QED BY <1>2, <2>1 DEF Accs, Texts
<1>5. CASE ~(acc.failed \/ entry = <<>>) /\ Len(pair) = 1
  <2>1. LoadEntry(acc, entry) = [acc EXCEPT !.devs = Append(@, pair[1]), !.failed = TRUE]
    <3>1. Len(pair) # 0
      BY <1>5
    <3> QED BY <1>5, <3>1, Zenon DEF LoadEntry
  <2>2. LoadEntry(acc, entry) = [devs |-> Append(acc.devs, pair[1]), macs |-> acc.macs, failed |-> TRUE]
    <3> HIDE DEF pair
    <3> QED BY <1>2, <2>1
  <2>3. Append(acc.devs, pair[1]) \in Seq(Text) /\ Len(acc.macs) <= Len(Append(acc.devs, pair[1]))
    <3>1. pair[1] \in Text
      <4>1. 1 \in 1 .. Len(pair)
        BY <1>5
      <4> QED BY <1>1, <4>1, ElementOfSeq
    <3> HIDE DEF pair
    <3> QED BY <1>2, <3>1
  <2> QED BY <1>2, <2>2, <2>3 DEF Accs, Texts
<1>6. CASE ~(acc.failed \/ entry = <<>>) /\ Len(pair) # 0 /\ Len(pair) # 1
  <2>1. LoadEntry(acc, entry)
          = [devs |-> Append(acc.devs, pair[1]), macs |-> Append(acc.macs, pair[2]), failed |-> acc.failed]
    BY <1>2, <1>6 DEF LoadEntry
  <2>2. pair[1] \in Text /\ pair[2] \in Text
    <3> HIDE DEF pair
    <3>1. \A k \in Nat : k # 0 /\ k # 1 => 1 \in 1 .. k /\ 2 \in 1 .. k
      OBVIOUS
    <3>2. 1 \in 1 .. Len(pair) /\ 2 \in 1 .. Len(pair)
      BY <1>1, <1>6, <3>1, Zenon
    <3> QED BY <1>1, <3>2, ElementOfSeq
  <2>3. /\ Append(acc.devs, pair[1]) \in Seq(Text) /\ Append(acc.macs, pair[2]) \in Seq(Text)
        /\ Len(Append(acc.macs, pair[2])) <= Len(Append(acc.devs, pair[1]))
    BY <1>2, <2>2
  <2> QED BY <1>2, <2>1, <2>3 DEF Accs, Texts
<1> QED BY <1>3, <1>4, <1>5, <1>6

\* The lists after each entry of the file.
LEMMA LoadedTable ==
  ASSUME NEW devs \in Texts, NEW macs \in Texts, Len(macs) <= Len(devs), NEW text \in Text
  PROVE  \E p \in [0 .. Len(Split(text, Space)) -> Accs] :
           /\ p[0] = From(devs, macs) /\ Loaded(devs, macs, text) = p[Len(Split(text, Space))]
           /\ \A i \in 1 .. Len(Split(text, Space)) :
                p[i] = LoadEntry(p[i - 1], Split(text, Space)[i])
<1> DEFINE array == Split(text, Space)
           n == Len(array)
           base == From(devs, macs)
           step == [i \in 1 .. n |-> [acc \in Accs |-> LoadEntry(acc, array[i])]]
           f == CHOOSE g : g = [i \in 0 .. n |->
                  IF i = 0 THEN [devs |-> devs, macs |-> macs, failed |-> FALSE]
                  ELSE LoadEntry(g[i - 1], array[i])]
<1>1. n \in Nat /\ \A i \in 1 .. n : array[i] \in Text
  <2>1. array \in Texts
    BY SplitType
  <2> HIDE DEF array
  <2> QED BY <2>1 DEF Texts
<1>2. base \in Accs
  BY DEF Accs, From, Texts
<1>3. step \in [1 .. n -> [Accs -> Accs]]
  <2> HIDE DEF array
  <2> QED BY <1>1, LoadEntryType
<1>4. PICK g \in [0 .. n -> Accs] : g[0] = base /\ \A i \in 1 .. n : g[i] = step[i][g[i - 1]]
  <2>1. n \in Nat
    BY <1>1
  <2> HIDE DEF array, n, step, f, base
  <2>2. PICK g : g \in Steps(n, Accs, base, step)
    BY ONLY <1>2, <1>3, <2>1, Recursion
  <2> QED BY <2>2 DEF Steps
<1>5. \A i \in 1 .. n : g[i] = LoadEntry(g[i - 1], array[i])
  <2> TAKE i \in 1 .. n
  <2> HIDE DEF array
  <2>1. g[i - 1] \in Accs
    BY <1>1
  <2> QED BY <1>4, <2>1
<1>6. g = [i \in 0 .. n |-> IF i = 0 THEN [devs |-> devs, macs |-> macs, failed |-> FALSE]
                             ELSE LoadEntry(g[i - 1], array[i])]
  <2> DEFINE h == [i \in 0 .. n |-> IF i = 0 THEN [devs |-> devs, macs |-> macs, failed |-> FALSE]
                                    ELSE LoadEntry(g[i - 1], array[i])]
  <2> HIDE DEF array
  <2>1. DOMAIN g = DOMAIN h /\ g = [i \in DOMAIN g |-> g[i]] /\ h = [i \in DOMAIN h |-> h[i]]
    BY <1>4
  <2>2. ASSUME NEW i \in 0 .. n PROVE g[i] = h[i]
    <3>1. CASE i = 0
      BY <1>4, <3>1 DEF From
    <3>2. CASE i # 0
      <4>1. i \in 1 .. n
        BY <3>2
      <4> QED BY <1>5, <3>2, <4>1
    <3> QED BY <3>1, <3>2
  <2> QED BY <2>1, <2>2
<1>7. f = [i \in 0 .. n |-> IF i = 0 THEN [devs |-> devs, macs |-> macs, failed |-> FALSE]
                             ELSE LoadEntry(f[i - 1], array[i])]
  <2> HIDE DEF array, n
  <2> QED BY <1>6, Zenon
<1>8. Loaded(devs, macs, text) = f[n]
  BY Zenon DEF Loaded
<1>9. f[n] = g[n]
  <2>1. f[0] = g[0] /\ \A i \in 1 .. n : f[i] = LoadEntry(f[i - 1], array[i])
    <3>1. 0 \in 0 .. n /\ \A i \in 1 .. n : i \in 0 .. n /\ i # 0
      BY <1>1
    <3> HIDE DEF f, n, step, array
    <3> QED BY <1>4, <1>7, <3>1, Zenon DEF From
  <2> HIDE DEF f, n, step, array, base
  <2>2. \A i \in 1 .. n : f[i - 1] = g[i - 1] => f[i] = g[i]
    BY <1>5, <2>1
  <2>3. n \in Nat /\ f[0] = g[0]
    BY <1>1, <2>1
  <2> QED BY ONLY <2>2, <2>3, InStep
<1> HIDE DEF f
<1> QED BY <1>4, <1>5, <1>8, <1>9

LEMMA LoadedType ==
  ASSUME NEW devs \in Texts, NEW macs \in Texts, Len(macs) <= Len(devs), NEW text \in Text
  PROVE  /\ Loaded(devs, macs, text).devs \in Texts /\ Loaded(devs, macs, text).macs \in Texts
         /\ Len(Loaded(devs, macs, text).macs) <= Len(Loaded(devs, macs, text).devs)
<1> DEFINE n == Len(Split(text, Space))
<1>1. n \in Nat /\ n \in 0 .. n
  BY SplitType DEF Texts
<1>2. PICK p \in [0 .. n -> Accs] : Loaded(devs, macs, text) = p[n]
  BY LoadedTable
<1>3. Loaded(devs, macs, text) \in Accs
  BY <1>1, <1>2
<1> QED BY <1>3 DEF Accs

\* List s with the first i elements of t behind it.
Begun(s, t, i) == s \o SubSeq(t, 1, i)

LEMMA Beginnings ==
  ASSUME NEW A, NEW s \in Seq(A), NEW t \in Seq(A)
  PROVE  /\ Begun(s, t, 0) = s /\ Begun(s, t, Len(t)) = s \o t
         /\ \A i \in 0 .. Len(t) : Begun(s, t, i) \in Seq(A)
         /\ \A i \in 1 .. Len(t) : Begun(s, t, i) = Append(Begun(s, t, i - 1), t[i])
<1>1. SubSeq(t, 1, 0) = <<>> /\ s \o <<>> = s /\ SubSeq(t, 1, Len(t)) = t
  OBVIOUS
<1>2. ASSUME NEW i \in 1 .. Len(t)
      PROVE  s \o SubSeq(t, 1, i) = Append(s \o SubSeq(t, 1, i - 1), t[i])
  <2> DEFINE b == SubSeq(t, 1, i - 1)
  <2>1. b \in Seq(A) /\ t[i] \in A /\ SubSeq(t, 1, i) = Append(b, t[i])
    OBVIOUS
  <2> HIDE DEF b
  <2>2. s \o Append(b, t[i]) = Append(s \o b, t[i])
    BY <2>1
  <2> QED BY <2>1, <2>2 DEF b
<1>3. \A i \in 0 .. Len(t) : s \o SubSeq(t, 1, i) \in Seq(A)
  OBVIOUS
<1> QED BY <1>1, <1>2, <1>3 DEF Begun

\* An entry that storeData wrote for texts without separators is read as it was.
LEMMA LoadWord ==
  ASSUME NEW devs \in Texts, NEW macs \in Texts, NEW device \in Words, NEW mac \in Words
  PROVE  LoadEntry(From(devs, macs), Entry(device, mac))
           = From(Append(devs, device), Append(macs, mac))
<1> DEFINE acc == From(devs, macs)
           entry == Entry(device, mac)
           pair == Split(entry, At)
<1>1. pair = <<device, mac>> /\ entry # <<>>
  <2>1. /\ device \in Text /\ mac \in Text /\ device # <<>> /\ mac # <<>>
        /\ \A i \in 1 .. Len(device) : device[i] # At
        /\ \A i \in 1 .. Len(mac) : mac[i] # At
    BY DEF Words
  <2> QED BY <2>1, EntrySplit, EntryText
<1>2. Len(pair) = 2 /\ Len(pair) # 0 /\ Len(pair) # 1 /\ pair[1] = device /\ pair[2] = mac
  BY <1>1
<1>3. ~acc.failed
  BY DEF From
<1>4. LoadEntry(acc, entry) = [acc EXCEPT !.devs = Append(@, pair[1]), !.macs = Append(@, pair[2])]
  <2>1. ~(acc.failed \/ entry = <<>>) /\ Len(pair) # 0 /\ Len(pair) # 1
    BY <1>1, <1>2, <1>3
  <2> HIDE DEF acc, entry
  <2> QED BY <2>1, Zenon DEF LoadEntry
<1>5. acc = [devs |-> devs, macs |-> macs, failed |-> FALSE]
  BY DEF From
<1> HIDE DEF acc, entry, pair
<1>6. LoadEntry(acc, entry) = [devs |-> Append(devs, device), macs |-> Append(macs, mac), failed |-> FALSE]
  BY <1>2, <1>4, <1>5
<1> QED BY <1>6 DEF acc, entry, From

\* StoreData.java: what storeData wrote for names and MACs without a separator,
\* loadData adds to the lists, each device with its MAC and in its order, and no
\* exception ends the loop before.
LEMMA StoredIsLoaded ==
  ASSUME NEW devs \in Texts, NEW macs \in Texts, Len(macs) <= Len(devs),
         NEW ds \in Seq(Words), NEW ms \in Seq(Words), Len(ds) = Len(ms)
  PROVE  Loaded(devs, macs, Format(ds, ms)) = From(devs \o ds, macs \o ms)
<1> DEFINE n == Len(ds)
           text == Format(ds, ms)
           D(i) == Begun(devs, ds, i)
           M(i) == Begun(macs, ms, i)
<1>1. n \in Nat /\ n \in 0 .. n /\ 0 \in 0 .. n /\ \A i \in 1 .. n : i \in 0 .. n
  BY WordLists
<1>2. text \in Text /\ Split(text, Space) = Entries(ds, ms, n)
  BY FormatSplit
<1>3. /\ Len(Entries(ds, ms, n)) = n
      /\ \A i \in 1 .. n : Entries(ds, ms, n)[i] = Entry(ds[i], ms[i])
  <2> HIDE DEF n
  <2>1. n \in 0 .. Len(ds)
    BY <1>1 DEF n
  <2> QED BY <2>1, EntriesNext
<1>4. PICK p : /\ p[0] = From(devs, macs) /\ Loaded(devs, macs, text) = p[n]
               /\ \A i \in 1 .. n : p[i] = LoadEntry(p[i - 1], Entry(ds[i], ms[i]))
  <2>1. PICK p \in [0 .. Len(Split(text, Space)) -> Accs] :
          /\ p[0] = From(devs, macs) /\ Loaded(devs, macs, text) = p[Len(Split(text, Space))]
          /\ \A i \in 1 .. Len(Split(text, Space)) :
               p[i] = LoadEntry(p[i - 1], Split(text, Space)[i])
    <3> HIDE DEF text
    <3> QED BY <1>2, LoadedTable
  <2> HIDE DEF text, n
  <2>2. /\ Len(Split(text, Space)) = n
        /\ \A i \in 1 .. n : Split(text, Space)[i] = Entry(ds[i], ms[i])
    BY ONLY <1>2, <1>3
  <2> QED BY ONLY <2>1, <2>2
<1>5. /\ ds \in Texts /\ ms \in Texts
      /\ \A i \in 1 .. n : ds[i] \in Words /\ ms[i] \in Words
  BY WordLists
<1>6. /\ D(0) = devs /\ M(0) = macs /\ D(n) = devs \o ds /\ M(n) = macs \o ms
      /\ \A i \in 1 .. n : D(i) = Append(D(i - 1), ds[i]) /\ M(i) = Append(M(i - 1), ms[i])
      /\ \A i \in 0 .. n : D(i) \in Texts /\ M(i) \in Texts
  <2>1. devs \in Seq(Text) /\ macs \in Seq(Text) /\ ds \in Seq(Text) /\ ms \in Seq(Text)
    BY <1>5 DEF Texts
  <2>2. \A s, t \in Seq(Text) :
          /\ Begun(s, t, 0) = s /\ Begun(s, t, Len(t)) = s \o t
          /\ \A i \in 0 .. Len(t) : Begun(s, t, i) \in Seq(Text)
          /\ \A i \in 1 .. Len(t) : Begun(s, t, i) = Append(Begun(s, t, i - 1), t[i])
    BY Beginnings
  <2>3. /\ D(0) = devs /\ D(n) = devs \o ds
        /\ \A i \in 1 .. n : D(i) = Append(D(i - 1), ds[i])
        /\ \A i \in 0 .. n : D(i) \in Seq(Text)
    BY ONLY <2>1, <2>2
  <2>4. /\ M(0) = macs /\ M(Len(ms)) = macs \o ms
        /\ \A i \in 1 .. Len(ms) : M(i) = Append(M(i - 1), ms[i])
        /\ \A i \in 0 .. Len(ms) : M(i) \in Seq(Text)
    BY ONLY <2>1, <2>2
  <2> HIDE DEF D, M
  <2> QED BY <2>3, <2>4 DEF Texts
<1> DEFINE S == {i \in 0 .. n : p[i] = From(D(i), M(i))}
<1>8. 0 \in S
  <2> HIDE DEF D, M, n
  <2> QED BY <1>1, <1>4, <1>6
<1>9. ASSUME NEW i \in 1 .. n, i - 1 \in S PROVE i \in S
  <2>1. i - 1 \in 0 .. n /\ i \in 0 .. n
    BY <1>1
  <2>2. D(i - 1) \in Texts /\ M(i - 1) \in Texts /\ ds[i] \in Words /\ ms[i] \in Words
    BY <1>5, <1>6, <2>1
  <2>3. p[i] = LoadEntry(From(D(i - 1), M(i - 1)), Entry(ds[i], ms[i]))
    BY <1>4, <1>9
  <2> HIDE DEF D, M
  <2>4. p[i] = From(Append(D(i - 1), ds[i]), Append(M(i - 1), ms[i]))
    BY <2>2, <2>3, LoadWord
  <2>5. p[i] = From(D(i), M(i))
    BY <1>6, <2>4
  <2> QED BY <2>1, <2>5
<1>10. n \in S
  <2>1. \A i \in 1 .. n : i - 1 \in S => i \in S
    BY <1>9
  <2>2. n \in Nat
    BY <1>1
  <2> HIDE DEF S, n
  <2>3. \A i \in 0 .. n : i \in S
    BY ONLY <1>8, <2>1, <2>2, UpTo
  <2> QED BY <2>2, <2>3
<1>11. p[n] = From(D(n), M(n))
  BY <1>10
<1> HIDE DEF D, M, text, n
<1>12. Loaded(devs, macs, text) = From(devs \o ds, macs \o ms)
  BY <1>4, <1>6, <1>11
<1> QED BY <1>12 DEF text

-------------------------------------------------------------------------------
(* The inductive invariant *)

\* Each device of a list stands beside a MAC that the user registered for it.
Paired(devs, macs) ==
  /\ Len(devs) = Len(macs)
  /\ \A i \in 1 .. Len(devs) : <<devs[i], macs[i]>> \in registered

\* The types of the lists, and that no MAC stands without a device.
StoreTypes ==
  /\ at \in {"running", "storing", "stopped", "dead"} /\ torn \in BOOLEAN
  /\ regDevices \in Texts /\ regDevicesMac \in Texts
  /\ Len(regDevicesMac) <= Len(regDevices)
  /\ file \in Text
  /\ saved = <<saved[1], saved[2]>> /\ saved[1] \in Texts /\ saved[2] \in Texts
  /\ registered \subseteq Devices \X Macs

\* With plain names: the file is empty or what was last stored, which are lists as
\* sound as the app's own; it is empty only while it is written or after the process
\* died at that; and a stopped activity has stored the lists it still shows.
Sound ==
  /\ EachWithItsMac /\ Len(regDevices) <= MaxDevices
  /\ Paired(saved[1], saved[2]) /\ Len(saved[1]) <= MaxDevices
  /\ file = <<>> \/ file = Format(saved[1], saved[2])
  /\ ~torn /\ at # "storing" => file = Format(saved[1], saved[2])
  /\ at = "stopped" => saved = lists /\ ~torn

StoreIInv == StoreTypes /\ (PlainOnly => Sound)

LEMMA NothingStored == Format(<<>>, <<>>) = <<>>
<1>1. <<>> \in Texts /\ Len(<<>>) = 0
  BY DEF Texts
<1>2. Len(<<>>) <= Len(<<>>)
  BY <1>1
<1>3. PICK data : data[0] = <<>> /\ Format(<<>>, <<>>) = data[Len(<<>>)]
  BY <1>1, <1>2, FormatTable
<1> QED BY <1>1, <1>3

\* What is registered and plain is made of words, and so are the lists of it.
LEMMA PlainWords ==
  ASSUME StoreTypes, PlainOnly, NEW devs \in Texts, NEW macs \in Texts, Paired(devs, macs)
  PROVE  devs \in Seq(Words) /\ macs \in Seq(Words) /\ Len(devs) = Len(macs) /\ Len(devs) \in Nat
<1>1. ASSUME NEW d, NEW m, <<d, m>> \in registered PROVE d \in Words /\ m \in Words
  <2>1. d \in Devices /\ m \in Macs
    BY <1>1 DEF StoreTypes
  <2>2. d \in Text /\ m \in Text /\ d # <<>> /\ m # <<>>
    BY <2>1, StoreAssumption DEF Text
  <2>3. {At, Space} \cap ToSet(d) = {} /\ {At, Space} \cap ToSet(m) = {}
    <3>1. <<d, m>>[1] = d /\ <<d, m>>[2] = m /\ 1 \in 1 .. 2 /\ 2 \in 1 .. 2
      OBVIOUS
    <3> QED BY <1>1, <3>1 DEF PlainOnly
  <2>4. \A t \in Text : {At, Space} \cap ToSet(t) = {} =>
                          \A i \in 1 .. Len(t) : t[i] # At /\ t[i] # Space
    <3> SUFFICES ASSUME NEW t \in Text, {At, Space} \cap ToSet(t) = {}, NEW i \in 1 .. Len(t)
                 PROVE  t[i] # At /\ t[i] # Space
      OBVIOUS
    <3>1. t[i] \in ToSet(t)
      BY DEF ToSet, Text
    <3> QED BY <3>1
  <2> QED BY <2>2, <2>3, <2>4 DEF Words
<1>2. /\ Len(devs) = Len(macs) /\ Len(devs) \in Nat
      /\ \A i \in 1 .. Len(devs) : devs[i] \in Words /\ macs[i] \in Words
  <2>1. Len(devs) = Len(macs) /\ Len(devs) \in Nat
        /\ \A i \in 1 .. Len(devs) : <<devs[i], macs[i]>> \in registered
    BY DEF Paired, Texts
  <2> QED BY <1>1, <2>1
<1>3. ASSUME NEW s \in Texts, \A i \in 1 .. Len(s) : s[i] \in Words PROVE s \in Seq(Words)
  <2> HIDE DEF Words
  <2>1. s \in [1 .. Len(s) -> Words] /\ Len(s) \in Nat
    BY <1>3 DEF Texts
  <2> QED BY <2>1
<1> QED BY <1>2, <1>3

\* What a new process, or a new activity, makes of a file that was written.
LEMMA LoadRestores ==
  ASSUME StoreTypes, PlainOnly, Paired(saved[1], saved[2]), file = Format(saved[1], saved[2]),
         NEW devs \in Texts, NEW macs \in Texts, Len(macs) <= Len(devs)
  PROVE  Loaded(devs, macs, file).devs = devs \o saved[1]
         /\ Loaded(devs, macs, file).macs = macs \o saved[2]
<1>1. saved[1] \in Texts /\ saved[2] \in Texts
  BY DEF StoreTypes
<1>2. saved[1] \in Seq(Words) /\ saved[2] \in Seq(Words) /\ Len(saved[1]) = Len(saved[2])
  BY <1>1, PlainWords
<1>3. Loaded(devs, macs, file) = From(devs \o saved[1], macs \o saved[2])
  BY <1>2, StoredIsLoaded
<1> QED BY <1>3 DEF From

LEMMA InitStore == Init => StoreIInv
<1> SUFFICES ASSUME Init PROVE StoreIInv
  OBVIOUS
<1>1. <<>> \in Text /\ <<>> \in Texts /\ Len(<<>>) = 0
  BY DEF Text, Texts
<1>2. saved = <<<<>>, <<>>>> /\ saved[1] = <<>> /\ saved[2] = <<>>
  BY DEF Init
<1>3. StoreTypes
  <2>1. /\ at = "running" /\ torn = FALSE /\ regDevices = <<>> /\ regDevicesMac = <<>>
        /\ file = <<>> /\ registered = {}
    BY DEF Init
  <2>2. saved = <<saved[1], saved[2]>>
    BY <1>2
  <2>3. Len(regDevicesMac) <= Len(regDevices)
    BY <1>1, <2>1
  <2>4. saved[1] \in Texts /\ saved[2] \in Texts
    BY <1>1, <1>2, Zenon
  <2> QED BY <1>1, <2>1, <2>2, <2>3, <2>4, Zenon DEF StoreTypes
<1>4. Paired(<<>>, <<>>)
  BY <1>1 DEF Paired
<1>5. Sound
  BY <1>1, <1>2, <1>4, NothingStored, StoreAssumption DEF Sound, Init, EachWithItsMac, Paired
<1> QED BY <1>3, <1>5 DEF StoreIInv

LEMMA RemovedFrom ==
  ASSUME NEW A, NEW s \in Seq(A), NEW i \in 1 .. Len(s)
  PROVE  /\ RemoveAt(s, i) \in Seq(A) /\ Len(RemoveAt(s, i)) = Len(s) - 1
         /\ \A j \in 1 .. Len(s) - 1 : RemoveAt(s, i)[j] = IF j < i THEN s[j] ELSE s[j + 1]
<1> DEFINE a == SubSeq(s, 1, i - 1)
           b == SubSeq(s, i + 1, Len(s))
<1>1. a \in Seq(A) /\ Len(a) = i - 1 /\ \A j \in 1 .. i - 1 : a[j] = s[j]
  OBVIOUS
<1>2. b \in Seq(A) /\ Len(b) = Len(s) - i /\ \A j \in 1 .. Len(s) - i : b[j] = s[i + j]
  OBVIOUS
<1> HIDE DEF a, b
<1>3. a \o b \in Seq(A) /\ Len(a \o b) = Len(s) - 1
  <2>1. a \o b \in Seq(A) /\ Len(a \o b) = Len(a) + Len(b)
    BY <1>1, <1>2, ConcatProperties
  <2>2. (i - 1) + (Len(s) - i) = Len(s) - 1
    OBVIOUS
  <2> QED BY <1>1, <1>2, <2>1, <2>2
<1>4. ASSUME NEW j \in 1 .. Len(s) - 1 PROVE (a \o b)[j] = IF j < i THEN s[j] ELSE s[j + 1]
  <2>1. (a \o b)[j] = IF j <= Len(a) THEN a[j] ELSE b[j - Len(a)]
    BY <1>1, <1>2, ConcatProperties
  <2>2. CASE j < i
    <3>1. j <= Len(a) /\ j \in 1 .. i - 1
      BY <1>1, <2>2
    <3> QED BY <1>1, <2>1, <2>2, <3>1
  <2>3. CASE ~(j < i)
    <3>1. ~(j <= Len(a)) /\ j - Len(a) \in 1 .. Len(s) - i /\ i + (j - Len(a)) = j + 1
      BY <1>1, <2>3
    <3> QED BY <1>2, <2>1, <2>3, <3>1
  <2> QED BY <2>2, <2>3
<1>5. RemoveAt(s, i) = a \o b
  BY DEF RemoveAt, a, b
<1> QED BY <1>3, <1>4, <1>5

\* What was plain before a registration is plain after it, and the other way round.
LEMMA StillPlain ==
  ASSUME registered \subseteq registered', PlainOnly'
  PROVE  PlainOnly
  BY Zenon DEF PlainOnly

LEMMA RegisterKeeps ==
  ASSUME StoreIInv, NEW device \in Devices, NEW mac \in Macs, Register(device, mac)
  PROVE  StoreIInv'
<1>1. /\ at = "running" /\ Len(regDevices) < MaxDevices
      /\ regDevices' = Append(regDevices, device) /\ regDevicesMac' = Append(regDevicesMac, mac)
      /\ registered' = registered \cup {<<device, mac>>}
      /\ file' = file /\ at' = at /\ saved' = saved /\ torn' = torn
  BY DEF Register
<1>2. /\ StoreTypes /\ device \in Text /\ mac \in Text /\ MaxDevices \in Nat
      /\ regDevices \in Seq(Text) /\ regDevicesMac \in Seq(Text)
      /\ Len(regDevicesMac) <= Len(regDevices)
  BY StoreAssumption DEF StoreIInv, StoreTypes, Text, Texts
<1>3. /\ regDevices' \in Seq(Text) /\ Len(regDevices') = Len(regDevices) + 1
      /\ regDevicesMac' \in Seq(Text) /\ Len(regDevicesMac') = Len(regDevicesMac) + 1
      /\ \A i \in 1 .. Len(regDevices) : regDevices'[i] = regDevices[i]
      /\ \A i \in 1 .. Len(regDevicesMac) : regDevicesMac'[i] = regDevicesMac[i]
      /\ regDevices'[Len(regDevices) + 1] = device
      /\ regDevicesMac'[Len(regDevicesMac) + 1] = mac
  <2>1. \A s \in Seq(Text), x \in Text :
          /\ Append(s, x) \in Seq(Text) /\ Len(Append(s, x)) = Len(s) + 1
          /\ \A i \in 1 .. Len(s) : Append(s, x)[i] = s[i]
          /\ Append(s, x)[Len(s) + 1] = x
    BY AppendProperties
  <2> QED BY <1>1, <1>2, <2>1
<1>4. StoreTypes'
  <2>1. Len(regDevicesMac') <= Len(regDevices')
    BY <1>2, <1>3
  <2>2. registered' \subseteq Devices \X Macs
    BY <1>1, <1>2 DEF StoreTypes
  <2> QED BY <1>1, <1>2, <1>3, <2>1, <2>2 DEF StoreTypes, Texts
<1>5. ASSUME PlainOnly' PROVE Sound'
  <2>1. Sound
    BY <1>1, <1>5, StillPlain DEF StoreIInv
  <2>2. EachWithItsMac'
    <3>1. Len(regDevices) = Len(regDevicesMac)
          /\ \A i \in 1 .. Len(regDevices) : <<regDevices[i], regDevicesMac[i]>> \in registered
      BY <2>1 DEF Sound, EachWithItsMac
    <3>2. \A i \in 1 .. Len(regDevices) + 1 : i \in 1 .. Len(regDevices) \/ i = Len(regDevices) + 1
      BY <1>2
    <3>3. \A i \in 1 .. Len(regDevices') : <<regDevices'[i], regDevicesMac'[i]>> \in registered'
      BY <1>1, <1>3, <3>1, <3>2
    <3> QED BY <1>3, <3>1, <3>3 DEF EachWithItsMac
  <2>3. Len(regDevices') <= MaxDevices
    BY <1>1, <1>2, <1>3
  <2>4. Paired(saved[1], saved[2])'
    BY <1>1, <2>1 DEF Sound, Paired
  <2> QED BY <1>1, <2>1, <2>2, <2>3, <2>4 DEF Sound
<1> QED BY <1>4, <1>5 DEF StoreIInv

LEMMA DeleteKeeps ==
  ASSUME StoreIInv, NEW i \in 1 .. MaxDevices, Delete(i)
  PROVE  StoreIInv'
<1>1. /\ at = "running" /\ i <= Len(regDevices)
      /\ regDevices' = RemoveAt(regDevices, i)
      /\ file' = file /\ registered' = registered /\ saved' = saved /\ torn' = torn
  BY DEF Delete
<1>2. /\ StoreTypes /\ MaxDevices \in Nat
      /\ regDevices \in Seq(Text) /\ regDevicesMac \in Seq(Text)
      /\ Len(regDevicesMac) <= Len(regDevices) /\ i \in 1 .. Len(regDevices)
  BY <1>1, StoreAssumption DEF StoreIInv, StoreTypes, Texts
<1>3. /\ regDevices' \in Seq(Text) /\ Len(regDevices') = Len(regDevices) - 1
      /\ \A j \in 1 .. Len(regDevices) - 1 :
           regDevices'[j] = IF j < i THEN regDevices[j] ELSE regDevices[j + 1]
  BY <1>1, <1>2, RemovedFrom
<1>4. CASE i <= Len(regDevicesMac)
  <2>1. regDevicesMac' = RemoveAt(regDevicesMac, i) /\ at' = at /\ i \in 1 .. Len(regDevicesMac)
    BY <1>2, <1>4 DEF Delete
  <2>2. /\ regDevicesMac' \in Seq(Text) /\ Len(regDevicesMac') = Len(regDevicesMac) - 1
        /\ \A j \in 1 .. Len(regDevicesMac) - 1 :
             regDevicesMac'[j] = IF j < i THEN regDevicesMac[j] ELSE regDevicesMac[j + 1]
    BY <1>2, <2>1, RemovedFrom
  <2>3. Len(regDevicesMac') <= Len(regDevices')
    BY <1>2, <1>3, <2>2
  <2>4. StoreTypes'
    BY <1>1, <1>2, <1>3, <2>1, <2>2, <2>3 DEF StoreTypes, Texts
  <2>5. ASSUME PlainOnly' PROVE Sound'
    <3>1. Sound
      BY <1>1, <2>5, StillPlain DEF StoreIInv
    <3>2. Len(regDevices) = Len(regDevicesMac)
          /\ \A j \in 1 .. Len(regDevices) : <<regDevices[j], regDevicesMac[j]>> \in registered
      BY <3>1 DEF Sound, EachWithItsMac
    <3>3. ASSUME NEW j \in 1 .. Len(regDevices')
          PROVE  <<regDevices'[j], regDevicesMac'[j]>> \in registered'
      <4>1. /\ j \in 1 .. Len(regDevices) - 1 /\ j \in 1 .. Len(regDevicesMac) - 1
            /\ j \in 1 .. Len(regDevices) /\ j + 1 \in 1 .. Len(regDevices)
        BY <1>2, <1>3, <3>2
      <4>2. CASE j < i
        BY <1>1, <1>3, <2>2, <3>2, <4>1, <4>2
      <4>3. CASE ~(j < i)
        BY <1>1, <1>3, <2>2, <3>2, <4>1, <4>3
      <4> QED BY <4>2, <4>3
    <3>4. EachWithItsMac'
      BY <1>3, <2>2, <3>2, <3>3 DEF EachWithItsMac
    <3>5. Len(regDevices') <= MaxDevices
      BY <1>2, <1>3, <3>1 DEF Sound
    <3>6. Paired(saved[1], saved[2])'
      BY <1>1, <3>1 DEF Sound, Paired
    <3> QED BY <1>1, <2>1, <3>1, <3>4, <3>5, <3>6 DEF Sound
  <2> QED BY <2>4, <2>5 DEF StoreIInv
<1>5. CASE ~(i <= Len(regDevicesMac))
  <2>1. regDevicesMac' = regDevicesMac /\ at' = "dead"
    BY <1>5 DEF Delete
  <2>2. Len(regDevicesMac') <= Len(regDevices')
    BY <1>2, <1>3, <1>5, <2>1
  <2>3. StoreTypes'
    BY <1>1, <1>2, <1>3, <2>1, <2>2 DEF StoreTypes, Texts
  <2>4. ~PlainOnly'
    <3>1. PlainOnly' => Sound
      BY <1>1, StillPlain DEF StoreIInv
    <3>2. Sound => Len(regDevices) = Len(regDevicesMac)
      BY DEF Sound, EachWithItsMac
    <3> QED BY <1>2, <1>5, <3>1, <3>2
  <2> QED BY <2>3, <2>4 DEF StoreIInv
<1> QED BY <1>4, <1>5

\* With plain lists, the text that storeData composes is complete.
LEMMA StoreWriteKeeps ==
  ASSUME StoreIInv, StoreWrite
  PROVE  StoreIInv'
<1>1. /\ at = "storing" /\ registered' = registered
      /\ regDevices' = regDevices /\ regDevicesMac' = regDevicesMac
  BY DEF StoreWrite, lists
<1>2. StoreTypes /\ regDevices \in Texts /\ regDevicesMac \in Texts
  BY DEF StoreIInv, StoreTypes
<1>3. PlainOnly' => Sound
  BY <1>1, StillPlain DEF StoreIInv
<1>4. CASE Len(regDevices) <= Len(regDevicesMac)
  <2>1. /\ file' = Format(regDevices, regDevicesMac) /\ at' = "stopped"
        /\ saved' = <<regDevices, regDevicesMac>> /\ torn' = FALSE
    BY <1>4 DEF StoreWrite, lists
  <2>2. saved'[1] = regDevices /\ saved'[2] = regDevicesMac /\ saved' = <<saved'[1], saved'[2]>>
    BY <2>1
  <2>3. file' \in Text
    BY <1>2, <1>4, <2>1, FormatText
  <2>4. StoreTypes'
    BY <1>1, <1>2, <2>1, <2>2, <2>3 DEF StoreTypes
  <2>5. ASSUME PlainOnly' PROVE Sound'
    <3>1. EachWithItsMac /\ Len(regDevices) <= MaxDevices
      BY <1>3, <2>5 DEF Sound
    <3>2. EachWithItsMac' /\ Len(regDevices') <= MaxDevices
      BY <1>1, <3>1 DEF EachWithItsMac
    <3>3. Paired(saved[1], saved[2])' /\ Len(saved'[1]) <= MaxDevices
      BY <1>1, <2>2, <3>1 DEF EachWithItsMac, Paired
    <3>4. file' = Format(saved'[1], saved'[2]) /\ saved' = lists'
      BY <1>1, <2>1, <2>2 DEF lists
    <3> QED BY <2>1, <3>2, <3>3, <3>4 DEF Sound
  <2> QED BY <2>4, <2>5 DEF StoreIInv
<1>5. CASE ~(Len(regDevices) <= Len(regDevicesMac))
  <2>1. at' = "dead" /\ torn' = TRUE /\ file' = file /\ saved' = saved
    BY <1>5 DEF StoreWrite
  <2>2. StoreTypes'
    BY <1>1, <1>2, <2>1 DEF StoreTypes
  <2>3. Len(regDevices) \in Nat /\ Len(regDevicesMac) \in Nat
    BY <1>2 DEF Texts
  <2>4. ~PlainOnly'
    <3>1. Sound => Len(regDevices) = Len(regDevicesMac)
      BY DEF Sound, EachWithItsMac
    <3> QED BY <1>3, <1>5, <2>3, <3>1
  <2> QED BY <2>2, <2>4 DEF StoreIInv
<1> QED BY <1>4, <1>5

\* A new activity or a new process, from the lists devs and macs.
LEMMA LoadKeeps ==
  ASSUME StoreIInv, NEW devs \in Texts, NEW macs \in Texts, Len(macs) <= Len(devs),
         Load(devs, macs), at' = "running",
         file' = file, registered' = registered, saved' = saved, torn' = torn,
         PlainOnly => /\ Paired(devs, macs)
                      /\ \/ file = Format(saved[1], saved[2])
                            /\ Len(devs) + Len(saved[1]) <= MaxDevices
                         \/ file = <<>> /\ torn /\ Len(devs) <= MaxDevices
  PROVE  StoreIInv'
<1>1. /\ StoreTypes /\ file \in Text /\ saved[1] \in Texts /\ saved[2] \in Texts
      /\ regDevices' = Loaded(devs, macs, file).devs
      /\ regDevicesMac' = Loaded(devs, macs, file).macs
  BY DEF StoreIInv, StoreTypes, Load
<1>2. /\ regDevices' \in Texts /\ regDevicesMac' \in Texts
      /\ Len(regDevicesMac') <= Len(regDevices')
  BY <1>1, LoadedType
<1>3. StoreTypes'
  BY <1>1, <1>2 DEF StoreTypes
<1>4. ASSUME PlainOnly' PROVE Sound'
  <2>1. PlainOnly
    BY <1>4, StillPlain
  <2>2. Sound /\ Paired(saved[1], saved[2]) /\ Paired(devs, macs)
    BY <2>1 DEF StoreIInv, Sound
  <2>3. EachWithItsMac' /\ Len(regDevices') <= MaxDevices
    <3>1. CASE file = Format(saved[1], saved[2]) /\ Len(devs) + Len(saved[1]) <= MaxDevices
      <4>1. regDevices' = devs \o saved[1] /\ regDevicesMac' = macs \o saved[2]
        BY <1>1, <2>1, <2>2, <3>1, LoadRestores
      <4>2. /\ Len(devs) = Len(macs) /\ Len(saved[1]) = Len(saved[2])
            /\ Len(devs) \in Nat /\ Len(saved[1]) \in Nat
        BY <1>1, <2>2 DEF Paired, Texts
      <4>3. /\ Len(regDevices') = Len(devs) + Len(saved[1])
            /\ Len(regDevicesMac') = Len(devs) + Len(saved[1])
            /\ \A i \in 1 .. Len(devs) + Len(saved[1]) :
                 /\ regDevices'[i] = IF i <= Len(devs) THEN devs[i] ELSE saved[1][i - Len(devs)]
                 /\ regDevicesMac'[i] = IF i <= Len(devs) THEN macs[i] ELSE saved[2][i - Len(devs)]
        <5>1. \A s, t \in Seq(Text) :
                /\ Len(s \o t) = Len(s) + Len(t)
                /\ \A i \in 1 .. Len(s) + Len(t) :
                     (s \o t)[i] = IF i <= Len(s) THEN s[i] ELSE t[i - Len(s)]
          BY ConcatProperties
        <5>2. /\ devs \in Seq(Text) /\ macs \in Seq(Text)
              /\ saved[1] \in Seq(Text) /\ saved[2] \in Seq(Text)
          BY <1>1 DEF Texts
        <5>3. /\ Len(regDevices') = Len(devs) + Len(saved[1])
              /\ \A i \in 1 .. Len(devs) + Len(saved[1]) :
                   regDevices'[i] = IF i <= Len(devs) THEN devs[i] ELSE saved[1][i - Len(devs)]
          BY ONLY <4>1, <5>1, <5>2
        <5>4. /\ Len(regDevicesMac') = Len(macs) + Len(saved[2])
              /\ \A i \in 1 .. Len(macs) + Len(saved[2]) :
                   regDevicesMac'[i] = IF i <= Len(macs) THEN macs[i] ELSE saved[2][i - Len(macs)]
          BY ONLY <4>1, <5>1, <5>2
        <5> QED BY ONLY <4>2, <5>3, <5>4
      <4>4. ASSUME NEW i \in 1 .. Len(devs) + Len(saved[1])
            PROVE  <<regDevices'[i], regDevicesMac'[i]>> \in registered'
        <5>1. CASE i <= Len(devs)
          <6>1. i \in 1 .. Len(devs)
            BY <4>2, <5>1
          <6> QED BY <2>2, <4>3, <5>1, <6>1 DEF Paired
        <5>2. CASE ~(i <= Len(devs))
          <6>1. i - Len(devs) \in 1 .. Len(saved[1])
            BY <4>2, <5>2
          <6> QED BY <2>2, <4>3, <5>2, <6>1 DEF Paired
        <5> QED BY <5>1, <5>2
      <4> QED BY <3>1, <4>3, <4>4 DEF EachWithItsMac
    <3>2. CASE file = <<>> /\ Len(devs) <= MaxDevices
      <4>1. <<>> \in Seq(Words) /\ Len(<<>>) = Len(<<>>) /\ devs \o <<>> = devs /\ macs \o <<>> = macs
        BY DEF Texts
      <4>2. Loaded(devs, macs, <<>>) = From(devs, macs)
        BY <4>1, NothingStored, StoredIsLoaded
      <4>3. regDevices' = devs /\ regDevicesMac' = macs
        BY <1>1, <3>2, <4>2 DEF From
      <4> QED BY <2>2, <3>2, <4>3 DEF EachWithItsMac, Paired
    <3> QED BY <2>1, <3>1, <3>2
  <2>4. Paired(saved[1], saved[2])'
    BY <2>2 DEF Paired
  <2>5. /\ Len(saved'[1]) <= MaxDevices
        /\ file' = <<>> \/ file' = Format(saved'[1], saved'[2])
        /\ ~torn' => file' = Format(saved'[1], saved'[2])
    BY <2>1, <2>2 DEF Sound
  <2> QED BY <2>3, <2>4, <2>5 DEF Sound
<1> QED BY <1>3, <1>4 DEF StoreIInv

LEMMA NextKeeps == StoreIInv /\ [Next]_vars => StoreIInv'
<1> SUFFICES ASSUME StoreIInv, [Next]_vars PROVE StoreIInv'
  OBVIOUS
<1>1. StoreTypes /\ regDevices \in Texts /\ regDevicesMac \in Texts
      /\ Len(regDevicesMac) <= Len(regDevices) /\ saved[1] \in Texts /\ saved[2] \in Texts
  BY DEF StoreIInv, StoreTypes
<1>2. ASSUME NEW device \in Devices, NEW mac \in Macs, Register(device, mac) PROVE StoreIInv'
  BY <1>2, RegisterKeeps
<1>3. ASSUME NEW i \in 1 .. MaxDevices, Delete(i) PROVE StoreIInv'
  BY <1>3, DeleteKeeps
<1>4. CASE StoreOpen
  <2>1. /\ at' = "storing" /\ file' = <<>> /\ regDevices' = regDevices
        /\ regDevicesMac' = regDevicesMac /\ registered' = registered /\ saved' = saved
        /\ torn' = torn
    BY <1>4 DEF StoreOpen, lists
  <2>2. StoreTypes'
    BY <1>1, <2>1 DEF StoreTypes, Text
  <2>3. PlainOnly' => Sound'
    BY <2>1 DEF StoreIInv, Sound, EachWithItsMac, Paired, PlainOnly
  <2> QED BY <2>2, <2>3 DEF StoreIInv
<1>5. CASE StoreWrite
  BY <1>5, StoreWriteKeeps
<1>6. CASE Resume
  <2>1. /\ at = "stopped" /\ at' = "running" /\ file' = file /\ regDevices' = regDevices
        /\ regDevicesMac' = regDevicesMac /\ registered' = registered /\ saved' = saved
        /\ torn' = torn
    BY <1>6 DEF Resume, lists
  <2>2. StoreTypes'
    BY <1>1, <2>1 DEF StoreTypes
  <2>3. PlainOnly' => Sound'
    BY <2>1 DEF StoreIInv, Sound, EachWithItsMac, Paired, PlainOnly
  <2> QED BY <2>2, <2>3 DEF StoreIInv
<1>7. CASE Recreate
  <2>1. /\ at = "stopped" /\ 2 * Len(regDevices) <= MaxDevices /\ Load(regDevices, regDevicesMac)
        /\ at' = "running" /\ file' = file /\ registered' = registered /\ saved' = saved
        /\ torn' = torn
    BY <1>7 DEF Recreate
  <2>2. ASSUME PlainOnly
        PROVE  /\ Paired(regDevices, regDevicesMac) /\ file = Format(saved[1], saved[2])
               /\ Len(regDevices) + Len(saved[1]) <= MaxDevices
    <3>1. Sound
      BY <2>2 DEF StoreIInv
    <3>2. saved = <<regDevices, regDevicesMac>> /\ ~torn /\ file = Format(saved[1], saved[2])
      BY <2>1, <3>1 DEF Sound, lists
    <3>3. Len(regDevices) \in Nat /\ saved[1] = regDevices
      BY <1>1, <3>2 DEF Texts
    <3>4. Len(regDevices) + Len(saved[1]) <= MaxDevices
      BY <2>1, <3>3, StoreAssumption
    <3> QED BY <3>1, <3>2, <3>4 DEF Sound, EachWithItsMac, Paired
  <2> QED BY <1>1, <2>1, <2>2, LoadKeeps
<1>8. CASE Kill
  <2>1. /\ at # "dead" /\ at' = "dead" /\ file' = file /\ regDevices' = regDevices
        /\ regDevicesMac' = regDevicesMac /\ registered' = registered /\ saved' = saved
        /\ torn' = (torn \/ at = "storing")
    BY <1>8 DEF Kill, lists
  <2>2. StoreTypes'
    BY <1>1, <2>1 DEF StoreTypes
  <2>3. PlainOnly' => Sound'
    BY <2>1 DEF StoreIInv, Sound, EachWithItsMac, Paired, PlainOnly
  <2> QED BY <2>2, <2>3 DEF StoreIInv
<1>9. CASE Launch
  <2>1. /\ at = "dead" /\ Load(<<>>, <<>>)
        /\ at' = "running" /\ file' = file /\ registered' = registered /\ saved' = saved
        /\ torn' = torn
    BY <1>9 DEF Launch
  <2>2. <<>> \in Texts /\ Len(<<>>) = 0 /\ Len(<<>>) <= Len(<<>>)
    BY DEF Texts
  <2>3. ASSUME PlainOnly
        PROVE  /\ Paired(<<>>, <<>>)
               /\ \/ file = Format(saved[1], saved[2]) /\ Len(<<>>) + Len(saved[1]) <= MaxDevices
                  \/ file = <<>> /\ torn /\ Len(<<>>) <= MaxDevices
    <3>1. Sound /\ MaxDevices \in Nat
      BY <2>3, StoreAssumption DEF StoreIInv
    <3>2. /\ file = Format(saved[1], saved[2]) \/ (file = <<>> /\ torn)
          /\ Len(saved[1]) <= MaxDevices
      BY <2>1, <3>1 DEF Sound
    <3>3. Len(saved[1]) \in Nat
      BY <1>1 DEF Texts
    <3>4. Len(<<>>) + Len(saved[1]) <= MaxDevices /\ Len(<<>>) <= MaxDevices
      BY <2>2, <3>1, <3>2, <3>3
    <3>5. Paired(<<>>, <<>>)
      BY <2>2 DEF Paired
    <3> QED BY <3>2, <3>4, <3>5
  <2> QED BY <2>1, <2>2, <2>3, LoadKeeps
<1>10. CASE UNCHANGED vars
  <2>1. /\ at' = at /\ file' = file /\ regDevices' = regDevices
        /\ regDevicesMac' = regDevicesMac /\ registered' = registered /\ saved' = saved
        /\ torn' = torn
    BY <1>10 DEF vars
  <2>2. StoreTypes'
    BY <1>1, <2>1 DEF StoreTypes
  <2>3. PlainOnly' => Sound'
    BY <2>1 DEF StoreIInv, Sound, EachWithItsMac, Paired, PlainOnly, lists
  <2> QED BY <2>2, <2>3 DEF StoreIInv
<1> QED BY <1>2, <1>3, <1>4, <1>5, <1>6, <1>7, <1>8, <1>9, <1>10 DEF Next

LEMMA IInvImpliesProperties == StoreIInv => StoreTypeOK /\ PlainWithItsMac
<1> SUFFICES ASSUME StoreIInv PROVE StoreTypeOK /\ PlainWithItsMac
  OBVIOUS
<1>1. saved = <<saved[1], saved[2]>> /\ saved[1] \in Texts /\ saved[2] \in Texts
  BY DEF StoreIInv, StoreTypes
<1>2. Len(saved) = 2 /\ \A j \in 1 .. 2 : saved[j] \in Texts
  <2>1. \A x, y : Len(<<x, y>>) = 2
    OBVIOUS
  <2>2. Len(saved) = 2
    BY <1>1, <2>1, Zenon
  <2>3. \A j \in 1 .. 2 : j = 1 \/ j = 2
    OBVIOUS
  <2> QED BY <1>1, <2>2, <2>3
<1>3. StoreTypeOK
  BY <1>2 DEF StoreIInv, StoreTypes, StoreTypeOK, Sound, Text, Texts
<1>4. PlainWithItsMac
  BY DEF StoreIInv, Sound, PlainWithItsMac
<1> QED BY <1>3, <1>4

\* StoreData.java: the file is empty or holds the lists of the last onStop, which are
\* the app's own while it is stopped; an inductive invariant.
THEOREM StoreInvariance == Spec => []StoreIInv
  BY InitStore, NextKeeps, PTL DEF Spec

\* StoreData.java, MainActivity.java, RegisteredAdapter.java: whatever is registered,
\* deleted, stored and loaded, wherever the process dies and whatever the texts hold,
\* the lists keep their types and no MAC is without a device.
THEOREM StoreTypeCorrect == Spec => []StoreTypeOK
  BY StoreInvariance, IInvImpliesProperties, PTL

\* StoreData.java:42: as long as no text holds a separator of the file format, every
\* device stands beside a MAC that the user registered for it, over any number of
\* stops, kills, launches and new activities.
THEOREM EachPlainWithItsMac == Spec => []PlainWithItsMac
  BY StoreInvariance, IInvImpliesProperties, PTL

\* StoreData.java: a new process shows exactly the devices of the last onStop that
\* ended, with their MACs and in their order, unless a text holds a separator or a
\* process died between the emptying of the file and the writing of it.
THEOREM RestoredAtLaunch == Spec => LaunchRestores
<1>1. StoreIInv /\ [Next]_vars => [Launch /\ PlainOnly /\ ~torn => lists' = saved]_vars
  <2> SUFFICES ASSUME StoreIInv, Launch, PlainOnly, ~torn PROVE lists' = saved
    OBVIOUS
  <2>1. /\ at = "dead" /\ regDevices' = Loaded(<<>>, <<>>, file).devs
        /\ regDevicesMac' = Loaded(<<>>, <<>>, file).macs
    BY DEF Launch, Load
  <2>2. /\ StoreTypes /\ Sound /\ saved = <<saved[1], saved[2]>>
        /\ saved[1] \in Texts /\ saved[2] \in Texts
    BY DEF StoreIInv, StoreTypes
  <2>3. file = Format(saved[1], saved[2]) /\ Paired(saved[1], saved[2])
    BY <2>1, <2>2 DEF Sound
  <2>4. /\ <<>> \in Texts /\ Len(<<>>) <= Len(<<>>)
        /\ <<>> \o saved[1] = saved[1] /\ <<>> \o saved[2] = saved[2]
    BY <2>2 DEF Texts
  <2>5. regDevices' = saved[1] /\ regDevicesMac' = saved[2]
    BY <2>1, <2>2, <2>3, <2>4, LoadRestores
  <2> QED BY <2>2, <2>5 DEF lists
<1> QED BY <1>1, InitStore, NextKeeps, PTL DEF Spec, LaunchRestores
===============================================================================
