--------------------------- MODULE AdsAnswersProofs -------------------------
(***************************************************************************)
(* Proof that the client recovers from the PLC's answers what the PLC put     *)
(* into them, for any symbols, tables and notifications, and wherever an       *)
(* answer is cut.                                                          *)
(*                                                                          *)
(* The parsers are loops, so the lemmas are inductions over the turns of a     *)
(* loop: a set of numbers that has 0 and is closed under + 1 is Nat.         *)
(***************************************************************************)
EXTENDS AdsAnswers, WellFoundedInduction, TLAPS

\* What a buffer holds: numbers, the names of types, and sets of flags.
Cell == Int \union STRING \union SUBSET STRING
Buffers == Seq(Cell)

LEMMA SetInduction ==
  ASSUME NEW T \in SUBSET Nat, 0 \in T, \A n \in T : n + 1 \in T
  PROVE  T = Nat
  <1> SUFFICES ASSUME T # Nat PROVE FALSE
    OBVIOUS
  <1> DEFINE B == Nat \ T
  <1>1. B \subseteq Nat /\ B # {}
    OBVIOUS
  <1>2. \E x \in B : \A y \in B : ~(<<y, x>> \in OpToRel(<, Nat))
    <2> DEFINE R == OpToRel(<, Nat)
    <2>1. IsWellFoundedOn(R, Nat)
      BY NatLessThanWellFounded, Zenon
    <2> HIDE DEF R, B
    <2>2. \E x \in B : \A y \in B : ~(<<y, x>> \in R)
      BY <1>1, <2>1, WFMin
    <2> QED BY <2>2, Zenon DEF R
  <1>3. PICK x \in B : \A y \in B : ~(<<y, x>> \in OpToRel(<, Nat))
    BY <1>2, Zenon
  <1>4. \A y \in B : ~(y < x)
    BY <1>3 DEF OpToRel
  <1>5. x # 0 /\ x - 1 \in Nat /\ x - 1 < x
    OBVIOUS
  <1>6. x - 1 \in T
    BY <1>4, <1>5
  <1>7. (x - 1) + 1 \in T
    BY <1>6
  <1> QED BY <1>7

-----------------------------------------------------------------------------
(* Buffers.                                                                *)

LEMMA CellType == /\ Int \subseteq Cell /\ Nat \subseteq Cell /\ 0 \in Cell
                  /\ STRING \subseteq Cell /\ SUBSET STRING \subseteq Cell
  <1>1. Int \subseteq Cell /\ STRING \subseteq Cell /\ SUBSET STRING \subseteq Cell
    BY Zenon DEF Cell
  <1>2. Nat \subseteq Int /\ 0 \in Int
    OBVIOUS
  <1> QED BY <1>1, <1>2, Zenon

LEMMA CellsOfNumbers == ASSUME NEW s \in Seq(Nat) PROVE s \in Buffers
  <1> QED BY CellType DEF Buffers

LEMMA CellsOfTexts == ASSUME NEW s \in Texts PROVE s \in Buffers /\ s \in Seq(Nat)
  <1>1. s \in Seq(Nat)
    BY DEF Texts
  <1> QED BY <1>1, CellsOfNumbers

LEMMA BufferConcat ==
  ASSUME NEW a \in Buffers, NEW b \in Buffers
  PROVE  /\ a \o b \in Buffers
         /\ Len(a \o b) = Len(a) + Len(b)
         /\ \A k \in 1 .. Len(a) : (a \o b)[k] = a[k]
         /\ \A k \in 1 .. Len(b) : (a \o b)[Len(a) + k] = b[k]
  BY DEF Buffers

LEMMA BufferAssociative ==
  ASSUME NEW a \in Buffers, NEW b \in Buffers, NEW c \in Buffers
  PROVE  (a \o b) \o c = a \o (b \o c)
  BY DEF Buffers

LEMMA DropConcat ==
  ASSUME NEW a \in Buffers, NEW b \in Buffers
  PROVE  Drop(a \o b, Len(a)) = b /\ SubSeq(a \o b, 1, Len(a)) = a
  BY DEF Buffers, Drop

LEMMA LeType ==
  ASSUME NEW x \in Cell, NEW w \in Nat, w > 0
  PROVE  Le(x, w) \in Buffers /\ Len(Le(x, w)) = w /\ Le(x, w)[1] = x
  <1> DEFINE z == Zeroes(w - 1)
  <1>1. z \in Buffers /\ Len(z) = w - 1
    <2>1. \A k \in 1 .. w - 1 : 0 \in Cell
      BY CellType
    <2> QED BY <2>1 DEF Zeroes, Buffers
  <1>2. <<x>> \in Buffers /\ Len(<<x>>) = 1 /\ <<x>>[1] = x
    BY DEF Buffers
  <1> HIDE DEF z
  <1>3. <<x>> \o z \in Buffers /\ Len(<<x>> \o z) = 1 + (w - 1) /\ (<<x>> \o z)[1] = x
    BY <1>1, <1>2, BufferConcat
  <1> QED BY <1>3 DEF Le, z

\* A number in front of a buffer.
LEMMA LeFirst ==
  ASSUME NEW x \in Cell, NEW w \in Nat, w > 0, NEW b \in Buffers
  PROVE  /\ Le(x, w) \o b \in Buffers
         /\ Len(Le(x, w) \o b) = w + Len(b)
         /\ (Le(x, w) \o b)[1] = x
         /\ \A k \in 1 .. Len(b) : (Le(x, w) \o b)[w + k] = b[k]
         /\ Drop(Le(x, w) \o b, w) = b
  <1>1. Le(x, w) \in Buffers /\ Len(Le(x, w)) = w /\ Le(x, w)[1] = x
    BY LeType
  <1> DEFINE a == Le(x, w)
  <1> HIDE DEF a
  <1>2. a \in Buffers /\ Len(a) = w /\ a[1] = x
    BY <1>1 DEF a
  <1>3. /\ a \o b \in Buffers /\ Len(a \o b) = Len(a) + Len(b)
        /\ \A k \in 1 .. Len(a) : (a \o b)[k] = a[k]
        /\ \A k \in 1 .. Len(b) : (a \o b)[Len(a) + k] = b[k]
    BY <1>2, BufferConcat
  <1>5. (a \o b)[1] = x
    BY <1>2, <1>3
  <1>4. Drop(a \o b, w) = b
    BY <1>2, DropConcat
  <1>6. \A k \in 1 .. Len(b) : (a \o b)[w + k] = b[k]
    BY <1>2, <1>3
  <1> QED BY <1>2, <1>3, <1>4, <1>5, <1>6 DEF a

LEMMA LeDropped ==
  ASSUME NEW x \in Cell, NEW w \in Nat, w > 0, NEW b \in Buffers
  PROVE  Drop(Le(x, w) \o b, w) = b
  BY LeFirst

LEMMA PaddedPrefix ==
  ASSUME NEW a \in Buffers, NEW b \in Buffers
  PROVE  Padded(a \o b, Len(a)) = a
  <1>1. \A k \in 1 .. Len(a) : k <= Len(a \o b) /\ (a \o b)[k] = a[k]
    BY BufferConcat DEF Buffers
  <1>2. a = [k \in 1 .. Len(a) |-> a[k]]
    BY DEF Buffers
  <1> QED BY <1>1, <1>2 DEF Padded

-----------------------------------------------------------------------------
(* The concatenation of parts, from the front.                              *)

LEMMA FlattenEmpty == FlattenSeq(<<>>) = <<>>
  BY DEF FlattenSeq

\* The recursive function of FlattenSeq is there, and is what it is defined to be.
LEMMA FlattenTurns ==
  ASSUME NEW parts \in Seq(Buffers), Len(parts) > 0
  PROVE  \E f \in [1 .. Len(parts) -> Buffers] :
           /\ f[1] = parts[1]
           /\ \A i \in 2 .. Len(parts) : f[i] = f[i - 1] \o parts[i]
           /\ FlattenSeq(parts) = f[Len(parts)]
  <1> DEFINE n == Len(parts)
             Turns(m) == \E g \in [1 .. m -> Buffers] :
                           /\ g[1] = parts[1]
                           /\ \A i \in 2 .. m : g[i] = g[i - 1] \o parts[i]
             T == {m \in Nat : m \in 1 .. n => Turns(m)}
  <1>0. n \in Nat \ {0} /\ \A i \in 1 .. n : parts[i] \in Buffers
    OBVIOUS
  <1>1. Turns(1)
    <2> DEFINE h == [i \in 1 .. 1 |-> parts[1]]
    <2>1. h \in [1 .. 1 -> Buffers] /\ h[1] = parts[1]
      BY <1>0
    <2> HIDE DEF h
    <2> QED BY <2>1
  <1>2. ASSUME NEW m \in Nat \ {0}, m + 1 <= n, Turns(m) PROVE Turns(m + 1)
    <2>1. PICK g \in [1 .. m -> Buffers] :
            g[1] = parts[1] /\ \A i \in 2 .. m : g[i] = g[i - 1] \o parts[i]
      BY <1>2
    <2> DEFINE x == g[m] \o parts[m + 1]
               h == [i \in 1 .. m + 1 |-> IF i <= m THEN g[i] ELSE x]
    <2>2. x \in Buffers
      BY <1>0, <1>2, <2>1, BufferConcat
    <2> HIDE DEF x
    <2>3. /\ h \in [1 .. m + 1 -> Buffers]
          /\ h[m + 1] = x
          /\ \A i \in 1 .. m : h[i] = g[i]
      BY <2>1, <2>2
    <2> HIDE DEF h
    <2>4. \A i \in 2 .. m + 1 : h[i] = h[i - 1] \o parts[i]
      <3> TAKE i \in 2 .. m + 1
      <3>0. i \in 2 .. m \/ i = m + 1
        OBVIOUS
      <3>1. CASE i \in 2 .. m
        <4>1. g[i] = g[i - 1] \o parts[i]
          BY <2>1, <3>1
        <4>2. i - 1 \in 1 .. m /\ i \in 1 .. m
          BY <3>1
        <4>3. h[i] = g[i] /\ h[i - 1] = g[i - 1]
          BY <2>3, <4>2
        <4> QED BY <4>1, <4>3
      <3>2. CASE i = m + 1
        <4>1. h[m] = g[m] /\ i - 1 = m
          BY <2>3, <3>2
        <4>2. h[i - 1] = g[m] /\ h[i] = x /\ parts[i] = parts[m + 1]
          BY <2>3, <3>2, <4>1
        <4>3. x = g[m] \o parts[m + 1]
          BY DEF x
        <4> QED BY <4>2, <4>3
      <3> QED BY <3>0, <3>1, <3>2, Zenon
    <2>5. h[1] = parts[1]
      BY <2>1, <2>3
    <2> QED BY <2>3, <2>4, <2>5
  <1> HIDE DEF Turns
  <1>3. T = Nat
    <2>1. T \subseteq Nat /\ 0 \in T
      OBVIOUS
    <2>2. ASSUME NEW m \in T PROVE m + 1 \in T
      <3>1. m = 0 \/ m \in Nat \ {0}
        OBVIOUS
      <3>2. m + 1 <= n => Turns(m + 1)
        BY <1>1, <1>2, <3>1
      <3> QED BY <3>2
    <2> HIDE DEF T
    <2> QED BY <2>1, <2>2, SetInduction
  <1>4. PICK g \in [1 .. n -> Buffers] :
          g[1] = parts[1] /\ \A i \in 2 .. n : g[i] = g[i - 1] \o parts[i]
    <2>1. n \in T
      BY <1>0, <1>3
    <2>2. Turns(n)
      BY <1>0, <2>1
    <2> QED BY <2>2 DEF Turns
  <1> DEFINE E(h) == [i \in 1 .. n |-> IF i = 1 THEN parts[i] ELSE h[i - 1] \o parts[i]]
             f == CHOOSE h : h = E(h)
  <1>5. g = E(g)
    <2>1. \A i \in 1 .. n : g[i] = IF i = 1 THEN parts[i] ELSE g[i - 1] \o parts[i]
      <3> TAKE i \in 1 .. n
      <3>1. i = 1 \/ i \in 2 .. n
        BY <1>0
      <3> QED BY <1>4, <3>1
    <2>2. g = [i \in 1 .. n |-> g[i]]
      BY <1>4
    <2> QED BY <2>1, <2>2
  <1>6. f = E(f)
    <2> HIDE DEF E
    <2> QED BY <1>5
  <1>7. FlattenSeq(parts) = f[n]
    BY <1>0 DEF FlattenSeq
  <1> HIDE DEF f
  <1>8. \A i \in 1 .. n : f[i] = IF i = 1 THEN parts[i] ELSE f[i - 1] \o parts[i]
    BY <1>6
  <1>9. f \in [1 .. n -> Buffers]
    <2> DEFINE U == {m \in Nat : m \in 1 .. n => f[m] \in Buffers}
    <2>1. 0 \in U
      OBVIOUS
    <2>2. ASSUME NEW m \in U PROVE m + 1 \in U
      <3> SUFFICES ASSUME m + 1 <= n PROVE f[m + 1] \in Buffers
        OBVIOUS
      <3>1. CASE m = 0
        BY <1>0, <1>8, <3>1
      <3>2. CASE m # 0
        <4>1. f[m + 1] = f[m] \o parts[m + 1]
          <5>1. m + 1 \in 1 .. n /\ m + 1 # 1 /\ (m + 1) - 1 = m
            BY <3>2
          <5>2. f[m + 1] = IF m + 1 = 1 THEN parts[m + 1] ELSE f[(m + 1) - 1] \o parts[m + 1]
            BY <1>8, <5>1
          <5> QED BY <5>1, <5>2
        <4>2. f[m] \in Buffers /\ parts[m + 1] \in Buffers
          BY <1>0, <3>2
        <4> QED BY <4>1, <4>2, BufferConcat
      <3> QED BY <3>1, <3>2
    <2>3. U = Nat
      <3>1. U \subseteq Nat
        OBVIOUS
      <3> HIDE DEF U
      <3> QED BY <2>1, <2>2, <3>1, SetInduction
    <2>4. \A i \in 1 .. n : f[i] \in Buffers
      BY <2>3
    <2>5. f = [i \in 1 .. n |-> f[i]]
      BY <1>6
    <2> QED BY <2>4, <2>5
  <1> QED
    <2>1. f[1] = parts[1]
      BY <1>0, <1>8
    <2>2. \A i \in 2 .. n : f[i] = f[i - 1] \o parts[i]
      <3> HIDE DEF n
      <3> TAKE i \in 2 .. n
      <3>1. i \in 1 .. n /\ i # 1
        BY <1>0
      <3>2. f[i] = IF i = 1 THEN parts[i] ELSE f[i - 1] \o parts[i]
        BY <1>8, <3>1
      <3> QED BY <3>1, <3>2
    <2> QED BY <1>7, <1>9, <2>1, <2>2

LEMMA FlattenType ==
  ASSUME NEW parts \in Seq(Buffers)
  PROVE  FlattenSeq(parts) \in Buffers
  <1>1. CASE Len(parts) = 0
    <2>1. parts = <<>>
      BY <1>1
    <2>2. <<>> \in Buffers
      BY DEF Buffers
    <2> QED BY <2>1, <2>2, FlattenEmpty
  <1>2. CASE Len(parts) > 0
    <2>1. PICK f \in [1 .. Len(parts) -> Buffers] : FlattenSeq(parts) = f[Len(parts)]
      BY <1>2, FlattenTurns
    <2> QED BY <1>2, <2>1
  <1> QED BY <1>1, <1>2

\* FlattenSeq takes its sequence from the back; a parser, from the front.
LEMMA FlattenFront ==
  ASSUME NEW parts \in Seq(Buffers), Len(parts) > 0
  PROVE  FlattenSeq(parts) = parts[1] \o FlattenSeq(Tail(parts))
  <1> DEFINE n == Len(parts)
             tail == Tail(parts)
  <1>0. /\ n \in Nat \ {0} /\ tail \in Seq(Buffers) /\ Len(tail) = n - 1
        /\ \A i \in 1 .. n : parts[i] \in Buffers
        /\ \A i \in 1 .. n - 1 : tail[i] = parts[i + 1]
    OBVIOUS
  <1>1. PICK f \in [1 .. n -> Buffers] :
          /\ f[1] = parts[1]
          /\ \A i \in 2 .. n : f[i] = f[i - 1] \o parts[i]
          /\ FlattenSeq(parts) = f[n]
    BY FlattenTurns
  <1> HIDE DEF n, tail
  <1>2. CASE n = 1
    <2>1. tail = <<>>
      BY <1>0, <1>2
    <2>2. parts[1] \in Buffers
      BY <1>0
    <2>3. parts[1] \o <<>> = parts[1]
      BY <2>2 DEF Buffers
    <2> QED BY <1>1, <1>2, <2>1, <2>3, FlattenEmpty DEF tail
  <1>3. CASE n # 1
    <2>1. PICK g \in [1 .. n - 1 -> Buffers] :
            /\ g[1] = tail[1]
            /\ \A i \in 2 .. n - 1 : g[i] = g[i - 1] \o tail[i]
            /\ FlattenSeq(tail) = g[n - 1]
      <3>1. Len(tail) > 0
        BY <1>0, <1>3
      <3>2. \E g \in [1 .. Len(tail) -> Buffers] :
              /\ g[1] = tail[1]
              /\ \A i \in 2 .. Len(tail) : g[i] = g[i - 1] \o tail[i]
              /\ FlattenSeq(tail) = g[Len(tail)]
        BY <1>0, <3>1, FlattenTurns
      <3> QED BY <1>0, <3>2
    <2> DEFINE Shifted(m) == f[m + 1] = parts[1] \o g[m]
               T == {m \in Nat : m \in 1 .. n - 1 => Shifted(m)}
    <2>a. Shifted(1)
      <3>1. 2 \in 2 .. n /\ 1 \in 1 .. n - 1 /\ 2 - 1 = 1 /\ 1 + 1 = 2
        BY <1>0, <1>3
      <3>2. f[2] = f[1] \o parts[2] /\ tail[1] = parts[2]
        BY <1>0, <1>1, <3>1
      <3> QED BY <1>1, <2>1, <3>1, <3>2
    <2>b. ASSUME NEW m \in Nat \ {0}, m + 1 <= n - 1, Shifted(m) PROVE Shifted(m + 1)
      <3> DEFINE k == m + 1
      <3>1. /\ k \in 2 .. n - 1 /\ k - 1 = m /\ k + 1 \in 2 .. n /\ k + 1 \in 1 .. n
            /\ (k + 1) - 1 = k /\ m \in 1 .. n - 1 /\ 1 \in 1 .. n /\ k \in 1 .. n - 1
        BY <1>0, <2>b
      <3> HIDE DEF k
      <3>2. f[k + 1] = f[k] \o parts[k + 1]
        BY <1>1, <3>1
      <3>3. tail[k] = parts[k + 1]
        BY <1>0, <3>1
      <3>4. g[k] = g[m] \o tail[k]
        BY <2>1, <3>1
      <3>5. f[k] = parts[1] \o g[m]
        BY <2>b DEF k
      <3>6. parts[1] \in Buffers /\ g[m] \in Buffers /\ parts[k + 1] \in Buffers
        BY <1>0, <2>1, <3>1
      <3>7. (parts[1] \o g[m]) \o parts[k + 1] = parts[1] \o (g[m] \o parts[k + 1])
        BY <3>6, BufferAssociative
      <3>8. f[k + 1] = parts[1] \o g[k]
        BY <3>2, <3>3, <3>4, <3>5, <3>7
      <3> QED BY <3>8 DEF k
    <2> HIDE DEF Shifted
    <2>2. T = Nat
      <3>1. T \subseteq Nat /\ 0 \in T
        OBVIOUS
      <3>2. ASSUME NEW m \in T PROVE m + 1 \in T
        <4>1. m = 0 \/ m \in Nat \ {0}
          OBVIOUS
        <4>2. m + 1 <= n - 1 => Shifted(m + 1)
          BY <2>a, <2>b, <4>1, <1>0
        <4> QED BY <4>2, <1>0
      <3> HIDE DEF T
      <3> QED BY <3>1, <3>2, SetInduction
    <2>3. Shifted(n - 1)
      <3>1. n - 1 \in Nat /\ n - 1 \in 1 .. n - 1
        BY <1>0, <1>3
      <3>2. n - 1 \in T
        BY <2>2, <3>1
      <3> QED BY <3>1, <3>2
    <2>4. f[n] = parts[1] \o g[n - 1]
      <3>1. (n - 1) + 1 = n
        BY <1>0
      <3>2. f[(n - 1) + 1] = parts[1] \o g[n - 1]
        BY <2>3 DEF Shifted
      <3> QED BY <3>1, <3>2
    <2> QED BY <1>1, <2>1, <2>4 DEF tail
  <1> QED BY <1>2, <1>3

\* What is left of the parts after the first k of them.
Rest(parts, k) == FlattenSeq(SubSeq(parts, k + 1, Len(parts)))

LEMMA RestSteps ==
  ASSUME NEW parts \in Seq(Buffers)
  PROVE  /\ Rest(parts, 0) = FlattenSeq(parts)
         /\ Rest(parts, Len(parts)) = <<>>
         /\ \A k \in 0 .. Len(parts) : Rest(parts, k) \in Buffers
         /\ \A k \in 0 .. Len(parts) - 1 : Rest(parts, k) = parts[k + 1] \o Rest(parts, k + 1)
  <1>1. Rest(parts, 0) = FlattenSeq(parts)
    <2>1. SubSeq(parts, 1, Len(parts)) = parts /\ 0 + 1 = 1
      OBVIOUS
    <2>2. SubSeq(parts, 0 + 1, Len(parts)) = parts
      BY <2>1
    <2>3. Rest(parts, 0) = FlattenSeq(SubSeq(parts, 0 + 1, Len(parts)))
      BY DEF Rest
    <2> QED BY <2>2, <2>3
  <1>2. Rest(parts, Len(parts)) = <<>>
    <2>1. SubSeq(parts, Len(parts) + 1, Len(parts)) = <<>>
      OBVIOUS
    <2> QED BY <2>1, FlattenEmpty DEF Rest
  <1>3. ASSUME NEW k \in 0 .. Len(parts) PROVE Rest(parts, k) \in Buffers
    <2>1. SubSeq(parts, k + 1, Len(parts)) \in Seq(Buffers)
      OBVIOUS
    <2> QED BY <2>1, FlattenType DEF Rest
  <1>4. ASSUME NEW k \in 0 .. Len(parts) - 1
        PROVE  Rest(parts, k) = parts[k + 1] \o Rest(parts, k + 1)
    <2> DEFINE s == SubSeq(parts, k + 1, Len(parts))
    <2>1. s \in Seq(Buffers) /\ Len(s) > 0 /\ s[1] = parts[k + 1]
      OBVIOUS
    <2>2. Tail(s) = SubSeq(parts, (k + 1) + 1, Len(parts))
      OBVIOUS
    <2> HIDE DEF s
    <2>3. FlattenSeq(s) = s[1] \o FlattenSeq(Tail(s))
      BY <2>1, FlattenFront
    <2> QED BY <2>1, <2>2, <2>3 DEF Rest, s
  <1> QED BY <1>1, <1>2, <1>3, <1>4

LEMMA RestFront ==
  ASSUME NEW parts \in Seq(Buffers), NEW y \in Buffers, NEW k \in 0 .. Len(parts) - 1
  PROVE  /\ parts[k + 1] \in Buffers
         /\ Rest(parts, k + 1) \o y \in Buffers
         /\ Rest(parts, k) \o y = parts[k + 1] \o (Rest(parts, k + 1) \o y)
         /\ parts[k + 1] # <<>> => Rest(parts, k) \o y # <<>>
  <1> DEFINE a == parts[k + 1]
             b == Rest(parts, k + 1)
  <1>1. a \in Buffers /\ k + 1 \in 0 .. Len(parts)
    OBVIOUS
  <1>2. b \in Buffers /\ Rest(parts, k) = a \o b
    BY <1>1, RestSteps
  <1> HIDE DEF a, b
  <1>3. b \o y \in Buffers
    BY <1>2, BufferConcat
  <1>4. (a \o b) \o y = a \o (b \o y)
    BY <1>1, <1>2, BufferAssociative
  <1>5. a # <<>> => a \o (b \o y) # <<>>
    BY <1>1, <1>3 DEF Buffers
  <1> QED BY <1>1, <1>2, <1>3, <1>4, <1>5 DEF a, b

-----------------------------------------------------------------------------
(* Notifications.                                                          *)

\* What a reader is, with a buffer x and the fields y, as long as no read failed.
At(x, y) == [rest |-> x, ok |-> TRUE, t |-> y]
\* And what it is after one.
Lost(x, y) == [rest |-> x, ok |-> FALSE, t |-> y]

LEMMA FailedIsLost ==
  ASSUME NEW x, NEW y
  PROVE  Failed(At(x, y)) = Lost(x, y)
  <1>1. ASSUME NEW b, NEW c PROVE [[rest |-> x, ok |-> b, t |-> y] EXCEPT !.ok = c]
                                    = [rest |-> x, ok |-> c, t |-> y]
    OBVIOUS
  <1> QED BY <1>1, Zenon DEF At, Lost, Failed

LEMMA ReaderSteps ==
  ASSUME NEW x, NEW y, NEW n
  PROVE  /\ At(x, y).ok /\ At(x, y).rest = x /\ At(x, y).t = y
         /\ Reader(x, y) = At(x, y)
         /\ ~Failed(At(x, y)).ok
         /\ Len(x) >= n => Has(At(x, y), n) /\ Skip(At(x, y), n) = At(Drop(x, n), y)
         /\ x # <<>> => SkipSome(At(x, y), n) = At(Drop(x, n), y)
  BY DEF At, Reader, Failed, Has, Skip, SkipSome

LEMMA SomeSkipped ==
  ASSUME NEW x, NEW y, NEW n, x # <<>>
  PROVE  SkipSome(At(x, y), n) = At(Drop(x, n), y)
  BY ReaderSteps

LEMMA NothingSkipped ==
  ASSUME NEW x, NEW y, NEW n, x = <<>>
  PROVE  SkipSome(At(x, y), n) = Lost(x, y)
  <1>1. SkipSome(At(x, y), n) = Failed(At(x, y))
    BY DEF SkipSome, At
  <1> QED BY <1>1, FailedIsLost

LEMMA FieldsReplaced ==
  ASSUME NEW x, NEW y, NEW z
  PROVE  [At(x, y) EXCEPT !.t = z] = At(x, z)
  <1>1. ASSUME NEW b PROVE [[rest |-> x, ok |-> b, t |-> y] EXCEPT !.t = z]
                             = [rest |-> x, ok |-> b, t |-> z]
    OBVIOUS
  <1> QED BY <1>1, Zenon DEF At

LEMMA LostFieldsReplaced ==
  ASSUME NEW x, NEW y, NEW z
  PROVE  [Lost(x, y) EXCEPT !.t = z] = Lost(x, z)
  <1>1. ASSUME NEW b PROVE [[rest |-> x, ok |-> b, t |-> y] EXCEPT !.t = z]
                             = [rest |-> x, ok |-> b, t |-> z]
    OBVIOUS
  <1> QED BY <1>1, Zenon DEF Lost

\* Two numbers h and n of v and w bytes, in front of z.
Two(h, v, n, w, z) == Le(h, v) \o (Le(n, w) \o z)

LEMMA TwoNumbers ==
  ASSUME NEW h \in Cell, NEW n \in Cell, NEW v \in Nat, NEW w \in Nat, v > 0, w > 0,
         NEW z \in Buffers
  PROVE  /\ Two(h, v, n, w, z) \in Buffers
         /\ Len(Two(h, v, n, w, z)) = v + w + Len(z)
         /\ Two(h, v, n, w, z)[1] = h
         /\ Two(h, v, n, w, z)[v + 1] = n
         /\ Drop(Two(h, v, n, w, z), v + w) = z
  <1> DEFINE a == Le(h, v)
             b == Le(n, w)
             x == b \o z
  <1>1. a \in Buffers /\ b \in Buffers /\ Len(a) = v /\ Len(b) = w
    BY LeType
  <1>3. x \in Buffers /\ Len(x) = w + Len(z) /\ x[1] = n
    BY LeFirst
  <1> HIDE DEF b
  <1>4. Len(x) \in Nat /\ Len(z) \in Nat
    BY <1>3 DEF Buffers
  <1> HIDE DEF x
  <1>5. /\ a \o x \in Buffers /\ Len(a \o x) = v + Len(x) /\ (a \o x)[1] = h
        /\ \A k \in 1 .. Len(x) : (a \o x)[v + k] = x[k]
    BY <1>3, LeFirst, ZenonT(30)
  <1>6. (a \o x)[v + 1] = x[1]
    <2>1. 1 \in 1 .. Len(x)
      BY <1>3, <1>4
    <2> QED BY <1>5, <2>1
  <1> HIDE DEF a
  <1>7. a \o b \in Buffers /\ Len(a \o b) = Len(a) + Len(b)
    BY <1>1, BufferConcat
  <1>10. (a \o b) \o z = a \o x
    BY <1>1, BufferAssociative DEF x
  <1>11. Drop((a \o b) \o z, Len(a \o b)) = z
    BY <1>7, DropConcat
  <1>12. Len(a \o b) = v + w
    BY <1>1, <1>7
  <1>13. Len(a \o x) = v + w + Len(z)
    BY <1>3, <1>4, <1>5
  <1>14. Two(h, v, n, w, z) = a \o x
    BY DEF Two, a, b, x
  <1>15. Drop(a \o x, v + w) = z
    BY <1>10, <1>11, <1>12
  <1>16. (a \o x)[v + 1] = n
    BY <1>3, <1>6
  <1> QED BY <1>5, <1>13, <1>14, <1>15, <1>16

LEMMA TwoNumbersLeft ==
  ASSUME NEW h \in Cell, NEW n \in Cell, NEW v \in Nat, NEW w \in Nat, v > 0, w > 0,
         NEW p \in Buffers
  PROVE  Le(h, v) \o Le(n, w) \o p = Two(h, v, n, w, p)
  <1>1. Le(h, v) \in Buffers /\ Le(n, w) \in Buffers
    BY LeType
  <1> QED BY <1>1, BufferAssociative, Zenon DEF Two

\* Concatenation, under a name of its own where only its laws matter.
Cat(a, b) == a \o b

LEMMA CatLaws ==
  ASSUME NEW a \in Buffers, NEW b \in Buffers
  PROVE  /\ Cat(a, b) \in Buffers
         /\ Len(Cat(a, b)) = Len(a) + Len(b)
         /\ Drop(Cat(a, b), Len(a)) = b
  BY BufferConcat, DropConcat DEF Cat

LEMMA CatAssociative ==
  ASSUME NEW a \in Buffers, NEW b \in Buffers, NEW c \in Buffers
  PROVE  Cat(Cat(a, b), c) = Cat(a, Cat(b, c))
  BY BufferAssociative DEF Cat

LEMMA CatOnto ==
  ASSUME NEW a \in Buffers, NEW b \in Buffers, NEW p \in Buffers, NEW y \in Buffers
  PROVE  Cat(Cat(a, Cat(b, p)), y) = Cat(a, Cat(b, Cat(p, y)))
  BY CatLaws, CatAssociative

LEMMA SampleEncoded ==
  ASSUME NEW s \in Samples, NEW y \in Buffers
  PROVE  /\ EncodeSample(s) \in Buffers /\ Len(EncodeSample(s)) >= 8
         /\ s.payload \in Buffers
         /\ EncodeSample(s) \o y \in Buffers
         /\ Len(EncodeSample(s) \o y) >= 8
         /\ (EncodeSample(s) \o y)[1] = s.handle
         /\ (EncodeSample(s) \o y)[5] = Len(s.payload)
         /\ Drop(EncodeSample(s) \o y, 8) = s.payload \o y
  <1> DEFINE h == s.handle
             p == s.payload
             n == Len(p)
             v == 4
             w == 4
             z == p \o y
             e == Two(h, v, n, w, p)
             f == Two(h, v, n, w, z)
  <1>1. h \in Cell /\ p \in Buffers /\ n \in Cell
    BY CellType, CellsOfNumbers DEF Samples, Buffers
  <1>2. EncodeSample(s) = Le(h, v) \o Le(n, w) \o p
    BY DEF EncodeSample
  <1>3. v \in Nat /\ v > 0 /\ w \in Nat /\ w > 0
    OBVIOUS
  <1>8. v + w = 8 /\ v + 1 = 5
    OBVIOUS
  <1> HIDE DEF h, p, n, v, w
  <1>4. z \in Buffers
    BY <1>1, BufferConcat
  <1>9. EncodeSample(s) = e /\ e \o y = f
    <2>1. Le(h, v) \o Le(n, w) \o p = e
      BY <1>1, <1>3, TwoNumbersLeft
    <2>2. e \o y = f
      <3> DEFINE a == Le(h, v)
                 b == Le(n, w)
      <3>1. a \in Buffers /\ b \in Buffers
        BY <1>1, <1>3, LeType
      <3> HIDE DEF a, b
      <3>2. Cat(Cat(a, Cat(b, p)), y) = Cat(a, Cat(b, Cat(p, y)))
        BY <1>1, <3>1, CatOnto
      <3> QED BY <3>2 DEF Two, Cat, a, b
    <2> QED BY <1>2, <2>1, <2>2
  <1> HIDE DEF z
  <1>5. /\ e \in Buffers /\ Len(e) = v + w + Len(p)
        /\ f \in Buffers /\ Len(f) = v + w + Len(z)
        /\ f[1] = h /\ f[v + 1] = n /\ Drop(f, v + w) = z
    <2>1. e \in Buffers
      BY <1>1, <1>3, <1>4, TwoNumbers
    <2>2. Len(e) = v + w + Len(p)
      BY <1>1, <1>3, <1>4, TwoNumbers
    <2>3. f[1] = h
      BY <1>1, <1>3, <1>4, TwoNumbers
    <2>4. f[v + 1] = n
      BY <1>1, <1>3, <1>4, TwoNumbers
    <2>5. Drop(f, v + w) = z
      BY <1>1, <1>3, <1>4, TwoNumbers
    <2>6. f \in Buffers
      BY <1>1, <1>3, <1>4, TwoNumbers
    <2>7. Len(f) = v + w + Len(z)
      BY <1>1, <1>3, <1>4, TwoNumbers
    <2> QED BY <2>1, <2>2, <2>3, <2>4, <2>5, <2>6, <2>7
  <1> HIDE DEF e, f
  <1>6. Len(e) >= 8 /\ Len(f) >= 8
    BY <1>1, <1>8, <1>4, <1>5 DEF Buffers
  <1>7. f[5] = n /\ Drop(f, 8) = z
    BY <1>5, <1>8
  <1> QED BY <1>1, <1>4, <1>9, <1>5, <1>6, <1>7 DEF h, p, n, z

\* One turn of the loop over the samples.
LEMMA SampleTurn ==
  ASSUME NEW s \in Samples, NEW y \in Buffers, NEW t
  PROVE  /\ s.payload # <<>> \/ y # <<>> =>
              parseSample(At(EncodeSample(s) \o y, t)) = At(y, Append(t, s))
         /\ s.payload = <<>> /\ y = <<>> =>
              parseSample(At(EncodeSample(s) \o y, t)) = Lost(<<>>, Append(t, s))
  <1> DEFINE x == EncodeSample(s) \o y
             p == s.payload
             q == At(x, t)
  <1>1. /\ p \in Buffers /\ x \in Buffers /\ Len(x) >= 8 /\ x[1] = s.handle /\ x[5] = Len(p)
        /\ Drop(x, 8) = p \o y
    BY SampleEncoded
  <1>2. /\ Padded(p \o y, Len(p)) = p /\ Drop(p \o y, Len(p)) = y
        /\ p \o y = <<>> <=> p = <<>> /\ y = <<>>
    <2>1. p \o y = <<>> <=> p = <<>> /\ y = <<>>
      BY <1>1 DEF Buffers
    <2> QED BY <1>1, <2>1, PaddedPrefix, DropConcat
  <1>3. [handle |-> s.handle, payload |-> p] = s
    BY DEF Samples
  <1> HIDE DEF p, x
  <1>4. Has(q, 8) /\ Skip(q, 8) = At(p \o y, t) /\ q.rest = x
    <2>1. Has(q, 8) /\ Skip(q, 8) = At(Drop(x, 8), t) /\ q.rest = x
      BY <1>1, ReaderSteps
    <2> QED BY <1>1, <2>1
  <1> HIDE DEF q
  <1>5. parseSample(q) = SkipSome([At(p \o y, t) EXCEPT !.t = Append(@, s)], Len(p))
    BY <1>1, <1>2, <1>3, <1>4 DEF parseSample
  <1>6. [At(p \o y, t) EXCEPT !.t = Append(@, s)] = At(p \o y, Append(t, s))
    <2> DEFINE v == p \o y
               u == Append(t, s)
    <2> HIDE DEF v, u
    <2>1. [At(v, t) EXCEPT !.t = u] = At(v, u)
      BY FieldsReplaced
    <2>2. At(v, t).t = t
      BY DEF At
    <2> QED BY <2>1, <2>2 DEF u, v
  <1>7. parseSample(q) = SkipSome(At(p \o y, Append(t, s)), Len(p))
    BY <1>5, <1>6
  <1>8. p \o y # <<>> => parseSample(q) = At(y, Append(t, s))
    <2>1. p \o y # <<>> => parseSample(q) = At(Drop(p \o y, Len(p)), Append(t, s))
      BY <1>7, SomeSkipped
    <2> QED BY <1>2, <2>1
  <1>9. p \o y = <<>> => parseSample(q) = Lost(<<>>, Append(t, s))
    BY <1>7, NothingSkipped
  <1> QED BY <1>2, <1>8, <1>9 DEF p, q, x

TimesSample(r, n) == Times(r, n, parseSample)

\* The turns of the loop over the samples: Times is what its definition says.
LEMMA SampleTurns ==
  ASSUME NEW r, NEW n \in Nat
  PROVE  \E f : /\ f[0] = r
                /\ \A k \in 1 .. n :
                     f[k] = IF f[k - 1].ok THEN parseSample(f[k - 1]) ELSE f[k - 1]
                /\ TimesSample(r, n) = f[n]
  <1> DEFINE Next1(q) == IF q.ok THEN parseSample(q) ELSE q
             E(h) == [k \in 0 .. n |-> IF k = 0 THEN r ELSE Next1(h[k - 1])]
             Turns(m) == \E g : g[0] = r /\ \A k \in 1 .. m : g[k] = Next1(g[k - 1])
             T == {m \in Nat : Turns(m)}
  <1>1. Turns(0)
    <2> DEFINE g == [k \in 0 .. 0 |-> r]
    <2>1. g[0] = r
      OBVIOUS
    <2>2. \A k \in 1 .. 0 : g[k] = Next1(g[k - 1])
      OBVIOUS
    <2> HIDE DEF g, Next1
    <2> QED BY <2>1, <2>2
  <1> HIDE DEF Next1
  <1>2. ASSUME NEW m \in Nat, Turns(m) PROVE Turns(m + 1)
    <2>1. PICK g : g[0] = r /\ \A k \in 1 .. m : g[k] = Next1(g[k - 1])
      BY <1>2
    <2> DEFINE x == Next1(g[m])
               h == [k \in 0 .. m + 1 |-> IF k <= m THEN g[k] ELSE x]
    <2> HIDE DEF x
    <2>2. h[m + 1] = x /\ \A k \in 0 .. m : h[k] = g[k]
      OBVIOUS
    <2> HIDE DEF h
    <2>3. \A k \in 1 .. m + 1 : h[k] = Next1(h[k - 1])
      <3> TAKE k \in 1 .. m + 1
      <3>0. k \in 1 .. m \/ k = m + 1
        OBVIOUS
      <3>1. CASE k \in 1 .. m
        <4>1. g[k] = Next1(g[k - 1])
          BY <2>1, <3>1
        <4>2. k - 1 \in 0 .. m /\ k \in 0 .. m
          BY <3>1
        <4>3. h[k] = g[k] /\ h[k - 1] = g[k - 1]
          BY <2>2, <4>2
        <4> QED BY <4>1, <4>3
      <3>2. CASE k = m + 1
        <4>1. h[m] = g[m] /\ k - 1 = m
          BY <2>2, <3>2
        <4> QED BY <2>2, <3>2, <4>1 DEF x
      <3> QED BY <3>0, <3>1, <3>2
    <2>4. h[0] = r
      BY <2>1, <2>2
    <2> QED BY <2>3, <2>4
  <1> HIDE DEF Turns
  <1>3. T = Nat
    <2>1. T \subseteq Nat /\ 0 \in T
      BY <1>1
    <2>2. \A m \in T : m + 1 \in T
      BY <1>2
    <2> HIDE DEF T
    <2> QED BY <2>1, <2>2, SetInduction
  <1>4. Turns(n)
    <2>1. n \in T
      BY <1>3
    <2> QED BY <2>1
  <1>5. PICK g : g[0] = r /\ \A k \in 1 .. n : g[k] = Next1(g[k - 1])
    BY <1>4 DEF Turns
  <1> DEFINE h == [k \in 0 .. n |-> g[k]]
             f == CHOOSE e : e = E(e)
  <1>6. h = E(h)
    <2>1. ASSUME NEW k \in 0 .. n PROVE h[k] = IF k = 0 THEN r ELSE Next1(h[k - 1])
      <3>1. CASE k = 0
        BY <1>5, <3>1
      <3>2. CASE k # 0
        <4>1. k \in 1 .. n /\ k - 1 \in 0 .. n
          BY <3>2
        <4>2. h[k] = g[k] /\ h[k - 1] = g[k - 1]
          BY <4>1
        <4>3. g[k] = Next1(g[k - 1])
          BY <1>5, <4>1
        <4> HIDE DEF h
        <4> QED BY <3>2, <4>2, <4>3
      <3> QED BY <3>1, <3>2
    <2>2. h = [k \in 0 .. n |-> h[k]]
      OBVIOUS
    <2> HIDE DEF h
    <2> QED BY <2>1, <2>2, Zenon
  <1>7. f = E(f)
    <2> HIDE DEF E, h
    <2> QED BY <1>6
  <1>8. TimesSample(r, n) = f[n]
    BY DEF TimesSample, Times, Next1
  <1> HIDE DEF f
  <1>9. \A k \in 0 .. n : f[k] = IF k = 0 THEN r ELSE Next1(f[k - 1])
    BY <1>7
  <1>10. f[0] = r
    BY <1>9
  <1>11. \A k \in 1 .. n : f[k] = Next1(f[k - 1])
    <2> TAKE k \in 1 .. n
    <2>1. k \in 0 .. n /\ k # 0
      OBVIOUS
    <2> QED BY <1>9, <2>1
  <1> QED BY <1>8, <1>10, <1>11, Zenon DEF Next1

SampleParts(ss) == [k \in DOMAIN ss |-> EncodeSample(ss[k])]

LEMMA SamplePartsType ==
  ASSUME NEW ss \in Seq(Samples)
  PROVE  /\ SampleParts(ss) \in Seq(Buffers)
         /\ Len(SampleParts(ss)) = Len(ss)
         /\ \A k \in 1 .. Len(ss) : SampleParts(ss)[k] = EncodeSample(ss[k])
                                      /\ SampleParts(ss)[k] # <<>>
         /\ Concat(EncodeSample, ss) = FlattenSeq(SampleParts(ss))
         /\ Concat(EncodeSample, ss) \in Buffers
  <1>1. \A s \in Samples : EncodeSample(s) \in Buffers /\ EncodeSample(s) # <<>>
    <2> TAKE s \in Samples
    <2>1. <<>> \in Buffers
      BY DEF Buffers
    <2>2. EncodeSample(s) \in Buffers /\ Len(EncodeSample(s)) >= 8
      BY <2>1, SampleEncoded
    <2> QED BY <2>2 DEF Buffers
  <1>2. DOMAIN ss = 1 .. Len(ss) /\ \A k \in 1 .. Len(ss) : ss[k] \in Samples
    OBVIOUS
  <1> DEFINE parts == [k \in 1 .. Len(ss) |-> EncodeSample(ss[k])]
  <1>3. \A k \in 1 .. Len(ss) : EncodeSample(ss[k]) \in Buffers /\ EncodeSample(ss[k]) # <<>>
    BY <1>1, <1>2
  <1>4. parts \in Seq(Buffers) /\ Len(parts) = Len(ss)
    BY <1>3
  <1>5. \A k \in 1 .. Len(ss) : parts[k] = EncodeSample(ss[k]) /\ parts[k] # <<>>
    BY <1>3
  <1> HIDE DEF parts
  <1>6. SampleParts(ss) = parts
    BY <1>2 DEF SampleParts, parts
  <1>7. Concat(EncodeSample, ss) = FlattenSeq(SampleParts(ss))
    BY DEF Concat, SampleParts
  <1> QED BY <1>4, <1>5, <1>6, <1>7, FlattenType

\* Whether the samples ss, in front of y, are read to the end: a payload of no bytes
\* is an error when nothing follows it.
Complete(ss, y) == ss = <<>> \/ y # <<>> \/ ss[Len(ss)].payload # <<>>

\* The samples of a stamp come out as they were put in.
LEMMA SamplesRead ==
  ASSUME NEW ss \in Seq(Samples), NEW y \in Buffers
  PROVE  LET r == TimesSample(At(Concat(EncodeSample, ss) \o y, <<>>), Len(ss))
         IN /\ Complete(ss, y) => r = At(y, ss)
            /\ ~Complete(ss, y) => r = Lost(<<>>, ss)
  <1> DEFINE n == Len(ss)
             parts == SampleParts(ss)
             start == At(Concat(EncodeSample, ss) \o y, <<>>)
             Good(f, k) == f[k] = At(Rest(parts, k) \o y, SubSeq(ss, 1, k))
  <1>1. /\ n \in Nat /\ parts \in Seq(Buffers) /\ Len(parts) = n
        /\ \A k \in 1 .. n : parts[k] = EncodeSample(ss[k]) /\ parts[k] # <<>>
    <2>1. n \in Nat
      OBVIOUS
    <2> HIDE DEF n
    <2>2. /\ parts \in Seq(Buffers) /\ Len(parts) = Len(ss)
          /\ \A k \in 1 .. Len(ss) : parts[k] = EncodeSample(ss[k]) /\ parts[k] # <<>>
      BY SamplePartsType
    <2> QED BY <2>1, <2>2 DEF n
  <1> HIDE DEF start, n, parts
  <1>2. PICK f : /\ f[0] = start
                 /\ \A k \in 1 .. n : f[k] = IF f[k - 1].ok THEN parseSample(f[k - 1]) ELSE f[k - 1]
                 /\ TimesSample(start, n) = f[n]
    <2>1. n \in Nat
      BY <1>1
    <2> QED BY <2>1, SampleTurns
  <1>3. Good(f, 0)
    <2>1. Concat(EncodeSample, ss) = Rest(parts, 0)
      BY <1>1, SamplePartsType, RestSteps DEF parts
    <2>2. SubSeq(ss, 1, 0) = <<>>
      OBVIOUS
    <2> QED BY <1>2, <2>1, <2>2 DEF start
  <1>4. ASSUME NEW k \in 0 .. n - 1, Good(f, k)
        PROVE  /\ k + 1 < n \/ Complete(ss, y) => Good(f, k + 1)
               /\ k + 1 = n /\ ~Complete(ss, y) => f[k + 1] = Lost(<<>>, SubSeq(ss, 1, k + 1))
    <2> DEFINE s == ss[k + 1]
               z == Rest(parts, k + 1) \o y
               t == SubSeq(ss, 1, k)
    <2>1. /\ k + 1 \in 1 .. n /\ (k + 1) - 1 = k /\ s \in Samples
          /\ k \in 0 .. Len(parts) - 1 /\ parts[k + 1] = EncodeSample(s)
      BY <1>1 DEF n
    <2>2. z \in Buffers /\ Rest(parts, k) \o y = EncodeSample(s) \o z
      <3>1. k \in 0 .. Len(parts) - 1 /\ parts \in Seq(Buffers)
        BY <1>1, <2>1
      <3>2. z \in Buffers /\ Rest(parts, k) \o y = parts[k + 1] \o z
        BY <3>1, RestFront
      <3> QED BY <2>1, <3>2
    <2>3. Append(t, s) = SubSeq(ss, 1, k + 1)
      BY <2>1 DEF n
    <2>4. f[k] = At(EncodeSample(s) \o z, t)
      BY <1>4, <2>2
    <2>5. k + 1 < n => z # <<>>
      <3> SUFFICES ASSUME k + 1 < n PROVE z # <<>>
        OBVIOUS
      <3> DEFINE j == k + 1
      <3>1. j \in 0 .. Len(parts) - 1 /\ j + 1 \in 1 .. n
        BY <1>1
      <3>2. parts[j + 1] # <<>>
        BY <1>1, <3>1
      <3> HIDE DEF j
      <3>3. Rest(parts, j) \o y # <<>>
        BY <1>1, <3>1, <3>2, RestFront
      <3> QED BY <3>3 DEF j
    <2>6. k + 1 = n => z = y /\ s = ss[n] /\ ss # <<>>
      <3>1. Rest(parts, n) = <<>>
        BY <1>1, RestSteps
      <3>2. <<>> \o y = y
        BY DEF Buffers
      <3>3. k + 1 = n => ss # <<>>
        BY <2>1 DEF n
      <3> QED BY <3>1, <3>2, <3>3
    <2> HIDE DEF s, z, t
    <2>7. f[k + 1] = parseSample(At(EncodeSample(s) \o z, t))
      <3>1. f[k + 1] = IF f[k].ok THEN parseSample(f[k]) ELSE f[k]
        <4>1. f[k + 1] = IF f[(k + 1) - 1].ok THEN parseSample(f[(k + 1) - 1]) ELSE f[(k + 1) - 1]
          BY <1>2, <2>1
        <4> QED BY <2>1, <4>1
      <3>2. f[k].ok
        BY <2>4 DEF At
      <3> QED BY <2>4, <3>1, <3>2
    <2>8. /\ s.payload # <<>> \/ z # <<>> => f[k + 1] = At(z, Append(t, s))
          /\ s.payload = <<>> /\ z = <<>> => f[k + 1] = Lost(<<>>, Append(t, s))
      BY <2>1, <2>2, <2>7, SampleTurn
    <2>9. k + 1 < n \/ k + 1 = n
      BY <1>1
    <2>10. k + 1 < n \/ Complete(ss, y) => s.payload # <<>> \/ z # <<>>
      BY <2>5, <2>6, <2>9 DEF Complete, n
    <2>11. k + 1 = n /\ ~Complete(ss, y) => s.payload = <<>> /\ z = <<>>
      BY <2>6 DEF Complete, n
    <2>12. f[k + 1] = At(z, Append(t, s)) => Good(f, k + 1)
      BY <2>3 DEF z, t, s
    <2> HIDE DEF Good
    <2>13. Append(t, s) = SubSeq(ss, 1, k + 1)
      BY <2>3 DEF t, s
    <2> QED BY <2>8, <2>10, <2>11, <2>12, <2>13
  <1> DEFINE T == {k \in Nat : k < n \/ (k = n /\ Complete(ss, y)) => Good(f, k)}
  <1> HIDE DEF Good
  <1>5. T = Nat
    <2>1. T \subseteq Nat /\ 0 \in T
      BY <1>3
    <2>2. ASSUME NEW k \in T PROVE k + 1 \in T
      <3>1. k + 1 < n \/ (k + 1 = n /\ Complete(ss, y)) => k \in 0 .. n - 1 /\ k < n
        BY <1>1
      <3>2. k \in 0 .. n - 1 /\ k < n => Good(f, k)
        OBVIOUS
      <3>3. k + 1 < n \/ (k + 1 = n /\ Complete(ss, y)) => Good(f, k + 1)
        BY <1>4, <3>1, <3>2
      <3> QED BY <3>3
    <2> HIDE DEF T
    <2> QED BY <2>1, <2>2, SetInduction
  <1>6. Complete(ss, y) => TimesSample(start, n) = At(y, ss)
    <2>1. Complete(ss, y) => Good(f, n)
      BY <1>1, <1>5
    <2>2. Rest(parts, n) = <<>>
      BY <1>1, RestSteps
    <2>3. <<>> \o y = y /\ SubSeq(ss, 1, n) = ss
      BY DEF Buffers, n
    <2> QED BY <1>2, <2>1, <2>2, <2>3 DEF Good
  <1>7. ~Complete(ss, y) => TimesSample(start, n) = Lost(<<>>, ss)
    <2> SUFFICES ASSUME ~Complete(ss, y) PROVE f[n] = Lost(<<>>, ss)
      BY <1>2
    <2> DEFINE k == n - 1
    <2>1. k \in 0 .. n - 1 /\ k + 1 = n /\ k < n
      BY <1>1 DEF Complete, n
    <2> HIDE DEF k
    <2>2. Good(f, k)
      BY <1>5, <2>1
    <2>3. f[k + 1] = Lost(<<>>, SubSeq(ss, 1, k + 1))
      BY <1>4, <2>1, <2>2
    <2>4. SubSeq(ss, 1, n) = ss
      BY DEF n
    <2> QED BY <2>1, <2>3, <2>4
  <1> QED BY <1>6, <1>7 DEF n, start

SampleBytes(ss) == Concat(EncodeSample, ss)

LEMMA StampEncoded ==
  ASSUME NEW s \in Stamps, NEW y \in Buffers
  PROVE  /\ EncodeStamp(s) \in Buffers /\ Len(EncodeStamp(s)) >= 12
         /\ EncodeStamp(s) \o y \in Buffers
         /\ Len(EncodeStamp(s) \o y) >= 12
         /\ (EncodeStamp(s) \o y)[1] = s.time
         /\ (EncodeStamp(s) \o y)[9] = Len(s.samples)
         /\ Drop(EncodeStamp(s) \o y, 12) = SampleBytes(s.samples) \o y
  <1> DEFINE h == s.time
             p == SampleBytes(s.samples)
             n == Len(s.samples)
             v == 8
             w == 4
             z == p \o y
             e == Two(h, v, n, w, p)
             f == Two(h, v, n, w, z)
  <1>1. h \in Cell /\ p \in Buffers /\ n \in Cell
    <2>1. h \in Nat /\ s.samples \in Seq(Samples)
      BY DEF Stamps
    <2>2. n \in Nat
      BY <2>1
    <2>3. p \in Buffers
      BY <2>1, SamplePartsType DEF SampleBytes
    <2> QED BY <2>1, <2>2, <2>3, CellType
  <1>2. EncodeStamp(s) = Le(h, v) \o Le(n, w) \o p
    BY DEF EncodeStamp, SampleBytes
  <1>3. v \in Nat /\ v > 0 /\ w \in Nat /\ w > 0
    OBVIOUS
  <1>8. v + w = 12 /\ v + 1 = 9
    OBVIOUS
  <1> HIDE DEF h, p, n, v, w
  <1>4. z \in Buffers
    BY <1>1, BufferConcat
  <1>9. EncodeStamp(s) = e /\ e \o y = f
    <2>1. Le(h, v) \o Le(n, w) \o p = e
      BY <1>1, <1>3, TwoNumbersLeft
    <2>2. e \o y = f
      <3> DEFINE a == Le(h, v)
                 b == Le(n, w)
      <3>1. a \in Buffers /\ b \in Buffers
        BY <1>1, <1>3, LeType
      <3> HIDE DEF a, b
      <3>2. Cat(Cat(a, Cat(b, p)), y) = Cat(a, Cat(b, Cat(p, y)))
        BY <1>1, <3>1, CatOnto
      <3> QED BY <3>2 DEF Two, Cat, a, b
    <2> QED BY <1>2, <2>1, <2>2
  <1> HIDE DEF z
  <1>5. /\ e \in Buffers /\ Len(e) = v + w + Len(p)
        /\ f \in Buffers /\ Len(f) = v + w + Len(z)
        /\ f[1] = h /\ f[v + 1] = n /\ Drop(f, v + w) = z
    <2>1. e \in Buffers
      BY <1>1, <1>3, <1>4, TwoNumbers
    <2>2. Len(e) = v + w + Len(p)
      BY <1>1, <1>3, <1>4, TwoNumbers
    <2>3. f[1] = h
      BY <1>1, <1>3, <1>4, TwoNumbers
    <2>4. f[v + 1] = n
      BY <1>1, <1>3, <1>4, TwoNumbers
    <2>5. Drop(f, v + w) = z
      BY <1>1, <1>3, <1>4, TwoNumbers
    <2>6. f \in Buffers
      BY <1>1, <1>3, <1>4, TwoNumbers
    <2>7. Len(f) = v + w + Len(z)
      BY <1>1, <1>3, <1>4, TwoNumbers
    <2> QED BY <2>1, <2>2, <2>3, <2>4, <2>5, <2>6, <2>7
  <1> HIDE DEF e, f
  <1>6. Len(e) >= 12 /\ Len(f) >= 12
    BY <1>1, <1>8, <1>4, <1>5 DEF Buffers
  <1>7. f[9] = n /\ Drop(f, 12) = z
    BY <1>5, <1>8
  <1> QED BY <1>9, <1>5, <1>6, <1>7 DEF h, p, n, z

\* One turn of the loop over the stamps.
LEMMA StampTurn ==
  ASSUME NEW s \in Stamps, NEW y \in Buffers, NEW t
  PROVE  /\ Complete(s.samples, y) =>
              parseStamp(At(EncodeStamp(s) \o y, t)) = At(y, Append(t, s))
         /\ ~Complete(s.samples, y) =>
              parseStamp(At(EncodeStamp(s) \o y, t)) = Lost(<<>>, Append(t, s))
  <1> DEFINE x == EncodeStamp(s) \o y
             ss == s.samples
             p == SampleBytes(ss)
             q == At(x, t)
             r == TimesSample(At(p \o y, <<>>), Len(ss))
  <1>1. /\ x \in Buffers /\ Len(x) >= 12 /\ x[1] = s.time /\ x[9] = Len(ss)
        /\ Drop(x, 12) = p \o y
    BY StampEncoded
  <1>2. ss \in Seq(Samples) /\ [time |-> s.time, samples |-> ss] = s
    BY DEF Stamps
  <1>3. /\ Complete(ss, y) => r = At(y, ss)
        /\ ~Complete(ss, y) => r = Lost(<<>>, ss)
    BY <1>2, SamplesRead DEF SampleBytes
  <1> HIDE DEF p, x, ss
  <1>4. Has(q, 12) /\ Skip(q, 12) = At(p \o y, t) /\ q.rest = x /\ q.t = t
    <2>1. Has(q, 12) /\ Skip(q, 12) = At(Drop(x, 12), t) /\ q.rest = x /\ q.t = t
      BY <1>1, ReaderSteps
    <2> QED BY <1>1, <2>1
  <1>5. [At(p \o y, t) EXCEPT !.t = <<>>] = At(p \o y, <<>>)
    BY FieldsReplaced
  <1> HIDE DEF q
  <1>6. parseStamp(q) = [r EXCEPT !.t = Append(t, s)]
    <2>1. parseStamp(q) =
            LET u == TimesSample([Skip(q, 12) EXCEPT !.t = <<>>], q.rest[9])
            IN [u EXCEPT !.t = Append(q.t, [time |-> q.rest[1], samples |-> u.t])]
      BY <1>4, Zenon DEF parseStamp, TimesSample
    <2>2. parseStamp(q) = [r EXCEPT !.t = Append(t, [time |-> s.time, samples |-> r.t])]
      BY <1>1, <1>4, <1>5, <2>1, Zenon
    <2>3. r.t = ss
      BY <1>3 DEF At, Lost
    <2> QED BY <1>2, <2>2, <2>3
  <1> HIDE DEF r
  <1>7. Complete(ss, y) => parseStamp(q) = At(y, Append(t, s))
    <2>1. [At(y, ss) EXCEPT !.t = Append(t, s)] = At(y, Append(t, s))
      BY FieldsReplaced, Zenon
    <2> QED BY <1>3, <1>6, <2>1, Zenon
  <1>8. ~Complete(ss, y) => parseStamp(q) = Lost(<<>>, Append(t, s))
    <2>1. [Lost(<<>>, ss) EXCEPT !.t = Append(t, s)] = Lost(<<>>, Append(t, s))
      BY LostFieldsReplaced, Zenon
    <2> QED BY <1>3, <1>6, <2>1, Zenon
  <1> QED BY <1>7, <1>8 DEF q, x, ss

TimesStamp(r, n) == Times(r, n, parseStamp)

\* The turns of the loop over the stamps.
LEMMA StampTurns ==
  ASSUME NEW r, NEW n \in Nat
  PROVE  \E f : /\ f[0] = r
                /\ \A k \in 1 .. n :
                     f[k] = IF f[k - 1].ok THEN parseStamp(f[k - 1]) ELSE f[k - 1]
                /\ TimesStamp(r, n) = f[n]
  <1> DEFINE Next1(q) == IF q.ok THEN parseStamp(q) ELSE q
             E(h) == [k \in 0 .. n |-> IF k = 0 THEN r ELSE Next1(h[k - 1])]
             Turns(m) == \E g : g[0] = r /\ \A k \in 1 .. m : g[k] = Next1(g[k - 1])
             T == {m \in Nat : Turns(m)}
  <1>1. Turns(0)
    <2> DEFINE g == [k \in 0 .. 0 |-> r]
    <2>1. g[0] = r
      OBVIOUS
    <2>2. \A k \in 1 .. 0 : g[k] = Next1(g[k - 1])
      OBVIOUS
    <2> HIDE DEF g, Next1
    <2> QED BY <2>1, <2>2
  <1> HIDE DEF Next1
  <1>2. ASSUME NEW m \in Nat, Turns(m) PROVE Turns(m + 1)
    <2>1. PICK g : g[0] = r /\ \A k \in 1 .. m : g[k] = Next1(g[k - 1])
      BY <1>2
    <2> DEFINE x == Next1(g[m])
               h == [k \in 0 .. m + 1 |-> IF k <= m THEN g[k] ELSE x]
    <2> HIDE DEF x
    <2>2. h[m + 1] = x /\ \A k \in 0 .. m : h[k] = g[k]
      OBVIOUS
    <2> HIDE DEF h
    <2>3. \A k \in 1 .. m + 1 : h[k] = Next1(h[k - 1])
      <3> TAKE k \in 1 .. m + 1
      <3>0. k \in 1 .. m \/ k = m + 1
        OBVIOUS
      <3>1. CASE k \in 1 .. m
        <4>1. g[k] = Next1(g[k - 1])
          BY <2>1, <3>1
        <4>2. k - 1 \in 0 .. m /\ k \in 0 .. m
          BY <3>1
        <4>3. h[k] = g[k] /\ h[k - 1] = g[k - 1]
          BY <2>2, <4>2
        <4> QED BY <4>1, <4>3
      <3>2. CASE k = m + 1
        <4>1. h[m] = g[m] /\ k - 1 = m
          BY <2>2, <3>2
        <4> QED BY <2>2, <3>2, <4>1 DEF x
      <3> QED BY <3>0, <3>1, <3>2
    <2>4. h[0] = r
      BY <2>1, <2>2
    <2> QED BY <2>3, <2>4
  <1> HIDE DEF Turns
  <1>3. T = Nat
    <2>1. T \subseteq Nat /\ 0 \in T
      BY <1>1
    <2>2. \A m \in T : m + 1 \in T
      BY <1>2
    <2> HIDE DEF T
    <2> QED BY <2>1, <2>2, SetInduction
  <1>4. Turns(n)
    <2>1. n \in T
      BY <1>3
    <2> QED BY <2>1
  <1>5. PICK g : g[0] = r /\ \A k \in 1 .. n : g[k] = Next1(g[k - 1])
    BY <1>4 DEF Turns
  <1> DEFINE h == [k \in 0 .. n |-> g[k]]
             f == CHOOSE e : e = E(e)
  <1>6. h = E(h)
    <2>1. ASSUME NEW k \in 0 .. n PROVE h[k] = IF k = 0 THEN r ELSE Next1(h[k - 1])
      <3>1. CASE k = 0
        BY <1>5, <3>1
      <3>2. CASE k # 0
        <4>1. k \in 1 .. n /\ k - 1 \in 0 .. n
          BY <3>2
        <4>2. h[k] = g[k] /\ h[k - 1] = g[k - 1]
          BY <4>1
        <4>3. g[k] = Next1(g[k - 1])
          BY <1>5, <4>1
        <4> HIDE DEF h
        <4> QED BY <3>2, <4>2, <4>3
      <3> QED BY <3>1, <3>2
    <2>2. h = [k \in 0 .. n |-> h[k]]
      OBVIOUS
    <2> HIDE DEF h
    <2> QED BY <2>1, <2>2, Zenon
  <1>7. f = E(f)
    <2> HIDE DEF E, h
    <2> QED BY <1>6
  <1>8. TimesStamp(r, n) = f[n]
    BY DEF TimesStamp, Times, Next1
  <1> HIDE DEF f
  <1>9. \A k \in 0 .. n : f[k] = IF k = 0 THEN r ELSE Next1(f[k - 1])
    BY <1>7
  <1>10. f[0] = r
    BY <1>9
  <1>11. \A k \in 1 .. n : f[k] = Next1(f[k - 1])
    <2> TAKE k \in 1 .. n
    <2>1. k \in 0 .. n /\ k # 0
      OBVIOUS
    <2> QED BY <1>9, <2>1
  <1> QED BY <1>8, <1>10, <1>11, Zenon DEF Next1

StampParts(ps) == [k \in DOMAIN ps |-> EncodeStamp(ps[k])]

LEMMA StampPartsType ==
  ASSUME NEW ps \in Seq(Stamps)
  PROVE  /\ StampParts(ps) \in Seq(Buffers)
         /\ Len(StampParts(ps)) = Len(ps)
         /\ \A k \in 1 .. Len(ps) : StampParts(ps)[k] = EncodeStamp(ps[k])
                                      /\ StampParts(ps)[k] # <<>>
         /\ Concat(EncodeStamp, ps) = FlattenSeq(StampParts(ps))
         /\ Concat(EncodeStamp, ps) \in Buffers
  <1>1. \A s \in Stamps : EncodeStamp(s) \in Buffers /\ EncodeStamp(s) # <<>>
    <2> TAKE s \in Stamps
    <2>1. <<>> \in Buffers
      BY DEF Buffers
    <2>2. EncodeStamp(s) \in Buffers /\ Len(EncodeStamp(s)) >= 12
      BY <2>1, StampEncoded
    <2> QED BY <2>2 DEF Buffers
  <1>2. DOMAIN ps = 1 .. Len(ps) /\ \A k \in 1 .. Len(ps) : ps[k] \in Stamps
    OBVIOUS
  <1> DEFINE parts == [k \in 1 .. Len(ps) |-> EncodeStamp(ps[k])]
  <1>3. \A k \in 1 .. Len(ps) : EncodeStamp(ps[k]) \in Buffers /\ EncodeStamp(ps[k]) # <<>>
    BY <1>1, <1>2
  <1>4. parts \in Seq(Buffers) /\ Len(parts) = Len(ps)
    BY <1>3
  <1>5. \A k \in 1 .. Len(ps) : parts[k] = EncodeStamp(ps[k]) /\ parts[k] # <<>>
    BY <1>3
  <1> HIDE DEF parts
  <1>6. StampParts(ps) = parts
    BY <1>2 DEF StampParts, parts
  <1>7. Concat(EncodeStamp, ps) = FlattenSeq(StampParts(ps))
    BY DEF Concat, StampParts
  <1> QED BY <1>4, <1>5, <1>6, <1>7, FlattenType

\* Whether the stamps ps, in front of y, are read to the end.
AllComplete(ps, y) == ps = <<>> \/ Complete(ps[Len(ps)].samples, y)

\* The stamps of a packet come out as they were put in.
LEMMA StampsRead ==
  ASSUME NEW ps \in Seq(Stamps), NEW y \in Buffers
  PROVE  LET r == TimesStamp(At(Concat(EncodeStamp, ps) \o y, <<>>), Len(ps))
         IN /\ AllComplete(ps, y) => r = At(y, ps)
            /\ ~AllComplete(ps, y) => r = Lost(<<>>, ps)
  <1> DEFINE n == Len(ps)
             parts == StampParts(ps)
             start == At(Concat(EncodeStamp, ps) \o y, <<>>)
             Good(f, k) == f[k] = At(Rest(parts, k) \o y, SubSeq(ps, 1, k))
  <1>1. /\ n \in Nat /\ parts \in Seq(Buffers) /\ Len(parts) = n
        /\ \A k \in 1 .. n : parts[k] = EncodeStamp(ps[k]) /\ parts[k] # <<>>
    <2>1. n \in Nat
      OBVIOUS
    <2> HIDE DEF n
    <2>2. /\ parts \in Seq(Buffers) /\ Len(parts) = Len(ps)
          /\ \A k \in 1 .. Len(ps) : parts[k] = EncodeStamp(ps[k]) /\ parts[k] # <<>>
      BY StampPartsType
    <2> QED BY <2>1, <2>2 DEF n
  <1> HIDE DEF start, n, parts
  <1>2. PICK f : /\ f[0] = start
                 /\ \A k \in 1 .. n : f[k] = IF f[k - 1].ok THEN parseStamp(f[k - 1]) ELSE f[k - 1]
                 /\ TimesStamp(start, n) = f[n]
    <2>1. n \in Nat
      BY <1>1
    <2> QED BY <2>1, StampTurns
  <1>3. Good(f, 0)
    <2>1. Concat(EncodeStamp, ps) = Rest(parts, 0)
      BY <1>1, StampPartsType, RestSteps DEF parts
    <2>2. SubSeq(ps, 1, 0) = <<>>
      OBVIOUS
    <2> QED BY <1>2, <2>1, <2>2 DEF start
  <1>4. ASSUME NEW k \in 0 .. n - 1, Good(f, k)
        PROVE  /\ k + 1 < n \/ AllComplete(ps, y) => Good(f, k + 1)
               /\ k + 1 = n /\ ~AllComplete(ps, y) => f[k + 1] = Lost(<<>>, SubSeq(ps, 1, k + 1))
    <2> DEFINE s == ps[k + 1]
               z == Rest(parts, k + 1) \o y
               t == SubSeq(ps, 1, k)
    <2>1. /\ k + 1 \in 1 .. n /\ (k + 1) - 1 = k /\ s \in Stamps
          /\ k \in 0 .. Len(parts) - 1 /\ parts[k + 1] = EncodeStamp(s)
      BY <1>1 DEF n
    <2>2. z \in Buffers /\ Rest(parts, k) \o y = EncodeStamp(s) \o z
      <3>1. k \in 0 .. Len(parts) - 1 /\ parts \in Seq(Buffers)
        BY <1>1, <2>1
      <3>2. z \in Buffers /\ Rest(parts, k) \o y = parts[k + 1] \o z
        BY <3>1, RestFront
      <3> QED BY <2>1, <3>2
    <2>3. Append(t, s) = SubSeq(ps, 1, k + 1)
      BY <2>1 DEF n
    <2>4. f[k] = At(EncodeStamp(s) \o z, t)
      BY <1>4, <2>2
    <2>5. k + 1 < n => z # <<>>
      <3> SUFFICES ASSUME k + 1 < n PROVE z # <<>>
        OBVIOUS
      <3> DEFINE j == k + 1
      <3>1. j \in 0 .. Len(parts) - 1 /\ j + 1 \in 1 .. n
        BY <1>1
      <3>2. parts[j + 1] # <<>>
        BY <1>1, <3>1
      <3> HIDE DEF j
      <3>3. Rest(parts, j) \o y # <<>>
        BY <1>1, <3>1, <3>2, RestFront
      <3> QED BY <3>3 DEF j
    <2>6. k + 1 = n => z = y /\ s = ps[n] /\ ps # <<>>
      <3>1. Rest(parts, n) = <<>>
        BY <1>1, RestSteps
      <3>2. <<>> \o y = y
        BY DEF Buffers
      <3>3. k + 1 = n => ps # <<>>
        BY <2>1 DEF n
      <3> QED BY <3>1, <3>2, <3>3
    <2> HIDE DEF s, z, t
    <2>7. f[k + 1] = parseStamp(At(EncodeStamp(s) \o z, t))
      <3>1. f[k + 1] = IF f[k].ok THEN parseStamp(f[k]) ELSE f[k]
        <4>1. f[k + 1] = IF f[(k + 1) - 1].ok THEN parseStamp(f[(k + 1) - 1]) ELSE f[(k + 1) - 1]
          BY <1>2, <2>1
        <4> QED BY <2>1, <4>1
      <3>2. f[k].ok
        BY <2>4 DEF At
      <3> QED BY <2>4, <3>1, <3>2
    <2>8. /\ Complete(s.samples, z) => f[k + 1] = At(z, Append(t, s))
          /\ ~Complete(s.samples, z) => f[k + 1] = Lost(<<>>, Append(t, s))
      BY <2>1, <2>2, <2>7, StampTurn
    <2>9. k + 1 < n \/ k + 1 = n
      BY <1>1
    <2>10. k + 1 < n \/ AllComplete(ps, y) => Complete(s.samples, z)
      BY <2>5, <2>6, <2>9 DEF AllComplete, Complete, n
    <2>11. k + 1 = n /\ ~AllComplete(ps, y) => ~Complete(s.samples, z)
      BY <2>6 DEF AllComplete, n
    <2>12. f[k + 1] = At(z, Append(t, s)) => Good(f, k + 1)
      BY <2>3 DEF z, t, s
    <2> HIDE DEF Good
    <2>13. Append(t, s) = SubSeq(ps, 1, k + 1)
      BY <2>3 DEF t, s
    <2> QED BY <2>8, <2>10, <2>11, <2>12, <2>13
  <1> DEFINE T == {k \in Nat : k < n \/ (k = n /\ AllComplete(ps, y)) => Good(f, k)}
  <1> HIDE DEF Good
  <1>5. T = Nat
    <2>1. T \subseteq Nat /\ 0 \in T
      BY <1>3
    <2>2. ASSUME NEW k \in T PROVE k + 1 \in T
      <3>1. k + 1 < n \/ (k + 1 = n /\ AllComplete(ps, y)) => k \in 0 .. n - 1 /\ k < n
        BY <1>1
      <3>2. k \in 0 .. n - 1 /\ k < n => Good(f, k)
        OBVIOUS
      <3>3. k + 1 < n \/ (k + 1 = n /\ AllComplete(ps, y)) => Good(f, k + 1)
        BY <1>4, <3>1, <3>2
      <3> QED BY <3>3
    <2> HIDE DEF T
    <2> QED BY <2>1, <2>2, SetInduction
  <1>6. AllComplete(ps, y) => TimesStamp(start, n) = At(y, ps)
    <2>1. AllComplete(ps, y) => Good(f, n)
      BY <1>1, <1>5
    <2>2. Rest(parts, n) = <<>>
      BY <1>1, RestSteps
    <2>3. <<>> \o y = y /\ SubSeq(ps, 1, n) = ps
      BY DEF Buffers, n
    <2> QED BY <1>2, <2>1, <2>2, <2>3 DEF Good
  <1>7. ~AllComplete(ps, y) => TimesStamp(start, n) = Lost(<<>>, ps)
    <2> SUFFICES ASSUME ~AllComplete(ps, y) PROVE f[n] = Lost(<<>>, ps)
      BY <1>2
    <2> DEFINE k == n - 1
    <2>1. k \in 0 .. n - 1 /\ k + 1 = n /\ k < n
      BY <1>1 DEF AllComplete, n
    <2> HIDE DEF k
    <2>2. Good(f, k)
      BY <1>5, <2>1
    <2>3. f[k + 1] = Lost(<<>>, SubSeq(ps, 1, k + 1))
      BY <1>4, <2>1, <2>2
    <2>4. SubSeq(ps, 1, n) = ps
      BY DEF n
    <2> QED BY <2>1, <2>3, <2>4
  <1> QED BY <1>6, <1>7 DEF n, start

LEMMA EmptyBuffer ==
  /\ <<>> \in Buffers
  /\ \A x \in Buffers : Cat(x, <<>>) = x /\ Cat(<<>>, x) = x /\ Drop(x, 0) = x
  BY DEF Buffers, Cat, Drop

StampBytes(ps) == Concat(EncodeStamp, ps)

\* parseNotification gives every sample of every stamp of any packet; it fails, with
\* the same samples read, exactly if the last sample of the last stamp is empty
\* (client_subscriptions.go:249-313).
THEOREM NotificationParsed ==
  ASSUME NEW ps \in Seq(Stamps)
  PROVE  LET r == parseNotification(Notification(ps))
         IN IF AllComplete(ps, <<>>) THEN r = At(<<>>, ps) ELSE r = Lost(<<>>, ps)
  <1> DEFINE p == StampBytes(ps)
             n == Len(ps)
             w == 4
             body == Le(n, w) \o p
             h == Len(body)
             x == Two(h, w, n, w, p)
             data == Notification(ps)
  <1>1. p \in Buffers /\ n \in Nat /\ n \in Cell
    <2>1. n \in Nat
      OBVIOUS
    <2>2. p \in Buffers
      BY StampPartsType DEF StampBytes
    <2> QED BY <2>1, <2>2, CellType
  <1>2. w \in Nat /\ w > 0 /\ w + w = 8 /\ w + 1 = 5
    OBVIOUS
  <1>3. data = x
    BY Zenon DEF Notification, StampBytes, Two
  <1>4. h \in Cell
    <2> HIDE DEF w, p, n
    <2>1. body \in Buffers
      BY <1>1, <1>2, LeFirst
    <2>2. h \in Nat
      BY <2>1 DEF Buffers
    <2> HIDE DEF h
    <2> QED BY <2>2, CellType
  <1> HIDE DEF p, n, w, body, h, data
  <1>5. x \in Buffers /\ Len(x) = w + w + Len(p) /\ x[w + 1] = n /\ Drop(x, w + w) = p
    <2>1. x \in Buffers
      BY <1>1, <1>2, <1>4, TwoNumbers
    <2>2. Len(x) = w + w + Len(p)
      BY <1>1, <1>2, <1>4, TwoNumbers
    <2>3. x[w + 1] = n
      BY <1>1, <1>2, <1>4, TwoNumbers
    <2>4. Drop(x, w + w) = p
      BY <1>1, <1>2, <1>4, TwoNumbers
    <2> QED BY <2>1, <2>2, <2>3, <2>4
  <1> HIDE DEF x
  <1>6. Len(x) >= 8 /\ x[5] = n /\ Drop(x, 8) = p
    BY <1>1, <1>2, <1>5 DEF Buffers
  <1>7. parseNotification(data) = TimesStamp(At(p, <<>>), n)
    <2>1. Reader(x, <<>>) = At(x, <<>>) /\ Has(At(x, <<>>), 8)
            /\ Skip(At(x, <<>>), 8) = At(p, <<>>)
      BY <1>6, ReaderSteps
    <2> QED BY <1>3, <1>6, <2>1, Zenon DEF parseNotification, TimesStamp
  <1>8. p = Concat(EncodeStamp, ps) \o <<>>
    <2>1. p = p \o <<>>
      BY <1>1, EmptyBuffer DEF Cat
    <2> QED BY <2>1, Zenon DEF p, StampBytes
  <1>9. /\ AllComplete(ps, <<>>) => TimesStamp(At(p, <<>>), n) = At(<<>>, ps)
        /\ ~AllComplete(ps, <<>>) => TimesStamp(At(p, <<>>), n) = Lost(<<>>, ps)
    BY <1>8, StampsRead, EmptyBuffer, Zenon DEF n
  <1> QED BY <1>7, <1>9, Zenon DEF data

LEMMA NotificationIsParsed ==
  ASSUME NEW ps \in Seq(Stamps)
  PROVE  LET r == parseNotification(Notification(ps))
         IN \/ r.ok /\ r.t = ps
            \/ ~r.ok /\ Last(Last(ps).samples).payload = <<>>
  <1> DEFINE r == parseNotification(Notification(ps))
  <1>1. /\ AllComplete(ps, <<>>) => r = At(<<>>, ps)
        /\ ~AllComplete(ps, <<>>) => r = Lost(<<>>, ps)
    BY NotificationParsed
  <1> HIDE DEF r
  <1>2. AllComplete(ps, <<>>) => r.ok /\ r.t = ps
    BY <1>1 DEF At
  <1>3. ~AllComplete(ps, <<>>) => ~r.ok
    BY <1>1 DEF Lost
  <1>4. ~AllComplete(ps, <<>>) => Last(Last(ps).samples).payload = <<>>
    BY DEF AllComplete, Complete, Last
  <1> QED BY <1>2, <1>3, <1>4 DEF r

-----------------------------------------------------------------------------
(* Symbols: the numbers in front.                                          *)

\* What is in x behind its first n cells.
Behind(x, n, b) ==
  x \in Buffers /\ b \in Buffers /\ n \in Nat /\ Len(x) = n + Len(b) /\ Drop(x, n) = b

LEMMA BehindFirst ==
  ASSUME NEW x, NEW n, NEW b, Behind(x, n, b)
  PROVE  \A k \in 1 .. Len(b) : x[n + k] = b[k]
  BY DEF Behind, Buffers, Drop

LEMMA BehindAgain ==
  ASSUME NEW x, NEW n, NEW a \in Buffers, NEW b \in Buffers, Behind(x, n, Cat(a, b))
  PROVE  Behind(x, n + Len(a), b)
  <1>1. /\ x \in Buffers /\ n \in Nat /\ Len(x) = n + Len(Cat(a, b))
        /\ Drop(x, n) = Cat(a, b)
    BY DEF Behind
  <1>2. Len(Cat(a, b)) = Len(a) + Len(b) /\ Drop(Cat(a, b), Len(a)) = b
    BY CatLaws
  <1> DEFINE c == Cat(a, b)
  <1>3. Len(a) \in Nat /\ Len(b) \in Nat
    BY DEF Buffers
  <1>4. \A k, l \in Nat : k + l <= Len(x) => Drop(Drop(x, k), l) = Drop(x, k + l)
    BY <1>1 DEF Buffers, Drop
  <1>5. n + Len(a) <= Len(x) /\ Len(x) = (n + Len(a)) + Len(b) /\ n + Len(a) \in Nat
    BY <1>1, <1>2, <1>3
  <1>6. Drop(x, n + Len(a)) = b
    BY <1>1, <1>2, <1>3, <1>4, <1>5
  <1> QED BY <1>1, <1>5, <1>6 DEF Behind

LEMMA NumberBehind ==
  ASSUME NEW x, NEW n, NEW v \in Cell, NEW w \in Nat, w > 0, NEW b \in Buffers,
         Behind(x, n, Cat(Le(v, w), b))
  PROVE  Behind(x, n + w, b) /\ x[n + 1] = v
  <1> DEFINE a == Le(v, w)
  <1>1. a \in Buffers /\ Len(a) = w
    BY LeType
  <1>2. Cat(a, b)[1] = v /\ Len(Cat(a, b)) = w + Len(b)
    BY LeFirst DEF Cat
  <1> HIDE DEF a
  <1>3. Behind(x, n, Cat(a, b))
    BY DEF a
  <1>4. Behind(x, n + w, b)
    BY <1>1, <1>3, BehindAgain
  <1>5. 1 \in 1 .. Len(Cat(a, b))
    BY <1>2 DEF Buffers
  <1>6. x[n + 1] = Cat(a, b)[1]
    BY <1>3, <1>5, BehindFirst
  <1> QED BY <1>2, <1>4, <1>6

-----------------------------------------------------------------------------
(* The parts of an entry.                                                  *)

DimensionBytes(ds) == Concat(Dimension, ds)
PairBytes(ps) == Concat(Pair, ps)
GuidBytes(s) == IF "TypeGuid" \in s.flags THEN s.typeGuid ELSE <<>>
AttributeBytes(s) ==
  IF "Attributes" \in s.flags THEN Le(Len(s.attributes), 2) \o PairBytes(s.attributes) ELSE <<>>

LEMMA SymbolType ==
  ASSUME NEW s \in Symbols
  PROVE  /\ s.indexGroup \in Cell /\ s.indexOffset \in Cell /\ s.size \in Cell
         /\ s.dataType \in Cell /\ s.flags \in Cell
         /\ s.arrayInfo \in Seq(Dimensions)
         /\ s.name \in Texts /\ s.type \in Texts /\ s.comment \in Texts
         /\ s.typeGuid \in Buffers /\ Len(s.typeGuid) = 16
         /\ s.attributes \in Seq(Pairs)
  <1>1. s \in [indexGroup : Nat, indexOffset : Nat, size : Nat, dataType : STRING,
               flags : SUBSET STRING, arrayInfo : Seq(Dimensions),
               name : Texts, type : Texts, comment : Texts,
               typeGuid : [1 .. 16 -> Nat], attributes : Seq(Pairs)]
    BY SymbolsAssumption
  <1>2. s.indexGroup \in Nat /\ s.indexOffset \in Nat /\ s.size \in Nat
        /\ s.dataType \in STRING /\ s.flags \in SUBSET STRING
    BY <1>1, Zenon
  <1>3. /\ s.arrayInfo \in Seq(Dimensions)
        /\ s.name \in Texts /\ s.type \in Texts /\ s.comment \in Texts
        /\ s.attributes \in Seq(Pairs)
    BY <1>1, Zenon
  <1>4. s.typeGuid \in Buffers /\ Len(s.typeGuid) = 16
    <2> DEFINE g == s.typeGuid
    <2>1. g \in [1 .. 16 -> Nat]
      BY <1>1
    <2> HIDE DEF g
    <2>3. \A m \in Nat : g \in [1 .. m -> Nat] => g \in Seq(Nat) /\ Len(g) = m
      OBVIOUS
    <2>2. g \in Seq(Nat) /\ Len(g) = 16
      BY <2>1, <2>3
    <2> QED BY <2>2, CellsOfNumbers DEF g
  <1> QED BY <1>2, <1>3, <1>4, CellType, Zenon

LEMMA TextType ==
  ASSUME NEW t \in Texts
  PROVE  Text(t) \in Buffers /\ Len(Text(t)) = Len(t) + 1 /\ Len(t) \in Nat
  <1>1. t \in Seq(Nat) /\ Text(t) \in Seq(Nat) /\ Len(Text(t)) = Len(t) + 1 /\ Len(t) \in Nat
    BY DEF Text, Texts
  <1> QED BY <1>1, CellsOfNumbers

LEMMA DimensionType ==
  ASSUME NEW d \in Dimensions
  PROVE  /\ d.start \in Cell /\ d.length \in Cell
         /\ Dimension(d) = Cat(Le(d.start, 4), Le(d.length, 4))
         /\ Dimension(d) \in Buffers /\ Len(Dimension(d)) = 8 /\ Dimension(d) # <<>>
         /\ d = [start |-> d.start, length |-> d.length]
  <1> DEFINE w == 4
             a == Le(d.start, w)
             b == Le(d.length, w)
  <1>1. d.start \in Int /\ d.length \in Nat
    BY DEF Dimensions
  <1>2. d.start \in Cell /\ d.length \in Cell
    BY <1>1, CellType, Zenon
  <1>3. w \in Nat /\ w > 0 /\ w + w = 8
    OBVIOUS
  <1>4. Dimension(d) = Cat(a, b)
    BY Zenon DEF Dimension, Cat
  <1> HIDE DEF w
  <1>5. a \in Buffers /\ b \in Buffers /\ Len(a) = w /\ Len(b) = w
    BY <1>2, <1>3, LeType
  <1> HIDE DEF a, b
  <1>6. Cat(a, b) \in Buffers /\ Len(Cat(a, b)) = w + w
    <2>1. Cat(a, b) \in Buffers /\ Len(Cat(a, b)) = Len(a) + Len(b)
      BY <1>5, CatLaws
    <2> QED BY <1>5, <2>1, Zenon
  <1>7. Cat(a, b) # <<>>
    BY <1>3, <1>6
  <1>8. d = [start |-> d.start, length |-> d.length]
    BY DEF Dimensions
  <1> QED BY <1>2, <1>3, <1>4, <1>6, <1>7, <1>8 DEF a, b, w

LEMMA PairType ==
  ASSUME NEW p \in Pairs
  PROVE  /\ p.name \in Texts /\ p.value \in Texts
         /\ Len(p.name) \in Cell /\ Len(p.value) \in Cell
         /\ p = [name |-> p.name, value |-> p.value]
         /\ Pair(p) = Cat(Cat(Cat(Le(Len(p.name), 1), Le(Len(p.value), 1)), Text(p.name)),
                          Text(p.value))
         /\ Pair(p) \in Buffers /\ Pair(p) # <<>>
  <1> DEFINE w == 1
             a == Le(Len(p.name), w)
             b == Le(Len(p.value), w)
             c == Text(p.name)
             d == Text(p.value)
  <1>1. p.name \in Texts /\ p.value \in Texts /\ p = [name |-> p.name, value |-> p.value]
    BY DEF Pairs
  <1>2. Len(p.name) \in Nat /\ Len(p.value) \in Nat /\ c \in Buffers /\ d \in Buffers
    BY <1>1, TextType
  <1>3. Len(p.name) \in Cell /\ Len(p.value) \in Cell
    BY <1>2, CellType, Zenon
  <1>4. w \in Nat /\ w > 0
    OBVIOUS
  <1>5. Pair(p) = Cat(Cat(Cat(a, b), c), d)
    BY Zenon DEF Pair, Cat
  <1> HIDE DEF w, c, d
  <1>6. a \in Buffers /\ b \in Buffers /\ Len(a) = w
    BY <1>3, <1>4, LeType
  <1> HIDE DEF a, b
  <1>7. Cat(Cat(Cat(a, b), c), d) \in Buffers
    BY <1>2, <1>6, CatLaws
  <1>8. Len(Cat(Cat(Cat(a, b), c), d)) = ((w + Len(b)) + Len(c)) + Len(d)
    <2>1. Cat(a, b) \in Buffers /\ Len(Cat(a, b)) = w + Len(b)
      BY <1>6, CatLaws
    <2>2. Cat(Cat(a, b), c) \in Buffers /\ Len(Cat(Cat(a, b), c)) = (w + Len(b)) + Len(c)
      BY <1>2, <2>1, CatLaws
    <2> QED BY <1>2, <2>2, CatLaws
  <1>9. Len(b) \in Nat /\ Len(c) \in Nat /\ Len(d) \in Nat
    BY <1>2, <1>6 DEF Buffers
  <1>10. Cat(Cat(Cat(a, b), c), d) # <<>>
    BY <1>4, <1>8, <1>9
  <1> QED BY <1>1, <1>3, <1>5, <1>7, <1>10 DEF a, b, c, d, w

DimensionParts(ds) == [k \in DOMAIN ds |-> Dimension(ds[k])]

LEMMA DimensionPartsType ==
  ASSUME NEW ds \in Seq(Dimensions)
  PROVE  /\ DimensionParts(ds) \in Seq(Buffers)
         /\ Len(DimensionParts(ds)) = Len(ds)
         /\ \A k \in 1 .. Len(ds) : DimensionParts(ds)[k] = Dimension(ds[k])
                                      /\ DimensionParts(ds)[k] # <<>>
         /\ Concat(Dimension, ds) = FlattenSeq(DimensionParts(ds))
         /\ Concat(Dimension, ds) \in Buffers
  <1>1. \A s \in Dimensions : Dimension(s) \in Buffers /\ Dimension(s) # <<>>
    BY DimensionType
  <1>2. DOMAIN ds = 1 .. Len(ds) /\ \A k \in 1 .. Len(ds) : ds[k] \in Dimensions
    OBVIOUS
  <1> DEFINE parts == [k \in 1 .. Len(ds) |-> Dimension(ds[k])]
  <1>3. \A k \in 1 .. Len(ds) : Dimension(ds[k]) \in Buffers /\ Dimension(ds[k]) # <<>>
    BY <1>1, <1>2
  <1>4. parts \in Seq(Buffers) /\ Len(parts) = Len(ds)
    BY <1>3
  <1>5. \A k \in 1 .. Len(ds) : parts[k] = Dimension(ds[k]) /\ parts[k] # <<>>
    BY <1>3
  <1> HIDE DEF parts
  <1>6. DimensionParts(ds) = parts
    BY <1>2 DEF DimensionParts, parts
  <1>7. Concat(Dimension, ds) = FlattenSeq(DimensionParts(ds))
    BY DEF Concat, DimensionParts
  <1> QED BY <1>4, <1>5, <1>6, <1>7, FlattenType

PairParts(ps) == [k \in DOMAIN ps |-> Pair(ps[k])]

LEMMA PairPartsType ==
  ASSUME NEW ps \in Seq(Pairs)
  PROVE  /\ PairParts(ps) \in Seq(Buffers)
         /\ Len(PairParts(ps)) = Len(ps)
         /\ \A k \in 1 .. Len(ps) : PairParts(ps)[k] = Pair(ps[k])
                                      /\ PairParts(ps)[k] # <<>>
         /\ Concat(Pair, ps) = FlattenSeq(PairParts(ps))
         /\ Concat(Pair, ps) \in Buffers
  <1>1. \A s \in Pairs : Pair(s) \in Buffers /\ Pair(s) # <<>>
    BY PairType
  <1>2. DOMAIN ps = 1 .. Len(ps) /\ \A k \in 1 .. Len(ps) : ps[k] \in Pairs
    OBVIOUS
  <1> DEFINE parts == [k \in 1 .. Len(ps) |-> Pair(ps[k])]
  <1>3. \A k \in 1 .. Len(ps) : Pair(ps[k]) \in Buffers /\ Pair(ps[k]) # <<>>
    BY <1>1, <1>2
  <1>4. parts \in Seq(Buffers) /\ Len(parts) = Len(ps)
    BY <1>3
  <1>5. \A k \in 1 .. Len(ps) : parts[k] = Pair(ps[k]) /\ parts[k] # <<>>
    BY <1>3
  <1> HIDE DEF parts
  <1>6. PairParts(ps) = parts
    BY <1>2 DEF PairParts, parts
  <1>7. Concat(Pair, ps) = FlattenSeq(PairParts(ps))
    BY DEF Concat, PairParts
  <1> QED BY <1>4, <1>5, <1>6, <1>7, FlattenType

\* The bytes of array dimensions, and where their numbers are in them.
LEMMA DimensionsEncoded ==
  ASSUME NEW ds \in Seq(Dimensions)
  PROVE  /\ Len(DimensionBytes(ds)) = 8 * Len(ds)
         /\ \A k \in 0 .. Len(ds) - 1 : /\ DimensionBytes(ds)[8 * k + 1] = ds[k + 1].start
                                        /\ DimensionBytes(ds)[8 * k + 5] = ds[k + 1].length
  <1> DEFINE n == Len(ds)
             parts == DimensionParts(ds)
             x == DimensionBytes(ds)
             At8(k) == Behind(x, 8 * k, Rest(parts, k))
             T == {k \in Nat : k <= n => At8(k)}
  <1>1. /\ n \in Nat /\ parts \in Seq(Buffers) /\ Len(parts) = n
        /\ \A k \in 1 .. n : parts[k] = Dimension(ds[k]) /\ ds[k] \in Dimensions
        /\ x = FlattenSeq(parts) /\ x \in Buffers
    <2>1. n \in Nat /\ \A k \in 1 .. n : ds[k] \in Dimensions
      OBVIOUS
    <2> HIDE DEF parts
    <2>2. /\ parts \in Seq(Buffers) /\ Len(parts) = n
          /\ \A k \in 1 .. n : parts[k] = Dimension(ds[k])
      BY DimensionPartsType DEF parts
    <2>3. x = FlattenSeq(parts) /\ x \in Buffers
      BY DimensionPartsType DEF DimensionBytes, parts
    <2> QED BY <2>1, <2>2, <2>3
  <1> HIDE DEF n, parts, x
  <1>2. At8(0)
    <2>0. Rest(parts, 0) = FlattenSeq(parts)
      BY <1>1, RestSteps
    <2>1. Rest(parts, 0) = x /\ 8 * 0 = 0
      BY <1>1, <2>0
    <2>2. Drop(x, 0) = x /\ Len(x) = 0 + Len(x)
      BY <1>1, EmptyBuffer DEF Buffers
    <2> QED BY <1>1, <2>1, <2>2 DEF Behind
  <1>3. ASSUME NEW k \in 0 .. n - 1, At8(k)
        PROVE  At8(k + 1) /\ x[8 * k + 1] = ds[k + 1].start /\ x[8 * k + 5] = ds[k + 1].length
    <2> DEFINE d == ds[k + 1]
               y == Rest(parts, k + 1)
               w == 4
               p == 8 * k
               b == Cat(Le(d.length, w), y)
    <2>1. d \in Dimensions /\ parts[k + 1] = Dimension(d)
      BY <1>1
    <2>2. d.start \in Cell /\ d.length \in Cell /\ parts[k + 1] = Cat(Le(d.start, w), Le(d.length, w))
      BY <2>1, DimensionType
    <2>3. y \in Buffers /\ Rest(parts, k) = Cat(parts[k + 1], y)
      <3>1. k \in 0 .. Len(parts) - 1 /\ k + 1 \in 0 .. Len(parts) /\ parts \in Seq(Buffers)
        BY <1>1
      <3>2. Rest(parts, k) = parts[k + 1] \o Rest(parts, k + 1)
        BY <3>1, RestSteps
      <3>3. Rest(parts, k + 1) \in Buffers
        BY <3>1, RestSteps
      <3> QED BY <3>2, <3>3, Zenon DEF Cat
    <2>4. (p + w) + w = 8 * (k + 1) /\ (p + w) + 1 = 8 * k + 5
      OBVIOUS
    <2>a. w \in Nat /\ w > 0
      OBVIOUS
    <2>5. Behind(x, p, Rest(parts, k))
      BY <1>3
    <2> HIDE DEF d, y, w, p
    <2>6. Le(d.start, w) \in Buffers /\ Le(d.length, w) \in Buffers
      BY <2>2, <2>a, LeType
    <2>7. Rest(parts, k) = Cat(Le(d.start, w), b) /\ b \in Buffers
      BY <2>2, <2>3, <2>6, CatAssociative, CatLaws
    <2>8. Behind(x, p, Cat(Le(d.start, w), b))
      BY <2>5, <2>7
    <2> HIDE DEF b
    <2>9. Behind(x, p + w, b) /\ x[p + 1] = d.start
      BY <2>2, <2>a, <2>7, <2>8, NumberBehind
    <2>10. Behind(x, p + w, Cat(Le(d.length, w), y))
      BY <2>9 DEF b
    <2>11. Behind(x, (p + w) + w, y) /\ x[(p + w) + 1] = d.length
      BY <2>2, <2>3, <2>a, <2>10, NumberBehind
    <2> QED BY <2>4, <2>9, <2>11 DEF d, y, p
  <1> HIDE DEF At8
  <1>4. T = Nat
    <2>1. T \subseteq Nat /\ 0 \in T
      BY <1>2
    <2>2. ASSUME NEW k \in T PROVE k + 1 \in T
      <3>1. k + 1 <= n => At8(k + 1)
        BY <1>1, <1>3
      <3> QED BY <3>1
    <2> HIDE DEF T
    <2> QED BY <2>1, <2>2, SetInduction
  <1>5. Len(x) = 8 * n
    <2>1. At8(n)
      BY <1>1, <1>4
    <2>2. Rest(parts, n) = <<>>
      BY <1>1, RestSteps
    <2> QED BY <1>1, <2>1, <2>2 DEF At8, Behind
  <1>6. \A k \in 0 .. n - 1 : x[8 * k + 1] = ds[k + 1].start /\ x[8 * k + 5] = ds[k + 1].length
    <2> TAKE k \in 0 .. n - 1
    <2>1. k \in T /\ k <= n
      BY <1>1, <1>4
    <2>2. At8(k)
      BY <2>1
    <2> QED BY <1>3, <2>2
  <1> QED BY <1>5, <1>6 DEF n, x

LEMMA PartsType ==
  ASSUME NEW s \in Symbols
  PROVE  /\ SymbolTexts(s) \in Buffers
         /\ SymbolTexts(s) = Cat(Cat(Text(s.name), Text(s.type)), Text(s.comment))
         /\ DimensionBytes(s.arrayInfo) \in Buffers /\ GuidBytes(s) \in Buffers
         /\ PairBytes(s.attributes) \in Buffers /\ AttributeBytes(s) \in Buffers
         /\ SymbolExtras(s) \in Buffers
         /\ SymbolExtras(s) = Cat(DimensionBytes(s.arrayInfo), Cat(GuidBytes(s), AttributeBytes(s)))
         /\ Len(s.attributes) \in Cell /\ Len(s.attributes) \in Nat
  <1> DEFINE a == DimensionBytes(s.arrayInfo)
             b == GuidBytes(s)
             c == AttributeBytes(s)
             p == PairBytes(s.attributes)
             w == 2
  <1>1. SymbolTexts(s) = Cat(Cat(Text(s.name), Text(s.type)), Text(s.comment))
    BY Zenon DEF SymbolTexts, Cat
  <1>2. SymbolTexts(s) \in Buffers
    <2>1. Text(s.name) \in Buffers /\ Text(s.type) \in Buffers /\ Text(s.comment) \in Buffers
      BY SymbolType, TextType
    <2>2. Cat(Cat(Text(s.name), Text(s.type)), Text(s.comment)) \in Buffers
      BY <2>1, CatLaws
    <2> QED BY <1>1, <2>2, Zenon
  <1>3. a \in Buffers
    BY SymbolType, DimensionPartsType DEF DimensionBytes
  <1>4. b \in Buffers
    BY SymbolType, EmptyBuffer DEF GuidBytes
  <1>5. p \in Buffers
    BY SymbolType, PairPartsType DEF PairBytes
  <1>6. Len(s.attributes) \in Nat /\ Len(s.attributes) \in Cell
    <2>1. s.attributes \in Seq(Pairs)
      BY SymbolType
    <2>2. Len(s.attributes) \in Nat
      BY <2>1
    <2> QED BY <2>2, CellType, Zenon
  <1>7. c = IF "Attributes" \in s.flags THEN Cat(Le(Len(s.attributes), w), p) ELSE <<>>
    BY Zenon DEF AttributeBytes, Cat
  <1>8. SymbolExtras(s) = Cat(Cat(a, b), c)
    BY Zenon DEF SymbolExtras, DimensionBytes, GuidBytes, AttributeBytes, PairBytes, Cat
  <1>9. w \in Nat /\ w > 0
    OBVIOUS
  <1> HIDE DEF a, b, c, p, w
  <1>10. Le(Len(s.attributes), w) \in Buffers
    BY <1>6, <1>9, LeType
  <1>11. Cat(Le(Len(s.attributes), w), p) \in Buffers
    BY <1>5, <1>10, CatLaws
  <1>12. c \in Buffers
    BY <1>7, <1>11, EmptyBuffer, Zenon
  <1>13. Cat(Cat(a, b), c) = Cat(a, Cat(b, c))
    BY <1>3, <1>4, <1>12, CatAssociative
  <1>14. Cat(a, Cat(b, c)) \in Buffers
    BY <1>3, <1>4, <1>12, CatLaws
  <1> QED BY <1>1, <1>2, <1>3, <1>4, <1>5, <1>6, <1>8, <1>12, <1>13, <1>14, Zenon DEF a, b, c, p

\* Where in an entry its numbers are, and what is behind them.
LEMMA SymbolEncoded ==
  ASSUME NEW s \in Symbols
  PROVE  LET full == EncodeSymbol(s)
             z == Cat(SymbolTexts(s), SymbolExtras(s))
         IN /\ full \in Buffers /\ z \in Buffers
            /\ Len(full) = 30 + Len(z) /\ Drop(full, 30) = z
            /\ full[1] = Len(full)
            /\ full[5] = s.indexGroup /\ full[9] = s.indexOffset /\ full[13] = s.size
            /\ full[17] = s.dataType /\ full[21] = s.flags /\ full[23] = Len(s.arrayInfo)
            /\ full[25] = Len(s.name) /\ full[27] = Len(s.type) /\ full[29] = Len(s.comment)
  <1> DEFINE w == 4
             v == 2
             z == Cat(SymbolTexts(s), SymbolExtras(s))
             a1 == Le(s.indexGroup, w)
             a2 == Le(s.indexOffset, w)
             a3 == Le(s.size, w)
             a4 == Le(s.dataType, w)
             a5 == Le(s.flags, v)
             a6 == Le(Len(s.arrayInfo), v)
             a7 == Le(Len(s.name), v)
             a8 == Le(Len(s.type), v)
             a9 == Le(Len(s.comment), v)
             x10 == z
             x9 == Cat(a9, x10)
             x8 == Cat(a8, x9)
             x7 == Cat(a7, x8)
             x6 == Cat(a6, x7)
             x5 == Cat(a5, x6)
             x4 == Cat(a4, x5)
             x3 == Cat(a3, x4)
             x2 == Cat(a2, x3)
             x1 == Cat(a1, x2)
             n == Cat(Cat(Cat(Cat(Cat(Cat(Cat(Cat(a1, a2), a3), a4), a5), a6), a7), a8), a9)
             full == EncodeSymbol(s)
             body == SymbolNumbers(s) \o SymbolTexts(s) \o SymbolExtras(s)
             len == Len(body) + 4
  <1>1. w \in Nat /\ w > 0 /\ v \in Nat /\ v > 0
    OBVIOUS
  <1>p. /\ w + w = 8 /\ w + w + w = 12 /\ w + w + w + w = 16 /\ w + w + w + w + w = 20
        /\ w + w + w + w + w + v = 22 /\ w + w + w + w + w + v + v = 24
        /\ w + w + w + w + w + v + v + v = 26 /\ w + w + w + w + w + v + v + v + v = 28
        /\ w + w + w + w + w + v + v + v + v + v = 30 /\ w + 1 = 5
    OBVIOUS
  <1>2. SymbolNumbers(s) = n
    BY Zenon DEF SymbolNumbers, Cat
  <1>w. w = 4
    OBVIOUS
  <1> HIDE DEF w, v
  <1>3. z \in Buffers /\ SymbolTexts(s) \in Buffers /\ SymbolExtras(s) \in Buffers
    <2>1. SymbolTexts(s) \in Buffers /\ SymbolExtras(s) \in Buffers
      BY PartsType
    <2> QED BY <2>1, CatLaws
  <1> HIDE DEF z
  <1>4. /\ s.indexGroup \in Cell /\ s.indexOffset \in Cell /\ s.size \in Cell
        /\ s.dataType \in Cell /\ s.flags \in Cell
    BY SymbolType
  <1>5. /\ Len(s.arrayInfo) \in Cell /\ Len(s.name) \in Cell /\ Len(s.type) \in Cell
        /\ Len(s.comment) \in Cell
    <2>1. s.arrayInfo \in Seq(Dimensions) /\ s.name \in Texts /\ s.type \in Texts /\ s.comment \in Texts
      BY SymbolType
    <2>2. /\ Len(s.arrayInfo) \in Nat /\ Len(s.name) \in Nat /\ Len(s.type) \in Nat
          /\ Len(s.comment) \in Nat
      BY <2>1 DEF Texts
    <2> QED BY <2>2, CellType, Zenon
  <1>6. /\ a1 \in Buffers /\ a2 \in Buffers /\ a3 \in Buffers /\ a4 \in Buffers /\ a5 \in Buffers
        /\ a6 \in Buffers /\ a7 \in Buffers /\ a8 \in Buffers /\ a9 \in Buffers
    BY <1>1, <1>4, <1>5, LeType
  <1>7. /\ x9 \in Buffers /\ x8 \in Buffers /\ x7 \in Buffers /\ x6 \in Buffers /\ x5 \in Buffers
        /\ x4 \in Buffers /\ x3 \in Buffers /\ x2 \in Buffers /\ x1 \in Buffers
    <2> HIDE DEF a1, a2, a3, a4, a5, a6, a7, a8, a9
    <2> QED BY <1>3, <1>6, CatLaws
  <1>8. body = x1
    <2> HIDE DEF a1, a2, a3, a4, a5, a6, a7, a8, a9
    <2> DEFINE u2 == Cat(a1, a2)
               u3 == Cat(u2, a3)
               u4 == Cat(u3, a4)
               u5 == Cat(u4, a5)
               u6 == Cat(u5, a6)
               u7 == Cat(u6, a7)
               u8 == Cat(u7, a8)
    <2>0. u2 \in Buffers /\ u3 \in Buffers /\ u4 \in Buffers /\ u5 \in Buffers
          /\ u6 \in Buffers /\ u7 \in Buffers /\ u8 \in Buffers
      BY <1>6, CatLaws
    <2>1. n \in Buffers
      BY <1>6, <2>0, CatLaws
    <2>2. Cat(n, z) = x1
      <3>1. Cat(n, z) = Cat(u8, x9)
        BY <1>3, <1>6, <1>7, <2>0, CatAssociative
      <3>2. Cat(u8, x9) = Cat(u7, x8)
        BY <1>3, <1>6, <1>7, <2>0, CatAssociative
      <3>3. Cat(u7, x8) = Cat(u6, x7)
        BY <1>3, <1>6, <1>7, <2>0, CatAssociative
      <3>4. Cat(u6, x7) = Cat(u5, x6)
        BY <1>3, <1>6, <1>7, <2>0, CatAssociative
      <3>5. Cat(u5, x6) = Cat(u4, x5)
        BY <1>3, <1>6, <1>7, <2>0, CatAssociative
      <3>6. Cat(u4, x5) = Cat(u3, x4)
        BY <1>3, <1>6, <1>7, <2>0, CatAssociative
      <3>7. Cat(u3, x4) = Cat(u2, x3)
        BY <1>3, <1>6, <1>7, <2>0, CatAssociative
      <3>8. Cat(u2, x3) = Cat(a1, x2)
        BY <1>3, <1>6, <1>7, <2>0, CatAssociative
      <3> QED BY <3>1, <3>2, <3>3, <3>4, <3>5, <3>6, <3>7, <3>8, Zenon
    <2>3. body = Cat(Cat(n, SymbolTexts(s)), SymbolExtras(s))
      BY <1>2, Zenon DEF Cat
    <2> HIDE DEF n
    <2>4. Cat(Cat(n, SymbolTexts(s)), SymbolExtras(s)) = Cat(n, z)
      BY <1>3, <2>1, CatAssociative DEF z
    <2> QED BY <2>2, <2>3, <2>4, Zenon
  <1> HIDE DEF body
  <1>9. full = Cat(Le(len, w), x1)
    BY <1>8, Zenon DEF EncodeSymbol, Cat, body, w
  <1>10. len \in Nat /\ len = Len(x1) + 4
    <2> HIDE DEF x1
    <2> QED BY <1>7, <1>8 DEF Buffers
  <1>11. len \in Cell
    BY <1>10, CellType, Zenon
  <1> HIDE DEF len, full, n
  <1>12. Behind(full, 0, Cat(Le(len, w), x1))
    <2> HIDE DEF x1
    <2>1. full \in Buffers
      BY <1>1, <1>7, <1>9, <1>11, LeFirst DEF Cat
    <2>2. Len(full) = 0 + Len(full) /\ Drop(full, 0) = full
      BY <2>1, EmptyBuffer DEF Buffers
    <2> QED BY <1>9, <2>1, <2>2 DEF Behind
  <1>13. Behind(full, 0 + w, x1) /\ full[0 + 1] = len
    <2> HIDE DEF x1
    <2> QED BY <1>1, <1>7, <1>11, <1>12, NumberBehind
  <1>14. Behind(full, w, x1) /\ full[1] = len
    BY <1>1, <1>13
  <1>15. Behind(full, w + w, x2) /\ full[w + 1] = s.indexGroup
    <2>1. Behind(full, w, Cat(Le(s.indexGroup, w), x2))
      BY <1>14
    <2> HIDE DEF x2
    <2> QED BY <1>1, <1>3, <1>4, <1>5, <1>7, <2>1, NumberBehind
  <1>16. Behind(full, w + w + w, x3) /\ full[w + w + 1] = s.indexOffset
    <2>1. Behind(full, w + w, Cat(Le(s.indexOffset, w), x3))
      BY <1>15
    <2> HIDE DEF x3
    <2> QED BY <1>1, <1>3, <1>4, <1>5, <1>7, <2>1, NumberBehind
  <1>17. Behind(full, w + w + w + w, x4) /\ full[w + w + w + 1] = s.size
    <2>1. Behind(full, w + w + w, Cat(Le(s.size, w), x4))
      BY <1>16
    <2> HIDE DEF x4
    <2> QED BY <1>1, <1>3, <1>4, <1>5, <1>7, <2>1, NumberBehind
  <1>18. Behind(full, w + w + w + w + w, x5) /\ full[w + w + w + w + 1] = s.dataType
    <2>1. Behind(full, w + w + w + w, Cat(Le(s.dataType, w), x5))
      BY <1>17
    <2> HIDE DEF x5
    <2> QED BY <1>1, <1>3, <1>4, <1>5, <1>7, <2>1, NumberBehind
  <1>19. Behind(full, w + w + w + w + w + v, x6) /\ full[w + w + w + w + w + 1] = s.flags
    <2>1. Behind(full, w + w + w + w + w, Cat(Le(s.flags, v), x6))
      BY <1>18
    <2> HIDE DEF x6
    <2> QED BY <1>1, <1>3, <1>4, <1>5, <1>7, <2>1, NumberBehind
  <1>20. Behind(full, w + w + w + w + w + v + v, x7) /\ full[w + w + w + w + w + v + 1] = Len(s.arrayInfo)
    <2>1. Behind(full, w + w + w + w + w + v, Cat(Le(Len(s.arrayInfo), v), x7))
      BY <1>19
    <2> HIDE DEF x7
    <2> QED BY <1>1, <1>3, <1>4, <1>5, <1>7, <2>1, NumberBehind
  <1>21. Behind(full, w + w + w + w + w + v + v + v, x8) /\ full[w + w + w + w + w + v + v + 1] = Len(s.name)
    <2>1. Behind(full, w + w + w + w + w + v + v, Cat(Le(Len(s.name), v), x8))
      BY <1>20
    <2> HIDE DEF x8
    <2> QED BY <1>1, <1>3, <1>4, <1>5, <1>7, <2>1, NumberBehind
  <1>22. Behind(full, w + w + w + w + w + v + v + v + v, x9) /\ full[w + w + w + w + w + v + v + v + 1] = Len(s.type)
    <2>1. Behind(full, w + w + w + w + w + v + v + v, Cat(Le(Len(s.type), v), x9))
      BY <1>21
    <2> HIDE DEF x9
    <2> QED BY <1>1, <1>3, <1>4, <1>5, <1>7, <2>1, NumberBehind
  <1>23. Behind(full, w + w + w + w + w + v + v + v + v + v, x10) /\ full[w + w + w + w + w + v + v + v + v + 1] = Len(s.comment)
    <2>1. Behind(full, w + w + w + w + w + v + v + v + v, Cat(Le(Len(s.comment), v), x10))
      BY <1>22
    <2> QED BY <1>1, <1>3, <1>4, <1>5, <1>7, <2>1, NumberBehind
  <1>24. /\ full[5] = s.indexGroup /\ full[9] = s.indexOffset /\ full[13] = s.size
         /\ full[17] = s.dataType /\ full[21] = s.flags /\ full[23] = Len(s.arrayInfo)
         /\ full[25] = Len(s.name) /\ full[27] = Len(s.type) /\ full[29] = Len(s.comment)
    <2>1. full[5] = s.indexGroup /\ full[9] = s.indexOffset /\ full[13] = s.size
      BY <1>p, <1>15, <1>16, <1>17
    <2>2. full[17] = s.dataType /\ full[21] = s.flags /\ full[23] = Len(s.arrayInfo)
      BY <1>p, <1>18, <1>19, <1>20
    <2>3. full[25] = Len(s.name) /\ full[27] = Len(s.type) /\ full[29] = Len(s.comment)
      BY <1>p, <1>21, <1>22, <1>23
    <2> QED BY <2>1, <2>2, <2>3, Zenon
  <1>25. Behind(full, 30, z)
    BY <1>p, <1>23
  <1>26. full[1] = Len(full)
    <2>1. Len(full) = w + Len(x1)
      BY <1>14 DEF Behind
    <2> QED BY <1>w, <1>10, <1>14, <2>1
  <1> HIDE DEF x1
  <1> QED BY <1>24, <1>25, <1>26 DEF Behind, full, z

-----------------------------------------------------------------------------
(* Texts, and answers that were cut.                                       *)

LEMMA TextDecoded ==
  ASSUME NEW t \in Texts
  PROVE  DecodePlcStringBuffer(Text(t)) = t /\ DecodePlcStringBuffer(t) = t
  <1>1. /\ t \in Seq(Nat) /\ Len(t) \in Nat /\ DOMAIN t = 1 .. Len(t)
        /\ \A k \in 1 .. Len(t) : t[k] # 0
    BY DEF Texts
  <1>2. {k \in DOMAIN t : t[k] = 0} = {}
    BY <1>1
  <1> DEFINE x == Append(t, 0)
             n == Len(t) + 1
  <1>3. /\ DOMAIN x = 1 .. n /\ x[n] = 0 /\ \A k \in 1 .. Len(t) : x[k] = t[k]
    BY <1>1
  <1>5. SubSeq(x, 1, Len(t)) = t
    BY <1>1
  <1> HIDE DEF x
  <1>4. {k \in DOMAIN x : x[k] = 0} = {n}
    <2>1. ASSUME NEW k \in 1 .. n, x[k] = 0 PROVE k = n
      BY <1>1, <1>3, <2>1
    <2>2. n \in 1 .. n
      BY <1>1
    <2> QED BY <1>3, <2>1, <2>2, Zenon
  <1>6. Min({n}) = n
    <2>1. n \in Int
      BY <1>1
    <2> HIDE DEF n
    <2>2. \E e \in {n} : \A y \in {n} : e <= y
      BY <2>1
    <2> QED BY <2>2 DEF Min
  <1>7. DecodePlcStringBuffer(x) = SubSeq(x, 1, n - 1)
    BY <1>4, <1>6, Zenon DEF DecodePlcStringBuffer
  <1>8. n - 1 = Len(t)
    BY <1>1
  <1>9. DecodePlcStringBuffer(t) = t
    BY <1>2, Zenon DEF DecodePlcStringBuffer
  <1> QED BY <1>5, <1>7, <1>8, <1>9 DEF x, Text

\* The first m cells of a buffer, if there are as many.
Cut(x, m) == SubSeq(x, 1, m)

LEMMA CutType ==
  ASSUME NEW x \in Buffers, NEW m \in Int, m <= Len(x)
  PROVE  /\ Cut(x, m) \in Buffers
         /\ Len(Cut(x, m)) = IF m > 0 THEN m ELSE 0
         /\ \A k \in 1 .. m : Cut(x, m)[k] = x[k]
  BY DEF Buffers, Cut

LEMMA CutWhole ==
  ASSUME NEW x \in Buffers
  PROVE  Cut(x, Len(x)) = x
  BY DEF Buffers, Cut

LEMMA CutDrop ==
  ASSUME NEW x \in Buffers, NEW m \in Int, m <= Len(x), NEW n \in Nat, n <= Len(x)
  PROVE  Drop(Cut(x, m), n) = Cut(Drop(x, n), m - n)
  <1>1. CASE m < n
    BY <1>1 DEF Buffers, Cut, Drop
  <1>2. CASE m >= n
    BY <1>2 DEF Buffers, Cut, Drop
  <1> QED BY <1>1, <1>2

\* Behind a, in the first m cells of a and c.
LEMMA CutBehind ==
  ASSUME NEW a \in Buffers, NEW c \in Buffers, NEW m \in Int, m <= Len(a) + Len(c)
  PROVE  /\ Drop(Cut(Cat(a, c), m), Len(a)) = Cut(c, m - Len(a))
         /\ m >= Len(a) => Cut(Cut(Cat(a, c), m), Len(a)) = a
  <1> DEFINE x == Cat(a, c)
  <1>1. x \in Buffers /\ Len(x) = Len(a) + Len(c) /\ Drop(x, Len(a)) = c /\ Cut(x, Len(a)) = a
    BY CatLaws, DropConcat DEF Cat, Cut
  <1>2. Len(a) \in Nat /\ Len(c) \in Nat
    BY DEF Buffers
  <1> HIDE DEF x
  <1>3. Drop(Cut(x, m), Len(a)) = Cut(c, m - Len(a))
    <2> DEFINE n == Len(a)
    <2>1. n \in Nat /\ n <= Len(x) /\ m <= Len(x) /\ Drop(x, n) = c
      BY <1>1, <1>2
    <2> HIDE DEF n
    <2>2. Drop(Cut(x, m), n) = Cut(Drop(x, n), m - n)
      BY <1>1, <2>1, CutDrop
    <2> QED BY <2>1, <2>2 DEF n
  <1>4. m >= Len(a) => Cut(Cut(x, m), Len(a)) = Cut(x, Len(a))
    BY <1>1, <1>2 DEF Cut, Buffers
  <1> QED BY <1>1, <1>3, <1>4 DEF x

\* A field of n cells behind the first m of them.
LEMMA FieldBehind ==
  ASSUME NEW x \in Buffers, NEW m \in Nat, NEW n \in Nat, m + n <= Len(x)
  PROVE  SubSeq(x, m + 1, m + n) = Cut(Drop(x, m), n)
  BY DEF Buffers, Cut, Drop

-----------------------------------------------------------------------------
(* The fields that the parser of a symbol has at hand.                      *)

\* The header of s, and what was found behind it.
Fields(s, na, ty, co, ai, tg, at) ==
  [indexGroup |-> s.indexGroup, indexOffset |-> s.indexOffset, size |-> s.size,
   dataType |-> s.dataType, flags |-> s.flags, arrayDimension |-> Len(s.arrayInfo),
   nameLength |-> Len(s.name), typeLength |-> Len(s.type), commentLength |-> Len(s.comment),
   name |-> na, type |-> ty, comment |-> co, arrayInfo |-> ai, typeGuid |-> tg,
   attributes |-> at]

LEMMA FieldsRead ==
  ASSUME NEW s, NEW na, NEW ty, NEW co, NEW ai, NEW tg, NEW at
  PROVE  LET f == Fields(s, na, ty, co, ai, tg, at)
         IN /\ f.indexGroup = s.indexGroup /\ f.indexOffset = s.indexOffset /\ f.size = s.size
            /\ f.dataType = s.dataType /\ f.flags = s.flags
            /\ f.arrayDimension = Len(s.arrayInfo)
            /\ f.nameLength = Len(s.name) /\ f.typeLength = Len(s.type)
            /\ f.commentLength = Len(s.comment)
            /\ f.name = na /\ f.type = ty /\ f.comment = co
            /\ f.arrayInfo = ai /\ f.typeGuid = tg /\ f.attributes = at
  BY DEF Fields

LEMMA HeaderFields ==
  ASSUME NEW s, NEW x,
         x[5] = s.indexGroup /\ x[9] = s.indexOffset /\ x[13] = s.size
           /\ x[17] = s.dataType /\ x[21] = s.flags /\ x[23] = Len(s.arrayInfo)
           /\ x[25] = Len(s.name) /\ x[27] = Len(s.type) /\ x[29] = Len(s.comment)
  PROVE  Header(x) = Fields(s, <<>>, <<>>, <<>>, <<>>, <<>>, <<>>)
  BY Zenon DEF Header, Fields

LEMMA RestReplaced ==
  ASSUME NEW x, NEW y, NEW z
  PROVE  [At(x, y) EXCEPT !.rest = z] = At(z, y)
  <1>1. ASSUME NEW b PROVE [[rest |-> x, ok |-> b, t |-> y] EXCEPT !.rest = z]
                             = [rest |-> z, ok |-> b, t |-> y]
    OBVIOUS
  <1> QED BY <1>1, Zenon DEF At

LEMMA Fields_name ==
  ASSUME NEW s, NEW na, NEW ty, NEW co, NEW ai, NEW tg, NEW at, NEW x, NEW na2
  PROVE  [At(x, Fields(s, na, ty, co, ai, tg, at)) EXCEPT !.t.name = na2]
         = At(x, Fields(s, na2, ty, co, ai, tg, at))
  <1>1. [Fields(s, na, ty, co, ai, tg, at) EXCEPT !.name = na2] = Fields(s, na2, ty, co, ai, tg, at)
    BY SMTT(20) DEF Fields
  <1>2. ASSUME NEW b, NEW y PROVE [[rest |-> x, ok |-> b, t |-> y] EXCEPT !.t.name = na2]
                 = [rest |-> x, ok |-> b, t |-> [y EXCEPT !.name = na2]]
    OBVIOUS
  <1> QED BY <1>1, <1>2, Zenon DEF At

LEMMA Fields_type ==
  ASSUME NEW s, NEW na, NEW ty, NEW co, NEW ai, NEW tg, NEW at, NEW x, NEW ty2
  PROVE  [At(x, Fields(s, na, ty, co, ai, tg, at)) EXCEPT !.t.type = ty2]
         = At(x, Fields(s, na, ty2, co, ai, tg, at))
  <1>1. [Fields(s, na, ty, co, ai, tg, at) EXCEPT !.type = ty2] = Fields(s, na, ty2, co, ai, tg, at)
    BY SMTT(20) DEF Fields
  <1>2. ASSUME NEW b, NEW y PROVE [[rest |-> x, ok |-> b, t |-> y] EXCEPT !.t.type = ty2]
                 = [rest |-> x, ok |-> b, t |-> [y EXCEPT !.type = ty2]]
    OBVIOUS
  <1> QED BY <1>1, <1>2, Zenon DEF At

LEMMA Fields_comment ==
  ASSUME NEW s, NEW na, NEW ty, NEW co, NEW ai, NEW tg, NEW at, NEW x, NEW co2
  PROVE  [At(x, Fields(s, na, ty, co, ai, tg, at)) EXCEPT !.t.comment = co2]
         = At(x, Fields(s, na, ty, co2, ai, tg, at))
  <1>1. [Fields(s, na, ty, co, ai, tg, at) EXCEPT !.comment = co2] = Fields(s, na, ty, co2, ai, tg, at)
    BY SMTT(20) DEF Fields
  <1>2. ASSUME NEW b, NEW y PROVE [[rest |-> x, ok |-> b, t |-> y] EXCEPT !.t.comment = co2]
                 = [rest |-> x, ok |-> b, t |-> [y EXCEPT !.comment = co2]]
    OBVIOUS
  <1> QED BY <1>1, <1>2, Zenon DEF At

LEMMA Fields_arrayInfo ==
  ASSUME NEW s, NEW na, NEW ty, NEW co, NEW ai, NEW tg, NEW at, NEW x, NEW ai2
  PROVE  [At(x, Fields(s, na, ty, co, ai, tg, at)) EXCEPT !.t.arrayInfo = ai2]
         = At(x, Fields(s, na, ty, co, ai2, tg, at))
  <1>1. [Fields(s, na, ty, co, ai, tg, at) EXCEPT !.arrayInfo = ai2] = Fields(s, na, ty, co, ai2, tg, at)
    BY SMTT(20) DEF Fields
  <1>2. ASSUME NEW b, NEW y PROVE [[rest |-> x, ok |-> b, t |-> y] EXCEPT !.t.arrayInfo = ai2]
                 = [rest |-> x, ok |-> b, t |-> [y EXCEPT !.arrayInfo = ai2]]
    OBVIOUS
  <1> QED BY <1>1, <1>2, Zenon DEF At

LEMMA Fields_typeGuid ==
  ASSUME NEW s, NEW na, NEW ty, NEW co, NEW ai, NEW tg, NEW at, NEW x, NEW tg2
  PROVE  [At(x, Fields(s, na, ty, co, ai, tg, at)) EXCEPT !.t.typeGuid = tg2]
         = At(x, Fields(s, na, ty, co, ai, tg2, at))
  <1>1. [Fields(s, na, ty, co, ai, tg, at) EXCEPT !.typeGuid = tg2] = Fields(s, na, ty, co, ai, tg2, at)
    BY SMTT(20) DEF Fields
  <1>2. ASSUME NEW b, NEW y PROVE [[rest |-> x, ok |-> b, t |-> y] EXCEPT !.t.typeGuid = tg2]
                 = [rest |-> x, ok |-> b, t |-> [y EXCEPT !.typeGuid = tg2]]
    OBVIOUS
  <1> QED BY <1>1, <1>2, Zenon DEF At

LEMMA Fields_attributes ==
  ASSUME NEW s, NEW na, NEW ty, NEW co, NEW ai, NEW tg, NEW at, NEW x, NEW at2
  PROVE  [At(x, Fields(s, na, ty, co, ai, tg, at)) EXCEPT !.t.attributes = at2]
         = At(x, Fields(s, na, ty, co, ai, tg, at2))
  <1>1. [Fields(s, na, ty, co, ai, tg, at) EXCEPT !.attributes = at2] = Fields(s, na, ty, co, ai, tg, at2)
    BY SMTT(20) DEF Fields
  <1>2. ASSUME NEW b, NEW y PROVE [[rest |-> x, ok |-> b, t |-> y] EXCEPT !.t.attributes = at2]
                 = [rest |-> x, ok |-> b, t |-> [y EXCEPT !.attributes = at2]]
    OBVIOUS
  <1> QED BY <1>1, <1>2, Zenon DEF At

WithTexts(r, na, ty, co, z) ==
  [r EXCEPT !.t.name = na, !.t.type = ty, !.t.comment = co, !.rest = z]
WithArray(r, ai, z) == [r EXCEPT !.t.arrayInfo = ai, !.rest = z]
WithGuid(r, tg, z) == [r EXCEPT !.t.typeGuid = tg, !.rest = z]
WithAttributes(r, at, z) == [r EXCEPT !.t.attributes = at, !.rest = z]

LEMMA TextsFound ==
  ASSUME NEW s, NEW na, NEW ty, NEW co, NEW ai, NEW tg, NEW at, NEW x, NEW z,
         NEW na2, NEW ty2, NEW co2
  PROVE  WithTexts(At(x, Fields(s, na, ty, co, ai, tg, at)), na2, ty2, co2, z)
         = At(z, Fields(s, na2, ty2, co2, ai, tg, at))
  <1>1. ASSUME NEW r
        PROVE  [r EXCEPT !.t.name = na2, !.t.type = ty2, !.t.comment = co2, !.rest = z]
               = [[[[r EXCEPT !.t.name = na2] EXCEPT !.t.type = ty2] EXCEPT !.t.comment = co2]
                    EXCEPT !.rest = z]
    OBVIOUS
  <1> DEFINE q == At(x, Fields(s, na, ty, co, ai, tg, at))
             u1 == At(x, Fields(s, na2, ty, co, ai, tg, at))
             u2 == At(x, Fields(s, na2, ty2, co, ai, tg, at))
             u3 == At(x, Fields(s, na2, ty2, co2, ai, tg, at))
  <1>2. [q EXCEPT !.t.name = na2] = u1
    BY Fields_name
  <1>3. [u1 EXCEPT !.t.type = ty2] = u2
    BY Fields_type
  <1>4. [u2 EXCEPT !.t.comment = co2] = u3
    BY Fields_comment
  <1>5. [u3 EXCEPT !.rest = z] = At(z, Fields(s, na2, ty2, co2, ai, tg, at))
    BY RestReplaced
  <1> HIDE DEF q, u1, u2, u3
  <1>6. [q EXCEPT !.t.name = na2, !.t.type = ty2, !.t.comment = co2, !.rest = z]
        = [[[[q EXCEPT !.t.name = na2] EXCEPT !.t.type = ty2] EXCEPT !.t.comment = co2]
             EXCEPT !.rest = z]
    BY <1>1
  <1>7. [q EXCEPT !.t.name = na2, !.t.type = ty2, !.t.comment = co2, !.rest = z]
        = [u3 EXCEPT !.rest = z]
    BY <1>2, <1>3, <1>4, <1>6, Zenon
  <1> QED BY <1>5, <1>7, Zenon DEF q, WithTexts

LEMMA ArrayFound ==
  ASSUME NEW s, NEW na, NEW ty, NEW co, NEW ai, NEW tg, NEW at, NEW x, NEW z, NEW ai2
  PROVE  WithArray(At(x, Fields(s, na, ty, co, ai, tg, at)), ai2, z)
         = At(z, Fields(s, na, ty, co, ai2, tg, at))
  <1>1. ASSUME NEW r
        PROVE  [r EXCEPT !.t.arrayInfo = ai2, !.rest = z]
               = [[r EXCEPT !.t.arrayInfo = ai2] EXCEPT !.rest = z]
    OBVIOUS
  <1> DEFINE q == At(x, Fields(s, na, ty, co, ai, tg, at))
             u == At(x, Fields(s, na, ty, co, ai2, tg, at))
  <1>2. [q EXCEPT !.t.arrayInfo = ai2] = u
    BY Fields_arrayInfo
  <1>3. [u EXCEPT !.rest = z] = At(z, Fields(s, na, ty, co, ai2, tg, at))
    BY RestReplaced
  <1> HIDE DEF q, u
  <1>4. [q EXCEPT !.t.arrayInfo = ai2, !.rest = z] = [[q EXCEPT !.t.arrayInfo = ai2] EXCEPT !.rest = z]
    BY <1>1
  <1>5. [q EXCEPT !.t.arrayInfo = ai2, !.rest = z] = [u EXCEPT !.rest = z]
    BY <1>2, <1>4, Zenon
  <1> QED BY <1>3, <1>5, Zenon DEF q, WithArray

LEMMA GuidFound ==
  ASSUME NEW s, NEW na, NEW ty, NEW co, NEW ai, NEW tg, NEW at, NEW x, NEW z, NEW tg2
  PROVE  WithGuid(At(x, Fields(s, na, ty, co, ai, tg, at)), tg2, z)
         = At(z, Fields(s, na, ty, co, ai, tg2, at))
  <1>1. ASSUME NEW r
        PROVE  [r EXCEPT !.t.typeGuid = tg2, !.rest = z]
               = [[r EXCEPT !.t.typeGuid = tg2] EXCEPT !.rest = z]
    OBVIOUS
  <1> DEFINE q == At(x, Fields(s, na, ty, co, ai, tg, at))
             u == At(x, Fields(s, na, ty, co, ai, tg2, at))
  <1>2. [q EXCEPT !.t.typeGuid = tg2] = u
    BY Fields_typeGuid
  <1>3. [u EXCEPT !.rest = z] = At(z, Fields(s, na, ty, co, ai, tg2, at))
    BY RestReplaced
  <1> HIDE DEF q, u
  <1>4. [q EXCEPT !.t.typeGuid = tg2, !.rest = z] = [[q EXCEPT !.t.typeGuid = tg2] EXCEPT !.rest = z]
    BY <1>1
  <1>5. [q EXCEPT !.t.typeGuid = tg2, !.rest = z] = [u EXCEPT !.rest = z]
    BY <1>2, <1>4, Zenon
  <1> QED BY <1>3, <1>5, Zenon DEF q, WithGuid

LEMMA AttributesFound ==
  ASSUME NEW s, NEW na, NEW ty, NEW co, NEW ai, NEW tg, NEW at, NEW x, NEW z, NEW at2
  PROVE  WithAttributes(At(x, Fields(s, na, ty, co, ai, tg, at)), at2, z)
         = At(z, Fields(s, na, ty, co, ai, tg, at2))
  <1>1. ASSUME NEW r
        PROVE  [r EXCEPT !.t.attributes = at2, !.rest = z]
               = [[r EXCEPT !.t.attributes = at2] EXCEPT !.rest = z]
    OBVIOUS
  <1> DEFINE q == At(x, Fields(s, na, ty, co, ai, tg, at))
             u == At(x, Fields(s, na, ty, co, ai, tg, at2))
  <1>2. [q EXCEPT !.t.attributes = at2] = u
    BY Fields_attributes
  <1>3. [u EXCEPT !.rest = z] = At(z, Fields(s, na, ty, co, ai, tg, at2))
    BY RestReplaced
  <1> HIDE DEF q, u
  <1>4. [q EXCEPT !.t.attributes = at2, !.rest = z] = [[q EXCEPT !.t.attributes = at2] EXCEPT !.rest = z]
    BY <1>1
  <1>5. [q EXCEPT !.t.attributes = at2, !.rest = z] = [u EXCEPT !.rest = z]
    BY <1>2, <1>4, Zenon
  <1> QED BY <1>3, <1>5, Zenon DEF q, WithAttributes

-----------------------------------------------------------------------------
(* ReadTexts.                                                              *)

LEMMA DropTwice ==
  ASSUME NEW x \in Buffers, NEW k \in Nat, NEW l \in Nat, k + l <= Len(x)
  PROVE  Drop(Drop(x, k), l) = Drop(x, k + l)
  BY DEF Buffers, Drop

\* Three buffers in front of e, of all of which the first m cells are there.
ThreeRead(a, b, c, e, m) ==
  LET x == Cut(Cat(Cat(Cat(a, b), c), e), m)
      k == Len(a)
      l == Len(b)
      n == Len(c)
  IN /\ SubSeq(x, 1, k) = a
     /\ SubSeq(x, k + 1, k + l) = b
     /\ SubSeq(x, k + l + 1, k + l + n) = c
     /\ Drop(x, k + l + n) = Cut(e, m - (k + l + n))
     /\ Len(x) = m

LEMMA ThreeInFront ==
  ASSUME NEW a \in Buffers, NEW b \in Buffers, NEW c \in Buffers, NEW e \in Buffers,
         NEW m \in Nat, m >= Len(a) + Len(b) + Len(c),
         m <= Len(a) + Len(b) + Len(c) + Len(e)
  PROVE  ThreeRead(a, b, c, e, m)
  <1> DEFINE k == Len(a)
             l == Len(b)
             n == Len(c)
             y2 == Cat(c, e)
             y1 == Cat(b, y2)
             y0 == Cat(a, y1)
             x == Cut(y0, m)
  <1>0. k \in Nat /\ l \in Nat /\ n \in Nat /\ Len(e) \in Nat
    BY DEF Buffers
  <1>1. y2 \in Buffers /\ y1 \in Buffers /\ y0 \in Buffers
    BY CatLaws
  <1>2. Cat(Cat(Cat(a, b), c), e) = y0
    <2>1. Cat(a, b) \in Buffers
      BY CatLaws
    <2>2. Cat(Cat(Cat(a, b), c), e) = Cat(Cat(a, b), y2)
      BY <2>1, CatAssociative
    <2>3. Cat(Cat(a, b), y2) = y0
      BY <1>1, CatAssociative
    <2> QED BY <2>2, <2>3, Zenon
  <1>3. Len(y2) = n + Len(e)
    BY CatLaws
  <1>4. Len(y1) = l + Len(y2)
    BY <1>1, CatLaws
  <1>5. Len(y0) = k + Len(y1)
    BY <1>1, CatLaws
  <1>7. m <= k + Len(y1) /\ m >= k /\ m <= Len(y0)
    BY <1>0, <1>3, <1>4, <1>5
  <1>8. m - k <= l + Len(y2) /\ m - k >= l /\ m - k \in Nat
    BY <1>0, <1>3, <1>4, <1>5
  <1>9. m - k - l <= n + Len(e) /\ m - k - l >= n /\ m - k - l \in Nat
    BY <1>0, <1>3, <1>4, <1>5
  <1> HIDE DEF y0, y1, y2
  <1>10. x \in Buffers /\ Len(x) = m
    BY <1>1, <1>7, CutType
  <1>11. Drop(x, k) = Cut(y1, m - k) /\ Cut(x, k) = a
    BY <1>1, <1>7, CutBehind DEF y0
  <1>12. Drop(Cut(y1, m - k), l) = Cut(y2, m - k - l) /\ Cut(Cut(y1, m - k), l) = b
    BY <1>1, <1>8, CutBehind DEF y1
  <1>13. Drop(Cut(y2, m - k - l), n) = Cut(e, m - k - l - n) /\ Cut(Cut(y2, m - k - l), n) = c
    BY <1>9, CutBehind DEF y2
  <1> HIDE DEF x, k, l, n
  <1>14. k + l <= Len(x) /\ (k + l) + n <= Len(x) /\ k + l \in Nat
    BY <1>0, <1>8, <1>9, <1>10
  <1>15. Drop(x, k + l) = Cut(y2, m - k - l)
    <2>1. Drop(Drop(x, k), l) = Drop(x, k + l)
      BY <1>0, <1>10, <1>14, DropTwice
    <2> QED BY <1>11, <1>12, <2>1
  <1>16. Drop(x, (k + l) + n) = Cut(e, m - k - l - n)
    <2> DEFINE j == k + l
    <2>1. j \in Nat /\ j + n <= Len(x)
      BY <1>14
    <2> HIDE DEF j
    <2>2. Drop(Drop(x, j), n) = Drop(x, j + n)
      BY <1>0, <1>10, <2>1, DropTwice
    <2> QED BY <1>13, <1>15, <2>2 DEF j
  <1>17. SubSeq(x, k + 1, k + l) = b
    <2>1. SubSeq(x, k + 1, k + l) = Cut(Drop(x, k), l)
      BY <1>0, <1>10, <1>14, FieldBehind
    <2> QED BY <1>11, <1>12, <2>1
  <1>18. SubSeq(x, (k + l) + 1, (k + l) + n) = c
    <2> DEFINE j == k + l
    <2>1. j \in Nat /\ j + n <= Len(x)
      BY <1>14
    <2> HIDE DEF j
    <2>2. SubSeq(x, j + 1, j + n) = Cut(Drop(x, j), n)
      BY <1>0, <1>10, <2>1, FieldBehind
    <2> QED BY <1>13, <1>15, <2>2 DEF j
  <1>19. SubSeq(x, 1, k) = a
    BY <1>11 DEF Cut
  <1>20. m - k - l - n = m - (k + l + n)
    BY <1>0
  <1>21. Drop(x, k + l + n) = Cut(e, m - (k + l + n))
    BY <1>16, <1>20
  <1> QED BY <1>2, <1>10, <1>17, <1>18, <1>19, <1>21, Zenon DEF ThreeRead, k, l, n, x

TextsLength(s) == (Len(s.name) + 1) + (Len(s.type) + 1) + (Len(s.comment) + 1)

LEMMA TextsRead ==
  ASSUME NEW s \in Symbols, NEW m \in Nat, m <= TextsLength(s) + Len(SymbolExtras(s))
  PROVE  LET z == Cat(SymbolTexts(s), SymbolExtras(s))
             r == ReadTexts(At(Cut(z, m), Fields(s, <<>>, <<>>, <<>>, <<>>, <<>>, <<>>)))
         IN /\ Len(SymbolTexts(s)) = TextsLength(s)
            /\ m < TextsLength(s) => ~r.ok
            /\ m >= TextsLength(s) =>
                 r = At(Cut(SymbolExtras(s), m - TextsLength(s)),
                        Fields(s, s.name, s.type, s.comment, <<>>, <<>>, <<>>))
  <1> DEFINE n == Len(s.name) + 1
             t == Len(s.type) + 1
             c == Len(s.comment) + 1
             e == SymbolExtras(s)
             z == Cat(SymbolTexts(s), e)
             x == Cut(z, m)
             F == Fields(s, <<>>, <<>>, <<>>, <<>>, <<>>, <<>>)
             q == At(x, F)
             total == TextsLength(s)
  <1>1. s.name \in Texts /\ s.type \in Texts /\ s.comment \in Texts
    BY SymbolType
  <1>2. /\ Text(s.name) \in Buffers /\ Text(s.type) \in Buffers /\ Text(s.comment) \in Buffers
        /\ Len(Text(s.name)) = n /\ Len(Text(s.type)) = t /\ Len(Text(s.comment)) = c
    BY <1>1, TextType
  <1>3. n \in Nat /\ t \in Nat /\ c \in Nat /\ total = n + t + c
    BY <1>1, TextType DEF TextsLength
  <1>4. e \in Buffers /\ SymbolTexts(s) = Cat(Cat(Text(s.name), Text(s.type)), Text(s.comment))
        /\ SymbolTexts(s) \in Buffers
    BY PartsType
  <1>5. Len(SymbolTexts(s)) = total
    <2>1. Cat(Text(s.name), Text(s.type)) \in Buffers /\ Len(Cat(Text(s.name), Text(s.type))) = n + t
      BY <1>2, CatLaws
    <2>2. Len(Cat(Cat(Text(s.name), Text(s.type)), Text(s.comment))) = (n + t) + c
      BY <1>2, <2>1, CatLaws
    <2> QED BY <1>3, <1>4, <2>2
  <1>6. z \in Buffers /\ Len(z) = total + Len(e)
    BY <1>4, <1>5, CatLaws
  <1> HIDE DEF total
  <1>7. Len(x) = m
    <2> HIDE DEF z, e
    <2>1. m <= Len(z)
      BY <1>6 DEF e, total
    <2> QED BY <1>6, <2>1, CutType
  <1>8. q.ok /\ q.rest = x /\ q.t = F
    <2> HIDE DEF x, F
    <2> QED BY DEF At
  <1>9. F.nameLength = Len(s.name) /\ F.typeLength = Len(s.type) /\ F.commentLength = Len(s.comment)
    BY FieldsRead
  <1> HIDE DEF F, x, z, q
  <1>10. Has(q, n + t + c) <=> m >= total
    BY <1>3, <1>7, <1>8 DEF Has
  <1>11. ReadTexts(q) =
           IF ~Has(q, n + t + c) THEN Failed(q)
           ELSE [q EXCEPT !.t.name = DecodePlcStringBuffer(SubSeq(x, 1, n)),
                          !.t.type = DecodePlcStringBuffer(SubSeq(x, n + 1, n + t)),
                          !.t.comment = DecodePlcStringBuffer(SubSeq(x, n + t + 1, n + t + c)),
                          !.rest = Drop(x, n + t + c)]
    BY <1>8, <1>9, Zenon DEF ReadTexts
  <1>12. m < total => ~ReadTexts(q).ok
    <2> SUFFICES ASSUME m < total PROVE ~ReadTexts(q).ok
      OBVIOUS
    <2>0. ~Has(q, n + t + c)
      <3> HIDE DEF n, t, c
      <3> QED BY <1>3, <1>10
    <2>1. ReadTexts(q) = Failed(q)
      BY <1>11, <2>0, Zenon
    <2>2. ~Failed(q).ok
      BY FailedIsLost DEF q, Lost
    <2> QED BY <2>1, <2>2, Zenon
  <1>13. ASSUME m >= total
         PROVE  ReadTexts(q) = At(Cut(e, m - total),
                                  Fields(s, s.name, s.type, s.comment, <<>>, <<>>, <<>>))
    <2>1. /\ SubSeq(x, 1, n) = Text(s.name)
          /\ SubSeq(x, n + 1, n + t) = Text(s.type)
          /\ SubSeq(x, n + t + 1, n + t + c) = Text(s.comment)
          /\ Drop(x, n + t + c) = Cut(e, m - total)
      <3> DEFINE a1 == Text(s.name)
                 a2 == Text(s.type)
                 a3 == Text(s.comment)
      <3>1. x = Cut(Cat(Cat(Cat(a1, a2), a3), e), m)
        BY <1>4, Zenon DEF x, z
      <3>2. /\ a1 \in Buffers /\ a2 \in Buffers /\ a3 \in Buffers /\ e \in Buffers
            /\ Len(a1) = n /\ Len(a2) = t /\ Len(a3) = c
        BY <1>2, <1>4
      <3> HIDE DEF a1, a2, a3, e, n, t, c
      <3>3. m >= Len(a1) + Len(a2) + Len(a3) /\ m <= Len(a1) + Len(a2) + Len(a3) + Len(e)
        BY <1>3, <1>13, <3>2 DEF e, total
      <3>4. ThreeRead(a1, a2, a3, e, m)
        BY <3>2, <3>3, ThreeInFront
      <3>5. /\ SubSeq(x, 1, Len(a1)) = a1
            /\ SubSeq(x, Len(a1) + 1, Len(a1) + Len(a2)) = a2
            /\ SubSeq(x, Len(a1) + Len(a2) + 1, Len(a1) + Len(a2) + Len(a3)) = a3
            /\ Drop(x, Len(a1) + Len(a2) + Len(a3)) = Cut(e, m - (Len(a1) + Len(a2) + Len(a3)))
        BY <3>1, <3>4, Zenon DEF ThreeRead
      <3> QED BY <1>3, <3>2, <3>5 DEF a1, a2, a3
    <2>2. /\ DecodePlcStringBuffer(Text(s.name)) = s.name
          /\ DecodePlcStringBuffer(Text(s.type)) = s.type
          /\ DecodePlcStringBuffer(Text(s.comment)) = s.comment
      BY <1>1, TextDecoded
    <2>3. ReadTexts(q) = WithTexts(q, s.name, s.type, s.comment, Cut(e, m - total))
      BY <1>10, <1>11, <1>13, <2>1, <2>2, Zenon DEF WithTexts
    <2>4. WithTexts(q, s.name, s.type, s.comment, Cut(e, m - total))
          = At(Cut(e, m - total), Fields(s, s.name, s.type, s.comment, <<>>, <<>>, <<>>))
      BY TextsFound DEF q, F
    <2> QED BY <2>3, <2>4, Zenon
  <1> QED BY <1>5, <1>12, <1>13 DEF q, F, x, z, total

-----------------------------------------------------------------------------
(* ReadDimensions, ReadTypeGuid.                                           *)

LEMMA MinOfTwo ==
  ASSUME NEW a \in Int, NEW b \in Int
  PROVE  Min({a, b}) = IF a <= b THEN a ELSE b
  <1>1. CASE a <= b
    <2>1. a \in {a, b} /\ \A y \in {a, b} : a <= y
      BY <1>1
    <2>2. \A e \in {a, b} : (\A y \in {a, b} : e <= y) => e = a
      BY <1>1
    <2> QED BY <1>1, <2>1, <2>2 DEF Min
  <1>2. CASE ~(a <= b)
    <2>1. b \in {a, b} /\ \A y \in {a, b} : b <= y
      BY <1>2
    <2>2. \A e \in {a, b} : (\A y \in {a, b} : e <= y) => e = b
      BY <1>2
    <2> QED BY <1>2, <2>1, <2>2 DEF Min
  <1> QED BY <1>1, <1>2

\* As much as there is of the dimensions is read; all of them, if they are there.
LEMMA DimensionsRead ==
  ASSUME NEW s \in Symbols, NEW y \in Buffers, NEW m \in Nat,
         m <= Len(DimensionBytes(s.arrayInfo)) + Len(y), NEW na, NEW ty, NEW co
  PROVE  \E ai :
           /\ ReadDimensions(At(Cut(Cat(DimensionBytes(s.arrayInfo), y), m),
                                Fields(s, na, ty, co, <<>>, <<>>, <<>>)))
              = At(Cut(y, m - Len(DimensionBytes(s.arrayInfo))),
                   Fields(s, na, ty, co, ai, <<>>, <<>>))
           /\ m >= Len(DimensionBytes(s.arrayInfo)) => ai = s.arrayInfo
  <1> DEFINE ds == s.arrayInfo
             k == Len(ds)
             d == DimensionBytes(ds)
             x == Cut(Cat(d, y), m)
             F == Fields(s, na, ty, co, <<>>, <<>>, <<>>)
             q == At(x, F)
             n == Min({k, Len(x) \div 8})
             ai == [j \in 1 .. n |-> [start |-> x[8 * j - 7], length |-> x[8 * j - 3]]]
  <1>1. ds \in Seq(Dimensions)
    BY SymbolType
  <1>2. d \in Buffers
    BY PartsType
  <1>3. /\ k \in Nat /\ \A j \in 1 .. k : ds[j] \in Dimensions
        /\ ds = [j \in 1 .. k |-> ds[j]]
    BY <1>1
  <1>4. Len(d) = 8 * k
    BY <1>1, DimensionsEncoded
  <1>5. \A j \in 0 .. k - 1 : d[8 * j + 1] = ds[j + 1].start /\ d[8 * j + 5] = ds[j + 1].length
    BY <1>1, DimensionsEncoded
  <1> HIDE DEF ds, d
  <1>6. Cat(d, y) \in Buffers /\ Len(Cat(d, y)) = Len(d) + Len(y)
    BY <1>2, CatLaws
  <1>7. m <= Len(Cat(d, y))
    BY <1>6 DEF d, ds
  <1>8. x \in Buffers /\ Len(x) = m
    BY <1>6, <1>7, CutType
  <1>9. Drop(x, Len(d)) = Cut(y, m - Len(d))
    BY <1>2, <1>6, <1>7, CutBehind
  <1>10. q.rest = x /\ q.t = F /\ F.arrayDimension = k
    <2>1. F.arrayDimension = k
      BY FieldsRead DEF ds
    <2> HIDE DEF F, x
    <2> QED BY <2>1 DEF At
  <1> HIDE DEF x, F, q, k
  <1>11. ReadDimensions(q) = WithArray(q, ai, Drop(x, 8 * k))
    BY <1>10, Zenon DEF ReadDimensions, WithArray
  <1> HIDE DEF ai
  <1>12. WithArray(q, ai, Drop(x, 8 * k)) = At(Drop(x, 8 * k), Fields(s, na, ty, co, ai, <<>>, <<>>))
    BY ArrayFound DEF q, F
  <1>13. ReadDimensions(q) = At(Cut(y, m - Len(d)), Fields(s, na, ty, co, ai, <<>>, <<>>))
    BY <1>4, <1>9, <1>11, <1>12
  <1>14. ASSUME m >= Len(d) PROVE ai = ds
    <2>1. m \div 8 \in Int /\ k <= m \div 8
      BY <1>3, <1>4, <1>14
    <2>2. n = k
      <3> DEFINE h == m \div 8
      <3> HIDE DEF h
      <3>1. h \in Int /\ k <= h
        BY <2>1 DEF h
      <3>2. Min({k, h}) = k
        BY <1>3, <3>1, MinOfTwo
      <3> QED BY <1>8, <3>2 DEF h
    <2>3. ASSUME NEW j \in 1 .. k
          PROVE  [start |-> x[8 * j - 7], length |-> x[8 * j - 3]] = ds[j]
      <3> DEFINE i == j - 1
      <3>1. i \in 0 .. k - 1 /\ 8 * j - 7 = 8 * i + 1 /\ 8 * j - 3 = 8 * i + 5 /\ i + 1 = j
        BY <1>3
      <3>2. 8 * j - 7 \in 1 .. Len(d) /\ 8 * j - 3 \in 1 .. Len(d)
        BY <1>3, <1>4
      <3>3. 8 * j - 7 \in 1 .. m /\ 8 * j - 3 \in 1 .. m
        BY <1>14, <1>3, <1>4
      <3> HIDE DEF i
      <3>4. d[8 * j - 7] = ds[j].start /\ d[8 * j - 3] = ds[j].length
        BY <1>5, <3>1
      <3>5. \A l \in 1 .. Len(d) : Cat(d, y)[l] = d[l]
        BY <1>2, BufferConcat DEF Cat
      <3>6. \A l \in 1 .. m : x[l] = Cat(d, y)[l]
        BY <1>6, <1>7, CutType DEF x
      <3>7. x[8 * j - 7] = ds[j].start /\ x[8 * j - 3] = ds[j].length
        BY <3>2, <3>3, <3>4, <3>5, <3>6
      <3>8. ds[j] \in Dimensions
        BY <1>3
      <3>9. ds[j] = [start |-> ds[j].start, length |-> ds[j].length]
        BY <3>8, DimensionType
      <3> QED BY <3>7, <3>9, Zenon
    <2>4. ai = [j \in 1 .. k |-> [start |-> x[8 * j - 7], length |-> x[8 * j - 3]]]
      BY <2>2, Zenon DEF ai
    <2> QED BY <1>3, <2>3, <2>4, Zenon
  <1> QED BY <1>13, <1>14, Zenon DEF q, F, x, d, ds

\* What ReadTypeGuid makes of the first m cells of the GUID and y.
GuidTaken(s, y, m, na, ty, co, ai) ==
  \E l, tg :
    /\ l \in Int /\ l <= Len(y)
    /\ ReadTypeGuid(At(Cut(Cat(GuidBytes(s), y), m), Fields(s, na, ty, co, ai, <<>>, <<>>)))
       = At(Cut(y, l), Fields(s, na, ty, co, ai, tg, <<>>))
    /\ m = Len(GuidBytes(s)) + Len(y) => l = Len(y) /\ tg = GuidBytes(s)

\* The type GUID, where it is there and a symbol has one.
LEMMA GuidRead ==
  ASSUME NEW s \in Symbols, NEW y \in Buffers, NEW m \in Int,
         m <= Len(GuidBytes(s)) + Len(y), NEW na, NEW ty, NEW co, NEW ai
  PROVE  GuidTaken(s, y, m, na, ty, co, ai)
  <1> DEFINE g == GuidBytes(s)
             x == Cut(Cat(g, y), m)
             F == Fields(s, na, ty, co, ai, <<>>, <<>>)
             q == At(x, F)
  <1>1. g \in Buffers /\ Len(g) \in Nat /\ Len(y) \in Nat
    BY PartsType DEF Buffers
  <1>2. Cat(g, y) \in Buffers /\ Len(Cat(g, y)) = Len(g) + Len(y)
    BY <1>1, CatLaws
  <1>3. q.rest = x /\ q.t = F /\ F.flags = s.flags
    <2>1. F.flags = s.flags
      BY FieldsRead
    <2> HIDE DEF F, x
    <2> QED BY <2>1 DEF At
  <1>4. m <= Len(Cat(g, y))
    BY <1>2
  <1> HIDE DEF x, F, q
  <1>5. CASE "TypeGuid" \notin s.flags
    <2>1. g = <<>>
      BY <1>5, Zenon DEF GuidBytes
    <2>2. Cat(g, y) = y
      BY <2>1, EmptyBuffer
    <2>3. ReadTypeGuid(q) = q
      BY <1>3, <1>5, Zenon DEF ReadTypeGuid
    <2>4. x = Cut(y, m)
      BY <2>2 DEF x
    <2>5. ReadTypeGuid(q) = At(Cut(y, m), Fields(s, na, ty, co, ai, g, <<>>))
      BY <2>1, <2>3, <2>4, Zenon DEF q, F
    <2>6. m <= Len(y) /\ (m = Len(g) + Len(y) => m = Len(y))
      BY <1>1, <2>1
    <2> HIDE DEF g
    <2> QED BY <2>5, <2>6, Zenon DEF GuidTaken, q, F, x, g
  <1>6. CASE "TypeGuid" \in s.flags
    <2>1. Len(g) = 16
      <3>1. g = s.typeGuid
        BY <1>6, Zenon DEF GuidBytes
      <3> QED BY <3>1, SymbolType
    <2> HIDE DEF g
    <2>2. CASE x = <<>>
      <3>1. ReadTypeGuid(q) = q
        BY <1>3, <2>2, Zenon DEF ReadTypeGuid
      <3>2. Cut(y, 0) = <<>>
        BY DEF Cut, Buffers
      <3>3. m # Len(g) + Len(y)
        <4>1. m > 0 => Len(x) = m
          BY <1>2, <1>4, CutType DEF x
        <4>2. Len(x) = 0
          BY <2>2
        <4> QED BY <1>1, <2>1, <4>1, <4>2
      <3>4. ReadTypeGuid(q) = At(Cut(y, 0), Fields(s, na, ty, co, ai, <<>>, <<>>))
        BY <2>2, <3>1, <3>2, Zenon DEF q, F
      <3>5. 0 \in Int /\ 0 <= Len(y)
        BY <1>1
      <3> QED BY <3>3, <3>4, <3>5, Zenon DEF GuidTaken, q, F, x, g
    <2>3. CASE x # <<>>
      <3> DEFINE z == Cut(y, m - Len(g))
      <3>1. ReadTypeGuid(q) = WithGuid(q, Padded(x, 16), Drop(x, 16))
        BY <1>3, <1>6, <2>3, Zenon DEF ReadTypeGuid, WithGuid
      <3>2. Drop(x, Len(g)) = z
        BY <1>1, <1>2, <1>4, CutBehind DEF x
      <3>3. WithGuid(q, Padded(x, 16), Drop(x, 16))
            = At(Drop(x, 16), Fields(s, na, ty, co, ai, Padded(x, 16), <<>>))
        BY GuidFound DEF q, F
      <3>4. ReadTypeGuid(q) = At(z, Fields(s, na, ty, co, ai, Padded(x, 16), <<>>))
        BY <2>1, <3>1, <3>2, <3>3
      <3>5. m = Len(g) + Len(y) => Padded(x, 16) = g
        <4>1. Cut(Cat(g, y), Len(Cat(g, y))) = Cat(g, y)
          BY <1>2, CutWhole
        <4>2. Padded(Cat(g, y), Len(g)) = g
          BY <1>1, PaddedPrefix DEF Cat
        <4> QED BY <1>2, <2>1, <4>1, <4>2 DEF x
      <3>6. /\ m - Len(g) \in Int /\ m - Len(g) <= Len(y)
            /\ m = Len(g) + Len(y) => m - Len(g) = Len(y)
        BY <1>1, <1>2, <1>4
      <3> QED BY <3>4, <3>5, <3>6, Zenon DEF GuidTaken, q, F, x, g
    <2> QED BY <2>2, <2>3
  <1> QED BY <1>5, <1>6

-----------------------------------------------------------------------------
(* ReadAttributes.                                                         *)

\* One turn of the loop over the attributes.
LEMMA AttributeTurn ==
  ASSUME NEW p \in Pairs, NEW y \in Buffers,
         NEW s, NEW na, NEW ty, NEW co, NEW ai, NEW tg, NEW at
  PROVE  ReadAttribute(At(Cat(Pair(p), y), Fields(s, na, ty, co, ai, tg, at)))
         = At(y, Fields(s, na, ty, co, ai, tg, Append(at, p)))
  <1> DEFINE w == 1
             k == Len(p.name)
             l == Len(p.value)
             a == Le(k, w)
             b == Le(l, w)
             c == p.name
             d == p.value
             o == <<0>>
             y5 == Cat(o, y)
             y4 == Cat(d, y5)
             y3 == Cat(o, y4)
             y2 == Cat(c, y3)
             y1 == Cat(b, y2)
             x == Cat(a, y1)
             F == Fields(s, na, ty, co, ai, tg, at)
             q == At(x, F)
  <1>1. /\ c \in Texts /\ d \in Texts /\ k \in Cell /\ l \in Cell
        /\ p = [name |-> c, value |-> d]
        /\ Pair(p) = Cat(Cat(Cat(a, b), Text(c)), Text(d))
    BY PairType
  <1>2. c \in Buffers /\ d \in Buffers /\ k \in Nat /\ l \in Nat
    BY <1>1, CellsOfTexts, TextType
  <1>3. Text(c) = Cat(c, o) /\ Text(d) = Cat(d, o) /\ o \in Buffers /\ Len(o) = 1
    <2>1. \A t \in Texts : Append(t, 0) = t \o <<0>>
      BY DEF Texts
    <2>2. 0 \in Cell
      BY CellType
    <2> QED BY <1>1, <2>1, <2>2 DEF Text, Cat, Buffers
  <1>4. w \in Nat /\ w > 0
    OBVIOUS
  <1>5. w = 1
    OBVIOUS
  <1> HIDE DEF o, w, k, l
  <1>6. a \in Buffers /\ b \in Buffers
    BY <1>1, <1>4, LeType
  <1> HIDE DEF c, d, a, b
  <1>7. y5 \in Buffers /\ y4 \in Buffers /\ y3 \in Buffers /\ y2 \in Buffers /\ y1 \in Buffers
        /\ x \in Buffers
    BY <1>2, <1>3, <1>6, CatLaws
  <1>8. Cat(Pair(p), y) = x
    <2> DEFINE tc == Cat(c, o)
               td == Cat(d, o)
    <2>1. tc \in Buffers /\ td \in Buffers /\ Cat(a, b) \in Buffers /\ Cat(Cat(a, b), tc) \in Buffers
      BY <1>2, <1>3, <1>6, CatLaws
    <2>2. Cat(td, y) = y4
      BY <1>2, <1>3, CatAssociative
    <2>3. Cat(tc, y4) = y2
      BY <1>2, <1>3, <1>7, CatAssociative
    <2> HIDE DEF tc, td, y4, y2
    <2>4. Cat(Cat(Cat(Cat(a, b), tc), td), y) = Cat(Cat(Cat(a, b), tc), y4)
      BY <2>1, <2>2, CatAssociative
    <2>5. Cat(Cat(Cat(a, b), tc), y4) = Cat(Cat(a, b), y2)
      BY <1>7, <2>1, <2>3, CatAssociative
    <2>6. Cat(Cat(a, b), y2) = x
      BY <1>6, <1>7, CatAssociative
    <2>7. Pair(p) = Cat(Cat(Cat(a, b), tc), td)
      BY <1>1, <1>3, Zenon DEF tc, td
    <2> QED BY <2>4, <2>5, <2>6, <2>7, Zenon
  <1>9. Behind(x, 0, Cat(Le(k, w), y1))
    <2>1. x = Cat(Le(k, w), y1)
      BY Zenon DEF a
    <2> HIDE DEF x
    <2>2. Drop(x, 0) = x /\ Len(x) = 0 + Len(x)
      BY <1>7, EmptyBuffer DEF Buffers
    <2> QED BY <1>7, <2>1, <2>2, Zenon DEF Behind
  <1> HIDE DEF x, y1, y2, y3, y4, y5
  <1>10. Behind(x, 0 + w, y1) /\ x[0 + 1] = k
    BY <1>1, <1>4, <1>7, <1>9, NumberBehind
  <1>11. Behind(x, 1, y1) /\ x[1] = k
    BY <1>5, <1>10
  <1>12. Behind(x, 1, Cat(Le(l, w), y2))
    BY <1>11, Zenon DEF y1, b
  <1>13. Behind(x, 1 + w, y2) /\ x[1 + 1] = l
    BY <1>1, <1>4, <1>7, <1>12, NumberBehind
  <1>14. Behind(x, 2, y2) /\ x[2] = l
    BY <1>5, <1>13
  <1>15. Behind(x, 2, Cat(c, y3))
    BY <1>14, Zenon DEF y2
  <1>16. Behind(x, 2 + k, y3)
    BY <1>2, <1>7, <1>15, BehindAgain DEF k, c
  <1>17. Behind(x, (2 + k) + 1, y4)
    <2>1. Behind(x, 2 + k, Cat(o, y4))
      BY <1>16, Zenon DEF y3
    <2> DEFINE j == 2 + k
    <2> HIDE DEF j
    <2>2. Behind(x, j, Cat(o, y4))
      BY <2>1 DEF j
    <2>3. Behind(x, j + Len(o), y4)
      BY <1>3, <1>7, <2>2, BehindAgain
    <2> QED BY <1>3, <2>3 DEF j
  <1>18. Behind(x, k + 3, y4)
    <2>1. (2 + k) + 1 = k + 3
      BY <1>2
    <2> QED BY <1>17, <2>1
  <1>19. Behind(x, (k + 3) + l, y5)
    <2> DEFINE j == k + 3
    <2> HIDE DEF j
    <2>1. Behind(x, j, Cat(d, y5))
      BY <1>18 DEF j, y4
    <2>2. Behind(x, j + Len(d), y5)
      BY <1>2, <1>7, <2>1, BehindAgain
    <2> QED BY <2>2 DEF j, l, d
  <1>20. Behind(x, ((k + 3) + l) + 1, y)
    <2> DEFINE j == (k + 3) + l
    <2> HIDE DEF j
    <2>1. Behind(x, j, Cat(o, y))
      BY <1>19 DEF j, y5
    <2>2. Behind(x, j + Len(o), y)
      BY <1>3, <2>1, BehindAgain
    <2> QED BY <1>3, <2>2 DEF j
  <1>21. PairName(x) = c
    <2>1. Drop(x, 2) = Cat(c, y3)
      BY <1>15 DEF Behind
    <2>2. Padded(Cat(c, y3), Len(c)) = c
      BY <1>2, <1>7, PaddedPrefix DEF Cat
    <2>3. Len(c) = k
      BY DEF k, c
    <2> QED BY <1>11, <2>1, <2>2, <2>3, Zenon DEF PairName
  <1>22. PairValue(x) = d
    <2>1. Drop(x, k + 3) = Cat(d, y5)
      BY <1>18 DEF Behind, y4
    <2>2. Padded(Cat(d, y5), Len(d)) = d
      BY <1>2, <1>7, PaddedPrefix DEF Cat
    <2>3. Len(d) = l
      BY DEF l, d
    <2> QED BY <1>11, <1>14, <2>1, <2>2, <2>3, Zenon DEF PairValue
  <1>23. Drop(x, PairLength(x)) = y
    <2>1. ((k + 3) + l) + 1 = k + l + 4
      BY <1>2
    <2>2. PairLength(x) = k + l + 4
      BY <1>11, <1>14, Zenon DEF PairLength
    <2> QED BY <1>20, <2>1, <2>2 DEF Behind
  <1>24. PairThere(x)
    <2>1. Len(x) = (((k + 3) + l) + 1) + Len(y) /\ Len(y) \in Nat
      BY <1>20 DEF Behind, Buffers
    <2>2. Len(x) >= 2 /\ Len(x) > k + 3
      BY <1>2, <2>1
    <2> QED BY <1>11, <2>2 DEF PairThere
  <1>25. DecodePlcStringBuffer(c) = c /\ DecodePlcStringBuffer(d) = d
    BY <1>1, TextDecoded
  <1>26. q.rest = x /\ q.t.attributes = at
    <2>1. F.attributes = at
      BY FieldsRead
    <2> HIDE DEF F
    <2> QED BY <2>1 DEF At
  <1> HIDE DEF q, F
  <1>27. ReadAttribute(q) = WithAttributes(q, Append(at, p), y)
    <2>1. ReadAttribute(q) =
            [q EXCEPT !.t.attributes = Append(q.t.attributes, [name |-> c, value |-> d]),
                      !.rest = Drop(q.rest, PairLength(x))]
      BY <1>21, <1>22, <1>24, <1>25, <1>26, Zenon DEF ReadAttribute
    <2> QED BY <1>1, <1>23, <1>26, <2>1, Zenon DEF WithAttributes
  <1>28. WithAttributes(q, Append(at, p), y) = At(y, Fields(s, na, ty, co, ai, tg, Append(at, p)))
    BY AttributesFound DEF q, F
  <1> QED BY <1>8, <1>27, <1>28, Zenon DEF q, F

TimesAttribute(r, n) == Times(r, n, ReadAttribute)

\* The turns of the loop over the attributes.
LEMMA AttributeTurns ==
  ASSUME NEW r, NEW n \in Nat
  PROVE  \E f : /\ f[0] = r
                /\ \A k \in 1 .. n :
                     f[k] = IF f[k - 1].ok THEN ReadAttribute(f[k - 1]) ELSE f[k - 1]
                /\ TimesAttribute(r, n) = f[n]
  <1> DEFINE Next1(q) == IF q.ok THEN ReadAttribute(q) ELSE q
             E(h) == [k \in 0 .. n |-> IF k = 0 THEN r ELSE Next1(h[k - 1])]
             Turns(m) == \E g : g[0] = r /\ \A k \in 1 .. m : g[k] = Next1(g[k - 1])
             T == {m \in Nat : Turns(m)}
  <1>1. Turns(0)
    <2> DEFINE g == [k \in 0 .. 0 |-> r]
    <2>1. g[0] = r
      OBVIOUS
    <2>2. \A k \in 1 .. 0 : g[k] = Next1(g[k - 1])
      OBVIOUS
    <2> HIDE DEF g, Next1
    <2> QED BY <2>1, <2>2
  <1> HIDE DEF Next1
  <1>2. ASSUME NEW m \in Nat, Turns(m) PROVE Turns(m + 1)
    <2>1. PICK g : g[0] = r /\ \A k \in 1 .. m : g[k] = Next1(g[k - 1])
      BY <1>2
    <2> DEFINE x == Next1(g[m])
               h == [k \in 0 .. m + 1 |-> IF k <= m THEN g[k] ELSE x]
    <2> HIDE DEF x
    <2>2. h[m + 1] = x /\ \A k \in 0 .. m : h[k] = g[k]
      OBVIOUS
    <2> HIDE DEF h
    <2>3. \A k \in 1 .. m + 1 : h[k] = Next1(h[k - 1])
      <3> TAKE k \in 1 .. m + 1
      <3>0. k \in 1 .. m \/ k = m + 1
        OBVIOUS
      <3>1. CASE k \in 1 .. m
        <4>1. g[k] = Next1(g[k - 1])
          BY <2>1, <3>1
        <4>2. k - 1 \in 0 .. m /\ k \in 0 .. m
          BY <3>1
        <4>3. h[k] = g[k] /\ h[k - 1] = g[k - 1]
          BY <2>2, <4>2
        <4> QED BY <4>1, <4>3
      <3>2. CASE k = m + 1
        <4>1. h[m] = g[m] /\ k - 1 = m
          BY <2>2, <3>2
        <4> QED BY <2>2, <3>2, <4>1 DEF x
      <3> QED BY <3>0, <3>1, <3>2
    <2>4. h[0] = r
      BY <2>1, <2>2
    <2> QED BY <2>3, <2>4
  <1> HIDE DEF Turns
  <1>3. T = Nat
    <2>1. T \subseteq Nat /\ 0 \in T
      BY <1>1
    <2>2. \A m \in T : m + 1 \in T
      BY <1>2
    <2> HIDE DEF T
    <2> QED BY <2>1, <2>2, SetInduction
  <1>4. Turns(n)
    <2>1. n \in T
      BY <1>3
    <2> QED BY <2>1
  <1>5. PICK g : g[0] = r /\ \A k \in 1 .. n : g[k] = Next1(g[k - 1])
    BY <1>4 DEF Turns
  <1> DEFINE h == [k \in 0 .. n |-> g[k]]
             f == CHOOSE e : e = E(e)
  <1>6. h = E(h)
    <2>1. ASSUME NEW k \in 0 .. n PROVE h[k] = IF k = 0 THEN r ELSE Next1(h[k - 1])
      <3>1. CASE k = 0
        BY <1>5, <3>1
      <3>2. CASE k # 0
        <4>1. k \in 1 .. n /\ k - 1 \in 0 .. n
          BY <3>2
        <4>2. h[k] = g[k] /\ h[k - 1] = g[k - 1]
          BY <4>1
        <4>3. g[k] = Next1(g[k - 1])
          BY <1>5, <4>1
        <4> HIDE DEF h
        <4> QED BY <3>2, <4>2, <4>3
      <3> QED BY <3>1, <3>2
    <2>2. h = [k \in 0 .. n |-> h[k]]
      OBVIOUS
    <2> HIDE DEF h
    <2> QED BY <2>1, <2>2, Zenon
  <1>7. f = E(f)
    <2> HIDE DEF E, h
    <2> QED BY <1>6
  <1>8. TimesAttribute(r, n) = f[n]
    BY DEF TimesAttribute, Times, Next1
  <1> HIDE DEF f
  <1>9. \A k \in 0 .. n : f[k] = IF k = 0 THEN r ELSE Next1(f[k - 1])
    BY <1>7
  <1>10. f[0] = r
    BY <1>9
  <1>11. \A k \in 1 .. n : f[k] = Next1(f[k - 1])
    <2> TAKE k \in 1 .. n
    <2>1. k \in 0 .. n /\ k # 0
      OBVIOUS
    <2> QED BY <1>9, <2>1
  <1> QED BY <1>8, <1>10, <1>11, Zenon DEF Next1

\* Whatever the loop over the attributes reads, it only adds attributes.
LEMMA AttributesLoop ==
  ASSUME NEW s, NEW na, NEW ty, NEW co, NEW ai, NEW tg, NEW x, NEW n \in Nat
  PROVE  \E z, at : TimesAttribute(At(x, Fields(s, na, ty, co, ai, tg, <<>>)), n)
                      = At(z, Fields(s, na, ty, co, ai, tg, at))
  <1> DEFINE F(at) == Fields(s, na, ty, co, ai, tg, at)
             start == At(x, F(<<>>))
             Some(r) == \E z, at : r = At(z, F(at))
  <1>1. PICK f : /\ f[0] = start
                 /\ \A k \in 1 .. n : f[k] = IF f[k - 1].ok THEN ReadAttribute(f[k - 1]) ELSE f[k - 1]
                 /\ TimesAttribute(start, n) = f[n]
    <2> HIDE DEF start
    <2> QED BY AttributeTurns
  <1>2. Some(start)
    <2> HIDE DEF F
    <2> QED BY Zenon
  <1>3. ASSUME NEW r, Some(r) PROVE Some(ReadAttribute(r))
    <2>1. PICK z, at : r = At(z, F(at))
      BY <1>3
    <2>2. r.rest = z /\ r.t = F(at)
      <3> HIDE DEF F
      <3> QED BY <2>1 DEF At
    <2>3. CASE ~PairThere(r.rest)
      <3>1. ReadAttribute(r) = r
        BY <2>3, Zenon DEF ReadAttribute
      <3> HIDE DEF F
      <3> QED BY <2>1, <3>1, Zenon
    <2>4. CASE PairThere(r.rest)
      <3> DEFINE at2 == Append(r.t.attributes,
                          [name |-> DecodePlcStringBuffer(PairName(r.rest)),
                           value |-> DecodePlcStringBuffer(PairValue(r.rest))])
                 z2 == Drop(r.rest, PairLength(r.rest))
      <3>1. ReadAttribute(r) = WithAttributes(r, at2, z2)
        BY <2>4, Zenon DEF ReadAttribute, WithAttributes
      <3> HIDE DEF at2, z2
      <3>2. WithAttributes(At(z, F(at)), at2, z2) = At(z2, F(at2))
        BY AttributesFound
      <3> HIDE DEF F
      <3> QED BY <2>1, <3>1, <3>2, Zenon
    <2> QED BY <2>3, <2>4
  <1> HIDE DEF Some
  <1> DEFINE Good(k) == k <= n => Some(f[k])
             T == {k \in Nat : Good(k)}
  <1>4. Good(0)
    BY <1>1, <1>2, Zenon
  <1>5. ASSUME NEW k \in Nat, Good(k) PROVE Good(k + 1)
    <2> SUFFICES ASSUME k + 1 <= n PROVE Some(f[k + 1])
      OBVIOUS
    <2>1. k + 1 \in 1 .. n /\ (k + 1) - 1 = k /\ k <= n
      OBVIOUS
    <2>2. f[k + 1] = IF f[(k + 1) - 1].ok THEN ReadAttribute(f[(k + 1) - 1]) ELSE f[(k + 1) - 1]
      BY <1>1, <2>1
    <2>3. f[k + 1] = ReadAttribute(f[k]) \/ f[k + 1] = f[k]
      BY <2>1, <2>2
    <2>4. Some(f[k])
      BY <1>5, <2>1
    <2> QED BY <1>3, <2>3, <2>4
  <1> HIDE DEF Good
  <1>6. T = Nat
    <2>1. T \subseteq Nat /\ 0 \in T
      BY <1>4
    <2>2. \A k \in T : k + 1 \in T
      BY <1>5
    <2> HIDE DEF T
    <2> QED BY <2>1, <2>2, SetInduction
  <1>7. Some(f[n])
    <2>1. n \in T /\ n <= n
      BY <1>6
    <2> QED BY <2>1 DEF Good
  <1> QED BY <1>1, <1>7, Zenon DEF Some

\* All of the attributes come out as they were put in.
LEMMA PairsRead ==
  ASSUME NEW ps \in Seq(Pairs), NEW s, NEW na, NEW ty, NEW co, NEW ai, NEW tg
  PROVE  TimesAttribute(At(PairBytes(ps), Fields(s, na, ty, co, ai, tg, <<>>)), Len(ps)).t
         = Fields(s, na, ty, co, ai, tg, ps)
  <1> DEFINE n == Len(ps)
             parts == PairParts(ps)
             F(at) == Fields(s, na, ty, co, ai, tg, at)
             start == At(PairBytes(ps), F(<<>>))
             Good(f, k) == f[k] = At(Rest(parts, k), F(SubSeq(ps, 1, k)))
  <1>1. /\ n \in Nat /\ parts \in Seq(Buffers) /\ Len(parts) = n
        /\ \A k \in 1 .. n : parts[k] = Pair(ps[k]) /\ ps[k] \in Pairs
        /\ PairBytes(ps) = FlattenSeq(parts)
    <2>1. n \in Nat /\ \A k \in 1 .. n : ps[k] \in Pairs
      OBVIOUS
    <2> HIDE DEF parts
    <2>2. /\ parts \in Seq(Buffers) /\ Len(parts) = n
          /\ \A k \in 1 .. n : parts[k] = Pair(ps[k])
      BY PairPartsType DEF parts
    <2>3. PairBytes(ps) = FlattenSeq(parts)
      BY PairPartsType DEF PairBytes, parts
    <2> QED BY <2>1, <2>2, <2>3
  <1> HIDE DEF start, n, parts, F
  <1>2. PICK f : /\ f[0] = start
                 /\ \A k \in 1 .. n : f[k] = IF f[k - 1].ok THEN ReadAttribute(f[k - 1]) ELSE f[k - 1]
                 /\ TimesAttribute(start, n) = f[n]
    BY <1>1, AttributeTurns
  <1>3. Good(f, 0)
    <2>1. Rest(parts, 0) = FlattenSeq(parts)
      BY <1>1, RestSteps
    <2>2. SubSeq(ps, 1, 0) = <<>>
      OBVIOUS
    <2> QED BY <1>1, <1>2, <2>1, <2>2, Zenon DEF start
  <1>4. ASSUME NEW k \in 0 .. n - 1, Good(f, k) PROVE Good(f, k + 1)
    <2> DEFINE p == ps[k + 1]
               z == Rest(parts, k + 1)
               t == SubSeq(ps, 1, k)
    <2>1. /\ k + 1 \in 1 .. n /\ (k + 1) - 1 = k /\ p \in Pairs
          /\ k \in 0 .. Len(parts) - 1 /\ k + 1 \in 0 .. Len(parts) /\ parts[k + 1] = Pair(p)
      BY <1>1
    <2>2. z \in Buffers
      BY <1>1, <2>1, RestSteps
    <2>3. Rest(parts, k) = Cat(Pair(p), z)
      <3>1. Rest(parts, k) = parts[k + 1] \o Rest(parts, k + 1)
        BY <1>1, <2>1, RestSteps
      <3> QED BY <2>1, <3>1, Zenon DEF Cat
    <2>4. Append(t, p) = SubSeq(ps, 1, k + 1)
      BY <2>1 DEF n
    <2> HIDE DEF p, z, t
    <2>5. f[k] = At(Cat(Pair(p), z), F(t))
      BY <1>4, <2>3, Zenon DEF t
    <2>6. f[k].ok
      BY <2>5 DEF At
    <2>7. f[k + 1] = ReadAttribute(f[k])
      <3>1. f[k + 1] = IF f[(k + 1) - 1].ok THEN ReadAttribute(f[(k + 1) - 1]) ELSE f[(k + 1) - 1]
        BY <1>2, <2>1
      <3> QED BY <2>1, <2>6, <3>1
    <2>8. ReadAttribute(At(Cat(Pair(p), z), F(t))) = At(z, F(Append(t, p)))
      BY <2>1, <2>2, AttributeTurn DEF F
    <2>9. f[k + 1] = At(z, F(Append(t, p)))
      BY <2>5, <2>7, <2>8, Zenon
    <2> QED BY <2>4, <2>9, Zenon DEF z
  <1> HIDE DEF Good
  <1> DEFINE T == {k \in Nat : k <= n => Good(f, k)}
  <1>5. T = Nat
    <2>1. T \subseteq Nat /\ 0 \in T
      BY <1>3
    <2>2. ASSUME NEW k \in T PROVE k + 1 \in T
      <3>1. k + 1 <= n => k \in 0 .. n - 1 /\ Good(f, k)
        BY <1>1
      <3> QED BY <1>4, <3>1
    <2> HIDE DEF T
    <2> QED BY <2>1, <2>2, SetInduction
  <1>6. Good(f, n)
    BY <1>1, <1>5
  <1>7. SubSeq(ps, 1, n) = ps
    BY DEF n
  <1>8. f[n].t = F(ps)
    <2>1. f[n] = At(Rest(parts, n), F(ps))
      BY <1>6, <1>7, Zenon DEF Good
    <2>2. \A u, v : At(u, v).t = v
      BY DEF At
    <2> QED BY <2>1, <2>2, Zenon
  <1> QED BY <1>2, <1>8, Zenon DEF n, start, F

LEMMA AttributesRead ==
  ASSUME NEW s \in Symbols, NEW m \in Int, m <= Len(AttributeBytes(s)),
         NEW na, NEW ty, NEW co, NEW ai, NEW tg
  PROVE  \E at :
           /\ ReadAttributes(At(Cut(AttributeBytes(s), m),
                                Fields(s, na, ty, co, ai, tg, <<>>))).t
              = Fields(s, na, ty, co, ai, tg, at)
           /\ m = Len(AttributeBytes(s)) =>
                at = IF "Attributes" \in s.flags THEN s.attributes ELSE <<>>
  <1> DEFINE a == AttributeBytes(s)
             x == Cut(a, m)
             ps == s.attributes
             F == Fields(s, na, ty, co, ai, tg, <<>>)
             q == At(x, F)
  <1>1. a \in Buffers /\ PairBytes(ps) \in Buffers /\ Len(ps) \in Cell /\ Len(ps) \in Nat
        /\ ps \in Seq(Pairs)
    BY PartsType, SymbolType
  <1>2. x \in Buffers /\ Len(x) = (IF m > 0 THEN m ELSE 0) /\ \A k \in 1 .. m : x[k] = a[k]
    <2> HIDE DEF a
    <2>1. m <= Len(a)
      BY DEF a
    <2> QED BY <1>1, <2>1, CutType
  <1>3. q.rest = x /\ q.t = F /\ q.ok /\ F.flags = s.flags
    <2>1. F.flags = s.flags
      BY FieldsRead
    <2> HIDE DEF F, x
    <2> QED BY <2>1 DEF At
  <1>w. "Attributes" \in s.flags => a = Cat(Le(Len(ps), 2), PairBytes(ps)) /\ Len(a) >= 2
    <2> DEFINE w == 2
               b == PairBytes(ps)
    <2>1. "Attributes" \in s.flags => a = Cat(Le(Len(ps), w), b)
      BY Zenon DEF AttributeBytes, Cat
    <2>2. w \in Nat /\ w > 0 /\ b \in Buffers
      BY <1>1
    <2> HIDE DEF w, b
    <2>3. Len(Cat(Le(Len(ps), w), b)) = w + Len(b)
      BY <1>1, <2>2, LeFirst DEF Cat
    <2>4. w + Len(b) >= 2
      BY <2>2 DEF w, Buffers
    <2> HIDE DEF a
    <2> QED BY <2>1, <2>3, <2>4 DEF w, b
  <1>4. CASE ~("Attributes" \in s.flags /\ Len(x) >= 2)
    <2>1. ReadAttributes(q) = q
      BY <1>3, <1>4, Zenon DEF ReadAttributes
    <2>2. m = Len(a) => "Attributes" \notin s.flags
      <3> HIDE DEF a
      <3> QED BY <1>2, <1>4, <1>w
    <2>3. ReadAttributes(q).t = F
      BY <1>3, <2>1, Zenon
    <2>4. m = Len(a) => <<>> = IF "Attributes" \in s.flags THEN s.attributes ELSE <<>>
      BY <2>2, Zenon
    <2> QED BY <2>3, <2>4, Zenon
  <1>5. CASE "Attributes" \in s.flags /\ Len(x) >= 2
    <2> DEFINE w == 2
               b == PairBytes(ps)
               n == Len(ps)
               z == Drop(x, 2)
    <2>1. a = Cat(Le(n, w), b) /\ w \in Nat /\ w > 0 /\ b \in Buffers /\ n \in Cell /\ n \in Nat
      BY <1>1, <1>5, <1>w
    <2>w. w = 2
      OBVIOUS
    <2> HIDE DEF w, b, n, a
    <2>2. Cat(Le(n, w), b)[1] = n /\ Drop(Cat(Le(n, w), b), w) = b
      BY <2>1, LeFirst DEF Cat
    <2>3. a[1] = n /\ Drop(a, 2) = b
      BY <2>1, <2>2, <2>w
    <2>4. 1 \in 1 .. m
      BY <1>2, <1>5
    <2>5. x[1] = n
      BY <1>2, <2>3, <2>4
    <2>6. Head(x) = n
      BY <1>2, <1>5, <2>5 DEF Buffers
    <2> HIDE DEF x, F
    <2>7. Skip(q, 2) = At(z, F)
      BY <1>5, ReaderSteps
    <2> HIDE DEF q
    <2>8. ReadAttributes(q) = TimesAttribute(At(z, F), n)
      BY <1>3, <1>5, <2>6, <2>7, Zenon DEF ReadAttributes, TimesAttribute
    <2> HIDE DEF z
    <2>9. CASE m = Len(a)
      <3>1. x = a
        BY <1>1, <2>9, CutWhole DEF x
      <3>2. z = b
        BY <2>3, <3>1 DEF z
      <3>3. TimesAttribute(At(b, F), n).t = Fields(s, na, ty, co, ai, tg, ps)
        BY <1>1, PairsRead DEF b, n, F
      <3>4. ReadAttributes(q).t = Fields(s, na, ty, co, ai, tg, ps)
        BY <2>8, <3>2, <3>3, Zenon
      <3>5. ps = IF "Attributes" \in s.flags THEN s.attributes ELSE <<>>
        BY <1>5, Zenon
      <3> QED BY <3>4, <3>5, Zenon DEF q, F, x, a
    <2>10. CASE m # Len(a)
      <3>1. PICK z2, at : TimesAttribute(At(z, F), n) = At(z2, Fields(s, na, ty, co, ai, tg, at))
        BY <2>1, AttributesLoop DEF F
      <3>2. ReadAttributes(q).t = Fields(s, na, ty, co, ai, tg, at)
        BY <2>8, <3>1 DEF At
      <3> QED BY <2>10, <3>2, Zenon DEF q, F, x, a
    <2> QED BY <2>9, <2>10
  <1> QED BY <1>4, <1>5

-----------------------------------------------------------------------------
(* ParseSymbol.                                                            *)

Recovered(s, r, whole) ==
  /\ r.ok =>
       /\ r.symbol.name = s.name /\ r.symbol.type = s.type /\ r.symbol.comment = s.comment
       /\ r.symbol.indexGroup = s.indexGroup /\ r.symbol.indexOffset = s.indexOffset
       /\ r.symbol.size = s.size /\ r.symbol.dataType = s.dataType /\ r.symbol.flags = s.flags
       /\ r.symbol.arrayDimension = Len(s.arrayInfo)
  /\ whole =>
       /\ r.ok
       /\ r.symbol.arrayInfo = s.arrayInfo
       /\ r.symbol.typeGuid = IF "TypeGuid" \in s.flags THEN s.typeGuid ELSE <<>>
       /\ r.symbol.attributes = IF "Attributes" \in s.flags THEN s.attributes ELSE <<>>

\* What is behind the texts is never an error, and what of it is there in full is
\* recovered.
LEMMA ExtrasRead ==
  ASSUME NEW s \in Symbols, NEW m \in Nat, m <= Len(SymbolExtras(s)), NEW na, NEW ty, NEW co
  PROVE  \E ai, tg, at :
           /\ ReadAttributes(ReadTypeGuid(ReadDimensions(
                At(Cut(SymbolExtras(s), m), Fields(s, na, ty, co, <<>>, <<>>, <<>>))))).t
              = Fields(s, na, ty, co, ai, tg, at)
           /\ m = Len(SymbolExtras(s)) =>
                /\ ai = s.arrayInfo /\ tg = GuidBytes(s)
                /\ at = IF "Attributes" \in s.flags THEN s.attributes ELSE <<>>
  <1> DEFINE d == DimensionBytes(s.arrayInfo)
             g == GuidBytes(s)
             a == AttributeBytes(s)
             e == SymbolExtras(s)
             y == Cat(g, a)
             q == At(Cut(e, m), Fields(s, na, ty, co, <<>>, <<>>, <<>>))
             j == m - Len(d)
  <1>1. d \in Buffers /\ g \in Buffers /\ a \in Buffers /\ e \in Buffers /\ e = Cat(d, y)
    BY PartsType
  <1>2. y \in Buffers /\ Len(y) = Len(g) + Len(a)
    BY <1>1, CatLaws
  <1>3. Len(e) = Len(d) + Len(y) /\ Len(d) \in Nat /\ Len(g) \in Nat /\ Len(a) \in Nat
    <2> HIDE DEF y, d, g, a, e
    <2>1. Len(e) = Len(d) + Len(y)
      BY <1>1, <1>2, CatLaws
    <2> QED BY <1>1, <2>1 DEF Buffers
  <1>4. m <= Len(e)
    OBVIOUS
  <1> HIDE DEF d, g, a, e, y
  <1>5. m <= Len(d) + Len(y) /\ j \in Int /\ j <= Len(g) + Len(a)
    BY <1>2, <1>3, <1>4
  <1>6. m = Len(e) => m >= Len(d) /\ j = Len(g) + Len(a)
    BY <1>2, <1>3
  <1>7. q = At(Cut(Cat(d, y), m), Fields(s, na, ty, co, <<>>, <<>>, <<>>))
    BY <1>1, Zenon
  <1> HIDE DEF q, j
  <1>8. PICK ai : /\ ReadDimensions(q) = At(Cut(y, j), Fields(s, na, ty, co, ai, <<>>, <<>>))
                  /\ m >= Len(d) => ai = s.arrayInfo
    <2>1. m <= Len(DimensionBytes(s.arrayInfo)) + Len(y)
      BY <1>5 DEF d
    <2>2. \E ai : /\ ReadDimensions(At(Cut(Cat(DimensionBytes(s.arrayInfo), y), m),
                                       Fields(s, na, ty, co, <<>>, <<>>, <<>>)))
                     = At(Cut(y, m - Len(DimensionBytes(s.arrayInfo))),
                          Fields(s, na, ty, co, ai, <<>>, <<>>))
                  /\ m >= Len(DimensionBytes(s.arrayInfo)) => ai = s.arrayInfo
      BY <1>2, <2>1, DimensionsRead, SMTT(40)
    <2> QED BY <1>7, <2>2, Zenon DEF d, j
  <1>9. PICK l, tg :
          /\ l \in Int /\ l <= Len(a)
          /\ ReadTypeGuid(At(Cut(y, j), Fields(s, na, ty, co, ai, <<>>, <<>>)))
             = At(Cut(a, l), Fields(s, na, ty, co, ai, tg, <<>>))
          /\ j = Len(g) + Len(a) => l = Len(a) /\ tg = g
    <2>1. j <= Len(GuidBytes(s)) + Len(a) /\ j \in Int
      BY <1>5 DEF g
    <2>2. GuidTaken(s, a, j, na, ty, co, ai)
      BY <1>1, <2>1, GuidRead
    <2> QED BY <2>2, Zenon DEF GuidTaken, g, y
  <1>10. PICK at :
           /\ ReadAttributes(At(Cut(a, l), Fields(s, na, ty, co, ai, tg, <<>>))).t
              = Fields(s, na, ty, co, ai, tg, at)
           /\ l = Len(a) => at = IF "Attributes" \in s.flags THEN s.attributes ELSE <<>>
    <2>1. l \in Int /\ l <= Len(AttributeBytes(s))
      BY <1>9, Zenon DEF a
    <2>2. \E at :
            /\ ReadAttributes(At(Cut(AttributeBytes(s), l),
                                 Fields(s, na, ty, co, ai, tg, <<>>))).t
               = Fields(s, na, ty, co, ai, tg, at)
            /\ l = Len(AttributeBytes(s)) =>
                 at = IF "Attributes" \in s.flags THEN s.attributes ELSE <<>>
      BY <2>1, AttributesRead
    <2> QED BY <2>2, Zenon DEF a
  <1>11. ReadAttributes(ReadTypeGuid(ReadDimensions(q))).t = Fields(s, na, ty, co, ai, tg, at)
    BY <1>8, <1>9, <1>10, Zenon
  <1>12. m = Len(e) =>
           /\ ai = s.arrayInfo /\ tg = g
           /\ at = IF "Attributes" \in s.flags THEN s.attributes ELSE <<>>
    BY <1>6, <1>8, <1>9, <1>10, Zenon
  <1> QED BY <1>11, <1>12, Zenon DEF q, e, g

\* Of any symbol's entry, cut anywhere, ParseSymbol makes nothing or a symbol with the
\* right texts and address, and of the whole entry the whole symbol; whatever it takes
\* CheckSymbol takes (ads-symbol/parse.go:37-189).
THEOREM SymbolParsed ==
  ASSUME NEW s \in Symbols, NEW n \in 0 .. Len(EncodeSymbol(s))
  PROVE  /\ Recovered(s, ParseSymbol(Cut(EncodeSymbol(s), n)), n = Len(EncodeSymbol(s)))
         /\ ParseSymbol(Cut(EncodeSymbol(s), n)).ok => CheckSymbol(Cut(EncodeSymbol(s), n))
  <1> DEFINE full == EncodeSymbol(s)
             data == Cut(full, n)
             e == SymbolExtras(s)
             z == Cat(SymbolTexts(s), e)
             total == TextsLength(s)
             F == Fields(s, <<>>, <<>>, <<>>, <<>>, <<>>, <<>>)
             texts == ReadTexts(Reader(Drop(data, 30), Header(data)))
             p == ParseSymbol(data)
  <1>1. /\ full \in Buffers /\ z \in Buffers /\ Len(full) = 30 + Len(z) /\ Drop(full, 30) = z
    BY SymbolEncoded
  <1>2. /\ full[5] = s.indexGroup /\ full[9] = s.indexOffset /\ full[13] = s.size
        /\ full[17] = s.dataType /\ full[21] = s.flags /\ full[23] = Len(s.arrayInfo)
        /\ full[25] = Len(s.name) /\ full[27] = Len(s.type) /\ full[29] = Len(s.comment)
    BY SymbolEncoded
  <1>3. n \in Nat /\ n <= Len(full)
    <2> HIDE DEF full
    <2>1. Len(full) \in Nat
      BY <1>1 DEF Buffers
    <2>2. n \in 0 .. Len(full)
      BY DEF full
    <2> QED BY <2>1, <2>2
  <1>4. /\ Len(SymbolTexts(s)) = total /\ total \in Nat /\ Len(e) \in Nat
        /\ Len(z) = total + Len(e)
    <2>1. SymbolTexts(s) \in Buffers /\ e \in Buffers
      BY PartsType
    <2>2. Len(s.name) \in Nat /\ Len(s.type) \in Nat /\ Len(s.comment) \in Nat
      BY SymbolType, TextType
    <2>3. total \in Nat
      <3>1. \A u, v, w \in Nat : (u + 1) + (v + 1) + (w + 1) \in Nat
        OBVIOUS
      <3> QED BY <2>2, <3>1, Zenon DEF TextsLength
    <2>4. Len(e) \in Nat
      BY <2>1 DEF Buffers
    <2>5. Len(SymbolTexts(s)) = total
      <3>1. 0 \in Nat /\ 0 <= TextsLength(s) + Len(SymbolExtras(s))
        BY <2>3, <2>4
      <3> QED BY <3>1, TextsRead
    <2>6. Len(z) = Len(SymbolTexts(s)) + Len(e)
      BY <2>1, CatLaws
    <2> QED BY <2>3, <2>4, <2>5, <2>6
  <1> HIDE DEF full
  <1>5. data \in Buffers /\ Len(data) = n /\ \A k \in 1 .. n : data[k] = full[k]
    BY <1>1, <1>3, CutType
  <1> HIDE DEF data
  <1>6. p = IF Len(data) < 30 \/ ~texts.ok THEN NoSymbol
            ELSE [ok |-> TRUE, symbol |-> ReadAttributes(ReadTypeGuid(ReadDimensions(texts))).t]
    BY Zenon DEF ParseSymbol, SymbolHeaderLength
  <1>7. ~NoSymbol.ok
    BY DEF NoSymbol
  <1>8. CASE n < 30
    <2>1. p = NoSymbol
      BY <1>5, <1>6, <1>8
    <2>2. n # Len(full)
      BY <1>1, <1>4, <1>8
    <2>3. ~p.ok
      BY <1>7, <2>1, Zenon
    <2> QED BY <2>2, <2>3, Zenon DEF Recovered, full, data
  <1>9. CASE n >= 30
    <2> DEFINE m == n - 30
    <2>1. m \in Nat /\ m <= total + Len(e)
      BY <1>1, <1>3, <1>4, <1>9
    <2>2. Drop(data, 30) = Cut(z, m)
      <3>1. 30 \in Nat /\ 30 <= Len(full) /\ n \in Int
        BY <1>3, <1>9
      <3>2. Drop(data, 30) = Cut(Drop(full, 30), n - 30)
        BY <1>1, <1>3, <3>1, CutDrop DEF data
      <3> QED BY <1>1, <3>2
    <2>3. Header(data) = F
      <3>1. /\ 5 \in 1 .. n /\ 9 \in 1 .. n /\ 13 \in 1 .. n /\ 17 \in 1 .. n /\ 21 \in 1 .. n
            /\ 23 \in 1 .. n /\ 25 \in 1 .. n /\ 27 \in 1 .. n /\ 29 \in 1 .. n
        BY <1>3, <1>9
      <3>2. /\ data[5] = s.indexGroup /\ data[9] = s.indexOffset /\ data[13] = s.size
            /\ data[17] = s.dataType /\ data[21] = s.flags /\ data[23] = Len(s.arrayInfo)
            /\ data[25] = Len(s.name) /\ data[27] = Len(s.type) /\ data[29] = Len(s.comment)
        BY <1>2, <1>5, <3>1
      <3> QED BY <3>2, HeaderFields
    <2>4. Reader(Drop(data, 30), Header(data)) = At(Cut(z, m), F)
      BY <2>2, <2>3, Zenon DEF Reader, At
    <2> HIDE DEF m, F
    <2>5. /\ m < total => ~texts.ok
          /\ m >= total => texts = At(Cut(e, m - total),
                                      Fields(s, s.name, s.type, s.comment, <<>>, <<>>, <<>>))
      <3>1. m <= TextsLength(s) + Len(SymbolExtras(s))
        BY <2>1
      <3>2. LET r == ReadTexts(At(Cut(z, m), F))
            IN /\ m < total => ~r.ok
               /\ m >= total => r = At(Cut(e, m - total),
                                       Fields(s, s.name, s.type, s.comment, <<>>, <<>>, <<>>))
        BY <2>1, <3>1, TextsRead DEF F
      <3> QED BY <2>4, <3>2, Zenon
    <2> HIDE DEF texts, total, e, z, p
    <2>6. CASE m < total
      <3>1. p = NoSymbol
        BY <1>6, <2>5, <2>6, Zenon
      <3>2. n # Len(full)
        BY <1>1, <1>4, <2>6, <2>1 DEF m
      <3>3. ~p.ok
        BY <1>7, <3>1, Zenon
      <3> QED BY <3>2, <3>3, Zenon DEF Recovered, full, data, p
    <2>7. CASE m >= total
      <3> DEFINE k == m - total
                 q == At(Cut(e, k), Fields(s, s.name, s.type, s.comment, <<>>, <<>>, <<>>))
                 r == ReadAttributes(ReadTypeGuid(ReadDimensions(q))).t
      <3>1. k \in Nat /\ k <= Len(e) /\ (n = Len(full) => k = Len(e))
        BY <1>1, <1>4, <2>1, <2>7 DEF m
      <3>2. texts = q
        BY <2>5, <2>7, Zenon
      <3>3. texts.ok
        BY <3>2 DEF At
      <3>4. p = [ok |-> TRUE, symbol |-> r]
        <4>1. ~(Len(data) < 30)
          BY <1>3, <1>5, <1>9
        <4> QED BY <1>6, <3>2, <3>3, <4>1, Zenon
      <3> HIDE DEF k
      <3>5. PICK ai, tg, at :
              /\ r = Fields(s, s.name, s.type, s.comment, ai, tg, at)
              /\ k = Len(e) =>
                   /\ ai = s.arrayInfo /\ tg = GuidBytes(s)
                   /\ at = IF "Attributes" \in s.flags THEN s.attributes ELSE <<>>
        <4>1. k <= Len(SymbolExtras(s))
          BY <3>1 DEF e
        <4> QED BY <3>1, <4>1, ExtrasRead DEF e
      <3> HIDE DEF r
      <3>6. p.ok /\ p.symbol = r
        BY <3>4
      <3>7. /\ r.name = s.name /\ r.type = s.type /\ r.comment = s.comment
            /\ r.indexGroup = s.indexGroup /\ r.indexOffset = s.indexOffset
            /\ r.size = s.size /\ r.dataType = s.dataType /\ r.flags = s.flags
            /\ r.arrayDimension = Len(s.arrayInfo)
            /\ r.arrayInfo = ai /\ r.typeGuid = tg /\ r.attributes = at
        BY <3>5, FieldsRead
      <3>8. n = Len(full) =>
              /\ r.arrayInfo = s.arrayInfo
              /\ r.typeGuid = IF "TypeGuid" \in s.flags THEN s.typeGuid ELSE <<>>
              /\ r.attributes = IF "Attributes" \in s.flags THEN s.attributes ELSE <<>>
        BY <3>1, <3>5, <3>7, Zenon DEF GuidBytes
      <3>9. CheckSymbol(data)
        <4>1. 25 \in 1 .. n /\ 27 \in 1 .. n /\ 29 \in 1 .. n
          BY <1>3, <1>9
        <4>2. data[25] = Len(s.name) /\ data[27] = Len(s.type) /\ data[29] = Len(s.comment)
          BY <1>2, <1>5, <4>1
        <4>3. Len(s.name) \in Nat /\ Len(s.type) \in Nat /\ Len(s.comment) \in Nat
          BY SymbolType, TextType
        <4>4. n - 30 >= (Len(s.name) + 1) + (Len(s.type) + 1) + (Len(s.comment) + 1)
          BY <2>7 DEF m, total, TextsLength
        <4>5. n >= 30 + Len(s.name) + 1 + Len(s.type) + 1 + Len(s.comment)
          <5>1. \A u, v, w \in Nat : n - 30 >= (u + 1) + (v + 1) + (w + 1)
                                       => n >= 30 + u + 1 + v + 1 + w
            BY <1>3
          <5> QED BY <4>3, <4>4, <5>1, Zenon
        <4> QED BY <1>5, <1>9, <4>2, <4>5 DEF CheckSymbol, SymbolHeaderLength
      <3> QED BY <3>6, <3>7, <3>8, <3>9, Zenon DEF Recovered, full, data, p
    <2> QED BY <1>4, <2>1, <2>6, <2>7
  <1> QED BY <1>3, <1>8, <1>9

-----------------------------------------------------------------------------
(* UploadSymbols.                                                          *)

\* The loop over a blob at the position p: whether it ends there, where it goes on
\* otherwise, what it finds, and what it gives if it gives h further on.
Onward(blob, p) == p + blob[p + 1]
Ends(blob, p) == p + 4 > Len(blob) \/ Onward(blob, p) \notin p + 1 .. Len(blob)
Found(blob, p) ==
  LET entry == ParseSymbol(SubSeq(blob, p + 1, Onward(blob, p)))
  IN IF entry.ok THEN <<entry.symbol>> ELSE <<>>
Step(blob, h, p) == IF Ends(blob, p) THEN <<>> ELSE Found(blob, p) \o h[Onward(blob, p)]

\* The recursive function of UploadFrom is there: each position needs later ones only.
LEMMA UploadTurns ==
  ASSUME NEW blob \in Buffers
  PROVE  \E f : /\ \A p \in 0 .. Len(blob) : f[p] = Step(blob, f, p)
                /\ UploadFrom(blob) = f[0]
  <1> DEFINE n == Len(blob)
             From(m) == \E g : \A p \in n - m .. n : g[p] = Step(blob, g, p)
             T == {m \in Nat : m <= n => From(m)}
             E(h) == [p \in 0 .. n |-> Step(blob, h, p)]
  <1>1. n \in Nat
    BY DEF Buffers
  <1>2. ASSUME NEW g, NEW h, NEW p \in 0 .. n, \A r \in p + 1 .. n : g[r] = h[r]
        PROVE  Step(blob, g, p) = Step(blob, h, p)
    <2>1. CASE Ends(blob, p)
      BY <2>1, Zenon DEF Step
    <2>2. CASE ~Ends(blob, p)
      <3>1. Onward(blob, p) \in p + 1 .. n
        BY <2>2, Zenon DEF Ends
      <3>2. g[Onward(blob, p)] = h[Onward(blob, p)]
        BY <1>2, <3>1, Zenon
      <3> QED BY <2>2, <3>2, Zenon DEF Step
    <2> QED BY <2>1, <2>2
  <1> HIDE DEF n
  <1>3. From(0)
    <2> DEFINE g == [p \in 0 .. n |-> <<>>]
    <2>1. \A p \in n - 0 .. n : g[p] = <<>> /\ p = n
      BY <1>1
    <2>2. Ends(blob, n)
      BY <1>1 DEF Ends, n
    <2>3. Step(blob, g, n) = <<>>
      BY <2>2, Zenon DEF Step
    <2> HIDE DEF g
    <2>4. \A p \in n - 0 .. n : g[p] = Step(blob, g, p)
      BY <2>1, <2>3, Zenon
    <2> QED BY <2>4, Zenon
  <1>4. ASSUME NEW m \in Nat, m + 1 <= n, From(m) PROVE From(m + 1)
    <2>1. PICK g : \A p \in n - m .. n : g[p] = Step(blob, g, p)
      BY <1>4
    <2> DEFINE k == n - (m + 1)
               x == Step(blob, g, k)
               h == [p \in 0 .. n |-> IF p = k THEN x ELSE g[p]]
    <2>2. k \in 0 .. n /\ k + 1 = n - m /\ k < n
      BY <1>1, <1>4
    <2> HIDE DEF x, k
    <2>3. h[k] = x /\ \A p \in k + 1 .. n : h[p] = g[p]
      BY <1>1, <2>2
    <2> HIDE DEF h
    <2>4. ASSUME NEW p \in k .. n PROVE h[p] = Step(blob, h, p)
      <3>1. p \in 0 .. n /\ \A r \in p + 1 .. n : r \in k + 1 .. n
        BY <1>1, <2>2
      <3>2. \A r \in p + 1 .. n : g[r] = h[r]
        BY <2>3, <3>1
      <3>3. Step(blob, g, p) = Step(blob, h, p)
        BY <1>2, <3>1, <3>2
      <3>4. CASE p = k
        BY <2>3, <3>3, <3>4 DEF x
      <3>5. CASE p # k
        <4>1. p \in n - m .. n /\ p \in k + 1 .. n
          BY <1>1, <2>2, <3>5
        <4>2. g[p] = Step(blob, g, p) /\ h[p] = g[p]
          BY <2>1, <2>3, <4>1
        <4> QED BY <3>3, <4>2
      <3> QED BY <3>4, <3>5
    <2>5. \A p \in k .. n : h[p] = Step(blob, h, p)
      BY <2>4
    <2> QED BY <2>5, Zenon DEF k
  <1> HIDE DEF From
  <1>5. T = Nat
    <2>1. T \subseteq Nat /\ 0 \in T
      BY <1>3
    <2>2. ASSUME NEW m \in T PROVE m + 1 \in T
      <3>1. m + 1 <= n => m <= n
        BY <1>1
      <3>2. m + 1 <= n => From(m + 1)
        BY <1>4, <3>1
      <3> QED BY <3>2
    <2> HIDE DEF T
    <2> QED BY <2>1, <2>2, SetInduction
  <1>6. PICK g : \A p \in 0 .. n : g[p] = Step(blob, g, p)
    <2>1. From(n)
      BY <1>1, <1>5
    <2>2. n - n = 0
      BY <1>1
    <2> QED BY <2>1, <2>2, Zenon DEF From
  <1> DEFINE h == [p \in 0 .. n |-> g[p]]
             f == CHOOSE e : e = E(e)
  <1>7. h = E(h)
    <2>1. ASSUME NEW p \in 0 .. n PROVE g[p] = Step(blob, h, p)
      <3>1. \A r \in p + 1 .. n : g[r] = h[r]
        BY <1>1
      <3> HIDE DEF h
      <3>2. Step(blob, g, p) = Step(blob, h, p)
        BY <1>2, <3>1
      <3> QED BY <1>6, <3>2
    <2> HIDE DEF Step
    <2> QED BY <2>1, Zenon
  <1>8. f = E(f)
    <2> HIDE DEF E, h
    <2> QED BY <1>7, Zenon
  <1>9. UploadFrom(blob) = f[0]
    BY Zenon DEF UploadFrom, Step, Ends, Found, Onward, n
  <1> HIDE DEF f
  <1>10. \A p \in 0 .. n : f[p] = Step(blob, f, p)
    BY <1>8
  <1> QED BY <1>9, <1>10, Zenon DEF n

LEMMA EntryType ==
  ASSUME NEW s \in Symbols
  PROVE  /\ EncodeSymbol(s) \in Buffers /\ EncodeSymbol(s) # <<>>
         /\ Len(EncodeSymbol(s)) \in Nat /\ Len(EncodeSymbol(s)) >= 30
         /\ EncodeSymbol(s)[1] = Len(EncodeSymbol(s))
         /\ ParseSymbol(EncodeSymbol(s)).ok
  <1> DEFINE e == EncodeSymbol(s)
             z == Cat(SymbolTexts(s), SymbolExtras(s))
  <1>1. e \in Buffers /\ z \in Buffers /\ Len(e) = 30 + Len(z) /\ e[1] = Len(e)
    BY SymbolEncoded
  <1> HIDE DEF e, z
  <1>2. Len(e) \in Nat /\ Len(z) \in Nat
    BY <1>1 DEF Buffers
  <1>3. Len(e) >= 30 /\ e # <<>>
    BY <1>1, <1>2
  <1>4. Len(e) \in 0 .. Len(e) /\ Cut(e, Len(e)) = e
    BY <1>1, <1>2, CutWhole
  <1>5. Recovered(s, ParseSymbol(Cut(e, Len(e))), Len(e) = Len(e))
    BY <1>4, SymbolParsed DEF e
  <1>6. ParseSymbol(e).ok
    BY <1>4, <1>5, Zenon DEF Recovered
  <1> QED BY <1>1, <1>2, <1>3, <1>6 DEF e

SymbolParts(ss) == [k \in DOMAIN ss |-> EncodeSymbol(ss[k])]

LEMMA SymbolPartsType ==
  ASSUME NEW ss \in Seq(Symbols)
  PROVE  /\ SymbolParts(ss) \in Seq(Buffers)
         /\ Len(SymbolParts(ss)) = Len(ss)
         /\ \A k \in 1 .. Len(ss) : SymbolParts(ss)[k] = EncodeSymbol(ss[k])
                                      /\ SymbolParts(ss)[k] # <<>>
         /\ Concat(EncodeSymbol, ss) = FlattenSeq(SymbolParts(ss))
         /\ Concat(EncodeSymbol, ss) \in Buffers
  <1>1. \A s \in Symbols : EncodeSymbol(s) \in Buffers /\ EncodeSymbol(s) # <<>>
    BY EntryType
  <1>2. DOMAIN ss = 1 .. Len(ss) /\ \A k \in 1 .. Len(ss) : ss[k] \in Symbols
    OBVIOUS
  <1> DEFINE parts == [k \in 1 .. Len(ss) |-> EncodeSymbol(ss[k])]
  <1>3. \A k \in 1 .. Len(ss) : EncodeSymbol(ss[k]) \in Buffers /\ EncodeSymbol(ss[k]) # <<>>
    BY <1>1, <1>2
  <1>4. parts \in Seq(Buffers) /\ Len(parts) = Len(ss)
    BY <1>3
  <1>5. \A k \in 1 .. Len(ss) : parts[k] = EncodeSymbol(ss[k]) /\ parts[k] # <<>>
    BY <1>3
  <1> HIDE DEF parts
  <1>6. SymbolParts(ss) = parts
    BY <1>2 DEF SymbolParts, parts
  <1>7. Concat(EncodeSymbol, ss) = FlattenSeq(SymbolParts(ss))
    BY DEF Concat, SymbolParts
  <1> QED BY <1>4, <1>5, <1>6, <1>7, FlattenType

\* What the entries of a table are parsed to, one by one.
AllParsed(ss) == [k \in DOMAIN ss |-> ParseSymbol(EncodeSymbol(ss[k])).symbol]

\* Of the first m bytes of any table, the loop of UploadSymbols gives the first symbols;
\* of all of them, all (client_symbols.go:73-87).
THEOREM TableParsed ==
  ASSUME NEW ss \in Seq(Symbols), NEW m \in 0 .. Len(EncodeTable(ss))
  PROVE  \E j \in 0 .. Len(ss) :
           /\ UploadFrom(Cut(EncodeTable(ss), m)) = SubSeq(AllParsed(ss), 1, j)
           /\ m = Len(EncodeTable(ss)) => j = Len(ss)
  <1> DEFINE n == Len(ss)
             parts == SymbolParts(ss)
             whole == EncodeTable(ss)
             blob == Cut(whole, m)
             all == AllParsed(ss)
             Some(v, k) == \E j \in k .. n : v = SubSeq(all, k + 1, j) /\ (m = Len(whole) => j = n)
  <1>1. /\ n \in Nat /\ parts \in Seq(Buffers) /\ Len(parts) = n
        /\ \A k \in 1 .. n : parts[k] = EncodeSymbol(ss[k]) /\ ss[k] \in Symbols
        /\ whole = FlattenSeq(parts) /\ whole \in Buffers
    <2>1. n \in Nat /\ \A k \in 1 .. n : ss[k] \in Symbols
      OBVIOUS
    <2> HIDE DEF parts
    <2>2. /\ parts \in Seq(Buffers) /\ Len(parts) = n
          /\ \A k \in 1 .. n : parts[k] = EncodeSymbol(ss[k])
      BY SymbolPartsType DEF parts
    <2>3. whole = FlattenSeq(parts) /\ whole \in Buffers
      BY SymbolPartsType DEF EncodeTable, parts
    <2> QED BY <2>1, <2>2, <2>3
  <1>2. /\ Len(all) = n /\ all \in Seq({all[k] : k \in 1 .. n})
        /\ \A k \in 1 .. n : all[k] = ParseSymbol(EncodeSymbol(ss[k])).symbol
    <2>1. DOMAIN ss = 1 .. n
      OBVIOUS
    <2>2. all = [k \in 1 .. n |-> ParseSymbol(EncodeSymbol(ss[k])).symbol]
      BY <2>1, Zenon DEF AllParsed
    <2> HIDE DEF all, n
    <2>3. \A k \in 1 .. n : all[k] = ParseSymbol(EncodeSymbol(ss[k])).symbol
      BY <2>2
    <2> DEFINE V == {all[k] : k \in 1 .. n}
    <2>4. \A k \in 1 .. n : all[k] \in V
      OBVIOUS
    <2>5. DOMAIN all = 1 .. n /\ all = [k \in 1 .. n |-> all[k]]
      BY <2>2
    <2> HIDE DEF V
    <2>6. n \in Nat
      BY <1>1
    <2>7. all \in Seq(V) /\ Len(all) = n
      BY <2>4, <2>5, <2>6
    <2> QED BY <2>3, <2>7 DEF V
  <1>3. m \in Nat /\ m <= Len(whole) /\ Len(whole) \in Nat
    <2> HIDE DEF whole
    <2>1. Len(whole) \in Nat
      BY <1>1 DEF Buffers
    <2>2. m \in 0 .. Len(whole)
      BY DEF whole
    <2> QED BY <2>1, <2>2
  <1> HIDE DEF n, parts, whole, all
  <1>4. blob \in Buffers /\ Len(blob) = m /\ \A k \in 1 .. m : blob[k] = whole[k]
    BY <1>1, <1>3, CutType
  <1> HIDE DEF blob
  <1>5. PICK f : (\A p \in 0 .. Len(blob) : f[p] = Step(blob, f, p)) /\ UploadFrom(blob) = f[0]
    BY <1>4, UploadTurns
  <1> DEFINE Good(k) == \A p \in 0 .. m : Behind(whole, p, Rest(parts, k)) => Some(f[p], k)
             T == {l \in Nat : l <= n => Good(n - l)}
  <1>6. Good(n)
    <2> SUFFICES ASSUME NEW p \in 0 .. m, Behind(whole, p, Rest(parts, n)) PROVE Some(f[p], n)
      OBVIOUS
    <2>1. Rest(parts, n) = <<>>
      BY <1>1, RestSteps
    <2>2. p = Len(whole)
      BY <1>3, <2>1 DEF Behind
    <2>3. p + 4 > Len(blob) /\ p \in 0 .. Len(blob)
      BY <1>3, <1>4, <2>2
    <2>4. f[p] = <<>>
      BY <1>5, <2>3, Zenon DEF Step, Ends
    <2>5. SubSeq(all, n + 1, n) = <<>> /\ n \in n .. n
      BY <1>1, <1>2
    <2> QED BY <2>4, <2>5
  <1>7. ASSUME NEW k \in 0 .. n - 1, Good(k + 1) PROVE Good(k)
    <2> SUFFICES ASSUME NEW p \in 0 .. m, Behind(whole, p, Rest(parts, k)) PROVE Some(f[p], k)
      OBVIOUS
    <2> DEFINE s == ss[k + 1]
               e == EncodeSymbol(s)
               y == Rest(parts, k + 1)
               end == p + Len(e)
    <2>1. k + 1 \in 1 .. n /\ k \in 0 .. Len(parts) - 1 /\ k + 1 \in 0 .. Len(parts)
      BY <1>1
    <2>2. s \in Symbols /\ parts[k + 1] = e
      BY <1>1, <2>1
    <2>3. e \in Buffers /\ Len(e) \in Nat /\ Len(e) >= 30 /\ e[1] = Len(e) /\ ParseSymbol(e).ok
      BY <2>2, EntryType
    <2>4. y \in Buffers
      BY <1>1, <2>1, RestSteps
    <2>5. Rest(parts, k) = Cat(e, y)
      <3>1. Rest(parts, k) = parts[k + 1] \o Rest(parts, k + 1)
        BY <1>1, <2>1, RestSteps
      <3> QED BY <2>2, <3>1, Zenon DEF Cat
    <2> HIDE DEF s, e, y
    <2>6. Behind(whole, p, Cat(e, y))
      BY <2>5, Zenon
    <2>7. Behind(whole, end, y)
      BY <2>3, <2>4, <2>6, BehindAgain
    <2>8. Len(y) \in Nat /\ Len(Cat(e, y)) = Len(e) + Len(y)
      BY <2>3, <2>4, CatLaws DEF Buffers
    <2>9. whole[p + 1] = Len(e)
      <3>1. 1 \in 1 .. Len(Cat(e, y)) /\ 1 \in 1 .. Len(e)
        BY <2>3, <2>8
      <3>2. whole[p + 1] = Cat(e, y)[1]
        BY <2>6, <3>1, BehindFirst
      <3>3. Cat(e, y)[1] = e[1]
        BY <2>3, <2>4, <3>1, BufferConcat DEF Cat
      <3> QED BY <2>3, <3>2, <3>3
    <2>10. end <= Len(whole) /\ end \in Nat /\ end >= p + 30
      BY <1>3, <2>3, <2>7, <2>8 DEF Behind
    <2>11. CASE Ends(blob, p)
      <3>1. f[p] = <<>>
        BY <1>4, <1>5, <2>11 DEF Step
      <3>2. m # Len(whole)
        <4> SUFFICES ASSUME m = Len(whole) PROVE FALSE
          OBVIOUS
        <4>1. p + 1 \in 1 .. m /\ ~(p + 4 > Len(blob))
          BY <1>3, <1>4, <2>10
        <4>2. Onward(blob, p) = end
          BY <1>4, <2>9, <4>1 DEF Onward
        <4>3. end \in p + 1 .. Len(blob)
          BY <1>3, <1>4, <2>10
        <4> QED BY <2>11, <4>1, <4>2, <4>3 DEF Ends
      <3>3. SubSeq(all, k + 1, k) = <<>> /\ k \in k .. n
        BY <1>1, <1>2
      <3> QED BY <3>1, <3>2, <3>3
    <2>12. CASE ~Ends(blob, p)
      <3>1. p + 1 \in 1 .. m
        BY <1>3, <1>4, <2>12 DEF Ends
      <3>2. Onward(blob, p) = end
        BY <1>4, <2>9, <3>1 DEF Onward
      <3>3. end \in 0 .. m
        BY <1>4, <2>10, <2>12, <3>2 DEF Ends
      <3>4. SubSeq(blob, p + 1, end) = e
        <4> DEFINE l == Len(e)
        <4>1. p \in Nat /\ l \in Nat /\ p + l <= Len(whole) /\ p + l <= m
          BY <2>3, <2>10, <3>3
        <4> HIDE DEF l
        <4>2. SubSeq(blob, p + 1, p + l) = SubSeq(whole, p + 1, p + l)
          BY <1>1, <1>3, <4>1 DEF blob, Cut, Buffers
        <4>3. SubSeq(whole, p + 1, p + l) = Cut(Drop(whole, p), l)
          BY <1>1, <4>1, FieldBehind
        <4>4. Drop(whole, p) = Cat(e, y)
          BY <2>6 DEF Behind
        <4>5. Cut(Cat(e, y), Len(e)) = e
          BY <2>3, <2>4, DropConcat DEF Cat, Cut
        <4> QED BY <4>2, <4>3, <4>4, <4>5 DEF l
      <3>5. Found(blob, p) = <<all[k + 1]>>
        <4>1. all[k + 1] = ParseSymbol(e).symbol
          BY <1>2, <2>1, Zenon DEF e, s
        <4> QED BY <2>3, <3>2, <3>4, <4>1, Zenon DEF Found
      <3>6. Some(f[end], k + 1)
        BY <1>7, <2>7, <3>3 DEF y
      <3>7. PICK j \in k + 1 .. n : f[end] = SubSeq(all, (k + 1) + 1, j) /\ (m = Len(whole) => j = n)
        BY <3>6
      <3>8. f[p] = <<all[k + 1]>> \o f[end]
        <4>1. p \in 0 .. Len(blob)
          BY <1>4
        <4>2. f[p] = Step(blob, f, p)
          BY <1>5, <4>1
        <4> QED BY <2>12, <3>2, <3>5, <4>2, Zenon DEF Step
      <3>9. <<all[k + 1]>> \o SubSeq(all, (k + 1) + 1, j) = SubSeq(all, k + 1, j)
        BY <1>1, <1>2, <2>1, <3>7
      <3>10. f[p] = SubSeq(all, k + 1, j) /\ j \in k .. n
        BY <1>1, <3>7, <3>8, <3>9
      <3> QED BY <3>7, <3>10
    <2> QED BY <2>11, <2>12
  <1> HIDE DEF Good, Some
  <1>8. T = Nat
    <2>1. T \subseteq Nat /\ 0 \in T
      <3>1. n - 0 = n
        BY <1>1
      <3> QED BY <1>6, <3>1
    <2>2. ASSUME NEW l \in T PROVE l + 1 \in T
      <3> SUFFICES ASSUME l + 1 <= n PROVE Good(n - (l + 1))
        OBVIOUS
      <3> DEFINE k == n - (l + 1)
      <3>1. k \in 0 .. n - 1 /\ k + 1 = n - l /\ l <= n
        BY <1>1
      <3>2. Good(n - l)
        BY <3>1
      <3> HIDE DEF k
      <3>3. Good(k + 1)
        BY <3>1, <3>2
      <3>4. Good(k)
        BY <1>7, <3>1, <3>3
      <3> QED BY <3>4 DEF k
    <2> HIDE DEF T
    <2> QED BY <2>1, <2>2, SetInduction
  <1>9. Good(0)
    <2>0. n \in Nat
      BY <1>1
    <2>1. n <= n /\ n - n = 0
      BY <2>0
    <2>3. n \in T
      <3> HIDE DEF T
      <3> QED BY <1>8, <2>0, Zenon
    <2>4. n <= n => Good(n - n)
      BY <2>3
    <2>2. Good(n - n)
      BY <2>1, <2>4
    <2> QED BY <2>1, <2>2
  <1>10. Behind(whole, 0, Rest(parts, 0))
    <2>1. Rest(parts, 0) = whole
      BY <1>1, RestSteps
    <2>2. Drop(whole, 0) = whole /\ Len(whole) = 0 + Len(whole)
      BY <1>1, <1>3, EmptyBuffer
    <2> QED BY <1>1, <2>1, <2>2 DEF Behind
  <1>11. Some(f[0], 0)
    <2>1. 0 \in 0 .. m
      BY <1>3
    <2> QED BY <1>9, <1>10, <2>1 DEF Good
  <1>12. PICK j \in 0 .. n : f[0] = SubSeq(all, 0 + 1, j) /\ (m = Len(whole) => j = n)
    BY <1>11 DEF Some
  <1>13. 0 + 1 = 1
    OBVIOUS
  <1>14. UploadFrom(blob) = SubSeq(all, 1, j)
    BY <1>5, <1>12, <1>13
  <1> QED BY <1>12, <1>14, Zenon DEF n, blob, whole, all

-----------------------------------------------------------------------------
(* The client and the PLC.                                                 *)

\* The size that UploadInfo gave is that of the table, as long as no download came.
InfoInv ==
  /\ info.size \in Nat /\ info.of \in Nat /\ downloads \in Nat
  /\ info.of <= downloads
  /\ info # NoInfo /\ info.of = downloads => info.size = Len(Blob)

AnswersInv == table \in Seq(Symbols) /\ InfoInv /\ AnswersParsed

LEMMA TablesAreSymbols ==
  /\ Tables[1] \in Seq(Symbols)
  /\ \A t \in Range(Tables) : t \in Seq(Symbols)
  <1>1. Tables \in Seq(Seq(Symbols)) /\ Tables # <<>>
    BY TablesAssumption
  <1>2. 1 \in 1 .. Len(Tables) /\ DOMAIN Tables = 1 .. Len(Tables)
        /\ \A k \in 1 .. Len(Tables) : Tables[k] \in Seq(Symbols)
    BY <1>1
  <1> QED BY <1>2, Zenon DEF Range

LEMMA BlobType ==
  ASSUME table \in Seq(Symbols)
  PROVE  Blob \in Buffers /\ Len(Blob) \in Nat
  <1>1. Blob \in Buffers
    BY SymbolPartsType DEF Blob, EncodeTable
  <1> QED BY <1>1 DEF Buffers

LEMMA NothingParsed ==
  ASSUME asked = NothingAsked
  PROVE  AnswersParsed
  <1>1. asked.kind = "nothing"
    BY DEF NothingAsked
  <1>2. "nothing" # "symbol" /\ "nothing" # "notification" /\ "nothing" # "upload"
    OBVIOUS
  <1> QED BY <1>1, <1>2, Zenon DEF AnswersParsed, SymbolsParsed, SamplesParsed, UploadIsPrefix

LEMMA AnswersInitially ==
  ASSUME AnswersInit
  PROVE  AnswersInv
  <1>1. table \in Seq(Symbols)
    BY TablesAreSymbols DEF AnswersInit
  <1>2. InfoInv
    BY DEF AnswersInit, InfoInv, NoInfo
  <1>3. AnswersParsed
    BY NothingParsed DEF AnswersInit
  <1> QED BY <1>1, <1>2, <1>3 DEF AnswersInv

LEMMA GetSymbolStep ==
  ASSUME NEW s \in Symbols, NEW n \in 0 .. Len(EncodeSymbol(s)), GetSymbol(s, n)
  PROVE  AnswersParsed'
  <1> DEFINE full == EncodeSymbol(s)
             data == Cut(full, n)
  <1>1. asked' = [kind |-> "symbol", what |-> s, cut |-> n < Len(full),
                  valid |-> CheckSymbol(data), parsed |-> ParseSymbol(data)]
    BY Zenon DEF GetSymbol, Cut
  <1>2. /\ Recovered(s, ParseSymbol(data), n = Len(full))
        /\ ParseSymbol(data).ok => CheckSymbol(data)
    BY SymbolParsed
  <1>3. ~(n < Len(full)) => n = Len(full)
    <2> DEFINE l == Len(full)
    <2>1. l \in Nat
      BY EntryType
    <2>2. n \in 0 .. l
      OBVIOUS
    <2> HIDE DEF l
    <2>3. ~(n < l) => n = l
      BY <2>1, <2>2
    <2> QED BY <2>3 DEF l
  <1> DEFINE c == n < Len(full)
             v == CheckSymbol(data)
             p == ParseSymbol(data)
  <1> HIDE DEF c, v, p
  <1>4. asked' = [kind |-> "symbol", what |-> s, cut |-> c, valid |-> v, parsed |-> p]
    BY <1>1, Zenon DEF c, v, p
  <1>5. asked'.kind = "symbol" /\ asked'.what = s /\ asked'.cut = c /\ asked'.valid = v
        /\ asked'.parsed = p
    BY <1>4
  <1>6. "symbol" # "notification" /\ "symbol" # "upload"
    OBVIOUS
  <1>7. Recovered(s, p, ~c) /\ (p.ok => v)
    BY <1>2, <1>3, Zenon DEF c, v, p, Recovered
  <1>8. SymbolsParsed'
    BY <1>5, <1>7, Zenon DEF SymbolsParsed, Recovered
  <1>9. SamplesParsed' /\ UploadIsPrefix'
    BY <1>5, <1>6, Zenon DEF SamplesParsed, UploadIsPrefix
  <1> QED BY <1>8, <1>9 DEF AnswersParsed

LEMMA NotifiedStep ==
  ASSUME NEW n \in Notifications, Notified(n)
  PROVE  AnswersParsed'
  <1> DEFINE r == parseNotification(Notification(n))
  <1>1. n \in Seq(Stamps)
    BY NotificationsAssumption
  <1>2. \/ r.ok /\ r.t = n
        \/ ~r.ok /\ Last(Last(n).samples).payload = <<>>
    BY <1>1, NotificationIsParsed
  <1>3. asked' = [kind |-> "notification", what |-> n, parsed |-> r]
    BY Zenon DEF Notified
  <1> HIDE DEF r
  <1>4. asked'.kind = "notification" /\ asked'.what = n /\ asked'.parsed = r
    BY <1>3
  <1>5. "notification" # "symbol" /\ "notification" # "upload"
    OBVIOUS
  <1>6. SamplesParsed'
    BY <1>2, <1>4, Zenon DEF SamplesParsed
  <1>7. SymbolsParsed' /\ UploadIsPrefix'
    BY <1>4, <1>5, Zenon DEF SymbolsParsed, UploadIsPrefix
  <1> QED BY <1>6, <1>7 DEF AnswersParsed

LEMMA UploadStep ==
  ASSUME AnswersInv, UploadSymbols
  PROVE  AnswersParsed'
  <1> DEFINE b == EncodeTable(table)
             m == Min({info.size, Len(b)})
             p == UploadFrom(Cut(b, m))
             all == AllParsed(table)
  <1>1. table \in Seq(Symbols) /\ InfoInv
    BY DEF AnswersInv
  <1>2. Len(b) \in Nat
    BY <1>1, BlobType DEF Blob
  <1>3. info.size \in Nat /\ (info.of = downloads => info.size = Len(b))
    BY <1>1 DEF InfoInv, UploadSymbols, Blob
  <1>4. m \in 0 .. Len(b) /\ (info.of = downloads => m = Len(b))
    <2> DEFINE i == info.size
               l == Len(b)
    <2>1. i \in Nat /\ l \in Nat /\ (info.of = downloads => i = l)
      BY <1>2, <1>3
    <2> HIDE DEF i, l
    <2>2. Min({i, l}) = IF i <= l THEN i ELSE l
      BY <2>1, MinOfTwo
    <2> QED BY <2>1, <2>2 DEF i, l
  <1>5. asked' = [kind |-> "upload", what |-> table, parsed |-> p]
    BY Zenon DEF UploadSymbols, Blob, Cut
  <1>6. downloads' = downloads /\ info' = info
    BY DEF UploadSymbols, uploadVars
  <1> HIDE DEF m
  <1>7. PICK j \in 0 .. Len(table) :
          p = SubSeq(all, 1, j) /\ (m = Len(b) => j = Len(table))
    BY <1>1, <1>4, TableParsed
  <1>8. IsPrefix(p, all) /\ (info.of = downloads => p = all)
    <2>1. DOMAIN table = 1 .. Len(table) /\ Len(table) \in Nat
      BY <1>1
    <2>2. all = [k \in 1 .. Len(table) |-> ParseSymbol(EncodeSymbol(table[k])).symbol]
      BY <2>1, Zenon DEF AllParsed
    <2> DEFINE n == Len(table)
               V == {all[k] : k \in 1 .. n}
    <2> HIDE DEF n, all, p
    <2>3. \A k \in 1 .. n : all[k] \in V
      OBVIOUS
    <2>4. all = [k \in 1 .. n |-> all[k]] /\ n \in Nat
      BY <2>1, <2>2 DEF n
    <2> HIDE DEF V
    <2>5. all \in Seq(V) /\ Len(all) = n
      BY <2>3, <2>4
    <2>6. j \in 0 .. n /\ p = SubSeq(all, 1, j) /\ (m = Len(b) => j = n)
      BY <1>7 DEF n
    <2>7. Len(p) <= Len(all) /\ SubSeq(p, 1, Len(p)) = SubSeq(all, 1, Len(p))
      BY <2>4, <2>5, <2>6
    <2>8. SubSeq(all, 1, n) = all
      BY <2>5
    <2>9. IsPrefix(p, all)
      BY <2>7 DEF IsPrefix
    <2> QED BY <1>4, <2>6, <2>8, <2>9
  <1> HIDE DEF p
  <1>9. asked'.kind = "upload" /\ asked'.what = table /\ asked'.parsed = p
    BY <1>5
  <1>10. "upload" # "symbol" /\ "upload" # "notification"
    OBVIOUS
  <1>11. UploadIsPrefix'
    BY <1>6, <1>8, <1>9, Zenon DEF UploadIsPrefix, AllParsed
  <1>12. SymbolsParsed' /\ SamplesParsed'
    BY <1>9, <1>10, Zenon DEF SymbolsParsed, SamplesParsed
  <1> QED BY <1>11, <1>12 DEF AnswersParsed

LEMMA AnswersStep ==
  ASSUME AnswersInv, [AnswersNext]_answerVars
  PROVE  AnswersInv'
  <1>0. table \in Seq(Symbols) /\ InfoInv /\ AnswersParsed
    BY DEF AnswersInv
  <1>1. ASSUME UNCHANGED uploadVars PROVE table' \in Seq(Symbols) /\ InfoInv'
    <2>1. table' = table /\ downloads' = downloads /\ info' = info
      BY <1>1 DEF uploadVars
    <2>2. Blob' = Blob
      BY <2>1 DEF Blob
    <2> QED BY <1>0, <2>1, <2>2 DEF InfoInv
  <1>2. ASSUME NEW s \in Symbols, NEW n \in 0 .. Len(EncodeSymbol(s)), GetSymbol(s, n)
        PROVE  AnswersInv'
    BY <1>1, <1>2, GetSymbolStep DEF GetSymbol, AnswersInv
  <1>3. ASSUME NEW n \in Notifications, Notified(n) PROVE AnswersInv'
    BY <1>1, <1>3, NotifiedStep DEF Notified, AnswersInv
  <1>4. ASSUME UploadInfo PROVE AnswersInv'
    <2>1. /\ asked' = NothingAsked /\ table' = table /\ downloads' = downloads
          /\ info' = [size |-> Len(Blob), count |-> Len(table), of |-> downloads]
      BY <1>4 DEF UploadInfo
    <2>2. Blob' = Blob
      BY <2>1 DEF Blob
    <2>3. Len(Blob) \in Nat
      BY <1>0, BlobType
    <2>4. InfoInv'
      <3> DEFINE l == Len(Blob)
                 c == Len(table)
      <3> HIDE DEF l, c
      <3>1. info' = [size |-> l, count |-> c, of |-> downloads]
        BY <2>1 DEF l, c
      <3>2. info'.size = l /\ info'.of = downloads
        BY <3>1
      <3>3. l \in Nat /\ Len(Blob') = l
        BY <2>2, <2>3 DEF l
      <3> QED BY <1>0, <2>1, <3>2, <3>3 DEF InfoInv
    <2>5. AnswersParsed'
      <3>1. asked'.kind = "nothing"
        BY <2>1 DEF NothingAsked
      <3>2. "nothing" # "symbol" /\ "nothing" # "notification" /\ "nothing" # "upload"
        OBVIOUS
      <3> QED BY <3>1, <3>2, Zenon DEF AnswersParsed, SymbolsParsed, SamplesParsed, UploadIsPrefix
    <2> QED BY <1>0, <2>1, <2>4, <2>5 DEF AnswersInv
  <1>5. ASSUME Download PROVE AnswersInv'
    <2>1. /\ asked' = NothingAsked /\ info' = info /\ downloads' = downloads + 1
          /\ table' \in Range(Tables)
      BY <1>5 DEF Download
    <2>2. table' \in Seq(Symbols)
      BY <2>1, TablesAreSymbols
    <2>3. info.of <= downloads' /\ info.of # downloads' /\ downloads' \in Nat
      BY <1>0, <2>1 DEF InfoInv
    <2>4. InfoInv'
      BY <1>0, <2>1, <2>3 DEF InfoInv
    <2>5. AnswersParsed'
      <3>1. asked'.kind = "nothing"
        BY <2>1 DEF NothingAsked
      <3>2. "nothing" # "symbol" /\ "nothing" # "notification" /\ "nothing" # "upload"
        OBVIOUS
      <3> QED BY <3>1, <3>2, Zenon DEF AnswersParsed, SymbolsParsed, SamplesParsed, UploadIsPrefix
    <2> QED BY <2>2, <2>4, <2>5 DEF AnswersInv
  <1>6. ASSUME UploadSymbols PROVE AnswersInv'
    BY <1>1, <1>6, UploadStep DEF UploadSymbols, AnswersInv
  <1>7. ASSUME UNCHANGED answerVars PROVE AnswersInv'
    <2>1. UNCHANGED uploadVars /\ asked' = asked
      BY <1>7 DEF answerVars
    <2>2. downloads' = downloads /\ info' = info
      BY <2>1 DEF uploadVars
    <2>3. AnswersParsed'
      BY <1>0, <2>1, <2>2, Zenon DEF AnswersParsed, SymbolsParsed, SamplesParsed, UploadIsPrefix
    <2> QED BY <1>1, <2>1, <2>3 DEF AnswersInv
  <1> QED BY <1>2, <1>3, <1>4, <1>5, <1>6, <1>7 DEF AnswersNext

\* What the client makes of an answer is what the PLC said in it: the fields of a
\* symbol wherever its entry was cut, every sample of a notification, and of a table
\* the first symbols, all of them if no download came between the two requests
\* (ads-symbol/parse.go:37-189, client_subscriptions.go:249-313, client_symbols.go:41-87).
THEOREM AnswersAreParsed == AnswersSpec => []AnswersParsed
  <1>1. AnswersInit => AnswersInv
    BY AnswersInitially
  <1>2. AnswersInv /\ [AnswersNext]_answerVars => AnswersInv'
    BY AnswersStep
  <1>3. AnswersInv => AnswersParsed
    BY DEF AnswersInv
  <1> QED BY <1>1, <1>2, <1>3, PTL DEF AnswersSpec
=============================================================================
