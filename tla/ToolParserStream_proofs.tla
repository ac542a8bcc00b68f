----------------------- MODULE ToolParserStream_proofs ----------------------
(***************************************************************************)
(* Proofs about the streaming tool-call parser, for every set of pieces of *)
(* text, of any length, cut anywhere.                                      *)
(***************************************************************************)
EXTENDS ToolParserStream, SequenceTheorems, FiniteSetTheorems,
        WellFoundedInduction, TLAPS

-----------------------------------------------------------------------------
(* Induction and recursion.                                                *)

(* A set of numbers that is not empty has a least one: what an induction   *)
(* over data comes down to here.                                           *)
LEMMA LeastNumber ==
  ASSUME NEW T, T \subseteq Nat, T # {}
  PROVE  \E m \in T : \A n \in T : m <= n
<1> DEFINE R == OpToRel(<, Nat)
<1>1. IsWellFoundedOn(R, Nat)
  BY NatLessThanWellFounded
<1> HIDE DEF R
<1>2. PICK m \in T : \A n \in T : ~(<<n, m>> \in R)
  BY <1>1, WFMin
<1>3. \A x, y \in Nat : x < y => <<x, y>> \in R
  BY DEF R, OpToRel
<1>4. ASSUME NEW n \in T PROVE m <= n
  <2>1. n \in Nat /\ m \in Nat /\ ~(<<n, m>> \in R)
    BY <1>2
  <2>2. ~(n < m)
    BY <1>3, <2>1, Zenon
  <2> QED
    BY <2>1, <2>2
<1> QED
  BY <1>4

(* Induction over the length of a text: Good holds all texts that hold     *)
(* whenever all shorter ones do.                                           *)
LEMMA TextInduction ==
  ASSUME NEW Good,
         \A t \in Text : (\A u \in Text : Len(u) < Len(t) => u \in Good) => t \in Good
  PROVE  \A t \in Text : t \in Good
<1> SUFFICES ASSUME NEW t \in Text, t \notin Good PROVE FALSE
  OBVIOUS
<1> DEFINE Bad == {n \in Nat : \E u \in Text : Len(u) = n /\ u \notin Good}
<1>1. Bad \subseteq Nat /\ Bad # {}
  <2>1. Len(t) \in Nat
    BY DEF Text
  <2> QED
    BY <2>1
<1>2. PICK n \in Bad : \A k \in Bad : n <= k
  BY <1>1, LeastNumber
<1>3. PICK u \in Text : Len(u) = n /\ u \notin Good
  BY <1>2
<1>4. PICK w \in Text : Len(w) < Len(u) /\ w \notin Good
  BY <1>3
<1>5. Len(w) \in Nat /\ Len(w) \in Bad
  <2>1. Len(w) \in Nat
    BY DEF Text
  <2> QED
    BY <2>1, <1>4
<1> QED
  BY <1>2, <1>3, <1>4, <1>5

(* A function may be defined by recursion if every argument but those in   *)
(* stop leads to a smaller one: there is a function that satisfies the     *)
(* equation, and it returns values in V.                                   *)
Rounds(S, stop, next, base, comb, f) ==
  [x \in S |-> IF x \in stop THEN base[x] ELSE comb[<<x, f[next[x]]>>]]
Recursive(S, V, stop, size, next, base, comb) ==
  /\ stop \in SUBSET S /\ size \in [S -> Nat] /\ next \in [S -> S]
  /\ base \in [S -> V] /\ comb \in [S \X V -> V]
  /\ \A x \in S \ stop : size[next[x]] < size[x]

(* A recursion whose argument shrinks has a solution: the function that a  *)
(* TLA+ recursive function chooses.                                        *)
LEMMA RecursionExists ==
  ASSUME NEW S, NEW V, NEW stop, NEW size, NEW next, NEW base, NEW comb,
         Recursive(S, V, stop, size, next, base, comb)
  PROVE  \E f \in [S -> V] : f = Rounds(S, stop, next, base, comb, f)
<1>0. /\ stop \in SUBSET S /\ size \in [S -> Nat] /\ next \in [S -> S]
      /\ base \in [S -> V] /\ comb \in [S \X V -> V]
      /\ \A x \in S \ stop : size[next[x]] < size[x]
  BY DEF Recursive
<1> USE <1>0
<1> DEFINE Below(n) == {x \in S : size[x] < n}
           Step(f, x) == IF x \in stop THEN base[x] ELSE comb[<<x, f[next[x]]>>]
           Approx(n) == {f \in [Below(n) -> V] : \A x \in Below(n) : f[x] = Step(f, x)}
<1>1. ASSUME NEW m \in Nat, NEW n \in Nat, NEW f \in Approx(m), NEW g \in Approx(n),
             NEW z \in S, size[z] < m, size[z] < n
      PROVE  f[z] = g[z]
  <2> SUFFICES ASSUME f[z] # g[z] PROVE FALSE
    OBVIOUS
  <2> DEFINE Differ == {k \in Nat : \E x \in S : /\ size[x] = k /\ k < m /\ k < n
                                                 /\ f[x] # g[x]}
  <2>1. Differ \subseteq Nat /\ Differ # {}
    <3> HIDE DEF Approx
    <3>1. size[z] \in Nat /\ size[z] < m /\ size[z] < n /\ f[z] # g[z]
      BY <1>1
    <3>2. size[z] \in Differ
      BY <3>1, Zenon
    <3> QED
      BY <3>2
  <2>2. PICK k \in Differ : \A l \in Differ : k <= l
    BY <2>1, LeastNumber
  <2>3. PICK x \in S : size[x] = k /\ k < m /\ k < n /\ f[x] # g[x]
    BY <2>2
  <2>4. x \in Below(m) /\ x \in Below(n)
    BY <2>3
  <2>5. f[x] = Step(f, x) /\ g[x] = Step(g, x)
    BY <2>4
  <2>6. x \notin stop /\ f[next[x]] # g[next[x]]
    BY <2>5, <2>3
  <2>7. next[x] \in S /\ size[next[x]] \in Nat /\ size[next[x]] < k
    BY <2>6, <2>3
  <2>8. size[next[x]] \in Differ
    BY <2>6, <2>7, <2>3, <2>2
  <2> QED
    BY <2>8, <2>7, <2>2
<1>2. \A n \in Nat : Approx(n) # {}
  <2> SUFFICES ASSUME NEW z \in Nat, Approx(z) = {} PROVE FALSE
    OBVIOUS
  <2> DEFINE Empty == {n \in Nat : Approx(n) = {}}
  <2>1. PICK n \in Empty : \A l \in Empty : n <= l
    <3> HIDE DEF Approx
    <3>1. Empty \subseteq Nat /\ z \in Empty
      OBVIOUS
    <3> QED
      BY <3>1, LeastNumber
  <2>2. n \in Nat /\ Approx(n) = {}
    BY <2>1
  <2>3. CASE n = 0
    <3>1. Below(0) = {}
      OBVIOUS
    <3>2. [x \in Below(0) |-> base[x]] \in Approx(0)
      BY <3>1
    <3> QED
      BY <3>2, <2>2, <2>3
  <2>4. CASE n # 0
    <3>1. n - 1 \in Nat /\ ~(n <= n - 1)
      BY <2>2, <2>4
    <3>2. n - 1 \notin Empty
      BY <3>1, <2>1
    <3>3. PICK f : f \in Approx(n - 1)
      BY <3>1, <3>2
    <3> DEFINE g == [x \in Below(n) |-> Step(f, x)]
    <3>4. ASSUME NEW x \in Below(n), x \notin stop
          PROVE  next[x] \in Below(n - 1) /\ next[x] \in Below(n)
      BY <3>4, <2>2
    <3>5. \A x \in Below(n) : Step(f, x) \in V
      BY <3>3, <3>4
    <3>6. ASSUME NEW x \in Below(n) PROVE g[x] = Step(g, x)
      <4>1. CASE x \in stop
        BY <4>1
      <4>2. CASE x \notin stop
        <5>1. next[x] \in Below(n - 1) /\ next[x] \in Below(n)
          BY <3>4, <4>2
        <5>2. f[next[x]] = Step(f, next[x])
          BY <5>1, <3>3
        <5>3. g[next[x]] = Step(f, next[x])
          BY <5>1
        <5> QED
          BY <5>2, <5>3, <4>2
      <4> QED
        BY <4>1, <4>2
    <3>7. g \in Approx(n)
      BY <3>5, <3>6
    <3> QED
      BY <3>7, <2>2
  <2> QED
    BY <2>3, <2>4
<1> DEFINE At(x) == CHOOSE f : f \in Approx(size[x] + 1)
           F == [x \in S |-> At(x)[x]]
<1>3. ASSUME NEW x \in S
      PROVE  size[x] + 1 \in Nat /\ At(x) \in Approx(size[x] + 1)
  <2> HIDE DEF Approx
  <2>1. size[x] + 1 \in Nat
    OBVIOUS
  <2>2. \E f : f \in Approx(size[x] + 1)
    BY <2>1, <1>2
  <2> QED
    BY <2>1, <2>2
<1>4. ASSUME NEW x \in S PROVE F[x] \in V /\ F[x] = Step(F, x)
  <2>1. x \in Below(size[x] + 1)
    OBVIOUS
  <2>2. At(x) \in Approx(size[x] + 1) /\ F[x] = At(x)[x]
    BY <1>3
  <2> HIDE DEF At, F
  <2>3. F[x] \in V /\ F[x] = Step(At(x), x)
    BY <2>1, <2>2
  <2>4. CASE x \in stop
    BY <2>3, <2>4
  <2>5. CASE x \notin stop
    <3>1. next[x] \in S /\ size[next[x]] < size[x] /\ size[x] \in Nat /\ size[next[x]] \in Nat
      BY <2>5
    <3>2. F[next[x]] = At(next[x])[next[x]]
      BY <3>1 DEF F
    <3>3. /\ size[next[x]] + 1 \in Nat /\ size[x] + 1 \in Nat
          /\ size[next[x]] < size[next[x]] + 1 /\ size[next[x]] < size[x] + 1
      BY <3>1
    <3>4. At(next[x]) \in Approx(size[next[x]] + 1)
      BY <3>1, <1>3
    <3> HIDE DEF Approx
    <3>5. At(next[x])[next[x]] = At(x)[next[x]]
      BY <1>1, <2>2, <3>1, <3>3, <3>4
    <3> QED
      BY <2>3, <2>5, <3>2, <3>5
  <2> QED
    BY <2>4, <2>5
<1>5. F \in [S -> V] /\ F = [x \in S |-> Step(F, x)]
  <2> DEFINE G == [x \in S |-> Step(F, x)]
  <2> HIDE DEF F
  <2>1. \A x \in S : F[x] \in V /\ F[x] = G[x]
    BY <1>4
  <2>2. F = [x \in S |-> F[x]] /\ G = [x \in S |-> G[x]]
    BY DEF F
  <2> HIDE DEF G
  <2>3. F = G
    BY <2>1, <2>2
  <2>4. F \in [S -> V]
    BY <2>1, <2>2
  <2> QED
    BY <2>3, <2>4 DEF G
<1>6. F = Rounds(S, stop, next, base, comb, F)
  <2> HIDE DEF F
  <2> QED
    BY <1>5 DEF Rounds
<1> QED
  BY <1>5, <1>6

-----------------------------------------------------------------------------
(* Texts.                                                                  *)

(* A text is a sequence: its places and tokens.                            *)
LEMMA TextPlaces ==
  ASSUME NEW t \in Text
  PROVE  Len(t) \in Nat /\ DOMAIN t = 1 .. Len(t) /\ \A i \in 1 .. Len(t) : t[i] \in STRING
BY DEF Text

(* Texts of the same length with the same tokens are the same.             *)
LEMMA TextEqual ==
  ASSUME NEW s \in Text, NEW t \in Text, Len(s) = Len(t),
         \A i \in 1 .. Len(s) : s[i] = t[i]
  PROVE  s = t
BY SeqEqual DEF Text

(* A piece of a text.                                                      *)
LEMMA Piece ==
  ASSUME NEW t \in Text, NEW i \in 1 .. Len(t) + 1, NEW j \in Int, i - 1 <= j, j <= Len(t)
  PROVE  /\ SubSeq(t, i, j) \in Text
         /\ Len(SubSeq(t, i, j)) = j - i + 1
         /\ \A k \in 1 .. j - i + 1 : SubSeq(t, i, j)[k] = t[i + k - 1]
<1>1. Len(t) \in Nat /\ i \in Int
  BY TextPlaces
<1>2. \A k \in i .. j : t[k] \in STRING
  BY <1>1, TextPlaces
<1>3. /\ SubSeq(t, i, j) \in Seq(STRING)
      /\ Len(SubSeq(t, i, j)) = IF i <= j THEN j - i + 1 ELSE 0
      /\ \A k \in 1 .. j - i + 1 : SubSeq(t, i, j)[k] = t[i + k - 1]
  BY <1>1, <1>2, SubSeqProperties
<1> QED
  BY <1>1, <1>3 DEF Text

(* What From leaves out at the front.                                      *)
LEMMA FromPlaces ==
  ASSUME NEW t \in Text, NEW k \in 0 .. Len(t)
  PROVE  /\ From(t, k + 1) \in Text
         /\ Len(From(t, k + 1)) = Len(t) - k
         /\ \A i \in 1 .. Len(t) - k : From(t, k + 1)[i] = t[k + i]
<1>1. Len(t) \in Nat
  BY TextPlaces
<1>2. k + 1 \in 1 .. Len(t) + 1 /\ k + 1 - 1 <= Len(t) /\ Len(t) \in Int /\ k \in Nat
  BY <1>1
<1>3. /\ SubSeq(t, k + 1, Len(t)) \in Text
      /\ Len(SubSeq(t, k + 1, Len(t))) = Len(t) - (k + 1) + 1
      /\ \A i \in 1 .. Len(t) - (k + 1) + 1 :
           SubSeq(t, k + 1, Len(t))[i] = t[k + 1 + i - 1]
  BY <1>1, <1>2, Piece
<1>4. Len(t) - (k + 1) + 1 = Len(t) - k /\ \A i \in 1 .. Len(t) - k : k + 1 + i - 1 = k + i
  BY <1>1, <1>2
<1>5. From(t, k + 1) = SubSeq(t, k + 1, Len(t))
  BY DEF From
<1>6. Len(From(t, k + 1)) = Len(t) - k /\ From(t, k + 1) \in Text
  BY <1>3, <1>4, <1>5, Zenon
<1>7. ASSUME NEW i \in 1 .. Len(t) - k PROVE From(t, k + 1)[i] = t[k + i]
  <2>1. i \in 1 .. Len(t) - (k + 1) + 1 /\ k + 1 + i - 1 = k + i
    BY <1>4, Zenon
  <2> QED
    BY <2>1, <1>3, <1>5, Zenon
<1> QED
  BY <1>6, <1>7

(* The front of a text.                                                    *)
LEMMA FrontPlaces ==
  ASSUME NEW t \in Text, NEW k \in 0 .. Len(t)
  PROVE  /\ SubSeq(t, 1, k) \in Text
         /\ Len(SubSeq(t, 1, k)) = k
         /\ \A i \in 1 .. k : SubSeq(t, 1, k)[i] = t[i]
<1>1. Len(t) \in Nat
  BY TextPlaces
<1>2. 1 \in 1 .. Len(t) + 1 /\ 1 - 1 <= k /\ k <= Len(t) /\ k \in Int
  BY <1>1
<1>3. /\ SubSeq(t, 1, k) \in Text
      /\ Len(SubSeq(t, 1, k)) = k - 1 + 1
      /\ \A i \in 1 .. k - 1 + 1 : SubSeq(t, 1, k)[i] = t[1 + i - 1]
  BY <1>2, Piece
<1>4. k - 1 + 1 = k /\ \A i \in Int : 1 + i - 1 = i
  BY <1>2
<1> QED
  BY <1>3, <1>4

(* Two texts joined.                                                       *)
LEMMA JoinedPlaces ==
  ASSUME NEW t \in Text, NEW c \in Text
  PROVE  /\ t \o c \in Text
         /\ Len(t \o c) = Len(t) + Len(c)
         /\ \A i \in 1 .. Len(t) : (t \o c)[i] = t[i]
         /\ \A i \in 1 .. Len(c) : (t \o c)[Len(t) + i] = c[i]
<1>1. Len(t) \in Nat /\ Len(c) \in Nat
  BY TextPlaces
<1>2. /\ t \o c \in Seq(STRING)
      /\ Len(t \o c) = Len(t) + Len(c)
      /\ \A i \in 1 .. Len(t) + Len(c) :
           (t \o c)[i] = IF i <= Len(t) THEN t[i] ELSE c[i - Len(t)]
  BY ConcatProperties DEF Text
<1>3. \A i \in 1 .. Len(t) : i \in 1 .. Len(t) + Len(c) /\ i <= Len(t)
  BY <1>1
<1>4. \A i \in 1 .. Len(c) : /\ Len(t) + i \in 1 .. Len(t) + Len(c) /\ ~(Len(t) + i <= Len(t))
                             /\ Len(t) + i - Len(t) = i
  BY <1>1
<1> QED
  BY <1>2, <1>3, <1>4 DEF Text

(* The empty text.                                                         *)
LEMMA EmptyText ==
  /\ <<>> \in Text /\ Len(<<>>) = 0
  /\ \A t \in Text : t \o <<>> = t /\ <<>> \o t = t /\ (Len(t) = 0 => t = <<>>)
BY ConcatEmptySeq, EmptySeq DEF Text

(* Joining is associative.                                                 *)
LEMMA JoinedThrice ==
  ASSUME NEW s \in Text, NEW t \in Text, NEW u \in Text
  PROVE  (s \o t) \o u = s \o (t \o u)
BY ConcatAssociative DEF Text

(* The front of a text and what follows it are the text.                   *)
LEMMA Rejoined ==
  ASSUME NEW t \in Text, NEW k \in 0 .. Len(t)
  PROVE  SubSeq(t, 1, k) \o From(t, k + 1) = t
<1>1. Len(t) \in Nat /\ k \in Nat
  BY TextPlaces
<1> DEFINE a == SubSeq(t, 1, k)
           b == From(t, k + 1)
<1>2. a \in Text /\ Len(a) = k /\ \A i \in 1 .. k : a[i] = t[i]
  BY FrontPlaces
<1>3. b \in Text /\ Len(b) = Len(t) - k /\ \A i \in 1 .. Len(t) - k : b[i] = t[k + i]
  BY FromPlaces
<1> HIDE DEF a, b
<1>4. /\ a \o b \in Text /\ Len(a \o b) = Len(t)
      /\ \A i \in 1 .. k : (a \o b)[i] = a[i]
      /\ \A i \in 1 .. Len(t) - k : (a \o b)[k + i] = b[i]
  BY <1>1, <1>2, <1>3, JoinedPlaces
<1>5. ASSUME NEW i \in 1 .. Len(t) PROVE (a \o b)[i] = t[i]
  <2>1. CASE i <= k
    BY <2>1, <1>1, <1>2, <1>4
  <2>2. CASE i > k
    <3>1. i - k \in 1 .. Len(t) - k /\ k + (i - k) = i
      BY <2>2, <1>1
    <3> QED
      BY <3>1, <1>3, <1>4
  <2>3. i <= k \/ i > k
    BY <1>1
  <2> QED
    BY <2>1, <2>2, <2>3
<1>6. a \o b = t
  BY <1>4, <1>5, TextEqual
<1> QED
  BY <1>6 DEF a, b

(* Leaving out j and then k more tokens is leaving out j + k.              *)
LEMMA FromFrom ==
  ASSUME NEW t \in Text, NEW j \in Nat, NEW k \in Nat, j + k <= Len(t)
  PROVE  From(From(t, j + 1), k + 1) = From(t, (j + k) + 1)
<1>1. Len(t) \in Nat /\ j \in 0 .. Len(t) /\ j + k \in 0 .. Len(t) /\ k \in 0 .. Len(t) - j
  BY TextPlaces
<1> DEFINE a == From(t, j + 1)
           b == From(a, k + 1)
           d == From(t, (j + k) + 1)
<1>2. a \in Text /\ Len(a) = Len(t) - j /\ \A i \in 1 .. Len(t) - j : a[i] = t[j + i]
  BY <1>1, FromPlaces
<1>3. d \in Text /\ Len(d) = Len(t) - (j + k)
      /\ \A i \in 1 .. Len(t) - (j + k) : d[i] = t[(j + k) + i]
  BY <1>1, FromPlaces
<1> HIDE DEF a, d
<1>4. b \in Text /\ Len(b) = Len(a) - k /\ \A i \in 1 .. Len(a) - k : b[i] = a[k + i]
  BY <1>1, <1>2, FromPlaces
<1> HIDE DEF b
<1>5. Len(b) = Len(d) /\ Len(d) = Len(t) - (j + k)
  BY <1>1, <1>2, <1>3, <1>4
<1>6. ASSUME NEW i \in 1 .. Len(d) PROVE b[i] = d[i]
  <2>1. /\ i \in 1 .. Len(a) - k /\ k + i \in 1 .. Len(t) - j
        /\ i \in 1 .. Len(t) - (j + k) /\ j + (k + i) = (j + k) + i
    BY <1>1, <1>2, <1>5
  <2>2. b[i] = a[k + i] /\ a[k + i] = t[j + (k + i)] /\ d[i] = t[(j + k) + i]
    BY <2>1, <1>2, <1>3, <1>4
  <2> QED
    BY <2>1, <2>2
<1>7. b = d
  BY <1>3, <1>4, <1>5, <1>6, TextEqual
<1> QED
  BY <1>7 DEF a, b, d

(* The front of what is joined, and what follows the front.                *)
LEMMA CutJoined ==
  ASSUME NEW t \in Text, NEW c \in Text, NEW k \in 0 .. Len(t)
  PROVE  /\ SubSeq(t \o c, 1, k) = SubSeq(t, 1, k)
         /\ From(t \o c, k + 1) = From(t, k + 1) \o c
<1> DEFINE a == SubSeq(t, 1, k)
           b == From(t, k + 1)
           x == t \o c
<1>1. Len(t) \in Nat /\ Len(c) \in Nat /\ k \in Nat
  BY TextPlaces
<1>2. a \in Text /\ Len(a) = k /\ \A i \in 1 .. k : a[i] = t[i]
  BY FrontPlaces
<1>3. b \in Text /\ Len(b) = Len(t) - k /\ \A i \in 1 .. Len(t) - k : b[i] = t[k + i]
  BY FromPlaces
<1>4. /\ x \in Text /\ Len(x) = Len(t) + Len(c)
      /\ \A i \in 1 .. Len(t) : x[i] = t[i]
      /\ \A i \in 1 .. Len(c) : x[Len(t) + i] = c[i]
  BY JoinedPlaces
<1> HIDE DEF a, b, x
<1>5. k \in 0 .. Len(x)
  BY <1>1, <1>4
<1> DEFINE d == SubSeq(x, 1, k)
           e == From(x, k + 1)
<1>6. d \in Text /\ Len(d) = k /\ \A i \in 1 .. k : d[i] = x[i]
  BY <1>4, <1>5, FrontPlaces
<1>7. e \in Text /\ Len(e) = Len(x) - k /\ \A i \in 1 .. Len(x) - k : e[i] = x[k + i]
  BY <1>4, <1>5, FromPlaces
<1>8. /\ b \o c \in Text /\ Len(b \o c) = Len(b) + Len(c)
      /\ \A i \in 1 .. Len(b) : (b \o c)[i] = b[i]
      /\ \A i \in 1 .. Len(c) : (b \o c)[Len(b) + i] = c[i]
  BY <1>3, JoinedPlaces
<1> HIDE DEF d, e
<1>9. d = a
  <2>1. ASSUME NEW i \in 1 .. k PROVE d[i] = a[i]
    <3>1. i \in 1 .. Len(t)
      BY <1>1
    <3> QED
      BY <3>1, <1>2, <1>4, <1>6
  <2> QED
    BY <2>1, <1>2, <1>6, TextEqual
<1>10. e = b \o c
  <2>1. Len(e) = Len(b \o c)
    BY <1>1, <1>3, <1>4, <1>7, <1>8
  <2>2. ASSUME NEW i \in 1 .. Len(e) PROVE e[i] = (b \o c)[i]
    <3>1. i \in 1 .. Len(x) - k /\ e[i] = x[k + i]
      BY <1>7
    <3>2. CASE i <= Len(b)
      <4>1. i \in 1 .. Len(b) /\ i \in 1 .. Len(t) - k /\ k + i \in 1 .. Len(t)
        BY <3>1, <3>2, <1>1, <1>3
      <4> QED
        BY <4>1, <3>1, <1>3, <1>4, <1>8
    <3>3. CASE i > Len(b)
      <4>1. i - Len(b) \in 1 .. Len(c) /\ Len(t) + (i - Len(b)) = k + i
            /\ Len(b) + (i - Len(b)) = i
        BY <3>1, <3>3, <1>1, <1>3, <1>4
      <4> QED
        BY <4>1, <3>1, <1>4, <1>8
    <3>4. i <= Len(b) \/ i > Len(b)
      BY <3>1, <1>1, <1>3
    <3> QED
      BY <3>2, <3>3, <3>4
  <2> QED
    BY <2>1, <2>2, <1>7, <1>8, TextEqual
<1> QED
  BY <1>9, <1>10 DEF a, b, d, e, x

(* A longer front is the shorter one and what is between.                  *)
LEMMA FrontOfFrom ==
  ASSUME NEW t \in Text, NEW j \in Nat, NEW k \in Nat, j + k <= Len(t)
  PROVE  SubSeq(t, 1, j + k) = SubSeq(t, 1, j) \o SubSeq(From(t, j + 1), 1, k)
<1>1. Len(t) \in Nat /\ j \in 0 .. Len(t) /\ j + k \in 0 .. Len(t) /\ k \in 0 .. Len(t) - j
  BY TextPlaces
<1> DEFINE a == SubSeq(t, 1, j)
           b == From(t, j + 1)
           f == SubSeq(b, 1, k)
           d == SubSeq(t, 1, j + k)
<1>2. a \in Text /\ Len(a) = j /\ \A i \in 1 .. j : a[i] = t[i]
  BY <1>1, FrontPlaces
<1>3. b \in Text /\ Len(b) = Len(t) - j /\ \A i \in 1 .. Len(t) - j : b[i] = t[j + i]
  BY <1>1, FromPlaces
<1>4. d \in Text /\ Len(d) = j + k /\ \A i \in 1 .. j + k : d[i] = t[i]
  BY <1>1, FrontPlaces
<1> HIDE DEF a, b, d
<1>5. f \in Text /\ Len(f) = k /\ \A i \in 1 .. k : f[i] = b[i]
  BY <1>1, <1>3, FrontPlaces
<1> HIDE DEF f
<1>6. /\ a \o f \in Text /\ Len(a \o f) = j + k
      /\ \A i \in 1 .. j : (a \o f)[i] = a[i]
      /\ \A i \in 1 .. k : (a \o f)[j + i] = f[i]
  BY <1>2, <1>5, JoinedPlaces
<1>7. ASSUME NEW i \in 1 .. j + k PROVE d[i] = (a \o f)[i]
  <2>1. CASE i <= j
    BY <2>1, <1>1, <1>2, <1>4, <1>6
  <2>2. CASE i > j
    <3>1. i - j \in 1 .. k /\ j + (i - j) = i /\ i - j \in 1 .. Len(t) - j
      BY <2>2, <1>1
    <3>2. (a \o f)[i] = f[i - j] /\ f[i - j] = b[i - j] /\ b[i - j] = t[i]
      BY <3>1, <1>3, <1>5, <1>6
    <3> QED
      BY <3>2, <1>4
  <2>3. i <= j \/ i > j
    BY <1>1
  <2> QED
    BY <2>1, <2>2, <2>3
<1>8. d = a \o f
  BY <1>4, <1>6, <1>7, TextEqual
<1> QED
  BY <1>8 DEF a, b, d, f

-----------------------------------------------------------------------------
(* Markers.                                                                *)
Kinds == {"function_calls", "tool_code", "tool_result"}
Words == {"tool_code", "tool_result"}
Marks == [start : Nat, end : Nat, kind : Kinds]

(* A start marker of the kind from i to j, spelled out.                    *)
IsStart(t, kind, i, j) ==
  /\ 1 <= i /\ i < j /\ j <= Len(t)
  /\ \/ kind = "function_calls" /\ j = i + 1 /\ t[i] = "[f" /\ t[i + 1] = "f]"
     \/ /\ kind \in Words /\ j >= i + 2 /\ t[i] = Fence /\ t[i + 1] = kind
        /\ \A k \in (i + 2) .. (j - 1) : t[k] = "sp"
        /\ t[j] = "nl"

(* The markers of a block of calls take two tokens.                        *)
LEMMA MarkerTokens ==
  ASSUME NEW t \in Text, NEW i \in Nat, i >= 1
  PROVE  /\ Stands(FunctionCallsMarker, t, i) <=>
              i + 1 <= Len(t) /\ t[i] = "[f" /\ t[i + 1] = "f]"
         /\ Stands(FunctionCallsEndMarker, t, i) <=>
              i + 1 <= Len(t) /\ t[i] = "[/f" /\ t[i + 1] = "/f]"
<1>1. /\ Len(FunctionCallsMarker) = 2 /\ DOMAIN FunctionCallsMarker = 1 .. 2
      /\ FunctionCallsMarker[1] = "[f" /\ FunctionCallsMarker[2] = "f]"
  BY DEF FunctionCallsMarker
<1>2. /\ Len(FunctionCallsEndMarker) = 2 /\ DOMAIN FunctionCallsEndMarker = 1 .. 2
      /\ FunctionCallsEndMarker[1] = "[/f" /\ FunctionCallsEndMarker[2] = "/f]"
  BY DEF FunctionCallsEndMarker
<1>3. Len(t) \in Nat /\ i + 2 - 1 = i + 1 /\ i + 1 - 1 = i
  BY TextPlaces
<1>4. \A k \in 1 .. 2 : k = 1 \/ k = 2
  OBVIOUS
<1>5. 1 \in 1 .. 2 /\ 2 \in 1 .. 2
  OBVIOUS
<1>6. Stands(FunctionCallsMarker, t, i) <=>
        i + 1 <= Len(t) /\ t[i] = "[f" /\ t[i + 1] = "f]"
  <2>1. Stands(FunctionCallsMarker, t, i) <=>
          i + 1 <= Len(t) /\ \A k \in 1 .. 2 : t[i + k - 1] = FunctionCallsMarker[k]
    BY <1>1, <1>3 DEF Stands
  <2> QED
    BY <2>1, <1>1, <1>3, <1>4, <1>5
<1>7. Stands(FunctionCallsEndMarker, t, i) <=>
        i + 1 <= Len(t) /\ t[i] = "[/f" /\ t[i + 1] = "/f]"
  <2>1. Stands(FunctionCallsEndMarker, t, i) <=>
          i + 1 <= Len(t) /\ \A k \in 1 .. 2 : t[i + k - 1] = FunctionCallsEndMarker[k]
    BY <1>2, <1>3 DEF Stands
  <2> QED
    BY <2>1, <1>2, <1>3, <1>4, <1>5
<1> QED
  BY <1>6, <1>7

(* The starts of a text are what IsStart says of it.                       *)
LEMMA StartMembers ==
  ASSUME NEW t \in Text
  PROVE  /\ Starts(t) \subseteq Marks
         /\ \A m \in Marks : m \in Starts(t) <=> IsStart(t, m.kind, m.start, m.end)
<1>1. Len(t) \in Nat /\ DOMAIN t = 1 .. Len(t)
  BY TextPlaces
<1> DEFINE All == [start : {i \in DOMAIN t : t[i] \in {Fence, "[f"}},
                   end : DOMAIN t, kind : Kinds]
<1>2. Starts(t) = {m \in All : m.start < m.end /\ StartsBlock(t, m.kind, m.start, m.end)}
  BY DEF Starts, Kinds
<1>3. All \subseteq Marks
  BY <1>1 DEF Marks
<1>4. ASSUME NEW m \in Marks
      PROVE  m \in Starts(t) <=> IsStart(t, m.kind, m.start, m.end)
  <2> DEFINE i == m.start
             j == m.end
             kind == m.kind
  <2>1. i \in Nat /\ j \in Nat /\ kind \in Kinds
    BY DEF Marks
  <2>2. m = [start |-> i, end |-> j, kind |-> kind]
    BY DEF Marks
  <2>3. m \in All <=> i \in 1 .. Len(t) /\ t[i] \in {Fence, "[f"} /\ j \in 1 .. Len(t)
    BY <1>1, <2>1, <2>2
  <2> HIDE DEF All, i, j, kind
  <2>4. i >= 1 => (StartsBlock(t, kind, i, j) <=>
          \/ kind = "function_calls" /\ j = i + 1
             /\ i + 1 <= Len(t) /\ t[i] = "[f" /\ t[i + 1] = "f]"
          \/ /\ kind \in Words /\ j >= i + 2 /\ t[i] = Fence /\ t[i + 1] = kind
             /\ \A k \in (i + 2) .. (j - 1) : t[k] = "sp"
             /\ t[j] = "nl")
    BY <2>1, MarkerTokens DEF StartsBlock, Words
  <2>5. m \in Starts(t) <=> m \in All /\ i < j /\ StartsBlock(t, kind, i, j)
    BY <1>2 DEF i, j, kind
  <2>6. IsStart(t, kind, i, j) <=> m \in All /\ i < j /\ StartsBlock(t, kind, i, j)
    BY <2>1, <2>3, <2>4, <1>1 DEF IsStart
  <2> QED
    BY <2>5, <2>6 DEF i, j, kind
<1> QED
  BY <1>2, <1>3, <1>4

(* No two kinds of marker, and no two lengths, begin at one place.         *)
LEMMA StartUnique ==
  ASSUME NEW t \in Text, NEW m \in Starts(t), NEW n \in Starts(t), m.start = n.start
  PROVE  m = n
<1> DEFINE i == m.start
<1>1. /\ m \in Marks /\ n \in Marks
      /\ IsStart(t, m.kind, i, m.end) /\ IsStart(t, n.kind, i, n.end)
  BY StartMembers
<1>2. /\ i \in Nat /\ m.end \in Nat /\ n.end \in Nat
      /\ m = [start |-> i, end |-> m.end, kind |-> m.kind]
      /\ n = [start |-> i, end |-> n.end, kind |-> n.kind]
  BY <1>1 DEF Marks
<1> HIDE DEF i
<1>3. m.kind = n.kind
  BY <1>1, <1>2 DEF IsStart, Words, Fence
<1>4. m.end = n.end
  <2>1. CASE m.kind = "function_calls"
    BY <1>1, <1>3, <2>1 DEF IsStart, Words
  <2>2. CASE m.kind \in Words
    <3>1. /\ m.end >= i + 2 /\ t[m.end] = "nl" /\ n.end >= i + 2 /\ t[n.end] = "nl"
          /\ \A k \in (i + 2) .. (m.end - 1) : t[k] = "sp"
          /\ \A k \in (i + 2) .. (n.end - 1) : t[k] = "sp"
      BY <1>1, <1>3, <2>2 DEF IsStart, Words
    <3>2. ~(m.end < n.end)
      <4> SUFFICES ASSUME m.end < n.end PROVE FALSE
        OBVIOUS
      <4>1. m.end \in (i + 2) .. (n.end - 1)
        BY <3>1, <1>2
      <4> QED
        BY <4>1, <3>1
    <3>3. ~(n.end < m.end)
      <4> SUFFICES ASSUME n.end < m.end PROVE FALSE
        OBVIOUS
      <4>1. n.end \in (i + 2) .. (m.end - 1)
        BY <3>1, <1>2
      <4> QED
        BY <4>1, <3>1
    <3> QED
      BY <3>2, <3>3, <1>2
  <2> QED
    BY <2>1, <2>2, <1>1 DEF IsStart
<1> QED
  BY <1>2, <1>3, <1>4

(* A text with a start has a first one, and only one.                      *)
LEMMA FirstStart ==
  ASSUME NEW t \in Text
  PROVE  /\ Starts(t) # {} =>
              /\ FirstOf(Starts(t)) \in Starts(t)
              /\ \A n \in Starts(t) : FirstOf(Starts(t)).start <= n.start
         /\ \A m \in Starts(t) :
              (\A n \in Starts(t) : m.start <= n.start) => m = FirstOf(Starts(t))
<1>1. \A m \in Starts(t) : m.start \in Nat
  BY StartMembers DEF Marks
<1>2. ASSUME Starts(t) # {}
      PROVE  /\ FirstOf(Starts(t)) \in Starts(t)
             /\ \A n \in Starts(t) : FirstOf(Starts(t)).start <= n.start
  <2> DEFINE Begins == {m.start : m \in Starts(t)}
  <2>1. Begins \subseteq Nat /\ Begins # {}
    BY <1>1, <1>2
  <2>2. PICK b \in Begins : \A d \in Begins : b <= d
    BY <2>1, LeastNumber
  <2>3. PICK m \in Starts(t) : b = m.start
    BY <2>2
  <2>4. \A n \in Starts(t) : m.start <= n.start
    BY <2>2, <2>3
  <2> QED
    BY <2>4 DEF FirstOf
<1>3. ASSUME NEW m \in Starts(t), \A n \in Starts(t) : m.start <= n.start
      PROVE  m = FirstOf(Starts(t))
  <2> DEFINE f == FirstOf(Starts(t))
  <2>1. f \in Starts(t) /\ f.start <= m.start /\ m.start <= f.start
    BY <1>2, <1>3
  <2>2. m.start = f.start
    BY <2>1, <1>1
  <2> QED
    BY <2>1, <2>2, StartUnique
<1> QED
  BY <1>2, <1>3

(* Where one text stands in another, its starts are starts there, and      *)
(* whatever start lies within it is one of its own.                        *)
Window(t, u, k) == k + Len(t) <= Len(u) /\ \A i \in 1 .. Len(t) : t[i] = u[k + i]

(* A marker that lies in the window is a marker of both texts.             *)
LEMMA WindowStarts ==
  ASSUME NEW t \in Text, NEW u \in Text, NEW k \in Nat, Window(t, u, k),
         NEW kind \in Kinds, NEW i \in Nat, NEW j \in Nat, i >= 1, j <= Len(t)
  PROVE  IsStart(t, kind, i, j) <=> IsStart(u, kind, k + i, k + j)
<1>1. Len(t) \in Nat /\ Len(u) \in Nat /\ k + Len(t) <= Len(u)
  BY TextPlaces DEF Window
<1>2. \A l \in 1 .. Len(t) : t[l] = u[k + l]
  BY DEF Window
<1>3. CASE ~(i < j)
  BY <1>3, <1>1 DEF IsStart
<1>4. CASE i < j
  <2>1. /\ i \in 1 .. Len(t) /\ i + 1 \in 1 .. Len(t) /\ j \in 1 .. Len(t)
        /\ k + (i + 1) = (k + i) + 1
    BY <1>4, <1>1
  <2>2. t[i] = u[k + i] /\ t[i + 1] = u[(k + i) + 1] /\ t[j] = u[k + j]
    BY <2>1, <1>2
  <2>3. /\ k + j = (k + i) + 1 <=> j = i + 1
        /\ k + j >= (k + i) + 2 <=> j >= i + 2
        /\ 1 <= k + i /\ k + i < k + j /\ k + j <= Len(u)
    BY <1>4, <1>1
  <2>4. (\A l \in (i + 2) .. (j - 1) : t[l] = "sp")
          <=> (\A l \in ((k + i) + 2) .. ((k + j) - 1) : u[l] = "sp")
    <3>1. ASSUME \A l \in (i + 2) .. (j - 1) : t[l] = "sp",
                 NEW l \in ((k + i) + 2) .. ((k + j) - 1)
          PROVE  u[l] = "sp"
      <4>1. /\ l - k \in (i + 2) .. (j - 1) /\ l - k \in 1 .. Len(t)
            /\ k + (l - k) = l
        BY <1>1
      <4> QED
        BY <4>1, <3>1, <1>2
    <3>2. ASSUME \A l \in ((k + i) + 2) .. ((k + j) - 1) : u[l] = "sp",
                 NEW l \in (i + 2) .. (j - 1)
          PROVE  t[l] = "sp"
      <4>1. k + l \in ((k + i) + 2) .. ((k + j) - 1) /\ l \in 1 .. Len(t)
        BY <1>1
      <4> QED
        BY <4>1, <3>2, <1>2
    <3> QED
      BY <3>1, <3>2
  <2> QED
    BY <1>4, <1>1, <2>2, <2>3, <2>4 DEF IsStart
<1> QED
  BY <1>3, <1>4

Shifted(m, k) == [start |-> k + m.start, end |-> k + m.end, kind |-> m.kind]

(* What a shifted marker is.                                               *)
LEMMA ShiftedMark ==
  ASSUME NEW m \in Marks, NEW k \in Nat
  PROVE  /\ Shifted(m, k) \in Marks
         /\ Shifted(m, k).start = k + m.start
         /\ Shifted(m, k).end = k + m.end
         /\ Shifted(m, k).kind = m.kind
BY DEF Marks, Shifted

(* The same, of the marks.                                                 *)
LEMMA ShiftedStarts ==
  ASSUME NEW t \in Text, NEW u \in Text, NEW k \in Nat, Window(t, u, k)
  PROVE  /\ \A m \in Starts(t) : Shifted(m, k) \in Starts(u)
         /\ \A n \in Starts(u) :
              n.start > k /\ n.end <= k + Len(t) => \E m \in Starts(t) : n = Shifted(m, k)
<1>1. ASSUME NEW m \in Starts(t) PROVE Shifted(m, k) \in Starts(u)
  <2>1. m \in Marks /\ IsStart(t, m.kind, m.start, m.end)
    BY StartMembers
  <2>2. m.kind \in Kinds /\ m.start \in Nat /\ m.end \in Nat
    BY <2>1 DEF Marks
  <2>3. m.start >= 1 /\ m.end <= Len(t)
    BY <2>1 DEF IsStart
  <2>4. IsStart(u, m.kind, k + m.start, k + m.end)
    BY <2>1, <2>2, <2>3, WindowStarts
  <2> QED
    BY <2>1, <2>4, ShiftedMark, StartMembers
<1>2. ASSUME NEW n \in Starts(u), n.start > k, n.end <= k + Len(t)
      PROVE  \E m \in Starts(t) : n = Shifted(m, k)
  <2>1. n \in Marks /\ IsStart(u, n.kind, n.start, n.end)
    BY StartMembers
  <2>2. /\ n.kind \in Kinds /\ n.start \in Nat /\ n.end \in Nat /\ Len(t) \in Nat
        /\ n = [start |-> n.start, end |-> n.end, kind |-> n.kind] /\ n.start < n.end
    BY <2>1, TextPlaces DEF Marks, IsStart
  <2> DEFINE i == n.start - k
             j == n.end - k
             m == [start |-> i, end |-> j, kind |-> n.kind]
  <2>3. /\ i \in Nat /\ j \in Nat /\ i >= 1 /\ j <= Len(t)
        /\ k + i = n.start /\ k + j = n.end
    BY <2>2, <1>2
  <2>4. m \in Marks /\ n = Shifted(m, k)
    BY <2>2, <2>3 DEF Marks, Shifted
  <2> HIDE DEF i, j
  <2>5. IsStart(t, n.kind, i, j)
    BY <2>1, <2>2, <2>3, WindowStarts
  <2>6. m \in Starts(t)
    BY <2>4, <2>5, StartMembers
  <2> QED
    BY <2>4, <2>6
<1> QED
  BY <1>1, <1>2

(* A text stands at its end in what it is the end of, and at the beginning *)
(* of what it is joined to.                                                *)
LEMMA FromWindow ==
  ASSUME NEW t \in Text, NEW k \in 0 .. Len(t)
  PROVE  /\ From(t, k + 1) \in Text /\ k \in Nat
         /\ Window(From(t, k + 1), t, k) /\ k + Len(From(t, k + 1)) = Len(t)
<1>1. Len(t) \in Nat /\ k \in Nat
  BY TextPlaces
<1>2. /\ From(t, k + 1) \in Text
      /\ Len(From(t, k + 1)) = Len(t) - k
      /\ \A i \in 1 .. Len(t) - k : From(t, k + 1)[i] = t[k + i]
  BY FromPlaces
<1> QED
  BY <1>1, <1>2 DEF Window

(* A text is a window of what begins with it.                              *)
LEMMA JoinedWindow ==
  ASSUME NEW t \in Text, NEW c \in Text
  PROVE  t \o c \in Text /\ Window(t, t \o c, 0)
<1>1. /\ t \o c \in Text /\ Len(t \o c) = Len(t) + Len(c)
      /\ \A i \in 1 .. Len(t) : (t \o c)[i] = t[i]
  BY JoinedPlaces
<1>2. Len(t) \in Nat /\ Len(c) \in Nat /\ \A i \in 1 .. Len(t) : 0 + i = i
  BY TextPlaces
<1> QED
  BY <1>1, <1>2 DEF Window

(* A marker shifted by nothing stays what it is.                           *)
LEMMA ShiftedByNothing ==
  ASSUME NEW m \in Marks PROVE Shifted(m, 0) = m
BY DEF Marks, Shifted

(* A marker that the end of a text cuts: all of it but its first two       *)
(* tokens is blanks.                                                       *)
CutAt(t, i) ==
  /\ t[i] \in {Fence, "[f"}
  /\ \/ i = Len(t)
     \/ t[i] = Fence /\ t[i + 1] \in Words /\ \A k \in (i + 2) .. Len(t) : t[k] = "sp"

(* A marker that reaches over the end of a text has been cut there.        *)
LEMMA Overhang ==
  ASSUME NEW t \in Text, NEW c \in Text, NEW n \in Starts(t \o c),
         n.start <= Len(t), Len(t) < n.end
  PROVE  n.start \in 1 .. Len(t) /\ CutAt(t, n.start)
<1>1. t \o c \in Text /\ \A i \in 1 .. Len(t) : (t \o c)[i] = t[i]
  BY JoinedPlaces
<1>2. n \in Marks /\ IsStart(t \o c, n.kind, n.start, n.end)
  BY <1>1, StartMembers
<1> DEFINE i == n.start
           j == n.end
<1>3. i \in 1 .. Len(t) /\ j \in Nat /\ Len(t) \in Nat /\ Len(t) < j
  BY <1>2, TextPlaces DEF Marks, IsStart
<1>4. (t \o c)[i] = t[i]
  BY <1>1, <1>3
<1> HIDE DEF i, j
<1>5. CASE n.kind = "function_calls"
  <2>1. j = i + 1 /\ t[i] = "[f"
    BY <1>2, <1>4, <1>5 DEF IsStart, Words, i, j
  <2>2. i = Len(t)
    BY <2>1, <1>3
  <2> QED
    BY <2>1, <2>2, <1>3 DEF CutAt, i
<1>6. CASE n.kind \in Words
  <2>1. /\ t[i] = Fence /\ (t \o c)[i + 1] = n.kind /\ j >= i + 2
        /\ \A k \in (i + 2) .. (j - 1) : (t \o c)[k] = "sp"
    BY <1>2, <1>4, <1>6 DEF IsStart, Words, i, j
  <2>2. CASE i = Len(t)
    BY <2>1, <2>2, <1>3 DEF CutAt, i
  <2>3. CASE i # Len(t)
    <3>1. i + 1 \in 1 .. Len(t)
      BY <2>3, <1>3
    <3>2. t[i + 1] \in Words
      BY <3>1, <2>1, <1>1, <1>6
    <3>3. ASSUME NEW k \in (i + 2) .. Len(t) PROVE t[k] = "sp"
      <4>1. k \in (i + 2) .. (j - 1) /\ k \in 1 .. Len(t)
        BY <1>3
      <4> QED
        BY <4>1, <2>1, <1>1
    <3> QED
      BY <2>1, <3>2, <3>3, <1>3 DEF CutAt, i
  <2> QED
    BY <2>2, <2>3
<1>7. n.kind = "function_calls" \/ n.kind \in Words
  BY <1>2 DEF IsStart
<1> QED
  BY <1>5, <1>6, <1>7

(* A complete start marker leaves no room for a cut one before it.         *)
LEMMA NoCutBeforeStart ==
  ASSUME NEW t \in Text, NEW m \in Starts(t), NEW i \in 1 .. Len(t), i < m.start
  PROVE  ~CutAt(t, i)
<1>1. m \in Marks /\ IsStart(t, m.kind, m.start, m.end)
  BY StartMembers
<1>2. /\ m.start \in Nat /\ m.end \in Nat /\ Len(t) \in Nat
      /\ m.start < m.end /\ m.end <= Len(t) /\ t[m.start] \in {Fence, "[f"}
  BY <1>1, TextPlaces DEF Marks, IsStart
<1>3. i # Len(t)
  BY <1>2
<1>4. CASE m.start = i + 1
  <2>1. t[i + 1] \notin Words
    BY <1>2, <1>4 DEF Words, Fence
  <2> QED
    BY <2>1, <1>3 DEF CutAt
<1>5. CASE m.start # i + 1
  <2>1. m.start \in (i + 2) .. Len(t)
    BY <1>2, <1>5
  <2>2. t[m.start] # "sp"
    BY <1>2 DEF Fence
  <2> QED
    BY <2>1, <2>2, <1>3 DEF CutAt
<1> QED
  BY <1>4, <1>5

(* What comes after a text does not change its first start.                *)
LEMMA FirstStartStays ==
  ASSUME NEW t \in Text, NEW c \in Text, Starts(t) # {}
  PROVE  Starts(t \o c) # {} /\ FirstOf(Starts(t \o c)) = FirstOf(Starts(t))
<1> DEFINE m == FirstOf(Starts(t))
           x == t \o c
<1>1. m \in Starts(t) /\ \A n \in Starts(t) : m.start <= n.start
  BY FirstStart
<1>2. x \in Text /\ Window(t, x, 0)
  BY JoinedWindow
<1>3. /\ m \in Marks /\ IsStart(t, m.kind, m.start, m.end)
      /\ m.start \in Nat /\ m.end \in Nat /\ m.start < m.end /\ m.end <= Len(t)
      /\ Len(t) \in Nat
  BY <1>1, StartMembers, TextPlaces DEF Marks, IsStart
<1>4. m \in Starts(x)
  <2>1. Shifted(m, 0) \in Starts(x)
    BY <1>1, <1>2, ShiftedStarts
  <2> QED
    BY <2>1, <1>3, ShiftedByNothing
<1>5. ASSUME NEW n \in Starts(x) PROVE m.start <= n.start
  <2> SUFFICES ASSUME ~(m.start <= n.start) PROVE FALSE
    OBVIOUS
  <2>1. n \in Marks /\ n.start \in Nat /\ n.end \in Nat /\ n.start >= 1
    BY <1>2, StartMembers DEF Marks, IsStart
  <2>2. CASE n.end <= Len(t)
    <3>1. n.start > 0 /\ n.end <= 0 + Len(t)
      BY <2>1, <2>2, <1>3
    <3>2. PICK l \in Starts(t) : n = Shifted(l, 0)
      BY <3>1, <1>2, ShiftedStarts
    <3>3. n = l
      BY <3>2, StartMembers, ShiftedByNothing
    <3> QED
      BY <3>3, <1>1
  <2>3. CASE ~(n.end <= Len(t))
    <3>1. n.start <= Len(t) /\ Len(t) < n.end /\ n.start < m.start
      BY <2>1, <2>3, <1>3
    <3>2. n.start \in 1 .. Len(t) /\ CutAt(t, n.start)
      BY <3>1, Overhang
    <3> QED
      BY <3>1, <3>2, <1>1, NoCutBeforeStart
  <2> QED
    BY <2>2, <2>3
<1>6. m = FirstOf(Starts(x))
  <2> HIDE DEF m, x
  <2> QED
    BY <1>2, <1>4, <1>5, FirstStart
<1> QED
  BY <1>4, <1>6

-----------------------------------------------------------------------------
(* Blocks.                                                                 *)

(* The end of a block of the kind at a place, and the first one behind a   *)
(* start.                                                                  *)
IsEnder(t, kind, p) ==
  IF kind = "function_calls"
  THEN p + 1 <= Len(t) /\ t[p] = "[/f" /\ t[p + 1] = "/f]"
  ELSE p <= Len(t) /\ t[p] = Fence

ClosesAt(t, m, p) ==
  /\ m.end < p /\ IsEnder(t, m.kind, p)
  /\ \A q \in (m.end + 1) .. (p - 1) : ~IsEnder(t, m.kind, q)

(* Where the body ends, and what comes behind the block.                   *)
BodyEnd(t, m, p) == IF m.kind # "function_calls" /\ m.end + 1 < p /\ t[p - 1] = "nl"
                    THEN p - 2 ELSE p - 1
Behind(m, p) == IF m.kind = "function_calls" THEN p + 2 ELSE p + 1

ClosedAt(t, m, p) ==
  [closed |-> TRUE, body |-> SubSeq(t, m.end + 1, BodyEnd(t, m, p)), after |-> Behind(m, p)]

(* The fields of a closed block.                                           *)
LEMMA ClosedAtFields ==
  ASSUME NEW t, NEW m, NEW p
  PROVE  /\ ClosedAt(t, m, p).closed
         /\ ClosedAt(t, m, p).body = SubSeq(t, m.end + 1, BodyEnd(t, m, p))
         /\ ClosedAt(t, m, p).after = Behind(m, p)
BY DEF ClosedAt

(* A block is closed where its first end is, if it has one.                *)
LEMMA CloseFacts ==
  ASSUME NEW t \in Text, NEW m \in Marks, m.end >= 1, m.end <= Len(t)
  PROVE  /\ \A p \in Nat : ClosesAt(t, m, p) => CloseOf(t, m) = ClosedAt(t, m, p)
         /\ CloseOf(t, m).closed => \E p \in Nat : ClosesAt(t, m, p)
         /\ CloseOf(t, m).closed \in BOOLEAN
         /\ ~CloseOf(t, m).closed =>
              /\ CloseOf(t, m).body = From(t, m.end + 1)
              /\ \A p \in Nat : m.end < p => ~IsEnder(t, m.kind, p)
<1> DEFINE i == m.end + 1
           ends == {p \in i .. Len(t) : IsEnder(t, m.kind, p)}
<1>1. Len(t) \in Nat /\ m.end \in Nat /\ i \in Nat /\ i >= 1 /\ m.kind \in Kinds
  BY TextPlaces DEF Marks
<1>2. ends \subseteq Nat
  BY <1>1
<1>3. \A p \in Nat : m.end < p /\ IsEnder(t, m.kind, p) => p \in ends
  BY <1>1 DEF IsEnder
<1>4. \A p \in ends : p \in Nat /\ m.end < p /\ IsEnder(t, m.kind, p)
  BY <1>1
<1>5. CloseOf(t, m) = IF ends = {} THEN [closed |-> FALSE, body |-> From(t, i), after |-> 0]
                      ELSE ClosedAt(t, m, Min(ends))
  <2>1. CASE m.kind = "function_calls"
    <3>1. {p \in i .. Len(t) : Stands(FunctionCallsEndMarker, t, p)} = ends
      <4>1. ASSUME NEW p \in i .. Len(t)
            PROVE  Stands(FunctionCallsEndMarker, t, p) <=> IsEnder(t, m.kind, p)
        <5>1. p \in Nat /\ p >= 1
          BY <1>1
        <5> QED
          BY <5>1, <2>1, MarkerTokens DEF IsEnder
      <4> QED
        BY <4>1
    <3> HIDE DEF ends
    <3>2. FindFunctionCallsEnd(t, i) =
            IF ends = {} THEN [closed |-> FALSE, body |-> From(t, i), after |-> 0]
            ELSE [closed |-> TRUE, body |-> SubSeq(t, i, Min(ends) - 1),
                  after |-> Min(ends) + 2]
      BY <3>1 DEF FindFunctionCallsEnd
    <3> QED
      BY <3>2, <2>1 DEF CloseOf, ClosedAt, BodyEnd, Behind
  <2>2. CASE m.kind # "function_calls"
    <3>1. {p \in i .. Len(t) : t[p] = Fence} = ends
      BY <1>1, <2>2 DEF IsEnder
    <3> HIDE DEF ends
    <3>2. FindFenceClose(t, i) =
            IF ends = {} THEN [closed |-> FALSE, body |-> From(t, i), after |-> 0]
            ELSE [closed |-> TRUE,
                  body |-> SubSeq(t, i, IF Min(ends) > i /\ t[Min(ends) - 1] = "nl"
                                        THEN Min(ends) - 2 ELSE Min(ends) - 1),
                  after |-> Min(ends) + 1]
      BY <3>1 DEF FindFenceClose
    <3>3. CASE ends = {}
      BY <3>2, <3>3, <2>2 DEF CloseOf
    <3>4. CASE ends # {}
      <4>1. Min(ends) \in Nat
        <5>1. \E p \in ends : \A q \in ends : p <= q
          BY <1>2, <3>4, LeastNumber
        <5>2. Min(ends) \in ends
          BY <5>1 DEF Min
        <5> QED
          BY <5>2, <1>2
      <4>2. Min(ends) > i <=> m.end + 1 < Min(ends)
        BY <4>1, <1>1
      <4>3. BodyEnd(t, m, Min(ends)) = (IF Min(ends) > i /\ t[Min(ends) - 1] = "nl"
                                        THEN Min(ends) - 2 ELSE Min(ends) - 1)
        BY <4>2, <2>2 DEF BodyEnd
      <4> QED
        BY <4>3, <3>2, <3>4, <2>2 DEF CloseOf, ClosedAt, Behind
    <3> QED
      BY <3>3, <3>4
  <2> QED
    BY <2>1, <2>2
<1>6. ends # {} => /\ Min(ends) \in ends
                   /\ \A q \in ends : Min(ends) <= q
  <2> HIDE DEF ends
  <2> SUFFICES ASSUME ends # {}
               PROVE  Min(ends) \in ends /\ \A q \in ends : Min(ends) <= q
    OBVIOUS
  <2>1. \E p \in ends : \A q \in ends : p <= q
    BY <1>2, LeastNumber
  <2> QED
    BY <2>1 DEF Min
<1> HIDE DEF ends
<1>7. ASSUME NEW p \in Nat, ClosesAt(t, m, p) PROVE CloseOf(t, m) = ClosedAt(t, m, p)
  <2>1. p \in ends /\ \A q \in i .. (p - 1) : ~IsEnder(t, m.kind, q)
    BY <1>3, <1>7 DEF ClosesAt
  <2>2. Min(ends) \in ends /\ Min(ends) <= p
    BY <1>6, <2>1
  <2>3. Min(ends) \in Nat /\ i <= Min(ends) /\ IsEnder(t, m.kind, Min(ends))
    BY <1>4, <1>1, <2>2
  <2>4. ~(Min(ends) < p)
    <3> SUFFICES ASSUME Min(ends) < p PROVE FALSE
      OBVIOUS
    <3>1. Min(ends) \in i .. (p - 1)
      BY <2>3, <1>1
    <3> QED
      BY <3>1, <2>1, <2>3
  <2>5. Min(ends) = p
    BY <2>2, <2>3, <2>4
  <2> QED
    BY <1>5, <2>1, <2>5
<1>8. ASSUME CloseOf(t, m).closed PROVE \E p \in Nat : ClosesAt(t, m, p)
  <2>1. ends # {}
    BY <1>5, <1>8
  <2>2. /\ Min(ends) \in ends /\ Min(ends) \in Nat /\ m.end < Min(ends)
        /\ IsEnder(t, m.kind, Min(ends)) /\ \A q \in ends : Min(ends) <= q
    BY <2>1, <1>4, <1>6
  <2>3. ASSUME NEW q \in i .. (Min(ends) - 1) PROVE ~IsEnder(t, m.kind, q)
    <3>1. q \in Nat /\ m.end < q /\ ~(Min(ends) <= q)
      BY <2>2, <1>1
    <3>2. q \notin ends
      BY <3>1, <2>2
    <3> QED
      BY <3>1, <3>2, <1>3
  <2> QED
    BY <2>2, <2>3 DEF ClosesAt
<1>9. CloseOf(t, m).closed \in BOOLEAN
  BY <1>5 DEF ClosedAt
<1>10. ASSUME ~CloseOf(t, m).closed
       PROVE  /\ CloseOf(t, m).body = From(t, m.end + 1)
              /\ \A p \in Nat : m.end < p => ~IsEnder(t, m.kind, p)
  <2>1. ends = {}
    BY <1>5, <1>10 DEF ClosedAt
  <2> QED
    BY <2>1, <1>3, <1>5
<1> QED
  BY <1>7, <1>8, <1>9, <1>10

(* An end within a window is one in the whole, and the other way round.    *)
LEMMA WindowEnds ==
  ASSUME NEW t \in Text, NEW u \in Text, NEW k \in Nat, Window(t, u, k),
         NEW kind \in Kinds, NEW p \in Nat, p >= 1
  PROVE  /\ IsEnder(t, kind, p) => IsEnder(u, kind, k + p)
         /\ IsEnder(u, kind, k + p) /\ (p + 1 <= Len(t) \/ k + Len(t) = Len(u))
              => IsEnder(t, kind, p)
<1>1. Len(t) \in Nat /\ Len(u) \in Nat /\ k + Len(t) <= Len(u)
  BY TextPlaces DEF Window
<1>2. \A l \in 1 .. Len(t) : t[l] = u[k + l]
  BY DEF Window
<1>3. k + (p + 1) = (k + p) + 1
  OBVIOUS
<1>4. p <= Len(t) => t[p] = u[k + p] /\ k + p <= Len(u)
  BY <1>1, <1>2
<1>5. p + 1 <= Len(t) => t[p + 1] = u[(k + p) + 1] /\ (k + p) + 1 <= Len(u) /\ p <= Len(t)
  BY <1>1, <1>2, <1>3
<1>6. k + Len(t) = Len(u) =>
        (k + p <= Len(u) => p <= Len(t)) /\ ((k + p) + 1 <= Len(u) => p + 1 <= Len(t))
  BY <1>1
<1> QED
  BY <1>1, <1>4, <1>5, <1>6 DEF IsEnder

(* A block that is closed in a window is closed in the whole, at the same  *)
(* place, with the same body.                                              *)
LEMMA WindowClose ==
  ASSUME NEW t \in Text, NEW u \in Text, NEW k \in Nat, Window(t, u, k),
         NEW m \in Marks, m.end >= 1, m.end <= Len(t)
  PROVE  /\ \A p \in Nat : ClosesAt(t, m, p) => ClosesAt(u, Shifted(m, k), k + p)
         /\ CloseOf(t, m).closed =>
              /\ CloseOf(u, Shifted(m, k)).closed
              /\ CloseOf(u, Shifted(m, k)).body = CloseOf(t, m).body
              /\ CloseOf(u, Shifted(m, k)).after = k + CloseOf(t, m).after
         /\ k + Len(t) = Len(u) /\ ~CloseOf(t, m).closed
              => ~CloseOf(u, Shifted(m, k)).closed
<1> DEFINE n == Shifted(m, k)
<1>1. Len(t) \in Nat /\ Len(u) \in Nat /\ k + Len(t) <= Len(u)
  BY TextPlaces DEF Window
<1>2. /\ m.end \in Nat /\ m.kind \in Kinds
      /\ n \in Marks /\ n.end = k + m.end /\ n.kind = m.kind
      /\ n.end >= 1 /\ n.end <= Len(u)
  <2>1. m.end \in Nat /\ m.kind \in Kinds
    BY DEF Marks
  <2>2. n \in Marks /\ n.end = k + m.end /\ n.kind = m.kind
    BY ShiftedMark
  <2> HIDE DEF n
  <2> QED
    BY <2>1, <2>2, <1>1
<1> HIDE DEF n
<1>3. ASSUME NEW p \in Nat, ClosesAt(t, m, p) PROVE ClosesAt(u, n, k + p) /\ p <= Len(t)
  <2>1. /\ m.end < p /\ IsEnder(t, m.kind, p) /\ p >= 1
        /\ \A q \in (m.end + 1) .. (p - 1) : ~IsEnder(t, m.kind, q)
    BY <1>2, <1>3 DEF ClosesAt
  <2>2. p <= Len(t)
    BY <2>1, <1>1 DEF IsEnder
  <2>3. IsEnder(u, n.kind, k + p)
    BY <2>1, <1>2, WindowEnds
  <2>4. ASSUME NEW q \in (n.end + 1) .. ((k + p) - 1) PROVE ~IsEnder(u, n.kind, q)
    <3>1. /\ q - k \in (m.end + 1) .. (p - 1) /\ q - k \in Nat /\ q - k >= 1
          /\ k + (q - k) = q /\ (q - k) + 1 <= Len(t)
      BY <1>2, <2>2
    <3>2. ~IsEnder(t, m.kind, q - k)
      BY <3>1, <2>1
    <3> QED
      BY <3>1, <3>2, <1>2, WindowEnds
  <2>5. n.end < k + p
    BY <2>1, <1>2
  <2> QED
    BY <2>2, <2>3, <2>4, <2>5 DEF ClosesAt
<1>4. ASSUME CloseOf(t, m).closed
      PROVE  /\ CloseOf(u, n).closed
             /\ CloseOf(u, n).body = CloseOf(t, m).body
             /\ CloseOf(u, n).after = k + CloseOf(t, m).after
  <2>1. PICK p \in Nat : ClosesAt(t, m, p)
    BY <1>4, <1>2, CloseFacts
  <2>2. k + p \in Nat /\ ClosesAt(u, n, k + p) /\ p <= Len(t) /\ m.end < p
    BY <2>1, <1>3 DEF ClosesAt
  <2>3. CloseOf(t, m) = ClosedAt(t, m, p)
    BY <2>1, <1>2, CloseFacts
  <2>4. CloseOf(u, n) = ClosedAt(u, n, k + p)
    BY <2>2, <1>2, CloseFacts
  <2>5. Behind(n, k + p) = k + Behind(m, p)
    BY <1>2 DEF Behind
  <2>6. BodyEnd(u, n, k + p) = k + BodyEnd(t, m, p)
    <3>1. n.end + 1 < k + p <=> m.end + 1 < p
      BY <1>2
    <3>2. p - 1 \in 1 .. Len(t) /\ k + (p - 1) = (k + p) - 1
      BY <2>2, <1>2
    <3>3. t[p - 1] = u[(k + p) - 1]
      BY <3>2 DEF Window
    <3>4. (k + p) - 2 = k + (p - 2) /\ (k + p) - 1 = k + (p - 1)
      OBVIOUS
    <3> QED
      BY <3>1, <3>3, <3>4, <1>2 DEF BodyEnd
  <2>7. SubSeq(u, n.end + 1, k + BodyEnd(t, m, p)) = SubSeq(t, m.end + 1, BodyEnd(t, m, p))
    <3> DEFINE i == m.end + 1
               e == BodyEnd(t, m, p)
               a == SubSeq(t, i, e)
               b == SubSeq(u, k + i, k + e)
    <3>1. i \in 1 .. Len(t) + 1 /\ e \in Int /\ i - 1 <= e /\ e <= Len(t)
      BY <1>1, <1>2, <2>2 DEF BodyEnd
    <3> HIDE DEF e
    <3>2. n.end + 1 = k + i
      BY <1>2
    <3> HIDE DEF i
    <3>8. /\ k + i \in 1 .. Len(u) + 1 /\ k + e \in Int /\ (k + i) - 1 <= k + e
          /\ k + e <= Len(u)
      BY <3>1, <1>1
    <3>3. a \in Text /\ Len(a) = e - i + 1 /\ \A l \in 1 .. e - i + 1 : a[l] = t[i + l - 1]
      BY <3>1, Piece
    <3>4. /\ b \in Text /\ Len(b) = (k + e) - (k + i) + 1
          /\ \A l \in 1 .. (k + e) - (k + i) + 1 : b[l] = u[(k + i) + l - 1]
      BY <3>8, Piece
    <3> HIDE DEF a, b
    <3>5. Len(a) = Len(b) /\ (k + e) - (k + i) + 1 = e - i + 1
      BY <3>1, <3>3, <3>4
    <3>6. ASSUME NEW l \in 1 .. Len(a) PROVE a[l] = b[l]
      <4>1. /\ i + l - 1 \in 1 .. Len(t) /\ k + (i + l - 1) = (k + i) + l - 1
            /\ l \in 1 .. e - i + 1
        BY <3>1, <3>3, <1>1
      <4>2. a[l] = t[i + l - 1] /\ b[l] = u[(k + i) + l - 1]
        BY <4>1, <3>3, <3>4, <3>5
      <4> QED
        BY <4>1, <4>2 DEF Window
    <3>7. a = b
      BY <3>3, <3>4, <3>5, <3>6, TextEqual
    <3> QED
      BY <3>2, <3>7 DEF a, b, i, e
  <2>8. /\ CloseOf(t, m).body = SubSeq(t, m.end + 1, BodyEnd(t, m, p))
        /\ CloseOf(t, m).after = Behind(m, p)
    BY <2>3, ClosedAtFields
  <2>9. /\ CloseOf(u, n).closed
        /\ CloseOf(u, n).body = SubSeq(u, n.end + 1, BodyEnd(u, n, k + p))
        /\ CloseOf(u, n).after = Behind(n, k + p)
    BY <2>4, ClosedAtFields
  <2> QED
    BY <2>5, <2>6, <2>7, <2>8, <2>9
<1>5. ASSUME k + Len(t) = Len(u), ~CloseOf(t, m).closed
      PROVE  ~CloseOf(u, n).closed
  <2> SUFFICES ASSUME CloseOf(u, n).closed PROVE FALSE
    OBVIOUS
  <2>1. PICK p \in Nat : ClosesAt(u, n, p)
    BY <1>2, CloseFacts
  <2>2. n.end < p /\ IsEnder(u, n.kind, p)
    BY <2>1 DEF ClosesAt
  <2>3. p - k \in Nat /\ p - k >= 1 /\ k + (p - k) = p /\ m.end < p - k
    BY <2>2, <1>2
  <2>4. IsEnder(t, m.kind, p - k)
    BY <2>2, <2>3, <1>2, <1>5, WindowEnds
  <2> QED
    BY <2>3, <2>4, <1>2, <1>5, CloseFacts
<1> QED
  BY <1>3, <1>4, <1>5 DEF n

-----------------------------------------------------------------------------
(* Rounds.                                                                 *)
Splits == [visible : Text, rest : Text, calls : Nat]

(* No text holds more tokens of a kind than tokens.                        *)
LEMMA CountBound ==
  ASSUME NEW t \in Text, NEW token
  PROVE  HowMany(t, token) \in Nat /\ HowMany(t, token) <= Len(t)
<1> DEFINE P == {i \in DOMAIN t : t[i] = token}
<1>1. Len(t) \in Nat /\ DOMAIN t = 1 .. Len(t)
  BY TextPlaces
<1>2. IsFiniteSet(1 .. Len(t)) /\ Cardinality(1 .. Len(t)) = Len(t)
  <2>1. /\ IsFiniteSet(1 .. Len(t))
        /\ Cardinality(1 .. Len(t)) = IF 1 > Len(t) THEN 0 ELSE Len(t) - 1 + 1
    BY <1>1, FS_Interval
  <2> QED
    BY <2>1, <1>1
<1>3. P \in SUBSET (1 .. Len(t))
  BY <1>1
<1> HIDE DEF P
<1>4. IsFiniteSet(P) /\ Cardinality(P) <= Cardinality(1 .. Len(t))
  BY <1>2, <1>3, FS_Subset
<1>5. Cardinality(P) \in Nat
  BY <1>4, FS_CardinalityType
<1> QED
  BY <1>2, <1>4, <1>5 DEF HowMany, P

(* A block holds no more calls than tokens.                                *)
LEMMA CallsBound ==
  ASSUME NEW kind, NEW body \in Text
  PROVE  CallsOf(kind, body) \in Nat /\ CallsOf(kind, body) <= Len(body)
<1>1. Len(body) \in Nat /\ DOMAIN body = 1 .. Len(body)
  BY TextPlaces
<1>2. HowMany(body, "call") \in Nat /\ HowMany(body, "call") <= Len(body)
  BY CountBound
<1>3. PayloadCalls(body) \in Nat /\ PayloadCalls(body) <= Len(body)
  <2>1. (\E i \in DOMAIN body : ObjectAt(body, i, Brackets)) => Len(body) >= 1
    BY <1>1
  <2> QED
    BY <1>1, <2>1 DEF PayloadCalls
<1>4. CallsOf(kind, body) \in {HowMany(body, "call"), PayloadCalls(body), 0}
  BY DEF CallsOf
<1> QED
  BY <1>1, <1>2, <1>3, <1>4

(* Where a start stands.                                                   *)
LEMMA StartPlaces ==
  ASSUME NEW t \in Text, NEW m \in Starts(t)
  PROVE  /\ m \in Marks /\ m.start \in Nat /\ m.end \in Nat /\ m.kind \in Kinds
         /\ 1 <= m.start /\ m.start < m.end /\ 1 <= m.end /\ m.end <= Len(t)
<1>1. m \in Marks /\ IsStart(t, m.kind, m.start, m.end)
  BY StartMembers
<1> QED
  BY <1>1 DEF Marks, IsStart

(* Where a closed block stands: its body lies between the start marker and *)
(* the end, which takes at least one token.                                *)
LEMMA ClosedPlaces ==
  ASSUME NEW t \in Text, NEW m \in Starts(t), CloseOf(t, m).closed
  PROVE  \E k \in m.end + 1 .. Len(t) :
           /\ CloseOf(t, m).after = k + 1
           /\ CloseOf(t, m).body \in Text
           /\ Len(CloseOf(t, m).body) <= k
<1>1. /\ m \in Marks /\ m.start \in Nat /\ m.end \in Nat
      /\ 1 <= m.end /\ m.end <= Len(t) /\ Len(t) \in Nat
  BY StartPlaces, TextPlaces
<1>2. PICK p \in Nat : ClosesAt(t, m, p)
  BY <1>1, CloseFacts
<1>3. CloseOf(t, m) = ClosedAt(t, m, p)
  BY <1>1, <1>2, CloseFacts
<1>4. m.end < p /\ p <= Len(t) /\ (m.kind = "function_calls" => p + 1 <= Len(t))
  BY <1>1, <1>2 DEF ClosesAt, IsEnder
<1> DEFINE i == m.end + 1
           e == BodyEnd(t, m, p)
<1>5. i \in 1 .. Len(t) + 1 /\ e \in Int /\ i - 1 <= e /\ e <= Len(t) /\ e - i + 1 <= p
  BY <1>1, <1>4 DEF BodyEnd
<1>6. SubSeq(t, i, e) \in Text /\ Len(SubSeq(t, i, e)) = e - i + 1
  <2> HIDE DEF i, e
  <2> QED
    BY <1>5, Piece
<1>7. CloseOf(t, m).body = SubSeq(t, i, e) /\ CloseOf(t, m).after = Behind(m, p)
  BY <1>3, ClosedAtFields
<1> DEFINE k == Behind(m, p) - 1
<1>8. k \in m.end + 1 .. Len(t) /\ Behind(m, p) = k + 1 /\ p <= k
  BY <1>1, <1>4 DEF Behind
<1> HIDE DEF i, e, k
<1>9. Len(CloseOf(t, m).body) <= k
  BY <1>5, <1>6, <1>7, <1>8, <1>1
<1> QED
  BY <1>6, <1>7, <1>8, <1>9

(* A round: what comes behind its block is shorter, and the block has room *)
(* for its calls.                                                          *)
LEMMA RoundFacts ==
  ASSUME NEW t \in Text, HasClosedBlock(t)
  PROVE  /\ FirstBlock(t).visible \in Text
         /\ FirstBlock(t).calls \in Nat
         /\ FirstBlock(t).behind \in Text
         /\ Len(FirstBlock(t).behind) < Len(t)
         /\ FirstBlock(t).calls + Len(FirstBlock(t).behind) <= Len(t)
<1> DEFINE m == FirstOf(Starts(t))
           block == CloseOf(t, m)
<1>1. m \in Starts(t) /\ block.closed
  BY FirstStart DEF HasClosedBlock
<1>2. /\ m.start \in Nat /\ m.end \in Nat /\ 1 <= m.start /\ m.start < m.end
      /\ m.end <= Len(t) /\ Len(t) \in Nat
  BY <1>1, StartPlaces, TextPlaces
<1>3. PICK k \in m.end + 1 .. Len(t) :
        block.after = k + 1 /\ block.body \in Text /\ Len(block.body) <= k
  BY <1>1, ClosedPlaces
<1> DEFINE plain == m.kind = "tool_code" /\ ~IsPayload(block.body)
           e == (IF plain THEN block.after ELSE m.start) - 1
<1>4. /\ FirstBlock(t).visible = SubSeq(t, 1, e)
      /\ FirstBlock(t).calls = CallsOf(m.kind, block.body)
      /\ FirstBlock(t).behind = From(t, block.after)
  BY DEF FirstBlock
<1> HIDE DEF m, block
<1>5. k \in 0 .. Len(t) /\ e \in 0 .. Len(t) /\ 1 <= k
  BY <1>2, <1>3
<1> HIDE DEF e
<1>6. SubSeq(t, 1, e) \in Text
  BY <1>5, FrontPlaces
<1>7. From(t, k + 1) \in Text /\ Len(From(t, k + 1)) = Len(t) - k
  BY <1>5, FromPlaces
<1>8. CallsOf(m.kind, block.body) \in Nat /\ CallsOf(m.kind, block.body) <= k
  <2>1. /\ CallsOf(m.kind, block.body) \in Nat
        /\ CallsOf(m.kind, block.body) <= Len(block.body)
    BY <1>3, CallsBound
  <2>2. Len(block.body) \in Nat
    BY <1>3, TextPlaces
  <2> QED
    BY <2>1, <2>2, <1>3, <1>5
<1> QED
  BY <1>2, <1>3, <1>4, <1>5, <1>6, <1>7, <1>8

(* ClosedBlocks is defined for every text: there is a function that        *)
(* satisfies its equation, since every round leaves a shorter text.        *)
LEMMA ClosedBlocksEquation ==
  ASSUME NEW t \in Text
  PROVE  ClosedBlocks[t] =
           IF HasClosedBlock(t)
           THEN [visible |-> FirstBlock(t).visible \o ClosedBlocks[FirstBlock(t).behind].visible,
                 rest |-> ClosedBlocks[FirstBlock(t).behind].rest,
                 calls |-> FirstBlock(t).calls + ClosedBlocks[FirstBlock(t).behind].calls]
           ELSE [visible |-> <<>>, rest |-> t, calls |-> 0]
<1> DEFINE stop == {x \in Text : ~HasClosedBlock(x)}
           size == [x \in Text |-> Len(x)]
           next == [x \in Text |-> IF HasClosedBlock(x) THEN FirstBlock(x).behind ELSE x]
           base == [x \in Text |-> [visible |-> <<>>, rest |-> x, calls |-> 0]]
           Add(x, v) == [visible |-> FirstBlock(x).visible \o v.visible,
                         rest |-> v.rest, calls |-> FirstBlock(x).calls + v.calls]
           comb == [p \in Text \X Splits |->
                      IF HasClosedBlock(p[1]) THEN Add(p[1], p[2]) ELSE p[2]]
           Round(f) == [x \in Text |->
                          IF HasClosedBlock(x) THEN Add(x, f[FirstBlock(x).behind])
                          ELSE [visible |-> <<>>, rest |-> x, calls |-> 0]]
<1>1. size \in [Text -> Nat]
  BY TextPlaces
<1>2. next \in [Text -> Text]
  BY RoundFacts
<1>3. base \in [Text -> Splits]
  BY EmptyText DEF Splits
<1>4. \A x \in Text : \A v \in Splits : HasClosedBlock(x) => Add(x, v) \in Splits
  <2> SUFFICES ASSUME NEW x \in Text, NEW v \in Splits, HasClosedBlock(x)
               PROVE  Add(x, v) \in Splits
    OBVIOUS
  <2>1. v.visible \in Text /\ v.rest \in Text /\ v.calls \in Nat
    BY DEF Splits
  <2>2. FirstBlock(x).visible \in Text /\ FirstBlock(x).calls \in Nat
    BY RoundFacts
  <2>3. FirstBlock(x).visible \o v.visible \in Text
    BY <2>1, <2>2, JoinedPlaces
  <2> QED
    BY <2>1, <2>2, <2>3 DEF Splits
<1>5. comb \in [Text \X Splits -> Splits]
  BY <1>4
<1>6. \A x \in Text \ stop : size[next[x]] < size[x]
  BY RoundFacts
<1>7. Recursive(Text, Splits, stop, size, next, base, comb)
  <2>1. stop \in SUBSET Text
    OBVIOUS
  <2> HIDE DEF stop, size, next, base, comb
  <2> QED
    BY <1>1, <1>2, <1>3, <1>5, <1>6, <2>1 DEF Recursive
<1>8. PICK f \in [Text -> Splits] : f = Rounds(Text, stop, next, base, comb, f)
  <2> HIDE DEF stop, size, next, base, comb
  <2> QED
    BY <1>7, RecursionExists, SMT
<1>9. f = Round(f)
  <2> DEFINE g == Round(f)
  <2>1. ASSUME NEW x \in Text PROVE f[x] = g[x]
    <3>1. f[x] = IF x \in stop THEN base[x] ELSE comb[<<x, f[next[x]]>>]
      <4> HIDE DEF stop, next, base, comb
      <4> QED
        BY <1>8 DEF Rounds
    <3>2. CASE ~HasClosedBlock(x)
      BY <3>1, <3>2
    <3>3. CASE HasClosedBlock(x)
      <4>1. FirstBlock(x).behind \in Text /\ next[x] = FirstBlock(x).behind
        BY <3>3, RoundFacts
      <4>2. f[next[x]] \in Splits
        BY <4>1
      <4> HIDE DEF Add
      <4>3. comb[<<x, f[next[x]]>>] = Add(x, f[next[x]])
        BY <3>3, <4>2
      <4> QED
        BY <3>1, <3>3, <4>1, <4>3
    <3> QED
      BY <3>2, <3>3
  <2>2. f = [x \in Text |-> f[x]] /\ g = [x \in Text |-> g[x]]
    OBVIOUS
  <2> HIDE DEF g
  <2>3. f = g
    BY <2>1, <2>2
  <2> QED
    BY <2>3 DEF g
<1>10. ClosedBlocks = CHOOSE h : h = Round(h)
  BY DEF ClosedBlocks, Joined
<1>11. ClosedBlocks = Round(ClosedBlocks)
  <2> HIDE DEF Round
  <2> QED
    BY <1>9, <1>10
<1>12. ClosedBlocks[t] = IF HasClosedBlock(t) THEN Add(t, ClosedBlocks[FirstBlock(t).behind])
                         ELSE [visible |-> <<>>, rest |-> t, calls |-> 0]
  <2> DEFINE B == ClosedBlocks
  <2>1. B = Round(B)
    BY <1>11
  <2> HIDE DEF B, Add
  <2>2. B[t] = IF HasClosedBlock(t) THEN Add(t, B[FirstBlock(t).behind])
               ELSE [visible |-> <<>>, rest |-> t, calls |-> 0]
    BY <2>1
  <2> QED
    BY <2>2 DEF B
<1> QED
  BY <1>12

(* Its values are splits of the text.                                      *)
LEMMA ClosedBlocksType ==
  \A t \in Text : /\ ClosedBlocks[t] \in Splits
                  /\ ClosedBlocks[t].calls + Len(ClosedBlocks[t].rest) <= Len(t)
                  /\ ~HasClosedBlock(ClosedBlocks[t].rest)
<1> DEFINE Good == {t \in Text : /\ ClosedBlocks[t] \in Splits
                                 /\ ClosedBlocks[t].calls + Len(ClosedBlocks[t].rest) <= Len(t)
                                 /\ ~HasClosedBlock(ClosedBlocks[t].rest)}
<1>1. ASSUME NEW t \in Text, \A u \in Text : Len(u) < Len(t) => u \in Good
      PROVE  t \in Good
  <2>0. Len(t) \in Nat
    BY TextPlaces
  <2>1. CASE ~HasClosedBlock(t)
    <3>1. ClosedBlocks[t] = [visible |-> <<>>, rest |-> t, calls |-> 0]
      BY <2>1, ClosedBlocksEquation
    <3> QED
      BY <3>1, <2>0, <2>1, EmptyText DEF Splits
  <2>2. CASE HasClosedBlock(t)
    <3> DEFINE b == FirstBlock(t)
               r == ClosedBlocks[b.behind]
    <3>1. ClosedBlocks[t] = [visible |-> b.visible \o r.visible, rest |-> r.rest,
                             calls |-> b.calls + r.calls]
      BY <2>2, ClosedBlocksEquation
    <3>2. /\ b.visible \in Text /\ b.calls \in Nat /\ b.behind \in Text
          /\ Len(b.behind) < Len(t) /\ b.calls + Len(b.behind) <= Len(t)
      BY <2>2, RoundFacts
    <3>3. r \in Splits /\ r.calls + Len(r.rest) <= Len(b.behind) /\ ~HasClosedBlock(r.rest)
      BY <3>2, <1>1
    <3> HIDE DEF b, r
    <3>4. /\ r.visible \in Text /\ r.rest \in Text /\ r.calls \in Nat
          /\ Len(r.rest) \in Nat /\ Len(b.behind) \in Nat
      BY <3>2, <3>3, TextPlaces DEF Splits
    <3>5. b.visible \o r.visible \in Text
      BY <3>2, <3>4, JoinedPlaces
    <3>6. ClosedBlocks[t] \in Splits
      BY <3>1, <3>2, <3>4, <3>5 DEF Splits
    <3>7. (b.calls + r.calls) + Len(r.rest) <= Len(t)
      BY <3>2, <3>3, <3>4, <2>0
    <3> QED
      BY <3>1, <3>3, <3>6, <3>7
  <2> QED
    BY <2>1, <2>2
<1> HIDE DEF Good
<1>2. \A t \in Text : t \in Good
  BY <1>1, TextInduction
<1> QED
  BY <1>2 DEF Good

-----------------------------------------------------------------------------
(* Text in front of a round and behind it.                                 *)

(* What comes behind a closed block does not change its round.             *)
LEMMA RoundJoined ==
  ASSUME NEW t \in Text, NEW c \in Text, HasClosedBlock(t)
  PROVE  /\ HasClosedBlock(t \o c)
         /\ FirstBlock(t \o c).visible = FirstBlock(t).visible
         /\ FirstBlock(t \o c).calls = FirstBlock(t).calls
         /\ FirstBlock(t \o c).behind = FirstBlock(t).behind \o c
<1> DEFINE m == FirstOf(Starts(t))
           x == t \o c
           block == CloseOf(t, m)
           e == (IF m.kind = "tool_code" /\ ~IsPayload(block.body)
                 THEN block.after ELSE m.start) - 1
<1>1. Starts(t) # {} /\ m \in Starts(t) /\ block.closed
  BY FirstStart DEF HasClosedBlock
<1>2. /\ m \in Marks /\ m.start \in Nat /\ m.end \in Nat /\ 1 <= m.start
      /\ m.start < m.end /\ 1 <= m.end /\ m.end <= Len(t) /\ Len(t) \in Nat
  BY <1>1, StartPlaces, TextPlaces
<1>3. x \in Text /\ Window(t, x, 0)
  BY JoinedWindow
<1>4. Starts(x) # {} /\ FirstOf(Starts(x)) = m
  BY <1>1, FirstStartStays
<1>5. Shifted(m, 0) = m
  BY <1>2, ShiftedByNothing
<1>6. PICK k \in m.end + 1 .. Len(t) : block.after = k + 1
  BY <1>1, ClosedPlaces
<1> HIDE DEF m, x
<1>7. /\ CloseOf(x, m).closed /\ CloseOf(x, m).body = block.body
      /\ CloseOf(x, m).after = 0 + block.after
  <2>1. 0 \in Nat
    OBVIOUS
  <2> QED
    BY <1>1, <1>2, <1>3, <1>5, <2>1, WindowClose
<1>8. CloseOf(x, m).after = block.after
  BY <1>6, <1>7
<1>9. /\ FirstBlock(x).visible = SubSeq(x, 1, e)
      /\ FirstBlock(x).calls = CallsOf(m.kind, block.body)
      /\ FirstBlock(x).behind = From(x, block.after)
  BY <1>4, <1>7, <1>8 DEF FirstBlock
<1>10. /\ FirstBlock(t).visible = SubSeq(t, 1, e)
       /\ FirstBlock(t).calls = CallsOf(m.kind, block.body)
       /\ FirstBlock(t).behind = From(t, block.after)
  BY DEF FirstBlock, m
<1> HIDE DEF block
<1>11. k \in 0 .. Len(t) /\ e \in 0 .. Len(t)
  BY <1>2, <1>6
<1> HIDE DEF e
<1>12. SubSeq(x, 1, e) = SubSeq(t, 1, e) /\ From(x, k + 1) = From(t, k + 1) \o c
  BY <1>11, CutJoined DEF x
<1>13. HasClosedBlock(x)
  BY <1>4, <1>7 DEF HasClosedBlock
<1> QED
  BY <1>6, <1>9, <1>10, <1>12, <1>13 DEF x

(* Text in which no marker begins, in front of another one.                *)
LEMMA FirstStartShifted ==
  ASSUME NEW x \in Text, NEW k \in 0 .. Len(x), \A n \in Starts(x) : k < n.start
  PROVE  /\ Starts(x) = {} <=> Starts(From(x, k + 1)) = {}
         /\ Starts(x) # {} =>
              FirstOf(Starts(x)) = Shifted(FirstOf(Starts(From(x, k + 1))), k)
<1> DEFINE y == From(x, k + 1)
           f == FirstOf(Starts(y))
<1>1. y \in Text /\ k \in Nat /\ Window(y, x, k) /\ k + Len(y) = Len(x)
  BY FromWindow
<1> HIDE DEF y
<1>2. \A m \in Starts(y) : Shifted(m, k) \in Starts(x)
  BY <1>1, ShiftedStarts
<1>3. ASSUME NEW n \in Starts(x) PROVE \E m \in Starts(y) : n = Shifted(m, k)
  <2>1. n.start > k /\ n.end <= k + Len(y)
    <3>1. n.start \in Nat /\ n.end <= Len(x)
      BY StartPlaces
    <3> QED
      BY <3>1, <1>1
  <2> QED
    BY <2>1, <1>1, ShiftedStarts
<1>4. ASSUME Starts(x) # {} PROVE FirstOf(Starts(x)) = Shifted(f, k)
  <2>1. Starts(y) # {}
    BY <1>3, <1>4
  <2>2. f \in Starts(y) /\ \A m \in Starts(y) : f.start <= m.start
    BY <1>1, <2>1, FirstStart
  <2>3. f \in Marks /\ f.start \in Nat
    BY <1>1, <2>2, StartPlaces
  <2> HIDE DEF f
  <2>4. Shifted(f, k).start = k + f.start
    BY <1>1, <2>3, ShiftedMark
  <2>5. ASSUME NEW n \in Starts(x) PROVE Shifted(f, k).start <= n.start
    <3>1. PICK m \in Starts(y) : n = Shifted(m, k)
      BY <1>3
    <3>2. m \in Marks /\ m.start \in Nat
      BY <1>1, StartPlaces
    <3>3. n.start = k + m.start
      BY <1>1, <3>1, <3>2, ShiftedMark
    <3> QED
      BY <1>1, <2>2, <2>3, <2>4, <3>2, <3>3
  <2>6. Shifted(f, k) \in Starts(x)
    BY <1>2, <2>2
  <2> QED
    BY <2>5, <2>6, FirstStart
<1> QED
  BY <1>2, <1>3, <1>4 DEF y

(* Such text is shown as it is, and the round is otherwise the same.       *)
LEMMA RoundShifted ==
  ASSUME NEW x \in Text, NEW k \in 0 .. Len(x), \A n \in Starts(x) : k < n.start
  PROVE  LET y == From(x, k + 1)
         IN  /\ HasClosedBlock(x) <=> HasClosedBlock(y)
             /\ HasClosedBlock(x) =>
                  /\ FirstBlock(x).visible = SubSeq(x, 1, k) \o FirstBlock(y).visible
                  /\ FirstBlock(x).calls = FirstBlock(y).calls
                  /\ FirstBlock(x).behind = FirstBlock(y).behind
<1> DEFINE y == From(x, k + 1)
           m == FirstOf(Starts(y))
           n == FirstOf(Starts(x))
           block == CloseOf(y, m)
<1>1. y \in Text /\ k \in Nat /\ Window(y, x, k) /\ k + Len(y) = Len(x) /\ Len(y) \in Nat
  BY FromWindow, TextPlaces
<1>2. (Starts(x) = {} <=> Starts(y) = {}) /\ (Starts(x) # {} => n = Shifted(m, k))
  BY FirstStartShifted
<1>3. CASE Starts(x) = {}
  BY <1>2, <1>3 DEF HasClosedBlock
<1>4. CASE Starts(x) # {}
  <2> HIDE DEF y
  <2>1. n = Shifted(m, k) /\ m \in Starts(y)
    BY <1>1, <1>2, <1>4, FirstStart
  <2>2. /\ m \in Marks /\ m.start \in Nat /\ m.end \in Nat /\ 1 <= m.start
        /\ m.start < m.end /\ 1 <= m.end /\ m.end <= Len(y)
    BY <1>1, <2>1, StartPlaces
  <2>3. n.kind = m.kind /\ n.start = k + m.start
    BY <1>1, <2>1, <2>2, ShiftedMark
  <2>4. CASE ~block.closed
    <3>1. ~CloseOf(x, n).closed
      BY <1>1, <2>1, <2>2, <2>4, WindowClose
    <3> QED
      BY <2>4, <3>1 DEF HasClosedBlock, y
  <2>5. CASE block.closed
    <3>1. /\ CloseOf(x, n).closed /\ CloseOf(x, n).body = block.body
          /\ CloseOf(x, n).after = k + block.after
      BY <1>1, <2>1, <2>2, <2>5, WindowClose
    <3>2. PICK l \in m.end + 1 .. Len(y) : block.after = l + 1
      BY <1>1, <2>1, <2>5, ClosedPlaces
    <3> DEFINE plain == m.kind = "tool_code" /\ ~IsPayload(block.body)
               e == (IF plain THEN block.after ELSE m.start) - 1
               d == (IF plain THEN k + block.after ELSE k + m.start) - 1
    <3>3. /\ FirstBlock(y).visible = SubSeq(y, 1, e)
          /\ FirstBlock(y).calls = CallsOf(m.kind, block.body)
          /\ FirstBlock(y).behind = From(y, block.after)
      BY DEF FirstBlock
    <3>4. /\ FirstBlock(x).visible = SubSeq(x, 1, d)
          /\ FirstBlock(x).calls = CallsOf(m.kind, block.body)
          /\ FirstBlock(x).behind = From(x, k + block.after)
      BY <2>3, <3>1 DEF FirstBlock
    <3> HIDE DEF block, m, n
    <3>5. /\ l \in Nat /\ k + l <= Len(x) /\ e \in Nat /\ k + e <= Len(x) /\ d = k + e
          /\ k + block.after = (k + l) + 1
      BY <1>1, <2>2, <3>2
    <3> HIDE DEF d, e
    <3>6. SubSeq(x, 1, k + e) = SubSeq(x, 1, k) \o SubSeq(y, 1, e)
      BY <1>1, <3>5, FrontOfFrom DEF y
    <3>7. From(y, l + 1) = From(x, (k + l) + 1)
      BY <1>1, <3>5, FromFrom DEF y
    <3>8. HasClosedBlock(x) /\ HasClosedBlock(y)
      <4>1. Starts(y) # {}
        BY <2>1
      <4> QED
        BY <1>4, <2>5, <3>1, <4>1 DEF HasClosedBlock, m, n, block
    <3> QED
      BY <3>2, <3>3, <3>4, <3>5, <3>6, <3>7, <3>8 DEF y
  <2> QED
    BY <2>4, <2>5
<1> QED
  BY <1>3, <1>4

-----------------------------------------------------------------------------
(* The last round.                                                         *)
Partials(t) == {i \in 1 .. Len(t) : From(t, i) \in PartialMarkers}

(* Texts of one and of two tokens.                                         *)
LEMMA OneToken ==
  ASSUME NEW S, NEW t \in Seq(S), NEW a \in S
  PROVE  t = <<a>> <=> Len(t) = 1 /\ t[1] = a
<1>1. ASSUME Len(t) = 1, t[1] = a PROVE t = <<a>>
  BY <1>1
<1>2. Len(<<a>>) = 1 /\ <<a>>[1] = a
  OBVIOUS
<1> QED
  BY <1>1, <1>2

(* The same for two tokens.                                                *)
LEMMA TwoTokens ==
  ASSUME NEW S, NEW t \in Seq(S), NEW a \in S, NEW b \in S
  PROVE  t = <<a, b>> <=> Len(t) = 2 /\ t[1] = a /\ t[2] = b
<1>1. ASSUME Len(t) = 2, t[1] = a, t[2] = b PROVE t = <<a, b>>
  BY <1>1
<1>2. Len(<<a, b>>) = 2 /\ <<a, b>>[1] = a /\ <<a, b>>[2] = b
  OBVIOUS
<1> QED
  BY <1>1, <1>2

(* A piece of a marker is one or two tokens, and its beginning is one too. *)
LEMMA PartialShape ==
  ASSUME NEW t \in Text
  PROVE  t \in PartialMarkers <=>
           \/ Len(t) = 1 /\ t[1] \in {Fence, "[f", "[/f"}
           \/ Len(t) = 2 /\ t[1] = Fence /\ t[2] \in Words
           \/ Len(t) = 2 /\ t[1] = "[f" /\ t[2] = "f]"
           \/ Len(t) = 2 /\ t[1] = "[/f" /\ t[2] = "/f]"
<1>1. ASSUME NEW a PROVE t = <<a>> <=> Len(t) = 1 /\ t[1] = a
  <2>1. t \in Seq(STRING \union {a}) /\ a \in STRING \union {a}
    BY SeqMonotonic DEF Text
  <2> QED
    BY <2>1, OneToken
<1>2. ASSUME NEW a, NEW b PROVE t = <<a, b>> <=> Len(t) = 2 /\ t[1] = a /\ t[2] = b
  <2>1. /\ t \in Seq(STRING \union {a, b})
        /\ a \in STRING \union {a, b} /\ b \in STRING \union {a, b}
    BY SeqMonotonic DEF Text
  <2> QED
    BY <2>1, TwoTokens
<1>4. t = <<Fence>> <=> Len(t) = 1 /\ t[1] = Fence
  BY <1>1, Zenon
<1>5. t = <<"[f">> <=> Len(t) = 1 /\ t[1] = "[f"
  BY <1>1, Zenon
<1>6. t = <<"[/f">> <=> Len(t) = 1 /\ t[1] = "[/f"
  BY <1>1, Zenon
<1>7. t = <<Fence, "tool_code">> <=> Len(t) = 2 /\ t[1] = Fence /\ t[2] = "tool_code"
  BY <1>2, Zenon
<1>8. t = <<Fence, "tool_result">> <=> Len(t) = 2 /\ t[1] = Fence /\ t[2] = "tool_result"
  BY <1>2, Zenon
<1>9. t = <<"[f", "f]">> <=> Len(t) = 2 /\ t[1] = "[f" /\ t[2] = "f]"
  BY <1>2, Zenon
<1>10. t = <<"[/f", "/f]">> <=> Len(t) = 2 /\ t[1] = "[/f" /\ t[2] = "/f]"
  BY <1>2, Zenon
<1>11. t \in PartialMarkers <=>
         \/ t = <<Fence>> \/ t = <<Fence, "tool_code">> \/ t = <<Fence, "tool_result">>
         \/ t = <<"[f">> \/ t = <<"[f", "f]">> \/ t = <<"[/f">> \/ t = <<"[/f", "/f]">>
  BY DEF PartialMarkers, FunctionCallsMarker, FunctionCallsEndMarker
<1> QED
  BY <1>4, <1>5, <1>6, <1>7, <1>8, <1>9, <1>10, <1>11 DEF Words

(* FindPartialMarker returns the first of the places, or 0.                *)
LEMMA PartialPlace ==
  ASSUME NEW t \in Text
  PROVE  /\ Partials(t) = {} => FindPartialMarker(t) = 0
         /\ Partials(t) # {} => /\ FindPartialMarker(t) \in Partials(t)
                                /\ \A i \in Partials(t) : FindPartialMarker(t) <= i
         /\ \A p \in Partials(t) :
              (\A i \in Partials(t) : p <= i) => p = FindPartialMarker(t)
<1>1. DOMAIN t = 1 .. Len(t) /\ Len(t) \in Nat
  BY TextPlaces
<1>2. Partials(t) \subseteq Nat
  BY <1>1 DEF Partials
<1>3. FindPartialMarker(t) = IF Partials(t) = {} THEN 0 ELSE Min(Partials(t))
  BY <1>1 DEF FindPartialMarker, Partials
<1>4. ASSUME Partials(t) # {}
      PROVE  Min(Partials(t)) \in Partials(t) /\ \A i \in Partials(t) : Min(Partials(t)) <= i
  <2>1. \E p \in Partials(t) : \A i \in Partials(t) : p <= i
    BY <1>2, <1>4, LeastNumber
  <2> QED
    BY <2>1 DEF Min
<1>5. ASSUME NEW p \in Partials(t), \A i \in Partials(t) : p <= i
      PROVE  p = FindPartialMarker(t)
  <2>1. FindPartialMarker(t) = Min(Partials(t)) /\ Min(Partials(t)) \in Partials(t)
    BY <1>3, <1>4
  <2>2. p <= Min(Partials(t)) /\ Min(Partials(t)) <= p /\ p \in Nat /\ Min(Partials(t)) \in Nat
    BY <1>2, <1>4, <1>5, <2>1
  <2> QED
    BY <2>1, <2>2
<1> QED
  BY <1>3, <1>4, <1>5

(* How many tokens the last round shows while more text may come; the rest *)
(* it holds back, and it finds no call.                                    *)
Free(t) == IF Starts(t) # {} THEN FirstOf(Starts(t)).start - 1
           ELSE IF Partials(t) # {} THEN FindPartialMarker(t) - 1
           ELSE Len(t)

Cut(t, k) == [visible |-> SubSeq(t, 1, k), rest |-> From(t, k + 1), calls |-> 0]

(* The last round of a split that is not final cuts the text at one place. *)
LEMMA LastRound ==
  ASSUME NEW t \in Text
  PROVE  Free(t) \in 0 .. Len(t) /\ Unfinished(t, FALSE) = Cut(t, Free(t))
<1>1. Len(t) \in Nat
  BY TextPlaces
<1>2. CASE Starts(t) # {}
  <2> DEFINE m == FirstOf(Starts(t))
  <2>1. m \in Starts(t)
    BY <1>2, FirstStart
  <2>2. m.start \in Nat /\ m.end \in Nat /\ 1 <= m.start /\ m.start < m.end /\ m.end <= Len(t)
    BY <2>1, StartPlaces
  <2>3. Unfinished(t, FALSE) =
          [visible |-> SubSeq(t, 1, m.start - 1), rest |-> From(t, m.start), calls |-> 0]
    BY <1>2 DEF Unfinished
  <2> HIDE DEF m
  <2>4. m.start - 1 \in 0 .. Len(t) /\ (m.start - 1) + 1 = m.start
    BY <2>2, <1>1
  <2>5. Free(t) = m.start - 1
    BY <1>2 DEF Free, m
  <2> QED
    BY <2>3, <2>4, <2>5 DEF Cut
<1>3. CASE Starts(t) = {} /\ Partials(t) # {}
  <2> DEFINE p == FindPartialMarker(t)
  <2>1. p \in Nat /\ 1 <= p /\ p <= Len(t)
    BY <1>1, <1>3, PartialPlace DEF Partials
  <2>2. p # 0 /\ p - 1 \in 0 .. Len(t) /\ (p - 1) + 1 = p
    BY <2>1, <1>1
  <2>3. Unfinished(t, FALSE) =
          [visible |-> SubSeq(t, 1, p - 1), rest |-> From(t, p), calls |-> 0]
    BY <1>3, <2>2 DEF Unfinished
  <2>4. Free(t) = p - 1
    BY <1>3 DEF Free
  <2> HIDE DEF p
  <2> QED
    BY <2>2, <2>3, <2>4 DEF Cut
<1>4. CASE Starts(t) = {} /\ Partials(t) = {}
  <2>1. FindPartialMarker(t) = 0
    BY <1>4, PartialPlace
  <2>2. Unfinished(t, FALSE) = [visible |-> t, rest |-> <<>>, calls |-> 0]
    BY <1>4, <2>1 DEF Unfinished
  <2>3. Free(t) = Len(t) /\ Len(t) \in 0 .. Len(t)
    BY <1>1, <1>4 DEF Free
  <2>4. SubSeq(t, 1, Len(t)) = t
    BY SubSeqFull DEF Text
  <2>5. From(t, Len(t) + 1) \in Text /\ Len(From(t, Len(t) + 1)) = Len(t) - Len(t)
    BY <2>3, FromPlaces
  <2>6. From(t, Len(t) + 1) = <<>>
    BY <2>5, <1>1, EmptyText
  <2> QED
    BY <2>2, <2>3, <2>4, <2>6 DEF Cut
<1> QED
  BY <1>2, <1>3, <1>4

(* A split of the whole text is the closed blocks and the last round.      *)
Plus(visible, calls, split) ==
  [visible |-> visible \o split.visible, rest |-> split.rest, calls |-> calls + split.calls]

(* A split is its closed blocks and the cut of what they leave.            *)
LEMMA SplitIs ==
  ASSUME NEW t \in Text
  PROVE  SplitStreamText(t, FALSE) =
           Plus(ClosedBlocks[t].visible, ClosedBlocks[t].calls,
                Cut(ClosedBlocks[t].rest, Free(ClosedBlocks[t].rest)))
<1>1. ClosedBlocks[t].rest \in Text
  BY ClosedBlocksType DEF Splits
<1>2. Unfinished(ClosedBlocks[t].rest, FALSE)
        = Cut(ClosedBlocks[t].rest, Free(ClosedBlocks[t].rest))
  BY <1>1, LastRound
<1> QED
  BY <1>2 DEF SplitStreamText, Joined, Plus

(* A cut is a split, and what its fields are.                              *)
LEMMA CutType ==
  ASSUME NEW t \in Text, NEW k \in 0 .. Len(t)
  PROVE  /\ Cut(t, k) \in Splits
         /\ Cut(t, k).visible = SubSeq(t, 1, k)
         /\ Cut(t, k).rest = From(t, k + 1)
         /\ Cut(t, k).calls = 0
BY FrontPlaces, FromPlaces DEF Cut, Splits

(* So is a split behind another one.                                       *)
LEMMA PlusType ==
  ASSUME NEW v \in Text, NEW n \in Nat, NEW s \in Splits
  PROVE  /\ Plus(v, n, s) \in Splits
         /\ Plus(v, n, s).visible = v \o s.visible
         /\ Plus(v, n, s).rest = s.rest
         /\ Plus(v, n, s).calls = n + s.calls
         /\ Plus(<<>>, 0, s) = s
<1>1. /\ s.visible \in Text /\ s.rest \in Text /\ s.calls \in Nat
      /\ s = [visible |-> s.visible, rest |-> s.rest, calls |-> s.calls]
  BY DEF Splits
<1>2. v \o s.visible \in Text /\ <<>> \o s.visible = s.visible
  BY <1>1, JoinedPlaces, EmptyText
<1> QED
  BY <1>1, <1>2 DEF Plus, Splits

(* Splits put behind each other may be grouped in any way.                 *)
LEMMA PlusTwice ==
  ASSUME NEW v \in Text, NEW n \in Nat, NEW w \in Text, NEW l \in Nat, NEW s \in Splits
  PROVE  Plus(v, n, Plus(w, l, s)) = Plus(v \o w, n + l, s)
<1>1. s.visible \in Text /\ s.calls \in Nat
  BY DEF Splits
<1>2. (v \o w) \o s.visible = v \o (w \o s.visible)
  BY <1>1, JoinedThrice
<1>3. (n + l) + s.calls = n + (l + s.calls)
  BY <1>1
<1> QED
  BY <1>2, <1>3 DEF Plus

(* A split is a split, and its rest and calls fit into the text.           *)
LEMMA SplitType ==
  ASSUME NEW t \in Text
  PROVE  /\ SplitStreamText(t, FALSE) \in Splits
         /\ SplitStreamText(t, FALSE).calls + Len(SplitStreamText(t, FALSE).rest) <= Len(t)
<1> DEFINE C == ClosedBlocks[t]
           k == Free(C.rest)
<1>1. /\ C.visible \in Text /\ C.rest \in Text /\ C.calls \in Nat
      /\ C.calls + Len(C.rest) <= Len(t)
  BY ClosedBlocksType DEF Splits
<1>2. SplitStreamText(t, FALSE) = Plus(C.visible, C.calls, Cut(C.rest, k))
  BY SplitIs
<1> HIDE DEF C
<1>3. k \in 0 .. Len(C.rest)
  BY <1>1, LastRound
<1> HIDE DEF k
<1>4. /\ Cut(C.rest, k) \in Splits /\ Cut(C.rest, k).rest = From(C.rest, k + 1)
      /\ Cut(C.rest, k).calls = 0
  BY <1>1, <1>3, CutType
<1>5. Len(From(C.rest, k + 1)) = Len(C.rest) - k
  BY <1>1, <1>3, FromPlaces
<1> DEFINE c == Cut(C.rest, k)
<1>6. /\ SplitStreamText(t, FALSE) \in Splits
      /\ SplitStreamText(t, FALSE).rest = From(C.rest, k + 1)
      /\ SplitStreamText(t, FALSE).calls = C.calls + 0
  <2>1. c \in Splits /\ c.rest = From(C.rest, k + 1) /\ c.calls = 0
    BY <1>4
  <2>2. SplitStreamText(t, FALSE) = Plus(C.visible, C.calls, c)
    BY <1>2
  <2> HIDE DEF c
  <2>3. /\ Plus(C.visible, C.calls, c) \in Splits
        /\ Plus(C.visible, C.calls, c).rest = c.rest
        /\ Plus(C.visible, C.calls, c).calls = C.calls + c.calls
    BY <1>1, <2>1, PlusType
  <2> QED
    BY <2>1, <2>2, <2>3
<1>7. Len(C.rest) \in Nat /\ Len(t) \in Nat
  BY <1>1, TextPlaces
<1>8. Len(SplitStreamText(t, FALSE).rest) = Len(C.rest) - k
  BY <1>5, <1>6
<1>9. SplitStreamText(t, FALSE).calls = C.calls
  <2>1. C.calls + 0 = C.calls
    BY <1>1
  <2> QED
    BY <2>1, <1>6
<1>10. C.calls + (Len(C.rest) - k) <= Len(t)
  BY <1>1, <1>3, <1>7
<1> QED
  BY <1>6, <1>8, <1>9, <1>10

-----------------------------------------------------------------------------
(* Cutting a text, and splitting what is cut.                              *)

(* No marker begins, whole or cut, among the first k tokens.               *)
Clear(x, k) == /\ \A n \in Starts(x) : k < n.start
               /\ \A i \in Partials(x) : k < i

(* A clear front does not change where the rest is cut.                    *)
LEMMA LastRoundShifted ==
  ASSUME NEW x \in Text, NEW k \in 0 .. Len(x), Clear(x, k)
  PROVE  Free(x) = k + Free(From(x, k + 1))
<1> DEFINE y == From(x, k + 1)
<1>1. y \in Text /\ k \in Nat /\ k + Len(y) = Len(x) /\ Len(y) \in Nat /\ Len(x) \in Nat
  BY FromWindow, TextPlaces
<1>2. /\ Starts(x) = {} <=> Starts(y) = {}
      /\ Starts(x) # {} => FirstOf(Starts(x)) = Shifted(FirstOf(Starts(y)), k)
  BY FirstStartShifted DEF Clear
<1>3. ASSUME NEW i \in 1 .. Len(y) PROVE From(y, i) = From(x, k + i)
  <2>1. /\ i - 1 \in Nat /\ k + (i - 1) <= Len(x) /\ (i - 1) + 1 = i
        /\ (k + (i - 1)) + 1 = k + i
    BY <1>1
  <2>2. From(y, (i - 1) + 1) = From(x, (k + (i - 1)) + 1)
    BY <1>1, <2>1, FromFrom
  <2> QED
    BY <2>1, <2>2
<1> HIDE DEF y
<1>4. \A i \in Partials(y) : k + i \in Partials(x)
  <2> SUFFICES ASSUME NEW i \in Partials(y) PROVE k + i \in Partials(x)
    OBVIOUS
  <2>1. i \in 1 .. Len(y) /\ From(y, i) \in PartialMarkers
    BY DEF Partials
  <2>2. k + i \in 1 .. Len(x) /\ From(x, k + i) \in PartialMarkers
    BY <1>1, <1>3, <2>1
  <2> QED
    BY <2>2 DEF Partials
<1>5. \A j \in Partials(x) : j - k \in Partials(y)
  <2> SUFFICES ASSUME NEW j \in Partials(x) PROVE j - k \in Partials(y)
    OBVIOUS
  <2>1. j \in 1 .. Len(x) /\ From(x, j) \in PartialMarkers /\ k < j
    BY DEF Partials, Clear
  <2>2. j - k \in 1 .. Len(y) /\ k + (j - k) = j
    BY <1>1, <2>1
  <2>3. From(y, j - k) \in PartialMarkers
    BY <1>3, <2>1, <2>2
  <2> QED
    BY <2>2, <2>3 DEF Partials
<1>6. CASE Starts(x) # {}
  <2> DEFINE m == FirstOf(Starts(y))
  <2>1. m \in Starts(y)
    BY <1>1, <1>2, <1>6, FirstStart
  <2>2. m \in Marks /\ m.start \in Nat
    BY <1>1, <2>1, StartPlaces
  <2>3. FirstOf(Starts(x)).start = k + m.start
    BY <1>1, <1>2, <1>6, <2>2, ShiftedMark
  <2>4. Free(x) = FirstOf(Starts(x)).start - 1 /\ Free(y) = m.start - 1
    BY <1>2, <1>6 DEF Free
  <2> HIDE DEF m
  <2>5. Free(x) = k + Free(y)
    BY <1>1, <2>2, <2>3, <2>4
  <2> QED
    BY <2>5 DEF y
<1>7. CASE Starts(x) = {} /\ Partials(x) # {}
  <2>1. Starts(y) = {} /\ Partials(y) # {}
    BY <1>2, <1>5, <1>7
  <2> DEFINE p == FindPartialMarker(y)
  <2>2. p \in Partials(y) /\ \A i \in Partials(y) : p <= i
    BY <1>1, <2>1, PartialPlace
  <2>3. p \in Nat /\ k + p \in Partials(x)
    BY <1>1, <1>4, <2>2 DEF Partials
  <2>4. Free(y) = p - 1
    BY <2>1 DEF Free
  <2> HIDE DEF p
  <2>5. ASSUME NEW j \in Partials(x) PROVE k + p <= j
    <3>1. j \in Nat /\ p <= j - k
      BY <1>1, <1>5, <2>2 DEF Partials
    <3> QED
      BY <1>1, <2>3, <3>1
  <2>6. k + p = FindPartialMarker(x)
    BY <2>3, <2>5, PartialPlace
  <2>7. Free(x) = (k + p) - 1
    BY <1>7, <2>6 DEF Free
  <2>8. Free(x) = k + Free(y)
    BY <1>1, <2>3, <2>4, <2>7
  <2> QED
    BY <2>8 DEF y
<1>8. CASE Starts(x) = {} /\ Partials(x) = {}
  <2>1. Starts(y) = {} /\ Partials(y) = {}
    BY <1>2, <1>4, <1>8
  <2> QED
    BY <1>1, <1>8, <2>1 DEF Free, y
<1> QED
  BY <1>6, <1>7, <1>8

(* Text in which no marker begins is shown, whatever comes behind it.      *)
LEMMA SplitShifted ==
  ASSUME NEW x \in Text, NEW k \in 0 .. Len(x), Clear(x, k)
  PROVE  SplitStreamText(x, FALSE)
           = Plus(SubSeq(x, 1, k), 0, SplitStreamText(From(x, k + 1), FALSE))
<1> DEFINE y == From(x, k + 1)
           v == SubSeq(x, 1, k)
           B == ClosedBlocks[FirstBlock(y).behind]
<1>1. /\ y \in Text /\ v \in Text /\ k \in Nat /\ k + Len(y) = Len(x)
      /\ Len(y) \in Nat /\ Len(x) \in Nat
  BY FromWindow, FrontPlaces, TextPlaces
<1>2. \A n \in Starts(x) : k < n.start
  BY DEF Clear
<1>3. /\ HasClosedBlock(x) <=> HasClosedBlock(y)
      /\ HasClosedBlock(x) =>
           /\ FirstBlock(x).visible = v \o FirstBlock(y).visible
           /\ FirstBlock(x).calls = FirstBlock(y).calls
           /\ FirstBlock(x).behind = FirstBlock(y).behind
  BY <1>2, RoundShifted
<1>4. CASE HasClosedBlock(x)
  <2> HIDE DEF y, v
  <2> DEFINE s == FirstBlock(y).visible
             n == FirstBlock(y).calls
             e == Cut(B.rest, Free(B.rest))
  <2>1. s \in Text /\ n \in Nat /\ FirstBlock(y).behind \in Text
    BY <1>1, <1>3, <1>4, RoundFacts
  <2> DEFINE w == s \o B.visible
             l == n + B.calls
  <2>2. B.visible \in Text /\ B.rest \in Text /\ B.calls \in Nat
    BY <2>1, ClosedBlocksType DEF Splits
  <2>3. ClosedBlocks[x] = [visible |-> (v \o s) \o B.visible, rest |-> B.rest, calls |-> l]
    BY <1>1, <1>3, <1>4, ClosedBlocksEquation
  <2>4. ClosedBlocks[y] = [visible |-> w, rest |-> B.rest, calls |-> l]
    BY <1>1, <1>3, <1>4, ClosedBlocksEquation
  <2> HIDE DEF B, s, n
  <2>5. (v \o s) \o B.visible = v \o w
    BY <1>1, <2>1, <2>2, JoinedThrice
  <2>6. w \in Text
    BY <2>1, <2>2, JoinedPlaces
  <2>7. l \in Nat /\ 0 + l = l /\ 0 \in Nat
    BY <2>1, <2>2
  <2>8. e \in Splits
    BY <2>2, LastRound, CutType
  <2> HIDE DEF w, l
  <2>9. ClosedBlocks[x] = [visible |-> v \o w, rest |-> B.rest, calls |-> l]
    BY <2>3, <2>5
  <2>10. /\ ClosedBlocks[x].visible = v \o w /\ ClosedBlocks[x].rest = B.rest
         /\ ClosedBlocks[x].calls = l
    BY <2>9
  <2>11. /\ ClosedBlocks[y].visible = w /\ ClosedBlocks[y].rest = B.rest
         /\ ClosedBlocks[y].calls = l
    BY <2>4
  <2>12. /\ SplitStreamText(x, FALSE) = Plus(v \o w, l, e)
         /\ SplitStreamText(y, FALSE) = Plus(w, l, e)
    BY <1>1, <2>10, <2>11, SplitIs
  <2> HIDE DEF e
  <2>13. Plus(v, 0, Plus(w, l, e)) = Plus(v \o w, 0 + l, e)
    BY <1>1, <2>6, <2>7, <2>8, PlusTwice
  <2>14. SplitStreamText(x, FALSE) = Plus(v, 0, SplitStreamText(y, FALSE))
    BY <2>7, <2>12, <2>13
  <2> QED
    BY <2>14 DEF v, y
<1>5. CASE ~HasClosedBlock(x)
  <2>1. Free(x) = k + Free(y) /\ Free(y) \in 0 .. Len(y)
    BY <1>1, LastRoundShifted, LastRound
  <2>2. Free(y) \in Nat /\ k + Free(y) <= Len(x)
    BY <1>1, <2>1
  <2>3. /\ SubSeq(x, 1, k + Free(y)) = v \o SubSeq(y, 1, Free(y))
        /\ From(y, Free(y) + 1) = From(x, (k + Free(y)) + 1)
    BY <1>1, <2>2, FrontOfFrom, FromFrom
  <2> HIDE DEF v, y
  <2>4. /\ ClosedBlocks[x] = [visible |-> <<>>, rest |-> x, calls |-> 0]
        /\ ClosedBlocks[y] = [visible |-> <<>>, rest |-> y, calls |-> 0]
    BY <1>1, <1>3, <1>5, ClosedBlocksEquation
  <2>8. /\ ClosedBlocks[x].visible = <<>> /\ ClosedBlocks[x].rest = x
        /\ ClosedBlocks[x].calls = 0
        /\ ClosedBlocks[y].visible = <<>> /\ ClosedBlocks[y].rest = y
        /\ ClosedBlocks[y].calls = 0
    BY <2>4
  <2>5. /\ SplitStreamText(x, FALSE) = Plus(<<>>, 0, Cut(x, Free(x)))
        /\ SplitStreamText(y, FALSE) = Plus(<<>>, 0, Cut(y, Free(y)))
    BY <1>1, <2>8, SplitIs
  <2>6. /\ SplitStreamText(x, FALSE) = Cut(x, Free(x))
        /\ SplitStreamText(y, FALSE) = Cut(y, Free(y))
    <3>1. Cut(x, Free(x)) \in Splits /\ Cut(y, Free(y)) \in Splits
      BY <1>1, LastRound, CutType
    <3>2. <<>> \in Text /\ 0 \in Nat
      BY EmptyText
    <3> QED
      BY <2>5, <3>1, <3>2, PlusType
  <2>7. Cut(x, Free(x)) = Plus(v, 0, Cut(y, Free(y)))
    <3>1. /\ Cut(x, Free(x)).visible = SubSeq(x, 1, Free(x))
          /\ Cut(y, Free(y)).visible = SubSeq(y, 1, Free(y))
          /\ Cut(y, Free(y)).rest = From(y, Free(y) + 1) /\ Cut(y, Free(y)).calls = 0
      BY DEF Cut
    <3>2. Plus(v, 0, Cut(y, Free(y)))
            = [visible |-> v \o SubSeq(y, 1, Free(y)), rest |-> From(y, Free(y) + 1),
               calls |-> 0]
      BY <3>1 DEF Plus
    <3>3. Cut(x, Free(x))
            = [visible |-> v \o SubSeq(y, 1, Free(y)), rest |-> From(y, Free(y) + 1),
               calls |-> 0]
      BY <2>1, <2>3 DEF Cut
    <3> QED
      BY <3>2, <3>3
  <2> QED
    BY <2>6, <2>7 DEF v, y
<1> QED
  BY <1>4, <1>5

(* The closed blocks of a text are found before what comes behind them is  *)
(* looked at.                                                              *)
LEMMA ClosedJoined ==
  ASSUME NEW c \in Text
  PROVE  \A t \in Text :
           ClosedBlocks[t \o c] = Plus(ClosedBlocks[t].visible, ClosedBlocks[t].calls,
                                       ClosedBlocks[ClosedBlocks[t].rest \o c])
<1> DEFINE Good == {t \in Text :
             ClosedBlocks[t \o c] = Plus(ClosedBlocks[t].visible, ClosedBlocks[t].calls,
                                         ClosedBlocks[ClosedBlocks[t].rest \o c])}
<1>1. ASSUME NEW t \in Text, \A u \in Text : Len(u) < Len(t) => u \in Good
      PROVE  t \in Good
  <2>0. t \o c \in Text
    BY JoinedPlaces
  <2>1. CASE ~HasClosedBlock(t)
    <3>4. ClosedBlocks[t] = [visible |-> <<>>, rest |-> t, calls |-> 0]
      BY <2>1, ClosedBlocksEquation
    <3>1. /\ ClosedBlocks[t].visible = <<>> /\ ClosedBlocks[t].rest = t
          /\ ClosedBlocks[t].calls = 0
      BY <3>4
    <3>2. ClosedBlocks[t \o c] \in Splits /\ <<>> \in Text /\ 0 \in Nat
      BY <2>0, ClosedBlocksType, EmptyText
    <3>3. Plus(<<>>, 0, ClosedBlocks[t \o c]) = ClosedBlocks[t \o c]
      BY <3>2, PlusType
    <3> QED
      BY <3>1, <3>3
  <2>2. CASE HasClosedBlock(t)
    <3> DEFINE b == FirstBlock(t).behind
               s == FirstBlock(t).visible
               n == FirstBlock(t).calls
               B == ClosedBlocks[b]
               E == ClosedBlocks[B.rest \o c]
               F == ClosedBlocks[b \o c]
    <3>1. s \in Text /\ n \in Nat /\ b \in Text /\ Len(b) < Len(t)
      BY <2>2, RoundFacts
    <3>2. ClosedBlocks[t] = [visible |-> s \o B.visible, rest |-> B.rest,
                             calls |-> n + B.calls]
      BY <2>2, ClosedBlocksEquation
    <3>3. ClosedBlocks[t \o c] = [visible |-> s \o F.visible, rest |-> F.rest,
                                  calls |-> n + F.calls]
      BY <2>0, <2>2, RoundJoined, ClosedBlocksEquation
    <3>4. F = Plus(B.visible, B.calls, E)
      BY <1>1, <3>1
    <3>5. B.visible \in Text /\ B.rest \in Text /\ B.calls \in Nat
      BY <3>1, ClosedBlocksType DEF Splits
    <3>6. E \in Splits
      BY <3>5, JoinedPlaces, ClosedBlocksType
    <3> HIDE DEF b, s, n, E, F
    <3>7. ClosedBlocks[t \o c] = Plus(s, n, F)
      BY <3>3 DEF Plus
    <3> DEFINE v == B.visible
               l == B.calls
    <3>8. v \in Text /\ l \in Nat /\ F = Plus(v, l, E)
      BY <3>4, <3>5
    <3> HIDE DEF v, l
    <3>9. Plus(s, n, Plus(v, l, E)) = Plus(s \o v, n + l, E)
      BY <3>1, <3>6, <3>8, PlusTwice
    <3>10. ClosedBlocks[t \o c] = Plus(s \o v, n + l, E)
      BY <3>7, <3>8, <3>9
    <3>11. /\ ClosedBlocks[t].visible = s \o B.visible /\ ClosedBlocks[t].rest = B.rest
           /\ ClosedBlocks[t].calls = n + B.calls
      BY <3>2
    <3> QED
      BY <3>10, <3>11 DEF E, v, l
  <2> QED
    BY <2>1, <2>2
<1> HIDE DEF Good
<1>2. \A t \in Text : t \in Good
  BY <1>1, TextInduction
<1> QED
  BY <1>2 DEF Good

(* What a round or a split leaves is an end of the text.                   *)
LEMMA RestIsEnd ==
  \A t \in Text : \E k \in 0 .. Len(t) : ClosedBlocks[t].rest = From(t, k + 1)
<1> DEFINE Good == {t \in Text : \E k \in 0 .. Len(t) : ClosedBlocks[t].rest = From(t, k + 1)}
<1>1. ASSUME NEW t \in Text, \A u \in Text : Len(u) < Len(t) => u \in Good
      PROVE  t \in Good
  <2>0. Len(t) \in Nat
    BY TextPlaces
  <2>1. CASE ~HasClosedBlock(t)
    <3>1. ClosedBlocks[t] = [visible |-> <<>>, rest |-> t, calls |-> 0]
      BY <2>1, ClosedBlocksEquation
    <3>2. ClosedBlocks[t].rest = t
      BY <3>1
    <3>3. From(t, 0 + 1) = t /\ 0 \in 0 .. Len(t)
      BY <2>0, SubSeqFull DEF From, Text
    <3> QED
      BY <3>2, <3>3
  <2>2. CASE HasClosedBlock(t)
    <3> DEFINE b == FirstBlock(t).behind
               m == FirstOf(Starts(t))
    <3>1. b \in Text /\ Len(b) < Len(t) /\ b = From(t, CloseOf(t, m).after)
      BY <2>2, RoundFacts DEF FirstBlock
    <3>2. ClosedBlocks[t].rest = ClosedBlocks[b].rest
      <4>1. ClosedBlocks[t] = [visible |-> FirstBlock(t).visible \o ClosedBlocks[b].visible,
                               rest |-> ClosedBlocks[b].rest,
                               calls |-> FirstBlock(t).calls + ClosedBlocks[b].calls]
        BY <2>2, ClosedBlocksEquation
      <4> QED
        BY <4>1
    <3>3. m \in Starts(t) /\ CloseOf(t, m).closed
      BY <2>2, FirstStart DEF HasClosedBlock
    <3>4. PICK k \in m.end + 1 .. Len(t) : CloseOf(t, m).after = k + 1
      BY <3>3, ClosedPlaces
    <3>5. k \in 0 .. Len(t) /\ b = From(t, k + 1)
      <4>1. m.end \in Nat
        BY <3>3, StartPlaces
      <4> QED
        BY <2>0, <3>1, <3>4, <4>1
    <3>6. Len(b) = Len(t) - k
      BY <3>5, FromPlaces
    <3> HIDE DEF b, m
    <3>7. PICK l \in 0 .. Len(b) : ClosedBlocks[b].rest = From(b, l + 1)
      BY <1>1, <3>1
    <3>8. k \in Nat /\ l \in Nat /\ k + l <= Len(t) /\ k + l \in 0 .. Len(t)
      BY <2>0, <3>5, <3>6, <3>7
    <3>9. From(b, l + 1) = From(t, (k + l) + 1)
      BY <3>5, <3>8, FromFrom
    <3> QED
      BY <3>2, <3>7, <3>8, <3>9
  <2> QED
    BY <2>1, <2>2
<1> HIDE DEF Good
<1>2. \A t \in Text : t \in Good
  BY <1>1, TextInduction
<1> QED
  BY <1>2 DEF Good

(* An end of a text ends in the blanks of a marker only if the text does.  *)
LEMMA BlanksOfEnd ==
  ASSUME NEW t \in Text, NEW k \in 0 .. Len(t), EndsInBlanks(From(t, k + 1))
  PROVE  EndsInBlanks(t)
<1> DEFINE u == From(t, k + 1)
<1>1. /\ u \in Text /\ k \in Nat /\ Window(u, t, k) /\ k + Len(u) = Len(t)
      /\ Len(u) \in Nat /\ Len(t) \in Nat /\ DOMAIN u = 1 .. Len(u) /\ DOMAIN t = 1 .. Len(t)
  BY FromWindow, TextPlaces
<1>2. PICK i \in DOMAIN u :
        /\ i + 2 <= Len(u)
        /\ u[i] = Fence /\ u[i + 1] \in {"tool_code", "tool_result"}
        /\ \A l \in (i + 2) .. Len(u) : u[l] = "sp"
  BY DEF EndsInBlanks
<1> HIDE DEF u
<1>3. i \in 1 .. Len(u) /\ i + 1 \in 1 .. Len(u) /\ k + (i + 1) = (k + i) + 1
  BY <1>1, <1>2
<1>4. u[i] = t[k + i] /\ u[i + 1] = t[(k + i) + 1]
  BY <1>1, <1>3 DEF Window
<1>5. k + i \in DOMAIN t /\ (k + i) + 2 <= Len(t)
  BY <1>1, <1>2, <1>3
<1>6. ASSUME NEW l \in ((k + i) + 2) .. Len(t) PROVE t[l] = "sp"
  <2>1. l - k \in (i + 2) .. Len(u) /\ l - k \in 1 .. Len(u) /\ k + (l - k) = l
    BY <1>1, <1>3
  <2> QED
    BY <1>1, <1>2, <2>1 DEF Window
<1> QED
  BY <1>2, <1>4, <1>5, <1>6 DEF EndsInBlanks

(* A number between two others.                                            *)
LEMMA Between ==
  ASSUME NEW a \in Nat, NEW b \in Nat, 1 <= a, a <= b, b <= 2
  PROVE  (a = 1 \/ a = 2) /\ (a = 2 => b = 2)
  OBVIOUS

(* The fields of a joined split and of a cut.                              *)
LEMMA PlusFields ==
  ASSUME NEW v, NEW n, NEW s
  PROVE  /\ Plus(v, n, s).visible = v \o s.visible
         /\ Plus(v, n, s).rest = s.rest
         /\ Plus(v, n, s).calls = n + s.calls
  BY DEF Plus

(* The same for a cut.                                                     *)
LEMMA CutFields ==
  ASSUME NEW t, NEW k
  PROVE  /\ Cut(t, k).visible = SubSeq(t, 1, k)
         /\ Cut(t, k).rest = From(t, k + 1)
         /\ Cut(t, k).calls = 0
  BY DEF Cut

(* Nothing that the last round shows turns into a marker when more text    *)
(* comes, unless the text ends in the blanks of one.                       *)
LEMMA FreeStaysFree ==
  ASSUME NEW r \in Text, NEW c \in Text, ~EndsInBlanks(r)
  PROVE  Clear(r \o c, Free(r))
<1> DEFINE x == r \o c
           k == Free(r)
           m == FirstOf(Starts(r))
<1>1. /\ x \in Text /\ Window(r, x, 0) /\ Len(x) = Len(r) + Len(c)
      /\ Len(r) \in Nat /\ Len(c) \in Nat /\ DOMAIN r = 1 .. Len(r)
      /\ \A i \in 1 .. Len(r) : x[i] = r[i]
  BY JoinedWindow, JoinedPlaces, TextPlaces
<1>2. k \in 0 .. Len(r)
  BY LastRound
<1>3. Starts(r) # {} =>
        /\ m \in Starts(r) /\ m.start \in Nat /\ m.end \in Nat
        /\ m.start < m.end /\ m.end <= Len(r) /\ k = m.start - 1
        /\ \A n \in Starts(r) : m.start <= n.start
  BY FirstStart, StartPlaces DEF Free
<1>4. Starts(r) = {} /\ Partials(r) # {} => \A i \in Partials(r) : k < i
  <2> SUFFICES ASSUME Starts(r) = {}, Partials(r) # {}, NEW i \in Partials(r)
               PROVE  k < i
    OBVIOUS
  <2>1. k = FindPartialMarker(r) - 1
    BY DEF Free
  <2>2. FindPartialMarker(r) \in Partials(r) /\ FindPartialMarker(r) <= i
    BY PartialPlace
  <2>3. FindPartialMarker(r) \in Nat /\ i \in Nat
    BY <2>2, <1>1 DEF Partials
  <2> HIDE DEF k
  <2> QED
    BY <2>1, <2>2, <2>3
<1> HIDE DEF x, k, m
<1>5. ASSUME NEW n \in Starts(x) PROVE k < n.start
  <2> SUFFICES ASSUME ~(k < n.start) PROVE FALSE
    OBVIOUS
  <2>1. /\ n \in Marks /\ n.start \in Nat /\ n.end \in Nat /\ 1 <= n.start
        /\ n.start <= k /\ n.start \in 1 .. Len(r)
    <3>1. n \in Marks /\ n.start \in Nat /\ n.end \in Nat /\ 1 <= n.start
      BY <1>1, StartPlaces
    <3> QED
      BY <3>1, <1>1, <1>2
  <2>2. CASE n.end <= Len(r)
    <3>1. n.start > 0 /\ n.end <= 0 + Len(r) /\ 0 \in Nat
      BY <2>1, <2>2, <1>1
    <3>2. PICK l \in Starts(r) : n = Shifted(l, 0)
      BY <1>1, <3>1, ShiftedStarts
    <3>3. n = l
      BY <3>2, StartPlaces, ShiftedByNothing
    <3>4. m.start <= n.start /\ m.start \in Nat /\ k = m.start - 1
      BY <1>3, <3>3
    <3> QED
      BY <2>1, <3>4
  <2>3. CASE ~(n.end <= Len(r))
    <3>1. n.start <= Len(r) /\ Len(r) < n.end
      BY <1>1, <2>1, <2>3
    <3>2. CutAt(r, n.start)
      BY <3>1, Overhang DEF x
    <3>3. CASE Starts(r) # {}
      <4>1. m \in Starts(r) /\ n.start < m.start
        BY <1>1, <1>2, <1>3, <2>1, <3>3
      <4> QED
        BY <2>1, <3>2, <4>1, NoCutBeforeStart
    <3>4. CASE Starts(r) = {}
      <4> DEFINE i == n.start
                 w == From(r, i)
      <4>1. i \in 1 .. Len(r) /\ CutAt(r, i)
        BY <2>1, <3>2
      <4>2. ASSUME NEW j \in Nat, j = i - 1
            PROVE  /\ w \in Text /\ Len(w) = Len(r) - j
                   /\ \A l \in 1 .. Len(r) - j : w[l] = r[j + l]
        <5>1. j \in 0 .. Len(r) /\ j + 1 = i
          BY <1>1, <2>1, <4>2
        <5> QED
          BY <5>1, FromPlaces
      <4>3. w \in PartialMarkers
        <5>1. PICK j \in Nat : j = i - 1
          BY <2>1
        <5>2. /\ w \in Text /\ Len(w) = Len(r) - j
              /\ \A l \in 1 .. Len(r) - j : w[l] = r[j + l]
          BY <4>2, <5>1
        <5> HIDE DEF w
        <5>3. j + 1 = i /\ j + 2 = i + 1 /\ Len(r) - j >= 1
          BY <1>1, <2>1, <5>1
        <5>4. CASE i = Len(r)
          <6>1. Len(w) = 1 /\ 1 \in 1 .. Len(r) - j
            <7> HIDE DEF i
            <7>1. Len(r) - j = 1
              BY <1>1, <4>1, <5>1, <5>4
            <7> QED
              BY <5>2, <7>1
          <6>2. w[1] = r[i]
            BY <5>2, <5>3, <6>1
          <6>3. r[i] \in {Fence, "[f"}
            BY <4>1 DEF CutAt
          <6> QED
            BY <5>2, <6>1, <6>2, <6>3, PartialShape
        <5>5. CASE i # Len(r)
          <6>1. /\ r[i] = Fence /\ r[i + 1] \in Words
                /\ \A l \in (i + 2) .. Len(r) : r[l] = "sp"
            BY <4>1, <5>5 DEF CutAt
          <6> HIDE DEF i
          <6>2. ~(i + 2 <= Len(r))
            BY <1>1, <4>1, <6>1 DEF EndsInBlanks, Words
          <6>3. Len(w) = 2 /\ 1 \in 1 .. Len(r) - j /\ 2 \in 1 .. Len(r) - j
            <7>1. Len(r) \in Nat /\ i \in 1 .. Len(r)
              BY <1>1, <4>1
            <7>2. Len(r) - j = 2
              BY ONLY <7>1, <5>1, <5>5, <6>2, j \in Nat
            <7> QED
              BY <5>2, <7>2
          <6>4. w[1] = r[i] /\ w[2] = r[i + 1]
            BY <5>2, <5>3, <6>3
          <6> QED
            BY <5>2, <6>1, <6>3, <6>4, PartialShape
        <5> QED
          BY <5>4, <5>5
      <4>4. i \in Partials(r)
        BY <4>1, <4>3 DEF Partials
      <4>5. k < i
        BY <1>4, <3>4, <4>4
      <4> QED
        BY <1>2, <2>1, <4>5
    <3> QED
      BY <3>3, <3>4
  <2> QED
    BY <2>2, <2>3
<1>6. ASSUME NEW i \in Partials(x) PROVE k < i
  <2> SUFFICES ASSUME ~(k < i) PROVE FALSE
    OBVIOUS
  <2>1. i \in 1 .. Len(x) /\ From(x, i) \in PartialMarkers
    BY DEF Partials
  <2>2. i \in 1 .. Len(r) /\ i <= k
    BY <1>1, <1>2, <2>1
  <2>3. PICK j \in Nat : j = i - 1
    BY <2>2
  <2>4. /\ j \in 0 .. Len(r) /\ j + 1 = i /\ j + 2 = i + 1 /\ Len(r) - j >= 1
        /\ j \in 0 .. Len(x)
    BY <1>1, <2>2, <2>3
  <2> DEFINE w == From(r, i)
             z == From(x, i)
  <2>5. w \in Text /\ Len(w) = Len(r) - j /\ \A l \in 1 .. Len(r) - j : w[l] = r[j + l]
    BY <2>4, FromPlaces
  <2>6. z \in Text /\ Len(z) = Len(x) - j /\ \A l \in 1 .. Len(x) - j : z[l] = x[j + l]
    BY <1>1, <2>4, FromPlaces
  <2>7. z \in PartialMarkers
    BY <2>1
  <2> HIDE DEF w, z
  <2>8. \A l \in 1 .. Len(w) : z[l] = w[l]
    <3> SUFFICES ASSUME NEW l \in 1 .. Len(w) PROVE z[l] = w[l]
      OBVIOUS
    <3>1. l \in 1 .. Len(r) - j /\ l \in 1 .. Len(x) - j /\ j + l \in 1 .. Len(r)
      BY <1>1, <2>4, <2>5
    <3> QED
      BY <1>1, <2>5, <2>6, <3>1
  <2>9. Len(w) \in Nat /\ 1 <= Len(w) /\ Len(w) <= Len(z) /\ Len(z) \in Nat
    BY <1>1, <2>4, <2>5, <2>6
  <2>10. Len(z) <= 2
    BY <2>6, <2>7, PartialShape
  <2>11. CASE Starts(r) # {}
    <3>1. m.start \in Nat /\ m.end \in Nat /\ m.start < m.end /\ m.end <= Len(r) /\ i < m.start
      BY <1>2, <1>3, <2>2, <2>11
    <3>2. Len(w) >= 3
      <4> DEFINE a == m.start
                 b == m.end
      <4>1. a \in Nat /\ b \in Nat /\ a < b /\ b <= Len(r) /\ i < a /\ i \in Nat
        BY <2>2, <3>1
      <4> HIDE DEF a, b
      <4>2. Len(r) - j >= 3
        BY <1>1, <2>3, <4>1
      <4> QED
        BY <2>5, <4>2
    <3> QED
      BY <2>9, <2>10, <3>2
  <2>12. CASE Starts(r) = {}
    <3>1. w \in PartialMarkers
      <4>1. Len(w) = 1 \/ Len(w) = 2
        BY <2>9, <2>10, Between
      <4>2. CASE Len(w) = 1
        <5>1. w[1] = z[1]
          BY <2>8, <4>2
        <5>2. z[1] \in {Fence, "[f", "[/f"}
          BY <2>6, <2>7, PartialShape
        <5> QED
          BY <2>5, <4>2, <5>1, <5>2, PartialShape
      <4>3. CASE Len(w) = 2
        <5>1. Len(z) = 2
          BY <2>9, <2>10, <4>3, Between
        <5>2. \A l \in 1 .. Len(w) : w[l] = z[l]
          BY <2>8
        <5>3. w = z
          BY <2>5, <2>6, <4>3, <5>1, <5>2, TextEqual
        <5> QED
          BY <2>7, <5>3
      <4> QED
        BY <4>1, <4>2, <4>3
    <3>2. i \in Partials(r)
      BY <2>2, <3>1 DEF Partials, w
    <3>3. k < i
      BY <1>4, <2>12, <3>2
    <3> QED
      BY <3>3
  <2> QED
    BY <2>11, <2>12
<1> QED
  BY <1>5, <1>6 DEF Clear, x, k

(* Splitting a text and splitting what is left of it with what comes next  *)
(* is splitting both together: why the parser may forget what it has shown *)
(* and found.                                                              *)
LEMMA SplitJoined ==
  ASSUME NEW t \in Text, NEW c \in Text, ~EndsInBlanks(t)
  PROVE  SplitStreamText(t \o c, FALSE)
           = Plus(SplitStreamText(t, FALSE).visible, SplitStreamText(t, FALSE).calls,
                  SplitStreamText(SplitStreamText(t, FALSE).rest \o c, FALSE))
<1> DEFINE C == ClosedBlocks[t]
           r == C.rest
           v == C.visible
           n == C.calls
           k == Free(r)
           D == ClosedBlocks[r \o c]
           e == Cut(D.rest, Free(D.rest))
           front == SubSeq(r, 1, k)
           held == From(r, k + 1)
           S == SplitStreamText(held \o c, FALSE)
<1>1. v \in Text /\ r \in Text /\ n \in Nat
  BY ClosedBlocksType DEF Splits
<1>2. t \o c \in Text /\ r \o c \in Text
  BY <1>1, JoinedPlaces
<1>3. D.visible \in Text /\ D.rest \in Text /\ D.calls \in Nat
  BY <1>2, ClosedBlocksType DEF Splits
<1>4. e \in Splits
  BY <1>3, LastRound, CutType
<1>5. SplitStreamText(t \o c, FALSE) = Plus(v, n, SplitStreamText(r \o c, FALSE))
  <2> DEFINE w == D.visible
             l == D.calls
  <2>1. ClosedBlocks[t \o c] = Plus(v, n, D)
    BY ClosedJoined
  <2>2. /\ ClosedBlocks[t \o c].visible = v \o w /\ ClosedBlocks[t \o c].rest = D.rest
        /\ ClosedBlocks[t \o c].calls = n + l
    <3>1. /\ Plus(v, n, D).visible = v \o w /\ Plus(v, n, D).rest = D.rest
          /\ Plus(v, n, D).calls = n + l
      <4> HIDE DEF v, n, D
      <4> QED
        BY DEF Plus
    <3> QED
      BY <2>1, <3>1
  <2>3. SplitStreamText(t \o c, FALSE) = Plus(v \o w, n + l, e)
    BY <1>2, <2>2, SplitIs
  <2>4. SplitStreamText(r \o c, FALSE) = Plus(w, l, e)
    BY <1>2, SplitIs
  <2>5. w \in Text /\ l \in Nat
    BY <1>3
  <2> HIDE DEF v, n, w, l, e, D, r
  <2>6. Plus(v, n, Plus(w, l, e)) = Plus(v \o w, n + l, e)
    BY <1>1, <1>4, <2>5, PlusTwice
  <2> QED
    BY <2>3, <2>4, <2>6
<1>6. ~EndsInBlanks(r)
  BY RestIsEnd, BlanksOfEnd
<1>7. SplitStreamText(t, FALSE) = Plus(v, n, Cut(r, k))
  BY SplitIs
<1> HIDE DEF C, D, e
<1>8. k \in 0 .. Len(r) /\ Clear(r \o c, k)
  BY <1>1, <1>6, LastRound, FreeStaysFree
<1>9. k \in 0 .. Len(r \o c)
  <2>1. Len(r \o c) = Len(r) + Len(c) /\ Len(r) \in Nat /\ Len(c) \in Nat
    BY <1>1, JoinedPlaces, TextPlaces
  <2> HIDE DEF k, r
  <2> QED
    BY <1>8, <2>1
<1> HIDE DEF r, k
<1>10. SubSeq(r \o c, 1, k) = front /\ From(r \o c, k + 1) = held \o c
  BY <1>1, <1>8, CutJoined
<1>11. SplitStreamText(r \o c, FALSE) = Plus(front, 0, S)
  BY <1>2, <1>8, <1>9, <1>10, SplitShifted
<1>12. front \in Text /\ held \in Text
  BY <1>1, <1>8, FrontPlaces, FromPlaces
<1>13. S \in Splits
  BY <1>12, JoinedPlaces, SplitType
<1>14. /\ SplitStreamText(t, FALSE).visible = v \o front
       /\ SplitStreamText(t, FALSE).rest = held
       /\ SplitStreamText(t, FALSE).calls = n + 0
  <2> DEFINE u == Cut(r, k)
  <2>1. u.visible = front /\ u.rest = held /\ u.calls = 0
    BY CutFields
  <2> HIDE DEF u, front, held
  <2>2. SplitStreamText(t, FALSE) = Plus(v, n, u)
    BY <1>7 DEF u
  <2>3. /\ Plus(v, n, u).visible = v \o u.visible /\ Plus(v, n, u).rest = u.rest
        /\ Plus(v, n, u).calls = n + u.calls
    <3> HIDE DEF v, n
    <3> QED
      BY DEF Plus
  <2> HIDE DEF v, n
  <2> QED
    BY <2>1, <2>2, <2>3
<1> HIDE DEF v, n, front, held, S
<1>15. Plus(v, n, Plus(front, 0, S)) = Plus(v \o front, n + 0, S)
  <2>1. 0 \in Nat
    OBVIOUS
  <2> QED
    BY <1>1, <1>12, <1>13, <2>1, PlusTwice
<1> QED
  BY <1>5, <1>11, <1>14, <1>15 DEF S

(* What Flush finds in what was held back: some number of calls, and no    *)
(* more than there are tokens.                                             *)
Found(t) == IF SplitStreamText(t, TRUE).calls > 0 THEN SplitStreamText(t, TRUE).calls
            ELSE SalvageIncompleteBlock(SplitStreamText(t, TRUE).rest)

(* The rest of a text from a place on, seen as a body.                     *)
LEMMA SalvageBound ==
  ASSUME NEW t \in Text
  PROVE  SalvageIncompleteBlock(t) \in Nat /\ SalvageIncompleteBlock(t) <= Len(t)
<1> DEFINE begins == {i \in DOMAIN t : Stands(FunctionCallsMarker, t, i)}
           b == Min(begins)
           body == FindFunctionCallsEnd(t, b).body
           items == IF begins = {} THEN 0 ELSE HowMany(body, "call")
<1>1. Len(t) \in Nat /\ DOMAIN t = 1 .. Len(t)
  BY TextPlaces
<1>2. ASSUME begins # {} PROVE items \in Nat /\ items <= Len(t)
  <2>1. begins \subseteq Nat
    BY <1>1
  <2>2. \E m \in begins : \A n \in begins : m <= n
    <3> HIDE DEF begins
    <3> QED
      BY <1>2, <2>1, LeastNumber
  <2>3. b \in begins
    <3> HIDE DEF begins
    <3> QED
      BY <2>2 DEF Min
  <2>4. b \in 1 .. Len(t)
    BY <1>1, <2>3
  <2> HIDE DEF b, begins
  <2>5. body \in Text /\ Len(body) <= Len(t)
    <3> DEFINE ends == {p \in b .. Len(t) : Stands(FunctionCallsEndMarker, t, p)}
               q == Min(ends)
    <3>1. CASE ends = {}
      <4>1. body = From(t, b)
        BY <3>1 DEF FindFunctionCallsEnd
      <4>2. PICK k \in 0 .. Len(t) : b = k + 1
        BY <1>1, <2>4
      <4> HIDE DEF body
      <4>3. body \in Text /\ Len(body) = Len(t) - k
        BY <4>1, <4>2, FromPlaces
      <4> QED
        BY <1>1, <4>2, <4>3
    <3>2. CASE ends # {}
      <4>1. body = SubSeq(t, b, q - 1)
        BY <3>2 DEF FindFunctionCallsEnd
      <4>2. ends \subseteq Nat
        BY <1>1, <2>4
      <4>3. q \in ends
        <5> HIDE DEF ends
        <5>1. \E m \in ends : \A n \in ends : m <= n
          BY <3>2, <4>2, LeastNumber
        <5> QED
          BY <5>1 DEF Min
      <4>4. q \in b .. Len(t)
        BY <4>3
      <4> HIDE DEF q, ends, body
      <4>5. b \in 1 .. Len(t) + 1 /\ q - 1 \in Int /\ b - 1 <= q - 1 /\ q - 1 <= Len(t)
        BY <1>1, <2>4, <4>4
      <4>6. SubSeq(t, b, q - 1) \in Text /\ Len(SubSeq(t, b, q - 1)) = (q - 1) - b + 1
        BY <4>5, Piece
      <4>7. (q - 1) - b + 1 <= Len(t)
        BY <1>1, <2>4, <4>4
      <4> QED
        BY <4>1, <4>6, <4>7
    <3> QED
      BY <3>1, <3>2
  <2>6. HowMany(body, "call") \in Nat /\ HowMany(body, "call") <= Len(body)
    BY <2>5, CountBound
  <2>7. Len(body) \in Nat
    BY <2>5, TextPlaces
  <2> HIDE DEF body
  <2>8. items = HowMany(body, "call")
    BY <1>2
  <2> HIDE DEF items
  <2> QED
    BY <1>1, <2>5, <2>6, <2>7, <2>8
<1>3. items \in Nat /\ items <= Len(t)
  <2>1. CASE begins = {}
    <3>1. items = 0
      BY <2>1
    <3> HIDE DEF items
    <3> QED
      BY <1>1, <3>1
  <2> QED
    BY <1>2, <2>1
<1>4. PayloadFirst(t) => 1 <= Len(t)
  <2>1. PayloadFirst(t) => \E i \in DOMAIN t : TRUE
    BY DEF PayloadFirst
  <2> QED
    BY <1>1, <2>1, TextPlaces
<1>5. SalvageIncompleteBlock(t) = CASE items > 0 -> items
                                    [] items = 0 /\ PayloadFirst(t) -> 1
                                    [] OTHER -> 0
  BY DEF SalvageIncompleteBlock
<1> HIDE DEF items
<1> QED
  BY <1>1, <1>3, <1>4, <1>5

(* Flush finds some number of calls, never more than there are tokens.     *)
LEMMA FoundBound ==
  ASSUME NEW t \in Text
  PROVE  Found(t) \in Nat /\ Found(t) <= Len(t)
<1> DEFINE C == ClosedBlocks[t]
           r == C.rest
           m == FirstOf(Starts(r))
           body == CloseOf(r, m).body
           calls == CallsOf(m.kind, body)
           U == Unfinished(r, TRUE)
<1>1. r \in Text /\ C.calls \in Nat /\ C.calls + Len(r) <= Len(t)
  BY ClosedBlocksType DEF Splits
<1>2. Len(t) \in Nat /\ Len(r) \in Nat
  BY <1>1, TextPlaces
<1>3. /\ SplitStreamText(t, TRUE).calls = C.calls + U.calls
      /\ SplitStreamText(t, TRUE).rest = U.rest
  BY DEF SplitStreamText, Joined
<1>4. ~HasClosedBlock(r)
  BY ClosedBlocksType
<1>5. Starts(r) # {} =>
        /\ m \in Starts(r) /\ m.start \in Nat /\ m.end \in Nat /\ m.start <= m.end
        /\ 1 <= m.start /\ m.end <= Len(r)
        /\ calls \in Nat /\ calls <= Len(r)
  <2> SUFFICES ASSUME Starts(r) # {}
               PROVE  /\ m \in Starts(r) /\ m.start \in Nat /\ m.end \in Nat
                      /\ m.start <= m.end /\ 1 <= m.start /\ m.end <= Len(r)
                      /\ calls \in Nat /\ calls <= Len(r)
    OBVIOUS
  <2> HIDE DEF r
  <2>1. m \in Starts(r)
    BY <1>1, FirstStart
  <2> HIDE DEF m
  <2>2. /\ m \in Marks /\ m.start \in Nat /\ m.end \in Nat
        /\ 1 <= m.start /\ m.start < m.end /\ 1 <= m.end /\ m.end <= Len(r)
    BY <1>1, <2>1, StartPlaces
  <2>3. ~CloseOf(r, m).closed
    BY <1>4, <2>1 DEF HasClosedBlock, m
  <2>4. body = From(r, m.end + 1)
    BY <1>1, <2>2, <2>3, CloseFacts
  <2>5. m.end \in 0 .. Len(r)
    BY <1>2, <2>2
  <2>6. body \in Text /\ Len(body) = Len(r) - m.end
    BY <1>1, <2>4, <2>5, FromPlaces
  <2> HIDE DEF body
  <2>7. calls \in Nat /\ calls <= Len(body)
    BY <2>6, CallsBound
  <2> HIDE DEF calls
  <2>8. calls <= Len(r) /\ m.start <= m.end
    BY <1>2, <2>2, <2>6, <2>7
  <2> QED
    BY <2>1, <2>2, <2>7, <2>8
<1>6. /\ U.calls \in Nat /\ U.calls <= Len(r)
      /\ U.rest \in Text /\ Len(U.rest) <= Len(r)
  <2> HIDE DEF r, m, calls, U
  <2>1. CASE Starts(r) = {}
    <3>1. U = [visible |-> r, rest |-> <<>>, calls |-> 0]
      BY <2>1 DEF U, Unfinished
    <3>2. U.rest = <<>> /\ U.calls = 0
      BY <3>1
    <3> QED
      BY <1>2, <3>2, EmptyText
  <2>2. CASE Starts(r) # {} /\ calls > 0
    <3>1. U = [visible |-> SubSeq(r, 1, m.start - 1), rest |-> <<>>, calls |-> calls]
      BY <2>2 DEF U, Unfinished, m, calls
    <3>2. U.rest = <<>> /\ U.calls = calls
      BY <3>1
    <3> QED
      BY <1>2, <1>5, <2>2, <3>2, EmptyText
  <2>3. CASE Starts(r) # {} /\ ~(calls > 0)
    <3>0. calls = 0
      BY <1>5, <2>3
    <3>1. CASE m.kind # "tool_result"
      <4>1. U = [visible |-> r, rest |-> <<>>, calls |-> 0]
        BY <2>3, <3>0, <3>1 DEF U, Unfinished, m, calls
      <4>2. U.rest = <<>> /\ U.calls = 0
        BY <4>1
      <4> QED
        BY <1>2, <4>2, EmptyText
    <3>2. CASE m.kind = "tool_result"
      <4>1. U = [visible |-> SubSeq(r, 1, m.start - 1), rest |-> From(r, m.start), calls |-> 0]
        BY <2>3, <3>0, <3>2 DEF U, Unfinished, m, calls
      <4>2. U.rest = From(r, m.start) /\ U.calls = 0
        BY <4>1
      <4>3. PICK k \in 0 .. Len(r) : m.start = k + 1
        <5> DEFINE a == m.start
                   e == m.end
        <5>1. a \in Nat /\ e \in Nat /\ a <= e /\ 1 <= a /\ e <= Len(r)
          BY <1>5, <2>3
        <5> HIDE DEF a, e
        <5>2. \E k \in 0 .. Len(r) : a = k + 1
          <6>1. a - 1 \in 0 .. Len(r) /\ a = (a - 1) + 1
            BY <1>2, <5>1
          <6> QED
            BY <6>1
        <5> QED
          BY <5>2 DEF a
      <4>4. U.rest \in Text /\ Len(U.rest) = Len(r) - k
        BY <1>1, <4>2, <4>3, FromPlaces
      <4> QED
        BY <1>2, <4>2, <4>3, <4>4
    <3> QED
      BY <3>1, <3>2
  <2> QED
    BY <2>1, <2>2, <2>3
<1>7. SalvageIncompleteBlock(U.rest) \in Nat /\ SalvageIncompleteBlock(U.rest) <= Len(U.rest)
  BY <1>6, SalvageBound
<1>8. Len(U.rest) \in Nat
  BY <1>6, TextPlaces
<1> DEFINE a == SplitStreamText(t, TRUE).calls
           s == SalvageIncompleteBlock(U.rest)
           n == C.calls
           u == U.calls
<1>9. Found(t) = IF a > 0 THEN a ELSE s
  BY <1>3 DEF Found
<1>10. /\ a = n + u /\ n \in Nat /\ u \in Nat /\ u <= Len(r) /\ n + Len(r) <= Len(t)
       /\ s \in Nat /\ s <= Len(U.rest) /\ Len(U.rest) <= Len(r)
  BY <1>1, <1>3, <1>6, <1>7
<1> HIDE DEF a, s, n, u, r, U
<1> QED
  BY <1>2, <1>8, <1>9, <1>10

-----------------------------------------------------------------------------
(***************************************************************************)
(* The stream of pieces.                                                   *)
(***************************************************************************)
(* What the steps need to know of the types: the parser never holds back   *)
(* and has never counted more than has arrived.                            *)
Typed == /\ PendingText \in Text /\ fed \in Text /\ shown \in Text
         /\ ToolCalls \in Nat /\ Len(PendingText) + ToolCalls <= Len(fed)
         /\ toolCallCompleted = (ToolCalls > 0)
         /\ arrived \in 0 .. MaxChunks
         /\ cutInBlanks \in BOOLEAN /\ flushed \in BOOLEAN

(* A piece either goes unread, after a call or because it is empty, or is  *)
(* split together with what was held back.                                 *)
Unread(chunk) == /\ chunk = <<>> \/ toolCallCompleted
                 /\ PendingText' = PendingText /\ ToolCalls' = ToolCalls
                 /\ toolCallCompleted' = toolCallCompleted /\ shown' = shown

Read(chunk) ==
  LET split == SplitStreamText(PendingText \o chunk, FALSE)
  IN  /\ ~toolCallCompleted
      /\ PendingText' = split.rest
      /\ ToolCalls' = ToolCalls + split.calls
      /\ toolCallCompleted' = (split.calls > 0)
      /\ shown' = shown \o split.visible

(* What Consume does.                                                      *)
LEMMA ConsumeEffect ==
  ASSUME Typed, NEW chunk \in Chunks, Consume(chunk)
  PROVE  /\ chunk \in Text /\ fed' = fed \o chunk
         /\ ~flushed /\ flushed' = flushed
         /\ cutInBlanks' = (cutInBlanks \/ EndsInBlanks(fed \o chunk))
         /\ arrived < MaxChunks /\ arrived' = arrived + 1
         /\ Unread(chunk) \/ Read(chunk)
<1>1. chunk \in Text
  BY ChunkAssumption
<1>2. /\ fed' = fed \o chunk /\ ~flushed /\ flushed' = flushed
      /\ cutInBlanks' = (cutInBlanks \/ EndsInBlanks(fed \o chunk))
      /\ arrived < MaxChunks /\ arrived' = arrived + 1
      /\ shown' = shown \o Visible(chunk) /\ ConsumeText(chunk)
  BY DEF Consume
<1>3. CASE chunk = <<>> \/ toolCallCompleted
  <2>1. Visible(chunk) = <<>> /\ UNCHANGED parserVars
    BY <1>2, <1>3 DEF Visible, ConsumeText
  <2>2. shown \o <<>> = shown
    BY EmptyText DEF Typed
  <2>3. shown' = shown
    BY <1>2, <2>1, <2>2
  <2> QED
    BY <1>1, <1>2, <1>3, <2>1, <2>3 DEF Unread, parserVars
<1>4. CASE ~(chunk = <<>> \/ toolCallCompleted)
  <2>1. Visible(chunk) = SplitStreamText(PendingText \o chunk, FALSE).visible
    BY <1>4 DEF Visible
  <2>2. Read(chunk)
    BY <1>2, <1>4, <2>1 DEF ConsumeText, Read
  <2> QED
    BY <1>1, <1>2, <2>2
<1> QED
  BY <1>3, <1>4

(* What Flush does.                                                        *)
LEMMA FlushEffect ==
  ASSUME Flush
  PROVE  /\ ~flushed /\ flushed' = TRUE
         /\ UNCHANGED <<fed, arrived, shown, cutInBlanks>>
         /\ \/ toolCallCompleted /\ UNCHANGED <<PendingText, ToolCalls, toolCallCompleted>>
            \/ /\ ~toolCallCompleted
               /\ PendingText' = <<>> /\ ToolCalls' = ToolCalls + Found(PendingText)
               /\ toolCallCompleted' = (Found(PendingText) > 0)
  BY DEF Flush, FlushText, Found, parserVars

(* Typed holds at first and is kept by every step.                         *)
LEMMA InitTyped == Init => Typed
<1> SUFFICES ASSUME Init PROVE Typed
  OBVIOUS
<1>1. <<>> \in Text /\ Len(<<>>) = 0
  BY EmptyText
<1>2. MaxChunks \in Nat
  BY ChunkAssumption
<1>3. /\ PendingText = <<>> /\ fed = <<>> /\ shown = <<>> /\ ToolCalls = 0
      /\ toolCallCompleted = FALSE /\ arrived = 0 /\ cutInBlanks = FALSE /\ flushed = FALSE
  BY DEF Init, ParserInit
<1> QED
  <2>1. arrived \in 0 .. MaxChunks /\ ToolCalls \in Nat /\ ~(ToolCalls > 0)
    BY <1>2, <1>3
  <2>2. Len(PendingText) + ToolCalls <= Len(fed)
    BY <1>1, <1>3
  <2>3. toolCallCompleted = (ToolCalls > 0)
    <3>1. (0 > 0) = FALSE
      OBVIOUS
    <3> QED
      BY <1>3, <3>1
  <2> QED
    BY <1>1, <1>3, <2>1, <2>2, <2>3 DEF Typed

(* No step leaves Typed.                                                   *)
LEMMA NextTyped == Typed /\ [Next]_vars => Typed'
<1> SUFFICES ASSUME Typed, [Next]_vars PROVE Typed'
  OBVIOUS
<1>0. /\ PendingText \in Text /\ fed \in Text /\ shown \in Text
      /\ ToolCalls \in Nat /\ Len(PendingText) + ToolCalls <= Len(fed)
      /\ toolCallCompleted = (ToolCalls > 0)
      /\ arrived \in 0 .. MaxChunks
      /\ cutInBlanks \in BOOLEAN /\ flushed \in BOOLEAN
  BY DEF Typed
<1>1. MaxChunks \in Nat /\ Len(PendingText) \in Nat /\ Len(fed) \in Nat
  BY <1>0, ChunkAssumption, TextPlaces
<1>2. CASE \E chunk \in Chunks : Consume(chunk)
  <2>1. PICK chunk \in Chunks : Consume(chunk)
    BY <1>2
  <2>2. /\ chunk \in Text /\ fed' = fed \o chunk
        /\ ~flushed /\ flushed' = flushed
        /\ cutInBlanks' = (cutInBlanks \/ EndsInBlanks(fed \o chunk))
        /\ arrived < MaxChunks /\ arrived' = arrived + 1
        /\ Unread(chunk) \/ Read(chunk)
    BY <2>1, ConsumeEffect
  <2>3. /\ fed' \in Text /\ Len(fed') = Len(fed) + Len(chunk) /\ Len(chunk) \in Nat
    BY <1>0, <2>2, JoinedPlaces, TextPlaces
  <2>4. arrived' \in 0 .. MaxChunks
    BY <1>0, <1>1, <2>2
  <2>5. cutInBlanks' \in BOOLEAN /\ flushed' \in BOOLEAN
    BY <1>0, <2>2
  <2>6. CASE Unread(chunk)
    <3>1. PendingText' = PendingText /\ ToolCalls' = ToolCalls
          /\ toolCallCompleted' = toolCallCompleted /\ shown' = shown
      BY <2>6 DEF Unread
    <3>2. Len(PendingText) + ToolCalls <= Len(fed')
      BY <1>0, <1>1, <2>3
    <3> QED
      BY <1>0, <2>3, <2>4, <2>5, <3>1, <3>2 DEF Typed
  <2>7. CASE Read(chunk)
    <3> DEFINE t == PendingText \o chunk
               S == SplitStreamText(t, FALSE)
               n == S.calls
    <3>1. t \in Text /\ Len(t) = Len(PendingText) + Len(chunk)
      BY <1>0, <2>2, JoinedPlaces
    <3>2. /\ PendingText' = S.rest /\ ToolCalls' = ToolCalls + n
          /\ toolCallCompleted' = (n > 0) /\ shown' = shown \o S.visible
          /\ ~toolCallCompleted
      BY <2>7 DEF Read
    <3> HIDE DEF t
    <3>3. S \in Splits /\ n + Len(S.rest) <= Len(t)
      BY <3>1, SplitType
    <3>4. S.visible \in Text /\ S.rest \in Text /\ n \in Nat
      BY <3>3 DEF Splits
    <3> HIDE DEF S, n
    <3>5. PendingText' \in Text /\ shown' \in Text /\ Len(PendingText') \in Nat
      BY <1>0, <3>2, <3>4, JoinedPlaces, TextPlaces
    <3>6. ToolCalls = 0
      <4>1. ~(ToolCalls > 0)
        BY <1>0, <3>2, Zenon
      <4> QED
        BY <1>0, <4>1
    <3>7. ToolCalls' = n
      BY <3>2, <3>4, <3>6
    <3>8. Len(PendingText') + ToolCalls' <= Len(fed')
      <4>1. n + Len(PendingText') <= Len(PendingText) + Len(chunk)
        BY <3>1, <3>2, <3>3
      <4>2. Len(PendingText) <= Len(fed)
        BY <1>0, <1>1, <3>6
      <4> QED
        BY <1>1, <2>3, <3>4, <3>5, <3>7, <4>1, <4>2
    <3> QED
      BY <2>3, <2>4, <2>5, <3>2, <3>4, <3>5, <3>7, <3>8 DEF Typed
  <2> QED
    BY <2>2, <2>6, <2>7
<1>3. CASE Flush
  <2> DEFINE n == Found(PendingText)
  <2>1. /\ flushed' = TRUE /\ UNCHANGED <<fed, arrived, shown, cutInBlanks>>
        /\ \/ toolCallCompleted /\ UNCHANGED <<PendingText, ToolCalls, toolCallCompleted>>
           \/ /\ ~toolCallCompleted
              /\ PendingText' = <<>> /\ ToolCalls' = ToolCalls + n
              /\ toolCallCompleted' = (n > 0)
    BY <1>3, FlushEffect
  <2>2. n \in Nat /\ n <= Len(PendingText)
    BY <1>0, FoundBound
  <2> HIDE DEF n
  <2>3. CASE toolCallCompleted
    BY <1>0, <2>1, <2>3 DEF Typed
  <2>4. CASE ~toolCallCompleted
    <3>1. ToolCalls = 0
      <4>1. ~(ToolCalls > 0)
        BY <1>0, <2>4, Zenon
      <4> QED
        BY <1>0, <4>1
    <3>2. PendingText' = <<>> /\ ToolCalls' = n /\ toolCallCompleted' = (n > 0)
      BY <2>1, <2>2, <2>4, <3>1
    <3>3. <<>> \in Text /\ Len(<<>>) = 0
      BY EmptyText
    <3>4. n <= Len(fed)
      BY <1>0, <1>1, <2>2, <3>1
    <3>5. Len(PendingText') + ToolCalls' <= Len(fed')
      BY <1>1, <2>1, <2>2, <3>2, <3>3, <3>4
    <3> QED
      BY <1>0, <2>1, <2>2, <3>2, <3>3, <3>5 DEF Typed
  <2> QED
    BY <2>3, <2>4
<1>4. CASE UNCHANGED vars
  BY <1>0, <1>4 DEF Typed, vars, parserVars
<1> QED
  BY <1>2, <1>3, <1>4 DEF Next

(* The parser's fields and the history keep their types: the calls found   *)
(* never outnumber the tokens that arrived, and _toolCallCompleted says    *)
(* whether there are any (parser.go:639-674).                              *)
THEOREM TypeCorrect == Spec => []TypeOK
<1>1. Typed => TypeOK
  <2> SUFFICES ASSUME Typed PROVE TypeOK
    OBVIOUS
  <2>1. Len(PendingText) \in Nat /\ Len(fed) \in Nat
    BY TextPlaces DEF Typed
  <2>2. ToolCalls \in 0 .. Len(fed)
    BY <2>1 DEF Typed
  <2> QED
    BY <2>2 DEF Typed, TypeOK
<1> QED
  BY <1>1, InitTyped, NextTyped, PTL DEF Spec

(* The parser stands where one split of everything that                    *)
(* arrived would have put it; no piece has been cut in the blanks yet.     *)
Seamless ==
  ~flushed /\ ~cutInBlanks =>
    /\ ~EndsInBlanks(fed)
    /\ toolCallCompleted <=> SplitStreamText(fed, FALSE).calls > 0
    /\ ~toolCallCompleted => /\ shown = SplitStreamText(fed, FALSE).visible
                             /\ PendingText = SplitStreamText(fed, FALSE).rest
    /\ toolCallCompleted => IsPrefix(shown, SplitStreamText(fed, FALSE).visible)

(* What stands before a joint is a prefix, and so is a prefix of that.     *)
LEMMA PrefixJoined ==
  ASSUME NEW s \in Text, NEW t \in Text, NEW u \in Text, IsPrefix(s, t)
  PROVE  IsPrefix(s, t \o u) /\ IsPrefix(s, s)
<1>1. Len(s) \in Nat /\ Len(t) \in Nat /\ Len(u) \in Nat
  BY TextPlaces
<1>2. Len(s) <= Len(t) /\ SubSeq(s, 1, Len(s)) = SubSeq(t, 1, Len(s))
  BY DEF IsPrefix
<1>3. Len(t \o u) = Len(t) + Len(u)
  BY JoinedPlaces
<1>4. Len(s) \in 0 .. Len(t)
  BY <1>1, <1>2
<1>5. SubSeq(t \o u, 1, Len(s)) = SubSeq(t, 1, Len(s))
  BY <1>4, CutJoined
<1>6. Len(s) <= Len(t \o u) /\ Len(s) <= Len(s)
  BY <1>1, <1>2, <1>3
<1> QED
  BY <1>2, <1>5, <1>6 DEF IsPrefix

(* The empty text shows nothing, holds nothing back and has no call.       *)
LEMMA SplitOfNothing ==
  /\ SplitStreamText(<<>>, FALSE).visible = <<>>
  /\ SplitStreamText(<<>>, FALSE).rest = <<>>
  /\ SplitStreamText(<<>>, FALSE).calls = 0
<1> DEFINE e == <<>>
<1>1. e \in Text /\ Len(e) = 0 /\ \A u \in Text : Len(u) = 0 => u = <<>>
  BY EmptyText
<1>2. Starts(e) = {}
  <2> SUFFICES ASSUME NEW m \in Starts(e) PROVE FALSE
    OBVIOUS
  <2> HIDE DEF e
  <2>1. m.end \in Nat /\ 1 <= m.end /\ m.end <= 0
    BY <1>1, StartPlaces
  <2> QED
    BY <2>1
<1> HIDE DEF e
<1>3. ClosedBlocks[e] = [visible |-> <<>>, rest |-> e, calls |-> 0]
  BY <1>1, <1>2, ClosedBlocksEquation DEF HasClosedBlock
<1>4. ClosedBlocks[e].visible = <<>> /\ ClosedBlocks[e].rest = e /\ ClosedBlocks[e].calls = 0
  BY <1>3
<1>5. SplitStreamText(e, FALSE) = Plus(<<>>, 0, Cut(e, Free(e)))
  BY <1>1, <1>4, SplitIs
<1>6. Free(e) \in 0 .. Len(e)
  BY <1>1, LastRound
<1>7. Free(e) = 0
  BY <1>1, <1>6
<1>8. SplitStreamText(e, FALSE) = Cut(e, 0)
  <2>1. Cut(e, 0) \in Splits
    BY <1>1, <1>6, <1>7, CutType
  <2> QED
    BY <1>5, <1>7, <2>1, PlusType, EmptyText
<1>9. SubSeq(e, 1, 0) = <<>> /\ From(e, 0 + 1) = <<>>
  <2>1. 0 \in 0 .. Len(e)
    BY <1>1
  <2>2. SubSeq(e, 1, 0) \in Text /\ Len(SubSeq(e, 1, 0)) = 0
    BY <1>1, <2>1, FrontPlaces
  <2>3. From(e, 0 + 1) \in Text /\ Len(From(e, 0 + 1)) = 0
    <3>1. Len(From(e, 0 + 1)) = Len(e) - 0 /\ From(e, 0 + 1) \in Text
      BY <1>1, <2>1, FromPlaces
    <3> QED
      BY <1>1, <3>1
  <2> QED
    BY <1>1, <2>2, <2>3
<1>10. /\ Cut(e, 0).visible = SubSeq(e, 1, 0) /\ Cut(e, 0).rest = From(e, 0 + 1)
       /\ Cut(e, 0).calls = 0
  <2>1. 0 \in 0 .. Len(e)
    BY <1>1
  <2> QED
    BY <1>1, <2>1, CutType
<1> QED
  BY <1>8, <1>9, <1>10 DEF e

(* Seamless holds at first.                                                *)
LEMMA InitSeamless == Init => Seamless
<1> SUFFICES ASSUME Init PROVE Seamless
  OBVIOUS
<1>1. PendingText = <<>> /\ fed = <<>> /\ shown = <<>> /\ toolCallCompleted = FALSE
  BY DEF Init, ParserInit
<1>2. ~EndsInBlanks(<<>>)
  <2>1. DOMAIN <<>> = {}
    OBVIOUS
  <2> QED
    BY <2>1 DEF EndsInBlanks
<1>3. /\ SplitStreamText(fed, FALSE).visible = <<>>
      /\ SplitStreamText(fed, FALSE).rest = <<>>
      /\ SplitStreamText(fed, FALSE).calls = 0
  BY <1>1, SplitOfNothing
<1>4. ~(SplitStreamText(fed, FALSE).calls > 0)
  <2> DEFINE n == SplitStreamText(fed, FALSE).calls
  <2>1. n = 0
    BY <1>3
  <2> HIDE DEF n
  <2>2. ~(n > 0)
    BY <2>1
  <2> QED
    BY <2>2 DEF n
<1> QED
  BY <1>1, <1>2, <1>3, <1>4 DEF Seamless

(* No step leaves Seamless: a piece is split with what was held back,      *)
(* which is as good as splitting everything.                               *)
LEMMA NextSeamless == Typed /\ Seamless /\ [Next]_vars => Seamless'
<1> SUFFICES ASSUME Typed, Seamless, [Next]_vars, ~flushed', ~cutInBlanks'
             PROVE  /\ ~EndsInBlanks(fed')
                    /\ toolCallCompleted' <=> SplitStreamText(fed', FALSE).calls > 0
                    /\ ~toolCallCompleted' =>
                         /\ shown' = SplitStreamText(fed', FALSE).visible
                         /\ PendingText' = SplitStreamText(fed', FALSE).rest
                    /\ toolCallCompleted' => IsPrefix(shown', SplitStreamText(fed', FALSE).visible)
  BY DEF Seamless
<1>1. CASE \E chunk \in Chunks : Consume(chunk)
  <2>1. PICK chunk \in Chunks : Consume(chunk)
    BY <1>1
  <2>2. /\ chunk \in Text /\ fed' = fed \o chunk
        /\ ~flushed /\ flushed' = flushed
        /\ cutInBlanks' = (cutInBlanks \/ EndsInBlanks(fed \o chunk))
        /\ Unread(chunk) \/ Read(chunk)
    BY <2>1, ConsumeEffect
  <2>3. ~cutInBlanks /\ ~EndsInBlanks(fed \o chunk)
    BY <2>2
  <2> DEFINE S == SplitStreamText(fed, FALSE)
             v == S.visible
             r == S.rest
             n == S.calls
             T == SplitStreamText(r \o chunk, FALSE)
             W == SplitStreamText(fed \o chunk, FALSE)
  <2>4. /\ ~EndsInBlanks(fed)
        /\ toolCallCompleted <=> n > 0
        /\ ~toolCallCompleted => shown = v /\ PendingText = r
        /\ toolCallCompleted => IsPrefix(shown, v)
    BY <2>2, <2>3 DEF Seamless
  <2>5. W = Plus(v, n, T)
    BY <2>2, <2>4, SplitJoined DEF Typed
  <2>6. S \in Splits
    BY SplitType DEF Typed
  <2>7. v \in Text /\ r \in Text /\ n \in Nat /\ shown \in Text
    BY <2>6 DEF Splits, Typed
  <2>8. T \in Splits
    BY <2>2, <2>7, JoinedPlaces, SplitType
  <2>9. W.visible = v \o T.visible /\ W.rest = T.rest /\ W.calls = n + T.calls
    <3> HIDE DEF v, n, T, W
    <3> QED
      BY <2>5, <2>7, <2>8, PlusType
  <2>10. T.visible \in Text /\ T.calls \in Nat
    BY <2>8 DEF Splits
  <2>11. CASE toolCallCompleted
    <3>1. shown' = shown /\ toolCallCompleted'
      BY <2>2, <2>11 DEF Unread, Read
    <3>2. n > 0 /\ IsPrefix(shown, v)
      BY <2>4, <2>11
    <3> HIDE DEF v, n, T, W, S
    <3>3. W.calls > 0
      BY <2>7, <2>9, <2>10, <3>2
    <3>4. IsPrefix(shown', W.visible)
      BY <2>7, <2>9, <2>10, <3>1, <3>2, PrefixJoined
    <3> QED
      BY <2>2, <2>3, <3>1, <3>3, <3>4 DEF W
  <2>12. CASE ~toolCallCompleted
    <3>1. shown = v /\ PendingText = r /\ ~(n > 0)
      BY <2>4, <2>12
    <3>2. n = 0
      <4> HIDE DEF n
      <4> QED
        BY <2>7, <3>1
    <3>3. CASE Unread(chunk)
      <4>1. chunk = <<>> /\ shown' = shown /\ PendingText' = PendingText
            /\ toolCallCompleted' = toolCallCompleted
        BY <2>12, <3>3 DEF Unread
      <4>2. fed' = fed
        BY <2>2, <4>1, EmptyText DEF Typed
      <4> QED
        BY <2>4, <2>12, <4>1, <4>2
    <3>4. CASE Read(chunk)
      <4>1. /\ PendingText' = T.rest /\ toolCallCompleted' = (T.calls > 0)
            /\ shown' = shown \o T.visible
        BY <3>1, <3>4 DEF Read
      <4>2. W.calls = T.calls
        <5> HIDE DEF W, T, n
        <5> QED
          BY <2>9, <2>10, <3>2
      <4>3. PendingText' = W.rest /\ shown' = W.visible
        BY <2>9, <3>1, <4>1
      <4>4. shown' \in Text
        BY <2>7, <2>10, <4>1, JoinedPlaces
      <4>5. IsPrefix(shown', W.visible)
        BY <4>3, <4>4 DEF IsPrefix
      <4> HIDE DEF W, T
      <4>6. toolCallCompleted' <=> W.calls > 0
        BY <4>1, <4>2
      <4> QED
        BY <2>2, <2>3, <4>3, <4>5, <4>6 DEF W
    <3> QED
      BY <2>2, <3>3, <3>4
  <2> QED
    BY <2>11, <2>12
<1>2. CASE Flush
  BY <1>2, FlushEffect
<1>3. CASE UNCHANGED vars
  BY <1>3 DEF Seamless, vars, parserVars
<1> QED
  BY <1>1, <1>2, <1>3 DEF Next

(* Where the text was cut makes no difference to what the parser shows,    *)
(* holds back and recognises, but for a cut in the blanks of a start       *)
(* marker (parser.go:598-645, 684-810).                                    *)
THEOREM ChunkingIsInvisible == Spec => []ChunkingInvisible
<1>1. Seamless => ChunkingInvisible
  BY DEF Seamless, ChunkingInvisible
<1> QED
  BY <1>1, InitTyped, NextTyped, InitSeamless, NextSeamless, PTL DEF Spec

(* Why a split holds text back.                                            *)
Waiting(t) == \/ t = <<>> \/ t \in PartialMarkers
              \/ \E m \in Starts(t) : m.start = 1 /\ ~CloseOf(t, m).closed

(* Every split that is not final leaves a text with one of these reasons.  *)
LEMMA RestWaits ==
  ASSUME NEW t \in Text
  PROVE  Waiting(SplitStreamText(t, FALSE).rest)
<1> DEFINE r == ClosedBlocks[t].rest
           k == Free(r)
           u == From(r, k + 1)
           m == FirstOf(Starts(r))
<1>1. r \in Text /\ ~HasClosedBlock(r)
  BY ClosedBlocksType DEF Splits
<1>2. k \in 0 .. Len(r) /\ Len(r) \in Nat
  BY <1>1, LastRound, TextPlaces
<1>3. SplitStreamText(t, FALSE).rest = u
  <2> DEFINE c == Cut(r, k)
             v == ClosedBlocks[t].visible
             n == ClosedBlocks[t].calls
  <2>1. SplitStreamText(t, FALSE) = Plus(v, n, c)
    BY SplitIs
  <2>2. c.rest = u
    BY <1>1, <1>2, CutType
  <2> HIDE DEF v, n, c, u
  <2>3. Plus(v, n, c).rest = c.rest
    BY DEF Plus
  <2> QED
    BY <2>1, <2>2, <2>3
<1>4. u \in Text /\ Len(u) = Len(r) - k
  BY <1>1, <1>2, FromPlaces
<1>5. CASE Starts(r) # {}
  <2>1. m \in Starts(r)
    BY <1>1, <1>5, FirstStart
  <2>2. /\ m \in Marks /\ m.start \in Nat /\ m.end \in Nat /\ 1 <= m.start
        /\ m.start < m.end /\ m.end <= Len(r)
    BY <1>1, <2>1, StartPlaces
  <2>3. k = m.start - 1
    BY <1>5 DEF Free
  <2>4. \A n \in Starts(r) : k < n.start
    <3> SUFFICES ASSUME NEW n \in Starts(r) PROVE k < n.start
      OBVIOUS
    <3>1. m.start <= n.start
      BY <1>1, FirstStart
    <3>2. n.start \in Nat
      BY <1>1, StartPlaces
    <3> HIDE DEF k, m
    <3> QED
      BY <2>2, <2>3, <3>1, <3>2
  <2> DEFINE l == FirstOf(Starts(u))
  <2>5. Starts(u) # {} /\ m = Shifted(l, k)
    <3> HIDE DEF r, k
    <3> QED
      BY <1>1, <1>2, <1>5, <2>4, FirstStartShifted
  <2> HIDE DEF u, m, k, r
  <2>6. l \in Starts(u)
    BY <1>4, <2>5, FirstStart
  <2>7. l \in Marks /\ l.start \in Nat /\ l.end \in Nat /\ l.end >= 1 /\ l.end <= Len(u)
    BY <1>4, <2>6, StartPlaces
  <2>8. k \in Nat
    BY <1>2
  <2>9. m.start = k + l.start
    BY <2>5, <2>7, <2>8, ShiftedMark
  <2>10. l.start = 1
    BY <2>2, <2>3, <2>7, <2>8, <2>9
  <2>11. ~CloseOf(r, m).closed
    BY <1>1, <1>5 DEF HasClosedBlock, m
  <2>12. Window(u, r, k) /\ k + Len(u) = Len(r)
    BY <1>1, <1>2, FromWindow DEF u
  <2>13. CloseOf(u, l).closed => CloseOf(r, Shifted(l, k)).closed
    BY <1>1, <1>4, <2>7, <2>8, <2>12, WindowClose
  <2> QED
    BY <1>3, <2>5, <2>6, <2>10, <2>11, <2>13 DEF Waiting
<1>6. CASE Starts(r) = {} /\ Partials(r) # {}
  <2>1. FindPartialMarker(r) \in Partials(r) /\ k = FindPartialMarker(r) - 1
    BY <1>1, <1>6, PartialPlace DEF Free
  <2>2. FindPartialMarker(r) \in Nat /\ From(r, FindPartialMarker(r)) \in PartialMarkers
    BY <2>1 DEF Partials
  <2>3. k + 1 = FindPartialMarker(r)
    <3> HIDE DEF k
    <3> QED
      BY <2>1, <2>2
  <2> QED
    BY <1>3, <2>2, <2>3 DEF Waiting
<1>7. CASE Starts(r) = {} /\ Partials(r) = {}
  <2>1. k = Len(r)
    BY <1>7 DEF Free
  <2>2. Len(u) = 0
    BY <1>2, <1>4, <2>1
  <2>3. u = <<>>
    BY <1>4, <2>2, EmptyText
  <2> QED
    BY <1>3, <2>3 DEF Waiting
<1> QED
  BY <1>5, <1>6, <1>7

(* A text without a block is shown but for a piece of a marker at its end. *)
LEMMA PlainSplit ==
  ASSUME NEW t \in Text, Starts(t) = {}
  PROVE  LET S == SplitStreamText(t, FALSE)
         IN  /\ S.calls = 0 /\ t = S.visible \o S.rest
             /\ S.rest \in PartialMarkers \cup {<<>>}
<1> DEFINE k == Free(t)
           S == SplitStreamText(t, FALSE)
<1>1. k \in 0 .. Len(t)
  BY LastRound
<1>2. ClosedBlocks[t] = [visible |-> <<>>, rest |-> t, calls |-> 0]
  BY ClosedBlocksEquation DEF HasClosedBlock
<1>3. ClosedBlocks[t].visible = <<>> /\ ClosedBlocks[t].rest = t /\ ClosedBlocks[t].calls = 0
  BY <1>2
<1>4. S = Plus(<<>>, 0, Cut(t, k))
  BY <1>3, SplitIs
<1>5. S = Cut(t, k)
  BY <1>1, <1>4, CutType, PlusType, EmptyText
<1>6. S.visible = SubSeq(t, 1, k) /\ S.rest = From(t, k + 1) /\ S.calls = 0
  BY <1>1, <1>5, CutType
<1>7. S.visible \o S.rest = t
  <2>1. SubSeq(t, 1, k) \o From(t, k + 1) = t
    BY <1>1, Rejoined
  <2> HIDE DEF S, k
  <2> QED
    BY <1>6, <2>1
<1>8. Waiting(S.rest)
  BY RestWaits
<1>9. \A m \in Starts(S.rest) : FALSE
  <2>1. S.rest = From(t, k + 1)
    BY <1>6
  <2> HIDE DEF k
  <2>2. /\ From(t, k + 1) \in Text /\ k \in Nat /\ Window(From(t, k + 1), t, k)
    BY <1>1, FromWindow
  <2> QED
    BY <2>1, <2>2, ShiftedStarts
<1>10. S.rest \in PartialMarkers \cup {<<>>}
  BY <1>8, <1>9 DEF Waiting
<1> HIDE DEF S
<1>11. S.calls = 0 /\ t = S.visible \o S.rest /\ S.rest \in PartialMarkers \cup {<<>>}
  BY <1>6, <1>7, <1>10
<1> QED
  BY <1>11 DEF S

(* Both halves of the claim: what is held back is waited for, and of a     *)
(* text without a block it is all that is not shown, a piece of a marker.  *)
Withheld ==
  /\ toolCallCompleted \/ Waiting(PendingText)
  /\ ~flushed /\ Starts(fed) = {} =>
       /\ ~toolCallCompleted /\ fed = shown \o PendingText
       /\ PendingText \in PartialMarkers \cup {<<>>}

(* A text without a block has none at its front.                           *)
LEMMA NoStartBefore ==
  ASSUME NEW t \in Text, NEW c \in Text, Starts(t \o c) = {}
  PROVE  Starts(t) = {}
<1>1. t \o c \in Text /\ Window(t, t \o c, 0) /\ 0 \in Nat
  BY JoinedWindow
<1> QED
  BY <1>1, ShiftedStarts

(* And none at its end.                                                    *)
LEMMA NoStartBehind ==
  ASSUME NEW t \in Text, NEW c \in Text, Starts(t \o c) = {}
  PROVE  Starts(c) = {}
<1>1. /\ t \o c \in Text /\ Len(t \o c) = Len(t) + Len(c)
      /\ \A i \in 1 .. Len(c) : (t \o c)[Len(t) + i] = c[i]
      /\ Len(t) \in Nat /\ Len(c) \in Nat
  BY JoinedPlaces, TextPlaces
<1>2. Window(c, t \o c, Len(t))
  BY <1>1 DEF Window
<1> QED
  BY <1>1, <1>2, ShiftedStarts

(* Withheld holds at first.                                                *)
LEMMA InitWithheld == Init => Withheld
<1> SUFFICES ASSUME Init PROVE Withheld
  OBVIOUS
<1>1. /\ PendingText = <<>> /\ fed = <<>> /\ shown = <<>> /\ toolCallCompleted = FALSE
      /\ flushed = FALSE
  BY DEF Init, ParserInit
<1>2. <<>> \o <<>> = <<>>
  BY EmptyText
<1> QED
  BY <1>1, <1>2 DEF Withheld, Waiting

(* No step leaves Withheld.                                                *)
LEMMA NextWithheld == Typed /\ Withheld /\ [Next]_vars => Withheld'
<1> SUFFICES ASSUME Typed, Withheld, [Next]_vars PROVE Withheld'
  OBVIOUS
<1>1. CASE \E chunk \in Chunks : Consume(chunk)
  <2>1. PICK chunk \in Chunks : Consume(chunk)
    BY <1>1
  <2>2. /\ chunk \in Text /\ fed' = fed \o chunk
        /\ ~flushed /\ flushed' = flushed
        /\ Unread(chunk) \/ Read(chunk)
    BY <2>1, ConsumeEffect
  <2>3. PendingText \in Text /\ fed \in Text /\ shown \in Text
    BY DEF Typed
  <2> DEFINE t == PendingText \o chunk
             S == SplitStreamText(t, FALSE)
  <2>4. t \in Text
    BY <2>2, <2>3, JoinedPlaces
  <2>5. toolCallCompleted' \/ Waiting(PendingText')
    <3>1. CASE Unread(chunk)
      BY <3>1 DEF Unread, Withheld
    <3>2. CASE Read(chunk)
      <4>1. PendingText' = S.rest
        BY <3>2 DEF Read
      <4>2. Waiting(S.rest)
        <5> HIDE DEF t
        <5> QED
          BY <2>4, RestWaits
      <4> QED
        BY <4>1, <4>2
    <3> QED
      BY <2>2, <3>1, <3>2
  <2>6. ASSUME Starts(fed') = {}
        PROVE  /\ ~toolCallCompleted' /\ fed' = shown' \o PendingText'
               /\ PendingText' \in PartialMarkers \cup {<<>>}
    <3>1. Starts(fed) = {}
      BY <2>2, <2>3, <2>6, NoStartBefore
    <3>2. /\ ~toolCallCompleted /\ fed = shown \o PendingText
          /\ PendingText \in PartialMarkers \cup {<<>>}
      BY <2>2, <3>1 DEF Withheld
    <3>3. CASE Unread(chunk)
      <4>1. chunk = <<>> /\ shown' = shown /\ PendingText' = PendingText
            /\ toolCallCompleted' = toolCallCompleted
        BY <3>2, <3>3 DEF Unread
      <4>2. fed' = fed
        BY <2>2, <2>3, <4>1, EmptyText
      <4> QED
        BY <3>2, <4>1, <4>2
    <3>4. CASE Read(chunk)
      <4>1. fed' = shown \o t
        BY <2>2, <2>3, <3>2, JoinedThrice
      <4> HIDE DEF t
      <4>2. Starts(t) = {}
        BY <2>3, <2>4, <2>6, <4>1, NoStartBehind
      <4>3. S.calls = 0 /\ t = S.visible \o S.rest /\ S.rest \in PartialMarkers \cup {<<>>}
        BY <2>4, <4>2, PlainSplit
      <4>4. PendingText' = S.rest /\ toolCallCompleted' = (S.calls > 0)
            /\ shown' = shown \o S.visible
        BY <3>4 DEF Read, t
      <4>5. S \in Splits
        BY <2>4, SplitType
      <4>6. S.visible \in Text /\ S.rest \in Text
        BY <4>5 DEF Splits
      <4> HIDE DEF S
      <4>7. fed' = shown' \o PendingText'
        BY <2>3, <4>1, <4>3, <4>4, <4>6, JoinedThrice
      <4>8. ~(S.calls > 0)
        BY <4>3
      <4> QED
        BY <4>3, <4>4, <4>7, <4>8
    <3> QED
      BY <2>2, <3>3, <3>4
  <2> QED
    BY <2>2, <2>5, <2>6 DEF Withheld
<1>2. CASE Flush
  <2>1. /\ ~flushed /\ flushed' /\ fed' = fed /\ shown' = shown
        /\ toolCallCompleted' \/ PendingText' = <<>> \/ PendingText' = PendingText
        /\ toolCallCompleted => toolCallCompleted'
    BY <1>2, FlushEffect
  <2>2. toolCallCompleted' \/ Waiting(PendingText')
    <3>1. Waiting(<<>>)
      BY DEF Waiting
    <3> QED
      BY <2>1, <3>1 DEF Withheld
  <2> QED
    BY <2>1, <2>2 DEF Withheld
<1>3. CASE UNCHANGED vars
  BY <1>3 DEF Withheld, Waiting, vars, parserVars
<1> QED
  BY <1>1, <1>2, <1>3 DEF Next

(* Text is held back only for the rest of a marker or the end of a block,  *)
(* and until the answer ends the client has all of a text without a block  *)
(* but what is held back (parser.go:716-720, 750, 783).                    *)
THEOREM OnlyMarkersAreWithheld == Spec => []OnlyMarkersWithheld
<1>1. Withheld => OnlyMarkersWithheld
  <2> SUFFICES ASSUME Withheld PROVE OnlyMarkersWithheld
    OBVIOUS
  <2>1. \/ PendingText = <<>> \/ toolCallCompleted
        \/ PendingText \in PartialMarkers
        \/ \E m \in Starts(PendingText) : m.start = 1 /\ ~CloseOf(PendingText, m).closed
    BY DEF Withheld, Waiting
  <2>2. ~flushed /\ Starts(fed) = {} => fed = shown \o PendingText
    BY DEF Withheld
  <2> QED
    BY <2>1, <2>2 DEF OnlyMarkersWithheld
<1> QED
  BY <1>1, InitTyped, NextTyped, InitWithheld, NextWithheld, PTL DEF Spec

-----------------------------------------------------------------------------
(***************************************************************************)
(* What the stream has found when Flush has run.                           *)
(***************************************************************************)
(* A closed block has a call, or the block that the text breaks off has.   *)
StreamHas(t) ==
  LET r == ClosedBlocks[t].rest
      m == FirstOf(Starts(r))
  IN  \/ ClosedBlocks[t].calls > 0
      \/ Starts(r) # {} /\ CallsOf(m.kind, From(r, m.end + 1)) > 0

NoResult(t) == \A m \in Starts(t) : m.kind # "tool_result"

(* An end of a text has no block of a kind the text does not have.         *)
LEMMA NoResultAtEnd ==
  ASSUME NEW t \in Text, NEW k \in 0 .. Len(t), NoResult(t)
  PROVE  NoResult(From(t, k + 1))
<1> DEFINE u == From(t, k + 1)
<1>1. u \in Text /\ k \in Nat /\ Window(u, t, k)
  BY FromWindow
<1> HIDE DEF u
<1>2. ASSUME NEW m \in Starts(u) PROVE m.kind # "tool_result"
  <2>1. Shifted(m, k) \in Starts(t)
    BY <1>1, ShiftedStarts
  <2>2. Shifted(m, k).kind = m.kind
    BY <1>1, StartPlaces, ShiftedMark
  <2> QED
    BY <2>1, <2>2 DEF NoResult
<1> QED
  BY <1>2 DEF NoResult, u

(* There is nothing to salvage in the empty text.                          *)
LEMMA NothingSalvaged == SalvageIncompleteBlock(<<>>) = 0
<1> DEFINE e == <<>>
<1>1. DOMAIN e = {}
  OBVIOUS
<1> HIDE DEF e
<1>2. {i \in DOMAIN e : Stands(FunctionCallsMarker, e, i)} = {}
  BY <1>1
<1>3. ~PayloadFirst(e)
  BY <1>1 DEF PayloadFirst
<1>4. SalvageIncompleteBlock(e) = 0
  BY <1>2, <1>3 DEF SalvageIncompleteBlock
<1> QED
  BY <1>4 DEF e

(* The final split of a text that begins with an open block, or has none:  *)
(* the calls of that block are found.                                      *)
LEMMA FoundInOpenBlock ==
  ASSUME NEW u \in Text, ~HasClosedBlock(u), NoResult(u)
  PROVE  LET m == FirstOf(Starts(u))
         IN  Found(u) > 0 <=> Starts(u) # {} /\ CallsOf(m.kind, From(u, m.end + 1)) > 0
<1> DEFINE m == FirstOf(Starts(u))
           body == CloseOf(u, m).body
           calls == CallsOf(m.kind, body)
           U == Unfinished(u, TRUE)
<1>1. ClosedBlocks[u] = [visible |-> <<>>, rest |-> u, calls |-> 0]
  BY ClosedBlocksEquation
<1>2. ClosedBlocks[u].rest = u /\ ClosedBlocks[u].calls = 0
  BY <1>1
<1>3. SplitStreamText(u, TRUE).calls = 0 + U.calls /\ SplitStreamText(u, TRUE).rest = U.rest
  BY <1>2 DEF SplitStreamText, Joined
<1> DEFINE a == SplitStreamText(u, TRUE).calls
<1>6. U.calls = 0 /\ U.rest = <<>> => Found(u) = 0
  <2> HIDE DEF U
  <2> SUFFICES ASSUME U.calls = 0, U.rest = <<>> PROVE Found(u) = 0
    OBVIOUS
  <2>0. a = 0 + U.calls
    BY <1>3
  <2> HIDE DEF a
  <2>1. a = 0
    BY <2>0
  <2>2. ~(a > 0)
    BY <2>1
  <2> QED
    BY <1>3, <2>2, NothingSalvaged DEF Found, a
<1>4. CASE Starts(u) = {}
  <2> HIDE DEF U
  <2>1. U = [visible |-> u, rest |-> <<>>, calls |-> 0]
    BY <1>4 DEF U, Unfinished
  <2>2. U.rest = <<>> /\ U.calls = 0
    BY <2>1
  <2>3. Found(u) = 0
    BY <1>6, <2>2
  <2>4. ~(Found(u) > 0)
    BY <2>3
  <2> QED
    BY <1>4, <2>4
<1>5. CASE Starts(u) # {}
  <2>1. m \in Starts(u) /\ m.kind # "tool_result"
    BY <1>5, FirstStart DEF NoResult
  <2>2. ~CloseOf(u, m).closed
    BY <1>5 DEF HasClosedBlock
  <2> HIDE DEF m
  <2>3. m \in Marks /\ m.end \in Nat /\ m.end >= 1 /\ m.end <= Len(u) /\ Len(u) \in Nat
    BY <2>1, StartPlaces, TextPlaces
  <2>4. body = From(u, m.end + 1)
    BY <2>2, <2>3, CloseFacts
  <2>5. m.end \in 0 .. Len(u)
    BY <2>3
  <2>6. body \in Text
    BY <2>4, <2>5, FromPlaces
  <2> HIDE DEF body
  <2>7. calls \in Nat
    BY <2>6, CallsBound
  <2> HIDE DEF calls, U
  <2>8. CASE calls > 0
    <3>1. U = [visible |-> SubSeq(u, 1, m.start - 1), rest |-> <<>>, calls |-> calls]
      BY <1>5, <2>8 DEF U, Unfinished, m, calls, body
    <3>2. U.calls = calls
      BY <3>1
    <3>3. a = calls
      <4>1. a = 0 + U.calls
        BY <1>3
      <4> HIDE DEF a
      <4> QED
        BY <2>7, <3>2, <4>1
    <3> HIDE DEF a
    <3>4. Found(u) > 0
      BY <2>8, <3>3 DEF Found, a
    <3> QED
      BY <1>5, <2>4, <2>8, <3>4 DEF m, calls
  <2>9. CASE ~(calls > 0)
    <3>0. calls = 0
      BY <2>7, <2>9
    <3>1. U = [visible |-> u, rest |-> <<>>, calls |-> 0]
      BY <1>5, <2>1, <3>0 DEF U, Unfinished, m, calls, body
    <3>2. U.rest = <<>> /\ U.calls = 0
      BY <3>1
    <3>3. Found(u) = 0
      BY <1>6, <3>2
    <3>4. ~(Found(u) > 0)
      BY <3>3
    <3> QED
      BY <2>4, <2>9, <3>4 DEF m, calls
  <2> QED
    BY <2>8, <2>9
<1> QED
  BY <1>4, <1>5

(* What the last split before Flush leaves has a call for Flush exactly    *)
(* when the block that breaks off has one.                                 *)
LEMMA FoundAtEnd ==
  ASSUME NEW t \in Text, NoResult(t)
  PROVE  LET S == SplitStreamText(t, FALSE)
         IN  /\ S.calls \in Nat /\ Found(S.rest) \in Nat
             /\ StreamHas(t) <=> S.calls > 0 \/ Found(S.rest) > 0
<1> DEFINE r == ClosedBlocks[t].rest
           n == ClosedBlocks[t].calls
           k == Free(r)
           u == From(r, k + 1)
           m == FirstOf(Starts(r))
           l == FirstOf(Starts(u))
           S == SplitStreamText(t, FALSE)
<1>1. r \in Text /\ n \in Nat /\ ~HasClosedBlock(r)
  BY ClosedBlocksType DEF Splits
<1>2. k \in 0 .. Len(r) /\ Len(r) \in Nat
  BY <1>1, LastRound, TextPlaces
<1>3. S.rest = u /\ S.calls = n
  <2> DEFINE c == Cut(r, k)
             v == ClosedBlocks[t].visible
  <2>1. S = Plus(v, n, c)
    BY SplitIs
  <2>2. c.rest = u /\ c.calls = 0
    BY <1>1, <1>2, CutType
  <2> HIDE DEF v, n, c, u, S
  <2>3. Plus(v, n, c).rest = c.rest /\ Plus(v, n, c).calls = n + c.calls
    BY DEF Plus
  <2> QED
    BY <1>1, <2>1, <2>2, <2>3
<1>4. u \in Text
  BY <1>1, <1>2, FromPlaces
<1>5. NoResult(r)
  BY RestIsEnd, NoResultAtEnd
<1>6. NoResult(u)
  BY <1>1, <1>2, <1>5, NoResultAtEnd
<1>7. Starts(r) # {} =>
        m \in Starts(r) /\ m.start \in Nat /\ 1 <= m.start /\ k = m.start - 1
  BY <1>1, FirstStart, StartPlaces DEF Free
<1>8. \A i \in Starts(r) : k < i.start
  <2> SUFFICES ASSUME NEW i \in Starts(r) PROVE k < i.start
    OBVIOUS
  <2>1. m.start <= i.start /\ i.start \in Nat
    BY <1>1, FirstStart, StartPlaces
  <2>2. m.start \in Nat /\ 1 <= m.start /\ k = m.start - 1
    BY <1>7
  <2> HIDE DEF k, m
  <2> QED
    BY <2>1, <2>2
<1>9. /\ Starts(r) = {} <=> Starts(u) = {}
      /\ Starts(r) # {} => m = Shifted(l, k)
      /\ ~HasClosedBlock(u)
  <2> HIDE DEF r, k
  <2> QED
    BY <1>1, <1>2, <1>8, FirstStartShifted, RoundShifted
<1>10. Found(u) > 0 <=> Starts(u) # {} /\ CallsOf(l.kind, From(u, l.end + 1)) > 0
  <2> HIDE DEF u
  <2> QED
    BY <1>4, <1>6, <1>9, FoundInOpenBlock
<1>11. Starts(r) # {} => l.kind = m.kind /\ From(u, l.end + 1) = From(r, m.end + 1)
  <2> SUFFICES ASSUME Starts(r) # {}
               PROVE  l.kind = m.kind /\ From(u, l.end + 1) = From(r, m.end + 1)
    OBVIOUS
  <2>1. Starts(u) # {} /\ m = Shifted(l, k)
    BY <1>9
  <2>2. m.end \in Nat /\ m.end <= Len(r)
    BY <1>1, <1>7, StartPlaces
  <2>3. k \in Nat
    BY <1>2
  <2> HIDE DEF u, m
  <2>4. l \in Starts(u)
    BY <1>4, <2>1, FirstStart
  <2>5. l \in Marks /\ l.end \in Nat
    BY <1>4, <2>4, StartPlaces
  <2> HIDE DEF k, l, r
  <2>6. m.kind = l.kind /\ m.end = k + l.end
    BY <2>1, <2>3, <2>5, ShiftedMark
  <2>7. k + l.end <= Len(r) /\ l.end \in Nat
    BY <2>2, <2>5, <2>6
  <2> DEFINE j == l.end
  <2>8. j \in Nat /\ k + j <= Len(r)
    BY <2>7
  <2> HIDE DEF j
  <2>9. From(From(r, k + 1), j + 1) = From(r, (k + j) + 1)
    BY <1>1, <2>3, <2>8, FromFrom
  <2> QED
    BY <2>6, <2>9 DEF u, j
<1>12. StreamHas(t) <=> n > 0 \/ (Starts(r) # {} /\ CallsOf(m.kind, From(r, m.end + 1)) > 0)
  BY DEF StreamHas
<1>13. Found(u) \in Nat
  BY <1>4, FoundBound
<1> HIDE DEF n, u, r, m, l, k
<1> QED
  BY <1>1, <1>3, <1>9, <1>10, <1>11, <1>12, <1>13

(* The blocks one by one.                                                  *)
LEMMA StreamRound ==
  ASSUME NEW t \in Text
  PROVE  LET m == FirstOf(Starts(t))
         IN  /\ ~HasClosedBlock(t) =>
                  (StreamHas(t) <=> Starts(t) # {} /\ CallsOf(m.kind, From(t, m.end + 1)) > 0)
             /\ HasClosedBlock(t) =>
                  (StreamHas(t) <=> FirstBlock(t).calls > 0 \/ StreamHas(FirstBlock(t).behind))
<1>1. CASE ~HasClosedBlock(t)
  <2>1. ClosedBlocks[t] = [visible |-> <<>>, rest |-> t, calls |-> 0]
    BY <1>1, ClosedBlocksEquation
  <2>2. ClosedBlocks[t].rest = t /\ ClosedBlocks[t].calls = 0
    BY <2>1
  <2>3. ~(0 > 0)
    OBVIOUS
  <2> QED
    BY <1>1, <2>2, <2>3 DEF StreamHas
<1>2. CASE HasClosedBlock(t)
  <2> DEFINE b == FirstBlock(t).behind
             n == FirstBlock(t).calls
             B == ClosedBlocks[b]
             r == B.rest
             l == B.calls
             Open == Starts(r) # {} /\
                     CallsOf(FirstOf(Starts(r)).kind, From(r, FirstOf(Starts(r)).end + 1)) > 0
  <2>1. ClosedBlocks[t] = [visible |-> FirstBlock(t).visible \o B.visible, rest |-> r,
                           calls |-> n + l]
    BY <1>2, ClosedBlocksEquation
  <2>2. ClosedBlocks[t].rest = r /\ ClosedBlocks[t].calls = n + l
    BY <2>1
  <2>3. n \in Nat /\ b \in Text
    BY <1>2, RoundFacts
  <2>4. B \in Splits
    BY <2>3, ClosedBlocksType
  <2>5. l \in Nat
    BY <2>4 DEF Splits
  <2>6. StreamHas(b) <=> l > 0 \/ Open
    BY DEF StreamHas
  <2>7. StreamHas(t) <=> n + l > 0 \/ Open
    BY <2>2 DEF StreamHas
  <2> HIDE DEF Open, n, l, b
  <2>8. n + l > 0 <=> n > 0 \/ l > 0
    BY <2>3, <2>5
  <2>9. StreamHas(t) <=> n > 0 \/ StreamHas(b)
    BY <2>6, <2>7, <2>8
  <2> QED
    BY <1>2, <2>9 DEF n, b
<1> QED
  BY <1>1, <1>2

(* After Flush the stream has a call exactly when a block of the whole     *)
(* text, closed or not, has one, unless a piece ended in blanks.           *)
Settled ==
  /\ ~Holds(fed, Fence) => ~cutInBlanks
  /\ flushed /\ ~cutInBlanks /\ NoResult(fed) => (ToolCalls > 0 <=> StreamHas(fed))

(* The blanks of a marker stand behind a fence, and a token stays.         *)
LEMMA TokensStay ==
  ASSUME NEW t \in Text
  PROVE  /\ EndsInBlanks(t) => Holds(t, Fence)
         /\ \A token : Holds(t, token) <=> \E i \in 1 .. Len(t) : t[i] = token
         /\ \A c \in Text : \A token : Holds(t, token) => Holds(t \o c, token)
<1>1. \A u \in Text : \A token : Holds(u, token) <=> \E i \in 1 .. Len(u) : u[i] = token
  BY TextPlaces DEF Holds, ToSet
<1>2. EndsInBlanks(t) => Holds(t, Fence)
  BY <1>1, TextPlaces DEF EndsInBlanks
<1>3. ASSUME NEW c \in Text, NEW token, Holds(t, token) PROVE Holds(t \o c, token)
  <2>1. PICK i \in 1 .. Len(t) : t[i] = token
    BY <1>1, <1>3
  <2>2. /\ t \o c \in Text /\ Len(t \o c) = Len(t) + Len(c) /\ (t \o c)[i] = t[i]
        /\ Len(t) \in Nat /\ Len(c) \in Nat
    BY JoinedPlaces, TextPlaces
  <2>3. i \in 1 .. Len(t \o c)
    BY <2>2
  <2> QED
    BY <1>1, <2>1, <2>2, <2>3
<1> QED
  BY <1>1, <1>2, <1>3

(* Settled holds at first.                                                 *)
LEMMA InitSettled == Init => Settled
  BY DEF Init, Settled

(* No step leaves Settled.                                                 *)
LEMMA NextSettled == Typed /\ Seamless /\ Settled /\ [Next]_vars => Settled'
<1> SUFFICES ASSUME Typed, Seamless, Settled, [Next]_vars PROVE Settled'
  OBVIOUS
<1>1. CASE \E chunk \in Chunks : Consume(chunk)
  <2>1. PICK chunk \in Chunks : Consume(chunk)
    BY <1>1
  <2>2. /\ chunk \in Text /\ fed' = fed \o chunk
        /\ ~flushed /\ flushed' = flushed
        /\ cutInBlanks' = (cutInBlanks \/ EndsInBlanks(fed \o chunk))
    BY <2>1, ConsumeEffect
  <2>3. fed \in Text /\ fed \o chunk \in Text
    BY <2>2, JoinedPlaces DEF Typed
  <2>4. ~Holds(fed', Fence) => ~Holds(fed, Fence) /\ ~EndsInBlanks(fed \o chunk)
    BY <2>2, <2>3, TokensStay
  <2>5. ~Holds(fed', Fence) => ~cutInBlanks'
    BY <2>2, <2>4 DEF Settled
  <2> QED
    BY <2>2, <2>5 DEF Settled
<1>2. CASE Flush
  <2> DEFINE n == SplitStreamText(fed, FALSE).calls
             f == Found(PendingText)
  <2>1. /\ ~flushed /\ fed' = fed /\ cutInBlanks' = cutInBlanks
        /\ \/ toolCallCompleted /\ UNCHANGED <<PendingText, ToolCalls, toolCallCompleted>>
           \/ ~toolCallCompleted /\ ToolCalls' = ToolCalls + f
    BY <1>2, FlushEffect
  <2>2. ASSUME ~cutInBlanks', NoResult(fed')
        PROVE  ToolCalls' > 0 <=> StreamHas(fed')
    <3>1. /\ toolCallCompleted <=> n > 0
          /\ ~toolCallCompleted => PendingText = SplitStreamText(fed, FALSE).rest
      BY <2>1, <2>2 DEF Seamless
    <3>2. /\ n \in Nat
          /\ StreamHas(fed) <=> n > 0 \/ Found(SplitStreamText(fed, FALSE).rest) > 0
      BY <2>1, <2>2, FoundAtEnd DEF Typed
    <3>3. toolCallCompleted = (ToolCalls > 0) /\ ToolCalls \in Nat
      BY DEF Typed
    <3>4. f \in Nat
      BY FoundBound DEF Typed
    <3> HIDE DEF n
    <3>5. CASE toolCallCompleted
      <4>1. ToolCalls' = ToolCalls /\ n > 0
        BY <2>1, <3>1, <3>5
      <4>2. ToolCalls > 0
        BY <3>3, <3>5, Zenon
      <4> QED
        BY <2>1, <3>2, <4>1, <4>2
    <3>6. CASE ~toolCallCompleted
      <4>1. ~(n > 0) /\ PendingText = SplitStreamText(fed, FALSE).rest
        BY <3>1, <3>6
      <4>2. StreamHas(fed) <=> f > 0
        BY <3>2, <4>1
      <4>3. ~(ToolCalls > 0)
        BY <3>3, <3>6, Zenon
      <4>4. ToolCalls' = ToolCalls + f
        BY <2>1, <3>6
      <4> HIDE DEF f
      <4>5. ToolCalls' = f
        BY <3>3, <3>4, <4>3, <4>4
      <4> QED
        BY <2>1, <4>2, <4>5
    <3> QED
      BY <3>5, <3>6
  <2> QED
    BY <2>1, <2>2 DEF Settled
<1>3. CASE UNCHANGED vars
  BY <1>3 DEF Settled, vars, parserVars
<1> QED
  BY <1>1, <1>2, <1>3 DEF Next

-----------------------------------------------------------------------------
(***************************************************************************)
(* The parser of complete texts: [function_calls] blocks.                  *)
(***************************************************************************)
(* An item at i of a block that begins at j and has not ended before i.    *)
Item(t, j, i) ==
  /\ 1 <= j /\ j <= i /\ i <= Len(t) /\ t[i] = "call"
  /\ IsStart(t, "function_calls", j, j + 1)
  /\ \A k \in j .. i : ~IsEnder(t, "function_calls", k)

HasItem(t) == \E j \in Nat, i \in Nat : Item(t, j, i)

(* The parser of complete texts counts such items.                         *)
LEMMA ItemsCounted ==
  ASSUME NEW t \in Text
  PROVE  ItemCalls(t) > 0 <=> HasItem(t)
<1> DEFINE P == {i \in DOMAIN t : t[i] = "call" /\ InFunctionCalls(t, i)}
<1>1. Len(t) \in Nat /\ DOMAIN t = 1 .. Len(t)
  BY TextPlaces
<1>2. IsFiniteSet(P)
  <2>1. IsFiniteSet(1 .. Len(t))
    BY <1>1, FS_Interval
  <2>2. P \subseteq 1 .. Len(t)
    BY <1>1
  <2> QED
    BY <2>1, <2>2, FS_Subset
<1>3. Cardinality(P) \in Nat /\ (Cardinality(P) = 0 <=> P = {})
  BY <1>2, FS_CardinalityType, FS_EmptySet
<1>4. ItemCalls(t) > 0 <=> P # {}
  <2>1. ItemCalls(t) = Cardinality(P)
    BY DEF ItemCalls
  <2> HIDE DEF P
  <2> QED
    BY <1>3, <2>1
<1>5. ASSUME NEW i \in P PROVE HasItem(t)
  <2>1. i \in 1 .. Len(t) /\ t[i] = "call" /\ InFunctionCalls(t, i)
    BY <1>1
  <2>2. PICK j \in 1 .. i : /\ Stands(FunctionCallsMarker, t, j)
                            /\ \A k \in j .. i : ~Stands(FunctionCallsEndMarker, t, k)
    BY <2>1 DEF InFunctionCalls
  <2>3. i \in Nat /\ j \in Nat /\ 1 <= j /\ j <= i /\ i <= Len(t)
    BY <1>1, <2>1, <2>2
  <2>4. j + 1 <= Len(t) /\ t[j] = "[f" /\ t[j + 1] = "f]"
    BY <2>2, <2>3, MarkerTokens
  <2>5. IsStart(t, "function_calls", j, j + 1)
    <3>1. j < j + 1
      BY <2>3
    <3> QED
      BY <2>3, <2>4, <3>1 DEF IsStart
  <2>6. ASSUME NEW k \in j .. i PROVE ~IsEnder(t, "function_calls", k)
    <3>1. k \in Nat /\ k >= 1
      BY <2>3
    <3> QED
      BY <2>2, <3>1, MarkerTokens DEF IsEnder
  <2> QED
    BY <2>1, <2>3, <2>5, <2>6 DEF HasItem, Item
<1>6. ASSUME HasItem(t) PROVE P # {}
  <2>1. PICK j \in Nat, i \in Nat : Item(t, j, i)
    BY <1>6 DEF HasItem
  <2>2. /\ 1 <= j /\ j <= i /\ i <= Len(t) /\ t[i] = "call"
        /\ IsStart(t, "function_calls", j, j + 1)
        /\ \A k \in j .. i : ~IsEnder(t, "function_calls", k)
    BY <2>1 DEF Item
  <2>3. j + 1 <= Len(t) /\ t[j] = "[f" /\ t[j + 1] = "f]"
    BY <2>2 DEF IsStart, Words
  <2>4. Stands(FunctionCallsMarker, t, j)
    BY <2>2, <2>3, MarkerTokens
  <2>5. ASSUME NEW k \in j .. i PROVE ~Stands(FunctionCallsEndMarker, t, k)
    <3>1. k \in Nat /\ k >= 1
      BY <2>2
    <3> QED
      BY <2>2, <3>1, MarkerTokens DEF IsEnder
  <2>6. j \in 1 .. i /\ i \in DOMAIN t
    BY <1>1, <2>2
  <2> QED
    BY <2>2, <2>4, <2>5, <2>6 DEF InFunctionCalls
<1> QED
  BY <1>4, <1>5, <1>6

(* A place seen from behind another one.                                   *)
LEMMA Offset ==
  ASSUME NEW e \in Nat, NEW i \in Nat, NEW l \in Nat, e < i, i <= l
  PROVE  i - e \in 1 .. l - e /\ e + (i - e) = i
  OBVIOUS

(* Tokens are counted when there are some.                                 *)
LEMMA CountPositive ==
  ASSUME NEW t \in Text, NEW token
  PROVE  HowMany(t, token) > 0 <=> \E i \in 1 .. Len(t) : t[i] = token
<1> DEFINE P == {i \in DOMAIN t : t[i] = token}
<1>1. Len(t) \in Nat /\ DOMAIN t = 1 .. Len(t)
  BY TextPlaces
<1>2. IsFiniteSet(P)
  <2>1. IsFiniteSet(1 .. Len(t))
    BY <1>1, FS_Interval
  <2>2. P \subseteq 1 .. Len(t)
    BY <1>1
  <2> QED
    BY <2>1, <2>2, FS_Subset
<1>3. Cardinality(P) \in Nat /\ (Cardinality(P) = 0 <=> P = {})
  BY <1>2, FS_CardinalityType, FS_EmptySet
<1>4. HowMany(t, token) > 0 <=> P # {}
  <2>1. HowMany(t, token) = Cardinality(P)
    BY DEF HowMany
  <2> HIDE DEF P
  <2> QED
    BY <1>3, <2>1
<1> QED
  BY <1>1, <1>4

(* Without a fence every block is a [function_calls] block, and an item    *)
(* stands behind the first of them.                                        *)
LEMMA ItemStarts ==
  ASSUME NEW t \in Text, ~Holds(t, Fence)
  PROVE  /\ \A m \in Starts(t) :
              /\ m.kind = "function_calls" /\ m.end = m.start + 1
              /\ t[m.start] = "[f" /\ t[m.end] = "f]"
         /\ \A j \in Nat, i \in Nat :
              Item(t, j, i) => \E m \in Starts(t) : m.start = j /\ m.end < i
<1>1. \A i \in 1 .. Len(t) : t[i] # Fence
  BY TokensStay
<1>2. Len(t) \in Nat
  BY TextPlaces
<1>3. ASSUME NEW m \in Starts(t)
      PROVE  /\ m.kind = "function_calls" /\ m.end = m.start + 1
             /\ t[m.start] = "[f" /\ t[m.end] = "f]"
  <2>1. /\ m \in Marks /\ m.start \in Nat /\ m.end \in Nat /\ 1 <= m.start
        /\ m.start < m.end /\ m.end <= Len(t) /\ IsStart(t, m.kind, m.start, m.end)
    BY StartPlaces, StartMembers
  <2>2. m.start \in 1 .. Len(t)
    BY <1>2, <2>1
  <2> QED
    BY <1>1, <2>1, <2>2 DEF IsStart
<1>4. ASSUME NEW j \in Nat, NEW i \in Nat, Item(t, j, i)
      PROVE  \E m \in Starts(t) : m.start = j /\ m.end < i
  <2> DEFINE m == [start |-> j, end |-> j + 1, kind |-> "function_calls"]
  <2>1. m \in Marks /\ m.start = j /\ m.end = j + 1 /\ m.kind = "function_calls"
    BY DEF Marks, Kinds
  <2>2. /\ 1 <= j /\ j <= i /\ i <= Len(t) /\ t[i] = "call"
        /\ IsStart(t, "function_calls", j, j + 1)
    BY <1>4 DEF Item
  <2>3. t[j] = "[f" /\ t[j + 1] = "f]"
    BY <2>2 DEF IsStart, Words
  <2>4. i # j /\ i # j + 1
    BY <2>2, <2>3
  <2>5. j + 1 < i
    BY <2>2, <2>4
  <2> HIDE DEF m
  <2>6. m \in Starts(t)
    BY <2>1, <2>2, StartMembers
  <2> QED
    BY <2>1, <2>5, <2>6
<1> QED
  BY <1>3, <1>4

(* A token behind the first start marker belongs to its block as long as   *)
(* the block has not ended.                                                *)
LEMMA ItemBehindStart ==
  ASSUME NEW t \in Text, ~Holds(t, Fence), NEW m \in Starts(t), NEW i \in Nat,
         m.end < i, i <= Len(t), t[i] = "call",
         \A k \in Nat : m.end < k /\ k <= i => ~IsEnder(t, "function_calls", k)
  PROVE  HasItem(t)
<1> DEFINE j == m.start
           e == m.end
<1>1. /\ j \in Nat /\ e = j + 1 /\ 1 <= j /\ t[j] = "[f" /\ t[e] = "f]"
      /\ m.kind = "function_calls" /\ IsStart(t, m.kind, j, e)
  BY ItemStarts, StartPlaces, StartMembers
<1>2. e < i /\ \A k \in Nat : e < k /\ k <= i => ~IsEnder(t, "function_calls", k)
  OBVIOUS
<1> HIDE DEF j, e
<1>3. ASSUME NEW k \in j .. i PROVE ~IsEnder(t, "function_calls", k)
  <2>1. k \in Nat /\ (k = j \/ k = e \/ (e < k /\ k <= i))
    BY <1>1, <1>2
  <2>2. t[j] # "[/f" /\ t[e] # "[/f"
    BY <1>1
  <2>3. CASE k = j \/ k = e
    BY <2>2, <2>3 DEF IsEnder
  <2>4. CASE e < k /\ k <= i
    BY <1>2, <2>1, <2>4
  <2> QED
    BY <2>1, <2>3, <2>4
<1>4. j <= i
  BY <1>1, <1>2
<1>5. Item(t, j, i)
  BY <1>1, <1>3, <1>4 DEF Item
<1> QED
  BY <1>1, <1>5 DEF HasItem

(* No round, or one: the block that the text breaks off.                   *)
LEMMA ItemsOfOpenBlock ==
  ASSUME NEW t \in Text, ~Holds(t, Fence), ~HasClosedBlock(t)
  PROVE  LET m == FirstOf(Starts(t))
         IN  HasItem(t) <=> Starts(t) # {} /\ CallsOf(m.kind, From(t, m.end + 1)) > 0
<1> DEFINE m == FirstOf(Starts(t))
           e == m.end
           u == From(t, e + 1)
<1>1. CASE Starts(t) = {}
  BY <1>1, ItemStarts DEF HasItem
<1>2. CASE Starts(t) # {}
  <2>1. m \in Starts(t) /\ \A n \in Starts(t) : m.start <= n.start
    BY <1>2, FirstStart
  <2>2. ~CloseOf(t, m).closed
    BY <1>2 DEF HasClosedBlock
  <2> HIDE DEF m
  <2>3. /\ m \in Marks /\ e \in Nat /\ e >= 1 /\ e <= Len(t) /\ Len(t) \in Nat
        /\ m.start \in Nat /\ e = m.start + 1 /\ m.kind = "function_calls"
    BY <2>1, StartPlaces, TextPlaces, ItemStarts
  <2>4. \A p \in Nat : e < p => ~IsEnder(t, "function_calls", p)
    BY <2>2, <2>3, CloseFacts
  <2>5. e \in 0 .. Len(t)
    BY <2>3
  <2>6. u \in Text /\ Len(u) = Len(t) - e /\ \A i \in 1 .. Len(t) - e : u[i] = t[e + i]
    BY <2>5, FromPlaces
  <2> HIDE DEF e, u
  <2>7. CallsOf(m.kind, u) = HowMany(u, "call")
    BY <2>3 DEF CallsOf
  <2>8. CallsOf(m.kind, u) > 0 <=> \E i \in 1 .. Len(u) : u[i] = "call"
    BY <2>6, <2>7, CountPositive
  <2>9. ASSUME NEW i \in 1 .. Len(u), u[i] = "call" PROVE HasItem(t)
    <3>1. e + i \in Nat /\ e < e + i /\ e + i <= Len(t) /\ i \in 1 .. Len(t) - e
      BY <2>3, <2>6
    <3>2. t[e + i] = "call"
      BY <2>6, <2>9, <3>1
    <3> QED
      BY <2>1, <2>4, <3>1, <3>2, ItemBehindStart DEF e
  <2>10. ASSUME NEW j \in Nat, NEW i \in Nat, Item(t, j, i)
         PROVE  \E l \in 1 .. Len(u) : u[l] = "call"
    <3>1. PICK n \in Starts(t) : n.start = j /\ n.end < i
      BY <2>10, ItemStarts
    <3>2. m.start <= j /\ n.end = j + 1 /\ i <= Len(t) /\ t[i] = "call"
      BY <2>1, <2>10, <3>1, ItemStarts DEF Item
    <3> DEFINE a == m.start
    <3>3. a \in Nat /\ a <= j /\ e = a + 1 /\ j + 1 < i
      BY <2>3, <3>1, <3>2
    <3> HIDE DEF a
    <3>4. i - e \in 1 .. Len(t) - e /\ e + (i - e) = i
      <4>1. e < i
        BY ONLY <3>3, j \in Nat, i \in Nat
      <4> QED
        BY <2>3, <3>2, <4>1, Offset
    <3> QED
      BY <2>6, <3>2, <3>4
  <2>11. HasItem(t) <=> CallsOf(m.kind, u) > 0
    BY <2>8, <2>9, <2>10 DEF HasItem
  <2> QED
    BY <1>2, <2>11 DEF u, e, m
<1> QED
  BY <1>1, <1>2

(* A round that finds a closed block: its items, and those behind it.      *)
LEMMA ItemsOfRound ==
  ASSUME NEW t \in Text, ~Holds(t, Fence), HasClosedBlock(t)
  PROVE  /\ ~Holds(FirstBlock(t).behind, Fence)
         /\ HasItem(t) <=> FirstBlock(t).calls > 0 \/ HasItem(FirstBlock(t).behind)
<1> DEFINE m == FirstOf(Starts(t))
           e == m.end
<1>1. /\ m \in Starts(t) /\ CloseOf(t, m).closed
      /\ \A n \in Starts(t) : m.start <= n.start
  BY FirstStart DEF HasClosedBlock
<1>2. /\ FirstBlock(t).behind = From(t, CloseOf(t, m).after)
      /\ FirstBlock(t).calls = CallsOf(m.kind, CloseOf(t, m).body)
  BY DEF FirstBlock
<1> HIDE DEF m
<1>3. /\ m \in Marks /\ e \in Nat /\ e >= 1 /\ e <= Len(t) /\ Len(t) \in Nat
      /\ m.start \in Nat /\ e = m.start + 1 /\ m.kind = "function_calls"
  BY <1>1, StartPlaces, TextPlaces, ItemStarts
<1>4. PICK p \in Nat : ClosesAt(t, m, p)
  BY <1>1, <1>3, CloseFacts
<1>5. /\ CloseOf(t, m).after = p + 2
      /\ CloseOf(t, m).body = SubSeq(t, e + 1, p - 1)
  <2>1. CloseOf(t, m) = ClosedAt(t, m, p)
    BY <1>3, <1>4, CloseFacts
  <2>2. Behind(m, p) = p + 2 /\ BodyEnd(t, m, p) = p - 1
    BY <1>3 DEF Behind, BodyEnd
  <2> QED
    BY <2>1, <2>2, ClosedAtFields
<1>6. /\ e < p /\ IsEnder(t, "function_calls", p)
      /\ \A q \in (e + 1) .. (p - 1) : ~IsEnder(t, "function_calls", q)
  BY <1>3, <1>4 DEF ClosesAt
<1>7. p + 1 <= Len(t) /\ t[p] = "[/f" /\ t[p + 1] = "/f]"
  BY <1>6 DEF IsEnder
<1> DEFINE k == p + 1
           u == From(t, k + 1)
           body == SubSeq(t, e + 1, p - 1)
<1>8. k \in 0 .. Len(t) /\ k \in Nat
  BY <1>3, <1>7
<1>9. /\ u \in Text /\ Len(u) = Len(t) - k /\ \A i \in 1 .. Len(t) - k : u[i] = t[k + i]
      /\ Window(u, t, k) /\ k + Len(u) = Len(t) /\ Len(u) \in Nat
  <2> HIDE DEF k
  <2> QED
    BY <1>8, FromPlaces, FromWindow, TextPlaces
<1>10. FirstBlock(t).behind = u
  <2>1. k + 1 = p + 2
    OBVIOUS
  <2> HIDE DEF k
  <2> QED
    BY <1>2, <1>5, <2>1
<1>11. /\ body \in Text /\ Len(body) = (p - 1) - e
       /\ \A i \in 1 .. (p - 1) - e : body[i] = t[e + i]
  <2>1. e + 1 \in 1 .. Len(t) + 1 /\ p - 1 \in Int /\ (e + 1) - 1 <= p - 1 /\ p - 1 <= Len(t)
    BY <1>3, <1>6, <1>7
  <2>2. (p - 1) - (e + 1) + 1 = (p - 1) - e
    BY <1>3
  <2> HIDE DEF e
  <2>3. /\ body \in Text /\ Len(body) = (p - 1) - (e + 1) + 1
        /\ \A i \in 1 .. (p - 1) - (e + 1) + 1 : body[i] = t[(e + 1) + i - 1]
    BY <2>1, Piece
  <2>4. \A i \in 1 .. (p - 1) - e : (e + 1) + i - 1 = e + i
    BY <1>3
  <2> HIDE DEF body
  <2> QED
    BY <2>2, <2>3, <2>4
<1>12. FirstBlock(t).calls > 0 <=> \E i \in 1 .. Len(body) : body[i] = "call"
  <2>1. FirstBlock(t).calls = HowMany(body, "call")
    BY <1>2, <1>3, <1>5 DEF CallsOf
  <2> HIDE DEF body
  <2> QED
    BY <1>11, <2>1, CountPositive
<1> HIDE DEF e, u, body
<1>13. ~Holds(u, Fence)
  <2>1. \A i \in 1 .. Len(t) : t[i] # Fence
    BY TokensStay
  <2>2. ASSUME NEW i \in 1 .. Len(u) PROVE u[i] # Fence
    <3>1. i \in 1 .. Len(t) - k /\ k + i \in 1 .. Len(t)
      BY <1>3, <1>8, <1>9
    <3> QED
      BY <1>9, <2>1, <3>1
  <2> QED
    BY <1>9, <2>2, TokensStay
<1>14. ASSUME NEW i \in 1 .. Len(body), body[i] = "call" PROVE HasItem(t)
  <2>1. e + i \in Nat /\ e < e + i /\ e + i <= Len(t) /\ i \in 1 .. (p - 1) - e /\ e + i < p
    BY <1>3, <1>7, <1>11
  <2>2. t[e + i] = "call"
    BY <1>11, <1>14, <2>1
  <2>3. ASSUME NEW q \in Nat, e < q, q <= e + i PROVE ~IsEnder(t, "function_calls", q)
    <3>1. q \in (e + 1) .. (p - 1)
      BY <1>3, <2>1, <2>3
    <3> QED
      BY <1>6, <3>1
  <2> DEFINE l == e + i
  <2>4. /\ l \in Nat /\ e < l /\ l <= Len(t) /\ t[l] = "call"
        /\ \A q \in Nat : e < q /\ q <= l => ~IsEnder(t, "function_calls", q)
    BY <2>1, <2>2, <2>3
  <2> HIDE DEF l
  <2> QED
    BY <1>1, <2>4, ItemBehindStart DEF e
<1> HIDE DEF k
<1>15. ASSUME NEW j \in Nat, NEW i \in Nat, 1 <= j, j <= i, i <= Len(u)
       PROVE  Item(u, j, i) <=> Item(t, k + j, k + i)
  <2>1. /\ 1 <= k + j /\ k + j <= k + i /\ k + i <= Len(t) /\ i \in 1 .. Len(t) - k
        /\ k + j \in Nat /\ k + i \in Nat /\ (k + j) + 1 = k + (j + 1) /\ j + 1 \in Nat
    BY <1>3, <1>8, <1>9, <1>15
  <2>2. u[i] = t[k + i]
    BY <1>9, <2>1
  <2>3. IsStart(u, "function_calls", j, j + 1) <=> IsStart(t, "function_calls", k + j, (k + j) + 1)
    <3>1. CASE j + 1 <= Len(u)
      <4>1. "function_calls" \in Kinds /\ j >= 1
        BY <1>15 DEF Kinds
      <4> QED
        <5> DEFINE f == "function_calls"
                   q == j + 1
        <5>1. f \in Kinds /\ j >= 1 /\ q \in Nat /\ q <= Len(u)
          BY <2>1, <3>1, <4>1
        <5> HIDE DEF f, q
        <5>2. IsStart(u, f, j, q) <=> IsStart(t, f, k + j, k + q)
          BY <1>8, <1>9, <5>1, WindowStarts
        <5> QED
          BY <2>1, <5>2 DEF f, q
    <3>2. CASE ~(j + 1 <= Len(u))
      <4>1. ~((k + j) + 1 <= Len(t))
        BY <1>3, <1>8, <1>9, <3>2
      <4> QED
        BY <3>2, <4>1 DEF IsStart
    <3> QED
      BY <3>1, <3>2
  <2>4. \A q \in Nat : q >= 1 => (IsEnder(u, "function_calls", q)
                                    <=> IsEnder(t, "function_calls", k + q))
    <3>1. "function_calls" \in Kinds
      BY DEF Kinds
    <3> QED
      BY <1>8, <1>9, <3>1, WindowEnds
  <2>5. (\A q \in j .. i : ~IsEnder(u, "function_calls", q))
          <=> \A q \in k + j .. k + i : ~IsEnder(t, "function_calls", q)
    <3>1. ASSUME \A q \in j .. i : ~IsEnder(u, "function_calls", q), NEW q \in k + j .. k + i
          PROVE  ~IsEnder(t, "function_calls", q)
      <4>1. q - k \in j .. i /\ q - k \in Nat /\ q - k >= 1 /\ k + (q - k) = q
        BY <1>8, <1>15
      <4> QED
        BY <2>4, <3>1, <4>1
    <3>2. ASSUME \A q \in k + j .. k + i : ~IsEnder(t, "function_calls", q), NEW q \in j .. i
          PROVE  ~IsEnder(u, "function_calls", q)
      <4>1. k + q \in k + j .. k + i /\ q \in Nat /\ q >= 1
        BY <1>8, <1>15
      <4> QED
        BY <2>4, <3>2, <4>1
    <3> QED
      BY <3>1, <3>2
  <2> QED
    BY <1>15, <2>1, <2>2, <2>3, <2>5 DEF Item
<1>16. ASSUME HasItem(u) PROVE HasItem(t)
  <2>1. PICK j \in Nat, i \in Nat : Item(u, j, i)
    BY <1>16 DEF HasItem
  <2>2. 1 <= j /\ j <= i /\ i <= Len(u)
    BY <2>1 DEF Item
  <2>3. Item(t, k + j, k + i) /\ k + j \in Nat /\ k + i \in Nat
    BY <1>8, <1>15, <2>1, <2>2
  <2> QED
    BY <2>3 DEF HasItem
<1>17. ASSUME NEW j \in Nat, NEW i \in Nat, Item(t, j, i)
       PROVE  HasItem(u) \/ \E l \in 1 .. Len(body) : body[l] = "call"
  <2>1. PICK n \in Starts(t) : n.start = j /\ n.end < i
    BY <1>17, ItemStarts
  <2>2. /\ m.start <= j /\ n.end = j + 1 /\ 1 <= j /\ j <= i /\ i <= Len(t) /\ t[i] = "call"
        /\ t[j] = "[f" /\ \A q \in j .. i : ~IsEnder(t, "function_calls", q)
    BY <1>1, <1>17, <2>1, ItemStarts DEF Item
  <2> DEFINE a == m.start
  <2>3. a \in Nat /\ a <= j /\ e = a + 1 /\ j + 1 < i
    BY <1>3, <2>1, <2>2 DEF e
  <2> HIDE DEF a
  <2>4. CASE i < p
    <3>1. i - e \in 1 .. (p - 1) - e /\ e + (i - e) = i
      <4>1. e < i
        BY ONLY <2>3, j \in Nat, i \in Nat
      <4>2. i <= p - 1 /\ p - 1 \in Nat
        BY <2>4, <1>6, <1>3
      <4> QED
        BY <1>3, <4>1, <4>2, Offset
    <3> QED
      BY <1>11, <2>2, <3>1
  <2>5. CASE ~(i < p)
    <3>1. ~(p \in j .. i)
      BY <1>6, <2>2
    <3>2. p < j
      BY <2>5, <3>1
    <3>3. j # p + 1
      BY <1>7, <2>2
    <3>4. k < j
      BY <3>2, <3>3 DEF k
    <3>5. /\ j - k \in Nat /\ i - k \in Nat /\ 1 <= j - k /\ j - k <= i - k
          /\ i - k <= Len(u) /\ k + (j - k) = j /\ k + (i - k) = i
      BY <1>3, <1>8, <1>9, <2>2, <3>4
    <3> DEFINE b == j - k
               c == i - k
    <3>6. /\ b \in Nat /\ c \in Nat /\ 1 <= b /\ b <= c /\ c <= Len(u)
          /\ k + b = j /\ k + c = i
      BY <3>5
    <3> HIDE DEF b, c
    <3>7. Item(u, b, c)
      BY <1>15, <1>17, <3>6
    <3> QED
      BY <3>6, <3>7 DEF HasItem
  <2> QED
    BY <2>4, <2>5
<1> QED
  BY <1>10, <1>12, <1>13, <1>14, <1>16, <1>17 DEF HasItem

(* All rounds: what the stream finds in the blocks of a text without a     *)
(* fence are the items the parser of complete texts finds.                 *)
LEMMA ItemsFound ==
  \A t \in Text : ~Holds(t, Fence) => (StreamHas(t) <=> HasItem(t))
<1> DEFINE Good == {t \in Text : ~Holds(t, Fence) => (StreamHas(t) <=> HasItem(t))}
<1>1. ASSUME NEW t \in Text, \A u \in Text : Len(u) < Len(t) => u \in Good
      PROVE  t \in Good
  <2> SUFFICES ASSUME ~Holds(t, Fence) PROVE StreamHas(t) <=> HasItem(t)
    OBVIOUS
  <2>1. CASE ~HasClosedBlock(t)
    BY <2>1, StreamRound, ItemsOfOpenBlock
  <2>2. CASE HasClosedBlock(t)
    <3> DEFINE b == FirstBlock(t).behind
    <3>1. b \in Text /\ Len(b) < Len(t)
      BY <2>2, RoundFacts
    <3>2. ~Holds(b, Fence) /\ (HasItem(t) <=> FirstBlock(t).calls > 0 \/ HasItem(b))
      BY <2>2, ItemsOfRound
    <3>3. StreamHas(b) <=> HasItem(b)
      BY <1>1, <3>1, <3>2
    <3>4. StreamHas(t) <=> FirstBlock(t).calls > 0 \/ StreamHas(b)
      BY <2>2, StreamRound
    <3> QED
      BY <3>2, <3>3, <3>4
  <2> QED
    BY <2>1, <2>2
<1> HIDE DEF Good
<1>2. \A t \in Text : t \in Good
  BY <1>1, TextInduction
<1> QED
  BY <1>2 DEF Good

-----------------------------------------------------------------------------
(***************************************************************************)
(* The parser of complete texts: tool_code blocks.                         *)
(***************************************************************************)
CodeStarts(t) == {m \in Starts(t) : m.kind = "tool_code"}
CodeBlock(t) == FindFenceClose(t, FirstOf(CodeStarts(t)).end + 1)
CodeEnds(t) == CodeStarts(t) = {} \/ ~CodeBlock(t).closed

(* The first of some of a text's start markers.                            *)
LEMMA FirstOfSome ==
  ASSUME NEW t \in Text, NEW A, A \subseteq Starts(t), A # {}
  PROVE  FirstOf(A) \in A
<1> DEFINE P == {m.start : m \in A}
<1>1. P \subseteq Nat /\ P # {}
  BY StartPlaces
<1>2. PICK n \in P : \A i \in P : n <= i
  <2> HIDE DEF P
  <2> QED
    BY <1>1, LeastNumber
<1>3. PICK m \in A : m.start = n
  BY <1>2
<1>4. \A i \in A : m.start <= i.start
  BY <1>2, <1>3
<1> QED
  BY <1>4 DEF FirstOf

(* A closed tool_code block leaves a shorter text.                         *)
LEMMA CodeRoundFacts ==
  ASSUME NEW t \in Text, ~CodeEnds(t)
  PROVE  /\ PayloadCalls(CodeBlock(t).body) \in Nat
         /\ From(t, CodeBlock(t).after) \in Text
         /\ Len(From(t, CodeBlock(t).after)) < Len(t)
<1> DEFINE m == FirstOf(CodeStarts(t))
<1>1. m \in CodeStarts(t)
  BY FirstOfSome DEF CodeEnds, CodeStarts
<1>2. m \in Starts(t) /\ m.kind = "tool_code"
  BY <1>1 DEF CodeStarts
<1>3. CodeBlock(t) = CloseOf(t, m) /\ CodeBlock(t).closed
  BY <1>2 DEF CodeBlock, CloseOf, CodeEnds
<1> HIDE DEF m
<1>4. PICK k \in m.end + 1 .. Len(t) : CloseOf(t, m).after = k + 1
  BY <1>2, <1>3, ClosedPlaces
<1>5. m.end \in Nat /\ Len(t) \in Nat
  BY <1>2, StartPlaces, TextPlaces
<1>6. k \in 0 .. Len(t) /\ k > 0
  BY <1>4, <1>5
<1>7. From(t, k + 1) \in Text /\ Len(From(t, k + 1)) = Len(t) - k
  BY <1>6, FromPlaces
<1>8. Len(t) - k < Len(t)
  BY <1>5, <1>6
<1>9. PayloadCalls(CodeBlock(t).body) \in Nat
  BY DEF PayloadCalls
<1> QED
  BY <1>3, <1>4, <1>7, <1>8, <1>9

(* The recursion of CodeCalls is well founded.                             *)
LEMMA CodeCallsEquation ==
  /\ CodeCalls \in [Text -> Nat]
  /\ \A t \in Text :
       CodeCalls[t] = IF CodeEnds(t) THEN 0
                      ELSE PayloadCalls(CodeBlock(t).body)
                             + CodeCalls[From(t, CodeBlock(t).after)]
<1> DEFINE stop == {x \in Text : CodeEnds(x)}
           size == [x \in Text |-> Len(x)]
           next == [x \in Text |-> IF CodeEnds(x) THEN x ELSE From(x, CodeBlock(x).after)]
           base == [x \in Text |-> 0]
           comb == [p \in Text \X Nat |->
                      IF CodeEnds(p[1]) THEN p[2]
                      ELSE PayloadCalls(CodeBlock(p[1]).body) + p[2]]
           Round(f) == [x \in Text |->
                          IF CodeEnds(x) THEN 0
                          ELSE PayloadCalls(CodeBlock(x).body)
                                 + f[From(x, CodeBlock(x).after)]]
<1>1. size \in [Text -> Nat]
  BY TextPlaces
<1>2. next \in [Text -> Text]
  BY CodeRoundFacts
<1>3. base \in [Text -> Nat]
  OBVIOUS
<1>4. comb \in [Text \X Nat -> Nat]
  BY CodeRoundFacts
<1>5. \A x \in Text \ stop : size[next[x]] < size[x]
  BY CodeRoundFacts
<1>6. Recursive(Text, Nat, stop, size, next, base, comb)
  <2>1. stop \in SUBSET Text
    OBVIOUS
  <2> HIDE DEF stop, size, next, base, comb
  <2> QED
    BY <1>1, <1>2, <1>3, <1>4, <1>5, <2>1 DEF Recursive
<1>7. PICK f \in [Text -> Nat] : f = Rounds(Text, stop, next, base, comb, f)
  <2> HIDE DEF stop, size, next, base, comb
  <2> QED
    BY <1>6, RecursionExists, SMT
<1>8. f = Round(f)
  <2> DEFINE g == Round(f)
  <2>1. ASSUME NEW x \in Text PROVE f[x] = g[x]
    <3>1. f[x] = IF x \in stop THEN base[x] ELSE comb[<<x, f[next[x]]>>]
      <4> HIDE DEF stop, next, base, comb
      <4> QED
        BY <1>7 DEF Rounds
    <3>2. CASE CodeEnds(x)
      BY <3>1, <3>2
    <3>3. CASE ~CodeEnds(x)
      <4>1. From(x, CodeBlock(x).after) \in Text /\ next[x] = From(x, CodeBlock(x).after)
        BY <3>3, CodeRoundFacts
      <4>2. f[next[x]] \in Nat
        BY <4>1
      <4>3. comb[<<x, f[next[x]]>>] = PayloadCalls(CodeBlock(x).body) + f[next[x]]
        <5> DEFINE v == f[next[x]]
        <5>1. v \in Nat
          BY <4>2
        <5> HIDE DEF v
        <5>2. comb[<<x, v>>] = PayloadCalls(CodeBlock(x).body) + v
          BY <3>3, <5>1
        <5> QED
          BY <5>2 DEF v
      <4> QED
        BY <3>1, <3>3, <4>1, <4>3
    <3> QED
      BY <3>2, <3>3
  <2>2. f = [x \in Text |-> f[x]] /\ g = [x \in Text |-> g[x]]
    OBVIOUS
  <2> HIDE DEF g
  <2>3. f = g
    BY <2>1, <2>2
  <2> QED
    BY <2>3 DEF g
<1>9. CodeCalls = CHOOSE h : h = Round(h)
  BY DEF CodeCalls, CodeEnds, CodeBlock, CodeStarts
<1>10. CodeCalls = Round(CodeCalls)
  <2> HIDE DEF Round
  <2> QED
    BY <1>8, <1>9
<1>11. ASSUME NEW t \in Text
       PROVE  CodeCalls[t] = IF CodeEnds(t) THEN 0
                             ELSE PayloadCalls(CodeBlock(t).body)
                                    + CodeCalls[From(t, CodeBlock(t).after)]
  <2> DEFINE B == CodeCalls
  <2>1. B = Round(B)
    BY <1>10
  <2> HIDE DEF B
  <2>2. B[t] = IF CodeEnds(t) THEN 0
               ELSE PayloadCalls(CodeBlock(t).body) + B[From(t, CodeBlock(t).after)]
    BY <2>1
  <2> QED
    BY <2>2 DEF B
<1>12. CodeCalls \in [Text -> Nat]
  <2> DEFINE Good == {t \in Text : CodeCalls[t] \in Nat}
  <2>1. ASSUME NEW t \in Text, \A u \in Text : Len(u) < Len(t) => u \in Good
        PROVE  t \in Good
    <3>1. CASE CodeEnds(t)
      BY <1>11, <3>1
    <3>2. CASE ~CodeEnds(t)
      <4> DEFINE u == From(t, CodeBlock(t).after)
                 n == PayloadCalls(CodeBlock(t).body)
      <4>1. n \in Nat /\ u \in Text /\ Len(u) < Len(t)
        BY <3>2, CodeRoundFacts
      <4>2. CodeCalls[t] = n + CodeCalls[u]
        BY <1>11, <3>2
      <4> HIDE DEF u, n
      <4>3. CodeCalls[u] \in Nat
        BY <2>1, <4>1
      <4> QED
        BY <4>1, <4>2, <4>3
    <3> QED
      BY <3>1, <3>2
  <2> HIDE DEF Good
  <2>2. \A t \in Text : t \in Good
    BY <2>1, TextInduction
  <2>3. \A t \in Text : CodeCalls[t] \in Nat
    BY <2>2 DEF Good
  <2>4. CodeCalls = [t \in Text |-> CodeCalls[t]]
    <3> DEFINE B == CodeCalls
               R == Round(B)
    <3>1. B = R
      BY <1>10
    <3>2. R = [t \in Text |-> R[t]]
      OBVIOUS
    <3> HIDE DEF B, R
    <3>3. B = [t \in Text |-> B[t]]
      BY <3>1, <3>2
    <3> QED
      BY <3>3 DEF B
  <2> QED
    BY <2>3, <2>4
<1> QED
  BY <1>11, <1>12

(* Texts that use no other form than tool_code blocks.                     *)
OnlyCode(t) == /\ ~Holds(t, "[f") /\ ~Holds(t, "[/f") /\ ~Holds(t, "tool_result")

(* A block that the text breaks off, with an object that the stream takes  *)
(* for a call; and one whose object is complete.                           *)
Broken(t) == \E m \in Starts(t) :
               ~CloseOf(t, m).closed /\ CallsOf("tool_code", From(t, m.end + 1)) > 0

CutOff(t) == \E m \in Starts(t) :
               ~CloseOf(t, m).closed /\ PayloadFirst(From(t, m.end + 1))

(* In such a text every block is a tool_code block, and the parser of      *)
(* complete texts sees the same blocks.                                    *)
LEMMA OnlyCodeStarts ==
  ASSUME NEW t \in Text, OnlyCode(t)
  PROVE  /\ \A m \in Starts(t) : m.kind = "tool_code"
         /\ NoResult(t) /\ CodeStarts(t) = Starts(t)
         /\ CodeEnds(t) <=> ~HasClosedBlock(t)
         /\ ~CodeEnds(t) => CodeBlock(t) = CloseOf(t, FirstOf(Starts(t)))
         /\ CutOffCalls(t) \in Nat /\ (CutOffCalls(t) > 0 <=> CutOff(t))
<1>1. /\ \A i \in 1 .. Len(t) : t[i] # "[f" /\ t[i] # "tool_result"
      /\ Len(t) \in Nat
  BY TokensStay, TextPlaces DEF OnlyCode
<1>2. ASSUME NEW m \in Starts(t) PROVE m.kind = "tool_code"
  <2>1. /\ m.start \in Nat /\ m.end \in Nat /\ m.kind \in Kinds
        /\ IsStart(t, m.kind, m.start, m.end)
    BY StartPlaces, StartMembers
  <2> DEFINE i == m.start
             j == m.end
             kind == m.kind
  <2>2. /\ i \in Nat /\ j \in Nat /\ kind \in Kinds /\ IsStart(t, kind, i, j)
    BY <2>1
  <2> HIDE DEF i, j, kind
  <2>3. kind # "function_calls"
    <3> SUFFICES ASSUME kind = "function_calls" PROVE FALSE
      OBVIOUS
    <3>1. 1 <= i /\ i < j /\ j <= Len(t) /\ t[i] = "[f"
      BY <2>2 DEF IsStart, Words
    <3>2. i \in 1 .. Len(t)
      BY <1>1, <2>2, <3>1
    <3> QED
      BY <1>1, <3>1, <3>2
  <2>4. kind # "tool_result"
    <3> SUFFICES ASSUME kind = "tool_result" PROVE FALSE
      OBVIOUS
    <3>1. 1 <= i /\ i + 2 <= j /\ j <= Len(t) /\ t[i + 1] = "tool_result"
      BY <2>2 DEF IsStart, Words
    <3>2. i + 1 \in 1 .. Len(t)
      BY <1>1, <2>2, <3>1
    <3> QED
      BY <1>1, <3>1, <3>2
  <2>5. kind = "tool_code"
    BY <2>2, <2>3, <2>4 DEF Kinds
  <2> QED
    BY <2>5 DEF kind
<1>3. NoResult(t) /\ CodeStarts(t) = Starts(t)
  BY <1>2 DEF NoResult, CodeStarts
<1>4. \A m \in Starts(t) : CloseOf(t, m) = FindFenceClose(t, m.end + 1)
  BY <1>2 DEF CloseOf
<1>5. Starts(t) # {} => /\ FirstOf(Starts(t)) \in Starts(t)
                        /\ CodeBlock(t) = CloseOf(t, FirstOf(Starts(t)))
  BY <1>3, <1>4, FirstStart DEF CodeBlock
<1>6. CodeEnds(t) <=> ~HasClosedBlock(t)
  BY <1>3, <1>5 DEF CodeEnds, HasClosedBlock
<1>7. CutOffCalls(t) = IF CutOff(t) THEN 1 ELSE 0
  <2> DEFINE cut == {m \in Starts(t) : /\ m.kind = "tool_code"
                                       /\ ~FindFenceClose(t, m.end + 1).closed}
  <2>1. CutOffCalls(t) = IF \E m \in cut : PayloadFirst(From(t, m.end + 1)) THEN 1 ELSE 0
    BY DEF CutOffCalls
  <2>2. cut = {m \in Starts(t) : ~CloseOf(t, m).closed}
    BY <1>2, <1>4
  <2> HIDE DEF cut
  <2>3. (\E m \in cut : PayloadFirst(From(t, m.end + 1))) <=> CutOff(t)
    BY <2>2 DEF CutOff
  <2> QED
    BY <2>1, <2>3
<1>8. CutOffCalls(t) \in Nat /\ (CutOffCalls(t) > 0 <=> CutOff(t))
  BY <1>7
<1> QED
  BY <1>2, <1>3, <1>5, <1>6, <1>8 DEF CodeEnds

(* The rounds of both parsers over such a text are the same.               *)
LEMMA CodeRound ==
  ASSUME NEW t \in Text, OnlyCode(t)
  PROVE  /\ ~HasClosedBlock(t) => CodeCalls[t] = 0
         /\ HasClosedBlock(t) =>
              CodeCalls[t] = FirstBlock(t).calls + CodeCalls[FirstBlock(t).behind]
<1>1. CASE ~HasClosedBlock(t)
  BY <1>1, OnlyCodeStarts, CodeCallsEquation
<1>2. CASE HasClosedBlock(t)
  <2>1. ~CodeEnds(t) /\ CodeBlock(t) = CloseOf(t, FirstOf(Starts(t)))
    BY <1>2, OnlyCodeStarts
  <2>2. FirstOf(Starts(t)).kind = "tool_code"
    BY <1>2, FirstStart, OnlyCodeStarts DEF HasClosedBlock
  <2>3. CodeCalls[t] = PayloadCalls(CodeBlock(t).body) + CodeCalls[From(t, CodeBlock(t).after)]
    BY <2>1, CodeCallsEquation
  <2>4. /\ FirstBlock(t).calls = CallsOf("tool_code", CodeBlock(t).body)
        /\ FirstBlock(t).behind = From(t, CodeBlock(t).after)
    BY <2>1, <2>2 DEF FirstBlock
  <2>5. CallsOf("tool_code", CodeBlock(t).body) = PayloadCalls(CodeBlock(t).body)
    BY DEF CallsOf
  <2> QED
    BY <1>2, <2>3, <2>4, <2>5
<1> QED
  BY <1>1, <1>2

(* An end of a text holds no token that the text does not hold.            *)
LEMMA TokensOfEnd ==
  ASSUME NEW t \in Text, NEW k \in 0 .. Len(t), NEW token, Holds(From(t, k + 1), token)
  PROVE  Holds(t, token)
<1> DEFINE u == From(t, k + 1)
<1>1. /\ u \in Text /\ Len(u) = Len(t) - k /\ \A i \in 1 .. Len(t) - k : u[i] = t[k + i]
      /\ Len(t) \in Nat /\ k \in Nat
  BY FromPlaces, TextPlaces
<1>2. PICK i \in 1 .. Len(u) : u[i] = token
  BY <1>1, TokensStay
<1> HIDE DEF u
<1>3. i \in 1 .. Len(t) - k /\ k + i \in 1 .. Len(t)
  BY <1>1, <1>2
<1>4. t[k + i] = token
  BY <1>1, <1>2, <1>3
<1> QED
  BY <1>3, <1>4, TokensStay

(* The object of a body breaks off.                                        *)
OpenObject(t) == \E i \in DOMAIN t : ObjectAt(t, i, {"call"}) /\ ~Balanced(t, i)

(* A token that stands in a text has a first place there.                  *)
LEMMA FirstPlace ==
  ASSUME NEW t \in Text, NEW token, NEW i \in 1 .. Len(t), t[i] = token
  PROVE  \E l \in 1 .. i : t[l] = token /\ \A j \in 1 .. (l - 1) : t[j] # token
<1>1. Len(t) \in Nat
  BY TextPlaces
<1> DEFINE n == Len(t)
           P == {j \in 1 .. n : t[j] = token}
<1>2. P \subseteq Nat /\ P # {} /\ i \in P
  BY <1>1
<1>3. \A j \in 1 .. n : t[j] = token => j \in P
  OBVIOUS
<1>4. \A j \in P : j \in 1 .. n /\ t[j] = token
  OBVIOUS
<1> HIDE DEF P
<1>5. PICK l \in P : \A j \in P : l <= j
  BY <1>2, LeastNumber
<1>6. l \in 1 .. n /\ t[l] = token /\ l <= i /\ n \in Nat /\ i \in 1 .. n
  BY <1>1, <1>2, <1>4, <1>5
<1> HIDE DEF n
<1>7. l \in 1 .. i
  BY <1>6
<1>8. ASSUME NEW j \in 1 .. (l - 1) PROVE t[j] # token
  <2>1. j \in 1 .. n /\ ~(l <= j)
    BY <1>6
  <2> QED
    BY <1>3, <1>5, <2>1
<1> QED
  BY <1>6, <1>7, <1>8

(* The stream parses a body from its first bracket on; without other       *)
(* brackets that is the first object no item stands before.                *)
LEMMA FirstObject ==
  ASSUME NEW t \in Text, ~Holds(t, "[f"), ~Holds(t, "[/f"),
         NEW i \in DOMAIN t, ObjectAt(t, i, {"call"})
  PROVE  CallsOf("tool_code", t) > 0
<1>1. /\ DOMAIN t = 1 .. Len(t) /\ Len(t) \in Nat
      /\ \A j \in 1 .. Len(t) : t[j] # "[f" /\ t[j] # "[/f"
  BY TextPlaces, TokensStay
<1>2. i \in 1 .. Len(t) /\ t[i] = "{" /\ \A j \in 1 .. (i - 1) : t[j] # "call"
  BY <1>1 DEF ObjectAt
<1>3. PICK l \in 1 .. i : t[l] = "{" /\ \A j \in 1 .. (l - 1) : t[j] # "{"
  BY <1>2, FirstPlace
<1>4. l \in 1 .. Len(t) /\ \A j \in 1 .. (l - 1) : j \in 1 .. Len(t) /\ j \in 1 .. (i - 1)
  <2> DEFINE n == Len(t)
  <2>1. n \in Nat /\ i \in 1 .. n /\ l \in 1 .. i
    BY <1>1, <1>2
  <2> HIDE DEF n
  <2>2. l \in 1 .. n /\ \A j \in 1 .. (l - 1) : j \in 1 .. n /\ j \in 1 .. (i - 1)
    BY <2>1
  <2> QED
    BY <2>2 DEF n
<1>5. \A j \in 1 .. (l - 1) : t[j] \notin {"{", "call", "[f", "[/f"}
  BY <1>1, <1>2, <1>3, <1>4
<1>6. l \in DOMAIN t /\ ObjectAt(t, l, Brackets)
  BY <1>1, <1>3, <1>4, <1>5 DEF ObjectAt, Brackets
<1>7. PayloadCalls(t) = 1
  BY <1>6 DEF PayloadCalls
<1> DEFINE c == CallsOf("tool_code", t)
<1>8. c = PayloadCalls(t)
  BY DEF CallsOf
<1> HIDE DEF c
<1>9. c > 0
  BY <1>7, <1>8
<1> QED
  BY <1>9 DEF c

(* The salvage looks for the first balanced object that no item stands     *)
(* before: it finds what the stream finds, but not an object that breaks   *)
(* off.                                                                    *)
LEMMA PayloadsAgree ==
  ASSUME NEW t \in Text, ~Holds(t, "[f"), ~Holds(t, "[/f")
  PROVE  CallsOf("tool_code", t) > 0 <=> PayloadFirst(t) \/ OpenObject(t)
<1>1. ASSUME CallsOf("tool_code", t) > 0 PROVE PayloadFirst(t) \/ OpenObject(t)
  <2>1. CallsOf("tool_code", t) = PayloadCalls(t)
    BY DEF CallsOf
  <2>2. PICK i \in DOMAIN t : ObjectAt(t, i, Brackets)
    BY <1>1, <2>1 DEF PayloadCalls
  <2>3. ObjectAt(t, i, {"{", "call"}) /\ ObjectAt(t, i, {"call"})
    BY <2>2 DEF ObjectAt, Brackets
  <2>4. CASE Balanced(t, i)
    BY <2>3, <2>4 DEF PayloadFirst
  <2>5. CASE ~Balanced(t, i)
    BY <2>3, <2>5 DEF OpenObject
  <2> QED
    BY <2>4, <2>5
<1>2. ASSUME PayloadFirst(t) PROVE CallsOf("tool_code", t) > 0
  <2>1. PICK i \in DOMAIN t : ObjectAt(t, i, {"{", "call"})
    BY <1>2 DEF PayloadFirst
  <2>2. ObjectAt(t, i, {"call"})
    BY <2>1 DEF ObjectAt
  <2> QED
    BY <2>2, FirstObject
<1>3. ASSUME OpenObject(t) PROVE CallsOf("tool_code", t) > 0
  BY <1>3, FirstObject DEF OpenObject
<1> QED
  BY <1>1, <1>2, <1>3

(* The blocks that break off: behind their object, or inside it.           *)
LEMMA BrokenBlocks ==
  ASSUME NEW t \in Text, OnlyCode(t)
  PROVE  Broken(t) <=> CutOff(t) \/ BreaksOffInObject(t)
<1>1. ASSUME NEW m \in Starts(t)
      PROVE  LET u == From(t, m.end + 1)
             IN  /\ m.kind = "tool_code"
                 /\ CallsOf("tool_code", u) > 0 <=> PayloadFirst(u) \/ OpenObject(u)
  <2> DEFINE e == m.end
             u == From(t, e + 1)
  <2>1. m.kind = "tool_code"
    BY OnlyCodeStarts
  <2>2. e \in 0 .. Len(t)
    BY StartPlaces, TextPlaces
  <2> HIDE DEF e
  <2>3. u \in Text
    BY <2>2, FromPlaces
  <2>4. ~Holds(u, "[f") /\ ~Holds(u, "[/f")
    BY <2>2, TokensOfEnd DEF OnlyCode
  <2>5. CallsOf("tool_code", u) > 0 <=> PayloadFirst(u) \/ OpenObject(u)
    <3> HIDE DEF u
    <3> QED
      BY <2>3, <2>4, PayloadsAgree
  <2> QED
    BY <2>1, <2>5 DEF e
<1>2. BreaksOffInObject(t) <=>
        \E m \in Starts(t) : /\ m.kind = "tool_code" /\ ~CloseOf(t, m).closed
                             /\ OpenObject(From(t, m.end + 1))
  BY DEF BreaksOffInObject, OpenObject
<1> QED
  BY <1>1, <1>2 DEF Broken, CutOff

(* No round: as long as no block begins in another one, only the first can *)
(* be without an end.                                                      *)
LEMMA BrokenOpenBlock ==
  ASSUME NEW t \in Text, OnlyCode(t), BlocksApart(t), ~HasClosedBlock(t)
  PROVE  LET m == FirstOf(Starts(t))
         IN  Broken(t) <=> Starts(t) # {} /\ CallsOf(m.kind, From(t, m.end + 1)) > 0
<1> DEFINE m == FirstOf(Starts(t))
           u == From(t, m.end + 1)
<1>1. CASE Starts(t) = {}
  BY <1>1 DEF Broken
<1>2. CASE Starts(t) # {}
  <2>1. m \in Starts(t) /\ \A n \in Starts(t) : m.start <= n.start
    BY <1>2, FirstStart
  <2>2. ~CloseOf(t, m).closed
    BY <1>2 DEF HasClosedBlock
  <2> HIDE DEF m
  <2>3. m.kind = "tool_code" /\ m.end \in Nat /\ m.end <= Len(t) /\ m.start \in Nat
    BY <2>1, StartPlaces, OnlyCodeStarts
  <2>8. ASSUME NEW n \in Starts(t), ~CloseOf(t, n).closed PROVE n = m
    <3>1. ~(m.start < n.start)
      BY <2>1, <2>2 DEF BlocksApart
    <3>2. n.start \in Nat /\ m.start <= n.start
      BY <2>1, StartPlaces
    <3>3. m.start = n.start
      <4> DEFINE a == m.start
                 b == n.start
      <4>1. a \in Nat /\ b \in Nat /\ a <= b /\ ~(a < b)
        BY <2>3, <3>1, <3>2
      <4> HIDE DEF a, b
      <4>2. a = b
        BY <4>1
      <4> QED
        BY <4>2 DEF a, b
    <3> QED
      BY <2>1, <3>3, StartUnique
  <2>9. Broken(t) <=> CallsOf("tool_code", u) > 0
    BY <2>1, <2>2, <2>8 DEF Broken
  <2> QED
    BY <1>2, <2>3, <2>9 DEF u, m
<1> QED
  BY <1>1, <1>2

(* A round that finds a closed block: the other blocks stand behind it,    *)
(* and stay apart there.                                                   *)
LEMMA BrokenBehind ==
  ASSUME NEW t \in Text, OnlyCode(t), BlocksApart(t), HasClosedBlock(t)
  PROVE  /\ OnlyCode(FirstBlock(t).behind) /\ BlocksApart(FirstBlock(t).behind)
         /\ Broken(t) <=> Broken(FirstBlock(t).behind)
<1> DEFINE m == FirstOf(Starts(t))
<1>1. /\ m \in Starts(t) /\ CloseOf(t, m).closed
      /\ \A n \in Starts(t) : m.start <= n.start
      /\ FirstBlock(t).behind = From(t, CloseOf(t, m).after)
  BY FirstStart DEF HasClosedBlock, FirstBlock
<1> HIDE DEF m
<1>2. PICK k \in m.end + 1 .. Len(t) : CloseOf(t, m).after = k + 1
  BY <1>1, ClosedPlaces
<1>3. m.end \in Nat /\ m.start \in Nat /\ Len(t) \in Nat
  BY <1>1, StartPlaces, TextPlaces
<1>4. k \in 0 .. Len(t) /\ k \in Nat
  BY <1>2, <1>3
<1> DEFINE u == From(t, k + 1)
<1>5. u \in Text /\ Window(u, t, k) /\ k + Len(u) = Len(t) /\ Len(u) \in Nat
  BY <1>4, FromWindow, TextPlaces
<1>6. FirstBlock(t).behind = u
  BY <1>1, <1>2
<1>7. OnlyCode(u)
  BY <1>4, TokensOfEnd DEF OnlyCode
<1> HIDE DEF u
<1>8. ASSUME NEW l \in Starts(u)
      PROVE  /\ Shifted(l, k) \in Starts(t) /\ Shifted(l, k).start = k + l.start
             /\ Shifted(l, k).end = k + l.end /\ l.start \in Nat /\ l.end \in Nat
             /\ CloseOf(t, Shifted(l, k)).closed <=> CloseOf(u, l).closed
             /\ CloseOf(u, l).closed => CloseOf(t, Shifted(l, k)).after = k + CloseOf(u, l).after
             /\ From(u, l.end + 1) = From(t, Shifted(l, k).end + 1)
  <2>1. l \in Marks /\ l.start \in Nat /\ l.end \in Nat /\ l.end >= 1 /\ l.end <= Len(u)
    BY <1>5, StartPlaces
  <2>2. Shifted(l, k) \in Starts(t)
    BY <1>4, <1>5, ShiftedStarts
  <2>3. Shifted(l, k).start = k + l.start /\ Shifted(l, k).end = k + l.end
    BY <1>4, <2>1, ShiftedMark
  <2>4. /\ CloseOf(u, l).closed =>
             /\ CloseOf(t, Shifted(l, k)).closed
             /\ CloseOf(t, Shifted(l, k)).after = k + CloseOf(u, l).after
        /\ ~CloseOf(u, l).closed => ~CloseOf(t, Shifted(l, k)).closed
    BY <1>4, <1>5, <2>1, WindowClose
  <2> DEFINE e == l.end
  <2>5. e \in Nat /\ k + e <= Len(t)
    BY <1>4, <1>5, <2>1
  <2> HIDE DEF e
  <2>6. From(u, e + 1) = From(t, (k + e) + 1)
    BY <1>4, <2>5, FromFrom DEF u
  <2> QED
    BY <2>1, <2>2, <2>3, <2>4, <2>6 DEF e
<1>9. BlocksApart(u)
  <2> SUFFICES ASSUME NEW l \in Starts(u), NEW n \in Starts(u), l.start < n.start
               PROVE  CloseOf(u, l).closed /\ CloseOf(u, l).after <= n.start
    BY DEF BlocksApart
  <2> DEFINE a == l.start
             b == n.start
             c == CloseOf(u, l).after
  <2>1. /\ Shifted(l, k) \in Starts(t) /\ Shifted(l, k).start = k + a
        /\ CloseOf(t, Shifted(l, k)).closed <=> CloseOf(u, l).closed
        /\ CloseOf(u, l).closed => CloseOf(t, Shifted(l, k)).after = k + c
        /\ Shifted(n, k) \in Starts(t) /\ Shifted(n, k).start = k + b
        /\ a \in Nat /\ b \in Nat /\ a < b
    BY <1>8
  <2>2. k + a < k + b
    <3> HIDE DEF a, b
    <3> QED
      BY <1>4, <2>1
  <2>3. /\ CloseOf(t, Shifted(l, k)).closed
        /\ CloseOf(t, Shifted(l, k)).after <= Shifted(n, k).start
    BY <2>1, <2>2 DEF BlocksApart
  <2>4. CloseOf(u, l).closed /\ k + c <= k + b
    BY <2>1, <2>3
  <2>5. \E q \in Nat : c = q + 1
    <3>1. PICK q \in l.end + 1 .. Len(u) : CloseOf(u, l).after = q + 1
      BY <1>5, <2>4, ClosedPlaces
    <3>2. q \in Nat
      BY <1>5, <1>8, <3>1
    <3> QED
      BY <3>1, <3>2
  <2> HIDE DEF a, b, c
  <2>6. c <= b
    BY <1>4, <2>1, <2>4, <2>5
  <2> QED
    BY <2>4, <2>6 DEF b, c
<1>10. ASSUME Broken(u) PROVE Broken(t)
  <2>1. PICK l \in Starts(u) : ~CloseOf(u, l).closed /\ CallsOf("tool_code", From(u, l.end + 1)) > 0
    BY <1>10 DEF Broken
  <2> QED
    BY <1>8, <2>1 DEF Broken
<1>11. ASSUME Broken(t) PROVE Broken(u)
  <2>1. PICK n \in Starts(t) : ~CloseOf(t, n).closed /\ CallsOf("tool_code", From(t, n.end + 1)) > 0
    BY <1>11 DEF Broken
  <2>2. n # m
    BY <1>1, <2>1
  <2>3. /\ m.start <= n.start /\ m.start # n.start /\ n.start \in Nat /\ n.end \in Nat
        /\ n.end <= Len(t)
    BY <1>1, <2>2, StartUnique, StartPlaces
  <2>4. m.start < n.start
    <3> DEFINE a == m.start
               b == n.start
    <3>1. a \in Nat /\ b \in Nat /\ a <= b /\ a # b
      BY <1>3, <2>3
    <3> HIDE DEF a, b
    <3>2. a < b
      BY <3>1
    <3> QED
      BY <3>2 DEF a, b
  <2>5. k + 1 <= n.start
    BY <1>1, <1>2, <2>4 DEF BlocksApart
  <2>6. n.start > k /\ n.end <= k + Len(u)
    BY <1>4, <1>5, <2>3, <2>5
  <2>7. PICK l \in Starts(u) : n = Shifted(l, k)
    BY <1>4, <1>5, <2>6, ShiftedStarts
  <2>8. ~CloseOf(u, l).closed /\ CallsOf("tool_code", From(u, l.end + 1)) > 0
    BY <1>8, <2>1, <2>7
  <2> QED
    BY <2>8 DEF Broken
<1> QED
  BY <1>6, <1>7, <1>9, <1>10, <1>11

(* All rounds: what the stream finds in the blocks of such a text is what  *)
(* the parser of complete texts finds in its closed blocks, and what the   *)
(* stream takes from one that breaks off.                                  *)
LEMMA CodeFound ==
  \A t \in Text :
    OnlyCode(t) /\ BlocksApart(t) => (StreamHas(t) <=> CodeCalls[t] > 0 \/ Broken(t))
<1> DEFINE Good == {t \in Text : OnlyCode(t) /\ BlocksApart(t) =>
                                   (StreamHas(t) <=> CodeCalls[t] > 0 \/ Broken(t))}
<1>1. ASSUME NEW t \in Text, \A u \in Text : Len(u) < Len(t) => u \in Good
      PROVE  t \in Good
  <2> SUFFICES ASSUME OnlyCode(t), BlocksApart(t)
               PROVE  StreamHas(t) <=> CodeCalls[t] > 0 \/ Broken(t)
    OBVIOUS
  <2>1. CASE ~HasClosedBlock(t)
    <3>1. CodeCalls[t] = 0
      BY <2>1, CodeRound
    <3>2. ~(CodeCalls[t] > 0)
      BY <3>1
    <3> QED
      BY <2>1, <3>2, StreamRound, BrokenOpenBlock
  <2>2. CASE HasClosedBlock(t)
    <3> DEFINE b == FirstBlock(t).behind
               n == FirstBlock(t).calls
               l == CodeCalls[b]
    <3>1. b \in Text /\ Len(b) < Len(t) /\ n \in Nat
      BY <2>2, RoundFacts
    <3>2. OnlyCode(b) /\ BlocksApart(b) /\ (Broken(t) <=> Broken(b))
      BY <2>2, BrokenBehind
    <3>3. StreamHas(b) <=> l > 0 \/ Broken(b)
      BY <1>1, <3>1, <3>2
    <3>4. StreamHas(t) <=> n > 0 \/ StreamHas(b)
      BY <2>2, StreamRound
    <3>5. CodeCalls[t] = n + l
      BY <2>2, CodeRound
    <3>6. l \in Nat
      BY <3>1, CodeCallsEquation
    <3> HIDE DEF n, l, b
    <3>7. CodeCalls[t] > 0 <=> n > 0 \/ l > 0
      BY <3>1, <3>5, <3>6
    <3> QED
      BY <3>2, <3>3, <3>4, <3>7
  <2> QED
    BY <2>1, <2>2
<1> HIDE DEF Good
<1>2. \A t \in Text : t \in Good
  BY <1>1, TextInduction
<1> QED
  BY <1>2 DEF Good

(* However the text is cut, the stream ends with a tool call when the      *)
(* parser of complete texts finds one in the text's blocks, and otherwise  *)
(* only where a tool_code block breaks off inside its object, which the    *)
(* stream alone repairs; of tool_code blocks as long as they stay apart    *)
(* and no cut lies in the blanks of a marker (parser.go:653-674, 732-802,  *)
(* 141-150 against 352-440, 501-535).                                      *)
THEOREM CallsAreFound == Spec => []CallsFound
<1>1. Typed /\ Settled => CallsFound
  <2> SUFFICES ASSUME Typed, Settled, flushed
               PROVE  /\ ~Holds(fed, Fence) => (ToolCalls > 0 <=> ItemCalls(fed) > 0)
                      /\ {"[f", "[/f", "tool_result"} \cap ToSet(fed) = {} /\ BlocksApart(fed)
                           /\ ~cutInBlanks
                             => (ToolCalls > 0 <=> \/ CodeCalls[fed] + CutOffCalls(fed) > 0
                                                   \/ BreaksOffInObject(fed))
    BY DEF CallsFound
  <2>1. fed \in Text
    BY DEF Typed
  <2>2. ASSUME ~Holds(fed, Fence) PROVE ToolCalls > 0 <=> ItemCalls(fed) > 0
    <3>1. NoResult(fed)
      <4>1. \A m \in Starts(fed) : m.kind = "function_calls"
        BY <2>1, <2>2, ItemStarts
      <4> QED
        BY <4>1 DEF NoResult
    <3>2. ToolCalls > 0 <=> StreamHas(fed)
      BY <2>2, <3>1 DEF Settled
    <3> QED
      BY <2>1, <2>2, <3>2, ItemsFound, ItemsCounted
  <2>3. ASSUME {"[f", "[/f", "tool_result"} \cap ToSet(fed) = {}, BlocksApart(fed), ~cutInBlanks
        PROVE  ToolCalls > 0 <=> \/ CodeCalls[fed] + CutOffCalls(fed) > 0
                                 \/ BreaksOffInObject(fed)
    <3>1. OnlyCode(fed)
      BY <2>3 DEF OnlyCode, Holds
    <3>2. NoResult(fed) /\ CutOffCalls(fed) \in Nat /\ (CutOffCalls(fed) > 0 <=> CutOff(fed))
      BY <2>1, <3>1, OnlyCodeStarts
    <3>3. ToolCalls > 0 <=> StreamHas(fed)
      BY <2>3, <3>2 DEF Settled
    <3>4. StreamHas(fed) <=> CodeCalls[fed] > 0 \/ CutOff(fed) \/ BreaksOffInObject(fed)
      BY <2>1, <2>3, <3>1, CodeFound, BrokenBlocks
    <3>5. CodeCalls[fed] \in Nat
      BY <2>1, CodeCallsEquation
    <3> DEFINE n == CodeCalls[fed]
               c == CutOffCalls(fed)
    <3>6. n \in Nat /\ c \in Nat
      BY <3>2, <3>5
    <3>7. ToolCalls > 0 <=> n > 0 \/ c > 0 \/ BreaksOffInObject(fed)
      BY <3>2, <3>3, <3>4
    <3> HIDE DEF n, c
    <3>8. n + c > 0 <=> n > 0 \/ c > 0
      BY <3>6
    <3>9. ToolCalls > 0 <=> n + c > 0 \/ BreaksOffInObject(fed)
      BY <3>7, <3>8
    <3> QED
      BY <3>9 DEF n, c
  <2> QED
    BY <2>2, <2>3
<1> QED
  BY <1>1, InitTyped, NextTyped, InitSeamless, NextSeamless, InitSettled, NextSettled, PTL
     DEF Spec
=============================================================================
