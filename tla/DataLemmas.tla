----------------------------- MODULE DataLemmas -----------------------------
(***************************************************************************)
(* Facts about numbers and sequences that several proofs rest on. Induction *)
(* is over a set of numbers, so that a proof can cite it for what it has    *)
(* to show.                                                                *)
(***************************************************************************)
EXTENDS SequencesExt, Integers, TLAPS, FiniteSetTheorems, SequenceTheorems

\* A set of numbers with an element has a least one.
LEMMA LeastNumber ==
    ASSUME NEW T \in SUBSET Nat, T # {}
    PROVE  \E n \in T : \A m \in T : n <= m
<1> DEFINE R == OpToRel(<, Nat)
<1>1. R = {ss \in Nat \X Nat : ss[1] < ss[2]}
  BY Zenon DEF OpToRel
<1>2. IsWellFoundedOn(R, Nat)
  BY NatLessThanWellFounded
<1> HIDE DEF R
<1>3. \A x, y \in Nat : <<y, x>> \in R <=> y < x
  BY <1>1
<1>4. PICK x \in T : \A y \in T : ~(<<y, x>> \in R)
  BY <1>2, WFMin
<1>5. \A y \in T : ~(y < x)
  BY <1>3, <1>4
<1> QED
  BY <1>5

\* A set that has 0 and the successors of its elements has every number.
LEMMA Induction ==
    ASSUME NEW T, 0 \in T, \A n \in Nat : n \in T => n + 1 \in T
    PROVE  Nat \subseteq T
<1> SUFFICES ASSUME Nat \ T # {} PROVE FALSE
  OBVIOUS
<1>1. PICK n \in Nat \ T : \A m \in Nat \ T : n <= m
  BY LeastNumber
<1>2. n # 0 /\ n - 1 \in Nat
  BY <1>1
<1>3. n - 1 \in T
  BY <1>1, <1>2
<1> QED
  BY <1>1, <1>2, <1>3

\* Reversing.
LEMMA ReverseTyped ==
    ASSUME NEW S, NEW s \in Seq(S)
    PROVE  /\ Reverse(s) \in Seq(S) /\ Len(Reverse(s)) = Len(s)
           /\ \A i \in 1 .. Len(s) : Reverse(s)[i] = s[Len(s) - i + 1]
BY DEF Reverse

LEMMA ReverseTwice ==
    ASSUME NEW S, NEW s \in Seq(S)
    PROVE  Reverse(Reverse(s)) = s
<1> DEFINE r == Reverse(s)
<1>1. r \in Seq(S) /\ Len(r) = Len(s) /\ \A i \in 1 .. Len(s) : r[i] = s[Len(s) - i + 1]
  BY ReverseTyped
<1> HIDE DEF r
<1>2. /\ Reverse(r) \in Seq(S) /\ Len(Reverse(r)) = Len(s)
      /\ \A i \in 1 .. Len(s) : Reverse(r)[i] = r[Len(s) - i + 1]
  BY <1>1, ReverseTyped
<1>3. \A i \in 1 .. Len(s) : Reverse(r)[i] = s[i]
  <2> SUFFICES ASSUME NEW i \in 1 .. Len(s) PROVE Reverse(r)[i] = s[i]
    OBVIOUS
  <2>1. Len(s) - i + 1 \in 1 .. Len(s) /\ Len(s) - (Len(s) - i + 1) + 1 = i
    OBVIOUS
  <2> QED
    BY <1>1, <1>2, <2>1
<1>4. Reverse(r) = s
  BY <1>2, <1>3, SeqEqual
<1> QED
  BY <1>4 DEF r

LEMMA ReverseCons ==
    ASSUME NEW S, NEW s \in Seq(S), NEW e \in S
    PROVE  Reverse(<<e>> \o s) = Append(Reverse(s), e)
<1> DEFINE t == <<e>> \o s
           r == Reverse(s)
<1>1. t \in Seq(S) /\ Len(t) = Len(s) + 1 /\ t[1] = e /\ \A i \in 1 .. Len(s) : t[i + 1] = s[i]
  OBVIOUS
<1>2. r \in Seq(S) /\ Len(r) = Len(s) /\ \A i \in 1 .. Len(s) : r[i] = s[Len(s) - i + 1]
  BY ReverseTyped
<1> HIDE DEF t, r
<1>3. /\ Reverse(t) \in Seq(S) /\ Len(Reverse(t)) = Len(s) + 1
      /\ \A i \in 1 .. Len(s) + 1 : Reverse(t)[i] = t[Len(s) + 1 - i + 1]
  BY <1>1, ReverseTyped
<1>4. /\ Append(r, e) \in Seq(S) /\ Len(Append(r, e)) = Len(s) + 1
      /\ \A i \in 1 .. Len(s) : Append(r, e)[i] = r[i]
      /\ Append(r, e)[Len(s) + 1] = e
  BY <1>2
<1>5. \A i \in 1 .. Len(s) + 1 : Reverse(t)[i] = Append(r, e)[i]
  <2> SUFFICES ASSUME NEW i \in 1 .. Len(s) + 1 PROVE Reverse(t)[i] = Append(r, e)[i]
    OBVIOUS
  <2>1. CASE i = Len(s) + 1
    BY <1>1, <1>3, <1>4, <2>1
  <2>2. CASE i # Len(s) + 1
    <3>1. i \in 1 .. Len(s) /\ Len(s) - i + 1 \in 1 .. Len(s) /\ Len(s) + 1 - i + 1 = (Len(s) - i + 1) + 1
      BY <2>2
    <3> QED
      BY <1>1, <1>2, <1>3, <1>4, <3>1, SMTT(30)
  <2> QED
    BY <2>1, <2>2
<1>6. Reverse(t) = Append(r, e)
  BY <1>3, <1>4, <1>5, SeqEqual
<1> QED
  BY <1>6 DEF t, r

\* What is in a sequence.
LEMMA RangeCons ==
    ASSUME NEW S, NEW s \in Seq(S), NEW n
    PROVE  Range(<<n>> \o s) = Range(s) \cup {n}
<1> DEFINE t == <<n>> \o s
<1>1. /\ DOMAIN t = 1 .. Len(s) + 1 /\ t[1] = n /\ Len(t) = Len(s) + 1
      /\ \A i \in 1 .. Len(s) : t[i + 1] = s[i]
      /\ \A i \in 2 .. Len(t) : t[i] = s[i - 1] /\ i - 1 \in 1 .. Len(s)
  <2>1. s \in Seq(S \cup {n}) /\ <<n>> \in Seq(S \cup {n})
    OBVIOUS
  <2> QED
    BY <2>1
<1>3. DOMAIN t = 1 .. Len(t) /\ DOMAIN s = 1 .. Len(s) /\ Len(s) \in Nat
  BY <1>1
<1> HIDE DEF t
<1>4. Range(t) = Range(s) \cup {n}
  <2>1. Range(t) \subseteq Range(s) \cup {n}
    <3> SUFFICES ASSUME NEW i \in 1 .. Len(t) PROVE t[i] \in Range(s) \cup {n}
      BY <1>3 DEF Range
    <3>1. CASE i = 1
      BY <1>1, <3>1
    <3>2. CASE i # 1
      BY <1>1, <1>3, <3>2 DEF Range
    <3> QED
      BY <3>1, <3>2
  <2>2. \A i \in 1 .. Len(s) : i + 1 \in 1 .. Len(t) /\ t[i + 1] = s[i]
    BY <1>1, <1>3
  <2>3. Range(s) \subseteq Range(t)
    BY <1>3, <2>2 DEF Range
  <2>4. n \in Range(t)
    BY <1>1, <1>3 DEF Range
  <2> QED
    BY <2>1, <2>3, <2>4
<1> QED
  BY <1>4 DEF t

LEMMA AppendTail ==
    ASSUME NEW S, NEW a \in Seq(S), NEW c \in Seq(S), c # <<>>
    PROVE  Append(a, c[1]) \o Tail(c) = a \o c
<1> DEFINE l == Append(a, c[1]) \o Tail(c)
           r == a \o c
<1>1. /\ l \in Seq(S) /\ Len(l) = Len(a) + Len(c)
      /\ \A i \in 1 .. Len(a) : l[i] = a[i]
      /\ l[Len(a) + 1] = c[1]
      /\ \A i \in 2 .. Len(c) : l[Len(a) + i] = c[i]
  <2>1. /\ Len(c) >= 1 /\ Len(c) \in Nat /\ c[1] \in S
        /\ Tail(c) \in Seq(S) /\ Len(Tail(c)) = Len(c) - 1
        /\ \A i \in 1 .. Len(c) - 1 : Tail(c)[i] = c[i + 1]
    OBVIOUS
  <2> PICK t : t = Tail(c)
    OBVIOUS
  <2> PICK b : b = Append(a, c[1])
    OBVIOUS
  <2>2. /\ b \in Seq(S) /\ Len(b) = Len(a) + 1 /\ b[Len(a) + 1] = c[1] /\ Len(a) \in Nat
        /\ \A i \in 1 .. Len(a) : b[i] = a[i]
    BY <2>1, AppendProperties
  <2>3. /\ b \o t \in Seq(S) /\ Len(b \o t) = Len(b) + Len(t)
        /\ \A i \in 1 .. Len(b) : (b \o t)[i] = b[i]
        /\ \A i \in 1 .. Len(t) : (b \o t)[Len(b) + i] = t[i]
    BY <2>1, <2>2
  <2>4. ASSUME NEW i \in 2 .. Len(c) PROVE (b \o t)[Len(a) + i] = c[i]
    <3>1. i - 1 \in 1 .. Len(t) /\ Len(b) + (i - 1) = Len(a) + i /\ i - 1 + 1 = i
      BY <2>1, <2>2
    <3>2. (b \o t)[Len(b) + (i - 1)] = t[i - 1] /\ t[i - 1] = c[i - 1 + 1]
      BY <2>1, <2>3, <3>1
    <3> QED
      BY <3>1, <3>2
  <2>5. Len(b \o t) = Len(a) + Len(c) /\ (b \o t)[Len(a) + 1] = c[1]
        /\ \A i \in 1 .. Len(a) : (b \o t)[i] = a[i]
    BY <2>1, <2>2, <2>3
  <2> QED
    BY <2>3, <2>4, <2>5
<1>2. /\ r \in Seq(S) /\ Len(r) = Len(a) + Len(c)
      /\ \A i \in 1 .. Len(a) : r[i] = a[i]
      /\ \A i \in 1 .. Len(c) : r[Len(a) + i] = c[i]
  OBVIOUS
<1> HIDE DEF l, r
<1>3. ASSUME NEW i \in 1 .. Len(a) + Len(c) PROVE l[i] = r[i]
  <2>1. CASE i \in 1 .. Len(a)
    BY <1>1, <1>2, <2>1
  <2>2. CASE i \notin 1 .. Len(a)
    <3> PICK k : k = i - Len(a)
      OBVIOUS
    <3>1. k \in 1 .. Len(c) /\ i = Len(a) + k
      BY <2>2
    <3>2. l[Len(a) + k] = c[k]
      BY <1>1, <3>1
    <3>3. r[Len(a) + k] = c[k]
      BY <1>2, <3>1
    <3> QED
      BY <3>1, <3>2, <3>3
  <2> QED
    BY <2>1, <2>2
<1>4. l = r
  BY <1>1, <1>2, <1>3, SeqEqual
<1> QED
  BY <1>4 DEF l, r

-----------------------------------------------------------------------------
(* Recursion, sums and flattened sequences.                                 *)

\* A step function can be followed for any number of steps.
Follows(f, base, step, n) == f[0] = base /\ \A i \in 1 .. n : f[i] = step[<<i, f[i - 1]>>]

LEMMA Recursion ==
    ASSUME NEW V, NEW base \in V, NEW step \in [Nat \X V -> V], NEW n \in Nat
    PROVE  \E f \in [0 .. n -> V] : Follows(f, base, step, n)
<1> USE DEF Follows
<1> DEFINE T == {k \in Nat : \E f \in [0 .. k -> V] : Follows(f, base, step, k)}
<1>1. 0 \in T
  <2> DEFINE f == [i \in 0 .. 0 |-> base]
  <2>1. f \in [0 .. 0 -> V] /\ Follows(f, base, step, 0)
    OBVIOUS
  <2> QED
    BY <2>1
<1>2. ASSUME NEW k \in Nat, k \in T PROVE k + 1 \in T
  <2>1. PICK f \in [0 .. k -> V] : Follows(f, base, step, k)
    BY <1>2
  <2> DEFINE next == step[<<k + 1, f[k]>>]
             g == [i \in 0 .. k + 1 |-> IF i = k + 1 THEN next ELSE f[i]]
  <2>2. next \in V
    OBVIOUS
  <2>3. g \in [0 .. k + 1 -> V]
    BY <2>2
  <2>4. g[0] = base
    BY <2>1
  <2>5. ASSUME NEW i \in 1 .. k + 1 PROVE g[i] = step[<<i, g[i - 1]>>]
    <3>1. CASE i = k + 1
      <4>1. i - 1 = k /\ k # k + 1 /\ k \in 0 .. k + 1 /\ g[k] = f[k] /\ g[k + 1] = next
        BY <3>1
      <4> QED
        BY <3>1, <4>1
    <3>2. CASE i # k + 1
      <4>1. i \in 1 .. k /\ i - 1 \in 0 .. k /\ i - 1 # k + 1
        BY <3>2
      <4>2. g[i] = f[i] /\ g[i - 1] = f[i - 1]
        BY <4>1
      <4> QED
        BY <2>1, <4>1, <4>2
    <3> QED
      BY <3>1, <3>2
  <2> HIDE DEF g
  <2>6. Follows(g, base, step, k + 1)
    BY <2>4, <2>5
  <2> QED
    BY <2>3, <2>6
<1> HIDE DEF T
<1>3. Nat \subseteq T
  BY <1>1, <1>2, Induction
<1> QED
  BY <1>3 DEF T

\* f sums g up to n.
Sums(f, g, n) ==
    f \in [0 .. n -> Nat] /\ f[0] = 0 /\ \A i \in 1 .. n : f[i] = f[i - 1] + g[i]

LEMMA SumExists ==
    ASSUME NEW n \in Nat, NEW g \in [1 .. n -> Nat]
    PROVE  \E f : Sums(f, g, n)
<1> DEFINE step == [p \in Nat \X Nat |-> IF p[1] \in 1 .. n THEN p[2] + g[p[1]] ELSE 0]
<1>1. step \in [Nat \X Nat -> Nat]
  OBVIOUS
<1>2. \A i \in 1 .. n : \A m \in Nat : step[<<i, m>>] = m + g[i]
  OBVIOUS
<1> HIDE DEF step
<1>3. PICK f \in [0 .. n -> Nat] : f[0] = 0 /\ \A i \in 1 .. n : f[i] = step[<<i, f[i - 1]>>]
  <2> PICK V, base : V = Nat /\ base = 0
    OBVIOUS
  <2>1. base \in V /\ step \in [Nat \X V -> V]
    BY <1>1
  <2>2. \E f \in [0 .. n -> V] : Follows(f, base, step, n)
    BY ONLY <2>1, n \in Nat, Recursion
  <2> QED
    BY <2>2 DEF Follows
<1>4. ASSUME NEW i \in 1 .. n PROVE f[i] = f[i - 1] + g[i]
  <2>1. i - 1 \in 0 .. n /\ f[i - 1] \in Nat
    BY <1>3
  <2> QED
    BY <1>2, <1>3, <2>1
<1> QED
  BY <1>3, <1>4 DEF Sums

LEMMA SumMore ==
    ASSUME NEW n \in Nat, NEW g, NEW f, Sums(f, g, n), NEW h, \A i \in 1 .. n : h[i] = g[i],
           h[n + 1] \in Nat
    PROVE  \E e : Sums(e, h, n + 1) /\ e[n + 1] = f[n] + h[n + 1]
<1> DEFINE e == [i \in 0 .. n + 1 |-> IF i = n + 1 THEN f[n] + h[n + 1] ELSE f[i]]
<1>1. e \in [0 .. n + 1 -> Nat] /\ e[0] = 0 /\ e[n + 1] = f[n] + h[n + 1] /\ e[n] = f[n]
  BY DEF Sums
<1>2. ASSUME NEW i \in 1 .. n + 1 PROVE e[i] = e[i - 1] + h[i]
  <2>1. CASE i = n + 1
    BY <1>1, <2>1
  <2>2. CASE i # n + 1
    <3>1. i \in 1 .. n /\ e[i] = f[i] /\ e[i - 1] = f[i - 1]
      BY <2>2
    <3> QED
      BY <3>1 DEF Sums
  <2> QED
    BY <2>1, <2>2
<1> HIDE DEF e
<1> QED
  BY <1>1, <1>2 DEF Sums

\* g[n] is what the first n sequences make one after the other.
Flattens(g, ss, S) ==
    g \in [0 .. Len(ss) -> Seq(S)] /\ g[0] = <<>> /\ \A i \in 1 .. Len(ss) : g[i] = g[i - 1] \o ss[i]

LEMMA FlattenExists ==
    ASSUME NEW S, NEW ss \in Seq(Seq(S))
    PROVE  \E g : Flattens(g, ss, S)
<1> PICK V, base, n : V = Seq(S) /\ base = <<>> /\ n = Len(ss)
  OBVIOUS
<1> DEFINE step == [p \in Nat \X V |-> IF p[1] \in 1 .. n THEN p[2] \o ss[p[1]] ELSE base]
<1>1. base \in V /\ n \in Nat
  OBVIOUS
<1>2. step \in [Nat \X V -> V]
  <2> SUFFICES ASSUME NEW p \in Nat \X V PROVE step[p] \in V
    OBVIOUS
  <2>1. p[1] \in 1 .. n => ss[p[1]] \in Seq(S)
    OBVIOUS
  <2> QED
    BY <2>1
<1>3. ASSUME NEW i \in 1 .. n, NEW s \in V PROVE step[<<i, s>>] = s \o ss[i]
  <2>1. <<i, s>> \in Nat \X V
    BY <1>1
  <2> QED
    BY <2>1
<1> HIDE DEF step
<1>4. PICK f \in [0 .. n -> V] : Follows(f, base, step, n)
  BY ONLY <1>1, <1>2, Recursion
<1>5. ASSUME NEW i \in 1 .. n PROVE f[i] = f[i - 1] \o ss[i]
  <2>1. i - 1 \in 0 .. n
    BY <1>1
  <2>2. f[i - 1] \in V
    BY <1>4, <2>1
  <2> QED
    BY <1>3, <1>4, <2>2 DEF Follows
<1> QED
  BY <1>4, <1>5 DEF Flattens, Follows

LEMMA FlattenIs ==
    ASSUME NEW S, NEW ss \in Seq(Seq(S)), NEW g, Flattens(g, ss, S)
    PROVE  FlattenSeq(ss) = g[Len(ss)] /\ FlattenSeq(ss) \in Seq(S)
<1> DEFINE N == Len(ss)
           at == CHOOSE at : at = [i \in 1 .. N |-> IF i = 1 THEN ss[i] ELSE at[i - 1] \o ss[i]]
           want == [i \in 1 .. N |-> g[i]]
<1>1. CASE N = 0
  BY <1>1 DEF FlattenSeq, Flattens
<1>2. CASE N # 0
  <2>1. N \in Nat /\ N \in 1 .. N
    BY <1>2
  <2>2. want = [i \in 1 .. N |-> IF i = 1 THEN ss[i] ELSE want[i - 1] \o ss[i]]
    <3> SUFFICES ASSUME NEW i \in 1 .. N
                 PROVE  g[i] = IF i = 1 THEN ss[i] ELSE want[i - 1] \o ss[i]
      OBVIOUS
    <3>1. CASE i = 1
      <4>1. ss[1] \in Seq(S) /\ 1 \in 1 .. Len(ss)
        BY <2>1, <3>1
      <4>2. g[1] = g[1 - 1] \o ss[1] /\ g[0] = <<>>
        BY <4>1 DEF Flattens
      <4>3. <<>> \o ss[1] = ss[1]
        BY <4>1
      <4>4. 1 - 1 = 0
        OBVIOUS
      <4> QED
        BY ONLY <3>1, <4>2, <4>3, <4>4
    <3>2. CASE i # 1
      <4>1. i - 1 \in 1 .. N
        BY <2>1, <3>2
      <4>2. want[i - 1] = g[i - 1]
        BY <4>1
      <4> QED
        BY <3>2, <4>2 DEF Flattens
    <3> QED
      BY <3>1, <3>2
  <2>3. at = [i \in 1 .. N |-> IF i = 1 THEN ss[i] ELSE at[i - 1] \o ss[i]]
    <3> HIDE DEF want
    <3> QED BY <2>2
  <2>4. FlattenSeq(ss) = at[N]
    BY <1>2 DEF FlattenSeq
  <2> HIDE DEF at, N
  <2>5. \A i \in 1 .. N : at[i] = IF i = 1 THEN ss[i] ELSE at[i - 1] \o ss[i]
    BY <2>3
  <2> DEFINE T == {n \in Nat : n + 1 \in 1 .. N => at[n + 1] = g[n + 1]}
  <2>6. \A i \in 1 .. N : g[i] = IF i = 1 THEN ss[i] ELSE g[i - 1] \o ss[i]
    <3> SUFFICES ASSUME NEW i \in 1 .. N PROVE g[i] = IF i = 1 THEN ss[i] ELSE g[i - 1] \o ss[i]
      OBVIOUS
    <3>1. want[i] = IF i = 1 THEN ss[i] ELSE want[i - 1] \o ss[i]
      <4> HIDE DEF want
      <4> QED BY <2>2
    <3>2. want[i] = g[i] /\ (i # 1 => i - 1 \in 1 .. N /\ want[i - 1] = g[i - 1])
      BY <2>1
    <3> HIDE DEF want
    <3> QED
      BY <3>1, <3>2
  <2>7. 0 \in T
    BY <2>5, <2>6
  <2>8. ASSUME NEW n \in Nat, n \in T PROVE n + 1 \in T
    <3> SUFFICES ASSUME n + 1 + 1 \in 1 .. N PROVE at[n + 1 + 1] = g[n + 1 + 1]
      OBVIOUS
    <3>1. n + 1 \in 1 .. N /\ n + 1 + 1 # 1 /\ n + 1 + 1 - 1 = n + 1
      BY <2>1
    <3>2. at[n + 1] = g[n + 1]
      BY <2>8, <3>1
    <3> QED
      BY <2>5, <2>6, <3>1, <3>2
  <2> HIDE DEF T
  <2>9. N - 1 \in T
    BY <1>2, <2>1, <2>7, <2>8, Induction
  <2>10. at[N] = g[N]
    <3>1. N - 1 + 1 = N
      BY <2>1
    <3> QED
      BY <2>1, <2>9, <3>1 DEF T
  <2> QED
    BY <2>1, <2>4, <2>10 DEF Flattens, N
<1> QED
  BY <1>1, <1>2

LEMMA FlattenTyped ==
    ASSUME NEW S, NEW ss \in Seq(Seq(S))
    PROVE  FlattenSeq(ss) \in Seq(S)
BY FlattenExists, FlattenIs

LEMMA FlattenEmpty == FlattenSeq(<<>>) = <<>>
BY DEF FlattenSeq

\* One sequence more.
LEMMA FlattenAppend ==
    ASSUME NEW S, NEW ss \in Seq(Seq(S)), NEW s \in Seq(S)
    PROVE  /\ FlattenSeq(ss) \in Seq(S)
           /\ FlattenSeq(Append(ss, s)) = FlattenSeq(ss) \o s
<1>1. PICK g : Flattens(g, ss, S)
  BY FlattenExists
<1>2. FlattenSeq(ss) = g[Len(ss)] /\ FlattenSeq(ss) \in Seq(S)
  BY <1>1, FlattenIs
<1> PICK n : n = Len(ss)
  OBVIOUS
<1> PICK tt : tt = Append(ss, s)
  OBVIOUS
<1> DEFINE h == [i \in 0 .. n + 1 |-> IF i = n + 1 THEN g[n] \o s ELSE g[i]]
<1>3. /\ tt \in Seq(Seq(S)) /\ Len(tt) = n + 1 /\ tt[n + 1] = s /\ n \in Nat
      /\ \A i \in 1 .. n : tt[i] = ss[i]
  BY AppendProperties
<1>4. h \in [0 .. n + 1 -> Seq(S)] /\ h[0] = <<>> /\ h[n + 1] = g[n] \o s /\ h[n] = g[n]
  BY <1>1, <1>3 DEF Flattens
<1>5. ASSUME NEW i \in 1 .. n + 1 PROVE h[i] = h[i - 1] \o tt[i]
  <2>1. CASE i = n + 1
    <3>1. i - 1 = n
      BY <1>3, <2>1
    <3> HIDE DEF h
    <3> QED
      BY <1>3, <1>4, <2>1, <3>1
  <2>2. CASE i # n + 1
    <3>1. i \in 1 .. n /\ h[i] = g[i] /\ h[i - 1] = g[i - 1]
      BY <1>3, <2>2
    <3> QED
      BY <1>1, <1>3, <3>1 DEF Flattens
  <2> QED
    BY <2>1, <2>2
<1> HIDE DEF h
<1>6. Flattens(h, tt, S)
  BY <1>3, <1>4, <1>5 DEF Flattens
<1>7. FlattenSeq(tt) = h[n + 1]
  BY <1>3, <1>6, FlattenIs
<1> QED
  BY <1>2, <1>4, <1>7

-----------------------------------------------------------------------------
(* Working through a sequence.                                             *)

\* s is a rest of t; what comes before it.
Rest(s, t) == /\ Len(s) <= Len(t)
              /\ \A i \in 1 .. Len(s) : s[i] = t[Len(t) - Len(s) + i]
Done(s, t) == SubSeq(t, 1, Len(t) - Len(s))

LEMMA RestAll ==
    ASSUME NEW S, NEW t \in Seq(S)
    PROVE  Rest(t, t) /\ Done(t, t) = <<>>
BY DEF Rest, Done

LEMMA RestNone ==
    ASSUME NEW S, NEW t \in Seq(S)
    PROVE  Rest(<<>>, t) /\ Done(<<>>, t) = t
<1>1. SubSeq(t, 1, Len(t)) = t
  OBVIOUS
<1> QED
  BY <1>1 DEF Rest, Done

\* The first n elements.
LEMMA BeginningIs ==
    ASSUME NEW S, NEW t \in Seq(S), NEW n \in 0 .. Len(t)
    PROVE  /\ SubSeq(t, 1, n) \in Seq(S) /\ Len(SubSeq(t, 1, n)) = n
           /\ \A i \in 1 .. n : SubSeq(t, 1, n)[i] = t[i]
OBVIOUS

LEMMA RestStep ==
    ASSUME NEW S, NEW t \in Seq(S), NEW s \in Seq(S), Rest(s, t), s # <<>>
    PROVE  /\ Tail(s) \in Seq(S) /\ Rest(Tail(s), t) /\ Head(s) \in S
           /\ Done(s, t) \in Seq(S) /\ Done(Tail(s), t) = Append(Done(s, t), Head(s))
<1> PICK n : n = Len(t) - Len(s)
  OBVIOUS
<1> PICK r : r = Tail(s)
  OBVIOUS
<1> PICK e : e = Head(s)
  OBVIOUS
<1>1. /\ n \in 0 .. Len(t) - 1 /\ Len(t) \in Nat /\ Len(s) = Len(t) - n /\ Len(s) \in Nat \ {0}
      /\ r \in Seq(S) /\ Len(r) = Len(s) - 1 /\ e = s[1] /\ e \in S
      /\ \A i \in 1 .. Len(r) : r[i] = s[i + 1]
  BY DEF Rest
<1>2. e = t[n + 1]
  BY <1>1 DEF Rest
<1>3. Rest(r, t)
  <2> SUFFICES ASSUME NEW i \in 1 .. Len(r) PROVE r[i] = t[Len(t) - Len(r) + i]
    BY <1>1 DEF Rest
  <2>1. i + 1 \in 1 .. Len(s) /\ Len(t) - Len(s) + (i + 1) = Len(t) - Len(r) + i
    BY <1>1
  <2> QED
    BY <1>1, <2>1 DEF Rest
<1> PICK a : a = SubSeq(t, 1, n)
  OBVIOUS
<1> PICK b : b = SubSeq(t, 1, n + 1)
  OBVIOUS
<1>4. /\ a \in Seq(S) /\ Len(a) = n /\ \A i \in 1 .. n : a[i] = t[i]
      /\ b \in Seq(S) /\ Len(b) = n + 1 /\ \A i \in 1 .. n + 1 : b[i] = t[i]
  <2>1. n \in 0 .. Len(t) /\ n + 1 \in 0 .. Len(t)
    BY <1>1
  <2>2. /\ SubSeq(t, 1, n) \in Seq(S) /\ Len(SubSeq(t, 1, n)) = n
        /\ \A i \in 1 .. n : SubSeq(t, 1, n)[i] = t[i]
    BY ONLY <2>1, t \in Seq(S), BeginningIs
  <2>3. /\ SubSeq(t, 1, n + 1) \in Seq(S) /\ Len(SubSeq(t, 1, n + 1)) = n + 1
        /\ \A i \in 1 .. n + 1 : SubSeq(t, 1, n + 1)[i] = t[i]
    BY ONLY <2>1, t \in Seq(S), BeginningIs
  <2> QED
    BY <2>2, <2>3
<1>5. /\ Append(a, e) \in Seq(S) /\ Len(Append(a, e)) = n + 1 /\ Append(a, e)[n + 1] = e
      /\ \A i \in 1 .. n : Append(a, e)[i] = a[i]
  BY ONLY <1>1, <1>4, AppendProperties
<1>6. ASSUME NEW i \in 1 .. n + 1 PROVE Append(a, e)[i] = b[i]
  <2>1. CASE i = n + 1
    BY <1>1, <1>2, <1>4, <1>5, <2>1
  <2>2. CASE i # n + 1
    <3>1. i \in 1 .. n
      BY ONLY <1>1, <2>2, i \in 1 .. n + 1
    <3> QED
      BY <1>4, <1>5, <3>1
  <2> QED
    BY <2>1, <2>2
<1>7. b = Append(a, e)
  BY ONLY <1>1, <1>4, <1>5, <1>6, SeqEqual
<1>8. Done(s, t) = a /\ Done(r, t) = b
  <2>1. Len(t) - Len(r) = n + 1
    BY <1>1
  <2> QED
    BY <2>1 DEF Done
<1> QED
  BY <1>1, <1>3, <1>4, <1>7, <1>8

LEMMA DoneTyped ==
    ASSUME NEW S, NEW t \in Seq(S), NEW s \in Seq(S), Rest(s, t)
    PROVE  Done(s, t) \in Seq(S)
<1> PICK n : n = Len(t) - Len(s)
  OBVIOUS
<1>1. n \in 0 .. Len(t) /\ Done(s, t) = SubSeq(t, 1, n)
  BY DEF Rest, Done
<1> QED
  BY ONLY t \in Seq(S), <1>1, BeginningIs

LEMMA ReverseAppend ==
    ASSUME NEW S, NEW s \in Seq(S), NEW e \in S
    PROVE  Reverse(Append(s, e)) = <<e>> \o Reverse(s)
<1> PICK t : t = Append(s, e)
  OBVIOUS
<1> PICK r : r = Reverse(s)
  OBVIOUS
<1>1. t \in Seq(S) /\ Len(t) = Len(s) + 1 /\ t[Len(s) + 1] = e /\ \A i \in 1 .. Len(s) : t[i] = s[i]
  BY ONLY s \in Seq(S), e \in S, t = Append(s, e), AppendProperties
<1>2. r \in Seq(S) /\ Len(r) = Len(s) /\ \A i \in 1 .. Len(s) : r[i] = s[Len(s) - i + 1]
  BY ReverseTyped
<1>3. /\ Reverse(t) \in Seq(S) /\ Len(Reverse(t)) = Len(s) + 1
      /\ \A i \in 1 .. Len(s) + 1 : Reverse(t)[i] = t[Len(s) + 1 - i + 1]
  BY ONLY <1>1, ReverseTyped
<1>4. /\ <<e>> \o r \in Seq(S) /\ Len(<<e>> \o r) = Len(s) + 1 /\ (<<e>> \o r)[1] = e
      /\ \A i \in 1 .. Len(s) : (<<e>> \o r)[i + 1] = r[i]
  BY <1>2
<1>5. ASSUME NEW i \in 1 .. Len(s) + 1 PROVE Reverse(t)[i] = (<<e>> \o r)[i]
  <2>1. CASE i = 1
    BY <1>1, <1>3, <1>4, <2>1
  <2>2. CASE i # 1
    <3> PICK k : k = i - 1
      OBVIOUS
    <3>1. k \in 1 .. Len(s) /\ i = k + 1 /\ Len(s) + 1 - i + 1 = Len(s) - k + 1 /\ Len(s) - k + 1 \in 1 .. Len(s)
      BY <2>2
    <3>2. Reverse(t)[i] = s[Len(s) - k + 1]
      BY <1>1, <1>3, <3>1
    <3>3. (<<e>> \o r)[k + 1] = s[Len(s) - k + 1]
      BY <1>2, <1>4, <3>1
    <3> QED
      BY <3>1, <3>2, <3>3
  <2> QED
    BY <2>1, <2>2
<1>6. Reverse(t) = <<e>> \o r
  BY <1>3, <1>4, <1>5, SeqEqual
<1> QED
  BY <1>6

\* A set of numbers below a bound has a greatest one.
LEMMA GreatestNumber ==
    ASSUME NEW n \in Nat, NEW T \in SUBSET (0 .. n), T # {}
    PROVE  \E m \in T : \A k \in T : m >= k
<1> DEFINE U == {k \in Nat : \A i \in T : i <= k}
<1>1. U \in SUBSET Nat /\ n \in U
  OBVIOUS
<1>2. PICK m \in U : \A k \in U : m <= k
  BY <1>1, LeastNumber
<1>3. m \in Nat /\ \A i \in T : i <= m
  BY <1>2
<1>4. CASE m \in T
  BY <1>3, <1>4
<1>5. CASE m \notin T
  <2>1. \A i \in T : i \in Nat /\ i < m
    BY <1>3, <1>5
  <2>2. m # 0
    <3> PICK i \in T : TRUE
      OBVIOUS
    <3> QED
      BY <1>3, <2>1
  <2>4. \A i \in T : i <= m - 1
    BY <1>3, <2>1
  <2>3. m - 1 \in U
    BY <1>3, <2>2, <2>4
  <2> QED
    BY <1>2, <1>3, <2>3
<1> QED
  BY <1>4, <1>5

\* What F makes of each element of s, one after the other.
Mapped(s, F) == [i \in DOMAIN s |-> F[s[i]]]

LEMMA MappedTyped ==
    ASSUME NEW S, NEW T, NEW F \in [S -> T], NEW s \in Seq(S)
    PROVE  /\ Mapped(s, F) \in Seq(T) /\ Len(Mapped(s, F)) = Len(s)
           /\ \A i \in 1 .. Len(s) : Mapped(s, F)[i] = F[s[i]]
BY DEF Mapped

LEMMA MappedAppend ==
    ASSUME NEW S, NEW T, NEW F \in [S -> T], NEW s \in Seq(S), NEW e \in S
    PROVE  Mapped(Append(s, e), F) = Append(Mapped(s, F), F[e])
<1> PICK g, l, m, x : g = Append(s, e) /\ l = Mapped(s, F) /\ m = Mapped(g, F) /\ x = F[e]
  OBVIOUS
<1>1. /\ g \in Seq(S) /\ Len(g) = Len(s) + 1 /\ g[Len(s) + 1] = e
      /\ Len(s) \in Nat /\ \A i \in 1 .. Len(s) : g[i] = s[i]
  BY ONLY s \in Seq(S), e \in S, g = Append(s, e), AppendProperties
<1>2. l \in Seq(T) /\ x \in T /\ Len(l) = Len(s) /\ \A i \in 1 .. Len(s) : l[i] = F[s[i]]
  BY ONLY F \in [S -> T], s \in Seq(S), e \in S, l = Mapped(s, F), x = F[e] DEF Mapped
<1>3. m \in Seq(T) /\ Len(m) = Len(g) /\ \A i \in 1 .. Len(g) : m[i] = F[g[i]]
  BY ONLY <1>1, F \in [S -> T], m = Mapped(g, F) DEF Mapped
<1>4. /\ Append(l, x) \in Seq(T) /\ Len(Append(l, x)) = Len(l) + 1
      /\ Append(l, x)[Len(l) + 1] = x /\ \A i \in 1 .. Len(l) : Append(l, x)[i] = l[i]
  BY ONLY <1>2, AppendProperties
<1>5. ASSUME NEW i \in 1 .. Len(m) PROVE m[i] = Append(l, x)[i]
  <2>1. CASE i = Len(s) + 1
    BY <1>1, <1>2, <1>3, <1>4, <2>1
  <2>2. CASE i # Len(s) + 1
    <3>1. i \in 1 .. Len(s) /\ i \in 1 .. Len(g) /\ i \in 1 .. Len(l)
      BY ONLY <1>1, <1>2, <1>3, <2>2, i \in 1 .. Len(m)
    <3> QED
      BY <1>1, <1>2, <1>3, <1>4, <3>1
  <2> QED
    BY <2>1, <2>2
<1> QED
  BY <1>1, <1>2, <1>3, <1>4, <1>5, SeqEqual

\* F makes a sequence of every element.
Spreads(F, S, T) == F \in [S -> Seq(T)]

LEMMA FlattenMapped ==
    ASSUME NEW S, NEW T, NEW F, Spreads(F, S, T), NEW s \in Seq(S), NEW e \in S
    PROVE  /\ FlattenSeq(Mapped(s, F)) \in Seq(T)
           /\ FlattenSeq(Mapped(Append(s, e), F)) = FlattenSeq(Mapped(s, F)) \o F[e]
<1> PICK V : V = Seq(T)
  OBVIOUS
<1>0. F \in [S -> V]
  BY DEF Spreads
<1>1. Mapped(s, F) \in Seq(V) /\ F[e] \in V
  BY <1>0, MappedTyped
<1>2. Mapped(Append(s, e), F) = Append(Mapped(s, F), F[e])
  BY ONLY <1>0, s \in Seq(S), e \in S, MappedAppend
<1> QED
  BY <1>1, <1>2, FlattenAppend

\* Induction over sequences that grow at their end.
LEMMA SequenceInduction ==
    ASSUME NEW S, NEW T, <<>> \in T, \A s \in Seq(S), e \in S : s \in T => Append(s, e) \in T
    PROVE  Seq(S) \subseteq T
<1> DEFINE N == {n \in Nat : \A s \in Seq(S) : Len(s) = n => s \in T}
<1>1. 0 \in N
  OBVIOUS
<1>2. ASSUME NEW n \in Nat, n \in N PROVE n + 1 \in N
  <2> SUFFICES ASSUME NEW s \in Seq(S), Len(s) = n + 1 PROVE s \in T
    OBVIOUS
  <2> PICK r, e : r = SubSeq(s, 1, n) /\ e = s[n + 1]
    OBVIOUS
  <2>1. /\ r \in Seq(S) /\ Len(r) = n /\ e \in S
        /\ \A i \in 1 .. n : r[i] = s[i]
    BY ONLY n \in Nat, s \in Seq(S), Len(s) = n + 1, r = SubSeq(s, 1, n), e = s[n + 1]
  <2>2. /\ Append(r, e) \in Seq(S) /\ Len(Append(r, e)) = n + 1 /\ Append(r, e)[n + 1] = e
        /\ \A i \in 1 .. n : Append(r, e)[i] = r[i]
    BY ONLY <2>1, n \in Nat, AppendProperties
  <2>3. ASSUME NEW i \in 1 .. n + 1 PROVE s[i] = Append(r, e)[i]
    <3>1. CASE i = n + 1
      BY <2>2, <3>1
    <3>2. CASE i # n + 1
      <4>1. i \in 1 .. n
        BY ONLY <3>2, n \in Nat, i \in 1 .. n + 1
      <4> QED
        BY <2>1, <2>2, <4>1
    <3> QED
      BY <3>1, <3>2
  <2>4. s = Append(r, e)
    BY <2>2, <2>3, SeqEqual
  <2>5. r \in T
    BY <1>2, <2>1
  <2> QED
    BY <2>1, <2>4, <2>5
<1> HIDE DEF N
<1>3. Nat \subseteq N
  BY <1>1, <1>2, Induction
<1> QED
  BY <1>3 DEF N

\* The sequences F makes of the elements of s, put together.
Spread(s, F) == FlattenSeq(Mapped(s, F))

LEMMA SpreadEmpty == \A F : Spread(<<>>, F) = <<>>
<1> SUFFICES ASSUME NEW F PROVE Mapped(<<>>, F) = <<>>
  BY FlattenEmpty DEF Spread
<1> QED
  BY DEF Mapped

LEMMA SpreadAppend ==
    ASSUME NEW S, NEW T, NEW F, Spreads(F, S, T), NEW s \in Seq(S), NEW e \in S
    PROVE  Spread(s, F) \in Seq(T) /\ Spread(Append(s, e), F) = Spread(s, F) \o F[e]
BY FlattenMapped DEF Spread

LEMMA SpreadOne ==
    ASSUME NEW S, NEW T, NEW F, Spreads(F, S, T), NEW e \in S
    PROVE  Spread(<<e>>, F) = F[e]
<1> PICK z, x : z = <<>> /\ x = F[e]
  OBVIOUS
<1>1. z \in Seq(S)
  OBVIOUS
<1>2. Append(z, e) = <<e>>
  OBVIOUS
<1>3. x \in Seq(T)
  BY DEF Spreads
<1>4. Spread(Append(z, e), F) = Spread(z, F) \o x
  BY ONLY <1>1, x = F[e], Spreads(F, S, T), e \in S, SpreadAppend
<1>5. Spread(z, F) = <<>>
  BY SpreadEmpty
<1> QED
  BY ONLY <1>2, <1>3, <1>4, <1>5, x = F[e]

LEMMA ConcatAppend ==
    ASSUME NEW S, NEW a \in Seq(S), NEW b \in Seq(S), NEW e \in S
    PROVE  a \o Append(b, e) = Append(a \o b, e) /\ a \o b \in Seq(S)
<1> PICK l, r : l = a \o Append(b, e) /\ r = Append(a \o b, e)
  OBVIOUS
<1>1. a \o b \in Seq(S) /\ Append(b, e) \in Seq(S)
  OBVIOUS
<1>2. /\ r \in Seq(S) /\ Len(r) = Len(a) + Len(b) + 1 /\ r[Len(a) + Len(b) + 1] = e
      /\ \A i \in 1 .. Len(a) : r[i] = a[i]
      /\ \A i \in Len(a) + 1 .. Len(a) + Len(b) : r[i] = b[i - Len(a)]
  OBVIOUS
<1>3. /\ l \in Seq(S) /\ Len(l) = Len(a) + Len(b) + 1 /\ l[Len(a) + Len(b) + 1] = e
      /\ \A i \in 1 .. Len(a) : l[i] = a[i]
      /\ \A i \in Len(a) + 1 .. Len(a) + Len(b) : l[i] = b[i - Len(a)]
  OBVIOUS
<1>4. ASSUME NEW i \in 1 .. Len(l) PROVE l[i] = r[i]
  <2> PICK m, n : m = Len(a) /\ n = Len(b)
    OBVIOUS
  <2>1. m \in Nat /\ n \in Nat /\ i \in 1 .. m + n + 1
    BY <1>3
  <2>2. i \in 1 .. m \/ i \in m + 1 .. m + n \/ i = m + n + 1
    BY ONLY <2>1
  <2> QED
    BY <1>2, <1>3, <2>2, Zenon
<1> QED
  BY <1>1, <1>2, <1>3, <1>4, SeqEqual

LEMMA ConcatConcat ==
    ASSUME NEW S, NEW a \in Seq(S), NEW b \in Seq(S), NEW c \in Seq(S)
    PROVE  (a \o b) \o c = a \o (b \o c)
OBVIOUS

LEMMA SpreadTyped ==
    ASSUME NEW S, NEW T, NEW F, Spreads(F, S, T), NEW s \in Seq(S)
    PROVE  Spread(s, F) \in Seq(T)
<1>1. CASE s = <<>>
  <2>1. Spread(s, F) = <<>>
    BY <1>1, SpreadEmpty, Zenon
  <2> QED
    BY <2>1
<1>2. CASE s # <<>>
  <2>1. PICK e : e \in S
    BY <1>2
  <2> QED
    BY ONLY e \in S, Spreads(F, S, T), s \in Seq(S), SpreadAppend
<1> QED
  BY <1>1, <1>2

LEMMA SpreadConcat ==
    ASSUME NEW S, NEW T, NEW F, Spreads(F, S, T), NEW a \in Seq(S), NEW b \in Seq(S)
    PROVE  Spread(a \o b, F) = Spread(a, F) \o Spread(b, F)
<1> DEFINE good == {c \in Seq(S) : Spread(a \o c, F) = Spread(a, F) \o Spread(c, F)}
<1>0. Spread(a, F) \in Seq(T)
  BY SpreadTyped
<1>1. <<>> \in good
  BY <1>0, SpreadEmpty
<1>2. ASSUME NEW c \in Seq(S), NEW e \in S, c \in good PROVE Append(c, e) \in good
  <2> PICK d, g : d = a \o c /\ g = F[e]
    OBVIOUS
  <2>1. a \o Append(c, e) = Append(d, e) /\ d \in Seq(S) /\ Append(c, e) \in Seq(S)
    BY ConcatAppend
  <2>2. Spread(Append(d, e), F) = Spread(d, F) \o g
    BY ONLY g = F[e], <2>1, e \in S, Spreads(F, S, T), SpreadAppend
  <2>3. Spread(Append(c, e), F) = Spread(c, F) \o g /\ Spread(c, F) \in Seq(T)
    BY ONLY g = F[e], c \in Seq(S), e \in S, Spreads(F, S, T), SpreadAppend
  <2>4. g \in Seq(T)
    BY DEF Spreads
  <2>5. Spread(d, F) = Spread(a, F) \o Spread(c, F)
    BY <1>2
  <2> PICK x, y : x = Spread(a, F) /\ y = Spread(c, F)
    OBVIOUS
  <2>6. (x \o y) \o g = x \o (y \o g)
    <3>1. x \in Seq(T) /\ y \in Seq(T)
      BY <1>0, <2>3
    <3> QED
      BY ONLY <2>4, <3>1, ConcatConcat, SMTT(30)
  <2> QED
    BY <2>1, <2>2, <2>3, <2>5, <2>6
<1> HIDE DEF good
<1>3. Seq(S) \subseteq good
  BY <1>1, <1>2, SequenceInduction
<1> QED
  BY <1>3 DEF good

\* What G makes of what F makes.
LEMMA SpreadTwice ==
    ASSUME NEW S, NEW T, NEW U, NEW F, NEW G, NEW H,
           Spreads(F, S, T), Spreads(G, T, U), Spreads(H, S, U),
           \A e \in S : Spread(F[e], G) = H[e],
           NEW s \in Seq(S)
    PROVE  Spread(Spread(s, F), G) = Spread(s, H)
<1> DEFINE good == {c \in Seq(S) : Spread(Spread(c, F), G) = Spread(c, H)}
<1>1. <<>> \in good
  <2>1. Spread(<<>>, F) = <<>> /\ Spread(<<>>, H) = <<>> /\ Spread(<<>>, G) = <<>>
    BY SpreadEmpty
  <2>2. Spread(Spread(<<>>, F), G) = Spread(<<>>, H)
    BY ONLY <2>1, Zenon
  <2> QED
    BY <2>2
<1>2. ASSUME NEW c \in Seq(S), NEW e \in S, c \in good PROVE Append(c, e) \in good
  <2> PICK x, y, z : x = F[e] /\ y = H[e] /\ z = Spread(c, F)
    OBVIOUS
  <2>1. Spread(Append(c, e), F) = z \o x /\ z \in Seq(T)
    <3>1. Spread(Append(c, e), F) = Spread(c, F) \o x /\ Spread(c, F) \in Seq(T)
      BY ONLY x = F[e], c \in Seq(S), e \in S, Spreads(F, S, T), SpreadAppend
    <3> QED
      BY ONLY <3>1, z = Spread(c, F)
  <2>2. Spread(Append(c, e), H) = Spread(c, H) \o y
    BY ONLY y = H[e], c \in Seq(S), e \in S, Spreads(H, S, U), SpreadAppend
  <2>3. x \in Seq(T)
    BY DEF Spreads
  <2>4. Spread(z \o x, G) = Spread(z, G) \o Spread(x, G)
    BY ONLY <2>1, <2>3, Spreads(G, T, U), SpreadConcat
  <2>5. Spread(x, G) = y /\ Spread(z, G) = Spread(c, H)
    BY <1>2
  <2>6. Spread(Spread(Append(c, e), F), G) = Spread(Append(c, e), H)
    BY ONLY <2>1, <2>2, <2>4, <2>5
  <2> QED
    BY <2>6
<1> HIDE DEF good
<1>3. Seq(S) \subseteq good
  BY <1>1, <1>2, SequenceInduction
<1> QED
  BY <1>3 DEF good

\* The same, where only the number of the elements counts.
LEMMA SpreadTwiceLen ==
    ASSUME NEW S, NEW T, NEW U, NEW F, NEW G, NEW H,
           Spreads(F, S, T), Spreads(G, T, U), Spreads(H, S, U),
           \A e \in S : Len(Spread(F[e], G)) <= Len(H[e]),
           NEW s \in Seq(S)
    PROVE  Len(Spread(Spread(s, F), G)) <= Len(Spread(s, H))
<1> DEFINE good == {c \in Seq(S) : Len(Spread(Spread(c, F), G)) <= Len(Spread(c, H))}
<1>1. <<>> \in good
  <2>1. Spread(<<>>, F) = <<>> /\ Spread(<<>>, H) = <<>> /\ Spread(<<>>, G) = <<>>
    BY SpreadEmpty
  <2>2. Spread(Spread(<<>>, F), G) = <<>>
    BY ONLY <2>1, Zenon
  <2>3. Len(Spread(Spread(<<>>, F), G)) <= Len(Spread(<<>>, H))
    BY <2>1, <2>2
  <2> QED
    BY <2>3
<1>2. ASSUME NEW c \in Seq(S), NEW e \in S, c \in good PROVE Append(c, e) \in good
  <2> PICK x, y, z, w : x = F[e] /\ y = H[e] /\ z = Spread(c, F) /\ w = Spread(c, H)
    OBVIOUS
  <2>1. Spread(Append(c, e), F) = z \o x /\ z \in Seq(T)
    <3>1. Spread(Append(c, e), F) = Spread(c, F) \o x /\ Spread(c, F) \in Seq(T)
      BY ONLY x = F[e], c \in Seq(S), e \in S, Spreads(F, S, T), SpreadAppend
    <3> QED
      BY ONLY <3>1, z = Spread(c, F)
  <2>2. Spread(Append(c, e), H) = w \o y /\ w \in Seq(U)
    <3>1. Spread(Append(c, e), H) = Spread(c, H) \o y /\ Spread(c, H) \in Seq(U)
      BY ONLY y = H[e], c \in Seq(S), e \in S, Spreads(H, S, U), SpreadAppend
    <3> QED
      BY ONLY <3>1, w = Spread(c, H)
  <2>3. x \in Seq(T) /\ y \in Seq(U)
    BY DEF Spreads
  <2> PICK u, v : u = Spread(z, G) /\ v = Spread(x, G)
    OBVIOUS
  <2>4. Spread(z \o x, G) = u \o v
    <3>1. Spread(z \o x, G) = Spread(z, G) \o Spread(x, G)
      BY ONLY <2>1, <2>3, Spreads(G, T, U), SpreadConcat
    <3> QED
      BY ONLY <3>1, u = Spread(z, G), v = Spread(x, G)
  <2>5. Len(v) <= Len(y) /\ Len(u) <= Len(w)
    BY <1>2
  <2>6. u \in Seq(U) /\ v \in Seq(U)
    BY ONLY u = Spread(z, G), v = Spread(x, G), <2>1, <2>3, Spreads(G, T, U), SpreadTyped
  <2>7. Len(u \o v) <= Len(w \o y)
    BY ONLY <2>2, <2>3, <2>5, <2>6
  <2> QED
    <3>1. Spread(Spread(Append(c, e), F), G) = u \o v
      BY ONLY <2>1, <2>4
    <3> QED
      BY <2>2, <2>7, <3>1
<1> HIDE DEF good
<1>3. Seq(S) \subseteq good
  BY <1>1, <1>2, SequenceInduction
<1> QED
  BY <1>3 DEF good

\* One element for each: the sequence itself.
LEMMA SpreadSingles ==
    ASSUME NEW S, NEW T, NEW F, Spreads(F, S, T), NEW V, V \subseteq S,
           \A e \in V : F[e] = <<e>>, NEW s \in Seq(V)
    PROVE  Spread(s, F) = s
<1> DEFINE good == {c \in Seq(V) : Spread(c, F) = c}
<1>1. <<>> \in good
  BY SpreadEmpty
<1>2. ASSUME NEW c \in Seq(V), NEW e \in V, c \in good PROVE Append(c, e) \in good
  <2> PICK x : x = F[e]
    OBVIOUS
  <2>1. c \in Seq(S) /\ e \in S
    OBVIOUS
  <2>2. Spread(Append(c, e), F) = Spread(c, F) \o x
    BY ONLY x = F[e], <2>1, Spreads(F, S, T), SpreadAppend
  <2>3. x = <<e>> /\ Spread(c, F) = c
    BY <1>2
  <2>4. c \o <<e>> = Append(c, e)
    OBVIOUS
  <2> QED
    BY <2>2, <2>3, <2>4
<1> HIDE DEF good
<1>3. Seq(V) \subseteq good
  BY <1>1, <1>2, SequenceInduction
<1> QED
  BY <1>3 DEF good

\* None for each: none.
LEMMA SpreadNone ==
    ASSUME NEW S, NEW T, NEW F, Spreads(F, S, T), NEW V, V \subseteq S,
           \A e \in V : F[e] = <<>>, NEW s \in Seq(V)
    PROVE  Spread(s, F) = <<>>
<1> DEFINE good == {c \in Seq(V) : Spread(c, F) = <<>>}
<1>1. <<>> \in good
  BY SpreadEmpty
<1>2. ASSUME NEW c \in Seq(V), NEW e \in V, c \in good PROVE Append(c, e) \in good
  <2> PICK x : x = F[e]
    OBVIOUS
  <2>1. c \in Seq(S) /\ e \in S
    OBVIOUS
  <2>2. Spread(Append(c, e), F) = Spread(c, F) \o x
    BY ONLY x = F[e], <2>1, Spreads(F, S, T), SpreadAppend
  <2>3. x = <<>> /\ Spread(c, F) = <<>>
    BY <1>2
  <2>4. Spread(Append(c, e), F) = <<>>
    BY ONLY <2>2, <2>3
  <2> QED
    BY <2>4
<1> HIDE DEF good
<1>3. Seq(V) \subseteq good
  BY <1>1, <1>2, SequenceInduction
<1> QED
  BY <1>3 DEF good

\* The places of s that hold an element of P.
Places(s, P) == {i \in DOMAIN s : s[i] \in P}

\* Choosing the elements of P: as many as there are places that hold one.
LEMMA ChosenSize ==
    ASSUME NEW S, NEW P, NEW F, Spreads(F, S, S),
           \A e \in S : F[e] = IF e \in P THEN <<e>> ELSE <<>>, NEW s \in Seq(S)
    PROVE  Cardinality(Places(s, P)) = Len(Spread(s, F))
<1> DEFINE places(c) == {i \in DOMAIN c : c[i] \in P}
           good == {c \in Seq(S) : /\ IsFiniteSet(places(c))
                                   /\ Cardinality(places(c)) = Len(Spread(c, F))}
<1>1. <<>> \in good
  <2>1. places(<<>>) = {}
    OBVIOUS
  <2>2. Spread(<<>>, F) = <<>>
    BY SpreadEmpty
  <2> QED
    BY <2>1, <2>2, FS_EmptySet
<1>2. ASSUME NEW c \in Seq(S), NEW e \in S, c \in good PROVE Append(c, e) \in good
  <2> PICK x, n, d, w : x = F[e] /\ n = Len(c) /\ d = Append(c, e) /\ w = Spread(c, F)
    OBVIOUS
  <2>1. /\ d \in Seq(S) /\ n \in Nat /\ DOMAIN c = 1 .. n /\ DOMAIN d = 1 .. n + 1
        /\ d[n + 1] = e /\ \A i \in 1 .. n : d[i] = c[i]
    OBVIOUS
  <2>2. Spread(d, F) = w \o x /\ w \in Seq(S)
    <3>1. Spread(Append(c, e), F) = Spread(c, F) \o x /\ Spread(c, F) \in Seq(S)
      BY ONLY x = F[e], c \in Seq(S), e \in S, Spreads(F, S, S), SpreadAppend, SMTT(30)
    <3> QED
      BY ONLY <3>1, d = Append(c, e), w = Spread(c, F)
  <2>3. IsFiniteSet(places(c)) /\ Cardinality(places(c)) = Len(w)
    BY <1>2
  <2>4. CASE e \in P
    <3> PICK A, B : A = places(c) /\ B = places(d)
      OBVIOUS
    <3>1. B = A \cup {n + 1} /\ n + 1 \notin A
      BY ONLY <2>1, <2>4, A = places(c), B = places(d)
    <3>5. IsFiniteSet(A)
      BY <2>3
    <3>2. Cardinality(B) = Cardinality(A) + 1 /\ IsFiniteSet(B)
      BY ONLY <3>1, <3>5, FS_AddElement
    <3>3. x = <<e>>
      BY <2>4
    <3>4. Len(w \o x) = Len(w) + 1
      BY ONLY <2>2, <3>3, e \in S
    <3> QED
      BY <2>1, <2>2, <2>3, <3>2, <3>4
  <2>5. CASE e \notin P
    <3>1. places(d) = places(c)
      BY ONLY <2>1, <2>5
    <3>2. x = <<>>
      BY <2>5
    <3>3. w \o x = w
      BY ONLY <2>2, <3>2
    <3> QED
      BY <2>1, <2>2, <2>3, <3>1, <3>3
  <2> QED
    BY <2>4, <2>5
<1> HIDE DEF good
<1>3. Seq(S) \subseteq good
  BY <1>1, <1>2, SequenceInduction
<1> QED
  BY <1>3 DEF good, Places

\* One element for each: a sequence of as many.
LEMMA SpreadMapped ==
    ASSUME NEW S, NEW T, NEW P \in [S -> T], NEW F, Spreads(F, S, T),
           \A e \in S : F[e] = <<P[e]>>, NEW s \in Seq(S)
    PROVE  Spread(s, F) = Mapped(s, P)
<1> DEFINE good == {c \in Seq(S) : Spread(c, F) = Mapped(c, P)}
<1>1. <<>> \in good
  <2>1. Mapped(<<>>, P) = <<>>
    BY DEF Mapped
  <2> QED
    BY <2>1, SpreadEmpty
<1>2. ASSUME NEW c \in Seq(S), NEW e \in S, c \in good PROVE Append(c, e) \in good
  <2> PICK x, m, y : x = F[e] /\ m = Mapped(c, P) /\ y = P[e]
    OBVIOUS
  <2>1. Spread(Append(c, e), F) = Spread(c, F) \o x
    BY ONLY x = F[e], c \in Seq(S), e \in S, Spreads(F, S, T), SpreadAppend
  <2>2. Mapped(Append(c, e), P) = Append(m, y)
    <3>1. Mapped(Append(c, e), P) = Append(Mapped(c, P), P[e])
      BY MappedAppend
    <3> QED
      BY <3>1
  <2>3. x = <<y>> /\ Spread(c, F) = m /\ y \in T
    BY <1>2
  <2>4. m \in Seq(T)
    BY MappedTyped
  <2>5. m \o <<y>> = Append(m, y)
    BY ONLY <2>3, <2>4
  <2>6. Spread(Append(c, e), F) = Mapped(Append(c, e), P)
    BY ONLY <2>1, <2>2, <2>3, <2>5
  <2> QED
    BY <2>6
<1> HIDE DEF good
<1>3. Seq(S) \subseteq good
  BY <1>1, <1>2, SequenceInduction
<1> QED
  BY <1>3 DEF good

LEMMA SequenceOfOne == ASSUME NEW S, NEW e \in S PROVE <<e>> \in Seq(S) /\ Len(<<e>>) = 1
OBVIOUS

\* A beginning and the rest.
LEMMA BeginningRest ==
    ASSUME NEW S, NEW s \in Seq(S), NEW n \in 0 .. Len(s)
    PROVE  \E r \in Seq(S) : s = SubSeq(s, 1, n) \o r
<1> PICK m, a : m = Len(s) /\ a = SubSeq(s, 1, n)
  OBVIOUS
<1>1. m \in Nat /\ n \in 0 .. m /\ DOMAIN s = 1 .. m
  OBVIOUS
<1>2. a \in Seq(S) /\ Len(a) = n /\ \A i \in 1 .. n : a[i] = s[i]
  BY BeginningIs
<1> PICK r : r = [i \in 1 .. m - n |-> s[n + i]]
  OBVIOUS
<1>3. m - n \in Nat /\ \A i \in 1 .. m - n : n + i \in 1 .. m
  BY ONLY <1>1
<1>4. \A i \in 1 .. m - n : s[n + i] \in S
  BY <1>1, <1>3
<1>5. r \in Seq(S) /\ Len(r) = m - n /\ \A i \in 1 .. m - n : r[i] = s[n + i]
  BY ONLY <1>3, <1>4, r = [i \in 1 .. m - n |-> s[n + i]]
<1> PICK c : c = a \o r
  OBVIOUS
<1>6. /\ c \in Seq(S) /\ Len(c) = Len(a) + Len(r)
      /\ \A i \in 1 .. Len(a) : c[i] = a[i]
      /\ \A i \in Len(a) + 1 .. Len(a) + Len(r) : c[i] = r[i - Len(a)]
  <2>1. a \in Seq(S) /\ r \in Seq(S)
    BY <1>2, <1>5
  <2> QED
    BY ONLY <2>1, c = a \o r
<1>7. n + (m - n) = m
  BY ONLY <1>1
<1>8. ASSUME NEW i \in 1 .. m PROVE c[i] = s[i]
  <2>1. CASE i \in 1 .. n
    BY <1>2, <1>6, <2>1
  <2>2. CASE i \notin 1 .. n
    <3>1. i \in n + 1 .. m /\ i - n \in 1 .. m - n /\ n + (i - n) = i
      BY ONLY <1>1, <2>2, i \in 1 .. m
    <3>2. c[i] = r[i - n]
      BY ONLY <1>2, <1>5, <1>6, <1>7, <3>1
    <3>3. r[i - n] = s[n + (i - n)]
      BY <1>5, <3>1
    <3> QED
      BY <3>1, <3>2, <3>3
  <2> QED
    BY <2>1, <2>2
<1>9. c = s
  BY <1>2, <1>5, <1>6, <1>7, <1>8, SeqEqual
<1> QED
  BY <1>5, <1>9
=============================================================================
