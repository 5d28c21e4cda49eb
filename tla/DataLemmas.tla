----------------------------- MODULE DataLemmas -----------------------------
(***************************************************************************)
(* Facts about numbers, recursive functions, sequences and finite sets     *)
(* that the proofs about the components rest on.  Induction is stated over *)
(* sets instead of predicates: the set of numbers for which a claim holds  *)
(* contains 0 and, with a number, the next one.                            *)
(***************************************************************************)
EXTENDS SequencesExt, FiniteSetTheorems, FunctionTheorems, SequenceTheorems,
        WellFoundedInduction, TLAPS

\* Every set of numbers that is not empty has a least one.
LEMMA LeastNumber ==
    ASSUME NEW S \in SUBSET Nat, S # {}
    PROVE  \E n \in S : \A m \in S : n <= m
<1>1. PICK n \in S : \A m \in S : ~(<<m, n>> \in OpToRel(<, Nat))
  BY NatLessThanWellFounded, WFMin
<1>2. ASSUME NEW m \in S, m < n PROVE FALSE
  BY <1>1, <1>2 DEF OpToRel
<1> QED BY <1>2

\* Induction up to a bound.
LEMMA UpTo ==
    ASSUME NEW m \in Nat, NEW Good, 0 \in Good,
           \A n \in 1..m : n - 1 \in Good => n \in Good
    PROVE  \A n \in 0..m : n \in Good
<1> DEFINE Bad == (0..m) \ Good
<1> SUFFICES ASSUME Bad # {} PROVE FALSE
  OBVIOUS
<1>1. PICK n \in Bad : \A k \in Bad : n <= k
  <2>1. Bad \in SUBSET Nat
    OBVIOUS
  <2> HIDE DEF Bad
  <2> QED BY <2>1, LeastNumber
<1>2. n \in 1..m /\ n - 1 \in 0..m /\ n - 1 \notin Bad
  BY <1>1
<1>3. n \in Good
  BY <1>2
<1> QED BY <1>1, <1>3

\* f starts with base and takes step n from f[n - 1].
Follows(f, m, T, base, step) ==
    /\ f \in [0..m -> T]
    /\ f[0] = base
    /\ \A n \in 1..m : f[n] = step[<<n, f[n - 1]>>]

\* A function defined by recursion on 0..m exists.
LEMMA RecursionExists ==
    ASSUME NEW m \in Nat, NEW T, NEW base \in T, NEW step \in [(1..m) \X T -> T]
    PROVE  \E f : Follows(f, m, T, base, step)
<1> DEFINE Good == {k \in 0..m : \E f : Follows(f, k, T, base, step)}
<1>1. 0 \in Good
  <2>1. Follows([n \in 0..0 |-> base], 0, T, base, step)
    BY DEF Follows
  <2> QED BY <2>1
<1>2. ASSUME NEW k \in 1..m, k - 1 \in Good PROVE k \in Good
  <2>1. PICK f : Follows(f, k - 1, T, base, step)
    BY <1>2
  <2> DEFINE g == [n \in 0..k |-> IF n = k THEN step[<<k, f[k - 1]>>] ELSE f[n]]
  <2>2. /\ f \in [0..(k - 1) -> T] /\ f[0] = base
        /\ \A n \in 1..(k - 1) : f[n] = step[<<n, f[n - 1]>>]
    BY <2>1 DEF Follows
  <2>3. g \in [0..k -> T]
    <3>1. \A n \in 0..k : n # k => n \in 0..(k - 1)
      OBVIOUS
    <3> QED BY <2>2, <3>1
  <2>4. \A n \in 0..(k - 1) : g[n] = f[n]
    OBVIOUS
  <2>5. g[k] = step[<<k, f[k - 1]>>]
    OBVIOUS
  <2> HIDE DEF g
  <2>6. ASSUME NEW n \in 1..k PROVE g[n] = step[<<n, g[n - 1]>>]
    <3>1. n - 1 \in 0..(k - 1) /\ (n # k => n \in 1..(k - 1) /\ n \in 0..(k - 1))
      OBVIOUS
    <3> QED BY <3>1, <2>2, <2>4, <2>5
  <2>7. g[0] = base
    BY <2>2, <2>4
  <2>8. Follows(g, k, T, base, step)
    BY <2>3, <2>6, <2>7 DEF Follows
  <2> QED BY <2>8
<1>3. \A k \in 0..m : k \in Good
  <2> HIDE DEF Good
  <2> QED BY <1>1, <1>2, UpTo
<1> QED BY <1>3

\* A function from 1..n is a sequence.
LEMMA IsSequence ==
    ASSUME NEW T, NEW n \in Nat, NEW f \in [1..n -> T]
    PROVE  f \in Seq(T) /\ Len(f) = n
OBVIOUS

\* Two sequences one after the other.
LEMMA Joined ==
    ASSUME NEW T, NEW a \in Seq(T), NEW b \in Seq(T)
    PROVE  /\ a \o b \in Seq(T) /\ Len(a \o b) = Len(a) + Len(b)
           /\ \A i \in 1..Len(a) : (a \o b)[i] = a[i]
           /\ \A i \in 1..Len(b) : (a \o b)[Len(a) + i] = b[i]
<1>1. a \o b \in Seq(T) /\ Len(a \o b) = Len(a) + Len(b)
  OBVIOUS
<1>2. ASSUME NEW i \in 1..Len(a) PROVE (a \o b)[i] = a[i]
  OBVIOUS
<1>3. ASSUME NEW i \in 1..Len(b) PROVE (a \o b)[Len(a) + i] = b[i]
  OBVIOUS
<1> QED BY <1>1, <1>2, <1>3

\* A sequence and one more element.
LEMMA Appended ==
    ASSUME NEW T, NEW s \in Seq(T), NEW x \in T
    PROVE  /\ Append(s, x) \in Seq(T) /\ Len(Append(s, x)) = Len(s) + 1
           /\ Append(s, x)[Len(s) + 1] = x
           /\ \A i \in 1..Len(s) : Append(s, x)[i] = s[i]
OBVIOUS

\* A sequence without its last element.
LEMMA Fronted ==
    ASSUME NEW T, NEW s \in Seq(T), s # <<>>
    PROVE  /\ Len(s) \in Nat \ {0} /\ Last(s) = s[Len(s)] /\ s[Len(s)] \in T
           /\ Front(s) \in Seq(T) /\ Len(Front(s)) = Len(s) - 1
           /\ \A i \in 1..(Len(s) - 1) : Front(s)[i] = s[i]
<1>1. Len(s) \in Nat \ {0} /\ Last(s) = s[Len(s)] /\ s[Len(s)] \in T
  BY DEF Last
<1>2. Front(s) = SubSeq(s, 1, Len(s) - 1)
  BY DEF Front
<1>3. SubSeq(s, 1, Len(s) - 1) \in Seq(T)
  BY <1>1
<1>4. Len(SubSeq(s, 1, Len(s) - 1)) = Len(s) - 1
  <2>1. 1 \in 1..(Len(s) + 1) /\ Len(s) - 1 \in (1 - 1)..Len(s) /\ Len(s) - 1 - 1 + 1 = Len(s) - 1
    BY <1>1
  <2> QED BY <2>1, SubSeqProperties
<1>5. ASSUME NEW i \in 1..(Len(s) - 1) PROVE SubSeq(s, 1, Len(s) - 1)[i] = s[i]
  BY <1>1
<1> QED BY <1>1, <1>2, <1>3, <1>4, <1>5

\* A sequence from its end.
LEMMA Reversed ==
    ASSUME NEW T, NEW s \in Seq(T)
    PROVE  /\ Reverse(s) \in Seq(T) /\ Len(Reverse(s)) = Len(s)
           /\ \A i \in 1..Len(s) : /\ Len(s) + 1 - i \in 1..Len(s)
                                   /\ Reverse(s)[i] = s[Len(s) + 1 - i]
                                   /\ Reverse(s)[Len(s) + 1 - i] = s[i]
<1>1. \A i \in 1..Len(s) : /\ Len(s) + 1 - i \in 1..Len(s) /\ Len(s) - i + 1 = Len(s) + 1 - i
                           /\ Len(s) - (Len(s) + 1 - i) + 1 = i
  OBVIOUS
<1>2. Reverse(s) \in Seq(T) /\ Len(Reverse(s)) = Len(s)
  <2> DEFINE r == [i \in 1..Len(s) |-> s[Len(s) - i + 1]]
  <2>1. \A i \in 1..Len(s) : s[Len(s) - i + 1] \in T
    BY <1>1
  <2>2. r \in [1..Len(s) -> T] /\ Len(s) \in Nat
    BY <2>1
  <2>3. Reverse(s) = r
    BY DEF Reverse
  <2> HIDE DEF r
  <2> QED BY <2>2, <2>3
<1>3. \A i \in 1..Len(s) : Reverse(s)[i] = s[Len(s) - i + 1]
  BY DEF Reverse
<1>4. ASSUME NEW i \in 1..Len(s) PROVE Reverse(s)[Len(s) + 1 - i] = s[i]
  <2> DEFINE j == Len(s) + 1 - i
  <2>1. j \in 1..Len(s) /\ Len(s) - j + 1 = i
    BY <1>1
  <2>2. Reverse(s)[j] = s[Len(s) - j + 1]
    BY <1>3, <2>1
  <2> QED BY <2>1, <2>2
<1>5. \A i \in 1..Len(s) : Reverse(s)[i] = s[Len(s) + 1 - i]
  BY <1>1, <1>3
<1> QED BY <1>1, <1>2, <1>4, <1>5

\* a and c say which sequence of ss, and which place in it, the elements of F
\* come from: F is the first m sequences of ss, one after the other.
FlattenedFrom(F, ss, m, a, c) ==
    /\ a \in [1..Len(F) -> 1..m] /\ c \in [1..Len(F) -> Nat \ {0}]
    /\ \A p \in 1..Len(F) : c[p] \in 1..Len(ss[a[p]]) /\ F[p] = ss[a[p]][c[p]]
    /\ \A p, q \in 1..Len(F) : p < q => a[p] < a[q] \/ (a[p] = a[q] /\ c[p] < c[q])
    /\ \A i \in 1..m : \A k \in 1..Len(ss[i]) : \E p \in 1..Len(F) : a[p] = i /\ c[p] = k

\* One more sequence.
LEMMA FlattenNext ==
    ASSUME NEW T, NEW ss \in Seq(Seq(T)), NEW m \in 1..Len(ss), NEW F \in Seq(T),
           NEW a, NEW c, FlattenedFrom(F, ss, m - 1, a, c)
    PROVE  \E b, d : FlattenedFrom(F \o ss[m], ss, m, b, d)
<1> DEFINE s == ss[m]
           n == Len(F)
           G == F \o s
           b == [p \in 1..Len(G) |-> IF p <= n THEN a[p] ELSE m]
           d == [p \in 1..Len(G) |-> IF p <= n THEN c[p] ELSE p - n]
<1>1. s \in Seq(T) /\ n \in Nat /\ Len(s) \in Nat /\ m \in Nat \ {0}
  OBVIOUS
<1>2. /\ G \in Seq(T) /\ Len(G) = n + Len(s)
      /\ \A i \in 1..n : G[i] = F[i]
      /\ \A i \in 1..Len(s) : G[n + i] = s[i]
  <2>1. F \in Seq(T) /\ s \in Seq(T)
    BY <1>1
  <2> HIDE DEF s
  <2> QED BY <2>1, Joined
<1>3. /\ \A p \in 1..n : a[p] \in 1..(m - 1) /\ c[p] \in Nat \ {0}
      /\ \A p \in 1..n : c[p] \in 1..Len(ss[a[p]]) /\ F[p] = ss[a[p]][c[p]]
      /\ \A p, q \in 1..n : p < q => a[p] < a[q] \/ (a[p] = a[q] /\ c[p] < c[q])
      /\ \A i \in 1..(m - 1) : \A k \in 1..Len(ss[i]) : \E p \in 1..n : a[p] = i /\ c[p] = k
  BY DEF FlattenedFrom
<1> HIDE DEF G, s
<1>4. \A p \in 1..Len(G) : p \in 1..n \/ (p > n /\ p - n \in 1..Len(s) /\ n + (p - n) = p)
  BY <1>1, <1>2
<1>5. \A p \in 1..n : p \in 1..Len(G) /\ b[p] = a[p] /\ d[p] = c[p]
  BY <1>1, <1>2
<1>6. \A p \in 1..Len(G) : p > n => b[p] = m /\ d[p] = p - n
  BY <1>1, <1>2
<1> HIDE DEF b, d, n
<1>7. ASSUME NEW p \in 1..Len(G)
      PROVE  /\ b[p] \in 1..m /\ d[p] \in Nat \ {0}
             /\ d[p] \in 1..Len(ss[b[p]]) /\ G[p] = ss[b[p]][d[p]]
  <2>1. CASE p \in 1..n
    <3>1. a[p] \in 1..(m - 1) /\ c[p] \in Nat \ {0} /\ 1..(m - 1) \subseteq 1..m
      BY <1>1, <1>3, <2>1
    <3> QED BY <1>2, <1>3, <1>5, <2>1, <3>1
  <2>2. CASE p \notin 1..n
    <3>1. p > n /\ p - n \in 1..Len(s) /\ n + (p - n) = p
      BY <1>4, <2>2
    <3>2. G[n + (p - n)] = s[p - n]
      BY <1>2, <3>1
    <3>3. b[p] = m /\ d[p] = p - n /\ G[p] = s[p - n]
      BY <1>6, <3>1, <3>2
    <3>4. m \in 1..m /\ p - n \in Nat \ {0}
      BY <1>1, <3>1
    <3> QED BY <3>1, <3>3, <3>4 DEF s
  <2> QED BY <2>1, <2>2
<1>8. ASSUME NEW p \in 1..Len(G), NEW q \in 1..Len(G), p < q
      PROVE  b[p] < b[q] \/ (b[p] = b[q] /\ d[p] < d[q])
  <2>1. CASE q \in 1..n
    <3>1. p \in 1..n
      BY <1>1, <1>8, <2>1
    <3> QED BY <1>3, <1>5, <1>8, <2>1, <3>1
  <2>2. CASE q \notin 1..n /\ p \in 1..n
    <3>1. b[q] = m /\ b[p] \in 1..(m - 1)
      BY <1>3, <1>4, <1>5, <1>6, <2>2
    <3> QED BY <1>1, <3>1
  <2>3. CASE q \notin 1..n /\ p \notin 1..n
    <3>1. b[q] = m /\ b[p] = m /\ d[p] = p - n /\ d[q] = q - n
      BY <1>4, <1>6, <2>3
    <3> QED BY <1>1, <1>2, <1>8, <3>1
  <2> QED BY <2>1, <2>2, <2>3
<1>9. ASSUME NEW i \in 1..m, NEW k \in 1..Len(ss[i])
      PROVE  \E p \in 1..Len(G) : b[p] = i /\ d[p] = k
  <2>1. CASE i \in 1..(m - 1)
    <3>1. PICK p \in 1..n : a[p] = i /\ c[p] = k
      BY <1>3, <2>1
    <3> QED BY <1>5, <3>1
  <2>2. CASE i = m
    <3>1. k \in 1..Len(s)
      BY <2>2 DEF s
    <3>2. n + k \in 1..Len(G) /\ n + k > n /\ (n + k) - n = k
      BY <1>1, <1>2, <3>1
    <3> QED BY <1>6, <2>2, <3>2
  <2> QED BY <1>1, <2>1, <2>2
<1>10. b \in [1..Len(G) -> 1..m] /\ d \in [1..Len(G) -> Nat \ {0}]
  BY <1>7 DEF b, d
<1>11. FlattenedFrom(G, ss, m, b, d)
  BY <1>7, <1>8, <1>9, <1>10 DEF FlattenedFrom
<1> QED BY <1>11 DEF G, s

\* FlattenSeq puts the sequences one after the other.
LEMMA Flattened ==
    ASSUME NEW T, NEW ss \in Seq(Seq(T))
    PROVE  /\ FlattenSeq(ss) \in Seq(T)
           /\ \E a, c : FlattenedFrom(FlattenSeq(ss), ss, Len(ss), a, c)
<1>1. CASE Len(ss) = 0
  <2>1. FlattenSeq(ss) = ss /\ ss = <<>>
    BY <1>1 DEF FlattenSeq
  <2>2. <<>> \in Seq(T) /\ Len(<<>>) = 0
    OBVIOUS
  <2>3. FlattenedFrom(<<>>, ss, 0, [i \in {} |-> 0], [i \in {} |-> 0])
    BY DEF FlattenedFrom
  <2> QED BY <1>1, <2>1, <2>2, <2>3
<1>2. CASE Len(ss) # 0
  <2> DEFINE m == Len(ss)
             IsFlat(f) == f = [i \in 1..m |-> IF i = 1 THEN ss[i] ELSE f[i - 1] \o ss[i]]
             step == [x \in (1..m) \X Seq(T) |-> x[2] \o ss[x[1]]]
  <2>1. m \in Nat \ {0} /\ \A i \in 1..m : ss[i] \in Seq(T)
    BY <1>2
  <2>2. \A s, t \in Seq(T) : s \o t \in Seq(T)
    BY Joined
  <2>3. \A t \in Seq(T) : <<>> \o t = t
    OBVIOUS
  <2>4. \E f : IsFlat(f)
    <3>1. step \in [(1..m) \X Seq(T) -> Seq(T)]
      BY <2>1, <2>2
    <3>2. PICK g : Follows(g, m, Seq(T), <<>>, step)
      <4>1. <<>> \in Seq(T) /\ m \in Nat
        BY <2>1
      <4> HIDE DEF step, m
      <4> QED BY <3>1, <4>1, RecursionExists
    <3>3. g \in [0..m -> Seq(T)] /\ g[0] = <<>>
      BY <3>2 DEF Follows
    <3>4. ASSUME NEW i \in 1..m PROVE g[i] = g[i - 1] \o ss[i]
      <4>1. i - 1 \in 0..m /\ g[i - 1] \in Seq(T)
        <5> HIDE DEF m, step
        <5> QED BY <2>1, <3>3
      <4>2. step[<<i, g[i - 1]>>] = g[i - 1] \o ss[i]
        BY <4>1
      <4> QED BY <3>2, <4>2 DEF Follows
    <3> DEFINE f == [i \in 1..m |-> g[i]]
    <3>5. ASSUME NEW i \in 1..m PROVE f[i] = IF i = 1 THEN ss[i] ELSE f[i - 1] \o ss[i]
      <4>1. CASE i = 1
        <5>1. g[1] = g[1 - 1] \o ss[1]
          BY <3>4, <4>1, Zenon
        <5>2. 1 - 1 = 0
          OBVIOUS
        <5> QED BY <2>1, <2>3, <3>3, <4>1, <5>1, <5>2
      <4>2. CASE i # 1
        <5>1. i - 1 \in 1..m
          BY <2>1, <4>2
        <5> QED BY <3>4, <4>2, <5>1
      <4> QED BY <4>1, <4>2
    <3>6. IsFlat(f)
      BY <3>5
    <3> QED BY <3>6
  <2>5. PICK f : IsFlat(f) /\ FlattenSeq(ss) = f[m]
    BY <1>2, <2>4 DEF FlattenSeq
  <2>6. \A i \in 1..m : f[i] = IF i = 1 THEN ss[i] ELSE f[i - 1] \o ss[i]
    BY <2>5
  <2> DEFINE Good == {0} \cup {i \in 1..m : f[i] \in Seq(T) /\ \E a, c : FlattenedFrom(f[i], ss, i, a, c)}
  <2>7. ASSUME NEW i \in 1..m, i - 1 \in Good PROVE i \in Good
    <3>1. CASE i = 1
      <4>1. FlattenedFrom(<<>>, ss, 1 - 1, [j \in {} |-> 0], [j \in {} |-> 0])
        BY DEF FlattenedFrom
      <4>2. \E a, c : FlattenedFrom(<<>> \o ss[1], ss, 1, a, c)
        <5>1. 1 \in 1..Len(ss) /\ <<>> \in Seq(T)
          BY <2>1
        <5> QED BY <4>1, <5>1, FlattenNext
      <4>3. f[1] = ss[1] /\ ss[1] \in Seq(T) /\ 1 \in 1..m
        BY <2>1, <2>6
      <4> QED BY <2>3, <3>1, <4>2, <4>3
    <3>2. CASE i # 1
      <4>1. i - 1 \in 1..m /\ f[i] = f[i - 1] \o ss[i]
        <5> HIDE DEF m
        <5>1. i - 1 \in 1..m
          BY <2>1, <3>2
        <5>2. f[i] = f[i - 1] \o ss[i]
          BY <2>6, <3>2, Zenon
        <5> QED BY <5>1, <5>2
      <4>2. f[i - 1] \in Seq(T) /\ \E a, c : FlattenedFrom(f[i - 1], ss, i - 1, a, c)
        BY <2>7, <4>1
      <4>3. PICK a, c : FlattenedFrom(f[i - 1], ss, i - 1, a, c)
        BY <4>2
      <4>4. \E b, d : FlattenedFrom(f[i - 1] \o ss[i], ss, i, b, d)
        BY <4>2, <4>3, FlattenNext
      <4>5. f[i] \in Seq(T)
        BY <2>1, <2>2, <4>1, <4>2
      <4> QED BY <4>1, <4>4, <4>5
    <3> QED BY <3>1, <3>2
  <2>8. m \in Good
    <3>1. m \in Nat /\ 0 \in Good
      BY <2>1
    <3>2. \A i \in 0..m : i \in Good
      <4> HIDE DEF Good, m
      <4> QED BY <2>7, <3>1, UpTo
    <3> QED BY <3>1, <3>2
  <2>9. m \in 1..m /\ f[m] \in Seq(T) /\ \E a, c : FlattenedFrom(f[m], ss, m, a, c)
    BY <2>1, <2>8
  <2> QED BY <2>5, <2>9
<1> QED BY <1>1, <1>2

\* Every set of numbers up to a bound that is not empty has a greatest one.
LEMMA GreatestNumber ==
    ASSUME NEW m \in Nat, NEW S \in SUBSET (0..m), S # {}
    PROVE  \E n \in S : \A k \in S : k <= n
<1> DEFINE D == {m - n : n \in S}
<1>1. D \in SUBSET Nat /\ D # {}
  <2>1. \A n \in S : m - n \in Nat
    OBVIOUS
  <2>2. \E n \in S : TRUE
    OBVIOUS
  <2> QED BY <2>1, <2>2
<1>2. PICK d \in D : \A e \in D : d <= e
  <2> HIDE DEF D
  <2> QED BY <1>1, LeastNumber
<1>3. PICK n \in S : d = m - n
  BY <1>2
<1>4. ASSUME NEW k \in S PROVE k <= n
  <2>1. m - k \in D
    OBVIOUS
  <2>2. d <= m - k
    BY <1>2, <2>1
  <2>3. k \in 0..m /\ n \in 0..m
    OBVIOUS
  <2> QED BY <1>3, <2>2, <2>3
<1> QED BY <1>4

\* How many members of E there are before r.
MembersBefore(E, r) == Cardinality({q \in 1..(r - 1) : q \in E})

\* Counting one more number.
LEMMA CountBefore ==
    ASSUME NEW E, NEW r \in Nat \ {0}
    PROVE  /\ IsFiniteSet({q \in 1..(r - 1) : q \in E})
           /\ MembersBefore(E, r) \in Nat /\ MembersBefore(E, 1) = 0
           /\ MembersBefore(E, r + 1) = IF r \in E THEN MembersBefore(E, r) + 1 ELSE MembersBefore(E, r)
<1> DEFINE B(s) == {q \in 1..(s - 1) : q \in E}
<1>1. ASSUME NEW s \in Nat \ {0} PROVE IsFiniteSet(B(s)) /\ Cardinality(B(s)) \in Nat
  <2>1. IsFiniteSet(1..(s - 1))
    <3>1. 1 \in Int /\ s - 1 \in Int
      OBVIOUS
    <3> QED BY <3>1, FS_Interval
  <2>2. B(s) \in SUBSET (1..(s - 1))
    OBVIOUS
  <2> HIDE DEF B
  <2>3. IsFiniteSet(B(s))
    BY <2>1, <2>2, FS_Subset
  <2> QED BY <2>3, FS_CardinalityType
<1>2. B(1) = {}
  OBVIOUS
<1>3. B(r + 1) = IF r \in E THEN B(r) \cup {r} ELSE B(r)
  OBVIOUS
<1>4. r \notin B(r)
  OBVIOUS
<1>5. \A s : MembersBefore(E, s) = Cardinality(B(s))
  BY DEF MembersBefore
<1> HIDE DEF B
<1>6. IsFiniteSet(B(r)) /\ Cardinality(B(r)) \in Nat
  BY <1>1
<1>7. Cardinality(B(r) \cup {r}) = Cardinality(B(r)) + 1
  BY <1>4, <1>6, FS_AddElement
<1>8. MembersBefore(E, 1) = 0
  BY <1>2, <1>5, FS_EmptySet
<1>9. IsFiniteSet({q \in 1..(r - 1) : q \in E})
  BY <1>6 DEF B
<1> QED BY <1>3, <1>5, <1>6, <1>7, <1>8, <1>9

\* The count grows, and it does so exactly when a member is passed.
LEMMA CountGrows ==
    ASSUME NEW E, NEW q \in Nat \ {0}, NEW r \in Nat \ {0}, q <= r
    PROVE  /\ MembersBefore(E, q) <= MembersBefore(E, r)
           /\ MembersBefore(E, q) = MembersBefore(E, r) <=> \A e \in q..(r - 1) : e \notin E
<1> DEFINE Good == {d \in 0..(r - q) :
                      /\ MembersBefore(E, q) <= MembersBefore(E, q + d)
                      /\ MembersBefore(E, q) = MembersBefore(E, q + d) <=> \A e \in q..(q + d - 1) : e \notin E}
<1>1. \A s \in Nat \ {0} : MembersBefore(E, s) \in Nat
  BY CountBefore
<1>2. 0 \in Good
  <2>1. q + 0 = q /\ 0 \in 0..(r - q) /\ \A e \in q..(q + 0 - 1) : e \notin E
    OBVIOUS
  <2>2. MembersBefore(E, q) \in Nat /\ MembersBefore(E, q) = MembersBefore(E, q + 0)
    BY <1>1, <2>1, Zenon
  <2> QED BY <2>1, <2>2
<1>3. ASSUME NEW d \in 1..(r - q), d - 1 \in Good PROVE d \in Good
  <2> DEFINE s == q + (d - 1)
  <2>1. s \in Nat \ {0} /\ q + d = s + 1 /\ d \in 0..(r - q) /\ q <= s
    OBVIOUS
  <2>2. /\ MembersBefore(E, s) \in Nat
        /\ MembersBefore(E, s + 1) = IF s \in E THEN MembersBefore(E, s) + 1 ELSE MembersBefore(E, s)
    <3> HIDE DEF s
    <3> QED BY <2>1, CountBefore
  <2>3. /\ MembersBefore(E, q) <= MembersBefore(E, s)
        /\ MembersBefore(E, q) = MembersBefore(E, s) <=> \A e \in q..(s - 1) : e \notin E
    BY <1>3
  <2>4. MembersBefore(E, q) \in Nat
    BY <1>1
  <2> HIDE DEF s
  <2>5. \A e \in q..(s + 1 - 1) : e = s \/ e \in q..(s - 1)
    BY <2>1
  <2>6. s \in q..(s + 1 - 1) /\ \A e \in q..(s - 1) : e \in q..(s + 1 - 1)
    BY <2>1
  <2>7. (\A e \in q..(s + 1 - 1) : e \notin E) <=> s \notin E /\ \A e \in q..(s - 1) : e \notin E
    BY <2>5, <2>6, Zenon
  <2>8. /\ MembersBefore(E, q) <= MembersBefore(E, s + 1)
        /\ MembersBefore(E, q) = MembersBefore(E, s + 1)
             <=> s \notin E /\ MembersBefore(E, q) = MembersBefore(E, s)
    BY <2>2, <2>3, <2>4
  <2>9. /\ MembersBefore(E, q) <= MembersBefore(E, q + d)
        /\ MembersBefore(E, q) = MembersBefore(E, q + d) <=> \A e \in q..(q + d - 1) : e \notin E
    BY <2>1, <2>3, <2>7, <2>8
  <2> QED BY <2>1, <2>9
<1>4. r - q \in Good
  <2>1. r - q \in Nat /\ r - q \in 0..(r - q)
    OBVIOUS
  <2>2. \A d \in 0..(r - q) : d \in Good
    <3> HIDE DEF Good
    <3> QED BY <1>2, <1>3, <2>1, UpTo
  <2> QED BY <2>1, <2>2
<1>5. q + (r - q) = r
  OBVIOUS
<1> QED BY <1>4, <1>5

\* Products of numbers.
LEMMA Times ==
    ASSUME NEW c \in Nat, NEW m \in Nat
    PROVE  c * m \in Nat /\ (c # 0 => m <= c * m)
OBVIOUS

\* The two digits of a number are determined.
LEMMA Digits ==
    ASSUME NEW m \in Nat, NEW a \in Nat, NEW b \in Nat, NEW x \in 0..(m - 1), NEW y \in 0..(m - 1),
           a * m + x = b * m + y
    PROVE  a = b /\ x = y
<1>1. a * m \in Nat /\ b * m \in Nat
  BY Times
<1>2. ASSUME a < b PROVE FALSE
  <2>1. b - a \in Nat \ {0}
    BY <1>2
  <2>2. m <= (b - a) * m
    BY <2>1, Times
  <2>3. (b - a) * m = b * m - a * m
    OBVIOUS
  <2> QED BY <1>1, <2>2, <2>3
<1>3. ASSUME b < a PROVE FALSE
  <2>1. a - b \in Nat \ {0}
    BY <1>3
  <2>2. m <= (a - b) * m
    BY <2>1, Times
  <2>3. (a - b) * m = a * m - b * m
    OBVIOUS
  <2> QED BY <1>1, <2>2, <2>3
<1>4. a = b
  BY <1>2, <1>3
<1> QED BY <1>1, <1>4

\* Quotient and remainder.
LEMMA DivMod ==
    ASSUME NEW x \in Nat, NEW m \in Nat \ {0}
    PROVE  /\ x \div m \in Nat /\ x % m \in 0..(m - 1)
           /\ x = ((x \div m) * m) + (x % m)
OBVIOUS

\* A number leaves no remainder when divided by itself.
LEMMA ZeroMod ==
    ASSUME NEW m \in Nat \ {0}
    PROVE  m % m = 0
<1>1. m = ((m \div m) * m) + (m % m) /\ m \div m \in Nat /\ m % m \in 0..(m - 1)
  BY DivMod
<1>2. m = 1 * m + 0 /\ 0 \in 0..(m - 1) /\ 1 \in Nat
  OBVIOUS
<1> QED BY <1>1, <1>2, Digits

\* Induction on finite sets: what holds of the empty set and with a set of the
\* set and one more element holds of every finite set.
LEMMA OneByOne ==
    ASSUME NEW S, IsFiniteSet(S), NEW Good, {} \in Good,
           \A t \in SUBSET S : \A x \in S \ t : t \in Good => t \cup {x} \in Good
    PROVE  S \in Good
<1> DEFINE G == {n \in 0..Cardinality(S) : \A t \in SUBSET S : Cardinality(t) = n => t \in Good}
<1>1. Cardinality(S) \in Nat
  BY FS_CardinalityType
<1>2. ASSUME NEW t \in SUBSET S PROVE IsFiniteSet(t) /\ Cardinality(t) \in Nat
  <2>1. IsFiniteSet(t)
    BY FS_Subset
  <2> QED BY <2>1, FS_CardinalityType
<1>3. 0 \in G
  <2>1. ASSUME NEW t \in SUBSET S, Cardinality(t) = 0 PROVE t = {}
    <3>1. IsFiniteSet(t)
      BY <1>2
    <3> QED BY <2>1, <3>1, FS_EmptySet
  <2>2. 0 \in 0..Cardinality(S)
    BY <1>1
  <2>3. \A t \in SUBSET S : Cardinality(t) = 0 => t \in Good
    BY <2>1, Zenon
  <2> QED BY <2>2, <2>3
<1>4. ASSUME NEW n \in 1..Cardinality(S), n - 1 \in G PROVE n \in G
  <2>1. ASSUME NEW t \in SUBSET S, Cardinality(t) = n PROVE t \in Good
    <3>1. IsFiniteSet(t) /\ n # 0 /\ n \in Nat
      BY <1>1, <1>2
    <3>2. t # {}
      BY <2>1, <3>1, FS_EmptySet
    <3>3. PICK x \in t : TRUE
      BY <3>2
    <3>4. Cardinality(t \ {x}) = n - 1
      BY <2>1, <3>1, <3>3, FS_RemoveElement
    <3>5. t \ {x} \in Good
      BY <1>4, <3>4
    <3>6. t \ {x} \in SUBSET S /\ x \in S \ (t \ {x}) /\ (t \ {x}) \cup {x} = t
      BY <3>3
    <3> QED BY <3>5, <3>6
  <2> QED BY <1>1, <2>1
<1>5. \A n \in 0..Cardinality(S) : n \in G
  <2> HIDE DEF G
  <2> QED BY <1>1, <1>3, <1>4, UpTo
<1>6. Cardinality(S) \in G
  <2> HIDE DEF G
  <2> QED BY <1>1, <1>5
<1> QED BY <1>6

-----------------------------------------------------------------------------
(* Sums of the values of a function.                                         *)

Pick(s) == CHOOSE x \in s : TRUE

\* g is the sum of f over every subset of S.
Summing(g, f, S) ==
    g = [s \in SUBSET S |-> IF s = {} THEN 0 ELSE f[Pick(s)] + g[s \ {Pick(s)}]]

\* Taking an element out of a finite set makes it smaller by one.
LEMMA Picked ==
    ASSUME NEW S, IsFiniteSet(S), NEW s \in SUBSET S, s # {}
    PROVE  /\ Pick(s) \in s /\ s \ {Pick(s)} \in SUBSET S
           /\ Cardinality(s) \in 1..Cardinality(S) /\ Cardinality(s \ {Pick(s)}) = Cardinality(s) - 1
<1>1. Pick(s) \in s
  BY DEF Pick
<1>2. IsFiniteSet(s) /\ Cardinality(s) <= Cardinality(S)
  BY FS_Subset
<1>3. Cardinality(s) \in Nat /\ Cardinality(S) \in Nat /\ Cardinality(s) # 0
  BY <1>2, FS_CardinalityType, FS_EmptySet
<1>4. Cardinality(s \ {Pick(s)}) = Cardinality(s) - 1
  BY <1>1, <1>2, FS_RemoveElement
<1> QED BY <1>1, <1>2, <1>3, <1>4

\* There is a sum over every subset.
LEMMA SummingExists ==
    ASSUME NEW S, IsFiniteSet(S), NEW f, \A x \in S : f[x] \in Int
    PROVE  \E g : Summing(g, f, S)
<1> DEFINE m == Cardinality(S)
           T == [SUBSET S -> Int]
           base == [s \in SUBSET S |-> 0]
           next(h) == [s \in SUBSET S |-> IF s = {} THEN 0 ELSE f[Pick(s)] + h[s \ {Pick(s)}]]
           step == [x \in (1..m) \X T |-> next(x[2])]
<1>1. m \in Nat
  BY FS_CardinalityType
<1>2. base \in T
  <2>1. 0 \in Int
    OBVIOUS
  <2> QED BY <2>1, Zenon
<1>3. ASSUME NEW h \in T PROVE next(h) \in T
  <2>1. ASSUME NEW s \in SUBSET S, s # {} PROVE f[Pick(s)] + h[s \ {Pick(s)}] \in Int
    <3>1. Pick(s) \in S /\ s \ {Pick(s)} \in SUBSET S
      BY <2>1, Picked
    <3>2. f[Pick(s)] \in Int /\ h[s \ {Pick(s)}] \in Int
      BY <3>1
    <3> QED BY <3>2
  <2> QED BY <2>1
<1>4. step \in [(1..m) \X T -> T]
  <2> HIDE DEF T, next, m
  <2>1. \A x \in (1..m) \X T : x[2] \in T
    OBVIOUS
  <2>2. \A x \in (1..m) \X T : next(x[2]) \in T
    BY <1>3, <2>1
  <2> QED BY <2>2
<1>5. PICK h : Follows(h, m, T, base, step)
  <2> HIDE DEF T, base, step, m
  <2> QED BY <1>1, <1>2, <1>4, RecursionExists
<1>6. /\ h \in [0..m -> T] /\ h[0] = base
      /\ \A n \in 1..m : h[n] = step[<<n, h[n - 1]>>]
  BY <1>5 DEF Follows
<1>7. ASSUME NEW n \in 1..m PROVE h[n] = next(h[n - 1])
  <2>1. n - 1 \in 0..m /\ h[n - 1] \in T
    <3> HIDE DEF T, m
    <3> QED BY <1>1, <1>6
  <2>2. step[<<n, h[n - 1]>>] = next(h[n - 1])
    <3> HIDE DEF T, next
    <3> QED BY <2>1
  <2> QED BY <1>6, <2>2, Zenon
<1> DEFINE g == [s \in SUBSET S |-> h[Cardinality(s)][s]]
<1>8. ASSUME NEW s \in SUBSET S
      PROVE  g[s] = IF s = {} THEN 0 ELSE f[Pick(s)] + g[s \ {Pick(s)}]
  <2>1. CASE s = {}
    <3>1. Cardinality(s) = 0
      BY <2>1, FS_EmptySet
    <3>2. g[s] = h[0][s]
      BY <3>1
    <3>3. h[0][s] = 0
      BY <1>6
    <3> QED BY <2>1, <3>2, <3>3
  <2>2. CASE s # {}
    <3> DEFINE p == Pick(s)
               n == Cardinality(s)
    <3>1. s \ {p} \in SUBSET S /\ n \in 1..m /\ Cardinality(s \ {p}) = n - 1
      BY <2>2, Picked
    <3>2. g[s] = h[n][s]
      OBVIOUS
    <3>3. h[n] = next(h[n - 1])
      BY <1>7, <3>1
    <3>4. h[n][s] = f[p] + h[n - 1][s \ {p}]
      <4> HIDE DEF p, n, m
      <4>1. next(h[n - 1])[s] = f[Pick(s)] + h[n - 1][s \ {Pick(s)}]
        BY <2>2
      <4> QED BY <3>3, <4>1 DEF p
    <3>5. g[s \ {p}] = h[n - 1][s \ {p}]
      <4> HIDE DEF p, n, m
      <4> QED BY <3>1
    <3> QED BY <2>2, <3>2, <3>4, <3>5
  <2> QED BY <2>1, <2>2
<1>9. Summing(g, f, S)
  <2>1. g = [s \in SUBSET S |-> g[s]]
    OBVIOUS
  <2> HIDE DEF g
  <2>2. [s \in SUBSET S |-> g[s]]
          = [s \in SUBSET S |-> IF s = {} THEN 0 ELSE f[Pick(s)] + g[s \ {Pick(s)}]]
    BY <1>8
  <2> QED BY <2>1, <2>2 DEF Summing
<1> QED BY <1>9

\* The sum over a subset does not depend on the set it is taken from.
LEMMA SummingUnique ==
    ASSUME NEW S, IsFiniteSet(S), NEW f, NEW R \in SUBSET S, NEW g, NEW h,
           Summing(g, f, S), Summing(h, f, R)
    PROVE  g[R] = h[R]
<1> DEFINE m == Cardinality(R)
           Good == {n \in 0..m : \A s \in SUBSET R : Cardinality(s) = n => g[s] = h[s]}
<1>1. IsFiniteSet(R) /\ m \in Nat
  <2>1. IsFiniteSet(R)
    BY FS_Subset
  <2> QED BY <2>1, FS_CardinalityType
<1>2. ASSUME NEW s \in SUBSET R
      PROVE  /\ g[s] = IF s = {} THEN 0 ELSE f[Pick(s)] + g[s \ {Pick(s)}]
             /\ h[s] = IF s = {} THEN 0 ELSE f[Pick(s)] + h[s \ {Pick(s)}]
  <2>1. s \in SUBSET S
    OBVIOUS
  <2>2. g[s] = IF s = {} THEN 0 ELSE f[Pick(s)] + g[s \ {Pick(s)}]
    BY <2>1, Zenon DEF Summing
  <2>3. h[s] = IF s = {} THEN 0 ELSE f[Pick(s)] + h[s \ {Pick(s)}]
    BY Zenon DEF Summing
  <2> QED BY <2>2, <2>3
<1>3. 0 \in Good
  <2>1. ASSUME NEW s \in SUBSET R, Cardinality(s) = 0 PROVE g[s] = h[s]
    <3>1. IsFiniteSet(s)
      BY <1>1, FS_Subset
    <3>2. s = {}
      BY <2>1, <3>1, FS_EmptySet
    <3> QED BY <1>2, <3>2
  <2> QED BY <1>1, <2>1
<1>4. ASSUME NEW n \in 1..m, n - 1 \in Good PROVE n \in Good
  <2>1. ASSUME NEW s \in SUBSET R, Cardinality(s) = n PROVE g[s] = h[s]
    <3>1. s # {}
      BY <2>1, FS_EmptySet
    <3>2. s \ {Pick(s)} \in SUBSET R /\ Cardinality(s \ {Pick(s)}) = n - 1
      BY <1>1, <2>1, <3>1, Picked
    <3>3. g[s \ {Pick(s)}] = h[s \ {Pick(s)}]
      BY <1>4, <3>2
    <3> QED BY <1>2, <3>1, <3>3
  <2> QED BY <1>1, <2>1
<1>5. \A n \in 0..m : n \in Good
  <2> HIDE DEF Good, m
  <2> QED BY <1>1, <1>3, <1>4, UpTo
<1>6. m \in Good
  <2> HIDE DEF Good, m
  <2> QED BY <1>1, <1>5
<1> QED BY <1>6

\* SumFunctionOnSet takes one element after the other.
LEMMA SumPick ==
    ASSUME NEW S, IsFiniteSet(S), NEW f, \A x \in S : f[x] \in Int
    PROVE  SumFunctionOnSet(f, S) =
             IF S = {} THEN 0 ELSE f[Pick(S)] + SumFunctionOnSet(f, S \ {Pick(S)})
<1>1. ASSUME NEW R \in SUBSET S
      PROVE  \E g : Summing(g, f, R) /\ SumFunctionOnSet(f, R) = g[R]
  <2>1. IsFiniteSet(R) /\ \A x \in R : f[x] \in Int
    BY FS_Subset
  <2>2. \E g : Summing(g, f, R)
    BY <2>1, SummingExists
  <2> DEFINE IsIt(g) == g = [s \in SUBSET R |-> IF s = {} THEN 0 ELSE f[CHOOSE x \in s : TRUE] + g[s \ {CHOOSE x \in s : TRUE}]]
             g0 == CHOOSE g : IsIt(g)
  <2>3. SumFunctionOnSet(f, R) = g0[R]
    BY DEF SumFunctionOnSet, FoldFunctionOnSet, MapThenFoldSet
  <2>4. Summing(g0, f, R)
    BY <2>2 DEF Summing, Pick
  <2> QED BY <2>3, <2>4
<1>2. PICK g : Summing(g, f, S) /\ SumFunctionOnSet(f, S) = g[S]
  BY <1>1
<1>3. g[S] = IF S = {} THEN 0 ELSE f[Pick(S)] + g[S \ {Pick(S)}]
  <2>1. S \in SUBSET S
    OBVIOUS
  <2> QED BY <1>2, <2>1, Zenon DEF Summing
<1>4. ASSUME S # {} PROVE g[S \ {Pick(S)}] = SumFunctionOnSet(f, S \ {Pick(S)})
  <2> DEFINE R == S \ {Pick(S)}
  <2>1. R \in SUBSET S
    OBVIOUS
  <2>2. PICK h : Summing(h, f, R) /\ SumFunctionOnSet(f, R) = h[R]
    BY <1>1, <2>1
  <2> HIDE DEF R
  <2>3. g[R] = h[R]
    BY <1>2, <2>1, <2>2, SummingUnique
  <2> QED BY <2>2, <2>3 DEF R
<1> QED BY <1>2, <1>3, <1>4

\* A sum of integers is an integer.
LEMMA SumInt ==
    ASSUME NEW S, IsFiniteSet(S), NEW f, \A x \in S : f[x] \in Int
    PROVE  SumFunctionOnSet(f, S) \in Int
<1> DEFINE m == Cardinality(S)
           Good == {n \in 0..m : \A s \in SUBSET S :
                      Cardinality(s) = n => SumFunctionOnSet(f, s) \in Int}
<1>1. m \in Nat /\ \A s \in SUBSET S : IsFiniteSet(s) /\ Cardinality(s) \in Nat
  BY FS_Subset, FS_CardinalityType
<1>2. ASSUME NEW s \in SUBSET S
      PROVE  SumFunctionOnSet(f, s) =
               IF s = {} THEN 0 ELSE f[Pick(s)] + SumFunctionOnSet(f, s \ {Pick(s)})
  <2>1. IsFiniteSet(s) /\ \A x \in s : f[x] \in Int
    BY <1>1
  <2> QED BY <2>1, SumPick
<1>3. 0 \in Good
  <2>1. ASSUME NEW s \in SUBSET S, Cardinality(s) = 0 PROVE SumFunctionOnSet(f, s) \in Int
    <3>1. IsFiniteSet(s)
      BY <1>1
    <3>2. s = {}
      BY <2>1, <3>1, FS_EmptySet
    <3>3. SumFunctionOnSet(f, s) = 0
      BY <1>2, <3>2
    <3> QED BY <3>3
  <2> QED BY <1>1, <2>1
<1>4. ASSUME NEW n \in 1..m, n - 1 \in Good PROVE n \in Good
  <2>1. ASSUME NEW s \in SUBSET S, Cardinality(s) = n PROVE SumFunctionOnSet(f, s) \in Int
    <3>1. s # {}
      BY <2>1, FS_EmptySet
    <3>2. Pick(s) \in s /\ s \ {Pick(s)} \in SUBSET S /\ Cardinality(s \ {Pick(s)}) = n - 1
      BY <2>1, <3>1, Picked
    <3>3. SumFunctionOnSet(f, s \ {Pick(s)}) \in Int /\ f[Pick(s)] \in Int
      BY <1>4, <3>2
    <3>4. SumFunctionOnSet(f, s) = f[Pick(s)] + SumFunctionOnSet(f, s \ {Pick(s)})
      BY <1>2, <3>1
    <3> QED BY <3>3, <3>4
  <2> QED BY <1>1, <2>1
<1>5. \A n \in 0..m : n \in Good
  <2> HIDE DEF Good, m
  <2> QED BY <1>1, <1>3, <1>4, UpTo
<1>6. m \in Good
  <2> HIDE DEF Good, m
  <2> QED BY <1>1, <1>5
<1> QED BY <1>6

\* Any element of the set may be taken first.
LEMMA SumTake ==
    ASSUME NEW S, IsFiniteSet(S), NEW f, \A x \in S : f[x] \in Int, NEW y \in S
    PROVE  SumFunctionOnSet(f, S) = f[y] + SumFunctionOnSet(f, S \ {y})
<1> DEFINE m == Cardinality(S)
           Sum(s) == SumFunctionOnSet(f, s)
           Good == {n \in 0..m : \A s \in SUBSET S : Cardinality(s) = n =>
                      \A x \in s : Sum(s) = f[x] + Sum(s \ {x})}
<1>1. m \in Nat /\ \A s \in SUBSET S : IsFiniteSet(s) /\ Cardinality(s) \in Nat
  BY FS_Subset, FS_CardinalityType
<1>2. ASSUME NEW s \in SUBSET S
      PROVE  Sum(s) \in Int /\ Sum(s) = IF s = {} THEN 0 ELSE f[Pick(s)] + Sum(s \ {Pick(s)})
  <2>1. IsFiniteSet(s) /\ \A x \in s : f[x] \in Int
    BY <1>1
  <2>2. Sum(s) \in Int
    BY <2>1, SumInt
  <2> QED BY <2>1, <2>2, SumPick
<1> HIDE DEF Sum
<1>3. 0 \in Good
  <2>1. ASSUME NEW s \in SUBSET S, Cardinality(s) = 0 PROVE s = {}
    <3>1. IsFiniteSet(s)
      BY <1>1
    <3> QED BY <2>1, <3>1, FS_EmptySet
  <2>2. 0 \in 0..m
    BY <1>1
  <2> QED BY <2>1, <2>2
<1>4. ASSUME NEW n \in 1..m, n - 1 \in Good PROVE n \in Good
  <2>1. ASSUME NEW s \in SUBSET S, Cardinality(s) = n, NEW x \in s
        PROVE  Sum(s) = f[x] + Sum(s \ {x})
    <3> DEFINE p == Pick(s)
    <3>1. s # {}
      OBVIOUS
    <3>2. p \in s /\ s \ {p} \in SUBSET S /\ Cardinality(s \ {p}) = n - 1
      BY <2>1, <3>1, Picked
    <3>3. Sum(s) = f[p] + Sum(s \ {p})
      BY <1>2, <3>1
    <3> HIDE DEF p
    <3>4. CASE x = p
      BY <3>3, <3>4
    <3>5. CASE x # p
      <4>1. s \ {x} \in SUBSET S /\ Cardinality(s \ {x}) = n - 1
        <5>1. IsFiniteSet(s)
          BY <1>1
        <5> QED BY <2>1, <5>1, FS_RemoveElement
      <4>2. x \in s \ {p} /\ p \in s \ {x} /\ (s \ {p}) \ {x} = (s \ {x}) \ {p}
        BY <3>2, <3>5
      <4>3. Sum(s \ {p}) = f[x] + Sum((s \ {p}) \ {x})
        BY <1>4, <3>2, <4>2
      <4>4. Sum(s \ {x}) = f[p] + Sum((s \ {x}) \ {p})
        BY <1>4, <4>1, <4>2
      <4> DEFINE a == f[x]
                 b == f[p]
                 c == Sum((s \ {p}) \ {x})
                 d == Sum(s \ {p})
                 e == Sum(s \ {x})
                 t == Sum(s)
      <4>5. a \in Int /\ b \in Int /\ c \in Int /\ d = a + c /\ e = b + c /\ t = b + d
        <5>1. x \in S /\ p \in S /\ (s \ {p}) \ {x} \in SUBSET S
          BY <3>2
        <5>2. c \in Int
          BY <1>2, <5>1
        <5> QED BY <3>3, <4>2, <4>3, <4>4, <5>1, <5>2
      <4> HIDE DEF a, b, c, d, e, t
      <4>6. t = a + e
        BY <4>5
      <4> QED BY <4>6 DEF a, e, t
    <3> QED BY <3>4, <3>5
  <2>2. n \in 0..m
    BY <1>1
  <2>3. \A s \in SUBSET S : Cardinality(s) = n => \A x \in s : Sum(s) = f[x] + Sum(s \ {x})
    BY <2>1
  <2> QED BY <2>2, <2>3
<1>5. \A n \in 0..m : n \in Good
  <2> HIDE DEF Good, m
  <2> QED BY <1>1, <1>3, <1>4, UpTo
<1>6. m \in Good
  <2> HIDE DEF Good, m
  <2> QED BY <1>1, <1>5
<1>7. Sum(S) = f[y] + Sum(S \ {y})
  BY <1>6
<1> QED BY <1>7 DEF Sum

\* What adding an element to a set does to the sum.
LEMMA SumGrow ==
    ASSUME NEW S, IsFiniteSet(S), NEW f, NEW y, y \notin S, f[y] \in Int, \A x \in S : f[x] \in Int
    PROVE  SumFunctionOnSet(f, S \cup {y}) = f[y] + SumFunctionOnSet(f, S)
<1> DEFINE R == S \cup {y}
<1>1. y \in R /\ R \ {y} = S /\ \A x \in R : f[x] \in Int
  OBVIOUS
<1>2. IsFiniteSet(R)
  BY FS_AddElement
<1> HIDE DEF R
<1>3. SumFunctionOnSet(f, R) = f[y] + SumFunctionOnSet(f, R \ {y})
  BY <1>1, <1>2, SumTake
<1> QED BY <1>1, <1>3 DEF R

\* Nothing adds up to 0.
LEMMA SumEmpty ==
    ASSUME NEW f PROVE SumFunctionOnSet(f, {}) = 0
<1>1. IsFiniteSet({}) /\ \A x \in {} : f[x] \in Int
  BY FS_EmptySet
<1> QED BY <1>1, SumPick

\* A sum is as large as its terms make it.
LEMMA SumBound ==
    ASSUME NEW S, IsFiniteSet(S), NEW f, NEW g,
           \A x \in S : f[x] \in Int /\ g[x] \in Int /\ f[x] <= g[x]
    PROVE  SumFunctionOnSet(f, S) <= SumFunctionOnSet(g, S)
<1> DEFINE Good == {t \in SUBSET S : SumFunctionOnSet(f, t) <= SumFunctionOnSet(g, t)}
<1>1. {} \in Good
  <2>1. SumFunctionOnSet(f, {}) = 0 /\ SumFunctionOnSet(g, {}) = 0
    BY SumEmpty
  <2> QED BY <2>1
<1>2. ASSUME NEW t \in SUBSET S, NEW x \in S \ t, t \in Good PROVE t \cup {x} \in Good
  <2>1. /\ IsFiniteSet(t) /\ x \notin t /\ \A y \in t : f[y] \in Int /\ g[y] \in Int
        /\ f[x] \in Int /\ g[x] \in Int /\ f[x] <= g[x] /\ t \cup {x} \in SUBSET S
    BY FS_Subset
  <2>2. SumFunctionOnSet(f, t \cup {x}) = f[x] + SumFunctionOnSet(f, t) /\ SumFunctionOnSet(f, t) \in Int
    BY <2>1, SumGrow, SumInt
  <2>3. SumFunctionOnSet(g, t \cup {x}) = g[x] + SumFunctionOnSet(g, t) /\ SumFunctionOnSet(g, t) \in Int
    BY <2>1, SumGrow, SumInt
  <2>4. SumFunctionOnSet(f, t) <= SumFunctionOnSet(g, t)
    BY <1>2
  <2>5. SumFunctionOnSet(f, t \cup {x}) <= SumFunctionOnSet(g, t \cup {x})
    BY <2>1, <2>2, <2>3, <2>4
  <2> QED BY <2>1, <2>5
<1>3. S \in Good
  <2> HIDE DEF Good
  <2> QED BY <1>1, <1>2, OneByOne
<1> QED BY <1>3

\* Equal terms have equal sums.
LEMMA SumSame ==
    ASSUME NEW S, IsFiniteSet(S), NEW f, NEW g, \A x \in S : f[x] \in Int /\ g[x] = f[x]
    PROVE  SumFunctionOnSet(g, S) = SumFunctionOnSet(f, S)
<1>1. SumFunctionOnSet(f, S) \in Int /\ SumFunctionOnSet(g, S) \in Int
  <2>1. (\A x \in S : f[x] \in Int) /\ (\A x \in S : g[x] \in Int)
    OBVIOUS
  <2> QED BY <2>1, SumInt
<1>2. \A x \in S : /\ f[x] \in Int /\ g[x] \in Int /\ f[x] <= g[x] /\ g[x] <= f[x]
  OBVIOUS
<1>3. SumFunctionOnSet(f, S) <= SumFunctionOnSet(g, S)
  BY <1>2, SumBound
<1>4. SumFunctionOnSet(g, S) <= SumFunctionOnSet(f, S)
  BY <1>2, SumBound
<1> QED BY <1>1, <1>3, <1>4

\* The sum of a c-fold and a d-fold.
LEMMA SumLinear ==
    ASSUME NEW S, IsFiniteSet(S), NEW f, NEW g, NEW h, NEW c \in Int, NEW d \in Int,
           \A x \in S : f[x] \in Int /\ g[x] \in Int /\ h[x] = c * f[x] + d * g[x]
    PROVE  SumFunctionOnSet(h, S) = c * SumFunctionOnSet(f, S) + d * SumFunctionOnSet(g, S)
<1> DEFINE Good == {t \in SUBSET S : SumFunctionOnSet(h, t)
                       = c * SumFunctionOnSet(f, t) + d * SumFunctionOnSet(g, t)}
<1>1. {} \in Good
  <2>1. SumFunctionOnSet(f, {}) = 0 /\ SumFunctionOnSet(g, {}) = 0 /\ SumFunctionOnSet(h, {}) = 0
    BY SumEmpty
  <2>2. c * 0 + d * 0 = 0
    OBVIOUS
  <2> QED BY <2>1, <2>2
<1>2. ASSUME NEW t \in SUBSET S, NEW x \in S \ t, t \in Good PROVE t \cup {x} \in Good
  <2>1. /\ IsFiniteSet(t) /\ x \notin t /\ (\A y \in t : f[y] \in Int /\ g[y] \in Int)
        /\ f[x] \in Int /\ g[x] \in Int /\ t \cup {x} \in SUBSET S
    BY FS_Subset
  <2>2. h[x] = c * f[x] + d * g[x] /\ h[x] \in Int /\ \A y \in t : h[y] \in Int
    OBVIOUS
  <2>3. SumFunctionOnSet(f, t \cup {x}) = f[x] + SumFunctionOnSet(f, t) /\ SumFunctionOnSet(f, t) \in Int
    BY <2>1, SumGrow, SumInt
  <2>4. SumFunctionOnSet(g, t \cup {x}) = g[x] + SumFunctionOnSet(g, t) /\ SumFunctionOnSet(g, t) \in Int
    BY <2>1, SumGrow, SumInt
  <2>5. SumFunctionOnSet(h, t \cup {x}) = h[x] + SumFunctionOnSet(h, t)
    BY <2>1, <2>2, SumGrow
  <2>6. SumFunctionOnSet(h, t) = c * SumFunctionOnSet(f, t) + d * SumFunctionOnSet(g, t)
    BY <1>2
  <2> DEFINE a == f[x]
             b == g[x]
             F == SumFunctionOnSet(f, t)
             G == SumFunctionOnSet(g, t)
  <2>7. (c * a + d * b) + (c * F + d * G) = c * (a + F) + d * (b + G)
    <3>1. a \in Int /\ b \in Int /\ F \in Int /\ G \in Int
      BY <2>1, <2>3, <2>4
    <3> HIDE DEF a, b, F, G
    <3> QED BY <3>1
  <2>8. SumFunctionOnSet(h, t \cup {x})
          = c * SumFunctionOnSet(f, t \cup {x}) + d * SumFunctionOnSet(g, t \cup {x})
    <3>1. h[x] = c * a + d * b /\ SumFunctionOnSet(h, t) = c * F + d * G
      BY <2>2, <2>6
    <3>2. /\ SumFunctionOnSet(f, t \cup {x}) = a + F
          /\ SumFunctionOnSet(g, t \cup {x}) = b + G
      BY <2>3, <2>4
    <3> HIDE DEF a, b, F, G
    <3> QED BY <2>5, <2>7, <3>1, <3>2, Zenon
  <2> QED BY <2>1, <2>8
<1>3. S \in Good
  <2> HIDE DEF Good
  <2> QED BY <1>1, <1>2, OneByOne
<1> QED BY <1>3

\* The sum of a c-fold.
LEMMA SumScale ==
    ASSUME NEW S, IsFiniteSet(S), NEW f, NEW h, NEW c \in Int,
           \A x \in S : f[x] \in Int /\ h[x] = c * f[x]
    PROVE  SumFunctionOnSet(h, S) = c * SumFunctionOnSet(f, S)
<1> DEFINE d == 0
<1>1. \A x \in S : f[x] \in Int /\ f[x] \in Int /\ h[x] = c * f[x] + d * f[x]
  OBVIOUS
<1>2. d \in Int
  OBVIOUS
<1>3. SumFunctionOnSet(h, S) = c * SumFunctionOnSet(f, S) + 0 * SumFunctionOnSet(f, S)
  <2> HIDE DEF d
  <2>1. SumFunctionOnSet(h, S) = c * SumFunctionOnSet(f, S) + d * SumFunctionOnSet(f, S)
    BY <1>1, <1>2, SumLinear
  <2> QED BY <2>1 DEF d
<1>4. SumFunctionOnSet(f, S) \in Int
  BY SumInt
<1> DEFINE F == SumFunctionOnSet(f, S)
<1>5. c * F + 0 * F = c * F
  <2>1. F \in Int
    BY <1>4
  <2> HIDE DEF F
  <2> QED BY <2>1
<1> QED BY <1>3, <1>5

\* The sum of equal terms.
LEMMA SumConst ==
    ASSUME NEW S, IsFiniteSet(S), NEW f, NEW c \in Int, \A x \in S : f[x] = c
    PROVE  SumFunctionOnSet(f, S) = c * Cardinality(S)
<1> DEFINE Good == {t \in SUBSET S : SumFunctionOnSet(f, t) = c * Cardinality(t)}
<1>1. {} \in Good
  <2>1. SumFunctionOnSet(f, {}) = 0 /\ Cardinality({}) = 0
    BY SumEmpty, FS_EmptySet
  <2>2. c * 0 = 0
    OBVIOUS
  <2> QED BY <2>1, <2>2
<1>2. ASSUME NEW t \in SUBSET S, NEW x \in S \ t, t \in Good PROVE t \cup {x} \in Good
  <2>1. /\ IsFiniteSet(t) /\ x \notin t /\ (\A y \in t : f[y] \in Int)
        /\ f[x] \in Int /\ f[x] = c /\ t \cup {x} \in SUBSET S
    BY FS_Subset
  <2>2. SumFunctionOnSet(f, t \cup {x}) = f[x] + SumFunctionOnSet(f, t)
    BY <2>1, SumGrow
  <2>3. Cardinality(t \cup {x}) = Cardinality(t) + 1 /\ Cardinality(t) \in Nat
    BY <2>1, FS_AddElement, FS_CardinalityType
  <2>4. SumFunctionOnSet(f, t) = c * Cardinality(t)
    BY <1>2
  <2> DEFINE m == Cardinality(t)
  <2>5. c + c * m = c * (m + 1)
    <3>1. m \in Nat
      BY <2>3
    <3> HIDE DEF m
    <3> QED BY <3>1
  <2>6. SumFunctionOnSet(f, t \cup {x}) = c * Cardinality(t \cup {x})
    BY <2>1, <2>2, <2>3, <2>4, <2>5, Zenon
  <2> QED BY <2>1, <2>6
<1>3. S \in Good
  <2> HIDE DEF Good
  <2> QED BY <1>1, <1>2, OneByOne
<1> QED BY <1>3

\* The sum over two sets that share no element.
LEMMA SumJoin ==
    ASSUME NEW S, IsFiniteSet(S), NEW T, IsFiniteSet(T), S \cap T = {},
           NEW f, \A x \in S \cup T : f[x] \in Int
    PROVE  SumFunctionOnSet(f, S \cup T) = SumFunctionOnSet(f, S) + SumFunctionOnSet(f, T)
<1> DEFINE Good == {t \in SUBSET T : /\ IsFiniteSet(S \cup t)
                      /\ SumFunctionOnSet(f, S \cup t) = SumFunctionOnSet(f, S) + SumFunctionOnSet(f, t)}
<1>1. SumFunctionOnSet(f, S) \in Int
  <2>1. \A x \in S : f[x] \in Int
    OBVIOUS
  <2> QED BY <2>1, SumInt
<1>2. {} \in Good
  <2>1. SumFunctionOnSet(f, {}) = 0 /\ S \cup {} = S
    BY SumEmpty
  <2> QED BY <1>1, <2>1
<1>3. ASSUME NEW t \in SUBSET T, NEW x \in T \ t, t \in Good PROVE t \cup {x} \in Good
  <2>1. /\ IsFiniteSet(t) /\ x \notin t /\ (\A y \in t : f[y] \in Int) /\ f[x] \in Int
        /\ t \cup {x} \in SUBSET T /\ x \notin S \cup t /\ (\A y \in S \cup t : f[y] \in Int)
        /\ S \cup (t \cup {x}) = (S \cup t) \cup {x}
    BY FS_Subset
  <2>2. /\ IsFiniteSet(S \cup t)
        /\ SumFunctionOnSet(f, S \cup t) = SumFunctionOnSet(f, S) + SumFunctionOnSet(f, t)
    BY <1>3
  <2>3. SumFunctionOnSet(f, t \cup {x}) = f[x] + SumFunctionOnSet(f, t) /\ SumFunctionOnSet(f, t) \in Int
    BY <2>1, SumGrow, SumInt
  <2>4. SumFunctionOnSet(f, (S \cup t) \cup {x}) = f[x] + SumFunctionOnSet(f, S \cup t)
    BY <2>1, <2>2, SumGrow
  <2>5. IsFiniteSet((S \cup t) \cup {x})
    BY <2>2, FS_AddElement
  <2>6. SumFunctionOnSet(f, S \cup (t \cup {x}))
          = SumFunctionOnSet(f, S) + SumFunctionOnSet(f, t \cup {x})
    <3>1. SumFunctionOnSet(f, S \cup (t \cup {x})) = SumFunctionOnSet(f, (S \cup t) \cup {x})
      BY <2>1
    <3>2. f[x] \in Int
      BY <2>1
    <3> QED BY <1>1, <2>2, <2>3, <2>4, <3>1, <3>2
  <2>7. IsFiniteSet(S \cup (t \cup {x}))
    BY <2>1, <2>5
  <2> QED BY <2>1, <2>6, <2>7
<1>4. T \in Good
  <2> HIDE DEF Good
  <2> QED BY <1>2, <1>3, OneByOne
<1> QED BY <1>4

\* Terms that are zero add up to zero.
LEMMA SumZero ==
    ASSUME NEW S, IsFiniteSet(S), NEW f, \A x \in S : f[x] = 0
    PROVE  SumFunctionOnSet(f, S) = 0
<1>1. SumFunctionOnSet(f, S) = 0 * Cardinality(S)
  <2>1. 0 \in Int
    OBVIOUS
  <2> QED BY <2>1, SumConst
<1>2. Cardinality(S) \in Nat
  BY FS_CardinalityType
<1> QED BY <1>1, <1>2

\* Terms that are zero can be left out.
LEMMA SumSupport ==
    ASSUME NEW S, IsFiniteSet(S), NEW R \in SUBSET S,
           NEW f, \A x \in S : f[x] \in Int, \A x \in S \ R : f[x] = 0
    PROVE  SumFunctionOnSet(f, S) = SumFunctionOnSet(f, R)
<1> DEFINE Q == S \ R
<1>1. IsFiniteSet(R) /\ IsFiniteSet(Q) /\ R \cap Q = {} /\ R \cup Q = S
  BY FS_Subset
<1>2. SumFunctionOnSet(f, Q) = 0
  BY <1>1, SumZero
<1>3. \A x \in R \cup Q : f[x] \in Int
  OBVIOUS
<1> HIDE DEF Q
<1>4. SumFunctionOnSet(f, R \cup Q) = SumFunctionOnSet(f, R) + SumFunctionOnSet(f, Q)
  BY <1>1, <1>3, SumJoin
<1>5. SumFunctionOnSet(f, R) \in Int
  <2>1. \A x \in R : f[x] \in Int
    OBVIOUS
  <2> QED BY <1>1, <2>1, SumInt
<1>6. SumFunctionOnSet(f, S) = SumFunctionOnSet(f, R \cup Q)
  BY <1>1, Zenon
<1> QED BY <1>2, <1>4, <1>5, <1>6

\* Summing by another name for each element.
LEMMA SumRenamed ==
    ASSUME NEW S, NEW T, IsFiniteSet(T), NEW e \in Bijection(T, S), NEW f, NEW g,
           \A x \in T : g[x] \in Int /\ f[e[x]] = g[x]
    PROVE  SumFunctionOnSet(f, S) = SumFunctionOnSet(g, T)
<1> DEFINE Im(t) == {e[x] : x \in t}
           Good == {t \in SUBSET T : IsFiniteSet(Im(t)) /\ SumFunctionOnSet(f, Im(t)) = SumFunctionOnSet(g, t)}
<1>1. /\ e \in [T -> S] /\ (\A x, y \in T : e[x] = e[y] => x = y)
      /\ \A y \in S : \E x \in T : e[x] = y
  BY DEF Bijection, Injection, Surjection, IsInjective
<1>2. {} \in Good
  <2>1. Im({}) = {} /\ SumFunctionOnSet(f, {}) = 0 /\ SumFunctionOnSet(g, {}) = 0 /\ IsFiniteSet({})
    BY SumEmpty, FS_EmptySet
  <2> QED BY <2>1
<1>3. ASSUME NEW t \in SUBSET T, NEW x \in T \ t, t \in Good PROVE t \cup {x} \in Good
  <2>1. /\ IsFiniteSet(t) /\ x \notin t /\ (\A y \in t : g[y] \in Int) /\ g[x] \in Int
        /\ t \cup {x} \in SUBSET T
    BY FS_Subset
  <2>2. Im(t \cup {x}) = Im(t) \cup {e[x]} /\ e[x] \notin Im(t)
    BY <1>1
  <2>3. f[e[x]] \in Int /\ f[e[x]] = g[x] /\ \A y \in Im(t) : f[y] \in Int
    OBVIOUS
  <2>4. IsFiniteSet(Im(t)) /\ SumFunctionOnSet(f, Im(t)) = SumFunctionOnSet(g, t)
    BY <1>3
  <2> HIDE DEF Im
  <2>5. SumFunctionOnSet(g, t \cup {x}) = g[x] + SumFunctionOnSet(g, t)
    BY <2>1, SumGrow
  <2>6. SumFunctionOnSet(f, Im(t) \cup {e[x]}) = f[e[x]] + SumFunctionOnSet(f, Im(t))
    BY <2>2, <2>3, <2>4, SumGrow
  <2>7. IsFiniteSet(Im(t) \cup {e[x]})
    BY <2>4, FS_AddElement
  <2>8. SumFunctionOnSet(f, Im(t \cup {x})) = SumFunctionOnSet(g, t \cup {x})
    BY <2>2, <2>3, <2>4, <2>5, <2>6, Zenon
  <2> QED BY <2>1, <2>2, <2>7, <2>8
<1>4. T \in Good
  <2> HIDE DEF Good
  <2> QED BY <1>2, <1>3, OneByOne
<1>5. Im(T) = S
  BY <1>1
<1> QED BY <1>4, <1>5

\* A sum of sums can be taken in either order.
LEMMA SumSwap ==
    ASSUME NEW S, IsFiniteSet(S), NEW T, IsFiniteSet(T),
           NEW h, \A x \in S : \A y \in T : h[<<x, y>>] \in Int
    PROVE  SumFunctionOnSet([x \in S |-> SumFunctionOnSet([y \in T |-> h[<<x, y>>]], T)], S)
             = SumFunctionOnSet([y \in T |-> SumFunctionOnSet([x \in S |-> h[<<x, y>>]], S)], T)
<1> DEFINE row == [x \in S |-> SumFunctionOnSet([y \in T |-> h[<<x, y>>]], T)]
           col(t) == [y \in T |-> SumFunctionOnSet([x \in S |-> h[<<x, y>>]], t)]
           Good == {t \in SUBSET S : SumFunctionOnSet(row, t) = SumFunctionOnSet(col(t), T)}
<1>1. \A x \in S : row[x] \in Int /\ row[x] = SumFunctionOnSet([y \in T |-> h[<<x, y>>]], T)
  <2> SUFFICES ASSUME NEW x \in S PROVE SumFunctionOnSet([y \in T |-> h[<<x, y>>]], T) \in Int
    OBVIOUS
  <2> DEFINE f == [y \in T |-> h[<<x, y>>]]
  <2>1. \A y \in T : f[y] \in Int
    OBVIOUS
  <2> HIDE DEF f
  <2>2. SumFunctionOnSet(f, T) \in Int
    BY <2>1, SumInt
  <2> QED BY <2>2 DEF f
<1>2. {} \in Good
  <2>1. SumFunctionOnSet(row, {}) = 0
    BY SumEmpty
  <2>2. \A y \in T : col({})[y] = 0
    BY SumEmpty
  <2> HIDE DEF col, row
  <2>3. SumFunctionOnSet(col({}), T) = 0
    BY <2>2, SumZero
  <2> QED BY <2>1, <2>3
<1>3. ASSUME NEW t \in SUBSET S, NEW x \in S \ t, t \in Good PROVE t \cup {x} \in Good
  <2>1. IsFiniteSet(t) /\ x \notin t /\ t \cup {x} \in SUBSET S
    BY FS_Subset
  <2> DEFINE f == [y \in T |-> h[<<x, y>>]]
             g == col(t)
             k == col(t \cup {x})
  <2>2. ASSUME NEW y \in T PROVE f[y] \in Int /\ g[y] \in Int /\ k[y] = 1 * f[y] + 1 * g[y]
    <3> DEFINE c == [z \in S |-> h[<<z, y>>]]
    <3>1. \A z \in S : c[z] \in Int
      OBVIOUS
    <3>2. c[x] = f[y] /\ g[y] = SumFunctionOnSet(c, t) /\ k[y] = SumFunctionOnSet(c, t \cup {x})
      OBVIOUS
    <3> HIDE DEF c, g, k, f
    <3>3. c[x] \in Int /\ \A z \in t : c[z] \in Int
      BY <3>1
    <3>4. SumFunctionOnSet(c, t) \in Int /\ SumFunctionOnSet(c, t \cup {x}) = c[x] + SumFunctionOnSet(c, t)
      BY <2>1, <3>3, SumGrow, SumInt
    <3> QED BY <3>2, <3>3, <3>4
  <2>3. row[x] = SumFunctionOnSet(f, T)
    BY <1>1
  <2>4. SumFunctionOnSet(row, t) = SumFunctionOnSet(g, T)
    BY <1>3
  <2> HIDE DEF f, g, k, row, col
  <2>5. SumFunctionOnSet(k, T) = 1 * SumFunctionOnSet(f, T) + 1 * SumFunctionOnSet(g, T)
    <3>1. 1 \in Int
      OBVIOUS
    <3> QED BY <2>2, <3>1, SumLinear
  <2>6. SumFunctionOnSet(row, t \cup {x}) = row[x] + SumFunctionOnSet(row, t)
    BY <1>1, <2>1, SumGrow
  <2>7. SumFunctionOnSet(f, T) \in Int /\ SumFunctionOnSet(g, T) \in Int
    BY <2>2, SumInt
  <2>8. SumFunctionOnSet(row, t \cup {x}) = SumFunctionOnSet(k, T)
    BY <2>3, <2>4, <2>5, <2>6, <2>7
  <2> QED BY <2>1, <2>8 DEF k
<1>4. S \in Good
  <2> HIDE DEF Good
  <2> QED BY <1>2, <1>3, OneByOne
<1> QED BY <1>4

\* Division with its remainder; numbers that divide.
LEMMA Divided ==
    ASSUME NEW x \in Int, NEW d \in Nat \ {0}
    PROVE  x \div d \in Int /\ d * (x \div d) <= x /\ x < d * (x \div d) + d
OBVIOUS

\* A bound on the dividend is a bound on the quotient.
LEMMA DivMonotone ==
    ASSUME NEW x \in Int, NEW u \in Int, NEW d \in Nat \ {0}, x <= d * u
    PROVE  x \div d <= u
<1> DEFINE q == x \div d
<1>1. q \in Int /\ d * q <= x
  BY Divided
<1> HIDE DEF q
<1>2. ASSUME u < q PROVE FALSE
  <2>1. q - u \in Nat \ {0} /\ d \in Nat
    BY <1>1, <1>2
  <2>2. d <= (q - u) * d
    BY <2>1, Times
  <2>3. (q - u) * d = d * q - d * u
    BY <1>1
  <2>4. d * q \in Int /\ d * u \in Int
    BY <1>1
  <2> QED BY <1>1, <2>2, <2>3, <2>4
<1> QED BY <1>1, <1>2 DEF q

\* Dividing a multiple.
LEMMA DivExact ==
    ASSUME NEW q \in Int, NEW d \in Nat \ {0}
    PROVE  (d * q) \div d = q
<1> DEFINE x == d * q
           p == x \div d
<1>1. x \in Int
  OBVIOUS
<1>2. p \in Int /\ d * p <= x /\ x < d * p + d
  <2> HIDE DEF x
  <2> QED BY <1>1, Divided
<1>3. p <= q
  <2>1. x <= d * q
    OBVIOUS
  <2> HIDE DEF x
  <2> QED BY <1>1, <2>1, DivMonotone
<1> HIDE DEF p
<1>4. ASSUME p < q PROVE FALSE
  <2>1. q - p \in Nat \ {0} /\ d \in Nat
    BY <1>2, <1>4
  <2>2. d <= (q - p) * d
    BY <2>1, Times
  <2>3. (q - p) * d = d * q - d * p
    BY <1>2
  <2>4. d * q \in Int /\ d * p \in Int
    BY <1>2
  <2> QED BY <1>2, <2>2, <2>3, <2>4
<1> QED BY <1>2, <1>3, <1>4 DEF p

\* What leaves no remainder is a multiple.
LEMMA Divides ==
    ASSUME NEW x \in Int, NEW d \in Nat \ {0}, x % d = 0
    PROVE  x = d * (x \div d) /\ x \div d \in Int
OBVIOUS

\* Sums of numbers that are not negative.
LEMMA SumNat ==
    ASSUME NEW S, IsFiniteSet(S), NEW f, \A x \in S : f[x] \in Nat
    PROVE  /\ SumFunctionOnSet(f, S) \in Nat
           /\ \A y \in S : f[y] <= SumFunctionOnSet(f, S)
           /\ \A R \in SUBSET S : SumFunctionOnSet(f, R) <= SumFunctionOnSet(f, S)
<1>1. ASSUME NEW R \in SUBSET S PROVE IsFiniteSet(R) /\ SumFunctionOnSet(f, R) \in Nat
  <2> DEFINE z == [x \in R |-> 0]
  <2>1. IsFiniteSet(R)
    BY FS_Subset
  <2>2. \A x \in R : z[x] \in Int /\ f[x] \in Int /\ z[x] <= f[x]
    OBVIOUS
  <2>3. \A x \in R : z[x] = 0
    OBVIOUS
  <2> HIDE DEF z
  <2>4. SumFunctionOnSet(z, R) = 0
    BY <2>1, <2>3, SumZero
  <2>5. SumFunctionOnSet(z, R) <= SumFunctionOnSet(f, R)
    BY <2>1, <2>2, SumBound
  <2>6. SumFunctionOnSet(f, R) \in Int
    BY <2>1, <2>2, SumInt
  <2> QED BY <2>1, <2>4, <2>5, <2>6
<1>2. \A x \in S : f[x] \in Int
  OBVIOUS
<1>3. ASSUME NEW y \in S PROVE f[y] <= SumFunctionOnSet(f, S)
  <2>1. SumFunctionOnSet(f, S) = f[y] + SumFunctionOnSet(f, S \ {y})
    BY <1>2, SumTake
  <2>2. SumFunctionOnSet(f, S \ {y}) \in Nat
    BY <1>1
  <2>3. f[y] \in Nat
    OBVIOUS
  <2> QED BY <2>1, <2>2, <2>3
<1>4. ASSUME NEW R \in SUBSET S PROVE SumFunctionOnSet(f, R) <= SumFunctionOnSet(f, S)
  <2> DEFINE Q == S \ R
  <2>1. IsFiniteSet(R) /\ IsFiniteSet(Q) /\ R \cap Q = {} /\ R \cup Q = S
    BY <1>1
  <2>2. SumFunctionOnSet(f, R) \in Nat /\ SumFunctionOnSet(f, Q) \in Nat
    BY <1>1
  <2> HIDE DEF Q
  <2>3. SumFunctionOnSet(f, R \cup Q) = SumFunctionOnSet(f, R) + SumFunctionOnSet(f, Q)
    <3>1. \A x \in R \cup Q : f[x] \in Int
      BY <1>2, <2>1
    <3> QED BY <2>1, <3>1, SumJoin
  <2>4. SumFunctionOnSet(f, S) = SumFunctionOnSet(f, R \cup Q)
    BY <2>1, Zenon
  <2> QED BY <2>2, <2>3, <2>4
<1>5. SumFunctionOnSet(f, S) \in Nat
  BY <1>1
<1> QED BY <1>3, <1>4, <1>5

\* A product grows with its factor.
LEMMA TimesMonotone ==
    ASSUME NEW x \in Int, NEW y \in Int, NEW c \in Nat, x <= y
    PROVE  c * x <= c * y
<1>1. y - x \in Nat
  OBVIOUS
<1>2. c * (y - x) \in Nat
  BY <1>1, Times
<1>3. c * (y - x) = c * y - c * x
  OBVIOUS
<1>4. c * x \in Int /\ c * y \in Int
  OBVIOUS
<1> QED BY <1>2, <1>3, <1>4

\* The greater of a number and 1.
LEMMA MaxWithOne ==
    ASSUME NEW s \in Int PROVE Max({s, 1}) = IF s >= 1 THEN s ELSE 1
BY DEF Max
=============================================================================
