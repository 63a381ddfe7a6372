----------------------------- MODULE ListLemmas -----------------------------
(***************************************************************************)
(* Lemmas on least elements, sums, flattened sequences and powers of two,  *)
(* for the proofs of the other modules.  FlattenSeq of the community       *)
(* modules, SumOf and TwoTo are defined by recursive functions; that these *)
(* exist is proved here by induction.                                      *)
(***************************************************************************)
EXTENDS Sums, Powers, SequencesExt, WellFoundedInduction, TLAPS

(* < on Nat, as a set of pairs                                             *)
Below == {ss \in Nat \X Nat : ss[1] < ss[2]}

(* It is well founded.                                                     *)
LEMMA BelowIsWellFounded == IsWellFoundedOn(Below, Nat)
BY NatLessThanWellFounded DEF OpToRel, Below

(* A set of natural numbers has a smallest one: the first section without  *)
(* frames.                                                                 *)
LEMMA SmallestExists ==
  ASSUME NEW T, T \subseteq Nat, T # {}
  PROVE  \E x \in T : \A y \in T : x <= y
<1>1. PICK x \in T : \A y \in T : ~(<<y, x>> \in Below)
  BY BelowIsWellFounded, WFMin
<1>2. x \in Nat
  BY <1>1
<1>3. ASSUME NEW y \in T, y < x PROVE FALSE
  <2>1. <<y, x>> \in Below
    BY <1>2, <1>3 DEF Below
  <2> QED
    BY <1>1, <2>1
<1> QED
  BY <1>2, <1>3

(* Induction with a set for the predicate. The induction theorems of the   *)
(* library take an operator, and the provers cannot instantiate it; a set  *)
(* is a value, and well-foundedness says enough.                           *)
LEMMA NatSetInduction ==
  ASSUME NEW S, 0 \in S, \A n \in Nat : n \in S => n + 1 \in S
  PROVE  Nat \subseteq S
<1> DEFINE T == Nat \ S
<1>1. SUFFICES ASSUME T # {} PROVE FALSE
  OBVIOUS
<1>2. T \subseteq Nat
  OBVIOUS
<1> HIDE DEF T
<1>3. PICK x \in T : \A y \in T : ~(<<y, x>> \in Below)
  BY <1>1, <1>2, BelowIsWellFounded, WFMin
<1> USE DEF T
<1>4. x \in Nat /\ x # 0 /\ x - 1 \in T
  OBVIOUS
<1>5. <<x - 1, x>> \in Below
  BY <1>4 DEF Below
<1> QED
  BY <1>3, <1>4, <1>5

(* The same up to n, from 1                                                *)
LEMMA RangeInduction ==
  ASSUME NEW n \in Nat, NEW S, n # 0 => 1 \in S,
         \A i \in 1 .. n : i \in S /\ i + 1 <= n => i + 1 \in S
  PROVE  1 .. n \subseteq S
<1> DEFINE P == {k \in Nat : k \in 1 .. n => k \in S}
<1>1. 0 \in P
  OBVIOUS
<1>2. ASSUME NEW k \in Nat, k \in P PROVE k + 1 \in P
  <2>1. CASE k = 0
    BY <2>1
  <2>2. CASE k # 0
    BY <1>2, <2>2
  <2> QED
    BY <2>1, <2>2
<1> HIDE DEF P
<1>3. Nat \subseteq P
  BY <1>1, <1>2, NatSetInduction
<1> QED
  BY <1>3 DEF P

(* What \o does                                                            *)
LEMMA ConcatFacts ==
  ASSUME NEW S, NEW s \in Seq(S), NEW t \in Seq(S)
  PROVE  /\ s \o t \in Seq(S)
         /\ Len(s \o t) = Len(s) + Len(t)
         /\ \A i \in 1 .. Len(s) : (s \o t)[i] = s[i]
         /\ \A i \in Len(s) + 1 .. Len(s) + Len(t) : (s \o t)[i] = t[i - Len(s)]
OBVIOUS

(* g[i] is the first i sequences of seqs, one behind the other.            *)
PrefixList(g, seqs, n, S) ==
  /\ g \in [1 .. n -> Seq(S)]
  /\ \A i \in 1 .. n : g[i] = IF i = 1 THEN seqs[i] ELSE g[i - 1] \o seqs[i]

(* There is one for the first sequence,                                    *)
LEMMA OnePrefix ==
  ASSUME NEW S, NEW seqs \in Seq(Seq(S)), seqs # <<>>
  PROVE  PrefixList([i \in 1 .. 1 |-> seqs[1]], seqs, 1, S)
<1>1. seqs[1] \in Seq(S)
  OBVIOUS
<1> QED
  BY <1>1 DEF PrefixList

(* and one for one more,                                                   *)
LEMMA PrefixMore ==
  ASSUME NEW S, NEW seqs \in Seq(Seq(S)), NEW n \in Nat \ {0}, n + 1 <= Len(seqs),
         NEW f, PrefixList(f, seqs, n, S)
  PROVE  \E g : PrefixList(g, seqs, n + 1, S)
<1> DEFINE last == f[n] \o seqs[n + 1]
           g == [i \in 1 .. n + 1 |-> IF i = n + 1 THEN last ELSE f[i]]
<1>1. f[n] \in Seq(S) /\ seqs[n + 1] \in Seq(S)
  BY DEF PrefixList
<1>2. last \in Seq(S)
  BY <1>1
<1>3. \A i \in 1 .. n : f[i] \in Seq(S)
  BY DEF PrefixList
<1> HIDE DEF last
<1>4. g \in [1 .. n + 1 -> Seq(S)]
  BY <1>2, <1>3
<1>5. g[n + 1] = last /\ \A i \in 1 .. n : g[i] = f[i]
  OBVIOUS
<1> HIDE DEF g
<1>6. \A i \in 1 .. n : f[i] = IF i = 1 THEN seqs[i] ELSE f[i - 1] \o seqs[i]
  BY DEF PrefixList
<1>7. ASSUME NEW i \in 1 .. n + 1 PROVE g[i] = IF i = 1 THEN seqs[i] ELSE g[i - 1] \o seqs[i]
  <2>1. CASE i = n + 1
    <3>1. g[i - 1] = f[n] /\ seqs[i] = seqs[n + 1]
      BY <1>5, <2>1
    <3>2. g[i] = f[n] \o seqs[n + 1]
      BY <1>5, <2>1 DEF last
    <3>3. i # 1
      BY <2>1
    <3> QED
      BY <3>1, <3>2, <3>3, Zenon
  <2>2. CASE i \in 2 .. n
    BY <1>5, <1>6, <2>2
  <2>3. CASE i = 1
    BY <1>5, <1>6, <2>3
  <2> QED
    BY <2>1, <2>2, <2>3
<1>8. PrefixList(g, seqs, n + 1, S)
  BY <1>4, <1>7 DEF PrefixList
<1> QED
  BY <1>8

(* and so for all.                                                         *)
LEMMA PrefixesExist ==
  ASSUME NEW S, NEW seqs \in Seq(Seq(S)), seqs # <<>>
  PROVE  \E g : PrefixList(g, seqs, Len(seqs), S)
<1> DEFINE P == {n \in Nat : \E g : PrefixList(g, seqs, n, S)}
<1>1. Len(seqs) \in Nat \ {0}
  OBVIOUS
<1>2. 1 \in P
  BY OnePrefix
<1>3. ASSUME NEW n \in 1 .. Len(seqs), n \in P, n + 1 <= Len(seqs) PROVE n + 1 \in P
  <2>1. PICK f : PrefixList(f, seqs, n, S)
    BY <1>3
  <2> QED
    BY <1>3, <2>1, PrefixMore
<1> HIDE DEF P
<1>4. 1 .. Len(seqs) \subseteq P
  BY <1>1, <1>2, <1>3, RangeInduction
<1> QED
  BY <1>1, <1>4 DEF P

(* FlattenSeq is the last of them: the function it is defined by exists.   *)
LEMMA FlattenHasPrefixes ==
  ASSUME NEW S, NEW seqs \in Seq(Seq(S)), seqs # <<>>
  PROVE  \E g : PrefixList(g, seqs, Len(seqs), S) /\ FlattenSeq(seqs) = g[Len(seqs)]
<1>1. PICK g : PrefixList(g, seqs, Len(seqs), S)
  BY PrefixesExist
<1> DEFINE F == CHOOSE h : h = [i \in 1 .. Len(seqs) |->
                                 IF i = 1 THEN seqs[i] ELSE h[i - 1] \o seqs[i]]
<1>2. g = [i \in 1 .. Len(seqs) |-> IF i = 1 THEN seqs[i] ELSE g[i - 1] \o seqs[i]]
  BY <1>1 DEF PrefixList
<1>3. F = [i \in 1 .. Len(seqs) |-> IF i = 1 THEN seqs[i] ELSE F[i - 1] \o seqs[i]]
  BY <1>2
<1>4. FlattenSeq(seqs) = F[Len(seqs)]
  BY DEF FlattenSeq
<1> HIDE DEF F
<1>5. \A i \in 1 .. Len(seqs) : F[i] = IF i = 1 THEN seqs[i] ELSE F[i - 1] \o seqs[i]
  BY <1>3
<1>6. \A i \in 1 .. Len(seqs) : seqs[i] \in Seq(S)
  OBVIOUS
<1> DEFINE P == {n \in 1 .. Len(seqs) : F[n] \in Seq(S)}
<1>7. Len(seqs) \in Nat /\ 1 \in P
  BY <1>5, <1>6
<1>8. ASSUME NEW n \in 1 .. Len(seqs), n \in P, n + 1 <= Len(seqs) PROVE n + 1 \in P
  <2>1. n + 1 \in 1 .. Len(seqs) /\ n + 1 # 1 /\ (n + 1) - 1 = n
    BY <1>8
  <2>2. F[n + 1] = F[n] \o seqs[n + 1]
    BY <1>5, <2>1
  <2> QED
    <3>1. F[n] \in Seq(S) /\ seqs[n + 1] \in Seq(S)
      BY <1>6, <1>8, <2>1
    <3>2. F[n] \o seqs[n + 1] \in Seq(S)
      BY <3>1
    <3> QED
      BY <2>1, <2>2, <3>2, Zenon
<1> HIDE DEF P
<1>9. 1 .. Len(seqs) \subseteq P
  BY <1>7, <1>8, RangeInduction
<1>10. F \in [1 .. Len(seqs) -> Seq(S)]
  BY <1>3, <1>9 DEF P
<1>11. PrefixList(F, seqs, Len(seqs), S)
  BY <1>5, <1>10 DEF PrefixList
<1> QED
  BY <1>4, <1>11

(* The first m depend on the first m sequences only.                       *)
LEMMA SamePrefixes ==
  ASSUME NEW S, NEW s, NEW t, NEW m \in Nat, NEW n \in Nat, NEW f, NEW g,
         m <= n, \A i \in 1 .. m : s[i] = t[i],
         PrefixList(f, s, m, S), PrefixList(g, t, n, S)
  PROVE  \A i \in 1 .. m : f[i] = g[i]
<1> DEFINE P == {k \in 1 .. m : f[k] = g[k]}
<1>1. \A i \in 1 .. m : f[i] = IF i = 1 THEN s[i] ELSE f[i - 1] \o s[i]
  BY DEF PrefixList
<1>2. \A i \in 1 .. n : g[i] = IF i = 1 THEN t[i] ELSE g[i - 1] \o t[i]
  BY DEF PrefixList
<1>3. m # 0 => 1 \in P
  BY <1>1, <1>2
<1>4. ASSUME NEW k \in 1 .. m, k \in P, k + 1 <= m PROVE k + 1 \in P
  <2>1. k + 1 \in 1 .. m /\ k + 1 \in 1 .. n /\ k + 1 # 1 /\ (k + 1) - 1 = k
    BY <1>4
  <2>2. f[k + 1] = f[k] \o s[k + 1]
    BY <1>1, <2>1
  <2>3. g[k + 1] = g[k] \o t[k + 1]
    BY <1>2, <2>1
  <2> QED
    BY <1>4, <2>1, <2>2, <2>3
<1> HIDE DEF P
<1>5. 1 .. m \subseteq P
  BY <1>3, <1>4, RangeInduction
<1> QED
  BY <1>5 DEF P

(* Nothing is flattened to nothing.                                        *)
LEMMA FlattenNone == FlattenSeq(<<>>) = <<>>
BY DEF FlattenSeq

(* The elements of FlattenSeq are those of its sequences.                  *)
LEMMA FlattenInSeq ==
  ASSUME NEW S, NEW seqs \in Seq(Seq(S))
  PROVE  FlattenSeq(seqs) \in Seq(S)
<1>1. CASE seqs = <<>>
  <2>1. FlattenSeq(seqs) = <<>>
    BY <1>1, FlattenNone
  <2> QED
    BY <2>1
<1>2. CASE seqs # <<>>
  <2>1. PICK g : PrefixList(g, seqs, Len(seqs), S) /\ FlattenSeq(seqs) = g[Len(seqs)]
    BY <1>2, FlattenHasPrefixes
  <2>2. Len(seqs) \in 1 .. Len(seqs)
    BY <1>2
  <2> QED
    BY <2>1, <2>2 DEF PrefixList
<1> QED
  BY <1>1, <1>2

(* One more sequence is appended: for tables, headers and UIDs.            *)
LEMMA FlattenMore ==
  ASSUME NEW S, NEW s \in Seq(Seq(S)), NEW t \in Seq(Seq(S)),
         Len(t) = Len(s) + 1, \A i \in 1 .. Len(s) : t[i] = s[i]
  PROVE  FlattenSeq(t) = FlattenSeq(s) \o t[Len(t)]
<1>1. t # <<>> /\ Len(t) \in Nat \ {0} /\ t[Len(t)] \in Seq(S) /\ Len(s) \in Nat
  OBVIOUS
<1>2. PICK g : PrefixList(g, t, Len(t), S) /\ FlattenSeq(t) = g[Len(t)]
  BY <1>1, FlattenHasPrefixes
<1>3. \A i \in 1 .. Len(t) : g[i] = IF i = 1 THEN t[i] ELSE g[i - 1] \o t[i]
  BY <1>2 DEF PrefixList
<1>4. CASE s = <<>>
  <2>1. FlattenSeq(t) = t[Len(t)]
    BY <1>1, <1>2, <1>3, <1>4
  <2>2. FlattenSeq(s) = <<>>
    BY <1>4, FlattenNone
  <2> QED
    BY <1>1, <2>1, <2>2
<1>5. CASE s # <<>>
  <2>1. PICK f : PrefixList(f, s, Len(s), S) /\ FlattenSeq(s) = f[Len(s)]
    BY <1>5, FlattenHasPrefixes
  <2>2. \A i \in 1 .. Len(s) : f[i] = g[i]
    <3> DEFINE m == Len(s)
               n == Len(t)
    <3>1. m \in Nat /\ n \in Nat /\ m <= n
      BY <1>1
    <3>2. \A i \in 1 .. m : s[i] = t[i]
      OBVIOUS
    <3>3. PrefixList(f, s, m, S) /\ PrefixList(g, t, n, S)
      BY <1>2, <2>1
    <3> HIDE DEF m, n
    <3>4. \A i \in 1 .. m : f[i] = g[i]
      BY ONLY <3>1, <3>2, <3>3, SamePrefixes
    <3> QED
      BY <3>4 DEF m
  <2>3. Len(t) # 1 /\ Len(t) - 1 = Len(s) /\ Len(s) \in 1 .. Len(s)
    BY <1>1, <1>5
  <2>4. Len(t) \in 1 .. Len(t)
    BY <1>1
  <2>5. g[Len(t)] = g[Len(t) - 1] \o t[Len(t)]
    BY <1>3, <2>3, <2>4, Zenon
  <2>6. g[Len(t) - 1] = f[Len(s)]
    BY <2>2, <2>3
  <2> QED
    BY <1>2, <2>1, <2>5, <2>6, Zenon
<1> QED
  BY <1>4, <1>5

(* g[i] is the sum of the first i numbers of list.                         *)
PartialSums(g, list, n) ==
  /\ g \in [0 .. n -> Int] /\ g[0] = 0
  /\ \A i \in 1 .. n : g[i] = g[i - 1] + list[i]

(* They can be continued,                                                  *)
LEMMA PartialSumMore ==
  ASSUME NEW list \in Seq(Int), NEW n \in Nat, n + 1 <= Len(list),
         NEW f, PartialSums(f, list, n)
  PROVE  \E g : PartialSums(g, list, n + 1)
<1> DEFINE g == [i \in 0 .. n + 1 |-> IF i = n + 1 THEN f[n] + list[n + 1] ELSE f[i]]
<1>1. list[n + 1] \in Int /\ \A i \in 0 .. n : f[i] \in Int
  BY DEF PartialSums
<1>2. g \in [0 .. n + 1 -> Int]
  BY <1>1
<1>3. g[n + 1] = f[n] + list[n + 1] /\ \A i \in 0 .. n : g[i] = f[i]
  OBVIOUS
<1> HIDE DEF g
<1>4. f[0] = 0 /\ \A i \in 1 .. n : f[i] = f[i - 1] + list[i]
  BY DEF PartialSums
<1>5. ASSUME NEW i \in 1 .. n + 1 PROVE g[i] = g[i - 1] + list[i]
  <2>1. CASE i = n + 1
    BY <1>3, <2>1
  <2>2. CASE i \in 1 .. n
    BY <1>3, <1>4, <2>2
  <2> QED
    BY <2>1, <2>2
<1>6. g[0] = 0
  BY <1>3, <1>4
<1>7. PartialSums(g, list, n + 1)
  BY ONLY <1>2, <1>5, <1>6 DEF PartialSums
<1> QED
  BY <1>7

(* and so they exist.                                                      *)
LEMMA PartialSumsExist ==
  ASSUME NEW list \in Seq(Int)
  PROVE  \E g : PartialSums(g, list, Len(list))
<1> DEFINE P == {n \in Nat : n <= Len(list) => \E g : PartialSums(g, list, n)}
<1>1. 0 \in P
  <2>1. PartialSums([i \in 0 .. 0 |-> 0], list, 0)
    BY DEF PartialSums
  <2> QED
    BY <2>1
<1>2. ASSUME NEW n \in Nat, n \in P PROVE n + 1 \in P
  BY <1>2, PartialSumMore
<1> HIDE DEF P
<1>3. Nat \subseteq P
  BY <1>1, <1>2, NatSetInduction
<1> QED
  BY <1>3 DEF P

(* The first m depend on the first m numbers only.                         *)
LEMMA SamePartialSums ==
  ASSUME NEW s, NEW t, NEW m \in Nat, NEW n \in Nat, NEW f, NEW g,
         m <= n, \A i \in 1 .. m : s[i] = t[i],
         PartialSums(f, s, m), PartialSums(g, t, n)
  PROVE  \A i \in 0 .. m : f[i] = g[i]
<1> DEFINE P == {k \in Nat : k <= m => f[k] = g[k]}
<1>1. 0 \in P
  BY DEF PartialSums
<1>2. ASSUME NEW k \in Nat, k \in P PROVE k + 1 \in P
  <2> SUFFICES ASSUME k + 1 <= m PROVE f[k + 1] = g[k + 1]
    OBVIOUS
  <2>1. k + 1 \in 1 .. m /\ k + 1 \in 1 .. n /\ (k + 1) - 1 = k
    OBVIOUS
  <2>2. f[k + 1] = f[k] + s[k + 1] /\ g[k + 1] = g[k] + t[k + 1]
    BY <2>1 DEF PartialSums
  <2> QED
    BY <1>2, <2>1, <2>2
<1> HIDE DEF P
<1>3. Nat \subseteq P
  BY <1>1, <1>2, NatSetInduction
<1> QED
  BY <1>3 DEF P

(* SumOf is the last of them: the function it is defined by exists.        *)
LEMMA SumHasPartialSums ==
  ASSUME NEW list \in Seq(Int)
  PROVE  \E g : PartialSums(g, list, Len(list)) /\ SumOf(list) = g[Len(list)]
<1>1. PICK g : PartialSums(g, list, Len(list))
  BY PartialSumsExist
<1> DEFINE F == CHOOSE h : h = [n \in 0 .. Len(list) |-> IF n = 0 THEN 0 ELSE h[n - 1] + list[n]]
<1>2. g = [n \in 0 .. Len(list) |-> IF n = 0 THEN 0 ELSE g[n - 1] + list[n]]
  BY <1>1 DEF PartialSums
<1>3. F = [n \in 0 .. Len(list) |-> IF n = 0 THEN 0 ELSE F[n - 1] + list[n]]
  BY <1>2
<1>4. SumOf(list) = F[Len(list)]
  BY DEF SumOf
<1> HIDE DEF F
<1>5. Len(list) \in Nat /\ \A i \in 1 .. Len(list) : list[i] \in Int
  OBVIOUS
<1>6. F[0] = 0 /\ \A i \in 1 .. Len(list) : F[i] = F[i - 1] + list[i]
  <2>1. \A i \in 0 .. Len(list) : F[i] = IF i = 0 THEN 0 ELSE F[i - 1] + list[i]
    BY <1>3
  <2>2. \A i \in 1 .. Len(list) : i \in 0 .. Len(list) /\ i # 0
    BY <1>5
  <2> QED
    BY <1>5, <2>1, <2>2
<1> DEFINE P == {n \in Nat : n <= Len(list) => F[n] \in Int}
<1>7. 0 \in P
  BY <1>6
<1>8. ASSUME NEW n \in Nat, n \in P PROVE n + 1 \in P
  <2> SUFFICES ASSUME n + 1 <= Len(list) PROVE F[n + 1] \in Int
    OBVIOUS
  <2>1. n + 1 \in 1 .. Len(list) /\ (n + 1) - 1 = n /\ n <= Len(list)
    BY <1>5
  <2>2. F[n] \in Int /\ list[n + 1] \in Int
    BY <1>5, <1>8, <2>1
  <2>3. F[n + 1] = F[n] + list[n + 1]
    BY <1>6, <2>1
  <2> QED
    BY <2>2, <2>3
<1> HIDE DEF P
<1>9. Nat \subseteq P
  BY <1>7, <1>8, NatSetInduction
<1>10. F \in [0 .. Len(list) -> Int]
  BY <1>3, <1>5, <1>9 DEF P
<1> QED
  BY <1>4, <1>6, <1>10 DEF PartialSums

(* Nothing sums up to 0.                                                   *)
LEMMA SumNone == SumOf(<<>>) = 0
<1>1. PICK g : PartialSums(g, <<>>, Len(<<>>)) /\ SumOf(<<>>) = g[Len(<<>>)]
  <2>1. <<>> \in Seq(Int)
    OBVIOUS
  <2> QED
    BY <2>1, SumHasPartialSums
<1> QED
  BY <1>1 DEF PartialSums

(* One more number is added: frames of sections, lengths of texts.         *)
LEMMA SumMore ==
  ASSUME NEW s \in Seq(Int), NEW t \in Seq(Int),
         Len(t) = Len(s) + 1, \A i \in 1 .. Len(s) : t[i] = s[i]
  PROVE  SumOf(t) = SumOf(s) + t[Len(t)]
<1>1. PICK f : PartialSums(f, s, Len(s)) /\ SumOf(s) = f[Len(s)]
  BY SumHasPartialSums
<1>2. PICK g : PartialSums(g, t, Len(t)) /\ SumOf(t) = g[Len(t)]
  BY SumHasPartialSums
<1> DEFINE m == Len(s)
           n == Len(t)
<1>3. m \in Nat /\ n \in Nat /\ m <= n /\ n = m + 1
  OBVIOUS
<1>4. \A i \in 1 .. m : s[i] = t[i]
  OBVIOUS
<1>5. PartialSums(f, s, m) /\ PartialSums(g, t, n)
  BY <1>1, <1>2
<1> HIDE DEF m, n
<1>6. \A i \in 0 .. m : f[i] = g[i]
  BY ONLY <1>3, <1>4, <1>5, SamePartialSums
<1>7. g[n] = g[m] + t[n]
  BY <1>3, <1>5 DEF PartialSums
<1>8. SumOf(s) = f[m] /\ SumOf(t) = g[n]
  BY <1>1, <1>2 DEF m, n
<1> QED
  BY <1>3, <1>6, <1>7, <1>8 DEF n

(* It is a number.                                                         *)
LEMMA SumIsInt ==
  ASSUME NEW s \in Seq(Int)
  PROVE  SumOf(s) \in Int
<1>1. PICK f : PartialSums(f, s, Len(s)) /\ SumOf(s) = f[Len(s)]
  BY SumHasPartialSums
<1> QED
  BY <1>1 DEF PartialSums

(* A sum of natural numbers is one.                                        *)
LEMMA SumIsNat ==
  ASSUME NEW s \in Seq(Nat)
  PROVE  SumOf(s) \in Nat
<1>1. s \in Seq(Int) /\ Len(s) \in Nat /\ \A i \in 1 .. Len(s) : s[i] \in Nat
  OBVIOUS
<1>2. PICK g : PartialSums(g, s, Len(s)) /\ SumOf(s) = g[Len(s)]
  BY <1>1, SumHasPartialSums
<1> DEFINE P == {n \in Nat : n <= Len(s) => g[n] \in Nat}
<1>3. 0 \in P
  BY <1>2 DEF PartialSums
<1>4. ASSUME NEW n \in Nat, n \in P PROVE n + 1 \in P
  <2> SUFFICES ASSUME n + 1 <= Len(s) PROVE g[n + 1] \in Nat
    OBVIOUS
  <2>1. n + 1 \in 1 .. Len(s) /\ (n + 1) - 1 = n /\ n <= Len(s)
    BY <1>1
  <2>2. g[n + 1] = g[n] + s[n + 1]
    BY <1>2, <2>1 DEF PartialSums
  <2> QED
    BY <1>1, <1>4, <2>1, <2>2
<1> HIDE DEF P
<1>5. Nat \subseteq P
  BY <1>3, <1>4, NatSetInduction
<1> QED
  BY <1>1, <1>2, <1>5 DEF P

(* No number of a list is larger than the sum.                             *)
LEMMA SumAtLeast ==
  ASSUME NEW s \in Seq(Nat), NEW k \in 1 .. Len(s)
  PROVE  s[k] <= SumOf(s)
<1>1. s \in Seq(Int) /\ Len(s) \in Nat /\ \A i \in 1 .. Len(s) : s[i] \in Nat
  OBVIOUS
<1>2. PICK g : PartialSums(g, s, Len(s)) /\ SumOf(s) = g[Len(s)]
  BY <1>1, SumHasPartialSums
<1> DEFINE P == {n \in Nat : n <= Len(s) => g[n] \in Nat /\ (k <= n => s[k] <= g[n])}
<1>3. 0 \in P
  BY <1>2 DEF PartialSums
<1>4. ASSUME NEW n \in Nat, n \in P PROVE n + 1 \in P
  <2> SUFFICES ASSUME n + 1 <= Len(s)
               PROVE  g[n + 1] \in Nat /\ (k <= n + 1 => s[k] <= g[n + 1])
    OBVIOUS
  <2>1. n + 1 \in 1 .. Len(s) /\ (n + 1) - 1 = n /\ n <= Len(s)
    BY <1>1
  <2>2. g[n + 1] = g[n] + s[n + 1]
    BY <1>2, <2>1 DEF PartialSums
  <2>3. g[n] \in Nat /\ (k <= n => s[k] <= g[n]) /\ s[n + 1] \in Nat /\ s[k] \in Nat
    BY <1>1, <1>4, <2>1
  <2>4. k <= n + 1 => k <= n \/ k = n + 1
    OBVIOUS
  <2> QED
    BY <2>2, <2>3, <2>4
<1> HIDE DEF P
<1>5. Nat \subseteq P
  BY <1>3, <1>4, NatSetInduction
<1>6. Len(s) \in P /\ k <= Len(s)
  BY <1>1, <1>5
<1> QED
  BY <1>1, <1>2, <1>6 DEF P

(* Zeros sum up to 0.                                                      *)
LEMMA SumOfZeros ==
  ASSUME NEW s \in Seq(Nat), \A k \in 1 .. Len(s) : s[k] = 0
  PROVE  SumOf(s) = 0
<1>1. s \in Seq(Int) /\ Len(s) \in Nat
  OBVIOUS
<1>2. PICK g : PartialSums(g, s, Len(s)) /\ SumOf(s) = g[Len(s)]
  BY <1>1, SumHasPartialSums
<1> DEFINE P == {n \in Nat : n <= Len(s) => g[n] = 0}
<1>3. 0 \in P
  BY <1>2 DEF PartialSums
<1>4. ASSUME NEW n \in Nat, n \in P PROVE n + 1 \in P
  <2> SUFFICES ASSUME n + 1 <= Len(s) PROVE g[n + 1] = 0
    OBVIOUS
  <2>1. n + 1 \in 1 .. Len(s) /\ (n + 1) - 1 = n /\ n <= Len(s)
    BY <1>1
  <2>2. g[n + 1] = g[n] + s[n + 1]
    BY <1>2, <2>1 DEF PartialSums
  <2> QED
    BY <1>4, <2>1, <2>2
<1> HIDE DEF P
<1>5. Nat \subseteq P
  BY <1>3, <1>4, NatSetInduction
<1> QED
  BY <1>1, <1>2, <1>5 DEF P
-----------------------------------------------------------------------------
(* The first powers of two, up to n                                        *)
Doubling(g, n) == g = [k \in 0 .. n |-> IF k = 0 THEN 1 ELSE 2 * g[k - 1]]

(* There are such lists,                                                   *)
LEMMA DoublingExists ==
  ASSUME NEW n \in Nat
  PROVE  \E g : Doubling(g, n)
<1> DEFINE P == {m \in Nat : \E g : Doubling(g, m)}
<1>1. 0 \in P
  <2>1. Doubling([k \in 0 .. 0 |-> 1], 0)
    BY DEF Doubling
  <2> QED
    BY <2>1
<1>2. ASSUME NEW m \in Nat, m \in P PROVE m + 1 \in P
  <2>1. PICK g : Doubling(g, m)
    BY <1>2
  <2> DEFINE h == [k \in 0 .. m + 1 |-> IF k = 0 THEN 1 ELSE 2 * g[k - 1]]
  <2>2. \A k \in 0 .. m : h[k] = g[k]
    BY <2>1 DEF Doubling
  <2>3. \A k \in 0 .. m + 1 : k # 0 => k - 1 \in 0 .. m
    OBVIOUS
  <2>4. h = [k \in 0 .. m + 1 |-> IF k = 0 THEN 1 ELSE 2 * h[k - 1]]
    BY <2>2, <2>3
  <2> HIDE DEF h
  <2>5. Doubling(h, m + 1)
    BY <2>4 DEF Doubling
  <2> QED
    BY <2>5
<1> HIDE DEF P
<1>3. Nat \subseteq P
  BY <1>1, <1>2, NatSetInduction
<1> QED
  BY <1>3 DEF P

(* which agree on what they both have.                                     *)
LEMMA DoublingAgree ==
  ASSUME NEW n \in Nat, NEW m \in Nat, NEW g, NEW h, Doubling(g, n), Doubling(h, m)
  PROVE  \A k \in Nat : k <= n /\ k <= m => g[k] = h[k]
<1> DEFINE P == {k \in Nat : k <= n /\ k <= m => g[k] = h[k]}
<1>1. 0 \in P
  BY DEF Doubling
<1>2. ASSUME NEW k \in Nat, k \in P PROVE k + 1 \in P
  <2> SUFFICES ASSUME k + 1 <= n, k + 1 <= m PROVE g[k + 1] = h[k + 1]
    OBVIOUS
  <2>1. k + 1 \in 0 .. n /\ k + 1 \in 0 .. m /\ k + 1 # 0 /\ (k + 1) - 1 = k
    OBVIOUS
  <2>2. g[k + 1] = 2 * g[k] /\ h[k + 1] = 2 * h[k]
    BY <2>1 DEF Doubling
  <2> QED
    BY <1>2, <2>2
<1> HIDE DEF P
<1>3. Nat \subseteq P
  BY <1>1, <1>2, NatSetInduction
<1> QED
  BY <1>3 DEF P

(* So TwoTo exists, and is what its definition says.                       *)
LEMMA TwoToNext == TwoTo[0] = 1 /\ \A n \in Nat : TwoTo[n + 1] = 2 * TwoTo[n]
<1> DEFINE G(n) == CHOOSE g : Doubling(g, n)
           f == [n \in Nat |-> G(n)[n]]
<1>1. \A n \in Nat : Doubling(G(n), n)
  BY DoublingExists
<1> HIDE DEF G
<1>2. ASSUME NEW n \in Nat PROVE f[n] = IF n = 0 THEN 1 ELSE 2 * f[n - 1]
  <2>1. G(n)[n] = IF n = 0 THEN 1 ELSE 2 * G(n)[n - 1]
    BY <1>1 DEF Doubling
  <2>2. n # 0 => n - 1 \in Nat /\ G(n)[n - 1] = G(n - 1)[n - 1]
    <3> SUFFICES ASSUME n # 0 PROVE n - 1 \in Nat /\ G(n)[n - 1] = G(n - 1)[n - 1]
      OBVIOUS
    <3>1. n - 1 \in Nat /\ n - 1 <= n
      OBVIOUS
    <3>2. Doubling(G(n), n) /\ Doubling(G(n - 1), n - 1)
      BY <1>1, <3>1
    <3> QED
      BY <3>1, <3>2, DoublingAgree
  <2> QED
    BY <2>1, <2>2
<1>3. f = [n \in Nat |-> IF n = 0 THEN 1 ELSE 2 * f[n - 1]]
  BY <1>2
<1> HIDE DEF f
<1>4. TwoTo = [n \in Nat |-> IF n = 0 THEN 1 ELSE 2 * TwoTo[n - 1]]
  <2> DEFINE Is(g) == g = [n \in Nat |-> IF n = 0 THEN 1 ELSE 2 * g[n - 1]]
  <2>1. \E g : Is(g)
    BY <1>3
  <2>2. TwoTo = CHOOSE g : Is(g)
    BY DEF TwoTo
  <2> QED
    BY <2>1, <2>2
<1> QED
  <2>1. TwoTo[0] = 1
    BY <1>4
  <2>2. ASSUME NEW n \in Nat PROVE TwoTo[n + 1] = 2 * TwoTo[n]
    <3>1. n + 1 \in Nat /\ n + 1 # 0 /\ (n + 1) - 1 = n
      OBVIOUS
    <3> QED
      BY <1>4, <3>1
  <2> QED
    BY <2>1, <2>2

(* Its values are positive,                                                *)
LEMMA TwoToIsNat == \A n \in Nat : TwoTo[n] \in Nat \ {0}
<1> DEFINE P == {n \in Nat : TwoTo[n] \in Nat \ {0}}
<1>1. 0 \in P /\ \A n \in Nat : n \in P => n + 1 \in P
  BY TwoToNext
<1> HIDE DEF P
<1>2. Nat \subseteq P
  BY <1>1, NatSetInduction
<1> QED
  BY <1>2 DEF P

(* the product of two of them is one,                                      *)
LEMMA TwoToSum == \A m, n \in Nat : TwoTo[m + n] = TwoTo[m] * TwoTo[n]
<1> SUFFICES ASSUME NEW m \in Nat PROVE \A n \in Nat : TwoTo[m + n] = TwoTo[m] * TwoTo[n]
  OBVIOUS
<1> DEFINE P == {n \in Nat : TwoTo[m + n] = TwoTo[m] * TwoTo[n]}
<1>1. 0 \in P
  <2>1. m + 0 = m /\ TwoTo[m] \in Nat
    BY TwoToIsNat
  <2> QED
    BY <2>1, TwoToNext
<1>2. ASSUME NEW n \in Nat, n \in P PROVE n + 1 \in P
  <2>1. m + (n + 1) = (m + n) + 1 /\ m + n \in Nat
    OBVIOUS
  <2>2. TwoTo[m + (n + 1)] = 2 * TwoTo[m + n] /\ TwoTo[n + 1] = 2 * TwoTo[n]
    BY <2>1, TwoToNext
  <2>3. TwoTo[m] \in Nat /\ TwoTo[n] \in Nat
    BY TwoToIsNat
  <2>4. 2 * (TwoTo[m] * TwoTo[n]) = TwoTo[m] * (2 * TwoTo[n])
    BY <2>3
  <2>5. TwoTo[m + n] = TwoTo[m] * TwoTo[n]
    BY <1>2
  <2>6. TwoTo[m + (n + 1)] = TwoTo[m] * TwoTo[n + 1]
    BY <2>2, <2>4, <2>5
  <2> QED
    BY <2>6
<1> HIDE DEF P
<1>3. Nat \subseteq P
  BY <1>1, <1>2, NatSetInduction
<1> QED
  BY <1>3 DEF P

(* and they grow.                                                          *)
LEMMA TwoToGrows == \A m, n \in Nat : m <= n => TwoTo[m] <= TwoTo[n]
<1> SUFFICES ASSUME NEW m \in Nat PROVE \A n \in Nat : m <= n => TwoTo[m] <= TwoTo[n]
  OBVIOUS
<1> DEFINE P == {n \in Nat : m <= n => TwoTo[m] <= TwoTo[n]}
<1>1. 0 \in P
  BY TwoToIsNat
<1>2. ASSUME NEW n \in Nat, n \in P PROVE n + 1 \in P
  <2>1. TwoTo[m] \in Nat /\ TwoTo[n] \in Nat /\ TwoTo[n + 1] = 2 * TwoTo[n]
    BY TwoToIsNat, TwoToNext
  <2>2. m <= n + 1 => m <= n \/ m = n + 1
    OBVIOUS
  <2> QED
    BY <1>2, <2>1, <2>2
<1> HIDE DEF P
<1>3. Nat \subseteq P
  BY <1>1, <1>2, NatSetInduction
<1> QED
  BY <1>3 DEF P
=============================================================================
