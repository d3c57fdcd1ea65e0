----------------------------- MODULE BasicFacts -----------------------------
(***************************************************************************)
(* Facts the proofs share: induction on numbers, from the least element of *)
(* a set of them, which the proofs about recursive functions rest on;      *)
(* lists, whatever their elements; and sums over finite sets.              *)
(***************************************************************************)
EXTENDS SequencesExt, FiniteSetTheorems, NaturalsInduction, WellFoundedInduction, SequenceTheorems, TLAPS

(* The pairs of numbers in order.                                          *)
Less == {p \in Nat \X Nat : p[1] < p[2]}

(* No number has infinitely many below it.                                 *)
LEMMA LessWellFounded == IsWellFoundedOn(Less, Nat)
<1>1. OpToRel(<, Nat) = Less
  BY DEF OpToRel, Less
<1>2. IsWellFoundedOn(OpToRel(<, Nat), Nat)
  BY NatLessThanWellFounded
<1>3. QED
  BY <1>1, <1>2

(* Numbers, if there are any, have a least one.                            *)
LEMMA LeastNumber ==
  ASSUME NEW T, T \subseteq Nat, T # {}
  PROVE  \E n \in T : \A m \in T : n <= m
<1>1. PICK n \in T : \A m \in T : ~(<<m, n>> \in Less)
  BY LessWellFounded, WFMin
<1>2. ASSUME NEW m \in T PROVE n <= m
  <2>1. m \in Nat /\ n \in Nat
    OBVIOUS
  <2>2. ~(m < n)
    BY <1>1, <2>1 DEF Less
  <2>3. QED
    BY <2>1, <2>2
<1>3. QED
  BY <1>2

(* Numbers that are closed under successor and have zero are all numbers.  *)
LEMMA AllNumbers ==
  ASSUME NEW T, 0 \in T, \A n \in Nat : n \in T => n + 1 \in T
  PROVE  Nat \subseteq T
<1> SUFFICES ASSUME Nat \ T # {} PROVE FALSE
  OBVIOUS
<1>1. PICK n \in Nat \ T : \A m \in Nat \ T : n <= m
  BY LeastNumber
<1>2. n # 0 /\ n - 1 \in Nat
  BY <1>1
<1>3. n - 1 \in T
  BY <1>1, <1>2
<1>4. QED
  BY <1>1, <1>2, <1>3

-----------------------------------------------------------------------------
(* A list of whatever it holds.                                            *)
IsSeq(s) == s \in Seq({s[i] : i \in DOMAIN s})

LEMMA SeqIsSeq ==
  ASSUME NEW S, NEW s \in Seq(S)
  PROVE  IsSeq(s)
<1>1. Len(s) \in Nat /\ s \in [1..Len(s) -> S] /\ DOMAIN s = 1..Len(s)
  BY LenProperties
<1>2. s \in [1..Len(s) -> {s[i] : i \in DOMAIN s}]
  BY <1>1
<1> QED BY <1>1, <1>2, SeqDef DEF IsSeq

(* A function on the first numbers is a sequence.                          *)
LEMMA FunctionIsSeq ==
  ASSUME NEW n \in Nat, NEW s, s = [i \in 1..n |-> s[i]]
  PROVE  IsSeq(s) /\ Len(s) = n
<1>1. s \in [1..n -> {s[i] : i \in DOMAIN s}]
  OBVIOUS
<1>2. s \in Seq({s[i] : i \in DOMAIN s})
  BY <1>1, SeqDef
<1>3. Len(s) = n
  BY <1>1, <1>2, LenProperties
<1> QED BY <1>2, <1>3 DEF IsSeq

LEMMA IsSeqDomain ==
  ASSUME NEW s, IsSeq(s)
  PROVE  Len(s) \in Nat /\ DOMAIN s = 1..Len(s) /\ s = [i \in 1..Len(s) |-> s[i]]
  BY LenProperties DEF IsSeq

LEMMA AppendIsSeq ==
  ASSUME NEW s, IsSeq(s), NEW e
  PROVE  IsSeq(Append(s, e))
<1> DEFINE S == {s[i] : i \in DOMAIN s}
<1>1. s \in Seq(S \cup {e}) /\ e \in S \cup {e}
  BY SeqMonotonic DEF IsSeq
<1> HIDE DEF S
<1>2. Append(s, e) \in Seq(S \cup {e})
  BY <1>1, AppendProperties
<1> QED BY <1>2, SeqIsSeq

LEMMA RemoveIsSeq ==
  ASSUME NEW s, IsSeq(s), NEW i \in DOMAIN s
  PROVE  IsSeq(RemoveAt(s, i))
<1> DEFINE S == {s[j] : j \in DOMAIN s}
<1>1. s \in Seq(S) /\ Len(s) \in Nat /\ i \in 1..Len(s) /\ \A j \in 1..Len(s) : s[j] \in S
  BY IsSeqDomain DEF IsSeq
<1> HIDE DEF S
<1>2. SubSeq(s, 1, i - 1) \in Seq(S) /\ SubSeq(s, i + 1, Len(s)) \in Seq(S)
  <2>1. /\ i - 1 \in Int /\ i + 1 \in Int /\ Len(s) \in Int
        /\ \A j \in 1..i - 1 : s[j] \in S
        /\ \A j \in i + 1..Len(s) : s[j] \in S
    BY <1>1
  <2>2. SubSeq(s, 1, i - 1) \in Seq(S)
    BY <2>1, SubSeqProperties
  <2>3. SubSeq(s, i + 1, Len(s)) \in Seq(S)
    BY <2>1, SubSeqProperties
  <2> QED BY <2>2, <2>3
<1>3. RemoveAt(s, i) \in Seq(S)
  BY <1>2, ConcatProperties DEF RemoveAt
<1> QED BY <1>3, SeqIsSeq

(* The second part of a concatenation is what follows the first.           *)
LEMMA AddedIsLast ==
  ASSUME NEW S, NEW d \in Seq(S), NEW w \in Seq(S)
  PROVE  SubSeq(d \o w, Len(d) + 1, Len(d \o w)) = w
<1> DEFINE all == d \o w
<1>1. Len(d) \in Nat /\ Len(w) \in Nat
  BY LenProperties
<1>2. /\ all \in Seq(S) /\ Len(all) = Len(d) + Len(w)
      /\ \A i \in 1..Len(d) + Len(w) : all[i] = IF i <= Len(d) THEN d[i] ELSE w[i - Len(d)]
  BY ConcatProperties
<1> HIDE DEF all
<1>3. \A i \in 1..Len(w) : all[Len(d) + i] = w[i]
  <2> SUFFICES ASSUME NEW i \in 1..Len(w) PROVE all[Len(d) + i] = w[i]
    OBVIOUS
  <2>1. Len(d) + i \in 1..Len(d) + Len(w) /\ ~(Len(d) + i <= Len(d)) /\ Len(d) + i - Len(d) = i
    BY <1>1
  <2> QED BY <1>2, <2>1
<1>4. \A i \in Len(d) + 1..Len(all) : all[i] \in S
  <2>1. all \in [1..Len(all) -> S]
    BY <1>2, LenProperties
  <2> QED BY <1>1, <1>2, <2>1
<1> DEFINE m == Len(d) + 1
           n == Len(all)
           cut == SubSeq(all, m, n)
<1>5. m \in Int /\ n \in Int /\ \A i \in m..n : all[i] \in S
  BY <1>1, <1>2, <1>4
<1>6. n - m + 1 = Len(w) /\ (m <= n \/ Len(w) = 0) /\ \A i \in 1..Len(w) : m + i - 1 = Len(d) + i
  BY <1>1, <1>2
<1> HIDE DEF m, n
<1>7. /\ cut \in Seq(S) /\ Len(cut) = IF m <= n THEN n - m + 1 ELSE 0
      /\ \A i \in 1..n - m + 1 : cut[i] = all[m + i - 1]
  BY <1>5, SubSeqProperties
<1> HIDE DEF cut
<1>8. Len(cut) = Len(w) /\ \A i \in 1..Len(w) : cut[i] = w[i]
  BY <1>1, <1>3, <1>5, <1>6, <1>7
<1> QED BY <1>7, <1>8, SeqEqual DEF cut, all, m, n

(* What is appended to a concatenation is appended to its second part.     *)
LEMMA AppendToLast ==
  ASSUME NEW S, NEW d \in Seq(S), NEW w \in Seq(S), NEW e \in S
  PROVE  /\ SubSeq(Append(d \o w, e), Len(d) + 1, Len(Append(d \o w, e))) = Append(w, e)
         /\ d \o Append(w, e) = Append(d \o w, e)
<1> DEFINE all == Append(d \o w, e)
           last == Append(w, e)
<1>1. Len(d) \in Nat /\ Len(w) \in Nat
  BY LenProperties
<1>2. /\ d \o w \in Seq(S) /\ Len(d \o w) = Len(d) + Len(w)
      /\ \A i \in 1..Len(d) + Len(w) : (d \o w)[i] = IF i <= Len(d) THEN d[i] ELSE w[i - Len(d)]
  BY ConcatProperties
<1>3. /\ all \in Seq(S) /\ Len(all) = Len(d \o w) + 1
      /\ \A i \in 1..Len(d \o w) : all[i] = (d \o w)[i]
      /\ all[Len(d \o w) + 1] = e
  BY <1>2, AppendProperties
<1>4. /\ last \in Seq(S) /\ Len(last) = Len(w) + 1
      /\ \A i \in 1..Len(w) : last[i] = w[i]
      /\ last[Len(w) + 1] = e
  BY AppendProperties
<1> HIDE DEF all, last
<1>5. \A i \in 1..Len(w) + 1 : last[i] = all[Len(d) + i]
  <2> SUFFICES ASSUME NEW i \in 1..Len(w) + 1 PROVE last[i] = all[Len(d) + i]
    OBVIOUS
  <2>1. CASE i = Len(w) + 1
    <3>1. Len(d \o w) + 1 = Len(d) + i
      BY <1>1, <1>2, <2>1
    <3> QED BY <1>3, <1>4, <2>1, <3>1
  <2>2. CASE i \in 1..Len(w)
    <3>1. /\ Len(d) + i \in 1..Len(d) + Len(w) /\ ~(Len(d) + i <= Len(d)) /\ Len(d) + i - Len(d) = i
      BY <1>1, <2>2
    <3>2. (d \o w)[Len(d) + i] = w[i]
      BY <1>2, <3>1
    <3>3. all[Len(d) + i] = (d \o w)[Len(d) + i]
      BY <1>2, <1>3, <3>1
    <3> QED BY <1>4, <2>2, <3>2, <3>3
  <2> QED BY <1>1, <2>1, <2>2
<1>6. d \o last = all
  <2>1. /\ d \o last \in Seq(S) /\ Len(d \o last) = Len(d) + Len(w) + 1
        /\ \A i \in 1..Len(d) + Len(w) + 1 : (d \o last)[i] = IF i <= Len(d) THEN d[i] ELSE last[i - Len(d)]
    <3>1. /\ d \o last \in Seq(S) /\ Len(d \o last) = Len(d) + Len(last)
          /\ \A i \in 1..Len(d) + Len(last) : (d \o last)[i] = IF i <= Len(d) THEN d[i] ELSE last[i - Len(d)]
      BY <1>4, ConcatProperties
    <3>2. Len(d) + Len(last) = Len(d) + Len(w) + 1
      BY <1>1, <1>4
    <3> QED BY <3>1, <3>2
  <2>2. \A i \in 1..Len(d) + Len(w) + 1 : (d \o last)[i] = all[i]
    <3> SUFFICES ASSUME NEW i \in 1..Len(d) + Len(w) + 1 PROVE (d \o last)[i] = all[i]
      OBVIOUS
    <3>1. CASE i <= Len(d)
      BY <1>1, <1>2, <1>3, <2>1, <3>1
    <3>2. CASE ~(i <= Len(d))
      <4>1. i - Len(d) \in 1..Len(w) + 1 /\ Len(d) + (i - Len(d)) = i
        BY <1>1, <3>2
      <4>2. last[i - Len(d)] = all[i]
        BY <1>5, <4>1
      <4> QED BY <2>1, <3>2, <4>2
    <3> QED BY <3>1, <3>2
  <2>3. Len(all) = Len(d) + Len(w) + 1
    BY <1>2, <1>3
  <2> QED BY <1>3, <2>1, <2>2, <2>3, SeqEqual
<1>7. SubSeq(all, Len(d) + 1, Len(all)) = last
  <2>1. SubSeq(d \o last, Len(d) + 1, Len(d \o last)) = last
    BY <1>4, AddedIsLast
  <2> QED BY <1>6, <2>1
<1> QED BY <1>6, <1>7 DEF all, last

-----------------------------------------------------------------------------
(* A finite set is built from the empty one, an element at a time.         *)
LEMMA BuiltUp ==
  ASSUME NEW S, IsFiniteSet(S), NEW W, {} \in W,
         \A T \in SUBSET S : \A x \in S \ T : T \in W => T \cup {x} \in W
  PROVE  S \in W
<1> DEFINE N == {n \in Nat : \A T \in SUBSET S : Cardinality(T) = n => T \in W}
<1>1. \A T \in SUBSET S : IsFiniteSet(T) /\ Cardinality(T) \in Nat
  BY FS_Subset, FS_CardinalityType
<1>2. 0 \in N
  BY <1>1, FS_EmptySet
<1>3. ASSUME NEW n \in Nat, n \in N PROVE n + 1 \in N
  <2> SUFFICES ASSUME NEW T \in SUBSET S, Cardinality(T) = n + 1 PROVE T \in W
    OBVIOUS
  <2>1. PICK x : x \in T
    <3>1. n + 1 # 0
      OBVIOUS
    <3>2. T # {}
      BY <3>1, FS_EmptySet
    <3> QED BY <3>2
  <2> DEFINE U == T \ {x}
  <2>2. U \in SUBSET S /\ x \in S \ U /\ U \cup {x} = T
    BY <2>1
  <2>3. Cardinality(U) = n
    <3>1. Cardinality(U) = IF x \in T THEN Cardinality(T) - 1 ELSE Cardinality(T)
      BY <1>1, FS_RemoveElement
    <3> QED BY <2>1, <3>1
  <2> HIDE DEF U
  <2>4. U \in W
    BY <1>3, <2>2, <2>3
  <2> QED BY <2>2, <2>4
<1>4. Nat \subseteq N
  <2> HIDE DEF N
  <2> QED BY <1>2, <1>3, AllNumbers
<1> QED BY <1>1, <1>4

-----------------------------------------------------------------------------
(* The sums of the community modules.                                      *)

Some(s) == CHOOSE x \in s : TRUE

SumsTo(f, S, g) == g = [s \in SUBSET S |-> IF s = {} THEN 0 ELSE f[Some(s)] + g[s \ {Some(s)}]]
Summed(f, S) == CHOOSE g : SumsTo(f, S, g)

LEMMA SumIsSummed ==
  ASSUME NEW f, NEW S
  PROVE  SumFunctionOnSet(f, S) = Summed(f, S)[S]
BY DEF SumFunctionOnSet, FoldFunctionOnSet, MapThenFoldSet, Summed, SumsTo, Some

(* The sums of the subsets of up to n elements.                            *)
Few(S, n) == {s \in SUBSET S : Cardinality(s) <= n}
SumsFew(f, S, n, g) == g = [s \in Few(S, n) |-> IF s = {} THEN 0 ELSE f[Some(s)] + g[s \ {Some(s)}]]

LEMMA SomeIn ==
  ASSUME NEW s, s # {}
  PROVE  Some(s) \in s
BY DEF Some

LEMMA FewerLeft ==
  ASSUME NEW S, IsFiniteSet(S), NEW n \in Nat, NEW s \in Few(S, n + 1), s # {}
  PROVE  s \ {Some(s)} \in Few(S, n)
<1>1. s \in SUBSET S /\ Cardinality(s) <= n + 1 /\ Some(s) \in s
  BY SomeIn DEF Few
<1>2. IsFiniteSet(s) /\ Cardinality(s) \in Nat
  BY <1>1, FS_Subset, FS_CardinalityType
<1>3. Cardinality(s \ {Some(s)}) = Cardinality(s) - 1
  <2>1. Cardinality(s \ {Some(s)}) = IF Some(s) \in s THEN Cardinality(s) - 1 ELSE Cardinality(s)
    BY <1>2, FS_RemoveElement
  <2> QED BY <1>1, <2>1
<1> QED BY <1>1, <1>2, <1>3 DEF Few

LEMMA SumsOfMore ==
  ASSUME NEW f, NEW S, IsFiniteSet(S), NEW n \in Nat, NEW g, SumsFew(f, S, n, g)
  PROVE  \E h : SumsFew(f, S, n + 1, h)
<1> DEFINE h == [s \in Few(S, n + 1) |-> IF s = {} THEN 0 ELSE f[Some(s)] + g[s \ {Some(s)}]]
<1>1. ASSUME NEW s \in Few(S, n), s # {} PROVE g[s] = f[Some(s)] + g[s \ {Some(s)}]
  BY <1>1 DEF SumsFew
<1>2. {} \in Few(S, n) => g[{}] = 0
  BY DEF SumsFew
<1>3. \A s \in Few(S, n) : s \in Few(S, n + 1)
  <2>1. \A s \in SUBSET S : Cardinality(s) \in Nat
    BY FS_Subset, FS_CardinalityType
  <2> QED BY <2>1 DEF Few
<1>4. ASSUME NEW s \in Few(S, n) PROVE h[s] = g[s]
  BY <1>1, <1>2, <1>3
<1>5. \A s \in Few(S, n + 1) : s # {} => s \ {Some(s)} \in Few(S, n)
  BY FewerLeft
<1>6. h = [s \in Few(S, n + 1) |-> IF s = {} THEN 0 ELSE f[Some(s)] + g[s \ {Some(s)}]]
  OBVIOUS
<1> HIDE DEF h
<1>7. \A s \in Few(S, n + 1) : s # {} => h[s \ {Some(s)}] = g[s \ {Some(s)}]
  BY <1>4, <1>5
<1>8. h = [s \in Few(S, n + 1) |-> IF s = {} THEN 0 ELSE f[Some(s)] + h[s \ {Some(s)}]]
  BY <1>6, <1>7
<1> QED BY <1>8 DEF SumsFew

LEMMA SumsExist ==
  ASSUME NEW f, NEW S, IsFiniteSet(S)
  PROVE  SumsTo(f, S, Summed(f, S))
<1> DEFINE N == {n \in Nat : \E g : SumsFew(f, S, n, g)}
<1>1. 0 \in N
  <2> DEFINE g == [s \in Few(S, 0) |-> 0]
  <2>1. \A s \in Few(S, 0) : s = {}
    <3> SUFFICES ASSUME NEW s \in Few(S, 0) PROVE s = {}
      OBVIOUS
    <3>1. s \in SUBSET S /\ Cardinality(s) <= 0
      BY DEF Few
    <3>2. IsFiniteSet(s) /\ Cardinality(s) \in Nat
      BY <3>1, FS_Subset, FS_CardinalityType
    <3>3. Cardinality(s) = 0
      BY <3>1, <3>2
    <3> QED BY <3>2, <3>3, FS_EmptySet
  <2>2. g = [s \in Few(S, 0) |-> IF s = {} THEN 0 ELSE f[Some(s)] + g[s \ {Some(s)}]]
    BY <2>1
  <2> HIDE DEF g
  <2> QED BY <2>2 DEF SumsFew
<1>2. ASSUME NEW n \in Nat, n \in N PROVE n + 1 \in N
  BY <1>2, SumsOfMore
<1>3. Nat \subseteq N
  <2> HIDE DEF N
  <2> QED BY <1>1, <1>2, AllNumbers
<1>4. Cardinality(S) \in Nat
  BY FS_CardinalityType
<1>5. PICK g : SumsFew(f, S, Cardinality(S), g)
  BY <1>3, <1>4
<1>6. Few(S, Cardinality(S)) = SUBSET S
  BY FS_Subset DEF Few
<1>7. SumsTo(f, S, g)
  BY <1>5, <1>6 DEF SumsFew, SumsTo
<1> QED BY <1>7 DEF Summed

(* A sum does not depend on the set it is a part of.                       *)
LEMMA SumsWithin ==
  ASSUME NEW f, NEW S, IsFiniteSet(S), NEW T \in SUBSET S
  PROVE  Summed(f, T)[T] = Summed(f, S)[T]
<1> DEFINE N == {n \in Nat : \A s \in SUBSET T : Cardinality(s) = n => Summed(f, T)[s] = Summed(f, S)[s]}
<1>1. IsFiniteSet(T) /\ \A s \in SUBSET T : IsFiniteSet(s) /\ Cardinality(s) \in Nat
  BY FS_Subset, FS_CardinalityType
<1>2. SumsTo(f, T, Summed(f, T)) /\ SumsTo(f, S, Summed(f, S))
  BY <1>1, SumsExist
<1>3. \A s \in SUBSET T : Summed(f, T)[s] = IF s = {} THEN 0 ELSE f[Some(s)] + Summed(f, T)[s \ {Some(s)}]
  BY <1>2 DEF SumsTo
<1>4. \A s \in SUBSET S : Summed(f, S)[s] = IF s = {} THEN 0 ELSE f[Some(s)] + Summed(f, S)[s \ {Some(s)}]
  BY <1>2 DEF SumsTo
<1>5. 0 \in N
  <2> SUFFICES ASSUME NEW s \in SUBSET T, Cardinality(s) = 0 PROVE Summed(f, T)[s] = Summed(f, S)[s]
    OBVIOUS
  <2>1. s = {}
    BY <1>1, FS_EmptySet
  <2> QED BY <1>3, <1>4, <2>1
<1>6. ASSUME NEW n \in Nat, n \in N PROVE n + 1 \in N
  <2> SUFFICES ASSUME NEW s \in SUBSET T, Cardinality(s) = n + 1 PROVE Summed(f, T)[s] = Summed(f, S)[s]
    OBVIOUS
  <2>1. s # {}
    <3>1. n + 1 # 0
      OBVIOUS
    <3> QED BY <3>1, FS_EmptySet
  <2>2. Some(s) \in s
    BY <2>1, SomeIn
  <2>3. Cardinality(s \ {Some(s)}) = n
    <3>1. Cardinality(s \ {Some(s)}) = IF Some(s) \in s THEN Cardinality(s) - 1 ELSE Cardinality(s)
      BY <1>1, FS_RemoveElement
    <3> QED BY <2>2, <3>1
  <2> DEFINE u == s \ {Some(s)}
  <2>4. u \in SUBSET T /\ u \in SUBSET S
    OBVIOUS
  <2>5. Summed(f, T)[u] = Summed(f, S)[u]
    BY <1>6, <2>3, <2>4
  <2>6. s \in SUBSET S
    OBVIOUS
  <2> QED BY <1>3, <1>4, <2>1, <2>5, <2>6
<1>7. Nat \subseteq N
  <2> HIDE DEF N
  <2> QED BY <1>5, <1>6, AllNumbers
<1> QED BY <1>1, <1>7

LEMMA SumOfNone ==
  ASSUME NEW f
  PROVE  SumFunctionOnSet(f, {}) = 0
<1>1. IsFiniteSet({})
  BY FS_EmptySet
<1>2. SumsTo(f, {}, Summed(f, {}))
  BY <1>1, SumsExist
<1>3. Summed(f, {})[{}] = 0
  BY <1>2 DEF SumsTo
<1> QED BY <1>3, SumIsSummed

LEMMA SumOfSome ==
  ASSUME NEW f, NEW S, IsFiniteSet(S), S # {}
  PROVE  SumFunctionOnSet(f, S) = f[Some(S)] + SumFunctionOnSet(f, S \ {Some(S)})
<1>1. SumsTo(f, S, Summed(f, S))
  BY SumsExist
<1>2. Summed(f, S)[S] = f[Some(S)] + Summed(f, S)[S \ {Some(S)}]
  BY <1>1 DEF SumsTo
<1>3. Summed(f, S \ {Some(S)})[S \ {Some(S)}] = Summed(f, S)[S \ {Some(S)}]
  BY SumsWithin
<1> QED BY <1>2, <1>3, SumIsSummed

(* A property of finite sets that the rest of a set passes on to it.       *)
LEMMA SumType ==
  ASSUME NEW f, NEW S, IsFiniteSet(S), \A x \in S : f[x] \in Int
  PROVE  SumFunctionOnSet(f, S) \in Int
<1> DEFINE N == {n \in Nat : \A s \in SUBSET S : Cardinality(s) = n => SumFunctionOnSet(f, s) \in Int}
<1>1. \A s \in SUBSET S : IsFiniteSet(s) /\ Cardinality(s) \in Nat
  BY FS_Subset, FS_CardinalityType
<1>2. 0 \in N
  <2> SUFFICES ASSUME NEW s \in SUBSET S, Cardinality(s) = 0 PROVE SumFunctionOnSet(f, s) \in Int
    OBVIOUS
  <2>1. s = {}
    BY <1>1, FS_EmptySet
  <2>2. SumFunctionOnSet(f, s) = 0
    BY <2>1, SumOfNone
  <2> QED BY <2>2
<1>3. ASSUME NEW n \in Nat, n \in N PROVE n + 1 \in N
  <2> SUFFICES ASSUME NEW s \in SUBSET S, Cardinality(s) = n + 1 PROVE SumFunctionOnSet(f, s) \in Int
    OBVIOUS
  <2>1. s # {}
    <3>1. n + 1 # 0
      OBVIOUS
    <3> QED BY <3>1, FS_EmptySet
  <2>2. Some(s) \in s
    BY <2>1, SomeIn
  <2> DEFINE u == s \ {Some(s)}
  <2>3. Cardinality(u) = n
    <3>1. Cardinality(s \ {Some(s)}) = IF Some(s) \in s THEN Cardinality(s) - 1 ELSE Cardinality(s)
      BY <1>1, FS_RemoveElement
    <3> QED BY <2>2, <3>1
  <2>4. SumFunctionOnSet(f, u) \in Int
    BY <1>3, <2>3
  <2>5. SumFunctionOnSet(f, s) = f[Some(s)] + SumFunctionOnSet(f, u)
    BY <1>1, <2>1, SumOfSome
  <2> HIDE DEF u
  <2> QED BY <2>2, <2>4, <2>5
<1>4. Nat \subseteq N
  <2> HIDE DEF N
  <2> QED BY <1>2, <1>3, AllNumbers
<1> QED BY <1>1, <1>4

(* Any element may be taken out of a sum.                                  *)
LEMMA SumWithout ==
  ASSUME NEW f, NEW S, IsFiniteSet(S), \A x \in S : f[x] \in Int, NEW x \in S
  PROVE  SumFunctionOnSet(f, S) = f[x] + SumFunctionOnSet(f, S \ {x})
<1> DEFINE Sum(s) == SumFunctionOnSet(f, s)
           N == {n \in Nat : \A s \in SUBSET S : Cardinality(s) = n => \A y \in s : Sum(s) = f[y] + Sum(s \ {y})}
<1>1. \A s \in SUBSET S : IsFiniteSet(s) /\ Cardinality(s) \in Nat
  BY FS_Subset, FS_CardinalityType
<1>2. 0 \in N
  <2> SUFFICES ASSUME NEW s \in SUBSET S, Cardinality(s) = 0 PROVE s = {}
    OBVIOUS
  <2> QED BY <1>1, FS_EmptySet
<1>3. \A s \in SUBSET S : Sum(s) \in Int
  BY <1>1, SumType
<1>4. ASSUME NEW n \in Nat, n \in N PROVE n + 1 \in N
  <2> SUFFICES ASSUME NEW s \in SUBSET S, Cardinality(s) = n + 1, NEW y \in s PROVE Sum(s) = f[y] + Sum(s \ {y})
    OBVIOUS
  <2> DEFINE z == Some(s)
  <2>1. z \in s
    BY SomeIn
  <2>2. Sum(s) = f[z] + Sum(s \ {z})
    BY <1>1, SumOfSome
  <2>3. ASSUME NEW w \in s PROVE s \ {w} \in SUBSET S /\ Cardinality(s \ {w}) = n
    <3>1. Cardinality(s \ {w}) = IF w \in s THEN Cardinality(s) - 1 ELSE Cardinality(s)
      BY <1>1, FS_RemoveElement
    <3> QED BY <3>1
  <2> HIDE DEF z, Sum
  <2>4. CASE y = z
    BY <2>2, <2>4
  <2>5. CASE y # z
    <3>1. Sum(s \ {z}) = f[y] + Sum((s \ {z}) \ {y})
      BY <1>4, <2>1, <2>3, <2>5
    <3>2. Sum(s \ {y}) = f[z] + Sum((s \ {y}) \ {z})
      BY <1>4, <2>1, <2>3, <2>5
    <3>3. (s \ {z}) \ {y} = (s \ {y}) \ {z} /\ (s \ {z}) \ {y} \in SUBSET S
      OBVIOUS
    <3>4. Sum((s \ {z}) \ {y}) \in Int /\ f[y] \in Int /\ f[z] \in Int
      BY <1>3, <2>1, <3>3
    <3> DEFINE rest == Sum((s \ {z}) \ {y})
    <3>5. Sum(s) = f[z] + (f[y] + rest) /\ f[y] + Sum(s \ {y}) = f[y] + (f[z] + rest)
      BY <2>2, <3>1, <3>2, <3>3
    <3>6. rest \in Int
      BY <3>4
    <3> HIDE DEF rest
    <3> QED BY <3>4, <3>5, <3>6
  <2> QED BY <2>4, <2>5
<1>5. Nat \subseteq N
  <2> HIDE DEF N
  <2> QED BY <1>2, <1>4, AllNumbers
<1> QED BY <1>1, <1>5

LEMMA SumWith ==
  ASSUME NEW f, NEW S, IsFiniteSet(S), \A y \in S : f[y] \in Int, NEW x, x \notin S, f[x] \in Int
  PROVE  SumFunctionOnSet(f, S \cup {x}) = f[x] + SumFunctionOnSet(f, S)
<1> DEFINE T == S \cup {x}
<1>1. IsFiniteSet(T) /\ x \in T /\ (\A y \in T : f[y] \in Int) /\ T \ {x} = S
  BY FS_AddElement
<1> HIDE DEF T
<1>2. SumFunctionOnSet(f, T) = f[x] + SumFunctionOnSet(f, T \ {x})
  BY <1>1, SumWithout
<1> QED BY <1>1, <1>2 DEF T

LEMMA SumOfEqual ==
  ASSUME NEW f, NEW g, NEW S, IsFiniteSet(S), \A x \in S : f[x] \in Int /\ f[x] = g[x]
  PROVE  SumFunctionOnSet(f, S) = SumFunctionOnSet(g, S)
<1> DEFINE W == {T \in SUBSET S : SumFunctionOnSet(f, T) = SumFunctionOnSet(g, T)}
<1>1. {} \in W
  BY SumOfNone
<1>2. ASSUME NEW T \in SUBSET S, NEW x \in S \ T, T \in W PROVE T \cup {x} \in W
  <2>1. IsFiniteSet(T) /\ x \notin T /\ (\A y \in T : f[y] \in Int /\ g[y] \in Int) /\ f[x] \in Int /\ g[x] \in Int
    BY FS_Subset
  <2>2. SumFunctionOnSet(f, T \cup {x}) = f[x] + SumFunctionOnSet(f, T)
    BY <2>1, SumWith
  <2>3. SumFunctionOnSet(g, T \cup {x}) = g[x] + SumFunctionOnSet(g, T)
    BY <2>1, SumWith
  <2> QED BY <1>2, <2>2, <2>3
<1>3. S \in W
  <2> HIDE DEF W
  <2> QED BY <1>1, <1>2, BuiltUp
<1> QED BY <1>3

(* A sum over two sets that have nothing in common.                        *)
LEMMA SumOfBoth ==
  ASSUME NEW f, NEW S, NEW T, IsFiniteSet(S), IsFiniteSet(T), S \cap T = {}, \A x \in S \cup T : f[x] \in Int
  PROVE  SumFunctionOnSet(f, S \cup T) = SumFunctionOnSet(f, S) + SumFunctionOnSet(f, T)
<1> DEFINE Sum(s) == SumFunctionOnSet(f, s)
           W == {U \in SUBSET T : Sum(S \cup U) = Sum(S) + Sum(U)}
<1>1. {} \in W
  <2>1. Sum(S) \in Int /\ Sum({}) = 0 /\ S \cup {} = S
    BY SumType, SumOfNone
  <2> QED BY <2>1
<1>2. ASSUME NEW U \in SUBSET T, NEW x \in T \ U, U \in W PROVE U \cup {x} \in W
  <2>1. /\ IsFiniteSet(U) /\ x \notin U /\ (\A y \in U : f[y] \in Int) /\ f[x] \in Int
        /\ x \notin S \cup U /\ (\A y \in S \cup U : f[y] \in Int)
    BY FS_Subset
  <2>2. IsFiniteSet(S \cup U)
    BY <2>1, FS_Union
  <2>3. Sum(U \cup {x}) = f[x] + Sum(U)
    BY <2>1, SumWith
  <2> DEFINE V == S \cup U
  <2>4. Sum(V \cup {x}) = f[x] + Sum(V)
    BY <2>1, <2>2, SumWith
  <2>5. V \cup {x} = S \cup (U \cup {x})
    OBVIOUS
  <2>6. Sum(S) \in Int /\ Sum(U) \in Int
    BY <2>1, SumType
  <2>7. Sum(V) = Sum(S) + Sum(U)
    BY <1>2
  <2>8. Sum(S \cup (U \cup {x})) = Sum(S) + Sum(U \cup {x})
    <3> DEFINE a == f[x]
               s == Sum(S)
               u == Sum(U)
               v == Sum(V)
               p == Sum(V \cup {x})
               q == Sum(U \cup {x})
    <3>1. a \in Int /\ s \in Int /\ u \in Int /\ v = s + u /\ p = a + v /\ q = a + u
      BY <2>1, <2>3, <2>4, <2>6, <2>7
    <3>2. Sum(S \cup (U \cup {x})) = p
      BY <2>5
    <3>3. p = s + q
      <4> HIDE DEF a, s, u, v, p, q
      <4> QED BY <3>1
    <3> QED BY <3>2, <3>3
  <2>9. U \cup {x} \in SUBSET T
    OBVIOUS
  <2> QED BY <2>8, <2>9
<1>3. T \in W
  <2> HIDE DEF W
  <2> QED BY <1>1, <1>2, BuiltUp
<1> QED BY <1>3

LEMMA SumNatural ==
  ASSUME NEW f, NEW S, IsFiniteSet(S), \A x \in S : f[x] \in Nat
  PROVE  SumFunctionOnSet(f, S) \in Nat
<1> DEFINE W == {T \in SUBSET S : SumFunctionOnSet(f, T) \in Nat}
<1>1. {} \in W
  BY SumOfNone
<1>2. ASSUME NEW T \in SUBSET S, NEW x \in S \ T, T \in W PROVE T \cup {x} \in W
  <2>1. IsFiniteSet(T) /\ x \notin T /\ (\A y \in T : f[y] \in Int) /\ f[x] \in Int
    BY FS_Subset
  <2>2. SumFunctionOnSet(f, T \cup {x}) = f[x] + SumFunctionOnSet(f, T)
    BY <2>1, SumWith
  <2> QED BY <1>2, <2>2
<1>3. S \in W
  <2> HIDE DEF W
  <2> QED BY <1>1, <1>2, BuiltUp
<1> QED BY <1>3

(* Zeros add nothing.                                                      *)
LEMMA SumOfZeros ==
  ASSUME NEW f, NEW S, IsFiniteSet(S), \A x \in S : f[x] = 0
  PROVE  SumFunctionOnSet(f, S) = 0
<1> DEFINE W == {T \in SUBSET S : SumFunctionOnSet(f, T) = 0}
<1>1. {} \in W
  BY SumOfNone
<1>2. ASSUME NEW T \in SUBSET S, NEW x \in S \ T, T \in W PROVE T \cup {x} \in W
  <2>1. IsFiniteSet(T) /\ x \notin T /\ (\A y \in T : f[y] \in Int) /\ f[x] \in Int
    BY FS_Subset
  <2>2. SumFunctionOnSet(f, T \cup {x}) = f[x] + SumFunctionOnSet(f, T)
    BY <2>1, SumWith
  <2> QED BY <1>2, <2>2
<1>3. S \in W
  <2> HIDE DEF W
  <2> QED BY <1>1, <1>2, BuiltUp
<1> QED BY <1>3

(* A sum over the images of a set's elements, one for each.                *)
LEMMA SumOfImages ==
  ASSUME NEW f, NEW g, NEW m, NEW S, NEW U, IsFiniteSet(S),
         \A x \in S : f[x] \in Int /\ m[x] \in U /\ g[m[x]] = f[x],
         \A u \in U : \E x \in S : u = m[x],
         \A x, y \in S : m[x] = m[y] => x = y
  PROVE  IsFiniteSet(U) /\ SumFunctionOnSet(g, U) = SumFunctionOnSet(f, S)
<1> DEFINE M(T) == {m[x] : x \in T}
           W == {T \in SUBSET S : IsFiniteSet(M(T)) /\ SumFunctionOnSet(g, M(T)) = SumFunctionOnSet(f, T)}
<1>1. {} \in W
  <2>1. M({}) = {}
    OBVIOUS
  <2> QED BY <2>1, SumOfNone, FS_EmptySet
<1>2. ASSUME NEW T \in SUBSET S, NEW x \in S \ T, T \in W PROVE T \cup {x} \in W
  <2>1. IsFiniteSet(T) /\ x \notin T /\ (\A y \in T : f[y] \in Int) /\ f[x] \in Int
    BY FS_Subset
  <2>2. SumFunctionOnSet(f, T \cup {x}) = f[x] + SumFunctionOnSet(f, T)
    BY <2>1, SumWith
  <2>3. M(T \cup {x}) = M(T) \cup {m[x]}
    OBVIOUS
  <2>4. m[x] \notin M(T) /\ (\A y \in M(T) : g[y] \in Int) /\ g[m[x]] \in Int
    BY <2>1
  <2>5. IsFiniteSet(M(T)) /\ SumFunctionOnSet(g, M(T)) = SumFunctionOnSet(f, T)
    BY <1>2
  <2> DEFINE V == M(T)
             y == m[x]
  <2>6. IsFiniteSet(V) /\ y \notin V /\ (\A z \in V : g[z] \in Int) /\ g[y] \in Int
    BY <2>4, <2>5
  <2> HIDE DEF V, y
  <2>7. SumFunctionOnSet(g, V \cup {y}) = g[y] + SumFunctionOnSet(g, V)
    BY <2>6, SumWith
  <2>8. IsFiniteSet(V \cup {y})
    BY <2>6, FS_AddElement
  <2> QED BY <2>2, <2>3, <2>5, <2>7, <2>8 DEF V, y
<1>3. S \in W
  <2> HIDE DEF W
  <2> QED BY <1>1, <1>2, BuiltUp
<1>4. M(S) = U
  OBVIOUS
<1> QED BY <1>3, <1>4
=============================================================================
