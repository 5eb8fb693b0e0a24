------------------------------ MODULE Lists_proofs ------------------------------
(***************************************************************************)
(* Facts about lists and sums that the proofs of several components rest   *)
(* on: what appending, removing and filtering leave, in which order, and   *)
(* how many; what the sum of a function is and how it moves.  The          *)
(* recursive functions of the code's loops are shown to be defined by      *)
(* induction in a set.                                                     *)
(***************************************************************************)
EXTENDS Integers, Lists, Functions, SequenceTheorems, FiniteSetTheorems, FunctionTheorems,
        WellFoundedInduction, TLAPS

(* The elements of a sequence.                                              *)
LEMMA RangeOf ==
  ASSUME NEW S, NEW s \in Seq(S)
  PROVE  /\ Range(s) \subseteq S
         /\ \A i \in 1..Len(s) : s[i] \in Range(s)
         /\ \A x \in Range(s) : \E i \in 1..Len(s) : x = s[i]
  BY LenProperties, ElementOfSeq DEF Range

(* What appending and RemoveAt do to the elements.                          *)
LEMMA RangeAppend ==
  ASSUME NEW S, NEW s \in Seq(S), NEW x \in S
  PROVE  Append(s, x) \in Seq(S) /\ Range(Append(s, x)) = Range(s) \union {x}
<1>1. /\ Append(s, x) \in Seq(S) /\ Len(Append(s, x)) = Len(s) + 1
      /\ \A i \in 1..Len(s) : Append(s, x)[i] = s[i]
      /\ Append(s, x)[Len(s) + 1] = x /\ Len(s) \in Nat
  OBVIOUS
<1>2. 1..(Len(s) + 1) = 1..Len(s) \union {Len(s) + 1}
  BY <1>1
<1>3. DOMAIN s = 1..Len(s) /\ DOMAIN Append(s, x) = 1..(Len(s) + 1)
  BY <1>1
<1> QED BY <1>1, <1>2, <1>3 DEF Range

LEMMA RangeEmpty == Range(<<>>) = {}
  BY DEF Range

LEMMA RemoveAtOf ==
  ASSUME NEW S, NEW s \in Seq(S), NEW k \in 1..Len(s)
  PROVE  RemoveAt(s, k) \in Seq(S) /\ Range(RemoveAt(s, k)) \subseteq Range(s)
<1> DEFINE T == Range(s)
           a == SubSeq(s, 1, k - 1)
           b == SubSeq(s, k + 1, Len(s))
<1>1. Len(s) \in Nat /\ \A i \in 1..Len(s) : s[i] \in T
  BY LenProperties, RangeOf
<1>2. a \in Seq(T)
  BY <1>1, SubSeqProperties
<1>3. b \in Seq(T)
  BY <1>1, SubSeqProperties
<1>4. RemoveAt(s, k) \in Seq(T)
  BY <1>2, <1>3, ConcatProperties DEF RemoveAt
<1>5. T \subseteq S
  BY RangeOf
<1> QED BY <1>4, <1>5, SeqMonotonic, RangeOf

(* Induction over the natural numbers, for a set: every set that holds 0    *)
(* and, with a number, the next one holds them all; it is what shows that   *)
(* the recursive functions of the code's loops are defined.                 *)
Below == {p \in Nat \X Nat : p[1] < p[2]}

LEMMA BelowIsWellFounded == IsWellFoundedOn(Below, Nat)
  BY NatLessThanWellFounded, Zenon DEF OpToRel, Below

(* A set of indices has a least one, so the CHOOSE of a first entry is one. *)
LEMMA LeastIn ==
  ASSUME NEW S, S \subseteq Nat, S # {}
  PROVE  \E i \in S : \A j \in S : i <= j
<1>1. IsWellFoundedOn(Below, S)
  BY BelowIsWellFounded, IsWellFoundedOnSubset
<1>2. PICK i \in S : \A j \in S : ~(<<j, i>> \in Below)
  BY <1>1, WFMin
<1>3. ASSUME NEW j \in S PROVE i <= j
  <2>1. i \in Nat /\ j \in Nat /\ ~(j < i)
    BY <1>2 DEF Below
  <2> QED BY <2>1
<1> QED BY <1>3

LEMMA InductionInSet ==
  ASSUME NEW S, 0 \in S, \A n \in Nat : n \in S => n + 1 \in S
  PROVE  Nat \subseteq S
<1> SUFFICES ASSUME Nat \ S # {} PROVE FALSE
  OBVIOUS
<1>1. PICK i \in Nat \ S : \A j \in Nat \ S : i <= j
  BY LeastIn
<1>2. i # 0 /\ i - 1 \in Nat /\ ~(i <= i - 1) /\ (i - 1) + 1 = i
  BY <1>1
<1> QED BY <1>1, <1>2

-----------------------------------------------------------------------------
(* Any two elements of the sequence, in their order, are related.           *)
InOrder(s, R) == \A i, j \in 1..Len(s) : i < j => <<s[i], s[j]>> \in R

LEMMA AppendInOrder ==
  ASSUME NEW S, NEW s \in Seq(S), NEW R, InOrder(s, R), NEW x \in S,
         \A y \in Range(s) : <<y, x>> \in R
  PROVE  InOrder(Append(s, x), R)
<1>1. /\ Len(Append(s, x)) = Len(s) + 1 /\ Len(s) \in Nat
      /\ \A i \in 1..Len(s) : Append(s, x)[i] = s[i] /\ s[i] \in Range(s)
      /\ Append(s, x)[Len(s) + 1] = x
  BY RangeOf
<1> SUFFICES ASSUME NEW i \in 1..Len(s) + 1, NEW j \in 1..Len(s) + 1, i < j
             PROVE  <<Append(s, x)[i], Append(s, x)[j]>> \in R
  BY <1>1 DEF InOrder
<1>2. i \in 1..Len(s)
  BY <1>1
<1>3. CASE j \in 1..Len(s)
  BY <1>1, <1>2, <1>3 DEF InOrder
<1>4. CASE j = Len(s) + 1
  BY <1>1, <1>2, <1>4
<1>5. QED
  BY <1>1, <1>3, <1>4

(* What filtering a list leaves: the others, in their order.                *)
KeptOf(s, gone, kept) == kept = [n \in 0..Len(s) |->
  IF n = 0 THEN <<>>
  ELSE IF s[n] \in gone THEN kept[n - 1] ELSE Append(kept[n - 1], s[n])]

LEMMA FilteringIsDefined ==
  ASSUME NEW S, NEW s \in Seq(S), NEW gone
  PROVE  \E kept : KeptOf(s, gone, kept)
<1> DEFINE Follows(f, k) == f = [n \in 0..k |->
             IF n = 0 THEN <<>>
             ELSE IF s[n] \in gone THEN f[n - 1] ELSE Append(f[n - 1], s[n])]
           Lengths == {k \in Nat : \E f : Follows(f, k)}
<1>1. 0 \in Lengths
  <2> DEFINE f == [i \in 0..0 |-> <<>>]
  <2>1. Follows(f, 0)
    OBVIOUS
  <2> QED BY <2>1
<1>2. ASSUME NEW k \in Nat, k \in Lengths PROVE k + 1 \in Lengths
  <2>1. PICK f : Follows(f, k)
    BY <1>2
  <2> DEFINE last == IF s[k + 1] \in gone THEN f[k] ELSE Append(f[k], s[k + 1])
             g == [i \in 0..(k + 1) |-> IF i <= k THEN f[i] ELSE last]
  <2>2. ASSUME NEW i \in 0..(k + 1)
        PROVE  g[i] = IF i = 0 THEN <<>>
                      ELSE IF s[i] \in gone THEN g[i - 1] ELSE Append(g[i - 1], s[i])
    <3> HIDE DEF last
    <3>1. CASE i <= k
      <4>1. g[i] = f[i] /\ (i # 0 => g[i - 1] = f[i - 1])
        BY <3>1
      <4>2. f[i] = IF i = 0 THEN <<>>
                   ELSE IF s[i] \in gone THEN f[i - 1] ELSE Append(f[i - 1], s[i])
        <5>1. i \in 0..k
          BY <3>1
        <5>2. \A n \in 0..k : f[n] = IF n = 0 THEN <<>>
                ELSE IF s[n] \in gone THEN f[n - 1] ELSE Append(f[n - 1], s[n])
          BY <2>1
        <5> QED BY <5>1, <5>2
      <4> HIDE DEF g
      <4> QED BY <3>1, <4>1, <4>2
    <3>2. CASE i = k + 1
      <4>1. g[i] = last /\ g[i - 1] = f[k] /\ i # 0
        BY <3>2
      <4> HIDE DEF g
      <4> QED BY <3>2, <4>1 DEF last
    <3> QED BY <3>1, <3>2
  <2>3. g = [i \in 0..(k + 1) |-> g[i]]
    OBVIOUS
  <2> HIDE DEF g
  <2>4. Follows(g, k + 1)
    BY <2>2, <2>3, Zenon
  <2> HIDE DEF Follows
  <2> QED BY <2>4
<1> HIDE DEF Follows
<1>3. Nat \subseteq Lengths
  <2> HIDE DEF Lengths
  <2> QED BY <1>1, <1>2, InductionInSet
<1>4. Len(s) \in Nat
  BY LenProperties
<1> QED BY <1>3, <1>4 DEF Follows, KeptOf

LEMMA FilteredOf ==
  ASSUME NEW S, NEW s \in Seq(S), NEW gone, NEW R, InOrder(s, R)
  PROVE  /\ Filtered(s, gone) \in Seq(S)
         /\ Range(Filtered(s, gone)) = Range(s) \ gone
         /\ InOrder(Filtered(s, gone), R)
<1> DEFINE kept == CHOOSE f : KeptOf(s, gone, f)
           Upto(n) == {s[i] : i \in 1..n}
           Right(n) == /\ kept[n] \in Seq(S) /\ Range(kept[n]) = Upto(n) \ gone
                       /\ InOrder(kept[n], R)
           Lengths == {n \in Nat : n <= Len(s) => Right(n)}
<1>1. KeptOf(s, gone, kept)
  BY FilteringIsDefined
<1>2. Filtered(s, gone) = kept[Len(s)]
  BY DEF Filtered, KeptOf
<1> HIDE DEF kept
<1>3. \A n \in 0..Len(s) : kept[n] = IF n = 0 THEN <<>>
        ELSE IF s[n] \in gone THEN kept[n - 1] ELSE Append(kept[n - 1], s[n])
  BY <1>1 DEF KeptOf
<1>4. Len(s) \in Nat /\ \A i \in 1..Len(s) : s[i] \in S
  BY LenProperties, ElementOfSeq
<1>5. 0 \in Lengths
  <2>1. kept[0] = <<>>
    BY <1>3, <1>4
  <2>2. <<>> \in Seq(S) /\ Range(<<>>) = {} /\ InOrder(<<>>, R)
    BY DEF Range, InOrder
  <2>3. Upto(0) = {}
    OBVIOUS
  <2> QED BY <2>1, <2>2, <2>3
<1>6. ASSUME NEW n \in Nat, n \in Lengths PROVE n + 1 \in Lengths
  <2> SUFFICES ASSUME n + 1 <= Len(s) PROVE Right(n + 1)
    OBVIOUS
  <2>1. Right(n)
    BY <1>4, <1>6
  <2>2. kept[n + 1] = IF s[n + 1] \in gone THEN kept[n] ELSE Append(kept[n], s[n + 1])
    <3>1. n + 1 \in 0..Len(s) /\ n + 1 # 0 /\ (n + 1) - 1 = n
      BY <1>4
    <3> QED BY <1>3, <3>1
  <2>3. Upto(n + 1) = Upto(n) \union {s[n + 1]}
    <3>1. 1..(n + 1) = 1..n \union {n + 1}
      OBVIOUS
    <3> QED BY <3>1
  <2>4. s[n + 1] \in S
    BY <1>4
  <2>5. CASE s[n + 1] \in gone
    <3> HIDE DEF Upto
    <3> QED BY <2>1, <2>2, <2>3, <2>5
  <2>6. CASE s[n + 1] \notin gone
    <3>1. \A y \in Range(kept[n]) : <<y, s[n + 1]>> \in R
      <4> SUFFICES ASSUME NEW y \in Upto(n) PROVE <<y, s[n + 1]>> \in R
        BY <2>1
      <4>1. PICK i \in 1..n : y = s[i]
        OBVIOUS
      <4>2. i \in 1..Len(s) /\ n + 1 \in 1..Len(s) /\ i < n + 1
        BY <1>4
      <4> QED BY <4>1, <4>2 DEF InOrder
    <3>2. kept[n + 1] = Append(kept[n], s[n + 1])
      BY <2>2, <2>6
    <3> HIDE DEF Upto
    <3>3. InOrder(Append(kept[n], s[n + 1]), R)
      BY <2>1, <2>4, <3>1, AppendInOrder
    <3>4. /\ Append(kept[n], s[n + 1]) \in Seq(S)
          /\ Range(Append(kept[n], s[n + 1])) = Range(kept[n]) \union {s[n + 1]}
      BY <2>1, <2>4, RangeAppend
    <3> QED BY <2>1, <2>3, <2>6, <3>2, <3>3, <3>4
  <2> QED BY <2>5, <2>6
<1>7. Nat \subseteq Lengths
  <2> HIDE DEF Lengths
  <2> QED BY <1>5, <1>6, InductionInSet
<1>8. Right(Len(s))
  <2>1. Len(s) \in Lengths
    <3> HIDE DEF Lengths
    <3> QED BY <1>4, <1>7
  <2>2. Len(s) <= Len(s)
    BY <1>4
  <2> HIDE DEF Right
  <2> QED BY <2>1, <2>2
<1>9. Upto(Len(s)) = Range(s)
  BY LenProperties DEF Range
<1> QED BY <1>2, <1>8, <1>9

(* The head of an ordered list occurs nowhere else in it.                   *)
LEMMA TailInOrder ==
  ASSUME NEW S, NEW s \in Seq(S), s # <<>>, NEW R, InOrder(s, R),
         \A x : <<x, x>> \notin R
  PROVE  /\ Head(s) \in Range(s)
         /\ Tail(s) \in Seq(S) /\ Range(Tail(s)) = Range(s) \ {Head(s)}
         /\ InOrder(Tail(s), R)
<1>1. /\ Tail(s) \in Seq(S) /\ Len(s) \in Nat \ {0} /\ Len(Tail(s)) = Len(s) - 1
      /\ Head(s) = s[1] /\ \A i \in 1..Len(Tail(s)) : Tail(s)[i] = s[i + 1]
  BY HeadTailProperties, LenProperties, EmptySeq
<1>2. /\ \A i \in 1..Len(s) : s[i] \in Range(s)
      /\ \A x \in Range(s) : \E i \in 1..Len(s) : x = s[i]
  BY RangeOf
<1>3. /\ \A i \in 1..Len(Tail(s)) : Tail(s)[i] \in Range(Tail(s))
      /\ \A x \in Range(Tail(s)) : \E i \in 1..Len(Tail(s)) : x = Tail(s)[i]
  BY <1>1, RangeOf
<1>4. ASSUME NEW x \in Range(Tail(s)) PROVE x \in Range(s) \ {Head(s)}
  <2>1. PICK i \in 1..Len(Tail(s)) : x = Tail(s)[i]
    BY <1>3
  <2>2. x = s[i + 1] /\ i + 1 \in 1..Len(s) /\ 1 \in 1..Len(s) /\ 1 < i + 1
    BY <1>1, <2>1
  <2>3. <<s[1], x>> \in R
    BY <2>2 DEF InOrder
  <2> QED BY <1>1, <1>2, <2>2, <2>3
<1>5. ASSUME NEW x \in Range(s), x # Head(s) PROVE x \in Range(Tail(s))
  <2>1. PICK i \in 1..Len(s) : x = s[i]
    BY <1>2
  <2>2. i # 1
    BY <1>1, <1>5, <2>1
  <2>3. i - 1 \in 1..Len(Tail(s)) /\ (i - 1) + 1 = i
    BY <1>1, <2>2
  <2> QED BY <1>1, <1>3, <2>1, <2>3
<1>6. InOrder(Tail(s), R)
  <2> SUFFICES ASSUME NEW i \in 1..Len(Tail(s)), NEW j \in 1..Len(Tail(s)), i < j
               PROVE  <<Tail(s)[i], Tail(s)[j]>> \in R
    BY DEF InOrder
  <2>1. i + 1 \in 1..Len(s) /\ j + 1 \in 1..Len(s) /\ i + 1 < j + 1
    BY <1>1
  <2> QED BY <1>1, <2>1 DEF InOrder
<1>7. Head(s) \in Range(s)
  <2>1. 1 \in 1..Len(s)
    BY <1>1
  <2> QED BY <1>1, <1>2, <2>1
<1> QED BY <1>1, <1>4, <1>5, <1>6, <1>7

-----------------------------------------------------------------------------
(* Without repetitions, a list has as many elements as its length says.     *)
LEMMA ListCounts ==
  ASSUME NEW n \in Nat, NEW S, NEW f \in [1..n -> S], \A i, j \in 1..n : f[i] = f[j] => i = j
  PROVE  IsFiniteSet(Range(f)) /\ Cardinality(Range(f)) = n
<1>1. f \in [1..n -> Range(f)] /\ \A x \in Range(f) : \E i \in 1..n : f[i] = x
  BY DEF Range
<1>2. ExistsBijection(1..n, Range(f))
  BY <1>1 DEF ExistsBijection, Bijection, Injection, Surjection, IsInjective
<1> QED BY <1>2, FS_NatBijection, FS_CountingElements

(* Who comes before whom in a list.                                         *)
Before(s) == {p \in Range(s) \X Range(s) :
                \E i, j \in 1..Len(s) : i < j /\ s[i] = p[1] /\ s[j] = p[2]}
Different(S) == {p \in S \X S : p[1] # p[2]}

LEMMA BeforeIsOneWay ==
  ASSUME NEW S, NEW s \in Seq(S), InOrder(s, Different(S)), NEW x, NEW y,
         <<x, y>> \in Before(s)
  PROVE  <<y, x>> \notin Before(s) /\ x # y
<1>0. Len(s) \in Nat
  BY LenProperties
<1>1. PICK i, j \in 1..Len(s) : i < j /\ s[i] = x /\ s[j] = y
  BY DEF Before
<1>2. x # y
  BY <1>1 DEF InOrder, Different
<1>3. ASSUME <<y, x>> \in Before(s) PROVE FALSE
  <2>1. PICK k, m \in 1..Len(s) : k < m /\ s[k] = y /\ s[m] = x
    BY <1>3 DEF Before
  <2>2. \A p, q \in 1..Len(s) : p < q => s[p] # s[q]
    BY DEF InOrder, Different
  <2>3. ~(i < m) /\ ~(m < i) /\ ~(k < j) /\ ~(j < k)
    BY <1>1, <2>1, <2>2
  <2> QED BY <1>0, <1>1, <2>1, <2>3
<1> QED BY <1>2, <1>3

(* Filtering keeps the order of what it leaves.                             *)
LEMMA FilteredBefore ==
  ASSUME NEW S, NEW s \in Seq(S), InOrder(s, Different(S)), NEW gone,
         NEW x, NEW y, <<x, y>> \in Before(s), x \notin gone, y \notin gone
  PROVE  <<x, y>> \in Before(Filtered(s, gone))
<1> DEFINE t == Filtered(s, gone)
<1>1. InOrder(s, Before(s))
  <2>1. \A i \in 1..Len(s) : s[i] \in Range(s)
    BY RangeOf
  <2> QED BY <2>1 DEF InOrder, Before
<1>2. t \in Seq(S) /\ Range(t) = Range(s) \ gone /\ InOrder(t, Before(s))
  BY <1>1, FilteredOf
<1> HIDE DEF t
<1>3. x \in Range(t) /\ y \in Range(t) /\ x # y
  BY <1>2, BeforeIsOneWay DEF Before
<1>4. PICK i, j \in 1..Len(t) : x = t[i] /\ y = t[j]
  <2>1. \A z \in Range(t) : \E i \in 1..Len(t) : z = t[i]
    BY <1>2, RangeOf
  <2> QED BY <1>3, <2>1
<1>5. Len(t) \in Nat
  BY <1>2, LenProperties
<1>6. ~(j < i)
  BY <1>2, <1>4, BeforeIsOneWay DEF InOrder
<1>7. i < j
  BY <1>3, <1>4, <1>5, <1>6
<1> QED BY <1>3, <1>4, <1>7 DEF Before, t

LEMMA AppendBefore ==
  ASSUME NEW S, NEW s \in Seq(S), NEW x \in S
  PROVE  /\ Before(s) \subseteq Before(Append(s, x))
         /\ \A y \in Range(s) : <<y, x>> \in Before(Append(s, x))
<1> DEFINE t == Append(s, x)
<1>1. /\ t \in Seq(S) /\ Len(t) = Len(s) + 1 /\ Len(s) \in Nat
      /\ \A i \in 1..Len(s) : t[i] = s[i]
      /\ t[Len(s) + 1] = x
  BY AppendProperties, LenProperties
<1>2. Range(t) = Range(s) \union {x}
  BY RangeAppend
<1> HIDE DEF t
<1>3. ASSUME NEW p \in Before(s) PROVE p \in Before(t)
  <2>1. PICK i, j \in 1..Len(s) : i < j /\ s[i] = p[1] /\ s[j] = p[2]
    BY DEF Before
  <2>2. i \in 1..Len(t) /\ j \in 1..Len(t) /\ t[i] = p[1] /\ t[j] = p[2]
    BY <1>1, <2>1
  <2> QED BY <1>2, <2>1, <2>2 DEF Before
<1>4. ASSUME NEW y \in Range(s) PROVE <<y, x>> \in Before(t)
  <2>1. PICK i \in 1..Len(s) : y = s[i]
    BY RangeOf
  <2>2. i \in 1..Len(t) /\ Len(s) + 1 \in 1..Len(t) /\ i < Len(s) + 1
    BY <1>1
  <2> QED BY <1>1, <1>2, <2>1, <2>2 DEF Before
<1> QED BY <1>3, <1>4 DEF t
-----------------------------------------------------------------------------
(* Sums.  The sum over a set takes one element after the other, in an order *)
(* that is the same for all functions with that domain.                     *)
Pick(s) == CHOOSE x \in s : TRUE
SumsUp(f, D, iter) == iter = [s \in D |->
  IF s = {} THEN 0 ELSE f[Pick(s)] + iter[s \ {Pick(s)}]]
SumOver(f, S) == CHOOSE iter : SumsUp(f, SUBSET S, iter)

LEMMA SumIsOver ==
  ASSUME NEW f
  PROVE  SumFunction(f) = SumOver(f, DOMAIN f)[DOMAIN f]
BY Zenon DEF SumFunction, SumFunctionOnSet, FoldFunctionOnSet, MapThenFoldSet, SumOver, SumsUp, Pick

(* The elements taken away one by one: each time there is one less.         *)
LEMMA PickOf ==
  ASSUME NEW s, IsFiniteSet(s), s # {}
  PROVE  /\ Pick(s) \in s /\ IsFiniteSet(s \ {Pick(s)}) /\ Cardinality(s) \in Nat \ {0}
         /\ Cardinality(s \ {Pick(s)}) = Cardinality(s) - 1
<1>1. Pick(s) \in s
  BY DEF Pick
<1>2. Cardinality(s) \in Nat /\ Cardinality(s) # 0
  BY FS_CardinalityType, FS_EmptySet
<1> QED BY <1>1, <1>2, FS_RemoveElement

LEMMA SumIsDefined ==
  ASSUME NEW S, IsFiniteSet(S), NEW f
  PROVE  \E iter : SumsUp(f, SUBSET S, iter)
<1> DEFINE Small(n) == {s \in SUBSET S : Cardinality(s) <= n}
           Sizes == {n \in Nat : \E iter : SumsUp(f, Small(n), iter)}
<1>0. \A s \in SUBSET S : IsFiniteSet(s) /\ Cardinality(s) \in Nat
  BY FS_Subset, FS_CardinalityType
<1>1. 0 \in Sizes
  <2> DEFINE iter == [s \in Small(0) |-> 0]
  <2>1. \A s \in Small(0) : s = {}
    BY <1>0, FS_EmptySet
  <2>2. SumsUp(f, Small(0), iter)
    BY <2>1 DEF SumsUp
  <2> QED BY <2>2
<1>2. ASSUME NEW n \in Nat, n \in Sizes PROVE n + 1 \in Sizes
  <2>1. PICK iter : SumsUp(f, Small(n), iter)
    BY <1>2
  <2> DEFINE next == [s \in Small(n + 1) |->
                        IF s = {} THEN 0 ELSE f[Pick(s)] + iter[s \ {Pick(s)}]]
  <2>2. ASSUME NEW s \in Small(n) PROVE s \in Small(n + 1) /\ next[s] = iter[s]
    <3>1. s \in Small(n + 1)
      BY <1>0
    <3>2. iter[s] = IF s = {} THEN 0 ELSE f[Pick(s)] + iter[s \ {Pick(s)}]
      BY <2>1 DEF SumsUp
    <3> QED BY <3>1, <3>2
  <2>3. ASSUME NEW s \in Small(n + 1), s # {} PROVE s \ {Pick(s)} \in Small(n)
    <3>1. s \ {Pick(s)} \in SUBSET S
      OBVIOUS
    <3>2. Cardinality(s \ {Pick(s)}) = Cardinality(s) - 1 /\ Cardinality(s) \in Nat
      BY <1>0, <2>3, PickOf
    <3>3. Cardinality(s) <= n + 1
      OBVIOUS
    <3> QED BY <3>1, <3>2, <3>3
  <2>4. \A s \in Small(n + 1) : next[s] = IF s = {} THEN 0 ELSE f[Pick(s)] + next[s \ {Pick(s)}]
    BY <2>2, <2>3
  <2>5. next = [s \in Small(n + 1) |-> next[s]]
    OBVIOUS
  <2> HIDE DEF next
  <2>6. SumsUp(f, Small(n + 1), next)
    BY <2>4, <2>5, Zenon DEF SumsUp
  <2> QED BY <2>6
<1>3. Nat \subseteq Sizes
  <2> HIDE DEF Sizes
  <2> QED BY <1>1, <1>2, InductionInSet
<1>4. Small(Cardinality(S)) = SUBSET S
  BY <1>0, FS_Subset, FS_CardinalityType
<1>5. Cardinality(S) \in Sizes
  BY <1>0, <1>3
<1> QED BY <1>4, <1>5

LEMMA SumSteps ==
  ASSUME NEW S, IsFiniteSet(S), NEW f
  PROVE  /\ SumOver(f, S)[{}] = 0
         /\ \A s \in SUBSET S : s # {} =>
              SumOver(f, S)[s] = f[Pick(s)] + SumOver(f, S)[s \ {Pick(s)}]
<1>1. SumsUp(f, SUBSET S, SumOver(f, S))
  BY SumIsDefined DEF SumOver
<1>2. \A s \in SUBSET S : SumOver(f, S)[s] =
        IF s = {} THEN 0 ELSE f[Pick(s)] + SumOver(f, S)[s \ {Pick(s)}]
  BY <1>1 DEF SumsUp
<1> QED BY <1>2

LEMMA SumOfZeros ==
  ASSUME NEW S, IsFiniteSet(S), NEW f \in [S -> Nat], \A p \in S : f[p] = 0
  PROVE  SumFunction(f) = 0
<1> DEFINE sum == SumOver(f, S)
           Sizes == {n \in Nat : \A s \in SUBSET S : Cardinality(s) = n => sum[s] = 0}
<1>0. \A s \in SUBSET S : IsFiniteSet(s) /\ Cardinality(s) \in Nat
  BY FS_Subset, FS_CardinalityType
<1>s. /\ sum[{}] = 0
      /\ \A s \in SUBSET S : s # {} => sum[s] = f[Pick(s)] + sum[s \ {Pick(s)}]
  BY SumSteps
<1> HIDE DEF sum
<1>1. 0 \in Sizes
  BY <1>0, <1>s, FS_EmptySet
<1>2. ASSUME NEW n \in Nat, n \in Sizes PROVE n + 1 \in Sizes
  <2> SUFFICES ASSUME NEW s \in SUBSET S, Cardinality(s) = n + 1 PROVE sum[s] = 0
    OBVIOUS
  <2>1. s # {}
    BY FS_EmptySet
  <2>2. Pick(s) \in s /\ Cardinality(s \ {Pick(s)}) = n
    BY <1>0, <2>1, PickOf
  <2>3. sum[s \ {Pick(s)}] = 0 /\ f[Pick(s)] = 0
    BY <1>2, <2>2
  <2>4. sum[s] = f[Pick(s)] + sum[s \ {Pick(s)}]
    BY <1>s, <2>1
  <2> QED BY <2>3, <2>4
<1>3. Nat \subseteq Sizes
  <2> HIDE DEF Sizes
  <2> QED BY <1>1, <1>2, InductionInSet
<1>4. sum[S] = 0
  BY <1>0, <1>3
<1> QED BY <1>4, SumIsOver DEF sum

(* One more for one element is one more in all.                             *)
LEMMA SumOfOneMore ==
  ASSUME NEW S, IsFiniteSet(S), NEW f \in [S -> Nat], NEW g \in [S -> Nat], NEW q \in S,
         \A p \in S : g[p] = IF p = q THEN f[p] + 1 ELSE f[p]
  PROVE  /\ SumFunction(f) \in Nat
         /\ SumFunction(g) = SumFunction(f) + 1
<1> DEFINE before == SumOver(f, S)
           after == SumOver(g, S)
           Moved(s) == /\ before[s] \in Nat
                       /\ after[s] = before[s] + (IF q \in s THEN 1 ELSE 0)
           Sizes == {n \in Nat : \A s \in SUBSET S : Cardinality(s) = n => Moved(s)}
<1>0. \A s \in SUBSET S : IsFiniteSet(s) /\ Cardinality(s) \in Nat
  BY FS_Subset, FS_CardinalityType
<1>s. /\ before[{}] = 0 /\ after[{}] = 0
      /\ \A s \in SUBSET S : s # {} =>
           /\ before[s] = f[Pick(s)] + before[s \ {Pick(s)}]
           /\ after[s] = g[Pick(s)] + after[s \ {Pick(s)}]
  BY SumSteps
<1> HIDE DEF before, after
<1>1. 0 \in Sizes
  <2>1. Moved({})
    BY <1>s
  <2> HIDE DEF Moved
  <2> QED BY <1>0, <2>1, FS_EmptySet
<1>2. ASSUME NEW n \in Nat, n \in Sizes PROVE n + 1 \in Sizes
  <2> SUFFICES ASSUME NEW s \in SUBSET S, Cardinality(s) = n + 1 PROVE Moved(s)
    OBVIOUS
  <2> DEFINE x == Pick(s)
             r == s \ {Pick(s)}
  <2>1. s # {}
    BY FS_EmptySet
  <2>2. x \in s /\ Cardinality(r) = n /\ r \in SUBSET S
    BY <1>0, <2>1, PickOf
  <2>3. Moved(r)
    <3> HIDE DEF Moved
    <3> QED BY <1>2, <2>2
  <2>4. before[s] = f[x] + before[r] /\ after[s] = g[x] + after[r]
    BY <1>s, <2>1
  <2>5. f[x] \in Nat /\ g[x] = f[x] + (IF x = q THEN 1 ELSE 0)
    BY <2>2
  <2>6. q \in s <=> x = q \/ q \in r
    BY <2>2
  <2>7. x \notin r
    OBVIOUS
  <2> HIDE DEF x, r
  <2> QED BY <2>3, <2>4, <2>5, <2>6, <2>7
<1>3. Nat \subseteq Sizes
  <2> HIDE DEF Sizes
  <2> QED BY <1>1, <1>2, InductionInSet
<1>4. Moved(S)
  <2> HIDE DEF Moved
  <2> QED BY <1>0, <1>3
<1>5. SumFunction(f) = before[S] /\ SumFunction(g) = after[S]
  BY SumIsOver DEF before, after
<1> QED BY <1>4, <1>5
-----------------------------------------------------------------------------
(* What InsertAt and RemoveAt leave, place by place.                        *)
LEMMA InsertAtAt ==
  ASSUME NEW S, NEW s \in Seq(S), NEW k \in 1..Len(s) + 1, NEW x \in S
  PROVE  /\ InsertAt(s, k, x) \in Seq(S) /\ Len(InsertAt(s, k, x)) = Len(s) + 1
         /\ \A i \in 1..Len(s) + 1 :
              InsertAt(s, k, x)[i] = IF i < k THEN s[i] ELSE IF i = k THEN x ELSE s[i - 1]
<1> DEFINE a == SubSeq(s, 1, k - 1)
           b == SubSeq(s, k, Len(s))
           c == a \o <<x>>
<1>0. Len(s) \in Nat /\ \A i \in 1..Len(s) : s[i] \in S
  BY LenProperties, ElementOfSeq
<1>1. a \in Seq(S) /\ Len(a) = k - 1 /\ \A i \in 1..k - 1 : a[i] = s[i]
  <2>1. \A i \in 1..k - 1 : s[i] \in S
    BY <1>0
  <2>2. /\ a \in Seq(S) /\ Len(a) = (IF 1 <= k - 1 THEN (k - 1) - 1 + 1 ELSE 0)
        /\ \A i \in 1..(k - 1) - 1 + 1 : a[i] = s[1 + i - 1]
    BY <2>1, SubSeqProperties
  <2> HIDE DEF a
  <2> QED BY <1>0, <2>2
<1>2. b \in Seq(S) /\ Len(b) = Len(s) - k + 1 /\ \A i \in 1..Len(s) - k + 1 : b[i] = s[k + i - 1]
  <2>1. \A i \in k..Len(s) : s[i] \in S
    BY <1>0
  <2>2. /\ b \in Seq(S) /\ Len(b) = (IF k <= Len(s) THEN Len(s) - k + 1 ELSE 0)
        /\ \A i \in 1..Len(s) - k + 1 : b[i] = s[k + i - 1]
    BY <1>0, <2>1, SubSeqProperties
  <2>3. k <= Len(s) \/ Len(s) - k + 1 = 0
    BY <1>0
  <2> HIDE DEF b
  <2> QED BY <2>2, <2>3
<1>3. <<x>> \in Seq(S) /\ Len(<<x>>) = 1 /\ <<x>>[1] = x
  OBVIOUS
<1> HIDE DEF a, b
<1>4. /\ c \in Seq(S) /\ Len(c) = k
      /\ \A i \in 1..k : c[i] = IF i < k THEN s[i] ELSE x
  <2>1. /\ c \in Seq(S) /\ Len(c) = Len(a) + Len(<<x>>)
        /\ \A i \in 1..Len(a) + Len(<<x>>) :
             c[i] = IF i <= Len(a) THEN a[i] ELSE <<x>>[i - Len(a)]
    <3> DEFINE y == <<x>>
    <3>1. y \in Seq(S)
      BY <1>3
    <3> HIDE DEF y
    <3>2. /\ a \o y \in Seq(S) /\ Len(a \o y) = Len(a) + Len(y)
          /\ \A i \in 1..Len(a) + Len(y) :
               (a \o y)[i] = IF i <= Len(a) THEN a[i] ELSE y[i - Len(a)]
      BY <1>1, <3>1, ConcatProperties
    <3> QED BY <3>2 DEF y
  <2>2. Len(a) + Len(<<x>>) = k
    BY <1>0, <1>1, <1>3
  <2> HIDE DEF c
  <2>3. ASSUME NEW i \in 1..k PROVE c[i] = IF i < k THEN s[i] ELSE x
    <3>1. CASE i < k
      <4>1. i \in 1..k - 1 /\ i <= Len(a)
        BY <1>0, <1>1, <3>1
      <4> QED BY <1>1, <2>1, <2>2, <3>1, <4>1
    <3>2. CASE i = k
      <4>1. ~(i <= Len(a)) /\ i - Len(a) = 1
        BY <1>0, <1>1, <3>2
      <4> QED BY <1>3, <2>1, <2>2, <3>2, <4>1
    <3> QED BY <3>1, <3>2
  <2> QED BY <2>1, <2>2, <2>3
<1> HIDE DEF c
<1>5. /\ c \o b \in Seq(S) /\ Len(c \o b) = Len(s) + 1
      /\ \A i \in 1..Len(s) + 1 : (c \o b)[i] = IF i <= k THEN c[i] ELSE b[i - k]
  <2>1. /\ c \o b \in Seq(S) /\ Len(c \o b) = Len(c) + Len(b)
        /\ \A i \in 1..Len(c) + Len(b) : (c \o b)[i] = IF i <= Len(c) THEN c[i] ELSE b[i - Len(c)]
    BY <1>2, <1>4, ConcatProperties
  <2>2. Len(c) + Len(b) = Len(s) + 1 /\ Len(c) = k
    BY <1>0, <1>2, <1>4
  <2> QED BY <2>1, <2>2
<1>6. InsertAt(s, k, x) = c \o b
  BY DEF InsertAt, a, b, c
<1>7. ASSUME NEW i \in 1..Len(s) + 1
      PROVE  (c \o b)[i] = IF i < k THEN s[i] ELSE IF i = k THEN x ELSE s[i - 1]
  <2>1. CASE i <= k
    <3>1. i \in 1..k /\ (i < k \/ i = k)
      BY <1>0, <2>1
    <3> QED BY <1>4, <1>5, <2>1, <3>1
  <2>2. CASE i > k
    <3>1. i - k \in 1..Len(s) - k + 1 /\ k + (i - k) - 1 = i - 1 /\ ~(i < k) /\ i # k /\ ~(i <= k)
      BY <1>0, <2>2
    <3> QED BY <1>2, <1>5, <3>1
  <2>3. i <= k \/ i > k
    BY <1>0
  <2> QED BY <2>1, <2>2, <2>3
<1> QED BY <1>5, <1>6, <1>7

LEMMA InsertAtElements ==
  ASSUME NEW S, NEW s \in Seq(S), NEW k \in 1..Len(s) + 1, NEW x \in S
  PROVE  Range(InsertAt(s, k, x)) = Range(s) \union {x}
<1> DEFINE t == InsertAt(s, k, x)
<1>0. Len(s) \in Nat
  BY LenProperties
<1>1. /\ t \in Seq(S) /\ Len(t) = Len(s) + 1
      /\ \A i \in 1..Len(s) + 1 : t[i] = IF i < k THEN s[i] ELSE IF i = k THEN x ELSE s[i - 1]
  <2> HIDE DEF t
  <2>1. /\ InsertAt(s, k, x) \in Seq(S) /\ Len(InsertAt(s, k, x)) = Len(s) + 1
        /\ \A i \in 1..Len(s) + 1 : InsertAt(s, k, x)[i] =
             IF i < k THEN s[i] ELSE IF i = k THEN x ELSE s[i - 1]
    BY InsertAtAt
  <2>2. t = InsertAt(s, k, x)
    BY DEF t
  <2> QED BY <2>1, <2>2
<1> HIDE DEF t
<1>2. /\ \A i \in 1..Len(s) : s[i] \in Range(s)
      /\ \A y \in Range(s) : \E i \in 1..Len(s) : y = s[i]
  BY RangeOf
<1>3. /\ \A i \in 1..Len(s) + 1 : t[i] \in Range(t)
      /\ \A y \in Range(t) : \E i \in 1..Len(s) + 1 : y = t[i]
  BY <1>1, RangeOf
<1>4. ASSUME NEW y \in Range(t) PROVE y \in Range(s) \union {x}
  <2>1. PICK i \in 1..Len(s) + 1 : y = t[i]
    BY <1>3
  <2>2. i < k => i \in 1..Len(s)
    BY <1>0
  <2>3. i # k /\ ~(i < k) => i - 1 \in 1..Len(s)
    BY <1>0
  <2> QED BY <1>1, <1>2, <2>1, <2>2, <2>3
<1>5. ASSUME NEW y \in Range(s) PROVE y \in Range(t)
  <2>1. PICK i \in 1..Len(s) : y = s[i]
    BY <1>2
  <2>2. CASE i < k
    <3>1. i \in 1..Len(s) + 1
      BY <1>0
    <3> QED BY <1>1, <1>3, <2>1, <2>2, <3>1
  <2>3. CASE ~(i < k)
    <3>1. i + 1 \in 1..Len(s) + 1 /\ ~(i + 1 < k) /\ i + 1 # k /\ (i + 1) - 1 = i
      BY <1>0, <2>3
    <3> QED BY <1>1, <1>3, <2>1, <3>1
  <2> QED BY <2>2, <2>3
<1>6. x \in Range(t)
  <2>1. k \in 1..Len(s) + 1 /\ ~(k < k)
    BY <1>0
  <2> QED BY <1>1, <1>3, <2>1
<1> QED BY <1>4, <1>5, <1>6 DEF t

LEMMA InsertInOrder ==
  ASSUME NEW S, NEW s \in Seq(S), NEW k \in 1..Len(s) + 1, NEW x \in S,
         NEW R, InOrder(s, R),
         \A i \in 1..k - 1 : <<s[i], x>> \in R,
         \A i \in k..Len(s) : <<x, s[i]>> \in R
  PROVE  InOrder(InsertAt(s, k, x), R)
<1> DEFINE t == InsertAt(s, k, x)
<1>0. Len(s) \in Nat
  BY LenProperties
<1>1. /\ t \in Seq(S) /\ Len(t) = Len(s) + 1
      /\ \A i \in 1..Len(s) + 1 : t[i] = IF i < k THEN s[i] ELSE IF i = k THEN x ELSE s[i - 1]
  BY InsertAtAt
<1> HIDE DEF t
<1> SUFFICES ASSUME NEW i \in 1..Len(s) + 1, NEW j \in 1..Len(s) + 1, i < j
             PROVE  <<t[i], t[j]>> \in R
  BY <1>1 DEF InOrder, t
<1>2. CASE j < k
  <2>1. i < k /\ i \in 1..Len(s) /\ j \in 1..Len(s)
    BY <1>0, <1>2
  <2> QED BY <1>1, <1>2, <2>1 DEF InOrder
<1>3. CASE j = k
  <2>1. i < k /\ i \in 1..k - 1 /\ ~(j < k)
    BY <1>0, <1>3
  <2> QED BY <1>1, <1>3, <2>1
<1>4. CASE k < j
  <2>1. ~(j < k) /\ j # k /\ j - 1 \in 1..Len(s) /\ j - 1 \in k..Len(s)
    BY <1>0, <1>4
  <2>2. t[j] = s[j - 1]
    BY <1>1, <2>1
  <2>3. CASE i < k
    <3>1. i \in 1..Len(s) /\ i < j - 1
      BY <1>0, <1>4, <2>3
    <3>2. t[i] = s[i]
      BY <1>1, <2>3
    <3> QED BY <2>1, <2>2, <3>1, <3>2 DEF InOrder
  <2>4. CASE i = k
    <3>1. t[i] = x
      <4>1. ~(i < k)
        BY <1>0, <2>4
      <4> QED BY <1>1, <2>4, <4>1
    <3> QED BY <2>1, <2>2, <3>1
  <2>5. CASE k < i
    <3>1. i - 1 \in 1..Len(s) /\ i - 1 < j - 1 /\ ~(i < k) /\ i # k
      BY <1>0, <2>5
    <3>2. t[i] = s[i - 1]
      BY <1>1, <3>1
    <3> QED BY <2>1, <2>2, <3>1, <3>2 DEF InOrder
  <2>6. i < k \/ i = k \/ k < i
    BY <1>0
  <2> QED BY <2>3, <2>4, <2>5, <2>6
<1>5. j < k \/ j = k \/ k < j
  BY <1>0
<1> QED BY <1>2, <1>3, <1>4, <1>5

LEMMA RemoveAtAt ==
  ASSUME NEW S, NEW s \in Seq(S), NEW k \in 1..Len(s), NEW R, InOrder(s, R)
  PROVE  /\ RemoveAt(s, k) \in Seq(S)
         /\ Range(RemoveAt(s, k)) = {s[i] : i \in 1..Len(s) \ {k}}
         /\ InOrder(RemoveAt(s, k), R)
<1> DEFINE a == SubSeq(s, 1, k - 1)
           b == SubSeq(s, k + 1, Len(s))
           t == RemoveAt(s, k)
<1>0. Len(s) \in Nat /\ \A i \in 1..Len(s) : s[i] \in S
  BY LenProperties, ElementOfSeq
<1>1. a \in Seq(S) /\ Len(a) = k - 1 /\ \A i \in 1..k - 1 : a[i] = s[i]
  <2>1. \A i \in 1..k - 1 : s[i] \in S
    BY <1>0
  <2>2. /\ a \in Seq(S) /\ Len(a) = (IF 1 <= k - 1 THEN (k - 1) - 1 + 1 ELSE 0)
        /\ \A i \in 1..(k - 1) - 1 + 1 : a[i] = s[1 + i - 1]
    BY <2>1, SubSeqProperties
  <2> HIDE DEF a
  <2> QED BY <1>0, <2>2
<1>2. b \in Seq(S) /\ Len(b) = Len(s) - k /\ \A i \in 1..Len(s) - k : b[i] = s[k + i]
  <2>1. \A i \in k + 1..Len(s) : s[i] \in S
    BY <1>0
  <2>2. /\ b \in Seq(S)
        /\ Len(b) = (IF k + 1 <= Len(s) THEN Len(s) - (k + 1) + 1 ELSE 0)
        /\ \A i \in 1..Len(s) - (k + 1) + 1 : b[i] = s[(k + 1) + i - 1]
    BY <1>0, <2>1, SubSeqProperties
  <2>3. (IF k + 1 <= Len(s) THEN Len(s) - (k + 1) + 1 ELSE 0) = Len(s) - k
    BY <1>0
  <2>4. Len(s) - (k + 1) + 1 = Len(s) - k /\ \A i \in 1..Len(s) - k : (k + 1) + i - 1 = k + i
    BY <1>0
  <2> HIDE DEF b
  <2> QED BY <2>2, <2>3, <2>4
<1> HIDE DEF a, b
<1>3. /\ t \in Seq(S) /\ Len(t) = Len(s) - 1
      /\ \A i \in 1..Len(s) - 1 : t[i] = IF i < k THEN s[i] ELSE s[i + 1]
  <2>1. /\ a \o b \in Seq(S) /\ Len(a \o b) = Len(a) + Len(b)
        /\ \A i \in 1..Len(a) + Len(b) : (a \o b)[i] = IF i <= Len(a) THEN a[i] ELSE b[i - Len(a)]
    BY <1>1, <1>2, ConcatProperties
  <2>2. Len(a) + Len(b) = Len(s) - 1
    BY <1>0, <1>1, <1>2
  <2>3. t = a \o b
    BY DEF RemoveAt, a, b
  <2>4. ASSUME NEW i \in 1..Len(s) - 1
        PROVE  (a \o b)[i] = IF i < k THEN s[i] ELSE s[i + 1]
    <3>1. CASE i < k
      <4>1. i \in 1..k - 1 /\ i <= Len(a)
        BY <1>0, <1>1, <3>1
      <4> QED BY <1>1, <2>1, <2>2, <3>1, <4>1
    <3>2. CASE ~(i < k)
      <4>1. ~(i <= Len(a)) /\ i - Len(a) \in 1..Len(s) - k /\ k + (i - Len(a)) = i + 1
        BY <1>0, <1>1, <3>2
      <4> QED BY <1>2, <2>1, <2>2, <3>2, <4>1
    <3> QED BY <3>1, <3>2
  <2> QED BY <2>1, <2>2, <2>3, <2>4
<1> HIDE DEF t
<1>4. Range(t) = {s[i] : i \in 1..Len(s) \ {k}}
  <2>1. /\ \A i \in 1..Len(s) - 1 : t[i] \in Range(t)
        /\ \A y \in Range(t) : \E i \in 1..Len(s) - 1 : y = t[i]
    BY <1>3, RangeOf
  <2>2. ASSUME NEW y \in Range(t) PROVE \E i \in 1..Len(s) \ {k} : y = s[i]
    <3>1. PICK i \in 1..Len(s) - 1 : y = t[i]
      BY <2>1
    <3>2. CASE i < k
      <4>1. i \in 1..Len(s) \ {k}
        BY <1>0, <3>2
      <4> QED BY <1>3, <3>1, <3>2, <4>1
    <3>3. CASE ~(i < k)
      <4>1. i + 1 \in 1..Len(s) \ {k}
        BY <1>0, <3>3
      <4> QED BY <1>3, <3>1, <3>3, <4>1
    <3> QED BY <3>2, <3>3
  <2>3. ASSUME NEW i \in 1..Len(s) \ {k} PROVE s[i] \in Range(t)
    <3>1. CASE i < k
      <4>1. i \in 1..Len(s) - 1
        BY <1>0, <3>1
      <4> QED BY <1>3, <2>1, <3>1, <4>1
    <3>2. CASE ~(i < k)
      <4>1. i - 1 \in 1..Len(s) - 1 /\ ~(i - 1 < k) /\ (i - 1) + 1 = i
        BY <1>0, <3>2
      <4> QED BY <1>3, <2>1, <4>1
    <3> QED BY <3>1, <3>2
  <2> QED BY <2>2, <2>3
<1>5. InOrder(t, R)
  <2> SUFFICES ASSUME NEW i \in 1..Len(s) - 1, NEW j \in 1..Len(s) - 1, i < j
               PROVE  <<t[i], t[j]>> \in R
    BY <1>3 DEF InOrder
  <2>1. i \in 1..Len(s) /\ j \in 1..Len(s) /\ i + 1 \in 1..Len(s) /\ j + 1 \in 1..Len(s)
        /\ i < j + 1 /\ i + 1 < j + 1 /\ (j < k => i < k)
    BY <1>0
  <2>2. t[i] = (IF i < k THEN s[i] ELSE s[i + 1]) /\ t[j] = (IF j < k THEN s[j] ELSE s[j + 1])
    BY <1>3
  <2> QED BY <2>1, <2>2 DEF InOrder
<1> QED BY <1>3, <1>4, <1>5 DEF t
-----------------------------------------------------------------------------
(* Two lists of the same elements in the same order are the same.           *)
LEMMA OneOrder ==
  ASSUME NEW S, NEW s \in Seq(S), NEW t \in Seq(S), Range(s) = Range(t),
         NEW R, InOrder(s, R), InOrder(t, R),
         \A x, y : <<x, y>> \in R => <<y, x>> \notin R
  PROVE  Len(s) = Len(t) /\ s = t
<1> DEFINE Same(a, b, k) == k \in 1..Len(a) => k \in 1..Len(b) /\ a[k] = b[k]
           Agree == {n \in Nat : \A k \in 1..n : Same(s, t, k) /\ Same(t, s, k)}
<1>1. /\ Len(s) \in Nat /\ Len(t) \in Nat
      /\ \A i \in 1..Len(s) : s[i] \in Range(s)
      /\ \A x \in Range(s) : \E i \in 1..Len(s) : x = s[i]
      /\ \A i \in 1..Len(t) : t[i] \in Range(t)
      /\ \A x \in Range(t) : \E i \in 1..Len(t) : x = t[i]
  BY RangeOf, LenProperties
<1>2. \A x : <<x, x>> \notin R
  OBVIOUS
<1>3. 0 \in Agree
  OBVIOUS
<1>4. ASSUME NEW n \in Nat, n \in Agree PROVE n + 1 \in Agree
  <2> DEFINE k == n + 1
  <2>1. ASSUME NEW a \in Seq(S), NEW b \in Seq(S), InOrder(a, R), InOrder(b, R),
               Len(a) \in Nat, Len(b) \in Nat,
               \A i \in 1..Len(a) : \E j \in 1..Len(b) : a[i] = b[j],
               \A i \in 1..Len(b) : \E j \in 1..Len(a) : b[i] = a[j],
               \A i \in 1..n : Same(a, b, i) /\ Same(b, a, i)
        PROVE  Same(a, b, k)
    <3> SUFFICES ASSUME k \in 1..Len(a) PROVE k \in 1..Len(b) /\ a[k] = b[k]
      OBVIOUS
    <3>1. PICK j \in 1..Len(b) : a[k] = b[j]
      BY <2>1
    <3>2. j >= k
      <4> SUFFICES ASSUME j \in 1..n PROVE FALSE
        BY <2>1
      <4>1. j \in 1..Len(a) /\ a[j] = b[j] /\ j < k
        BY <2>1
      <4>2. <<a[j], a[k]>> \in R
        BY <2>1, <4>1 DEF InOrder
      <4> QED BY <1>2, <3>1, <4>1, <4>2
    <3>3. k \in 1..Len(b)
      BY <2>1, <3>2
    <3>4. PICK m \in 1..Len(a) : b[k] = a[m]
      BY <2>1, <3>3
    <3>5. m >= k
      <4> SUFFICES ASSUME m \in 1..n PROVE FALSE
        BY <2>1
      <4>1. m \in 1..Len(b) /\ a[m] = b[m] /\ m < k
        BY <2>1
      <4>2. <<b[m], b[k]>> \in R
        BY <2>1, <3>3, <4>1 DEF InOrder
      <4> QED BY <1>2, <3>4, <4>1, <4>2
    <3>6. CASE j # k /\ m # k
      <4>1. k < j /\ k < m
        BY <2>1, <3>2, <3>5, <3>6
      <4>2. <<b[k], b[j]>> \in R
        <5> HIDE DEF k
        <5> QED BY <2>1, <3>3, <4>1 DEF InOrder
      <4>3. <<a[k], a[m]>> \in R
        <5> HIDE DEF k
        <5> QED BY <2>1, <4>1 DEF InOrder
      <4> QED BY <3>1, <3>4, <4>2, <4>3
    <3> QED BY <3>1, <3>3, <3>4, <3>6
  <2>2. \A i \in 1..n : Same(s, t, i) /\ Same(t, s, i)
    BY <1>4
  <2>3. /\ \A i \in 1..Len(s) : \E j \in 1..Len(t) : s[i] = t[j]
        /\ \A i \in 1..Len(t) : \E j \in 1..Len(s) : t[i] = s[j]
    BY <1>1
  <2> HIDE DEF Same, k
  <2>4. Same(s, t, k)
    BY <1>1, <2>1, <2>2, <2>3
  <2>5. \A i \in 1..n : Same(t, s, i) /\ Same(s, t, i)
    BY <2>2
  <2>6. Same(t, s, k)
    BY <1>1, <2>1, <2>5, <2>3
  <2>7. \A i \in 1..(n + 1) : i \in 1..n \/ i = k
    BY DEF k
  <2> QED BY <2>2, <2>4, <2>6, <2>7
<1>5. Nat \subseteq Agree
  <2> HIDE DEF Agree
  <2> QED BY <1>3, <1>4, InductionInSet
<1>6. \A i \in Nat \ {0} : Same(s, t, i) /\ Same(t, s, i)
  <2> TAKE i \in Nat \ {0}
  <2>1. i \in Agree /\ i \in 1..i
    <3> HIDE DEF Agree
    <3> QED BY <1>5
  <2> QED BY <2>1
<1>7. Len(s) = Len(t)
  <2>1. Len(s) # 0 => Len(s) \in 1..Len(t)
    BY <1>1, <1>6
  <2>2. Len(t) # 0 => Len(t) \in 1..Len(s)
    BY <1>1, <1>6
  <2> QED BY <1>1, <2>1, <2>2
<1>8. \A i \in 1..Len(s) : s[i] = t[i]
  BY <1>1, <1>6
<1> QED BY <1>7, <1>8, SeqEqual

(* One list after another.                                                  *)
LEMMA ConcatInOrder ==
  ASSUME NEW S, NEW s \in Seq(S), NEW t \in Seq(S), NEW R, InOrder(s, R), InOrder(t, R),
         \A x \in Range(s), y \in Range(t) : <<x, y>> \in R
  PROVE  /\ s \o t \in Seq(S) /\ Range(s \o t) = Range(s) \union Range(t)
         /\ InOrder(s \o t, R)
<1> DEFINE u == s \o t
<1>1. /\ u \in Seq(S) /\ Len(u) = Len(s) + Len(t) /\ Len(s) \in Nat /\ Len(t) \in Nat
      /\ \A i \in 1..Len(u) : u[i] = IF i <= Len(s) THEN s[i] ELSE t[i - Len(s)]
  BY ConcatProperties, LenProperties
<1>2. /\ \A i \in 1..Len(s) : s[i] \in Range(s)
      /\ \A x \in Range(s) : \E i \in 1..Len(s) : x = s[i]
      /\ \A i \in 1..Len(t) : t[i] \in Range(t)
      /\ \A x \in Range(t) : \E i \in 1..Len(t) : x = t[i]
  BY RangeOf
<1>3. /\ \A i \in 1..Len(u) : u[i] \in Range(u)
      /\ \A x \in Range(u) : \E i \in 1..Len(u) : x = u[i]
  BY <1>1, RangeOf
<1> HIDE DEF u
<1>4. ASSUME NEW x \in Range(u) PROVE x \in Range(s) \union Range(t)
  <2>1. PICK i \in 1..Len(u) : x = u[i]
    BY <1>3
  <2>2. i <= Len(s) => i \in 1..Len(s)
    BY <1>1
  <2>3. ~(i <= Len(s)) => i - Len(s) \in 1..Len(t)
    BY <1>1
  <2> QED BY <1>1, <1>2, <2>1, <2>2, <2>3
<1>5. ASSUME NEW x \in Range(s) PROVE x \in Range(u)
  <2>1. PICK i \in 1..Len(s) : x = s[i]
    BY <1>2
  <2>2. i \in 1..Len(u) /\ u[i] = s[i]
    BY <1>1
  <2> QED BY <1>3, <2>1, <2>2
<1>6. ASSUME NEW x \in Range(t) PROVE x \in Range(u)
  <2>1. PICK i \in 1..Len(t) : x = t[i]
    BY <1>2
  <2>2. i + Len(s) \in 1..Len(u) /\ ~(i + Len(s) <= Len(s)) /\ (i + Len(s)) - Len(s) = i
    BY <1>1
  <2> QED BY <1>1, <1>3, <2>1, <2>2
<1>7. ASSUME NEW i \in 1..Len(u), NEW j \in 1..Len(u), i < j PROVE <<u[i], u[j]>> \in R
  <2>1. CASE j <= Len(s)
    <3>1. i \in 1..Len(s) /\ j \in 1..Len(s) /\ u[i] = s[i] /\ u[j] = s[j]
      BY <1>1, <1>7, <2>1
    <3> QED BY <1>7, <3>1 DEF InOrder
  <2>2. CASE ~(i <= Len(s))
    <3>1. /\ i - Len(s) \in 1..Len(t) /\ j - Len(s) \in 1..Len(t) /\ i - Len(s) < j - Len(s)
          /\ u[i] = t[i - Len(s)] /\ u[j] = t[j - Len(s)]
      BY <1>1, <1>7, <2>2
    <3> QED BY <3>1 DEF InOrder
  <2>3. CASE i <= Len(s) /\ ~(j <= Len(s))
    <3>1. /\ i \in 1..Len(s) /\ j - Len(s) \in 1..Len(t)
          /\ u[i] = s[i] /\ u[j] = t[j - Len(s)]
      BY <1>1, <1>7, <2>3
    <3> QED BY <1>2, <3>1
  <2> QED BY <1>1, <2>1, <2>2, <2>3
<1> QED BY <1>1, <1>4, <1>5, <1>6, <1>7 DEF InOrder, u

(* Filtering a list by what is read off its elements: what is read off the  *)
(* filtered list is the filtered list of what is read off.                  *)
LEMMA FilteredOff ==
  ASSUME NEW S, NEW s \in Seq(S), NEW T, NEW t \in Seq(T), Len(t) = Len(s),
         NEW g \in [S -> T], NEW gone, NEW left,
         \A i \in 1..Len(s) : t[i] = g[s[i]] /\ (t[i] \in left <=> s[i] \in gone)
  PROVE  /\ Filtered(s, gone) \in Seq(S) /\ Filtered(t, left) \in Seq(T)
         /\ Len(Filtered(s, gone)) <= Len(s)
         /\ Len(Filtered(t, left)) = Len(Filtered(s, gone))
         /\ \A i \in 1..Len(Filtered(s, gone)) : Filtered(t, left)[i] = g[Filtered(s, gone)[i]]
<1> DEFINE kept == CHOOSE f : KeptOf(s, gone, f)
           read == CHOOSE f : KeptOf(t, left, f)
           Right(n) == /\ kept[n] \in Seq(S) /\ read[n] \in Seq(T) /\ Len(read[n]) = Len(kept[n])
                       /\ Len(kept[n]) <= n
                       /\ \A i \in 1..Len(kept[n]) : read[n][i] = g[kept[n][i]]
           Lengths == {n \in Nat : n <= Len(s) => Right(n)}
<1>1. KeptOf(s, gone, kept) /\ KeptOf(t, left, read)
  BY FilteringIsDefined
<1>2. Filtered(s, gone) = kept[Len(s)] /\ Filtered(t, left) = read[Len(t)]
  BY DEF Filtered, KeptOf
<1> HIDE DEF kept, read
<1>3. \A n \in 0..Len(s) :
        /\ kept[n] = IF n = 0 THEN <<>>
                     ELSE IF s[n] \in gone THEN kept[n - 1] ELSE Append(kept[n - 1], s[n])
        /\ read[n] = IF n = 0 THEN <<>>
                     ELSE IF t[n] \in left THEN read[n - 1] ELSE Append(read[n - 1], t[n])
  BY <1>1 DEF KeptOf
<1>4. Len(s) \in Nat /\ \A i \in 1..Len(s) : s[i] \in S /\ t[i] \in T
  BY LenProperties, ElementOfSeq
<1>5. 0 \in Lengths
  <2>1. kept[0] = <<>> /\ read[0] = <<>>
    BY <1>3, <1>4
  <2>2. <<>> \in Seq(S) /\ <<>> \in Seq(T) /\ Len(<<>>) = 0 /\ \A i \in 1..0 : FALSE
    BY EmptySeq
  <2>3. Right(0)
    BY <2>1, <2>2
  <2> HIDE DEF Right
  <2> QED BY <2>3
<1>6. ASSUME NEW n \in Nat, n \in Lengths PROVE n + 1 \in Lengths
  <2> SUFFICES ASSUME n + 1 <= Len(s) PROVE Right(n + 1)
    OBVIOUS
  <2>1. Right(n)
    BY <1>4, <1>6
  <2>2. n + 1 \in 0..Len(s) /\ n + 1 # 0 /\ (n + 1) - 1 = n /\ n + 1 \in 1..Len(s)
    BY <1>4
  <2>3. /\ kept[n + 1] = IF s[n + 1] \in gone THEN kept[n] ELSE Append(kept[n], s[n + 1])
        /\ read[n + 1] = IF t[n + 1] \in left THEN read[n] ELSE Append(read[n], t[n + 1])
    BY <1>3, <2>2
  <2>4. s[n + 1] \in S /\ t[n + 1] \in T /\ t[n + 1] = g[s[n + 1]]
        /\ (t[n + 1] \in left <=> s[n + 1] \in gone)
    BY <1>4, <2>2
  <2>5. CASE s[n + 1] \in gone
    BY <2>1, <2>3, <2>4, <2>5
  <2>6. CASE s[n + 1] \notin gone
    <3> DEFINE a == Append(kept[n], s[n + 1])
               b == Append(read[n], t[n + 1])
    <3>1. kept[n + 1] = a /\ read[n + 1] = b
      BY <2>3, <2>4, <2>6
    <3>2. /\ a \in Seq(S) /\ b \in Seq(T) /\ Len(a) = Len(kept[n]) + 1 /\ Len(b) = Len(read[n]) + 1
          /\ \A i \in 1..Len(a) : a[i] = IF i <= Len(kept[n]) THEN kept[n][i] ELSE s[n + 1]
          /\ \A i \in 1..Len(b) : b[i] = IF i <= Len(read[n]) THEN read[n][i] ELSE t[n + 1]
          /\ Len(kept[n]) \in Nat
      <4>1. /\ a \in Seq(S) /\ Len(a) = Len(kept[n]) + 1 /\ a[Len(kept[n]) + 1] = s[n + 1]
            /\ \A i \in 1..Len(kept[n]) : a[i] = kept[n][i]
        BY <2>1, <2>4, AppendProperties
      <4>2. /\ b \in Seq(T) /\ Len(b) = Len(read[n]) + 1 /\ b[Len(read[n]) + 1] = t[n + 1]
            /\ \A i \in 1..Len(read[n]) : b[i] = read[n][i]
        BY <2>1, <2>4, AppendProperties
      <4>3. Len(kept[n]) \in Nat /\ Len(read[n]) \in Nat
        BY <2>1, LenProperties
      <4> HIDE DEF a, b
      <4> QED BY <4>1, <4>2, <4>3
    <3> HIDE DEF a, b
    <3>3. ASSUME NEW i \in 1..Len(a) PROVE b[i] = g[a[i]]
      <4>1. i \in 1..Len(b) /\ (i <= Len(kept[n]) => i \in 1..Len(kept[n]))
        BY <2>1, <3>2
      <4> QED BY <2>1, <2>4, <3>2, <4>1
    <3> QED BY <2>1, <3>1, <3>2, <3>3
  <2> QED BY <2>5, <2>6
<1>7. Nat \subseteq Lengths
  <2> HIDE DEF Lengths
  <2> QED BY <1>5, <1>6, InductionInSet
<1>8. Right(Len(s))
  <2>1. Len(s) \in Lengths
    <3> HIDE DEF Lengths
    <3> QED BY <1>4, <1>7
  <2>2. Len(s) <= Len(s)
    BY <1>4
  <2> HIDE DEF Right
  <2> QED BY <2>1, <2>2
<1> QED BY <1>2, <1>8
================================================================================
