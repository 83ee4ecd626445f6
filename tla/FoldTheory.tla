------------------------------ MODULE FoldTheory ------------------------------
(***************************************************************************)
(* What can be said of a fold whatever is folded: the intermediate results *)
(* of a fold over a sequence, and that a fold over a sequence or a set     *)
(* keeps what each of its steps keeps.  The step is a parameter of the     *)
(* module, as is what it keeps; a module that folds takes the lemmas from  *)
(* an instance for its step.  The library's folds are recursive functions, *)
(* which exist because their arguments are finite: the lemmas below prove  *)
(* that by induction, and the induction from the least number principle.   *)
(***************************************************************************)
EXTENDS Integers, Folds, FiniteSetTheorems, TLAPS

CONSTANTS
  Op(_, _, _),    (* Op(c, a, x): the step from a with the element x; c is
                     whatever else the step depends on                       *)
  Keep(_, _)      (* Keep(c, a): what the steps keep                         *)

(* FoldLeft and FoldSet of the library for the step, written out: every    *)
(* proof about a module carries what its instances of this one extend.     *)
Greatest(S) == CHOOSE x \in S : \A y \in S : x >= y

Folded(c, base, q) ==
  MapThenFoldSet(LAMBDA x, a : Op(c, a, x), base, LAMBDA i : q[i], Greatest, DOMAIN q)

FoldedSet(c, base, S) ==
  MapThenFoldSet(LAMBDA x, a : Op(c, a, x), base, LAMBDA x : x,
                 LAMBDA s : CHOOSE x \in s : TRUE, S)

-----------------------------------------------------------------------------
(* Induction over the natural numbers.                                     *)
LEMMA LeastNumber ==
  ASSUME NEW T, T \subseteq Nat, T # {}
  PROVE  \E x \in T : \A y \in T : x <= y
<1> DEFINE R == OpToRel(<, Nat)
<1>1. IsWellFoundedOn(R, Nat)
  BY NatLessThanWellFounded
<1>2. PICK x \in T : \A y \in T : ~ (<<y, x>> \in R)
  <2> HIDE DEF R
  <2> QED BY <1>1, WFMin
<1>3. \A y \in T : ~ (y < x)
  BY <1>2 DEF OpToRel
<1> QED BY <1>3

LEMMA SetInduction ==
  ASSUME NEW S, 0 \in S, \A n \in Nat : n \in S => n + 1 \in S
  PROVE  Nat \subseteq S
<1> SUFFICES ASSUME Nat \ S # {} PROVE FALSE
  OBVIOUS
<1>1. PICK x \in Nat \ S : \A y \in Nat \ S : x <= y
  <2> DEFINE T == Nat \ S
  <2> HIDE DEF T
  <2>1. T \subseteq Nat /\ T # {} BY DEF T
  <2> QED BY <2>1, LeastNumber DEF T
<1>2. x # 0 /\ x - 1 \in Nat /\ ~(x - 1 \in Nat \ S)
  BY <1>1
<1> QED BY <1>2, <1>1

-----------------------------------------------------------------------------
(* The sizes of the subsets of a finite set.                               *)
LEMMA SubsetSizes ==
  ASSUME NEW S, IsFiniteSet(S)
  PROVE  \A s \in SUBSET S :
           /\ Cardinality(s) \in Nat
           /\ (Cardinality(s) = 0) <=> (s = {})
           /\ \A x \in s : Cardinality(s \ {x}) = Cardinality(s) - 1
<1> SUFFICES ASSUME NEW s \in SUBSET S
             PROVE  /\ Cardinality(s) \in Nat
                    /\ (Cardinality(s) = 0) <=> (s = {})
                    /\ \A x \in s : Cardinality(s \ {x}) = Cardinality(s) - 1
  OBVIOUS
<1>1. IsFiniteSet(s)
  BY FS_Subset
<1> QED
  BY <1>1, FS_CardinalityType, FS_EmptySet, FS_RemoveElement

(* The recursive function of a fold over the finite set S, which takes the *)
(* element ch[s] of s last and folds its value q[ch[s]].                   *)
Iterates(c, base, q, ch, S, it) ==
  it = [s \in SUBSET S |-> IF s = {} THEN base
                           ELSE Op(c, it[s \ {ch[s]}], q[ch[s]])]

LEMMA IterExists ==
  ASSUME NEW c, NEW base, NEW q, NEW ch, NEW S, IsFiniteSet(S),
         \A s \in SUBSET S : s # {} => ch[s] \in s
  PROVE  \E it : Iterates(c, base, q, ch, S, it)
<1> DEFINE Upto(n) == {s \in SUBSET S : Cardinality(s) <= n}
           D(n, it) == it = [s \in Upto(n) |->
                               IF s = {} THEN base ELSE Op(c, it[s \ {ch[s]}], q[ch[s]])]
           K == {n \in Nat : \E it : D(n, it)}
<1>1. 0 \in K
  <2>1. PICK it : it = [s \in Upto(0) |-> base]
    OBVIOUS
  <2>2. \A s \in Upto(0) : s = {}
    BY SubsetSizes
  <2>3. D(0, it)
    BY <2>1, <2>2
  <2> QED BY <2>3
<1>2. ASSUME NEW n \in Nat, n \in K PROVE n + 1 \in K
  <2>1. PICK it : D(n, it)
    BY <1>2
  <2>2. PICK jt : jt = [s \in Upto(n + 1) |-> IF s \in Upto(n) THEN it[s]
                                              ELSE Op(c, it[s \ {ch[s]}], q[ch[s]])]
    OBVIOUS
  <2>3. ASSUME NEW s \in Upto(n + 1)
        PROVE  jt[s] = IF s = {} THEN base ELSE Op(c, jt[s \ {ch[s]}], q[ch[s]])
    <3>1. s # {} => s \ {ch[s]} \in Upto(n) /\ s \ {ch[s]} \in Upto(n + 1)
      BY SubsetSizes
    <3>2. s # {} => jt[s \ {ch[s]}] = it[s \ {ch[s]}]
      BY <3>1, <2>2
    <3>3. CASE s \in Upto(n)
      BY <3>2, <3>3, <2>1, <2>2
    <3>4. CASE s \notin Upto(n)
      <4>1. s # {}
        BY <3>4, SubsetSizes
      <4> QED BY <4>1, <3>2, <3>4, <2>2
    <3> QED BY <3>3, <3>4
  <2>4. jt = [s \in Upto(n + 1) |-> jt[s]]
    BY <2>2
  <2>5. D(n + 1, jt)
    <3> HIDE DEF Upto
    <3> QED BY <2>4, <2>3
  <2> HIDE DEF D
  <2> QED BY <2>5
<1>3. Nat \subseteq K
  <2> HIDE DEF K
  <2> QED BY <1>1, <1>2, SetInduction
<1>4. Cardinality(S) \in K /\ Upto(Cardinality(S)) = SUBSET S
  BY SubsetSizes, <1>3, FS_Subset, FS_CardinalityType
<1>5. PICK it : D(Cardinality(S), it)
  BY <1>4
<1> QED
  BY <1>4, <1>5 DEF Iterates

(* What every step keeps, the recursive function keeps.                    *)
LEMMA IterKeeps ==
  ASSUME NEW c, NEW base, NEW q, NEW ch, NEW S, IsFiniteSet(S),
         \A s \in SUBSET S : s # {} => ch[s] \in s,
         NEW it, Iterates(c, base, q, ch, S, it),
         Keep(c, base),
         \A a, x : x \in S /\ Keep(c, a) => Keep(c, Op(c, a, q[x]))
  PROVE  Keep(c, it[S])
<1> DEFINE K == {n \in Nat : \A s \in SUBSET S : Cardinality(s) = n => Keep(c, it[s])}
<1>1. \A s \in SUBSET S : it[s] = IF s = {} THEN base ELSE Op(c, it[s \ {ch[s]}], q[ch[s]])
  BY DEF Iterates
<1>2. 0 \in K
  BY SubsetSizes, <1>1
<1>3. ASSUME NEW n \in Nat, n \in K PROVE n + 1 \in K
  <2>1. ASSUME NEW s \in SUBSET S, Cardinality(s) = n + 1 PROVE Keep(c, it[s])
    <3>1. s # {} /\ Cardinality(s \ {ch[s]}) = n
      BY <2>1, SubsetSizes
    <3>2. Keep(c, it[s \ {ch[s]}]) /\ ch[s] \in S
      BY <3>1, <1>3
    <3>3. it[s] = Op(c, it[s \ {ch[s]}], q[ch[s]])
      BY <3>1, <1>1
    <3>4. Keep(c, Op(c, it[s \ {ch[s]}], q[ch[s]]))
      <4>1. PICK a, x : a = it[s \ {ch[s]}] /\ x = ch[s]
        OBVIOUS
      <4>2. x \in S /\ Keep(c, a)
        BY <4>1, <3>2
      <4>3. Keep(c, Op(c, a, q[x]))
        BY <4>2
      <4> QED BY <4>1, <4>3
    <3> QED BY <3>3, <3>4
  <2> QED BY <2>1
<1>4. Nat \subseteq K
  <2> HIDE DEF K
  <2> QED BY <1>2, <1>3, SetInduction
<1> QED
  BY <1>4, SubsetSizes

-----------------------------------------------------------------------------
(* The greatest of a set of positions.                                          *)
LEMMA MaxInSet ==
  ASSUME NEW n \in Nat, NEW s \in SUBSET (1 .. n), s # {}
  PROVE  Greatest(s) \in s /\ \A y \in s : y <= Greatest(s)
<1> DEFINE T == {k \in Nat : n - k \in s}
<1>1. T \subseteq Nat /\ T # {}
  <2>1. PICK y : y \in s
    OBVIOUS
  <2>2. n - y \in T
    BY <2>1
  <2> QED BY <2>2
<1>2. PICK k \in T : \A j \in T : k <= j
  <2> HIDE DEF T
  <2> QED BY <1>1, LeastNumber
<1>3. n - k \in s /\ \A y \in s : y <= n - k
  <2>1. ASSUME NEW y \in s PROVE y <= n - k
    <3>1. n - y \in T /\ k \in Nat /\ y \in Nat
      OBVIOUS
    <3>2. k <= n - y
      <4> HIDE DEF T
      <4> QED BY <3>1, <1>2
    <3> QED BY <3>1, <3>2
  <2> QED BY <2>1, <1>2
<1> QED
  BY <1>3 DEF Greatest

(* A fold over a sequence is an iterate that takes the last element last.  *)
TakesLast(c, base, q, n, ch, it) ==
  /\ \A s \in SUBSET (1 .. n) : s # {} => ch[s] \in s /\ ch[s] = Greatest(s)
  /\ Iterates(c, base, q, ch, 1 .. n, it)
  /\ Folded(c, base, q) = it[1 .. n]

LEMMA FoldIter ==
  ASSUME NEW c, NEW base, NEW q, NEW n \in Nat, DOMAIN q = 1 .. n
  PROVE  \E ch, it : TakesLast(c, base, q, n, ch, it)
<1> DEFINE F(it) == [s \in SUBSET (1 .. n) |->
                       IF s = {} THEN base ELSE Op(c, it[s \ {Greatest(s)}], q[Greatest(s)])]
           Result == CHOOSE it : it = F(it)
<1>1. PICK ch : ch = [s \in SUBSET (1 .. n) |-> Greatest(s)]
  OBVIOUS
<1>2. \A s \in SUBSET (1 .. n) : s # {} => ch[s] \in s /\ ch[s] = Greatest(s)
  BY <1>1, MaxInSet
<1>3. IsFiniteSet(1 .. n)
  BY FS_Interval
<1>4. ASSUME NEW it PROVE it = F(it) <=> Iterates(c, base, q, ch, 1 .. n, it)
  BY <1>2 DEF Iterates
<1>5. \E it : it = F(it)
  BY <1>2, <1>3, <1>4, IterExists
<1>6. Result = F(Result)
  BY <1>5
<1>7. Folded(c, base, q) = Result[1 .. n]
  BY DEF Folded, MapThenFoldSet
<1>8. Iterates(c, base, q, ch, 1 .. n, Result)
  <2> HIDE DEF Result, F
  <2> QED BY <1>4, <1>6
<1> QED
  <2> HIDE DEF Result
  <2> QED BY <1>2, <1>7, <1>8 DEF TakesLast

(* The intermediate results of a fold over a sequence.                     *)
Steps(c, base, q, n, at) ==
  /\ at[0] = base
  /\ \A i \in 1 .. n : at[i] = Op(c, at[i - 1], q[i])

LEMMA FoldSteps ==
  ASSUME NEW c, NEW base, NEW q, NEW n \in Nat, DOMAIN q = 1 .. n
  PROVE  \E at : Steps(c, base, q, n, at) /\ Folded(c, base, q) = at[n]
<1>1. PICK ch, it : TakesLast(c, base, q, n, ch, it)
  BY FoldIter
<1>2. PICK at : at = [i \in 0 .. n |-> it[1 .. i]]
  OBVIOUS
<1>3. at[0] = base
  <2>1. 1 .. 0 = {} /\ {} \in SUBSET (1 .. n)
    OBVIOUS
  <2>2. it[{}] = base
    BY <1>1 DEF TakesLast, Iterates
  <2> QED BY <2>1, <2>2, <1>2
<1>4. ASSUME NEW i \in 1 .. n PROVE at[i] = Op(c, at[i - 1], q[i])
  <2>1. 1 .. i \in SUBSET (1 .. n) /\ i \in 1 .. i /\ 1 .. i # {}
    OBVIOUS
  <2>2. ch[1 .. i] = i
    <3>1. ch[1 .. i] \in 1 .. i /\ ch[1 .. i] = Greatest(1 .. i)
      BY <1>1, <2>1 DEF TakesLast
    <3>2. i <= Greatest(1 .. i)
      BY <2>1, MaxInSet
    <3> QED BY <3>1, <3>2
  <2>3. (1 .. i) \ {i} = 1 .. i - 1
    OBVIOUS
  <2>4. it[1 .. i] = Op(c, it[(1 .. i) \ {i}], q[i])
    BY <1>1, <2>1, <2>2 DEF TakesLast, Iterates
  <2>5. at[i] = it[1 .. i] /\ at[i - 1] = it[1 .. i - 1]
    BY <1>2
  <2> QED BY <2>3, <2>4, <2>5
<1>5. Steps(c, base, q, n, at)
  BY <1>3, <1>4 DEF Steps
<1>6. Folded(c, base, q) = at[n]
  BY <1>1, <1>2 DEF TakesLast
<1> QED
  BY <1>5, <1>6

(* A fold over a sequence keeps what its steps keep.                       *)
LEMMA FoldKeeps ==
  ASSUME NEW c, NEW base, NEW q, NEW n \in Nat, DOMAIN q = 1 .. n,
         Keep(c, base),
         \A a, i : i \in 1 .. n /\ Keep(c, a) => Keep(c, Op(c, a, q[i]))
  PROVE  Keep(c, Folded(c, base, q))
<1>1. PICK ch, it : TakesLast(c, base, q, n, ch, it)
  BY FoldIter
<1>2. IsFiniteSet(1 .. n)
  BY FS_Interval
<1>3. Keep(c, it[1 .. n])
  BY <1>1, <1>2, IterKeeps DEF TakesLast
<1> QED
  BY <1>1, <1>3 DEF TakesLast

(* A fold over a finite set takes its elements in some order.              *)
SetSteps(c, base, S, ch, it) ==
  /\ \A s \in SUBSET S : s # {} => ch[s] \in s
  /\ Iterates(c, base, [x \in S |-> x], ch, S, it)
  /\ FoldedSet(c, base, S) = it[S]

LEMMA FoldSetIter ==
  ASSUME NEW c, NEW base, NEW S, IsFiniteSet(S)
  PROVE  \E ch, it : SetSteps(c, base, S, ch, it)
<1> DEFINE F(it) == [s \in SUBSET S |->
                       IF s = {} THEN base
                       ELSE Op(c, it[s \ {CHOOSE x \in s : TRUE}], CHOOSE x \in s : TRUE)]
           Result == CHOOSE it : it = F(it)
<1>1. PICK ch : ch = [s \in SUBSET S |-> CHOOSE x \in s : TRUE]
  OBVIOUS
<1>2. PICK q : q = [x \in S |-> x]
  OBVIOUS
<1>3. \A s \in SUBSET S : s # {} => ch[s] \in s /\ ch[s] = (CHOOSE x \in s : TRUE)
                                   /\ q[ch[s]] = ch[s]
  BY <1>1, <1>2
<1>4. ASSUME NEW it PROVE it = F(it) <=> Iterates(c, base, q, ch, S, it)
  BY <1>3 DEF Iterates
<1>5. \E it : it = F(it)
  <2>1. \E it : Iterates(c, base, q, ch, S, it)
    BY <1>3, IterExists
  <2> HIDE DEF F
  <2> QED BY <2>1, <1>4
<1>6. Result = F(Result)
  BY <1>5
<1>7. FoldedSet(c, base, S) = Result[S]
  BY DEF FoldedSet, MapThenFoldSet
<1>8. Iterates(c, base, q, ch, S, Result)
  <2> HIDE DEF Result, F
  <2> QED BY <1>4, <1>6
<1> QED
  <2> HIDE DEF Result
  <2> QED BY <1>2, <1>3, <1>7, <1>8 DEF SetSteps

(* So it keeps what its steps keep as well.                                *)
LEMMA FoldSetKeeps ==
  ASSUME NEW c, NEW base, NEW S, IsFiniteSet(S),
         Keep(c, base),
         \A a, x : x \in S /\ Keep(c, a) => Keep(c, Op(c, a, x))
  PROVE  Keep(c, FoldedSet(c, base, S))
<1>1. PICK ch, it : SetSteps(c, base, S, ch, it)
  BY FoldSetIter
<1>2. PICK q : q = [x \in S |-> x]
  OBVIOUS
<1>3. \A a, x : x \in S /\ Keep(c, a) => Keep(c, Op(c, a, q[x]))
  BY <1>2
<1>4. /\ \A s \in SUBSET S : s # {} => ch[s] \in s
      /\ Iterates(c, base, q, ch, S, it) /\ FoldedSet(c, base, S) = it[S]
  BY <1>1, <1>2 DEF SetSteps
<1>5. Keep(c, it[S])
  BY <1>3, <1>4, IterKeeps
<1> QED
  BY <1>4, <1>5

(* The intermediate results of a fold over a set, by the elements taken.   *)
OneByOne(c, base, S, ch, it) ==
  /\ it[{}] = base
  /\ \A s \in SUBSET S : s # {} => ch[s] \in s /\ it[s] = Op(c, it[s \ {ch[s]}], ch[s])

LEMMA FoldSetSteps ==
  ASSUME NEW c, NEW base, NEW S, IsFiniteSet(S)
  PROVE  \E ch, it : OneByOne(c, base, S, ch, it) /\ FoldedSet(c, base, S) = it[S]
<1>1. PICK ch, it : SetSteps(c, base, S, ch, it)
  BY FoldSetIter
<1>2. it = [s \in SUBSET S |-> IF s = {} THEN base
                               ELSE Op(c, it[s \ {ch[s]}], [x \in S |-> x][ch[s]])]
  BY <1>1 DEF SetSteps, Iterates
<1>3. it[{}] = base
  BY <1>2
<1>4. ASSUME NEW s \in SUBSET S, s # {}
      PROVE  ch[s] \in s /\ it[s] = Op(c, it[s \ {ch[s]}], ch[s])
  <2>1. ch[s] \in s /\ ch[s] \in S
    BY <1>1, <1>4 DEF SetSteps
  <2>2. [x \in S |-> x][ch[s]] = ch[s]
    BY <2>1
  <2> QED BY <2>1, <2>2, <1>2, <1>4
<1> QED
  BY <1>1, <1>3, <1>4 DEF SetSteps, OneByOne

=============================================================================
