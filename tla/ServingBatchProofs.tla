------------------------- MODULE ServingBatchProofs -------------------------
(***************************************************************************)
(* The serving loop while it schedules: with enough KV blocks for every    *)
(* request no batch fails, and then the lists of the scheduler, the        *)
(* batches under way, the blocks held, the turns of the sessions and the   *)
(* tallies agree with each other.  This module says what that is (Settled) *)
(* and shows that admission, batch formation and _maybe_schedule keep it.  *)
(***************************************************************************)
EXTENDS ServingProofs

-----------------------------------------------------------------------------
(* Lists without repetition.                                               *)
Once(q) == \A i, j \in 1 .. Len(q) : q[i] = q[j] => i = j

(* q lists the elements of S, each once.                                   *)
Lists(q, S) == q \in Seq(S) /\ Once(q) /\ \A x \in S : \E i \in 1 .. Len(q) : q[i] = x

(* Induction up to n.                                                      *)
LEMMA Upwards ==
  ASSUME NEW n \in Nat, NEW K, 0 \in K, \A i \in 1 .. n : i - 1 \in K => i \in K
  PROVE  n \in K
<1> DEFINE L == {i \in Nat : i <= n => i \in K}
<1>1. 0 \in L
  OBVIOUS
<1>2. ASSUME NEW i \in Nat, i \in L PROVE i + 1 \in L
  <2>1. CASE i + 1 <= n
    <3>1. i + 1 \in 1 .. n /\ (i + 1) - 1 = i /\ i \in K
      BY <1>2, <2>1
    <3> QED BY <3>1
  <2> QED BY <2>1
<1>3. Nat \subseteq L
  <2> HIDE DEF L
  <2> QED BY <1>1, <1>2, Sums!SetInduction
<1> QED
  BY <1>3

(* A list of S has S as its set of elements.                               *)
LEMMA ListsSet ==
  ASSUME NEW q, NEW S, Lists(q, S)
  PROVE  ToSet(q) = S /\ Len(q) \in Nat /\ DOMAIN q = 1 .. Len(q)
<1>1. q \in Seq(S) /\ Len(q) \in Nat /\ DOMAIN q = 1 .. Len(q)
  BY DEF Lists
<1>2. \A i \in 1 .. Len(q) : q[i] \in S
  BY <1>1
<1> QED
  BY <1>1, <1>2 DEF Lists, ToSet

(* A sequence without repetition lists its elements.                       *)
LEMMA ListsOf ==
  ASSUME NEW T, NEW q \in Seq(T), Once(q)
  PROVE  Lists(q, ToSet(q))
<1>1. Len(q) \in Nat /\ DOMAIN q = 1 .. Len(q)
  OBVIOUS
<1>2. \A i \in 1 .. Len(q) : q[i] \in ToSet(q)
  BY <1>1 DEF ToSet
<1>3. q \in Seq(ToSet(q))
  BY <1>1, <1>2
<1>4. \A x \in ToSet(q) : \E i \in 1 .. Len(q) : q[i] = x
  BY <1>1 DEF ToSet
<1> QED
  BY <1>3, <1>4 DEF Lists

(* The empty sequence lists nothing.                                       *)
LEMMA ListsNone == Lists(<<>>, {})
BY DEF Lists, Once

(* Appending (scheduler.py:63) one that is not listed.                     *)
LEMMA ListsAppend ==
  ASSUME NEW q, NEW S, Lists(q, S), NEW r, r \notin S
  PROVE  Lists(Append(q, r), S \cup {r})
<1>1. PICK T, p, n : T = S \cup {r} /\ p = Append(q, r) /\ n = Len(q)
  OBVIOUS
<1>2. q \in Seq(S) /\ n \in Nat /\ \A i \in 1 .. n : q[i] \in S
  BY <1>1 DEF Lists
<1>3. q \in Seq(T)
  <2>1. S \subseteq T
    BY <1>1
  <2> QED BY <2>1, <1>2, SeqWider
<1>4. p \in Seq(T) /\ Len(p) = n + 1 /\ p[n + 1] = r /\ \A i \in 1 .. n : p[i] = q[i]
  <2>1. r \in T
    BY <1>1
  <2> QED BY <2>1, <1>1, <1>3
<1>5. Once(p)
  <2> SUFFICES ASSUME NEW i \in 1 .. n + 1, NEW j \in 1 .. n + 1, p[i] = p[j] PROVE i = j
    BY <1>4 DEF Once
  <2>1. (i \in 1 .. n \/ i = n + 1) /\ (j \in 1 .. n \/ j = n + 1)
    BY <1>2
  <2>2. \A k \in 1 .. n : p[k] # r
    BY <1>2, <1>4
  <2> QED BY <2>1, <2>2, <1>1, <1>4 DEF Lists, Once
<1>6. \A x \in T : \E i \in 1 .. n + 1 : p[i] = x
  <2>1. \A x \in S : \E i \in 1 .. n : q[i] = x
    BY <1>1 DEF Lists
  <2>2. 1 .. n \subseteq 1 .. n + 1 /\ n + 1 \in 1 .. n + 1
    BY <1>2
  <2> QED BY <2>1, <2>2, <1>1, <1>4
<1> QED
  BY <1>1, <1>4, <1>5, <1>6 DEF Lists

(* The lists of two sets that share nothing, one after the other.          *)
LEMMA ListsConcat ==
  ASSUME NEW p, NEW S, Lists(p, S), NEW q, NEW T, Lists(q, T), S \cap T = {}
  PROVE  Lists(p \o q, S \cup T)
<1>1. PICK U, w, m, n : U = S \cup T /\ w = p \o q /\ m = Len(p) /\ n = Len(q)
  OBVIOUS
<1>2. /\ p \in Seq(S) /\ m \in Nat /\ \A i \in 1 .. m : p[i] \in S
      /\ q \in Seq(T) /\ n \in Nat /\ \A i \in 1 .. n : q[i] \in T
  BY <1>1 DEF Lists
<1>3. p \in Seq(U) /\ q \in Seq(U)
  <2>1. S \subseteq U /\ T \subseteq U
    BY <1>1
  <2> QED BY <2>1, <1>2, SeqWider
<1>4. w \in Seq(U) /\ Len(w) = m + n
  BY <1>1, <1>3, SeqConcat
<1>5. /\ \A i \in 1 .. m : w[i] = p[i]
      /\ \A i \in 1 .. n : w[m + i] = q[i]
  BY <1>1, <1>2, <1>3
<1>6. \A i \in 1 .. m + n : i \in 1 .. m \/ (i - m \in 1 .. n /\ m + (i - m) = i)
  BY <1>2
<1>7. Once(w)
  <2> SUFFICES ASSUME NEW i \in 1 .. m + n, NEW j \in 1 .. m + n, w[i] = w[j] PROVE i = j
    BY <1>4 DEF Once
  <2>1. CASE i \in 1 .. m /\ j \in 1 .. m
    BY <2>1, <1>1, <1>5 DEF Lists, Once
  <2>2. CASE i - m \in 1 .. n /\ j - m \in 1 .. n
    <3>1. w[i] = q[i - m] /\ w[j] = q[j - m]
      BY <2>2, <1>5, <1>6, <1>2
    <3>2. i - m = j - m
      BY <2>2, <3>1, <1>1 DEF Lists, Once
    <3> QED BY <3>2, <1>2
  <2>3. CASE i \in 1 .. m /\ j - m \in 1 .. n
    <3>1. w[i] \in S /\ w[j] \in T
      <4>1. w[j] = q[j - m]
        BY <2>3, <1>5, <1>2
      <4> QED BY <4>1, <2>3, <1>2, <1>5
    <3> QED BY <3>1
  <2>4. CASE i - m \in 1 .. n /\ j \in 1 .. m
    <3>1. w[i] \in T /\ w[j] \in S
      <4>1. w[i] = q[i - m]
        BY <2>4, <1>5, <1>2
      <4> QED BY <4>1, <2>4, <1>2, <1>5
    <3> QED BY <3>1
  <2> QED BY <2>1, <2>2, <2>3, <2>4, <1>6
<1>8. \A x \in U : \E i \in 1 .. m + n : w[i] = x
  <2>1. ASSUME NEW x \in S PROVE \E i \in 1 .. m + n : w[i] = x
    <3>1. PICK i \in 1 .. m : p[i] = x
      BY <1>1 DEF Lists
    <3>2. i \in 1 .. m + n
      BY <1>2
    <3> QED BY <3>1, <3>2, <1>5
  <2>2. ASSUME NEW x \in T PROVE \E i \in 1 .. m + n : w[i] = x
    <3>1. PICK i \in 1 .. n : q[i] = x
      BY <1>1 DEF Lists
    <3>2. m + i \in 1 .. m + n
      BY <1>2
    <3> QED BY <3>1, <3>2, <1>5
  <2> QED BY <2>1, <2>2, <1>1
<1> QED
  BY <1>1, <1>4, <1>7, <1>8 DEF Lists

(* Putting back in reverse (run_serving.py:750) loses none.                *)
LEMMA ListsReverse ==
  ASSUME NEW q, NEW S, Lists(q, S)
  PROVE  Lists(Reverse(q), S)
<1>1. PICK n : n = Len(q)
  OBVIOUS
<1>2. q \in Seq(S) /\ n \in Nat /\ \A i \in 1 .. n : q[i] \in S
  BY <1>1 DEF Lists
<1>3. \A i \in 1 .. n : (n - i) + 1 \in 1 .. n
  BY <1>2
<1>4. PICK p : p = [i \in 1 .. n |-> q[(n - i) + 1]]
  OBVIOUS
<1>5. p = Reverse(q)
  BY <1>1, <1>4 DEF Reverse
<1>6. p \in [1 .. n -> S]
  BY <1>2, <1>3, <1>4
<1>7. p \in Seq(S) /\ Len(p) = n
  BY <1>2, <1>6
<1>8. Once(p)
  <2> SUFFICES ASSUME NEW i \in 1 .. n, NEW j \in 1 .. n, p[i] = p[j] PROVE i = j
    BY <1>7 DEF Once
  <2>1. (n - i) + 1 = (n - j) + 1
    BY <1>1, <1>3, <1>4 DEF Lists, Once
  <2> QED BY <2>1, <1>2
<1>9. ASSUME NEW x \in S PROVE \E i \in 1 .. n : p[i] = x
  <2>1. PICK i \in 1 .. n : q[i] = x
    BY <1>1 DEF Lists
  <2>2. (n - i) + 1 \in 1 .. n /\ (n - ((n - i) + 1)) + 1 = i
    BY <1>2
  <2> QED BY <2>1, <2>2, <1>4
<1> QED
  BY <1>5, <1>7, <1>8, <1>9 DEF Lists

(* The first k of a list, as a decode batch takes them.                    *)
LEMMA ListsPrefix ==
  ASSUME NEW q, NEW S, Lists(q, S), NEW k \in 1 .. Len(q)
  PROVE  /\ Once(SubSeq(q, 1, k)) /\ SubSeq(q, 1, k) # <<>>
         /\ SubSeq(q, 1, k) \in Seq(S) /\ ToSet(SubSeq(q, 1, k)) \subseteq S
<1>1. PICK p : p = SubSeq(q, 1, k)
  OBVIOUS
<1>2. q \in Seq(S) /\ Len(q) \in Nat
  BY DEF Lists
<1>3. p \in Seq(S) /\ Len(p) = k /\ \A i \in 1 .. k : p[i] = q[i]
  BY <1>1, <1>2
<1>4. Once(p)
  <2>1. 1 .. k \subseteq 1 .. Len(q)
    BY <1>2
  <2> QED BY <2>1, <1>3 DEF Once, Lists
<1>5. p # <<>> /\ ToSet(p) \subseteq S
  <2>1. DOMAIN p = 1 .. Len(p) /\ \A i \in 1 .. Len(p) : p[i] \in S
    BY <1>3
  <2> QED BY <2>1, <1>3 DEF ToSet
<1> QED
  BY <1>1, <1>3, <1>4, <1>5

(* list.remove takes its element off the list.                             *)
LEMMA ListsRemove ==
  ASSUME NEW q, NEW S, Lists(q, S), NEW r
  PROVE  Lists(RemoveFirst(q, r), S \ {r})
<1>1. q \in Seq(S) /\ Len(q) \in Nat /\ \A i \in 1 .. Len(q) : q[i] \in S
  BY DEF Lists
<1>2. CASE \E i \in 1 .. Len(q) : q[i] = r
  <2> DEFINE I == {i \in 1 .. Len(q) : q[i] = r}
  <2>1. PICK k : k = SelectInSeq(q, LAMBDA v : v = r)
    OBVIOUS
  <2>2. RemoveFirst(q, r) = SubSeq(q, 1, k - 1) \o SubSeq(q, k + 1, Len(q))
    BY <1>2, <2>1 DEF RemoveFirst, RemoveAt
  <2>3. k = Min(I) /\ I # {}
    BY <1>2, <2>1 DEF SelectInSeq
  <2>4. I \subseteq Nat
    OBVIOUS
  <2>5. k \in I
    <3> HIDE DEF I
    <3>1. \E x \in I : \A y \in I : x <= y
      BY <2>3, <2>4, Sums!LeastNumber
    <3> QED BY <2>3, <3>1 DEF Min
  <2>6. k \in 1 .. Len(q) /\ q[k] = r
    BY <2>5
  <2>7. PICK n : n = Len(q)
    OBVIOUS
  <2>8. PICK a, b, F, G : /\ a = SubSeq(q, 1, k - 1) /\ b = SubSeq(q, k + 1, n)
                          /\ F = ToSet(a) /\ G = ToSet(b)
    OBVIOUS
  <2>9. /\ a \in Seq(S) /\ Len(a) = k - 1 /\ \A i \in 1 .. k - 1 : a[i] = q[i]
        /\ b \in Seq(S) /\ Len(b) = n - k /\ \A i \in 1 .. n - k : b[i] = q[k + i]
    BY <2>6, <2>7, <2>8, <1>1
  <2>10. Once(a) /\ Once(b)
    <3>1. \A i, j \in 1 .. n : q[i] = q[j] => i = j
      BY <2>7 DEF Lists, Once
    <3>2. k \in Nat /\ n \in Nat /\ k <= n /\ k >= 1
      BY <2>6, <2>7, <1>1
    <3>3. \A i \in 1 .. k - 1 : i \in 1 .. n
      BY <3>2
    <3>4. \A i \in 1 .. n - k : k + i \in 1 .. n
      BY <3>2
    <3>5. Once(a)
      BY <3>1, <3>3, <2>9 DEF Once
    <3>6. ASSUME NEW i \in 1 .. n - k, NEW j \in 1 .. n - k, b[i] = b[j] PROVE i = j
      <4>1. k + i = k + j
        BY <3>1, <3>4, <3>6, <2>9
      <4> QED BY <4>1, <3>2
    <3> QED BY <3>5, <3>6, <2>9 DEF Once
  <2>11. Lists(a, F) /\ Lists(b, G)
    BY <2>8, <2>9, <2>10, ListsOf
  <2>12. F = {q[i] : i \in 1 .. k - 1} /\ G = {q[i] : i \in k + 1 .. n}
    <3>1. DOMAIN a = 1 .. k - 1 /\ DOMAIN b = 1 .. n - k
      BY <2>9
    <3>2. k \in Nat /\ n \in Nat
      BY <2>6, <2>7, <1>1
    <3>3. F = {q[i] : i \in 1 .. k - 1}
      BY <3>1, <2>8, <2>9 DEF ToSet
    <3>4. G = {q[k + i] : i \in 1 .. n - k}
      BY <3>1, <2>8, <2>9 DEF ToSet
    <3>5. {q[k + i] : i \in 1 .. n - k} = {q[i] : i \in k + 1 .. n}
      <4>1. \A i \in 1 .. n - k : k + i \in k + 1 .. n
        BY <3>2
      <4>2. \A i \in k + 1 .. n : i - k \in 1 .. n - k /\ k + (i - k) = i
        BY <3>2
      <4> QED BY <4>1, <4>2
    <3> QED BY <3>3, <3>4, <3>5
  <2>13. F \cap G = {} /\ F \cup G = S \ {r}
    <3>1. \A i, j \in 1 .. n : q[i] = q[j] => i = j
      BY <2>7 DEF Lists, Once
    <3>2. \A x \in S : \E i \in 1 .. n : q[i] = x
      BY <2>7 DEF Lists
    <3>3. k \in Nat /\ n \in Nat /\ k <= n /\ k >= 1 /\ q[k] = r /\ k \in 1 .. n
      BY <2>6, <2>7, <1>1
    <3>4. /\ \A i \in 1 .. k - 1 : i \in 1 .. n /\ i < k
          /\ \A i \in k + 1 .. n : i \in 1 .. n /\ i > k
          /\ \A i \in 1 .. n : i \in 1 .. k - 1 \/ i = k \/ i \in k + 1 .. n
      BY <3>3
    <3>5. \A i \in 1 .. n : q[i] \in S
      BY <2>7, <1>1
    <3>6. F \cap G = {}
      <4>1. ASSUME NEW x \in F, x \in G PROVE FALSE
        <5>1. PICK i \in 1 .. k - 1 : x = q[i]
          BY <2>12
        <5>2. PICK j \in k + 1 .. n : x = q[j]
          BY <4>1, <2>12
        <5>3. i = j /\ i < k /\ j > k
          BY <5>1, <5>2, <3>1, <3>4
        <5> QED BY <5>3, <3>3
      <4> QED BY <4>1
    <3>7. F \cup G \subseteq S \ {r}
      <4>1. ASSUME NEW i \in 1 .. n, i # k PROVE q[i] \in S \ {r}
        BY <4>1, <3>1, <3>3, <3>5
      <4>2. ASSUME NEW i \in 1 .. k - 1 PROVE q[i] \in S \ {r}
        <5>1. i \in 1 .. n /\ i # k
          BY <3>3
        <5> QED BY <5>1, <4>1
      <4>3. ASSUME NEW i \in k + 1 .. n PROVE q[i] \in S \ {r}
        <5>1. i \in 1 .. n /\ i # k
          BY <3>3
        <5> QED BY <5>1, <4>1
      <4> QED BY <4>2, <4>3, <2>12
    <3>8. S \ {r} \subseteq F \cup G
      <4>1. ASSUME NEW x \in S, x # r PROVE x \in F \cup G
        <5>1. PICK i \in 1 .. n : q[i] = x
          BY <3>2
        <5>2. i # k
          BY <5>1, <4>1, <3>3
        <5> QED BY <5>1, <5>2, <3>4, <2>12
      <4> QED BY <4>1
    <3> QED BY <3>6, <3>7, <3>8
  <2>14. Lists(a \o b, F \cup G)
    BY <2>11, <2>13, ListsConcat
  <2> QED BY <2>2, <2>7, <2>8, <2>13, <2>14
<1>3. CASE ~(\E i \in 1 .. Len(q) : q[i] = r)
  <2>1. r \notin S
    BY <1>3 DEF Lists
  <2>2. S \ {r} = S
    BY <2>1
  <2> QED BY <1>3, <2>2 DEF RemoveFirst
<1> QED BY <1>2, <1>3

(* A loop of removals takes exactly those elements off.                    *)
LEMMA ListsRemoveAll ==
  ASSUME NEW q, NEW S, Lists(q, S), NEW R, NEW reqs \in Seq(R)
  PROVE  Lists(FoldLeft(RemoveFirst, q, reqs), S \ ToSet(reqs))
<1>1. PICK c, n : c = [set |-> S, len |-> Len(q)] /\ n = Len(reqs)
  OBVIOUS
<1>2. FoldLeft(RemoveFirst, q, reqs) = Removals!Folded(c, q, reqs)
  BY DEF Removals!Folded, FoldLeft, MapThenFoldSet, Removals!MapThenFoldSet,
         Max, Removals!Greatest, RemoveOp
<1>3. n \in Nat /\ DOMAIN reqs = 1 .. n
  BY <1>1
<1>4. PICK at : Removals!Steps(c, q, reqs, n, at) /\ Removals!Folded(c, q, reqs) = at[n]
  BY <1>3, Removals!FoldSteps
<1>5. at[0] = q /\ \A i \in 1 .. n : at[i] = RemoveFirst(at[i - 1], reqs[i])
  BY <1>4 DEF Removals!Steps, RemoveOp
<1> DEFINE Gone(i) == {reqs[j] : j \in 1 .. i}
           K == {i \in Nat : Lists(at[i], S \ Gone(i))}
<1>6. 0 \in K
  <2>1. 1 .. 0 = {} /\ Gone(0) = {}
    OBVIOUS
  <2>2. S \ Gone(0) = S
    BY <2>1
  <2> HIDE DEF Gone
  <2> QED BY <2>2, <1>5
<1>7. ASSUME NEW i \in 1 .. n, i - 1 \in K PROVE i \in K
  <2>1. Gone(i) = Gone(i - 1) \cup {reqs[i]}
    <3>1. 1 .. i = (1 .. i - 1) \cup {i}
      BY <1>3
    <3> QED BY <3>1
  <2>2. (S \ Gone(i - 1)) \ {reqs[i]} = S \ Gone(i)
    BY <2>1
  <2> HIDE DEF Gone
  <2>3. Lists(at[i - 1], S \ Gone(i - 1)) /\ i \in Nat
    BY <1>7, <1>3
  <2>4. Lists(RemoveFirst(at[i - 1], reqs[i]), (S \ Gone(i - 1)) \ {reqs[i]})
    BY <2>3, ListsRemove
  <2> QED BY <2>2, <2>3, <2>4, <1>5
<1>8. n \in K
  <2> HIDE DEF K
  <2> QED BY <1>3, <1>6, <1>7, Upwards
<1>9. Gone(n) = ToSet(reqs)
  BY <1>3 DEF ToSet
<1> QED
  BY <1>2, <1>4, <1>8, <1>9

-----------------------------------------------------------------------------
(* Blocks.                                                                 *)

(* The blocks that n generated tokens begin.                               *)
Rounded(n) == (n + KvBlockTokens - 1) \div KvBlockTokens

(* b blocks hold any request to its end, and every chip has b blocks for   *)
(* each of the requests of a run.                                          *)
Room(b) ==
  /\ b \in Nat
  /\ \A len \in PromptLens \cup {DeltaPrompt} : BlocksPerChip(len) + Rounded(OutputLen) <= b
  /\ MaxRequests * b <= Capacity

EnoughKV == \E b \in Nat : Room(b)

(* Rounding up grows by one where the remainder was 0.                     *)
LEMMA RoundedOf ==
  ASSUME NEW k \in Nat \ {0}, NEW n \in Nat
  PROVE  /\ (n + k - 1) \div k \in Nat
         /\ (n + 1 + k - 1) \div k = (n + k - 1) \div k + (IF n % k = 0 THEN 1 ELSE 0)
<1>1. PICK d, m : d = n \div k /\ m = n % k
  OBVIOUS
<1>2. d \in Nat /\ m \in 0 .. k - 1 /\ n = k * d + m
  BY <1>1
<1>3. (n + 1 + k - 1) \div k = d + 1
  <2>1. n + 1 + k - 1 = k * (d + 1) + m
    BY <1>2
  <2>2. (k * (d + 1) + m) \div k = d + 1
    BY <1>2
  <2> QED BY <2>1, <2>2
<1>4. CASE m = 0
  <2>1. n + k - 1 = k * d + (k - 1) /\ k - 1 \in 0 .. k - 1
    BY <1>2, <1>4
  <2>2. (k * d + (k - 1)) \div k = d
    BY <2>1, <1>2
  <2> QED BY <2>1, <2>2, <1>1, <1>2, <1>3, <1>4
<1>5. CASE m # 0
  <2>1. n + k - 1 = k * (d + 1) + (m - 1) /\ m - 1 \in 0 .. k - 1
    BY <1>2, <1>5
  <2>2. (k * (d + 1) + (m - 1)) \div k = d + 1
    BY <2>1, <1>2
  <2> QED BY <2>1, <2>2, <1>1, <1>2, <1>3, <1>5
<1> QED
  BY <1>4, <1>5

(* One more token begins a block exactly when the code allocates one.      *)
LEMMA RoundedStep ==
  ASSUME NEW n \in Nat
  PROVE  /\ Rounded(n) \in Nat
         /\ Rounded(n + 1) = Rounded(n) + (IF StartsBlock(n) THEN 1 ELSE 0)
BY RoundedOf, SizesAssumption DEF Rounded, StartsBlock

(* No token, no block.                                                     *)
LEMMA RoundedNone == Rounded(0) = 0
BY SizesAssumption DEF Rounded

(* More tokens never begin fewer blocks.                                   *)
LEMMA RoundedGrows ==
  ASSUME NEW m \in Nat, NEW n \in Nat, m <= n
  PROVE  Rounded(m) <= Rounded(n)
<1>1. PICK k : k = KvBlockTokens
  OBVIOUS
<1>2. k \in Nat \ {0}
  BY <1>1, SizesAssumption
<1>3. PICK d, e : d = (m + k - 1) \div k /\ e = (n + k - 1) \div k
  OBVIOUS
<1>4. m + k - 1 \in Nat /\ n + k - 1 \in Nat
  BY <1>2
<1>5. /\ d \in Nat /\ k * d <= m + k - 1 /\ m + k - 1 < k * (d + 1)
      /\ e \in Nat /\ k * e <= n + k - 1 /\ n + k - 1 < k * (e + 1)
  BY <1>2, <1>3, <1>4
<1>6. ~(e < d)
  <2> SUFFICES ASSUME e + 1 <= d PROVE FALSE
    BY <1>5
  <2>1. k * (e + 1) <= k * d
    BY <1>2, <1>5
  <2> QED BY <2>1, <1>2, <1>5
<1> QED
  BY <1>1, <1>3, <1>5, <1>6 DEF Rounded

(* A prompt is given at least one block on each chip.                      *)
LEMMA BlocksSome ==
  ASSUME NEW len \in Nat
  PROVE  BlocksPerChip(len) \in Nat /\ BlocksPerChip(len) > 0
BY SizesAssumption DEF BlocksPerChip, BlocksNeeded, AtLeastOne

-----------------------------------------------------------------------------
(* Sums, and what they leave free.                                         *)

(* A sum over all requests is bounded term by term.                        *)
LEMMA SumBound ==
  ASSUME NEW f \in [Requests -> Nat], NEW b \in Nat, \A r \in Requests : f[r] <= b
  PROVE  SumOf(f, Ids) \in Nat /\ SumOf(f, Ids) <= MaxRequests * b
<1>1. PICK n : n = MaxRequests
  OBVIOUS
<1>2. /\ n \in Nat /\ DOMAIN Ids = 1 .. n /\ \A i \in 1 .. n : Ids[i] = i
      /\ Requests = 1 .. n
  BY <1>1, ServingAssumption DEF Ids, Requests
<1>3. PICK at : Partial(f, Ids, n, at) /\ SumOf(f, Ids) = at[n]
  BY <1>2, SumSteps
<1> DEFINE K == {i \in Nat : at[i] \in Nat /\ at[i] <= i * b}
<1>4. 0 \in K
  BY <1>3 DEF Partial
<1>5. ASSUME NEW i \in 1 .. n, i - 1 \in K PROVE i \in K
  <2>1. at[i] = at[i - 1] + f[i] /\ f[i] \in Nat /\ f[i] <= b
    BY <1>2, <1>3 DEF Partial
  <2>2. at[i - 1] \in Nat /\ at[i - 1] <= (i - 1) * b /\ i \in Nat
    BY <1>2, <1>5
  <2>3. (i - 1) * b + b = i * b
    BY <2>2
  <2>4. (i - 1) * b \in Int /\ i * b \in Int
    BY <2>2
  <2> QED BY <2>1, <2>2, <2>3, <2>4
<1>6. n \in K
  <2> HIDE DEF K
  <2> QED BY <1>2, <1>4, <1>5, Upwards
<1> QED
  BY <1>1, <1>3, <1>6

(* No term exceeds the sum.                                                *)
LEMMA TermBelow ==
  ASSUME NEW f \in [Requests -> Nat], NEW r \in Requests
  PROVE  SumOf(f, Ids) \in Nat /\ f[r] <= SumOf(f, Ids)
<1>1. /\ SumOf(f, Ids) \in Nat /\ SumOf([f EXCEPT ![r] = 0], Ids) \in Nat
      /\ SumOf([f EXCEPT ![r] = 0], Ids) + f[r] = SumOf(f, Ids) + 0
  BY SumChange
<1> QED
  BY <1>1

(* Every block is free or held.                                            *)
PoolFull(p) ==
  /\ p \in [free : Nat, held : [Requests -> Nat]]
  /\ p.free + SumOf(p.held, Ids) = Capacity

(* With room for all, what a request still may need is free.               *)
LEMMA RoomFor ==
  ASSUME NEW b, Room(b), NEW p, PoolFull(p), \A q \in Requests : p.held[q] <= b,
         NEW r \in Requests, NEW n \in Nat, p.held[r] + n <= b
  PROVE  n <= p.free
<1>1. p.held \in [Requests -> Nat] /\ p.held[r] \in Nat /\ p.free \in Nat /\ b \in Nat
  BY DEF PoolFull, Room
<1>2. PICK h : h = [p.held EXCEPT ![r] = p.held[r] + n]
  OBVIOUS
<1>3. /\ SumOf(p.held, Ids) \in Nat /\ SumOf(h, Ids) \in Nat
      /\ SumOf(h, Ids) + p.held[r] = SumOf(p.held, Ids) + (p.held[r] + n)
  BY <1>1, <1>2, SumChange
<1>4. h \in [Requests -> Nat] /\ \A q \in Requests : h[q] <= b
  BY <1>1, <1>2
<1>5. SumOf(h, Ids) <= MaxRequests * b
  BY <1>1, <1>4, SumBound
<1>6. MaxRequests * b <= Capacity /\ MaxRequests * b \in Nat /\ Capacity \in Nat
  BY <1>1, ServingAssumption DEF Room
<1>7. p.free + SumOf(p.held, Ids) = Capacity
  BY DEF PoolFull
<1> QED
  BY <1>1, <1>3, <1>5, <1>6, <1>7

(* n blocks leave the free ones for request r; m are given back.           *)
LEMMA PoolMoves ==
  ASSUME NEW p, PoolFull(p), NEW r \in Requests, NEW v \in Nat, NEW f \in Nat,
         f + v = p.free + p.held[r]
  PROVE  PoolFull([free |-> f, held |-> [p.held EXCEPT ![r] = v]])
<1>1. p.held \in [Requests -> Nat] /\ p.held[r] \in Nat /\ p.free \in Nat
  BY DEF PoolFull
<1>2. PICK h : h = [p.held EXCEPT ![r] = v]
  OBVIOUS
<1>3. /\ SumOf(p.held, Ids) \in Nat /\ SumOf(h, Ids) \in Nat
      /\ SumOf(h, Ids) + p.held[r] = SumOf(p.held, Ids) + v
  BY <1>1, <1>2, SumChange
<1>4. h \in [Requests -> Nat]
  BY <1>1, <1>2
<1>5. f + SumOf(h, Ids) = Capacity
  BY <1>1, <1>3 DEF PoolFull
<1> QED
  BY <1>2, <1>4, <1>5 DEF PoolFull

(* Freeing gives all the request held back to the pool.                    *)
LEMMA ReleaseFull ==
  ASSUME NEW p, PoolFull(p), NEW r \in Requests
  PROVE  PoolFull(Pool!Release(p, r)) /\ Pool!Release(p, r).held = [p.held EXCEPT ![r] = 0]
<1>1. p.free \in Nat /\ p.held[r] \in Nat /\ p.free + p.held[r] \in Nat
  BY DEF PoolFull
<1>2. PoolFull([free |-> p.free + p.held[r], held |-> [p.held EXCEPT ![r] = 0]])
  BY <1>1, PoolMoves
<1> QED
  BY <1>2 DEF Pool!Release

-----------------------------------------------------------------------------
(* The blocks of a batch, when there is room for all of them.              *)

Want(s, kind, r) ==
  IF kind = "PREFILL" THEN BlocksPerChip(s.prompt[r])
  ELSE IF StartsBlock(s.tokens[r]) THEN 1 ELSE 0

(* The requests of R have got what they want, and nobody else anything.    *)
Taken(s, kind, R, x) ==
  /\ x = [pool |-> x.pool, ok |-> TRUE]
  /\ PoolFull(x.pool)
  /\ \A q \in Requests :
       x.pool.held[q] = s.pool.held[q] + (IF q \in R THEN Want(s, kind, q) ELSE 0)

Fitting(b, s, kind, R) ==
  /\ PoolFull(s.pool)
  /\ \A q \in Requests : s.pool.held[q] <= b
  /\ \A q \in R : /\ q \in Requests /\ Want(s, kind, q) \in Nat
                  /\ s.pool.held[q] + Want(s, kind, q) <= b
                  /\ kind = "PREFILL" => s.pool.held[q] = 0

(* One more request of a batch is given its blocks.                        *)
LEMMA AllocOne ==
  ASSUME NEW b, Room(b), NEW s, NEW kind, NEW R, NEW D, Fitting(b, s, kind, R),
         D \subseteq R, NEW x, Taken(s, kind, D, x), NEW r \in R, r \notin D,
         NEW c, c = [s |-> s, kind |-> kind]
  PROVE  Taken(s, kind, D \cup {r}, AllocOp(c, x, r))
<1>1. PICK y, p, w : y = AllocOp(c, x, r) /\ p = x.pool /\ w = Want(s, kind, r)
  OBVIOUS
<1>2. /\ r \in Requests /\ w \in Nat /\ b \in Nat
      /\ p \in [free : Nat, held : [Requests -> Nat]] /\ PoolFull(p)
      /\ x = [pool |-> p, ok |-> TRUE]
      /\ s.pool.held[r] \in Nat
  BY <1>1 DEF Fitting, Taken, PoolFull, Room
<1>3. \A q \in Requests : p.held[q] <= b
  <2> SUFFICES ASSUME NEW q \in Requests PROVE p.held[q] <= b
    OBVIOUS
  <2>1. s.pool.held[q] \in Nat /\ s.pool.held[q] <= b
    BY DEF Fitting, PoolFull
  <2>2. CASE q \in D
    <3>1. s.pool.held[q] + Want(s, kind, q) <= b
      BY <2>2 DEF Fitting
    <3> QED BY <3>1, <2>2, <1>1 DEF Taken
  <2>3. CASE q \notin D
    BY <2>1, <2>3, <1>1 DEF Taken
  <2> QED BY <2>2, <2>3
<1>4. p.held[r] = s.pool.held[r] /\ p.held[r] \in Nat /\ p.held[r] + w <= b
  BY <1>1, <1>2 DEF Taken, Fitting
<1>5. w <= p.free /\ p.free - w \in Nat /\ p.held[r] + w \in Nat
  BY <1>2, <1>3, <1>4, RoomFor
<1>6. PICK z : z = [free |-> p.free - w, held |-> [p.held EXCEPT ![r] = p.held[r] + w]]
  OBVIOUS
<1>7. PoolFull(z)
  <2>1. (p.free - w) + (p.held[r] + w) = p.free + p.held[r]
    BY <1>2, <1>4
  <2> QED BY <2>1, <1>2, <1>5, <1>6, PoolMoves
<1>8. y = [pool |-> z, ok |-> TRUE]
  <2>1. c.s = s /\ c.kind = kind /\ x.pool = p /\ x.ok = TRUE
    BY <1>2
  <2>2. CASE kind = "PREFILL"
    <3>1. w = BlocksPerChip(s.prompt[r]) /\ p.held[r] = 0
      BY <2>2, <1>1, <1>4 DEF Want, Fitting
    <3>2. y = AllocPrefill(s, x, r)
      BY <2>1, <2>2, <1>1 DEF AllocOp
    <3>3. y = [x EXCEPT !.pool = Pool!TakePrefill(p, r, w)]
      BY <3>1, <3>2, <2>1, <1>5 DEF AllocPrefill, Pool!PrefillFits
    <3>4. Pool!TakePrefill(p, r, w) = z
      BY <3>1, <1>2, <1>6 DEF Pool!TakePrefill
    <3> QED BY <3>3, <3>4, <1>2
  <2>3. CASE kind # "PREFILL" /\ StartsBlock(s.tokens[r])
    <3>1. w = 1 /\ Pool!DecodeFits(p)
      BY <2>3, <1>1, <1>2, <1>5 DEF Want, Pool!DecodeFits
    <3>2. y = AllocDecode(s, x, r)
      BY <2>1, <2>3, <1>1 DEF AllocOp
    <3>3. y = [x EXCEPT !.pool = Pool!TakeDecode(p, r)]
      BY <3>1, <3>2, <2>1, <2>3 DEF AllocDecode
    <3>4. Pool!TakeDecode(p, r) = z
      BY <3>1, <1>6 DEF Pool!TakeDecode
    <3> QED BY <3>3, <3>4, <1>2
  <2>4. CASE kind # "PREFILL" /\ ~StartsBlock(s.tokens[r])
    <3>1. w = 0
      BY <2>4, <1>1 DEF Want
    <3>2. y = AllocDecode(s, x, r)
      BY <2>1, <2>4, <1>1 DEF AllocOp
    <3>3. y = x
      BY <3>2, <2>1, <2>4 DEF AllocDecode
    <3>4. z = p
      BY <3>1, <1>2, <1>4, <1>6
    <3> QED BY <3>3, <3>4, <1>2
  <2> QED BY <2>2, <2>3, <2>4
<1>9. ASSUME NEW q \in Requests
      PROVE  z.held[q] = s.pool.held[q] + (IF q \in D \cup {r} THEN Want(s, kind, q) ELSE 0)
  <2>1. CASE q = r
    BY <2>1, <1>1, <1>2, <1>4, <1>6
  <2>2. CASE q # r
    <3>1. z.held[q] = p.held[q]
      BY <2>2, <1>2, <1>6
    <3>2. p.held[q] = s.pool.held[q] + (IF q \in D THEN Want(s, kind, q) ELSE 0)
      BY <1>1 DEF Taken
    <3> QED BY <3>1, <3>2, <2>2
  <2> QED BY <2>1, <2>2
<1>10. y.pool = z /\ y = [pool |-> y.pool, ok |-> TRUE]
  BY <1>8
<1>11. Taken(s, kind, D \cup {r}, y)
  BY <1>7, <1>9, <1>10 DEF Taken
<1> QED
  BY <1>1, <1>11

(* A batch whose requests fit is given its blocks: it does not fail.       *)
LEMMA AllocFits ==
  ASSUME NEW b, Room(b), NEW s, NEW kind, NEW reqs \in Seq(Requests), Once(reqs),
         Fitting(b, s, kind, ToSet(reqs))
  PROVE  Taken(s, kind, ToSet(reqs), Alloc(s, kind, reqs))
<1>1. PICK c, base, n, R : /\ c = [s |-> s, kind |-> kind] /\ n = Len(reqs)
                           /\ base = [pool |-> s.pool, ok |-> TRUE] /\ R = ToSet(reqs)
  OBVIOUS
<1>2. Alloc(s, kind, reqs) = Allocs!Folded(c, base, reqs)
  <2>1. c.s = s /\ c.kind = kind
    BY <1>1
  <2> QED BY <2>1, <1>1 DEF Alloc, Allocs!Folded, FoldLeft, MapThenFoldSet,
       Allocs!MapThenFoldSet, Max, Allocs!Greatest, AllocOp
<1>3. n \in Nat /\ DOMAIN reqs = 1 .. n
  BY <1>1
<1>4. PICK at : Allocs!Steps(c, base, reqs, n, at) /\ Allocs!Folded(c, base, reqs) = at[n]
  BY <1>3, Allocs!FoldSteps
<1>5. at[0] = base /\ \A i \in 1 .. n : at[i] = AllocOp(c, at[i - 1], reqs[i])
  BY <1>4 DEF Allocs!Steps
<1> DEFINE Before(i) == {reqs[j] : j \in 1 .. i}
           K == {i \in Nat : Taken(s, kind, Before(i), at[i])}
<1>6. 0 \in K
  <2>1. Before(0) = {}
    OBVIOUS
  <2>2. PoolFull(s.pool) /\ \A q \in Requests : s.pool.held[q] + 0 = s.pool.held[q]
    BY DEF Fitting, PoolFull
  <2>3. Taken(s, kind, {}, base)
    BY <2>2, <1>1 DEF Taken
  <2> HIDE DEF Before
  <2> QED BY <2>1, <2>3, <1>5
<1>7. ASSUME NEW i \in 1 .. n, i - 1 \in K PROVE i \in K
  <2>1. Before(i) = Before(i - 1) \cup {reqs[i]}
    <3>1. 1 .. i = (1 .. i - 1) \cup {i}
      BY <1>3
    <3> QED BY <3>1
  <2>2. Before(i - 1) \subseteq R /\ reqs[i] \in R
    <3>1. 1 .. i - 1 \subseteq 1 .. n
      BY <1>3
    <3> QED BY <3>1, <1>1, <1>3 DEF ToSet
  <2>3. reqs[i] \notin Before(i - 1)
    <3>1. \A j \in 1 .. i - 1 : j \in 1 .. n /\ j # i
      BY <1>3
    <3> QED BY <3>1, <1>1 DEF Once
  <2> HIDE DEF Before
  <2>4. Taken(s, kind, Before(i - 1), at[i - 1]) /\ i \in Nat
    BY <1>7, <1>3
  <2>5. Taken(s, kind, Before(i - 1) \cup {reqs[i]}, AllocOp(c, at[i - 1], reqs[i]))
    BY <2>2, <2>3, <2>4, <1>1, AllocOne
  <2> QED BY <2>1, <2>4, <2>5, <1>5
<1>8. n \in K
  <2> HIDE DEF K
  <2> QED BY <1>3, <1>6, <1>7, Upwards
<1>9. Before(n) = R
  BY <1>1, <1>3 DEF ToSet
<1> QED
  BY <1>1, <1>2, <1>4, <1>8, <1>9

-----------------------------------------------------------------------------
(* The requests in a state, and those in queues as their state says.       *)
In(s, status) == {r \in Requests : s.state[r] = status}

QueuesListed(s) ==
  /\ Lists(s.waiting, In(s, "WAITING"))
  /\ Lists(s.prefilling, In(s, "PREFILL"))
  /\ Lists(s.active, In(s, "DECODE"))

(* What a request was submitted with, and what it has generated.           *)
RequestsTold(s) ==
  /\ s.tokens \in [Requests -> 0 .. OutputLen]
  /\ s.session \in [Requests -> Sessions \cup {NoSession}]
  /\ \A r \in Requests :
       /\ s.prompt[r] \in IF s.state[r] = "NEW" THEN {0} ELSE PromptLens \cup {DeltaPrompt}
       /\ s.state[r] = "NEW" => s.session[r] = NoSession
       /\ s.state[r] \notin {"DECODE", "FINISHED"} => s.tokens[r] = 0
       /\ s.state[r] = "DECODE" => s.tokens[r] < OutputLen
       /\ s.state[r] = "FINISHED" => s.tokens[r] = OutputLen

(* The two events of a prefill belong to the same batch; no others share a *)
(* request.                                                                *)
SameBatch(e, f) == e.id = f.id /\ e.kind = f.kind /\ e.reqs = f.reqs

Shares(e, f) == ToSet(e.reqs) \cap ToSet(f.reqs) # {}

EventSound(s, e) ==
  /\ e = Event(e.on, e.id, e.kind, e.reqs)
  /\ e.on = "COMPLETE" \/ (e.on = "READY" /\ e.kind = "PREFILL")
  /\ e.reqs \in Seq(Requests) /\ Once(e.reqs) /\ e.reqs # <<>>
  /\ \/ e.kind = "PREFILL" /\ ToSet(e.reqs) \subseteq In(s, "PREFILL")
     \/ e.kind = "DECODE" /\ ToSet(e.reqs) \subseteq In(s, "DECODE")
  /\ e.on = "COMPLETE" => ToSet(e.reqs) \subseteq s.busy

BatchesApart(s) ==
  /\ IsFiniteSet(s.events)
  /\ s.busy \subseteq In(s, "PREFILL") \cup In(s, "DECODE")
  /\ \A e \in s.events : EventSound(s, e)
  /\ \A e, f \in s.events : Shares(e, f) => SameBatch(e, f)

(* What a request that decodes holds, and what it holds at its end.        *)
Owed(s, r) ==
  BlocksPerChip(s.prompt[r]) + Rounded(IF r \in s.busy THEN s.tokens[r] + 1 ELSE s.tokens[r])

Full(s, r) == BlocksPerChip(s.prompt[r]) + Rounded(OutputLen)

(* Every block is free or held, and everyone holds what is due.  P are the *)
(* requests that have finished and are not yet dealt with.                 *)
BlocksDue(c, s, P) ==
  /\ PoolFull(s.pool)
  /\ \A r \in Requests :
       LET held == s.pool.held[r]
           x    == s.session[r]
       IN  /\ s.state[r] \in {"NEW", "WAITING", "REJECTED"} => held = 0
           /\ s.state[r] = "PREFILL" => held = BlocksPerChip(s.prompt[r])
           /\ s.state[r] = "DECODE" => held = Owed(s, r)
           /\ s.state[r] = "FINISHED" => held \in {0, Full(s, r)}
           /\ s.state[r] = "FINISHED" /\ r \in P => held = Full(s, r)
           /\ s.state[r] = "FINISHED" /\ r \notin P =>
                IF x = NoSession \/ ~s.sess[x].here THEN held = 0
                ELSE c.phase = "run" => held = Full(s, r)

(* A session has one turn at a time.                                       *)
Open(s, x, P) == {r \in TurnsOf(s, x) : s.state[r] # "FINISHED" \/ r \in P}

(* T are the turns of a session, O the open ones.                          *)
OneTurn(c, here, done, next, T, O) ==
  /\ done = Cardinality(T \ O)
  /\ here => /\ T # {} /\ \A q, r \in O : q = r
             /\ next = 1 => O = {}
             /\ c.phase = "run" /\ O = {} => next = 1
  /\ ~here => O = {} /\ next = 0
  /\ O # {} \/ next = 1 => done < Turns

TurnsHeld(c, s, P) ==
  /\ P \subseteq In(s, "FINISHED")
  /\ s.sess \in [Sessions -> [here : BOOLEAN, done : 0 .. Turns]]
  /\ s.nextTurns \in [Sessions -> {0, 1}]
  /\ \E k \in 0 .. MaxSessions : \A x \in Sessions : TurnsOf(s, x) # {} <=> x <= k
  /\ \A x \in Sessions :
       OneTurn(c, s.sess[x].here, s.sess[x].done, s.nextTurns[x],
               TurnsOf(s, x), Open(s, x, P))

(* The counters.  A prefill whose completion was lost stays counted, and   *)
(* its requests are in no other.                                           *)
Prefills(s) == {e \in s.events : e.on = "COMPLETE" /\ e.kind = "PREFILL"}

Lost(s, r) ==
  /\ s.state[r] \in {"PREFILL", "DECODE", "FINISHED"}
  /\ \A e \in Prefills(s) : r \notin ToSet(e.reqs)

TalliesRight(c, s) ==
  /\ s.admitOpen \in BOOLEAN
  /\ s.finishedCnt = Cardinality(In(s, "FINISHED"))
  /\ \/ s.inFlight = Cardinality(Prefills(s))
     \/ /\ c.phase # "run" /\ s.inFlight = Cardinality(Prefills(s)) + 1
        /\ \E r \in Requests : Lost(s, r)

Settled(c, s, P) ==
  /\ QueuesListed(s) /\ RequestsTold(s) /\ BatchesApart(s)
  /\ BlocksDue(c, s, P) /\ TurnsHeld(c, s, P) /\ TalliesRight(c, s)

-----------------------------------------------------------------------------
(* Admission.                                                              *)

(* t differs from s in the states and in two of the queues.                *)
Apart(s, t) ==
  /\ Shape(t) /\ t.prompt = s.prompt /\ t.session = s.session /\ t.tokens = s.tokens
  /\ t.active = s.active /\ t.finishedCnt = s.finishedCnt /\ t.pool = s.pool /\ t.busy = s.busy
  /\ t.events = s.events /\ t.nextTurns = s.nextTurns /\ t.inFlight = s.inFlight
  /\ t.admitOpen = s.admitOpen /\ t.sess = s.sess

Before(q, i) == {q[j] : j \in 1 .. i}

(* Before the first step nothing has been taken.                           *)
LEMMA BeforeNone == ASSUME NEW q PROVE Before(q, 0) = {}
BY DEF Before

(* A step takes the next element.                                          *)
LEMMA BeforeNext ==
  ASSUME NEW q, NEW n \in Nat, NEW i \in 1 .. n
  PROVE  Before(q, i) = Before(q, i - 1) \cup {q[i]}
<1>1. 1 .. i = (1 .. i - 1) \cup {i}
  OBVIOUS
<1> QED
  BY <1>1 DEF Before

(* After the last step all have been taken.                                *)
LEMMA BeforeAll ==
  ASSUME NEW q, NEW n, DOMAIN q = 1 .. n
  PROVE  Before(q, n) = ToSet(q)
BY DEF Before, ToSet

(* The next element of a list is a new one.                                *)
LEMMA BeforeOnce ==
  ASSUME NEW q, Once(q), NEW i \in 1 .. Len(q), Len(q) \in Nat
  PROVE  q[i] \notin Before(q, i - 1)
<1>1. \A j \in 1 .. i - 1 : j \in 1 .. Len(q) /\ j # i
  OBVIOUS
<1> QED
  BY <1>1 DEF Before, Once

(* What becomes of requests that wait.                                     *)
Moved(s, t) ==
  /\ t.state \in [Requests -> Statuses]
  /\ \A r \in Requests :
       \/ t.state[r] = s.state[r]
       \/ s.state[r] = "WAITING" /\ t.state[r] \in {"PREFILL", "REJECTED"}

AdmitAt(s, D, a) ==
  /\ a = [s |-> a.s, admitted |-> a.admitted]
  /\ Apart(s, a.s) /\ Moved(s, a.s)
  /\ \A r \in Requests \ D : a.s.state[r] = s.state[r]
  /\ Lists(a.s.waiting, {r \in D : a.s.state[r] = "WAITING"})
  /\ Lists(a.s.prefilling, In(a.s, "PREFILL"))
  /\ Lists(a.admitted, {r \in D : a.s.state[r] = "PREFILL"})

(* Admitting one more request.                                             *)
LEMMA AdmitNext ==
  ASSUME NEW s, NEW D, D \subseteq Requests, NEW a, AdmitAt(s, D, a),
         NEW r \in Requests, r \notin D, s.state[r] = "WAITING"
  PROVE  AdmitAt(s, D \cup {r}, AdmitOne(a, r))
<1>1. PICK u, b, E : u = a.s /\ b = AdmitOne(a, r) /\ E = D \cup {r}
  OBVIOUS
<1>2. Shape(a.s) /\ a = [s |-> a.s, admitted |-> a.admitted]
  BY DEF AdmitAt, Apart
<1>3. /\ Apart(s, u) /\ Moved(s, u) /\ u.state[r] = "WAITING"
      /\ u.state \in [Requests -> Statuses]
      /\ \A q \in Requests \ D : u.state[q] = s.state[q]
      /\ Lists(u.waiting, {q \in D : u.state[q] = "WAITING"})
      /\ Lists(u.prefilling, In(u, "PREFILL"))
      /\ Lists(a.admitted, {q \in D : u.state[q] = "PREFILL"})
      /\ a = [s |-> u, admitted |-> a.admitted]
  BY <1>1 DEF AdmitAt, Moved
<1>4. \/ b = [a EXCEPT !.s.waiting = Append(@, r)]
      \/ b = [a EXCEPT !.s.state[r] = "PREFILL",
                       !.s.prefilling = Append(@, r),
                       !.admitted = Append(@, r)]
      \/ b = [a EXCEPT !.s.state[r] = "REJECTED"]
  BY <1>1 DEF AdmitOne
<1>5. CASE b = [a EXCEPT !.s.waiting = Append(@, r)]
  <2>1. b = [s |-> [u EXCEPT !.waiting = Append(u.waiting, r)], admitted |-> a.admitted]
    BY <1>5, <1>1, <1>2, AdmitRecords
  <2>2. PICK t : t = b.s
    OBVIOUS
  <2>3. /\ b = [s |-> t, admitted |-> b.admitted] /\ b.admitted = a.admitted
        /\ Apart(s, t) /\ t.state = u.state /\ t.prefilling = u.prefilling
        /\ t.waiting = Append(u.waiting, r)
    BY <2>1, <2>2, <1>3 DEF Apart, Shape
  <2>4. Lists(t.waiting, {q \in D : u.state[q] = "WAITING"} \cup {r})
    BY <2>3, <1>3, ListsAppend
  <2>5. /\ {q \in D : u.state[q] = "WAITING"} \cup {r} = {q \in E : t.state[q] = "WAITING"}
        /\ {q \in D : u.state[q] = "PREFILL"} = {q \in E : t.state[q] = "PREFILL"}
        /\ In(t, "PREFILL") = In(u, "PREFILL")
    BY <2>3, <1>1, <1>3 DEF In
  <2>6. Lists(t.waiting, {q \in E : t.state[q] = "WAITING"})
        /\ Lists(t.prefilling, In(t, "PREFILL"))
        /\ Lists(b.admitted, {q \in E : t.state[q] = "PREFILL"})
    BY <2>3, <2>4, <2>5, <1>3
  <2>7. Moved(s, t) /\ \A q \in Requests \ E : t.state[q] = s.state[q]
    BY <2>3, <1>1, <1>3 DEF Moved
  <2> QED BY <2>2, <2>3, <2>6, <2>7, <1>1 DEF AdmitAt
<1>6. CASE b = [a EXCEPT !.s.state[r] = "PREFILL",
                         !.s.prefilling = Append(@, r),
                         !.admitted = Append(@, r)]
  <2>1. b = [s |-> [u EXCEPT !.state = [u.state EXCEPT ![r] = "PREFILL"],
                             !.prefilling = Append(u.prefilling, r)],
             admitted |-> Append(a.admitted, r)]
    BY <1>6, <1>1, <1>2, AdmitRecords
  <2>2. PICK t : t = b.s
    OBVIOUS
  <2>3. /\ b = [s |-> t, admitted |-> b.admitted] /\ b.admitted = Append(a.admitted, r)
        /\ Apart(s, t) /\ t.state = [u.state EXCEPT ![r] = "PREFILL"]
        /\ t.prefilling = Append(u.prefilling, r) /\ t.waiting = u.waiting
    BY <2>1, <2>2, <1>3 DEF Apart, Shape
  <2>4. /\ Lists(t.prefilling, In(u, "PREFILL") \cup {r})
        /\ Lists(b.admitted, {q \in D : u.state[q] = "PREFILL"} \cup {r})
    <3>1. r \notin In(u, "PREFILL") /\ r \notin {q \in D : u.state[q] = "PREFILL"}
      BY <1>3 DEF In
    <3> QED BY <3>1, <2>3, <1>3, ListsAppend
  <2>5. t.state[r] = "PREFILL" /\ \A q \in Requests : q # r => t.state[q] = u.state[q]
    BY <2>3, <1>3
  <2>6. /\ {q \in D : u.state[q] = "WAITING"} = {q \in E : t.state[q] = "WAITING"}
        /\ {q \in D : u.state[q] = "PREFILL"} \cup {r} = {q \in E : t.state[q] = "PREFILL"}
        /\ In(t, "PREFILL") = In(u, "PREFILL") \cup {r}
    BY <2>5, <1>1, <1>3 DEF In
  <2>7. Lists(t.waiting, {q \in E : t.state[q] = "WAITING"})
        /\ Lists(t.prefilling, In(t, "PREFILL"))
        /\ Lists(b.admitted, {q \in E : t.state[q] = "PREFILL"})
    BY <2>3, <2>4, <2>6, <1>3
  <2>8. Moved(s, t) /\ \A q \in Requests \ E : t.state[q] = s.state[q]
    <3>1. t.state \in [Requests -> Statuses]
      BY <2>3, <1>3 DEF Statuses
    <3> QED BY <3>1, <2>5, <1>1, <1>3 DEF Moved
  <2> QED BY <2>2, <2>3, <2>7, <2>8, <1>1 DEF AdmitAt
<1>7. CASE b = [a EXCEPT !.s.state[r] = "REJECTED"]
  <2>1. b = [s |-> [u EXCEPT !.state = [u.state EXCEPT ![r] = "REJECTED"]],
             admitted |-> a.admitted]
    BY <1>7, <1>1, <1>2, AdmitRecords
  <2>2. PICK t : t = b.s
    OBVIOUS
  <2>3. /\ b = [s |-> t, admitted |-> b.admitted] /\ b.admitted = a.admitted
        /\ Apart(s, t) /\ t.state = [u.state EXCEPT ![r] = "REJECTED"]
        /\ t.prefilling = u.prefilling /\ t.waiting = u.waiting
    BY <2>1, <2>2, <1>3 DEF Apart, Shape
  <2>4. t.state[r] = "REJECTED" /\ \A q \in Requests : q # r => t.state[q] = u.state[q]
    BY <2>3, <1>3
  <2>5. /\ {q \in D : u.state[q] = "WAITING"} = {q \in E : t.state[q] = "WAITING"}
        /\ {q \in D : u.state[q] = "PREFILL"} = {q \in E : t.state[q] = "PREFILL"}
        /\ In(t, "PREFILL") = In(u, "PREFILL")
    BY <2>4, <1>1, <1>3 DEF In
  <2>6. Lists(t.waiting, {q \in E : t.state[q] = "WAITING"})
        /\ Lists(t.prefilling, In(t, "PREFILL"))
        /\ Lists(b.admitted, {q \in E : t.state[q] = "PREFILL"})
    BY <2>3, <2>5, <1>3
  <2>7. Moved(s, t) /\ \A q \in Requests \ E : t.state[q] = s.state[q]
    <3>1. t.state \in [Requests -> Statuses]
      BY <2>3, <1>3 DEF Statuses
    <3> QED BY <3>1, <2>4, <1>1, <1>3 DEF Moved
  <2> QED BY <2>2, <2>3, <2>6, <2>7, <1>1 DEF AdmitAt
<1> QED
  BY <1>1, <1>4, <1>5, <1>6, <1>7

(* Everything that waited stays, is admitted or is rejected.               *)
LEMMA AdmitAll ==
  ASSUME NEW c, NEW s, Good(c, s), QueuesListed(s)
  PROVE  AdmitAt(s, In(s, "WAITING"), AdmitWaiting(s))
<1>1. PICK t, base, q, n : /\ t = [s EXCEPT !.waiting = <<>>] /\ q = s.waiting
                           /\ base = [s |-> t, admitted |-> <<>>] /\ n = Len(q)
  OBVIOUS
<1>2. AdmitWaiting(s) = Admissions!Folded(c, base, q)
  BY <1>1 DEF AdmitWaiting, Admissions!Folded, FoldLeft,
     MapThenFoldSet, Admissions!MapThenFoldSet, Max, Admissions!Greatest, AdmitOp
<1>3. /\ Lists(q, In(s, "WAITING")) /\ n \in Nat /\ DOMAIN q = 1 .. n /\ Once(q)
      /\ ToSet(q) = In(s, "WAITING") /\ \A i \in 1 .. n : q[i] \in In(s, "WAITING")
  <2>1. Lists(q, In(s, "WAITING"))
    BY <1>1 DEF QueuesListed
  <2> QED BY <2>1, <1>1, ListsSet DEF Lists
<1>4. PICK at : Admissions!Steps(c, base, q, n, at) /\ Admissions!Folded(c, base, q) = at[n]
  BY <1>3, Admissions!FoldSteps
<1>5. at[0] = base /\ \A i \in 1 .. n : at[i] = AdmitOne(at[i - 1], q[i])
  BY <1>4 DEF Admissions!Steps, AdmitOp
<1> DEFINE K == {i \in Nat : AdmitAt(s, Before(q, i), at[i])}
<1>6. 0 \in K
  <2>1. /\ Apart(s, t) /\ t.state = s.state /\ t.prefilling = s.prefilling /\ t.waiting = <<>>
    BY <1>1 DEF Good, Shape, Apart
  <2>2. s.state \in [Requests -> Statuses] /\ Lists(s.prefilling, In(s, "PREFILL"))
    BY DEF Good, QueuesSound, QueuesListed
  <2>3. In(t, "PREFILL") = In(s, "PREFILL") /\ Moved(s, t)
    BY <2>1, <2>2 DEF In, Moved
  <2>4. /\ {r \in {} : t.state[r] = "WAITING"} = {}
        /\ {r \in {} : t.state[r] = "PREFILL"} = {}
    OBVIOUS
  <2>5. base.s = t /\ base.admitted = <<>> /\ base = [s |-> base.s, admitted |-> base.admitted]
    BY <1>1
  <2>6. AdmitAt(s, {}, base)
    BY <2>1, <2>2, <2>3, <2>4, <2>5, ListsNone DEF AdmitAt
  <2> QED BY <2>6, <1>5, BeforeNone
<1>7. ASSUME NEW i \in 1 .. n, i - 1 \in K PROVE i \in K
  <2>1. Before(q, i) = Before(q, i - 1) \cup {q[i]} /\ q[i] \notin Before(q, i - 1)
    BY <1>1, <1>3, BeforeNext, BeforeOnce
  <2>2. Before(q, i - 1) \subseteq Requests /\ q[i] \in Requests /\ s.state[q[i]] = "WAITING"
    <3>1. \A j \in 1 .. i - 1 : j \in 1 .. n
      BY <1>3
    <3> QED BY <3>1, <1>3 DEF Before, In
  <2>3. AdmitAt(s, Before(q, i - 1), at[i - 1]) /\ i \in Nat
    BY <1>7, <1>3
  <2>4. AdmitAt(s, Before(q, i - 1) \cup {q[i]}, AdmitOne(at[i - 1], q[i]))
    BY <2>1, <2>2, <2>3, AdmitNext
  <2> QED BY <2>1, <2>3, <2>4, <1>5
<1>8. n \in K
  <2> HIDE DEF K
  <2> QED BY <1>3, <1>6, <1>7, Upwards
<1>9. Before(q, n) = In(s, "WAITING")
  BY <1>3, BeforeAll
<1> QED
  BY <1>2, <1>4, <1>8, <1>9

-----------------------------------------------------------------------------
(* The choice of a prefill batch.                                          *)

(* What has been looked at is in the batch or put back.  As long as the    *)
(* batch is empty, nothing fits.                                           *)
ChosenAt(s, D, b) ==
  /\ ChooseShape(b)
  /\ \E X \in SUBSET D : Lists(b.in, X) /\ Lists(b.out, D \ X)
  /\ b.in = <<>> => b.tokens = 0 /\ \A r \in D : s.prompt[r] > MaxPrefillTokens

(* A list is empty when its set is.                                        *)
LEMMA NoneInEmpty ==
  ASSUME NEW q, NEW S, Lists(q, S)
  PROVE  q = <<>> <=> S = {}
<1>1. q \in Seq(S) /\ Len(q) \in Nat
  BY DEF Lists
<1>2. ASSUME q # <<>> PROVE S # {}
  <2>1. 1 \in 1 .. Len(q)
    BY <1>1, <1>2
  <2> QED BY <2>1, <1>1
<1>3. ASSUME q = <<>> PROVE S = {}
  <2>1. Len(q) = 0
    BY <1>3
  <2> QED BY <2>1 DEF Lists
<1> QED
  BY <1>2, <1>3

(* Considering one more admitted request for the batch.                    *)
LEMMA ChooseNext ==
  ASSUME NEW s, s.prompt \in [Requests -> Nat], NEW D, D \subseteq Requests,
         NEW b, ChosenAt(s, D, b), NEW r \in Requests, r \notin D
  PROVE  ChosenAt(s, D \cup {r}, ChooseOp(s, b, r))
<1>1. PICK d, E : d = ChooseOp(s, b, r) /\ E = D \cup {r}
  OBVIOUS
<1>2. PICK X : X \subseteq D /\ Lists(b.in, X) /\ Lists(b.out, D \ X)
  BY DEF ChosenAt
<1>3. ChooseShape(b)
  BY DEF ChosenAt
<1>4. CASE Fits(s, b, r)
  <2>1. d = [b EXCEPT !.in = Append(@, r), !.tokens = @ + s.prompt[r]]
    BY <1>1, <1>4 DEF ChooseOp
  <2>2. ChooseShape(d) /\ d.in = Append(b.in, r) /\ d.out = b.out
    BY <2>1, <1>3 DEF ChooseShape
  <2>3. Lists(d.in, X \cup {r})
    BY <2>2, <1>2, ListsAppend
  <2>4. D \ X = E \ (X \cup {r}) /\ X \cup {r} \subseteq E
    BY <1>1, <1>2
  <2>5. Lists(d.out, E \ (X \cup {r}))
    BY <2>2, <2>4, <1>2
  <2>6. d.in # <<>>
    BY <2>3, NoneInEmpty
  <2> QED BY <2>2, <2>3, <2>4, <2>5, <2>6, <1>1 DEF ChosenAt
<1>5. CASE ~Fits(s, b, r)
  <2>1. d = [b EXCEPT !.out = Append(@, r)]
    BY <1>1, <1>5 DEF ChooseOp
  <2>2. ChooseShape(d) /\ d.in = b.in /\ d.out = Append(b.out, r) /\ d.tokens = b.tokens
    BY <2>1, <1>3 DEF ChooseShape
  <2>3. r \notin D \ X
    OBVIOUS
  <2>4. Lists(d.out, (D \ X) \cup {r})
    BY <2>2, <2>3, <1>2, ListsAppend
  <2>5. (D \ X) \cup {r} = E \ X /\ X \subseteq E
    BY <1>1, <1>2
  <2>6. Lists(d.in, X) /\ Lists(d.out, E \ X)
    BY <2>2, <2>4, <2>5, <1>2
  <2>7. ASSUME d.in = <<>> PROVE d.tokens = 0 /\ \A q \in E : s.prompt[q] > MaxPrefillTokens
    <3>1. b.tokens = 0 /\ \A q \in D : s.prompt[q] > MaxPrefillTokens
      BY <2>2, <2>7 DEF ChosenAt
    <3>2. s.prompt[r] > MaxPrefillTokens
      BY <3>1, <1>5, ServingAssumption DEF Fits
    <3> QED BY <3>1, <3>2, <2>2, <1>1
  <2> QED BY <2>2, <2>5, <2>6, <2>7, <1>1 DEF ChosenAt
<1> QED
  BY <1>4, <1>5

(* A batch takes part of what was admitted, at least one request.          *)
LEMMA ChooseAll ==
  ASSUME NEW s, s.prompt \in [Requests -> Nat], NEW S, S \subseteq Requests, S # {},
         NEW q, Lists(q, S), NEW b, b = SelectPrefill(s, q)
  PROVE  \E X \in SUBSET S : X # {} /\ Lists(b.in, X) /\ Lists(b.out, S \ X)
<1>1. PICK n : n = Len(q)
  OBVIOUS
<1>2. /\ n \in Nat /\ DOMAIN q = 1 .. n /\ ToSet(q) = S /\ q \in Seq(S) /\ Once(q)
      /\ \A i \in 1 .. n : q[i] \in S
  BY <1>1, ListsSet DEF Lists
<1>3. q # <<>> /\ n > 0
  BY <1>1, <1>2, NoneInEmpty
<1>4. CASE \A r \in ToSet(q) : s.prompt[r] > MaxPrefillTokens
  <2>1. b.in = <<Head(q)>> /\ b.out = Tail(q)
    BY <1>4 DEF SelectPrefill
  <2>2. PICK h : h = Head(q)
    OBVIOUS
  <2>3. h \in S /\ h = q[1]
    BY <2>2, <1>2, <1>3
  <2>4. Lists(<<h>>, {h})
    BY DEF Lists, Once
  <2>5. Lists(Tail(q), S \ {h})
    <3>1. PICK p : p = Tail(q)
      OBVIOUS
    <3>2. Len(p) = n - 1 /\ \A i \in 1 .. n - 1 : p[i] = q[i + 1]
      BY <3>1, <1>1, <1>2, <1>3
    <3>3. \A i \in 1 .. n - 1 : p[i] \in S \ {h}
      BY <3>2, <2>3, <1>1, <1>2, <1>3 DEF Once
    <3>4. p \in Seq(S)
      BY <3>1, <1>2, <1>3
    <3>5. p \in Seq(S \ {h})
      BY <3>2, <3>3, <3>4
    <3>6. Once(p)
      BY <3>2, <1>1, <1>2 DEF Once
    <3>7. ASSUME NEW x \in S \ {h} PROVE \E i \in 1 .. Len(p) : p[i] = x
      <4>1. PICK j \in 1 .. n : q[j] = x
        BY <1>1 DEF Lists
      <4>2. j # 1 /\ j - 1 \in 1 .. n - 1 /\ (j - 1) + 1 = j
        BY <4>1, <2>3, <1>2
      <4> QED BY <4>1, <4>2, <3>2
    <3> QED BY <3>1, <3>5, <3>6, <3>7 DEF Lists
  <2> QED BY <2>1, <2>2, <2>3, <2>4, <2>5
<1>5. CASE ~(\A r \in ToSet(q) : s.prompt[r] > MaxPrefillTokens)
  <2>1. PICK base : base = [in |-> <<>>, out |-> <<>>, tokens |-> 0]
    OBVIOUS
  <2>2. b = Picks!Folded(s, base, q)
    BY <1>5, <2>1 DEF SelectPrefill, Picks!Folded, FoldLeft,
       MapThenFoldSet, Picks!MapThenFoldSet, Max, Picks!Greatest, ChooseOp
  <2>3. PICK at : Picks!Steps(s, base, q, n, at) /\ Picks!Folded(s, base, q) = at[n]
    BY <1>2, Picks!FoldSteps
  <2>4. at[0] = base /\ \A i \in 1 .. n : at[i] = ChooseOp(s, at[i - 1], q[i])
    BY <2>3 DEF Picks!Steps
  <2> DEFINE K == {i \in Nat : ChosenAt(s, Before(q, i), at[i])}
  <2>5. 0 \in K
    <3>1. /\ base.in = <<>> /\ base.out = <<>> /\ base.tokens = 0
          /\ base = [in |-> base.in, out |-> base.out, tokens |-> base.tokens]
      BY <2>1
    <3>2. Lists(base.in, {}) /\ Lists(base.out, {} \ {}) /\ {} \in SUBSET {}
      BY <3>1, ListsNone
    <3>3. ChosenAt(s, {}, base)
      BY <3>1, <3>2 DEF ChosenAt, ChooseShape
    <3> QED BY <3>3, <2>4, BeforeNone
  <2>6. ASSUME NEW i \in 1 .. n, i - 1 \in K PROVE i \in K
    <3>1. Before(q, i) = Before(q, i - 1) \cup {q[i]} /\ q[i] \notin Before(q, i - 1)
      BY <1>1, <1>2, BeforeNext, BeforeOnce
    <3>2. Before(q, i - 1) \subseteq Requests /\ q[i] \in Requests
      <4>1. \A j \in 1 .. i - 1 : j \in 1 .. n
        BY <1>2
      <4> QED BY <4>1, <1>2 DEF Before
    <3>3. ChosenAt(s, Before(q, i - 1), at[i - 1]) /\ i \in Nat
      BY <2>6, <1>2
    <3>4. ChosenAt(s, Before(q, i - 1) \cup {q[i]}, ChooseOp(s, at[i - 1], q[i]))
      BY <3>1, <3>2, <3>3, ChooseNext
    <3> QED BY <3>1, <3>3, <3>4, <2>4
  <2>7. n \in K
    <3> HIDE DEF K
    <3> QED BY <1>2, <2>5, <2>6, Upwards
  <2>8. ChosenAt(s, S, b)
    BY <2>2, <2>3, <2>7, <1>2, BeforeAll
  <2>9. b.in # <<>>
    BY <2>8, <1>2, <1>5 DEF ChosenAt
  <2>10. PICK X \in SUBSET S : Lists(b.in, X) /\ Lists(b.out, S \ X)
    BY <2>8 DEF ChosenAt
  <2>11. X # {}
    BY <2>9, <2>10, NoneInEmpty
  <2> QED BY <2>10, <2>11
<1> QED
  BY <1>4, <1>5

(* What is put back waits again, ahead of the others.                      *)
LEMMA PutBackLists ==
  ASSUME NEW s, Shape(s), s.state \in [Requests -> Statuses], QueuesListed(s),
         NEW R, R \subseteq In(s, "PREFILL"), NEW reqs, Lists(reqs, R),
         NEW t, t = PutBack(s, reqs)
  PROVE  /\ Apart(s, t) /\ QueuesListed(t)
         /\ t.state = [r \in Requests |-> IF r \in R THEN "WAITING" ELSE s.state[r]]
<1>1. PICK pf : pf = FoldLeft(RemoveFirst, s.prefilling, reqs)
  OBVIOUS
<1>2. ToSet(reqs) = R /\ reqs \in Seq(R)
  BY ListsSet DEF Lists
<1>3. PICK st : st = [r \in Requests |-> IF r \in R THEN "WAITING" ELSE s.state[r]]
  OBVIOUS
<1>4. PICK wa : wa = Reverse(reqs) \o s.waiting
  OBVIOUS
<1>5. t = [[s EXCEPT !.state = st, !.prefilling = pf] EXCEPT !.waiting = wa]
  <2>1. PICK u : u = [s EXCEPT !.state = st, !.prefilling = pf]
    OBVIOUS
  <2>2. u.waiting = s.waiting
    BY <2>1 DEF Shape
  <2>3. t = ToFront(u, reqs)
    BY <1>1, <1>2, <1>3, <2>1 DEF PutBack
  <2> QED BY <2>1, <2>2, <2>3, <1>4 DEF ToFront
<1>6. /\ Apart(s, t) /\ t.state = st /\ t.prefilling = pf /\ t.waiting = wa
      /\ t.active = s.active
  BY <1>5 DEF Shape, Apart
<1>7. Lists(pf, In(s, "PREFILL") \ R)
  BY <1>1, <1>2, ListsRemoveAll DEF QueuesListed
<1>8. Lists(wa, R \cup In(s, "WAITING"))
  <2>1. Lists(Reverse(reqs), R)
    BY ListsReverse
  <2>2. R \cap In(s, "WAITING") = {}
    BY DEF In
  <2>3. Lists(s.waiting, In(s, "WAITING"))
    BY DEF QueuesListed
  <2> QED BY <2>1, <2>2, <2>3, <1>4, ListsConcat
<1>9. /\ In(t, "PREFILL") = In(s, "PREFILL") \ R
      /\ In(t, "WAITING") = R \cup In(s, "WAITING")
      /\ In(t, "DECODE") = In(s, "DECODE")
  BY <1>3, <1>6 DEF In
<1>10. QueuesListed(t)
  BY <1>6, <1>7, <1>8, <1>9 DEF QueuesListed
<1> QED
  BY <1>3, <1>6, <1>10

-----------------------------------------------------------------------------
(* What an admission does: some requests that waited are in prefill, as a  *)
(* batch, some are rejected and the others wait on.                        *)
Admission(s, v, in) ==
  /\ Apart(s, v) /\ Moved(s, v) /\ QueuesListed(v)
  /\ in \in Seq(Requests) /\ Once(in) /\ in # <<>>
  /\ ToSet(in) = {r \in Requests : s.state[r] = "WAITING" /\ v.state[r] = "PREFILL"}

(* Two moves between the queues make one.                                  *)
LEMMA ApartTrans ==
  ASSUME NEW s, NEW t, NEW u, Apart(s, t), Apart(t, u)
  PROVE  Apart(s, u)
BY DEF Apart

(* Admission moves waiting requests to PREFILL, and those the batch does   *)
(* not take back to the front of waiting.                                  *)
LEMMA AdmissionMade ==
  ASSUME NEW c, NEW s, Good(c, s), QueuesListed(s), NEW a, a = AdmitWaiting(s)
  PROVE  /\ a.admitted = <<>> =>
              /\ Apart(s, a.s) /\ Moved(s, a.s) /\ QueuesListed(a.s)
              /\ \A r \in Requests : s.state[r] = "WAITING" => a.s.state[r] # "PREFILL"
         /\ a.admitted # <<>> =>
              \A b : b = SelectPrefill(a.s, a.admitted) =>
                       Admission(s, PutBack(a.s, b.out), b.in)
<1>1. PICK W, S, u : /\ W = In(s, "WAITING") /\ u = a.s
                     /\ S = {r \in W : u.state[r] = "PREFILL"}
  OBVIOUS
<1>2. /\ Apart(s, u) /\ Moved(s, u)
      /\ \A r \in Requests \ W : u.state[r] = s.state[r]
      /\ Lists(u.waiting, {r \in W : u.state[r] = "WAITING"})
      /\ Lists(u.prefilling, In(u, "PREFILL"))
      /\ Lists(a.admitted, S)
  <2>1. AdmitAt(s, W, a)
    BY <1>1, AdmitAll
  <2> QED BY <2>1, <1>1 DEF AdmitAt
<1>3. u.state \in [Requests -> Statuses] /\ W \subseteq Requests /\ S \subseteq Requests
  BY <1>1, <1>2 DEF Moved, In
<1>4. QueuesListed(u)
  <2>1. {r \in W : u.state[r] = "WAITING"} = In(u, "WAITING")
    BY <1>1, <1>2 DEF In
  <2>2. In(u, "DECODE") = In(s, "DECODE") /\ u.active = s.active
    BY <1>1, <1>2 DEF In, Apart, Moved
  <2> QED BY <2>1, <2>2, <1>2 DEF QueuesListed
<1>5. ASSUME a.admitted = <<>>
      PROVE  /\ Apart(s, a.s) /\ Moved(s, a.s) /\ QueuesListed(a.s)
             /\ \A r \in Requests : s.state[r] = "WAITING" => a.s.state[r] # "PREFILL"
  <2>1. S = {}
    BY <1>2, <1>5, NoneInEmpty
  <2> QED BY <2>1, <1>1, <1>2, <1>4 DEF In
<1>6. ASSUME a.admitted # <<>>, NEW b, b = SelectPrefill(a.s, a.admitted)
      PROVE  Admission(s, PutBack(a.s, b.out), b.in)
  <2>1. S # {}
    BY <1>2, <1>6, NoneInEmpty
  <2>2. u.prompt \in [Requests -> Nat] /\ Shape(u)
    BY <1>2 DEF Apart, Good, Context
  <2>3. PICK X \in SUBSET S : X # {} /\ Lists(b.in, X) /\ Lists(b.out, S \ X)
    BY <2>1, <2>2, <1>1, <1>2, <1>3, <1>6, ChooseAll
  <2>4. PICK v : v = PutBack(u, b.out)
    OBVIOUS
  <2>5. S \ X \subseteq In(u, "PREFILL")
    BY <1>1, <1>3 DEF In
  <2>6. /\ Apart(u, v) /\ QueuesListed(v)
        /\ v.state = [r \in Requests |-> IF r \in S \ X THEN "WAITING" ELSE u.state[r]]
    BY <2>2, <2>3, <2>4, <2>5, <1>3, <1>4, PutBackLists
  <2>7. Apart(s, v)
    BY <2>6, <1>2, ApartTrans
  <2>8. Moved(s, v)
    <3>1. v.state \in [Requests -> Statuses]
      BY <2>6, <1>3 DEF Statuses
    <3>2. ASSUME NEW r \in Requests
          PROVE  \/ v.state[r] = s.state[r]
                 \/ s.state[r] = "WAITING" /\ v.state[r] \in {"PREFILL", "REJECTED"}
      BY <2>6, <1>1, <1>2 DEF Moved, In
    <3> QED BY <3>1, <3>2 DEF Moved
  <2>9. b.in \in Seq(Requests) /\ Once(b.in) /\ b.in # <<>> /\ ToSet(b.in) = X
    <3>1. b.in \in Seq(X) /\ X \subseteq Requests
      BY <2>3, <1>3 DEF Lists
    <3>2. b.in \in Seq(Requests)
      BY <3>1
    <3> QED BY <3>2, <2>3, ListsSet, NoneInEmpty DEF Lists
  <2>10. X = {r \in Requests : s.state[r] = "WAITING" /\ v.state[r] = "PREFILL"}
    <3>1. ASSUME NEW r \in X PROVE r \in Requests /\ s.state[r] = "WAITING" /\ v.state[r] = "PREFILL"
      BY <2>6, <1>1, <1>3 DEF In
    <3>2. ASSUME NEW r \in Requests, s.state[r] = "WAITING", v.state[r] = "PREFILL" PROVE r \in X
      BY <3>2, <2>6, <1>1 DEF In
    <3> QED BY <3>1, <3>2
  <2> QED BY <2>4, <2>6, <2>7, <2>8, <2>9, <2>10, <1>1 DEF Admission
<1> QED
  BY <1>5, <1>6

-----------------------------------------------------------------------------
(* The start of a batch.                                                   *)

BatchEvents(id, kind, reqs) ==
  {Event("COMPLETE", id, kind, reqs)} \cup
  (IF kind = "PREFILL" THEN {Event("READY", id, kind, reqs)} ELSE {})

(* t is v with a batch of the requests of reqs started.                    *)
Launched(v, kind, reqs, t) ==
  /\ Shape(t) /\ t.state = v.state /\ t.prompt = v.prompt /\ t.session = v.session
  /\ t.tokens = v.tokens /\ t.waiting = v.waiting /\ t.prefilling = v.prefilling
  /\ t.active = v.active /\ t.finishedCnt = v.finishedCnt /\ t.nextTurns = v.nextTurns
  /\ t.sess = v.sess /\ t.admitOpen \in BOOLEAN
  /\ Taken(v, kind, ToSet(reqs), [pool |-> t.pool, ok |-> TRUE])
  /\ t.busy = v.busy \cup ToSet(reqs)
  /\ \E id : t.events = v.events \cup BatchEvents(id, kind, reqs)
  /\ t.inFlight = IF kind = "PREFILL" THEN v.inFlight + 1 ELSE v.inFlight

(* A batch that gets its blocks is launched: its requests busy, its        *)
(* events pushed.                                                          *)
LEMMA ExecuteLaunches ==
  ASSUME NEW v, Shape(v), NEW kind, NEW reqs, Taken(v, kind, ToSet(reqs), Alloc(v, kind, reqs)),
         NEW t, t = ExecuteBatch(v, kind, reqs)
  PROVE  Launched(v, kind, reqs, t)
<1>1. PICK x, u, p : x = Alloc(v, kind, reqs) /\ p = x.pool /\ u = [v EXCEPT !.pool = p]
  OBVIOUS
<1>2. Taken(v, kind, ToSet(reqs), x) /\ x = [pool |-> p, ok |-> TRUE] /\ x.ok
  BY <1>1 DEF Taken
<1>3. t = Started(u, kind, reqs)
  BY <1>1, <1>2 DEF ExecuteBatch
<1>4. PICK evs : evs = Pushed(u, kind, reqs)
  OBVIOUS
<1>5. PICK fl, ao : /\ fl = IF kind = "PREFILL" THEN v.inFlight + 1 ELSE v.inFlight
                    /\ ao = (v.admitOpen /\ ~(kind = "PREFILL"))
  OBVIOUS
<1>6. /\ Shape(u) /\ u.state = v.state /\ u.prompt = v.prompt /\ u.session = v.session
      /\ u.tokens = v.tokens /\ u.waiting = v.waiting /\ u.prefilling = v.prefilling
      /\ u.active = v.active /\ u.finishedCnt = v.finishedCnt /\ u.nextTurns = v.nextTurns
      /\ u.sess = v.sess /\ u.busy = v.busy /\ u.events = v.events
      /\ u.inFlight = v.inFlight /\ u.admitOpen = v.admitOpen /\ u.pool = p
  BY <1>1 DEF Shape
<1>7. t = [u EXCEPT !.busy = v.busy \cup ToSet(reqs), !.events = v.events \cup evs,
                    !.inFlight = fl, !.admitOpen = ao]
  BY <1>3, <1>4, <1>5, <1>6 DEF Started
<1>8. /\ Shape(t) /\ t.state = v.state /\ t.prompt = v.prompt /\ t.session = v.session
      /\ t.tokens = v.tokens /\ t.waiting = v.waiting /\ t.prefilling = v.prefilling
      /\ t.active = v.active /\ t.finishedCnt = v.finishedCnt /\ t.nextTurns = v.nextTurns
      /\ t.sess = v.sess /\ t.pool = p
      /\ t.busy = v.busy \cup ToSet(reqs) /\ t.events = v.events \cup evs
      /\ t.inFlight = fl /\ t.admitOpen = ao
  <2>1. PICK bz, ev : bz = v.busy \cup ToSet(reqs) /\ ev = v.events \cup evs
    OBVIOUS
  <2>2. t = [u EXCEPT !.busy = bz, !.events = ev, !.inFlight = fl, !.admitOpen = ao] /\ Shape(u)
    BY <2>1, <1>6, <1>7
  <2>3. /\ Shape(t) /\ t.state = u.state /\ t.prompt = u.prompt /\ t.session = u.session
        /\ t.tokens = u.tokens /\ t.waiting = u.waiting /\ t.prefilling = u.prefilling
        /\ t.active = u.active /\ t.finishedCnt = u.finishedCnt /\ t.nextTurns = u.nextTurns
        /\ t.sess = u.sess /\ t.pool = u.pool
        /\ t.busy = bz /\ t.events = ev /\ t.inFlight = fl /\ t.admitOpen = ao
    BY <2>2 DEF Shape
  <2> QED BY <2>1, <2>3, <1>6
<1>9. ao \in BOOLEAN
  BY <1>5
<1>10. \E id : t.events = v.events \cup BatchEvents(id, kind, reqs)
  <2>1. PICK id : id = CHOOSE i \in BatchIds : \A e \in u.events : e.id # i
    OBVIOUS
  <2>2. evs = BatchEvents(id, kind, reqs)
    BY <1>4, <2>1 DEF Pushed, BatchEvents
  <2> QED BY <2>2, <1>8
<1>11. Taken(v, kind, ToSet(reqs), [pool |-> t.pool, ok |-> TRUE])
  BY <1>2, <1>8
<1> QED
  BY <1>5, <1>8, <1>9, <1>10, <1>11 DEF Launched

(* What scheduling does: requests that waited are admitted, rejected or    *)
(* wait on, and those of R start in a batch of the given kind, if any.     *)
BatchOf(kind, R, evs) ==
  \/ kind = "NONE" /\ R = {} /\ evs = {}
  \/ /\ kind \in {"PREFILL", "DECODE"}
     /\ \E id, reqs : /\ reqs \in Seq(Requests) /\ Once(reqs) /\ reqs # <<>>
                      /\ ToSet(reqs) = R /\ evs = BatchEvents(id, kind, reqs)

Scheduled(s, kind, R, evs, t) ==
  /\ Shape(t) /\ t.prompt = s.prompt /\ t.session = s.session /\ t.tokens = s.tokens
  /\ t.active = s.active /\ t.finishedCnt = s.finishedCnt /\ t.nextTurns = s.nextTurns
  /\ t.sess = s.sess /\ t.admitOpen \in BOOLEAN
  /\ Moved(s, t) /\ QueuesListed(t)
  /\ BatchOf(kind, R, evs) /\ R \subseteq Requests
  /\ kind = "DECODE" => R \subseteq In(s, "DECODE") \ s.busy
  /\ kind = "PREFILL" => R \subseteq In(s, "WAITING")
  /\ \A r \in Requests :
       s.state[r] = "WAITING" => (t.state[r] = "PREFILL") = (r \in R)
  /\ PoolFull(t.pool)
  /\ \A q \in Requests :
       t.pool.held[q] = s.pool.held[q] + (IF q \in R THEN Want(s, kind, q) ELSE 0)
  /\ t.busy = s.busy \cup R /\ t.events = s.events \cup evs
  /\ t.inFlight = IF kind = "PREFILL" THEN s.inFlight + 1 ELSE s.inFlight

-----------------------------------------------------------------------------
(* Scheduling keeps what is settled.                                       *)

(* Scheduling changes no prompt and no token.                              *)
LEMMA ScheduledTold ==
  ASSUME NEW s, s.state \in [Requests -> Statuses], RequestsTold(s),
         NEW kind, NEW R, NEW evs, NEW t, Scheduled(s, kind, R, evs, t)
  PROVE  RequestsTold(t)
<1>1. t.prompt = s.prompt /\ t.session = s.session /\ t.tokens = s.tokens /\ Moved(s, t)
  BY DEF Scheduled
<1>2. ASSUME NEW r \in Requests
      PROVE  /\ t.prompt[r] \in IF t.state[r] = "NEW" THEN {0} ELSE PromptLens \cup {DeltaPrompt}
             /\ t.state[r] = "NEW" => t.session[r] = NoSession
             /\ t.state[r] \notin {"DECODE", "FINISHED"} => t.tokens[r] = 0
             /\ t.state[r] = "DECODE" => t.tokens[r] < OutputLen
             /\ t.state[r] = "FINISHED" => t.tokens[r] = OutputLen
  <2>1. CASE t.state[r] = s.state[r]
    BY <2>1, <1>1 DEF RequestsTold
  <2>2. CASE s.state[r] = "WAITING" /\ t.state[r] \in {"PREFILL", "REJECTED"}
    BY <2>2, <1>1 DEF RequestsTold
  <2> QED BY <2>1, <2>2, <1>1 DEF Moved
<1>3. t.tokens \in [Requests -> 0 .. OutputLen] /\ t.session \in [Requests -> Sessions \cup {NoSession}]
  BY <1>1 DEF RequestsTold
<1> QED
  BY <1>2, <1>3 DEF RequestsTold

(* The events of a batch.                                                  *)
LEMMA EventsOf ==
  ASSUME NEW id, NEW kind, NEW reqs, NEW e \in BatchEvents(id, kind, reqs)
  PROVE  /\ e = Event(e.on, e.id, e.kind, e.reqs)
         /\ e.id = id /\ e.kind = kind /\ e.reqs = reqs
         /\ e.on = "COMPLETE" \/ (e.on = "READY" /\ e.kind = "PREFILL")
<1>1. e = Event("COMPLETE", id, kind, reqs) \/ (e = Event("READY", id, kind, reqs) /\ kind = "PREFILL")
  BY DEF BatchEvents
<1> QED
  BY <1>1 DEF Event

(* A batch pushes one event or two.                                        *)
LEMMA EventsFinite ==
  ASSUME NEW id, NEW kind, NEW reqs
  PROVE  IsFiniteSet(BatchEvents(id, kind, reqs))
<1>1. IsFiniteSet({Event("COMPLETE", id, kind, reqs)}) /\ IsFiniteSet({Event("READY", id, kind, reqs)})
  BY FS_Singleton
<1>2. IsFiniteSet({})
  BY FS_EmptySet
<1> QED
  BY <1>1, <1>2, FS_Union DEF BatchEvents

(* A request that is being scheduled is in no batch.                       *)
LEMMA ScheduledFree ==
  ASSUME NEW s, BatchesApart(s), NEW kind, NEW R, NEW evs, NEW t, Scheduled(s, kind, R, evs, t),
         NEW e \in s.events
  PROVE  ToSet(e.reqs) \cap R = {}
<1>1. EventSound(s, e)
  BY DEF BatchesApart
<1>2. CASE kind = "NONE"
  BY <1>2 DEF Scheduled, BatchOf
<1>3. CASE kind = "PREFILL"
  BY <1>3, <1>1 DEF Scheduled, EventSound, In
<1>4. CASE kind = "DECODE"
  BY <1>4, <1>1 DEF Scheduled, EventSound, In
<1> QED
  BY <1>2, <1>3, <1>4 DEF Scheduled, BatchOf

(* A scheduled batch shares no request with those under way.               *)
LEMMA ScheduledApart ==
  ASSUME NEW s, s.state \in [Requests -> Statuses], BatchesApart(s),
         NEW kind, NEW R, NEW evs, NEW t, Scheduled(s, kind, R, evs, t)
  PROVE  BatchesApart(t)
<1>1. /\ Moved(s, t) /\ BatchOf(kind, R, evs) /\ R \subseteq Requests
      /\ t.busy = s.busy \cup R /\ t.events = s.events \cup evs
  BY DEF Scheduled
<1>2. /\ kind = "PREFILL" => R \subseteq In(t, "PREFILL")
      /\ kind = "DECODE" => R \subseteq In(t, "DECODE")
  BY <1>1 DEF Scheduled, Moved, In
<1>3. /\ In(s, "PREFILL") \subseteq In(t, "PREFILL")
      /\ In(s, "DECODE") \subseteq In(t, "DECODE")
  BY <1>1 DEF Moved, In
<1>4. CASE kind = "NONE"
  <2>1. t.busy = s.busy /\ t.events = s.events
    BY <1>1, <1>4 DEF BatchOf
  <2>2. ASSUME NEW e \in t.events PROVE EventSound(t, e)
    BY <2>1, <2>2, <1>3 DEF BatchesApart, EventSound
  <2> QED BY <2>1, <2>2, <1>3 DEF BatchesApart
<1>5. CASE kind \in {"PREFILL", "DECODE"}
  <2>1. PICK id, reqs : /\ reqs \in Seq(Requests) /\ Once(reqs) /\ reqs # <<>>
                        /\ ToSet(reqs) = R /\ evs = BatchEvents(id, kind, reqs)
    BY <1>1, <1>5 DEF BatchOf
  <2>2. ASSUME NEW e \in s.events PROVE EventSound(t, e)
    <3>1. EventSound(s, e)
      BY DEF BatchesApart
    <3> QED BY <3>1, <1>1, <1>3 DEF EventSound
  <2>3. ASSUME NEW e \in evs PROVE EventSound(t, e) /\ e.id = id /\ e.kind = kind /\ e.reqs = reqs
    <3>1. /\ e = Event(e.on, e.id, e.kind, e.reqs)
          /\ e.id = id /\ e.kind = kind /\ e.reqs = reqs
          /\ e.on = "COMPLETE" \/ (e.on = "READY" /\ e.kind = "PREFILL")
      BY <2>1, EventsOf
    <3> QED BY <3>1, <2>1, <1>1, <1>2, <1>5 DEF EventSound
  <2>4. ASSUME NEW e \in t.events, NEW f \in t.events, Shares(e, f) PROVE SameBatch(e, f)
    <3>1. CASE e \in s.events /\ f \in s.events
      BY <3>1, <2>4 DEF BatchesApart
    <3>2. CASE e \in evs /\ f \in evs
      BY <3>2, <2>3 DEF SameBatch
    <3>3. CASE e \in s.events /\ f \in evs
      <4>1. ToSet(e.reqs) \cap R = {} /\ f.reqs = reqs
        BY <3>3, <2>3, ScheduledFree
      <4> QED BY <4>1, <2>1, <2>4 DEF Shares
    <3>4. CASE e \in evs /\ f \in s.events
      <4>1. ToSet(f.reqs) \cap R = {} /\ e.reqs = reqs
        BY <3>4, <2>3, ScheduledFree
      <4> QED BY <4>1, <2>1, <2>4 DEF Shares
    <3> QED BY <3>1, <3>2, <3>3, <3>4, <1>1
  <2>5. IsFiniteSet(t.events)
    <3>1. IsFiniteSet(evs) /\ IsFiniteSet(s.events)
      BY <2>1, EventsFinite DEF BatchesApart
    <3> QED BY <3>1, <1>1, FS_Union
  <2>6. t.busy \subseteq In(t, "PREFILL") \cup In(t, "DECODE")
    BY <1>1, <1>2, <1>3, <1>5 DEF BatchesApart
  <2>7. \A e \in t.events : EventSound(t, e)
    BY <2>2, <2>3, <1>1
  <2> QED BY <2>4, <2>5, <2>6, <2>7 DEF BatchesApart
<1> QED
  BY <1>1, <1>4, <1>5 DEF BatchOf

-----------------------------------------------------------------------------
(* The lengths of a known request.                                         *)
LEMMA PromptNat ==
  ASSUME NEW s, RequestsTold(s), NEW r \in Requests
  PROVE  /\ s.prompt[r] \in Nat /\ BlocksPerChip(s.prompt[r]) \in Nat
         /\ s.state[r] # "NEW" => s.prompt[r] \in PromptLens \cup {DeltaPrompt}
         /\ s.tokens[r] \in 0 .. OutputLen
<1>1. s.prompt[r] \in IF s.state[r] = "NEW" THEN {0} ELSE PromptLens \cup {DeltaPrompt}
  BY DEF RequestsTold
<1>2. s.prompt[r] \in Nat
  <2>1. PromptLens \subseteq Nat /\ DeltaPrompt \in Nat /\ 0 \in Nat
    BY ServingAssumption
  <2>2. s.prompt[r] \in {0} \cup PromptLens \cup {DeltaPrompt}
    BY <1>1
  <2> QED BY <2>1, <2>2
<1>3. s.tokens[r] \in 0 .. OutputLen
  BY DEF RequestsTold
<1> QED
  BY <1>1, <1>2, <1>3, BlocksSome

(* Nobody holds more than there is room for.                               *)
LEMMA HeldBelow ==
  ASSUME NEW b, Room(b), NEW c, NEW s, s.state \in [Requests -> Statuses], RequestsTold(s),
         NEW P, BlocksDue(c, s, P), NEW r \in Requests
  PROVE  s.pool.held[r] \in Nat /\ s.pool.held[r] <= b
<1>1. PICK h, m, k : /\ h = s.pool.held[r] /\ m = BlocksPerChip(s.prompt[r])
                     /\ k = Rounded(OutputLen)
  OBVIOUS
<1>2. h \in Nat /\ m \in Nat /\ k \in Nat /\ b \in Nat /\ OutputLen \in Nat
  BY <1>1, PromptNat, RoundedStep, ServingAssumption DEF BlocksDue, PoolFull, Room
<1>3. CASE s.state[r] \in {"NEW", "WAITING", "REJECTED"}
  BY <1>1, <1>2, <1>3 DEF BlocksDue
<1>4. CASE s.state[r] \in {"PREFILL", "DECODE", "FINISHED"}
  <2>1. m + k <= b
    BY <1>1, <1>4, PromptNat DEF Room
  <2>2. CASE s.state[r] = "PREFILL"
    BY <2>1, <2>2, <1>1, <1>2 DEF BlocksDue
  <2>3. CASE s.state[r] = "DECODE"
    <3>1. PICK n : n = IF r \in s.busy THEN s.tokens[r] + 1 ELSE s.tokens[r]
      OBVIOUS
    <3>2. s.tokens[r] \in 0 .. OutputLen /\ s.tokens[r] < OutputLen
      BY <2>3, PromptNat DEF RequestsTold
    <3>3. n \in Nat /\ n <= OutputLen
      BY <3>1, <3>2, <1>2
    <3>4. h = m + Rounded(n)
      BY <3>1, <2>3, <1>1 DEF BlocksDue, Owed
    <3>5. Rounded(n) <= k /\ Rounded(n) \in Nat
      BY <3>3, <1>1, <1>2, RoundedGrows, RoundedStep
    <3> QED BY <3>4, <3>5, <2>1, <1>1, <1>2
  <2>4. CASE s.state[r] = "FINISHED"
    <3>1. h \in {0, m + k}
      BY <2>4, <1>1 DEF BlocksDue, Full
    <3> QED BY <3>1, <2>1, <1>1, <1>2
  <2> QED BY <2>2, <2>3, <2>4, <1>4
<1> QED
  BY <1>3, <1>4 DEF Statuses

(* Scheduling gives each request of the batch the blocks its tokens are    *)
(* due.                                                                    *)
LEMMA ScheduledBlocks ==
  ASSUME NEW c, NEW s, s.state \in [Requests -> Statuses], RequestsTold(s),
         BlocksDue(c, s, {}),
         NEW kind, NEW R, NEW evs, NEW t, Scheduled(s, kind, R, evs, t)
  PROVE  BlocksDue(c, t, {})
<1>1. /\ t.prompt = s.prompt /\ t.session = s.session /\ t.tokens = s.tokens /\ t.sess = s.sess
      /\ Moved(s, t) /\ t.busy = s.busy \cup R /\ PoolFull(t.pool)
      /\ kind = "DECODE" => R \subseteq In(s, "DECODE") \ s.busy
      /\ kind = "PREFILL" => R \subseteq In(s, "WAITING")
      /\ kind \notin {"PREFILL", "DECODE"} => R = {}
  BY DEF Scheduled, BatchOf
<1>2. ASSUME NEW r \in Requests
      PROVE  /\ t.state[r] \in {"NEW", "WAITING", "REJECTED"} => t.pool.held[r] = 0
             /\ t.state[r] = "PREFILL" => t.pool.held[r] = BlocksPerChip(t.prompt[r])
             /\ t.state[r] = "DECODE" => t.pool.held[r] = Owed(t, r)
             /\ t.state[r] = "FINISHED" => t.pool.held[r] = s.pool.held[r]
  <2>1. PICK h, m, n : /\ h = s.pool.held[r] /\ m = BlocksPerChip(s.prompt[r])
                       /\ n = s.tokens[r]
    OBVIOUS
  <2>2. h \in Nat /\ m \in Nat /\ n \in Nat
    BY <2>1, PromptNat DEF BlocksDue, PoolFull
  <2>3. t.pool.held[r] = h + (IF r \in R THEN Want(s, kind, r) ELSE 0)
    BY <2>1 DEF Scheduled
  <2>4. CASE r \notin R
    <3>1. t.pool.held[r] = h
      BY <2>2, <2>3, <2>4
    <3>2. \/ t.state[r] = s.state[r]
          \/ s.state[r] = "WAITING" /\ t.state[r] = "REJECTED"
      BY <2>4, <1>1 DEF Moved, Scheduled
    <3>3. r \in t.busy <=> r \in s.busy
      BY <2>4, <1>1
    <3>4. Owed(t, r) = Owed(s, r)
      BY <3>3, <1>1 DEF Owed
    <3> QED BY <3>1, <3>2, <3>4, <2>1, <1>1 DEF BlocksDue
  <2>5. CASE r \in R /\ kind = "PREFILL"
    <3>1. s.state[r] = "WAITING" /\ t.state[r] = "PREFILL"
      BY <2>5, <1>1 DEF In, Scheduled
    <3>2. h = 0 /\ Want(s, kind, r) = m
      BY <3>1, <2>1, <2>5 DEF BlocksDue, Want
    <3> QED BY <3>1, <3>2, <2>1, <2>2, <2>3, <2>5, <1>1
  <2>6. CASE r \in R /\ kind = "DECODE"
    <3>1. s.state[r] = "DECODE" /\ t.state[r] = "DECODE" /\ r \notin s.busy /\ r \in t.busy
      BY <2>6, <1>1 DEF In, Moved
    <3>2. h = m + Rounded(n)
      BY <3>1, <2>1 DEF BlocksDue, Owed
    <3>3. Want(s, kind, r) = IF StartsBlock(n) THEN 1 ELSE 0
      BY <2>1, <2>6 DEF Want
    <3>4. Rounded(n + 1) = Rounded(n) + (IF StartsBlock(n) THEN 1 ELSE 0) /\ Rounded(n) \in Nat
      BY <2>2, RoundedStep
    <3>5. Owed(t, r) = m + Rounded(n + 1)
      BY <3>1, <2>1, <1>1 DEF Owed
    <3>6. t.pool.held[r] = m + Rounded(n + 1)
      BY <3>2, <3>3, <3>4, <2>2, <2>3, <2>6
    <3> QED BY <3>1, <3>5, <3>6
  <2> QED BY <2>4, <2>5, <2>6, <1>1
<1>3. ASSUME NEW r \in Requests, t.state[r] = "FINISHED"
      PROVE  /\ t.pool.held[r] \in {0, Full(t, r)}
             /\ IF t.session[r] = NoSession \/ ~t.sess[t.session[r]].here THEN t.pool.held[r] = 0
                ELSE c.phase = "run" => t.pool.held[r] = Full(t, r)
  <2>1. s.state[r] = "FINISHED" /\ t.pool.held[r] = s.pool.held[r] /\ Full(t, r) = Full(s, r)
    BY <1>1, <1>2, <1>3 DEF Moved, Full
  <2> QED BY <2>1, <1>1 DEF BlocksDue
<1> QED
  BY <1>1, <1>2, <1>3 DEF BlocksDue

(* What the sessions say depends on nothing but which turns are open.      *)
LEMMA TurnsCarried ==
  ASSUME NEW c, NEW s, NEW P, TurnsHeld(c, s, P), NEW t, NEW Q, Q \subseteq In(t, "FINISHED"),
         t.session = s.session, t.sess = s.sess, t.nextTurns = s.nextTurns,
         \A r \in Requests : s.session[r] \in Sessions =>
           ((t.state[r] # "FINISHED" \/ r \in Q) <=> (s.state[r] # "FINISHED" \/ r \in P))
  PROVE  TurnsHeld(c, t, Q)
<1>1. \A x : TurnsOf(t, x) = TurnsOf(s, x)
  BY DEF TurnsOf
<1>2. \A x \in Sessions : Open(t, x, Q) = Open(s, x, P)
  BY DEF Open, TurnsOf
<1>3. /\ t.sess \in [Sessions -> [here : BOOLEAN, done : 0 .. Turns]]
      /\ t.nextTurns \in [Sessions -> {0, 1}]
      /\ \E k \in 0 .. MaxSessions : \A x \in Sessions : TurnsOf(t, x) # {} <=> x <= k
  BY <1>1 DEF TurnsHeld
<1>4. \A x \in Sessions : OneTurn(c, t.sess[x].here, t.sess[x].done, t.nextTurns[x],
                                  TurnsOf(t, x), Open(t, x, Q))
  BY <1>1, <1>2 DEF TurnsHeld
<1> QED
  BY <1>3, <1>4 DEF TurnsHeld

(* Turns depend only on which requests are finished.                       *)
LEMMA TurnsSame ==
  ASSUME NEW c, NEW s, NEW P, TurnsHeld(c, s, P), NEW t,
         t.session = s.session, t.sess = s.sess, t.nextTurns = s.nextTurns,
         \A r \in Requests : t.state[r] = "FINISHED" <=> s.state[r] = "FINISHED"
  PROVE  TurnsHeld(c, t, P)
<1>1. P \subseteq In(s, "FINISHED")
  BY DEF TurnsHeld
<1>2. P \subseteq In(t, "FINISHED")
  BY <1>1 DEF In
<1> QED
  BY <1>2, TurnsCarried

(* Scheduling finishes no request, so no turn.                             *)
LEMMA ScheduledTurns ==
  ASSUME NEW c, NEW s, s.state \in [Requests -> Statuses], TurnsHeld(c, s, {}),
         NEW kind, NEW R, NEW evs, NEW t, Scheduled(s, kind, R, evs, t)
  PROVE  TurnsHeld(c, t, {})
<1>1. /\ t.session = s.session /\ t.sess = s.sess /\ t.nextTurns = s.nextTurns
      /\ \A r \in Requests : t.state[r] = "FINISHED" <=> s.state[r] = "FINISHED"
  BY DEF Scheduled, Moved
<1> QED
  BY <1>1, TurnsSame

(* The prefills under way can be counted.                                  *)
LEMMA PrefillsFinite ==
  ASSUME NEW s, IsFiniteSet(s.events)
  PROVE  IsFiniteSet(Prefills(s)) /\ Cardinality(Prefills(s)) \in Nat
<1>1. Prefills(s) \subseteq s.events
  BY DEF Prefills
<1>2. IsFiniteSet(Prefills(s))
  BY <1>1, FS_Subset
<1> QED
  BY <1>2, FS_CardinalityType

(* Scheduling counts the prefill it starts.                                *)
LEMMA ScheduledTallies ==
  ASSUME NEW c, NEW s, s.state \in [Requests -> Statuses], BatchesApart(s), TalliesRight(c, s),
         NEW kind, NEW R, NEW evs, NEW t, Scheduled(s, kind, R, evs, t)
  PROVE  TalliesRight(c, t)
<1>1. /\ Moved(s, t) /\ t.events = s.events \cup evs /\ t.finishedCnt = s.finishedCnt
      /\ t.admitOpen \in BOOLEAN
      /\ t.inFlight = IF kind = "PREFILL" THEN s.inFlight + 1 ELSE s.inFlight
  BY DEF Scheduled
<1>2. In(t, "FINISHED") = In(s, "FINISHED")
  BY <1>1 DEF In, Moved
<1>3. CASE kind # "PREFILL"
  <2>1. Prefills(t) = Prefills(s)
    <3>1. \A e \in evs : e.kind # "PREFILL"
      <4>1. CASE kind = "NONE"
        BY <4>1 DEF Scheduled, BatchOf
      <4>2. CASE kind = "DECODE"
        <5>1. PICK id, reqs : evs = BatchEvents(id, kind, reqs)
          BY <4>2 DEF Scheduled, BatchOf
        <5> QED BY <5>1, <4>2, EventsOf
      <4> QED BY <4>1, <4>2, <1>3 DEF Scheduled, BatchOf
    <3> QED BY <3>1, <1>1 DEF Prefills
  <2>2. \A r \in Requests : Lost(s, r) => Lost(t, r)
    BY <2>1, <1>1 DEF Lost, Moved
  <2> QED BY <2>1, <2>2, <1>1, <1>2, <1>3 DEF TalliesRight
<1>4. CASE kind = "PREFILL"
  <2>1. PICK id, reqs : /\ reqs \in Seq(Requests) /\ reqs # <<>>
                        /\ ToSet(reqs) = R /\ evs = BatchEvents(id, kind, reqs)
    BY <1>4 DEF Scheduled, BatchOf
  <2>2. PICK new : new = Event("COMPLETE", id, kind, reqs)
    OBVIOUS
  <2>3. Prefills(t) = Prefills(s) \cup {new}
    <3>1. new.on = "COMPLETE" /\ new.kind = "PREFILL"
      BY <2>2, <1>4 DEF Event
    <3>2. Event("READY", id, kind, reqs).on # "COMPLETE"
      BY DEF Event
    <3>3. t.events = s.events \cup {new, Event("READY", id, kind, reqs)}
      BY <2>1, <2>2, <1>1, <1>4 DEF BatchEvents
    <3> QED BY <3>1, <3>2, <3>3 DEF Prefills
  <2>4. new \notin Prefills(s)
    <3>1. new.reqs = reqs
      BY <2>2 DEF Event
    <3>2. 1 \in DOMAIN reqs
      BY <2>1
    <3>3. R # {}
      BY <2>1, <3>2 DEF ToSet
    <3>4. new \in s.events => ToSet(new.reqs) \cap R = {}
      BY ScheduledFree
    <3> QED BY <3>1, <3>3, <3>4, <2>1 DEF Prefills
  <2>5. /\ Cardinality(Prefills(t)) = Cardinality(Prefills(s)) + 1
        /\ Cardinality(Prefills(s)) \in Nat
    <3>1. IsFiniteSet(Prefills(s)) /\ Cardinality(Prefills(s)) \in Nat
      BY PrefillsFinite DEF BatchesApart
    <3> QED BY <3>1, <2>3, <2>4, FS_AddElement
  <2>6. ASSUME NEW r \in Requests, Lost(s, r) PROVE Lost(t, r)
    <3>1. r \notin R /\ t.state[r] = s.state[r]
      BY <2>6, <1>1, <1>4 DEF Lost, Scheduled, Moved, In
    <3>2. new.reqs = reqs
      BY <2>2 DEF Event
    <3> QED BY <3>1, <3>2, <2>1, <2>3, <2>6 DEF Lost
  <2>7. t.inFlight = s.inFlight + 1
    BY <1>1, <1>4
  <2>8. CASE s.inFlight = Cardinality(Prefills(s))
    BY <2>5, <2>7, <2>8, <1>1, <1>2 DEF TalliesRight
  <2>9. CASE s.inFlight # Cardinality(Prefills(s))
    <3>1. /\ c.phase # "run" /\ s.inFlight = Cardinality(Prefills(s)) + 1
          /\ \E r \in Requests : Lost(s, r)
      BY <2>9 DEF TalliesRight
    <3>2. t.inFlight = Cardinality(Prefills(t)) + 1
      BY <3>1, <2>5, <2>7
    <3>3. \E r \in Requests : Lost(t, r)
      BY <3>1, <2>6
    <3>4. t.admitOpen \in BOOLEAN /\ t.finishedCnt = Cardinality(In(t, "FINISHED"))
      BY <1>1, <1>2 DEF TalliesRight
    <3> QED BY <3>1, <3>2, <3>3, <3>4 DEF TalliesRight
  <2> QED BY <2>8, <2>9
<1> QED
  BY <1>3, <1>4

(* Scheduling keeps all that is settled.                                   *)
LEMMA ScheduledSettled ==
  ASSUME NEW c, NEW s, s.state \in [Requests -> Statuses], Settled(c, s, {}),
         NEW kind, NEW R, NEW evs, NEW t, Scheduled(s, kind, R, evs, t)
  PROVE  Settled(c, t, {})
<1>1. /\ QueuesListed(s) /\ RequestsTold(s) /\ BatchesApart(s)
      /\ BlocksDue(c, s, {}) /\ TurnsHeld(c, s, {}) /\ TalliesRight(c, s)
  BY DEF Settled
<1>2. QueuesListed(t)
  BY DEF Scheduled
<1>3. RequestsTold(t)
  BY <1>1, ScheduledTold
<1>4. BatchesApart(t)
  BY <1>1, ScheduledApart
<1>5. BlocksDue(c, t, {})
  BY <1>1, ScheduledBlocks
<1>6. TurnsHeld(c, t, {})
  BY <1>1, ScheduledTurns
<1>7. TalliesRight(c, t)
  BY <1>1, ScheduledTallies
<1> QED
  BY <1>2, <1>3, <1>4, <1>5, <1>6, <1>7 DEF Settled

-----------------------------------------------------------------------------
(* Scheduling, step by step.                                               *)

(* What _schedule_prefill does is to schedule one batch or none.           *)
LEMMA SchedulePrefillMade ==
  ASSUME EnoughKV, NEW c, NEW s, Good(c, s), Settled(c, s, {}), NEW t, t = SchedulePrefill(s)
  PROVE  \E kind, R, evs : Scheduled(s, kind, R, evs, t)
<1>1. PICK b : Room(b)
  BY DEF EnoughKV
<1>2. /\ QueuesListed(s) /\ RequestsTold(s) /\ BlocksDue(c, s, {}) /\ TalliesRight(c, s)
      /\ s.state \in [Requests -> Statuses] /\ Shape(s)
  BY DEF Settled, Good, QueuesSound
<1>3. PICK a : a = AdmitWaiting(s)
  OBVIOUS
<1>4. CASE a.admitted = <<>>
  <2>1. t = a.s
    BY <1>3, <1>4 DEF SchedulePrefill
  <2>2. /\ Apart(s, t) /\ Moved(s, t) /\ QueuesListed(t)
        /\ \A r \in Requests : s.state[r] = "WAITING" => t.state[r] # "PREFILL"
    BY <2>1, <1>2, <1>3, <1>4, AdmissionMade
  <2>3. PoolFull(t.pool) /\ \A q \in Requests : t.pool.held[q] = s.pool.held[q] + 0
    BY <2>2, <1>2 DEF Apart, BlocksDue, PoolFull
  <2>4. Scheduled(s, "NONE", {}, {}, t)
    <3>1. \A r \in Requests : s.state[r] = "WAITING" => (t.state[r] = "PREFILL") = (r \in {})
      BY <2>2
    <3>2. \A q \in Requests :
            t.pool.held[q] = s.pool.held[q] + (IF q \in {} THEN Want(s, "NONE", q) ELSE 0)
      BY <2>3
    <3>3. BatchOf("NONE", {}, {})
      BY DEF BatchOf
    <3> QED BY <2>2, <2>3, <3>1, <3>2, <3>3, <1>2 DEF Apart, Scheduled, TalliesRight
  <2> QED BY <2>4
<1>5. CASE a.admitted # <<>>
  <2>1. PICK d, v, in, R : /\ d = SelectPrefill(a.s, a.admitted) /\ in = d.in
                           /\ v = PutBack(a.s, d.out) /\ R = ToSet(in)
    OBVIOUS
  <2>2. Admission(s, v, in)
    BY <2>1, <1>2, <1>3, <1>5, AdmissionMade
  <2>3. t = ExecuteBatch(v, "PREFILL", in)
    BY <2>1, <1>3, <1>5 DEF SchedulePrefill
  <2>4. /\ Apart(s, v) /\ Moved(s, v) /\ QueuesListed(v)
        /\ in \in Seq(Requests) /\ Once(in) /\ in # <<>>
        /\ R = {r \in Requests : s.state[r] = "WAITING" /\ v.state[r] = "PREFILL"}
    BY <2>1, <2>2 DEF Admission
  <2>5. /\ Shape(v) /\ v.prompt = s.prompt /\ v.session = s.session /\ v.tokens = s.tokens
        /\ v.active = s.active /\ v.finishedCnt = s.finishedCnt /\ v.pool = s.pool
        /\ v.busy = s.busy /\ v.events = s.events /\ v.nextTurns = s.nextTurns
        /\ v.inFlight = s.inFlight /\ v.admitOpen = s.admitOpen /\ v.sess = s.sess
    BY <2>4 DEF Apart
  <2>6. Fitting(b, v, "PREFILL", R)
    <3>1. ASSUME NEW q \in R
          PROVE  /\ q \in Requests /\ Want(v, "PREFILL", q) \in Nat
                 /\ v.pool.held[q] + Want(v, "PREFILL", q) <= b /\ v.pool.held[q] = 0
      <4>1. q \in Requests /\ s.state[q] = "WAITING"
        BY <2>4
      <4>2. PICK m : m = BlocksPerChip(s.prompt[q])
        OBVIOUS
      <4>3. Want(v, "PREFILL", q) = m /\ v.pool.held[q] = 0
        BY <4>1, <4>2, <2>5, <1>2 DEF Want, BlocksDue
      <4>4. m \in Nat /\ m + Rounded(OutputLen) <= b /\ Rounded(OutputLen) \in Nat /\ b \in Nat
        BY <4>1, <4>2, <1>1, <1>2, PromptNat, RoundedStep, ServingAssumption DEF Room
      <4> QED BY <4>1, <4>3, <4>4
    <3>2. \A q \in Requests : v.pool.held[q] <= b
      BY <2>5, <1>1, <1>2, HeldBelow
    <3>3. PoolFull(v.pool)
      BY <2>5, <1>2 DEF BlocksDue
    <3> QED BY <3>1, <3>2, <3>3 DEF Fitting
  <2>7. Taken(v, "PREFILL", R, Alloc(v, "PREFILL", in))
    <3>1. Fitting(b, v, "PREFILL", ToSet(in))
      BY <2>1, <2>6
    <3>2. in \in Seq(Requests) /\ Once(in)
      BY <2>4
    <3>3. Taken(v, "PREFILL", ToSet(in), Alloc(v, "PREFILL", in))
      BY <3>1, <3>2, <1>1, AllocFits
    <3> QED BY <3>3, <2>1
  <2>8. Launched(v, "PREFILL", in, t)
    BY <2>1, <2>3, <2>5, <2>7, ExecuteLaunches
  <2>9. PICK id : t.events = s.events \cup BatchEvents(id, "PREFILL", in)
    BY <2>5, <2>8 DEF Launched
  <2>10. PICK evs : evs = BatchEvents(id, "PREFILL", in)
    OBVIOUS
  <2>11. BatchOf("PREFILL", R, evs) /\ R \subseteq Requests
    BY <2>1, <2>4, <2>10 DEF BatchOf
  <2>12. Moved(s, t) /\ QueuesListed(t)
    <3>1. /\ t.state = v.state /\ t.waiting = v.waiting /\ t.prefilling = v.prefilling
          /\ t.active = v.active
      BY <2>8 DEF Launched
    <3>2. Moved(s, t)
      BY <3>1, <2>4 DEF Moved
    <3>3. \A x : In(t, x) = In(v, x)
      BY <3>1 DEF In
    <3> QED BY <3>1, <3>2, <3>3, <2>4 DEF QueuesListed
  <2>13. /\ PoolFull(t.pool)
         /\ \A q \in Requests :
              t.pool.held[q] = s.pool.held[q] + (IF q \in R THEN Want(s, "PREFILL", q) ELSE 0)
    <3>1. Taken(v, "PREFILL", R, [pool |-> t.pool, ok |-> TRUE])
      BY <2>1, <2>8 DEF Launched
    <3>2. \A q \in Requests : Want(v, "PREFILL", q) = Want(s, "PREFILL", q)
      BY <2>5 DEF Want
    <3> QED BY <3>1, <3>2, <2>5 DEF Taken
  <2>14. /\ Shape(t) /\ t.prompt = s.prompt /\ t.session = s.session /\ t.tokens = s.tokens
         /\ t.active = s.active /\ t.finishedCnt = s.finishedCnt /\ t.nextTurns = s.nextTurns
         /\ t.sess = s.sess /\ t.admitOpen \in BOOLEAN /\ t.busy = s.busy \cup R
         /\ t.inFlight = s.inFlight + 1 /\ t.state = v.state
    BY <2>1, <2>5, <2>8 DEF Launched
  <2>15. Scheduled(s, "PREFILL", R, evs, t)
    <3>1. R \subseteq In(s, "WAITING")
      BY <2>4 DEF In
    <3>2. \A r \in Requests : s.state[r] = "WAITING" => (t.state[r] = "PREFILL") = (r \in R)
      BY <2>4, <2>14
    <3> QED BY <3>1, <3>2, <2>9, <2>10, <2>11, <2>12, <2>13, <2>14 DEF Scheduled
  <2> QED BY <2>15
<1> QED
  BY <1>4, <1>5

(* The free requests, in order.                                            *)
LEMMA ListsOnly ==
  ASSUME NEW q, NEW S, Lists(q, S), NEW R
  PROVE  Lists(OnlyIn(R, q), S \cap R)
<1>1. PICK c, n : c = [in |-> R, from |-> S] /\ n = Len(q)
  OBVIOUS
<1>2. OnlyIn(R, q) = Filters!Folded(c, <<>>, q)
  <2>1. c.in = R
    BY <1>1
  <2> QED BY <2>1 DEF OnlyIn, Filters!Folded, FoldLeft, MapThenFoldSet,
            Filters!MapThenFoldSet, Max, Filters!Greatest, OnlyOp
<1>3. n \in Nat /\ DOMAIN q = 1 .. n /\ ToSet(q) = S /\ Once(q) /\ \A i \in 1 .. n : q[i] \in S
  BY <1>1, ListsSet DEF Lists
<1>4. PICK at : Filters!Steps(c, <<>>, q, n, at) /\ Filters!Folded(c, <<>>, q) = at[n]
  BY <1>3, Filters!FoldSteps
<1>5. at[0] = <<>> /\ \A i \in 1 .. n : at[i] = IF q[i] \in R THEN Append(at[i - 1], q[i]) ELSE at[i - 1]
  BY <1>1, <1>4 DEF Filters!Steps, OnlyOp
<1> DEFINE K == {i \in Nat : Lists(at[i], Before(q, i) \cap R)}
<1>6. 0 \in K
  <2>1. {} \cap R = {}
    OBVIOUS
  <2> QED BY <2>1, <1>5, BeforeNone, ListsNone
<1>7. ASSUME NEW i \in 1 .. n, i - 1 \in K PROVE i \in K
  <2>1. PICK D, r : D = Before(q, i - 1) /\ r = q[i]
    OBVIOUS
  <2>2. Before(q, i) = D \cup {r} /\ r \notin D
    BY <2>1, <1>1, <1>3, BeforeNext, BeforeOnce
  <2>3. Lists(at[i - 1], D \cap R) /\ i \in Nat
    BY <2>1, <1>7, <1>3
  <2>4. CASE r \in R
    <3>1. r \notin D \cap R
      BY <2>2
    <3>2. Lists(Append(at[i - 1], r), (D \cap R) \cup {r})
      BY <3>1, <2>3, ListsAppend
    <3>3. (D \cup {r}) \cap R = (D \cap R) \cup {r}
      BY <2>4
    <3> QED BY <3>2, <3>3, <2>1, <2>2, <2>3, <2>4, <1>5
  <2>5. CASE r \notin R
    <3>1. (D \cup {r}) \cap R = D \cap R
      BY <2>5
    <3> QED BY <3>1, <2>1, <2>2, <2>3, <2>5, <1>5
  <2> QED BY <2>4, <2>5
<1>8. n \in K
  <2> HIDE DEF K
  <2> QED BY <1>3, <1>6, <1>7, Upwards
<1>9. Lists(at[n], Before(q, n) \cap R) /\ Before(q, n) = S
  BY <1>3, <1>8, BeforeAll
<1> QED
  BY <1>2, <1>4, <1>9

(* What _schedule_decode does is to schedule one decode batch.             *)
LEMMA ScheduleDecodeMade ==
  ASSUME EnoughKV, NEW c, NEW s, Good(c, s), Settled(c, s, {}), Available(s) # <<>>,
         NEW t, t = ScheduleDecode(s)
  PROVE  \E R, evs : Scheduled(s, "DECODE", R, evs, t)
<1>1. PICK b : Room(b)
  BY DEF EnoughKV
<1>2. /\ QueuesListed(s) /\ RequestsTold(s) /\ BlocksDue(c, s, {}) /\ TalliesRight(c, s)
      /\ s.state \in [Requests -> Statuses] /\ Shape(s)
  BY DEF Settled, Good, QueuesSound
<1>3. PICK free, S : free = Available(s) /\ S = In(s, "DECODE") \cap (Requests \ s.busy)
  OBVIOUS
<1>4. Lists(free, S)
  BY <1>2, <1>3, ListsOnly DEF Available, QueuesListed
<1>5. PICK k : k = IF Len(free) < MaxDecodeBatch THEN Len(free) ELSE MaxDecodeBatch
  OBVIOUS
<1>6. k \in 1 .. Len(free)
  <2>1. free \in Seq(S) /\ free # <<>> /\ MaxDecodeBatch \in Nat /\ MaxDecodeBatch >= 1
    BY <1>3, <1>4, ServingAssumption DEF Lists
  <2> QED BY <2>1, <1>5
<1>7. PICK reqs, R : reqs = SubSeq(free, 1, k) /\ R = ToSet(reqs)
  OBVIOUS
<1>8. Once(reqs) /\ reqs # <<>> /\ reqs \in Seq(S) /\ R \subseteq S
  BY <1>4, <1>6, <1>7, ListsPrefix
<1>9. reqs \in Seq(Requests) /\ R \subseteq Requests
  <2>1. S \subseteq Requests
    BY <1>3
  <2> QED BY <2>1, <1>8
<1>10. R \subseteq In(s, "DECODE") \ s.busy
  BY <1>3, <1>8
<1>11. t = ExecuteBatch(s, "DECODE", reqs)
  BY <1>3, <1>5, <1>7 DEF ScheduleDecode
<1>12. Fitting(b, s, "DECODE", R)
  <2>1. ASSUME NEW q \in R
        PROVE  /\ q \in Requests /\ Want(s, "DECODE", q) \in Nat
               /\ s.pool.held[q] + Want(s, "DECODE", q) <= b
    <3>1. q \in Requests /\ s.state[q] = "DECODE" /\ q \notin s.busy
      BY <1>10 DEF In
    <3>2. PICK m, n, k2 : m = BlocksPerChip(s.prompt[q]) /\ n = s.tokens[q] /\ k2 = Rounded(OutputLen)
      OBVIOUS
    <3>3. n \in Nat /\ n < OutputLen /\ m \in Nat /\ m + k2 <= b /\ b \in Nat /\ OutputLen \in Nat
      BY <3>1, <3>2, <1>1, <1>2, PromptNat, ServingAssumption DEF RequestsTold, Room
    <3>4. s.pool.held[q] = m + Rounded(n)
      BY <3>1, <3>2, <1>2 DEF BlocksDue, Owed
    <3>5. Want(s, "DECODE", q) = IF StartsBlock(n) THEN 1 ELSE 0
      BY <3>2 DEF Want
    <3>6. /\ Rounded(n + 1) = Rounded(n) + (IF StartsBlock(n) THEN 1 ELSE 0)
          /\ Rounded(n) \in Nat /\ Rounded(n + 1) \in Nat /\ k2 \in Nat
      <4>1. n + 1 \in Nat /\ OutputLen \in Nat
        BY <3>3
      <4>2. Rounded(n) \in Nat /\ Rounded(n + 1) = Rounded(n) + (IF StartsBlock(n) THEN 1 ELSE 0)
        BY <3>3, RoundedStep
      <4>3. Rounded(n + 1) \in Nat /\ Rounded(OutputLen) \in Nat
        BY <4>1, RoundedStep
      <4> QED BY <4>2, <4>3, <3>2
    <3>7. Rounded(n + 1) <= k2
      BY <3>2, <3>3, RoundedGrows
    <3> QED BY <3>1, <3>3, <3>4, <3>5, <3>6, <3>7
  <2>2. \A q \in Requests : s.pool.held[q] <= b
    BY <1>1, <1>2, HeldBelow
  <2> QED BY <2>1, <2>2, <1>2 DEF Fitting, BlocksDue
<1>13. Taken(s, "DECODE", R, Alloc(s, "DECODE", reqs))
  BY <1>1, <1>7, <1>8, <1>9, <1>12, AllocFits
<1>14. Launched(s, "DECODE", reqs, t)
  BY <1>2, <1>7, <1>11, <1>13, ExecuteLaunches
<1>15. PICK id : t.events = s.events \cup BatchEvents(id, "DECODE", reqs)
  BY <1>14 DEF Launched
<1>16. PICK evs : evs = BatchEvents(id, "DECODE", reqs)
  OBVIOUS
<1>17. BatchOf("DECODE", R, evs)
  BY <1>7, <1>8, <1>9, <1>16 DEF BatchOf
<1>18. Moved(s, t) /\ QueuesListed(t)
  <2>1. /\ t.state = s.state /\ t.waiting = s.waiting /\ t.prefilling = s.prefilling
        /\ t.active = s.active
    BY <1>14 DEF Launched
  <2>2. Moved(s, t)
    BY <2>1, <1>2 DEF Moved
  <2>3. \A x : In(t, x) = In(s, x)
    BY <2>1 DEF In
  <2> QED BY <2>1, <2>2, <2>3, <1>2 DEF QueuesListed
<1>19. Scheduled(s, "DECODE", R, evs, t)
  <2>1. Taken(s, "DECODE", R, [pool |-> t.pool, ok |-> TRUE])
    BY <1>7, <1>14 DEF Launched
  <2>2. /\ PoolFull(t.pool)
        /\ \A q \in Requests :
             t.pool.held[q] = s.pool.held[q] + (IF q \in R THEN Want(s, "DECODE", q) ELSE 0)
    BY <2>1 DEF Taken
  <2>3. \A r \in Requests : s.state[r] = "WAITING" => (t.state[r] = "PREFILL") = (r \in R)
    BY <1>10, <1>14 DEF Launched, In
  <2>4. /\ Shape(t) /\ t.prompt = s.prompt /\ t.session = s.session /\ t.tokens = s.tokens
        /\ t.active = s.active /\ t.finishedCnt = s.finishedCnt /\ t.nextTurns = s.nextTurns
        /\ t.sess = s.sess /\ t.admitOpen \in BOOLEAN /\ t.busy = s.busy \cup R
        /\ t.inFlight = s.inFlight
    BY <1>7, <1>14 DEF Launched
  <2> QED BY <2>2, <2>3, <2>4, <1>9, <1>10, <1>15, <1>16, <1>17, <1>18 DEF Scheduled
<1> QED
  BY <1>19

(* Requests that only move on, move on over two steps.                     *)
LEMMA MovedTrans ==
  ASSUME NEW s, NEW t, NEW u, Moved(s, t), Moved(t, u)
  PROVE  Moved(s, u)
BY DEF Moved

(* Admission keeps what is settled.                                        *)
LEMMA AdmissionSettled ==
  ASSUME EnoughKV, NEW c, NEW s, Good(c, s), Settled(c, s, {}),
         NEW t, t = IF s.waiting # <<>> /\ s.admitOpen THEN SchedulePrefill(s) ELSE s
  PROVE  Good(c, t) /\ Settled(c, t, {}) /\ Moved(s, t) /\ t.tokens = s.tokens
<1>1. s.state \in [Requests -> Statuses]
  BY DEF Good, QueuesSound
<1>2. CASE s.waiting # <<>> /\ s.admitOpen
  <2>1. t = SchedulePrefill(s)
    BY <1>2
  <2>2. PICK kind, R, evs : Scheduled(s, kind, R, evs, t)
    BY <1>2, <2>1, SchedulePrefillMade
  <2>3. Settled(c, t, {})
    BY <2>2, <1>1, ScheduledSettled
  <2>4. Moved(s, t) /\ t.tokens = s.tokens
    BY <2>2 DEF Scheduled
  <2> QED BY <2>1, <2>3, <2>4, SchedulePrefillSound
<1>3. CASE ~(s.waiting # <<>> /\ s.admitOpen)
  BY <1>1, <1>3 DEF Moved
<1> QED
  BY <1>2, <1>3

(* A batch of decodes is under way, or no request has started to decode    *)
(* and is free.                                                            *)
Decoding(s) == \E e \in s.events : e.on = "COMPLETE" /\ e.kind = "DECODE"

NoneHalfway(s) == Decoding(s) \/ \A r \in In(s, "DECODE") \ s.busy : s.tokens[r] = 0

(* _maybe_schedule keeps what is settled, and only moves what waits.       *)
LEMMA MaybeSettled ==
  ASSUME EnoughKV, NEW c, NEW s, Good(c, s), Settled(c, s, {}), NEW waited,
         NEW u, u = MaybeSchedule(s, waited)
  PROVE  /\ Settled(c, u, {}) /\ Moved(s, u) /\ u.tokens = s.tokens
         /\ MinDecodeBatch = 1 => NoneHalfway(u)
<1>1. PICK t : t = IF s.waiting # <<>> /\ s.admitOpen THEN SchedulePrefill(s) ELSE s
  OBVIOUS
<1>2. s.state \in [Requests -> Statuses]
  BY DEF Good, QueuesSound
<1>3. Good(c, t) /\ Settled(c, t, {}) /\ Moved(s, t) /\ t.tokens = s.tokens
  BY <1>1, AdmissionSettled
<1>4. u = IF CanDecode(t, waited) THEN ScheduleDecode(t) ELSE t
  BY <1>1 DEF MaybeSchedule
<1>5. CASE CanDecode(t, waited)
  <2>1. Available(t) # <<>>
    BY <1>5 DEF CanDecode
  <2>2. u = ScheduleDecode(t)
    BY <1>4, <1>5
  <2>3. PICK R, evs : Scheduled(t, "DECODE", R, evs, u)
    BY <2>1, <2>2, <1>3, ScheduleDecodeMade
  <2>4. t.state \in [Requests -> Statuses]
    BY <1>3 DEF Good, QueuesSound
  <2>5. Settled(c, u, {})
    BY <2>3, <2>4, <1>3, ScheduledSettled
  <2>6. Moved(t, u) /\ u.tokens = t.tokens
    BY <2>3 DEF Scheduled
  <2>7. NoneHalfway(u)
    <3>1. PICK id, reqs : evs = BatchEvents(id, "DECODE", reqs)
      BY <2>3 DEF Scheduled, BatchOf
    <3>2. PICK e : e = Event("COMPLETE", id, "DECODE", reqs)
      OBVIOUS
    <3>3. e \in u.events
      BY <2>3, <3>1, <3>2 DEF Scheduled, BatchEvents
    <3>4. e.on = "COMPLETE" /\ e.kind = "DECODE"
      BY <3>2 DEF Event
    <3> QED BY <3>3, <3>4 DEF Decoding, NoneHalfway
  <2> QED BY <2>5, <2>6, <2>7, <1>3, MovedTrans
<1>6. CASE ~CanDecode(t, waited)
  <2>1. ASSUME MinDecodeBatch = 1 PROVE NoneHalfway(t)
    <3>1. PICK free, S : free = Available(t) /\ S = In(t, "DECODE") \cap (Requests \ t.busy)
      OBVIOUS
    <3>2. Lists(t.active, In(t, "DECODE"))
      BY <1>3 DEF Settled, QueuesListed
    <3>3. Lists(free, S)
      BY <3>1, <3>2, ListsOnly DEF Available
    <3>4. CASE free = <<>>
      <4>1. S = {}
        BY <3>3, <3>4 DEF Lists
      <4> QED BY <4>1, <3>1 DEF NoneHalfway, In
    <3>5. CASE free # <<>>
      <4>1. Len(t.active) < 1
        <5>1. Len(t.active) \in Nat
          BY <3>2, ListsSet
        <5> QED BY <5>1, <1>6, <2>1, <3>1, <3>5 DEF CanDecode
      <4>2. In(t, "DECODE") = {}
        BY <3>2, <4>1 DEF Lists
      <4> QED BY <4>2 DEF NoneHalfway
    <3> QED BY <3>4, <3>5
  <2> QED BY <2>1, <1>3, <1>4, <1>6
<1> QED
  BY <1>5, <1>6

=============================================================================
