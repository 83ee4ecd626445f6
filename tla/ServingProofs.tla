----------------------------- MODULE ServingProofs -----------------------------
(***************************************************************************)
(* Theorems about Serving, for every number of requests, sessions, chips   *)
(* and blocks, every prompt length and every setting of the scheduler,     *)
(* also those under which batches fail for lack of KV blocks.              *)
(***************************************************************************)
EXTENDS Serving, FiniteSetTheorems, TLAPS

-----------------------------------------------------------------------------
(* Sums.                                                                   *)
SumOp(f, n, r) == n + f[r]

SumKeep(f, n) == n \in Nat

Sums == INSTANCE FoldTheory WITH Op <- SumOp, Keep <- SumKeep

LEMMA SumFolded ==
  ASSUME NEW f, NEW q
  PROVE  SumOf(f, q) = Sums!Folded(f, 0, q)
BY DEF SumOf, Sums!Folded, FoldLeft, MapThenFoldSet, Sums!MapThenFoldSet,
       Max, Sums!Greatest, SumOp

(* at[i] is the sum of the first i terms.                                  *)
Partial(f, q, n, at) ==
  /\ at[0] = 0
  /\ \A i \in 1 .. n : at[i] = at[i - 1] + f[q[i]]

LEMMA SumSteps ==
  ASSUME NEW f, NEW q, NEW n \in Nat, DOMAIN q = 1 .. n
  PROVE  \E at : Partial(f, q, n, at) /\ SumOf(f, q) = at[n]
<1>1. PICK at : Sums!Steps(f, 0, q, n, at) /\ Sums!Folded(f, 0, q) = at[n]
  BY Sums!FoldSteps
<1> QED
  BY <1>1, SumFolded DEF Sums!Steps, SumOp, Partial

(* The partial sums of natural numbers are natural numbers.                *)
LEMMA PartialSums ==
  ASSUME NEW f, NEW q, NEW n \in Nat, NEW at, Partial(f, q, n, at),
         \A i \in 1 .. n : f[q[i]] \in Nat
  PROVE  \A i \in 0 .. n : at[i] \in Nat
<1> DEFINE K == {i \in Nat : i <= n => at[i] \in Nat}
<1>1. 0 \in K
  BY DEF Partial
<1>2. ASSUME NEW i \in Nat, i \in K PROVE i + 1 \in K
  <2>1. CASE i + 1 <= n
    <3>1. i + 1 \in 1 .. n /\ (i + 1) - 1 = i
      BY <2>1
    <3>2. at[i + 1] = at[i] + f[q[i + 1]] /\ f[q[i + 1]] \in Nat
      BY <3>1 DEF Partial
    <3>3. at[i] \in Nat
      BY <1>2, <2>1
    <3> QED BY <3>2, <3>3
  <2> QED BY <2>1
<1>3. Nat \subseteq K
  <2> HIDE DEF K
  <2> QED BY <1>1, <1>2, Sums!SetInduction
<1> QED
  BY <1>3

LEMMA SumNat ==
  ASSUME NEW f, NEW q, NEW n \in Nat, DOMAIN q = 1 .. n, \A i \in 1 .. n : f[q[i]] \in Nat
  PROVE  SumOf(f, q) \in Nat
<1>1. PICK at : Partial(f, q, n, at) /\ SumOf(f, q) = at[n]
  BY SumSteps
<1>2. \A i \in 0 .. n : at[i] \in Nat
  BY <1>1, PartialSums
<1> QED
  BY <1>1, <1>2

(* Two sums over lists of the same length whose terms agree up to n.       *)
SameTerms(f, p, g, q, n) == \A i \in 1 .. n : f[p[i]] = g[q[i]]

LEMMA SumsAgree ==
  ASSUME NEW f, NEW p, NEW g, NEW q, NEW n \in Nat, NEW at, NEW bt,
         Partial(f, p, n, at), Partial(g, q, n, bt), SameTerms(f, p, g, q, n)
  PROVE  \A i \in 0 .. n : at[i] = bt[i]
<1> DEFINE K == {i \in Nat : i <= n => at[i] = bt[i]}
<1>1. 0 \in K
  BY DEF Partial
<1>2. ASSUME NEW i \in Nat, i \in K PROVE i + 1 \in K
  <2>1. CASE i + 1 <= n
    <3>1. i + 1 \in 1 .. n /\ (i + 1) - 1 = i
      BY <2>1
    <3>2. /\ at[i + 1] = at[i] + f[p[i + 1]]
          /\ bt[i + 1] = bt[i] + g[q[i + 1]]
          /\ f[p[i + 1]] = g[q[i + 1]]
      BY <3>1 DEF Partial, SameTerms
    <3>3. at[i] = bt[i]
      BY <1>2, <2>1
    <3> QED BY <3>2, <3>3
  <2> QED BY <2>1
<1>3. Nat \subseteq K
  <2> HIDE DEF K
  <2> QED BY <1>1, <1>2, Sums!SetInduction
<1> QED
  BY <1>3

LEMMA SumSame ==
  ASSUME NEW f, NEW g, NEW q, NEW n \in Nat, DOMAIN q = 1 .. n,
         \A i \in 1 .. n : f[q[i]] = g[q[i]]
  PROVE  SumOf(f, q) = SumOf(g, q)
<1>1. PICK at : Partial(f, q, n, at) /\ SumOf(f, q) = at[n]
  BY SumSteps
<1>2. PICK bt : Partial(g, q, n, bt) /\ SumOf(g, q) = bt[n]
  BY SumSteps
<1>3. SameTerms(f, q, g, q, n)
  BY DEF SameTerms
<1>4. \A i \in 0 .. n : at[i] = bt[i]
  BY <1>1, <1>2, <1>3, SumsAgree
<1> QED
  BY <1>1, <1>2, <1>4

(* One more term.                                                          *)
LEMMA SumAppend ==
  ASSUME NEW S, NEW f, NEW q \in Seq(S), NEW r \in S
  PROVE  SumOf(f, Append(q, r)) = SumOf(f, q) + f[r]
<1>1. PICK n : n = Len(q)
  OBVIOUS
<1>2. PICK p : p = Append(q, r)
  OBVIOUS
<1>3. /\ n \in Nat /\ n + 1 \in Nat /\ DOMAIN q = 1 .. n /\ DOMAIN p = 1 .. n + 1
      /\ p[n + 1] = r /\ \A i \in 1 .. n : p[i] = q[i]
  BY <1>1, <1>2
<1>4. PICK at : Partial(f, q, n, at) /\ SumOf(f, q) = at[n]
  BY <1>3, SumSteps
<1>5. PICK bt : Partial(f, p, n + 1, bt) /\ SumOf(f, p) = bt[n + 1]
  BY <1>3, SumSteps
<1>6. Partial(f, p, n, bt) /\ SameTerms(f, q, f, p, n)
  BY <1>3, <1>5 DEF Partial, SameTerms
<1>7. \A i \in 0 .. n : at[i] = bt[i]
  BY <1>3, <1>4, <1>6, SumsAgree
<1>8. n + 1 \in 1 .. n + 1 /\ (n + 1) - 1 = n /\ n \in 0 .. n
  BY <1>3
<1>9. bt[n + 1] = bt[n] + f[r]
  BY <1>3, <1>5, <1>8 DEF Partial
<1> QED
  BY <1>2, <1>4, <1>5, <1>7, <1>8, <1>9

(* All requests, in a list.                                                *)
Ids == [r \in Requests |-> r]

(* What is held in all changes by what one request's share changes.        *)
LEMMA SumChange ==
  ASSUME NEW f \in [Requests -> Nat], NEW r \in Requests, NEW v \in Nat
  PROVE  /\ SumOf(f, Ids) \in Nat
         /\ SumOf([f EXCEPT ![r] = v], Ids) \in Nat
         /\ SumOf([f EXCEPT ![r] = v], Ids) + f[r] = SumOf(f, Ids) + v
<1> DEFINE n == MaxRequests
<1>0. /\ n \in Nat /\ DOMAIN Ids = 1 .. n /\ \A i \in 1 .. n : Ids[i] = i
      /\ Requests = 1 .. n
  BY ServingAssumption DEF Ids, Requests
<1>1. PICK g : g = [f EXCEPT ![r] = v]
  OBVIOUS
<1>2. g \in [Requests -> Nat] /\ g[r] = v /\ \A i \in Requests : i # r => g[i] = f[i]
  BY <1>1
<1> HIDE DEF n
<1>3. PICK at : Partial(f, Ids, n, at) /\ SumOf(f, Ids) = at[n]
  BY <1>0, SumSteps
<1>4. PICK bt : Partial(g, Ids, n, bt) /\ SumOf(g, Ids) = bt[n]
  BY <1>0, SumSteps
<1>5. \A i \in 1 .. n : f[Ids[i]] \in Nat /\ g[Ids[i]] \in Nat
  BY <1>0, <1>2
<1>6. \A i \in 0 .. n : at[i] \in Nat /\ bt[i] \in Nat
  BY <1>0, <1>3, <1>4, <1>5, PartialSums
<1> DEFINE K == {i \in Nat : i <= n => IF i < r THEN bt[i] = at[i]
                                       ELSE bt[i] + f[r] = at[i] + v}
<1>7. 0 \in K
  BY <1>0, <1>3, <1>4 DEF Partial
<1>8. ASSUME NEW i \in Nat, i \in K PROVE i + 1 \in K
  <2>1. CASE i + 1 <= n
    <3>1. i + 1 \in 1 .. n /\ (i + 1) - 1 = i /\ i \in 0 .. n /\ i + 1 \in 0 .. n
      BY <2>1, <1>0
    <3>2. at[i + 1] = at[i] + f[i + 1] /\ bt[i + 1] = bt[i] + g[i + 1]
      BY <3>1, <1>0, <1>3, <1>4 DEF Partial
    <3>3. at[i] \in Nat /\ bt[i] \in Nat /\ f[i + 1] \in Nat /\ g[i + 1] \in Nat
      BY <3>1, <1>0, <1>2, <1>6
    <3>4. IF i < r THEN bt[i] = at[i] ELSE bt[i] + f[r] = at[i] + v
      BY <1>8, <2>1, <1>0
    <3>5. r \in Nat /\ f[r] \in Nat /\ v \in Nat
      BY <1>0
    <3>6. CASE i + 1 < r
      <4>1. g[i + 1] = f[i + 1]
        BY <3>6, <3>1, <1>0, <1>2
      <4> QED BY <4>1, <3>2, <3>4, <3>5, <3>6
    <3>7. CASE i + 1 = r
      BY <3>7, <3>2, <3>3, <3>4, <3>5, <1>2
    <3>8. CASE i + 1 > r
      <4>1. g[i + 1] = f[i + 1]
        BY <3>8, <3>1, <1>0, <1>2
      <4> QED BY <4>1, <3>2, <3>3, <3>4, <3>5, <3>8
    <3> QED BY <3>5, <3>6, <3>7, <3>8
  <2> QED BY <2>1, <1>0
<1>9. Nat \subseteq K
  <2> HIDE DEF K
  <2> QED BY <1>7, <1>8, Sums!SetInduction
<1>10. bt[n] + f[r] = at[n] + v
  <2>1. n \in K /\ ~(n < r) /\ n <= n
    BY <1>0, <1>9
  <2> QED BY <2>1
<1> QED
  BY <1>0, <1>1, <1>3, <1>4, <1>6, <1>10

-----------------------------------------------------------------------------
(* The invariant, as a property of the record of a handler's fields.  What *)
(* a handler does not change is c: c.known, the requests submitted so far, *)
(* c.prompt, their prompt lengths, and c.phase.                            *)

Shape(s) ==
  s = [state |-> s.state, prompt |-> s.prompt, session |-> s.session, tokens |-> s.tokens,
       waiting |-> s.waiting, prefilling |-> s.prefilling, active |-> s.active,
       finishedCnt |-> s.finishedCnt, pool |-> s.pool, busy |-> s.busy, events |-> s.events,
       nextTurns |-> s.nextTurns, inFlight |-> s.inFlight, admitOpen |-> s.admitOpen,
       sess |-> s.sess]

Statuses == {"NEW", "WAITING", "PREFILL", "DECODE", "FINISHED", "REJECTED"}

(* The requests that are not new are those known, and only they are queued.*)
QueuesSound(c, s) ==
  /\ s.state \in [Requests -> Statuses]
  /\ {r \in Requests : s.state[r] # "NEW"} = c.known
  /\ s.waiting \in Seq(c.known)
  /\ s.prefilling \in Seq(c.known)
  /\ Len(s.prefilling) <= MaxPrefilling
  /\ s.active \in Seq(c.known)

PoolSound(p) ==
  /\ p \in [free : Nat, held : [Requests -> Nat]]
  /\ p.free + SumOf(p.held, Ids) <= Capacity

(* A batch of known requests; a prefill within its budget.                 *)
WithinBudget(c, reqs) == Len(reqs) = 1 \/ SumOf(c.prompt, reqs) <= MaxPrefillTokens

BatchSound(c, kind, reqs) ==
  /\ kind \in {"PREFILL", "DECODE"}
  /\ reqs \in Seq(c.known)
  /\ kind = "PREFILL" => WithinBudget(c, reqs)

Awaited(evts) == UNION {ToSet(e.reqs) : e \in {f \in evts : f.on = "COMPLETE"}}

EventsSound(c, s) ==
  /\ \A e \in s.events : BatchSound(c, e.kind, e.reqs)
  /\ c.phase = "run" => s.busy \subseteq Awaited(s.events)

Context(c) == c.known \subseteq Requests /\ c.prompt \in [Requests -> Nat]

Good(c, s) ==
  /\ Context(c) /\ Shape(s) /\ s.prompt = c.prompt
  /\ QueuesSound(c, s)
  /\ PoolSound(s.pool)
  /\ EventsSound(c, s)

-----------------------------------------------------------------------------
(* The KV pool.                                                            *)

LEMMA PoolTakesPrefill ==
  ASSUME NEW p, PoolSound(p), NEW r \in Requests, NEW n \in Nat, Pool!PrefillFits(p, n)
  PROVE  PoolSound(Pool!TakePrefill(p, r, n))
<1>1. p.free \in Nat /\ p.held \in [Requests -> Nat] /\ n <= p.free /\ p.held[r] \in Nat
  BY DEF PoolSound, Pool!PrefillFits
<1>2. PICK h : h = [p.held EXCEPT ![r] = n]
  OBVIOUS
<1>3. /\ SumOf(p.held, Ids) \in Nat /\ SumOf(h, Ids) \in Nat
      /\ SumOf(h, Ids) + p.held[r] = SumOf(p.held, Ids) + n
  BY <1>1, <1>2, SumChange
<1>4. h \in [Requests -> Nat] /\ p.free - n \in Nat
  BY <1>1, <1>2
<1>5. (p.free - n) + SumOf(h, Ids) <= Capacity
  BY <1>1, <1>3, ServingAssumption DEF PoolSound
<1> QED
  BY <1>2, <1>4, <1>5 DEF PoolSound, Pool!TakePrefill

LEMMA PoolTakesDecode ==
  ASSUME NEW p, PoolSound(p), NEW r \in Requests, Pool!DecodeFits(p)
  PROVE  PoolSound(Pool!TakeDecode(p, r))
<1>1. p.free \in Nat /\ p.held \in [Requests -> Nat] /\ p.free > 0 /\ p.held[r] \in Nat
  BY DEF PoolSound, Pool!DecodeFits
<1>2. PICK h : h = [p.held EXCEPT ![r] = p.held[r] + 1]
  OBVIOUS
<1>3. /\ SumOf(p.held, Ids) \in Nat /\ SumOf(h, Ids) \in Nat
      /\ SumOf(h, Ids) + p.held[r] = SumOf(p.held, Ids) + (p.held[r] + 1)
  BY <1>1, <1>2, SumChange
<1>4. h \in [Requests -> Nat] /\ p.free - 1 \in Nat
  BY <1>1, <1>2
<1>5. (p.free - 1) + SumOf(h, Ids) <= Capacity
  BY <1>1, <1>3, ServingAssumption DEF PoolSound
<1> QED
  BY <1>2, <1>4, <1>5 DEF PoolSound, Pool!TakeDecode

LEMMA PoolReleases ==
  ASSUME NEW p, PoolSound(p), NEW r \in Requests
  PROVE  PoolSound(Pool!Release(p, r))
<1>1. p.free \in Nat /\ p.held \in [Requests -> Nat] /\ p.held[r] \in Nat
  BY DEF PoolSound
<1>2. PICK h : h = [p.held EXCEPT ![r] = 0]
  OBVIOUS
<1>3. /\ SumOf(p.held, Ids) \in Nat /\ SumOf(h, Ids) \in Nat
      /\ SumOf(h, Ids) + p.held[r] = SumOf(p.held, Ids) + 0
  BY <1>1, <1>2, SumChange
<1>4. h \in [Requests -> Nat] /\ p.free + p.held[r] \in Nat
  BY <1>1, <1>2
<1>5. (p.free + p.held[r]) + SumOf(h, Ids) <= Capacity
  BY <1>1, <1>3, ServingAssumption DEF PoolSound
<1> QED
  BY <1>2, <1>4, <1>5 DEF PoolSound, Pool!Release

LEMMA BlocksNat == ASSUME NEW len \in Nat PROVE BlocksPerChip(len) \in Nat
BY SizesAssumption DEF BlocksPerChip, BlocksNeeded, AtLeastOne

(* The blocks of a batch, whichever of its requests find room.             *)
AllocOp(c, x, r) ==
  IF c.kind = "PREFILL" THEN AllocPrefill(c.s, x, r) ELSE AllocDecode(c.s, x, r)

AllocKeep(c, x) == x = [pool |-> x.pool, ok |-> x.ok] /\ PoolSound(x.pool)

Allocs == INSTANCE FoldTheory WITH Op <- AllocOp, Keep <- AllocKeep

LEMMA AllocSound ==
  ASSUME NEW s, PoolSound(s.pool), s.prompt \in [Requests -> Nat],
         NEW kind, NEW reqs \in Seq(Requests)
  PROVE  PoolSound(Alloc(s, kind, reqs).pool)
<1> DEFINE c == [s |-> s, kind |-> kind]
           base == [pool |-> s.pool, ok |-> TRUE]
<1>1. Alloc(s, kind, reqs) = Allocs!Folded(c, base, reqs)
  BY DEF Alloc, Allocs!Folded, FoldLeft, MapThenFoldSet, Allocs!MapThenFoldSet,
         Max, Allocs!Greatest, AllocOp
<1>2. AllocKeep(c, base)
  BY DEF AllocKeep
<1>3. ASSUME NEW x, NEW r \in Requests, AllocKeep(c, x)
      PROVE  AllocKeep(c, AllocOp(c, x, r))
  <2>1. PICK y : y = AllocOp(c, x, r)
    OBVIOUS
  <2>2. BlocksPerChip(s.prompt[r]) \in Nat
    BY BlocksNat
  <2>3. CASE kind = "PREFILL"
    <3>1. y = AllocPrefill(s, x, r)
      BY <2>1, <2>3 DEF AllocOp
    <3>2. CASE x.ok /\ Pool!PrefillFits(x.pool, BlocksPerChip(s.prompt[r]))
      <4>1. y = [x EXCEPT !.pool = Pool!TakePrefill(x.pool, r, BlocksPerChip(s.prompt[r]))]
        BY <3>1, <3>2 DEF AllocPrefill
      <4>2. PoolSound(Pool!TakePrefill(x.pool, r, BlocksPerChip(s.prompt[r])))
        BY <3>2, <2>2, <1>3, PoolTakesPrefill DEF AllocKeep
      <4> QED BY <4>1, <4>2, <2>1, <1>3 DEF AllocKeep
    <3>3. CASE ~(x.ok /\ Pool!PrefillFits(x.pool, BlocksPerChip(s.prompt[r])))
      <4>1. y = [x EXCEPT !.ok = FALSE]
        BY <3>1, <3>3 DEF AllocPrefill
      <4> QED BY <4>1, <2>1, <1>3 DEF AllocKeep
    <3> QED BY <3>2, <3>3
  <2>4. CASE kind # "PREFILL"
    <3>1. y = AllocDecode(s, x, r)
      BY <2>1, <2>4 DEF AllocOp
    <3>2. CASE x.ok /\ StartsBlock(s.tokens[r]) /\ Pool!DecodeFits(x.pool)
      <4>1. y = [x EXCEPT !.pool = Pool!TakeDecode(x.pool, r)]
        BY <3>1, <3>2 DEF AllocDecode
      <4>2. PoolSound(Pool!TakeDecode(x.pool, r))
        BY <3>2, <1>3, PoolTakesDecode DEF AllocKeep
      <4> QED BY <4>1, <4>2, <2>1, <1>3 DEF AllocKeep
    <3>3. CASE ~(x.ok /\ StartsBlock(s.tokens[r]) /\ Pool!DecodeFits(x.pool))
      <4>1. y = x \/ y = [x EXCEPT !.ok = FALSE]
        BY <3>1, <3>3 DEF AllocDecode
      <4> QED BY <4>1, <2>1, <1>3 DEF AllocKeep
    <3> QED BY <3>2, <3>3
  <2> QED BY <2>3, <2>4
<1>4. /\ Len(reqs) \in Nat /\ DOMAIN reqs = 1 .. Len(reqs)
      /\ \A i \in 1 .. Len(reqs) : reqs[i] \in Requests
  OBVIOUS
<1>5. AllocKeep(c, Allocs!Folded(c, base, reqs))
  <2> HIDE DEF c, base
  <2>1. \A x, i : i \in 1 .. Len(reqs) /\ AllocKeep(c, x) => AllocKeep(c, AllocOp(c, x, reqs[i]))
    BY <1>3, <1>4
  <2> QED BY <1>2, <1>4, <2>1, Allocs!FoldKeeps
<1> QED
  BY <1>1, <1>5 DEF AllocKeep

-----------------------------------------------------------------------------
(* The queues.                                                             *)

LEMMA SeqAppend ==
  ASSUME NEW S, NEW q \in Seq(S), NEW r \in S
  PROVE  Append(q, r) \in Seq(S) /\ Len(Append(q, r)) = Len(q) + 1 /\ Len(q) \in Nat
OBVIOUS

LEMMA SeqConcat ==
  ASSUME NEW S, NEW p \in Seq(S), NEW q \in Seq(S)
  PROVE  p \o q \in Seq(S) /\ Len(p \o q) = Len(p) + Len(q)
OBVIOUS

LEMMA RemoveFirstSound ==
  ASSUME NEW S, NEW q \in Seq(S), NEW r
  PROVE  RemoveFirst(q, r) \in Seq(S) /\ Len(RemoveFirst(q, r)) <= Len(q)
<1>1. CASE \E i \in 1 .. Len(q) : q[i] = r
  <2> DEFINE I == {i \in 1 .. Len(q) : q[i] = r}
  <2>1. PICK k : k = SelectInSeq(q, LAMBDA v : v = r)
    OBVIOUS
  <2>2. RemoveFirst(q, r) = SubSeq(q, 1, k - 1) \o SubSeq(q, k + 1, Len(q))
    BY <1>1, <2>1 DEF RemoveFirst, RemoveAt
  <2>3. k = Min(I) /\ I # {}
    BY <1>1, <2>1 DEF SelectInSeq
  <2>4. I \subseteq Nat
    OBVIOUS
  <2>5. k \in I
    <3> HIDE DEF I
    <3>1. \E x \in I : \A y \in I : x <= y
      BY <2>3, <2>4, Sums!LeastNumber
    <3> QED BY <2>3, <3>1 DEF Min
  <2>6. k \in 1 .. Len(q)
    BY <2>5
  <2>7. /\ SubSeq(q, 1, k - 1) \in Seq(S) /\ Len(SubSeq(q, 1, k - 1)) = k - 1
        /\ SubSeq(q, k + 1, Len(q)) \in Seq(S)
        /\ Len(SubSeq(q, k + 1, Len(q))) = Len(q) - k
    BY <2>6
  <2>8. PICK front, back : /\ front = SubSeq(q, 1, k - 1)
                           /\ back = SubSeq(q, k + 1, Len(q))
    OBVIOUS
  <2>9. front \o back \in Seq(S) /\ Len(front \o back) = Len(front) + Len(back)
    BY <2>7, <2>8, SeqConcat
  <2>10. Len(q) \in Nat /\ Len(front) = k - 1 /\ Len(back) = Len(q) - k
    BY <2>7, <2>8
  <2>11. RemoveFirst(q, r) = front \o back
    BY <2>2, <2>8
  <2> QED BY <2>6, <2>9, <2>10, <2>11
<1>2. CASE ~(\E i \in 1 .. Len(q) : q[i] = r)
  BY <1>2 DEF RemoveFirst
<1> QED BY <1>1, <1>2

RemoveOp(c, q, r) == RemoveFirst(q, r)

RemoveKeep(c, q) == q \in Seq(c.set) /\ Len(q) <= c.len

Removals == INSTANCE FoldTheory WITH Op <- RemoveOp, Keep <- RemoveKeep

LEMMA RemoveAllSound ==
  ASSUME NEW S, NEW q \in Seq(S), NEW R, NEW reqs \in Seq(R)
  PROVE  /\ FoldLeft(RemoveFirst, q, reqs) \in Seq(S)
         /\ Len(FoldLeft(RemoveFirst, q, reqs)) <= Len(q)
<1> DEFINE c == [set |-> S, len |-> Len(q)]
<1>1. FoldLeft(RemoveFirst, q, reqs) = Removals!Folded(c, q, reqs)
  BY DEF Removals!Folded, FoldLeft, MapThenFoldSet, Removals!MapThenFoldSet,
         Max, Removals!Greatest, RemoveOp
<1>2. RemoveKeep(c, q)
  BY DEF RemoveKeep
<1>3. ASSUME NEW p, NEW r, RemoveKeep(c, p) PROVE RemoveKeep(c, RemoveOp(c, p, r))
  <2>1. p \in Seq(S) /\ Len(p) <= Len(q)
    BY <1>3 DEF RemoveKeep
  <2>2. RemoveFirst(p, r) \in Seq(S) /\ Len(RemoveFirst(p, r)) <= Len(p)
    BY <2>1, RemoveFirstSound
  <2> QED BY <2>1, <2>2 DEF RemoveKeep, RemoveOp
<1>4. Len(reqs) \in Nat /\ DOMAIN reqs = 1 .. Len(reqs)
  OBVIOUS
<1>5. RemoveKeep(c, Removals!Folded(c, q, reqs))
  <2> HIDE DEF c
  <2> QED BY <1>2, <1>3, <1>4, Removals!FoldKeeps
<1> QED
  BY <1>1, <1>5 DEF RemoveKeep

LEMMA PutBackSound ==
  ASSUME NEW c, NEW s, Good(c, s), NEW reqs \in Seq(c.known)
  PROVE  /\ Good(c, PutBack(s, reqs))
         /\ PutBack(s, reqs).events = s.events /\ PutBack(s, reqs).busy = s.busy
<1>1. PICK t : t = PutBack(s, reqs)
  OBVIOUS
<1>2. PICK pf : pf = FoldLeft(RemoveFirst, s.prefilling, reqs)
  OBVIOUS
<1>3. pf \in Seq(c.known) /\ Len(pf) <= Len(s.prefilling)
  BY <1>2, RemoveAllSound DEF Good, QueuesSound
<1>4. PICK st : st = [r \in Requests |-> IF r \in ToSet(reqs) THEN "WAITING" ELSE s.state[r]]
  OBVIOUS
<1>5. PICK wa : wa = Reverse(reqs) \o s.waiting
  OBVIOUS
<1>6. t = [[s EXCEPT !.state = st, !.prefilling = pf] EXCEPT !.waiting = wa]
  <2>1. PICK u : u = [s EXCEPT !.state = st, !.prefilling = pf]
    OBVIOUS
  <2>2. u.waiting = s.waiting
    BY <2>1 DEF Good, Shape
  <2>3. t = ToFront(u, reqs)
    BY <1>1, <1>2, <1>4, <2>1 DEF PutBack
  <2> QED BY <2>1, <2>2, <2>3, <1>5 DEF ToFront
<1>7. /\ Shape(t) /\ t.state = st /\ t.prefilling = pf /\ t.waiting = wa
      /\ t.active = s.active /\ t.prompt = s.prompt /\ t.pool = s.pool
      /\ t.events = s.events /\ t.busy = s.busy
  BY <1>6 DEF Good, Shape
<1>8. wa \in Seq(c.known)
  <2>1. PICK n : n = Len(reqs)
    OBVIOUS
  <2>2. n \in Nat /\ \A i \in 1 .. n : reqs[i] \in c.known
    BY <2>1
  <2>3. \A i \in 1 .. n : (n - i) + 1 \in 1 .. n
    BY <2>2
  <2>4. PICK rev : rev = [i \in 1 .. n |-> reqs[(n - i) + 1]]
    OBVIOUS
  <2>5. rev \in [1 .. n -> c.known]
    BY <2>2, <2>3, <2>4
  <2>6. rev \in Seq(c.known)
    BY <2>2, <2>5
  <2>7. rev = Reverse(reqs)
    BY <2>1, <2>4 DEF Reverse
  <2>8. s.waiting \in Seq(c.known)
    BY DEF Good, QueuesSound
  <2> QED BY <2>6, <2>7, <2>8, <1>5, SeqConcat
<1>9. ToSet(reqs) \subseteq c.known
  BY DEF ToSet
<1>10. st \in [Requests -> Statuses] /\ {r \in Requests : st[r] # "NEW"} = c.known
  BY <1>4, <1>9 DEF Good, QueuesSound, Statuses, Context
<1>11. QueuesSound(c, t)
  <2>1. Len(pf) \in Nat /\ Len(s.prefilling) \in Nat /\ MaxPrefilling \in Nat
        /\ Len(s.prefilling) <= MaxPrefilling
    BY <1>3, ServingAssumption DEF Good, QueuesSound
  <2>2. Len(pf) <= MaxPrefilling
    BY <1>3, <2>1
  <2> QED BY <2>2, <1>3, <1>7, <1>8, <1>10 DEF QueuesSound, Good
<1>12. EventsSound(c, t)
  BY <1>7 DEF Good, EventsSound
<1>13. Good(c, t)
  BY <1>7, <1>11, <1>12 DEF Good
<1> QED
  BY <1>1, <1>7, <1>13

(* _admit_waiting keeps the invariant; what it admits was waiting.         *)
AdmitOp(c, a, r) == AdmitOne(a, r)

AdmitKeep(c, a) ==
  /\ a = [s |-> a.s, admitted |-> a.admitted]
  /\ Good(c, a.s) /\ a.admitted \in Seq(c.known)

Admissions == INSTANCE FoldTheory WITH Op <- AdmitOp, Keep <- AdmitKeep

(* What the updates of a record within a record are.                       *)
LEMMA AdmitRecords ==
  ASSUME NEW a, a = [s |-> a.s, admitted |-> a.admitted], Shape(a.s), NEW r, NEW b
  PROVE  /\ b = [a EXCEPT !.s.waiting = Append(@, r)]
              => b = [s |-> [a.s EXCEPT !.waiting = Append(a.s.waiting, r)],
                      admitted |-> a.admitted]
         /\ b = [a EXCEPT !.s.state[r] = "PREFILL",
                          !.s.prefilling = Append(@, r),
                          !.admitted = Append(@, r)]
              => b = [s |-> [a.s EXCEPT !.state = [a.s.state EXCEPT ![r] = "PREFILL"],
                                        !.prefilling = Append(a.s.prefilling, r)],
                      admitted |-> Append(a.admitted, r)]
         /\ b = [a EXCEPT !.s.state[r] = "REJECTED"]
              => b = [s |-> [a.s EXCEPT !.state = [a.s.state EXCEPT ![r] = "REJECTED"]],
                      admitted |-> a.admitted]
<1>1. b = [a EXCEPT !.s.waiting = Append(@, r)]
        => b = [s |-> [a.s EXCEPT !.waiting = Append(a.s.waiting, r)],
                admitted |-> a.admitted]
  BY DEF Shape
<1>2. b = [a EXCEPT !.s.state[r] = "PREFILL",
                    !.s.prefilling = Append(@, r),
                    !.admitted = Append(@, r)]
        => b = [s |-> [a.s EXCEPT !.state = [a.s.state EXCEPT ![r] = "PREFILL"],
                                  !.prefilling = Append(a.s.prefilling, r)],
                admitted |-> Append(a.admitted, r)]
  BY DEF Shape
<1>3. b = [a EXCEPT !.s.state[r] = "REJECTED"]
        => b = [s |-> [a.s EXCEPT !.state = [a.s.state EXCEPT ![r] = "REJECTED"]],
                admitted |-> a.admitted]
  BY DEF Shape
<1> QED
  BY <1>1, <1>2, <1>3

LEMMA AdmitOneSound ==
  ASSUME NEW c, NEW a, AdmitKeep(c, a), NEW r \in c.known
  PROVE  AdmitKeep(c, AdmitOne(a, r))
<1>1. PICK s : s = a.s
  OBVIOUS
<1>2. PICK b : b = AdmitOne(a, r)
  OBVIOUS
<1>3. Good(c, s) /\ a = [s |-> s, admitted |-> a.admitted] /\ a.admitted \in Seq(c.known)
  BY <1>1 DEF AdmitKeep
<1>0. Shape(a.s) /\ a = [s |-> a.s, admitted |-> a.admitted]
  BY DEF AdmitKeep, Good
<1>4. /\ MaxPrefilling \in Nat /\ Len(s.prefilling) \in Nat /\ r \in Requests
      /\ s.prefilling \in Seq(c.known) /\ s.waiting \in Seq(c.known)
  BY <1>3, ServingAssumption DEF Good, QueuesSound, Context
<1>5. CASE Len(s.prefilling) >= MaxPrefilling
  <2>1. b = [a EXCEPT !.s.waiting = Append(@, r)]
    BY <1>1, <1>2, <1>5 DEF AdmitOne
  <2>2. /\ b = [s |-> b.s, admitted |-> b.admitted] /\ b.admitted = a.admitted
        /\ b.s = [s EXCEPT !.waiting = Append(s.waiting, r)]
    BY <2>1, <1>0, <1>1, AdmitRecords
  <2>3. PICK t : t = b.s
    OBVIOUS
  <2>4. /\ Shape(t) /\ t.state = s.state /\ t.prefilling = s.prefilling
        /\ t.waiting = Append(s.waiting, r) /\ t.active = s.active /\ t.prompt = s.prompt
        /\ t.pool = s.pool /\ t.events = s.events /\ t.busy = s.busy
    BY <2>2, <2>3, <1>3 DEF Good, Shape
  <2>5. QueuesSound(c, t)
    <3>1. t.waiting \in Seq(c.known)
      BY <2>4, <1>4, SeqAppend
    <3> QED BY <3>1, <2>4, <1>3 DEF Good, QueuesSound
  <2>6. Good(c, t)
    BY <2>4, <2>5, <1>3 DEF Good, EventsSound
  <2>7. b.admitted \in Seq(c.known) /\ Good(c, b.s)
    BY <2>2, <2>3, <2>6, <1>3
  <2>8. AdmitKeep(c, b)
    BY <2>2, <2>7 DEF AdmitKeep
  <2> QED BY <2>8, <1>2
<1>6. CASE Len(s.prefilling) < MaxPrefilling /\ HasRoom(s, r)
  <2>1. b = [a EXCEPT !.s.state[r] = "PREFILL",
                      !.s.prefilling = Append(@, r),
                      !.admitted = Append(@, r)]
    <3>1. ~(Len(s.prefilling) >= MaxPrefilling)
      BY <1>6, <1>4
    <3> QED BY <1>1, <1>2, <1>6, <3>1 DEF AdmitOne
  <2>2. /\ b = [s |-> b.s, admitted |-> b.admitted] /\ b.admitted = Append(a.admitted, r)
        /\ b.s = [s EXCEPT !.state = [s.state EXCEPT ![r] = "PREFILL"],
                           !.prefilling = Append(s.prefilling, r)]
    BY <2>1, <1>0, <1>1, AdmitRecords
  <2>3. PICK t : t = b.s
    OBVIOUS
  <2>4. /\ Shape(t) /\ t.state = [s.state EXCEPT ![r] = "PREFILL"]
        /\ t.prefilling = Append(s.prefilling, r)
        /\ t.waiting = s.waiting /\ t.active = s.active /\ t.prompt = s.prompt
        /\ t.pool = s.pool /\ t.events = s.events /\ t.busy = s.busy
    BY <2>2, <2>3, <1>3 DEF Good, Shape
  <2>5. t.state \in [Requests -> Statuses] /\ {p \in Requests : t.state[p] # "NEW"} = c.known
    BY <2>4, <1>3, <1>4 DEF Good, QueuesSound, Statuses
  <2>6. t.prefilling \in Seq(c.known) /\ Len(t.prefilling) <= MaxPrefilling
    <3>1. PICK q : q = s.prefilling
      OBVIOUS
    <3>2. q \in Seq(c.known) /\ Append(q, r) \in Seq(c.known)
          /\ Len(Append(q, r)) = Len(q) + 1
      BY <3>1, <1>4, SeqAppend
    <3> QED BY <3>1, <3>2, <2>4, <1>4, <1>6
  <2>7. QueuesSound(c, t)
    BY <2>4, <2>5, <2>6, <1>3 DEF Good, QueuesSound
  <2>8. Good(c, t)
    BY <2>4, <2>7, <1>3 DEF Good, EventsSound
  <2>9. b.admitted \in Seq(c.known)
    <3>1. PICK q : q = a.admitted
      OBVIOUS
    <3>2. q \in Seq(c.known)
      BY <3>1, <1>3
    <3>3. Append(q, r) \in Seq(c.known)
      BY <3>2, SeqAppend
    <3> QED BY <3>1, <3>3, <2>2
  <2>10. AdmitKeep(c, b)
    <3>1. Good(c, b.s)
      BY <2>3, <2>8
    <3> QED BY <2>2, <2>9, <3>1 DEF AdmitKeep
  <2> QED BY <2>10, <1>2
<1>7. CASE Len(s.prefilling) < MaxPrefilling /\ ~HasRoom(s, r)
  <2>1. b = [a EXCEPT !.s.state[r] = "REJECTED"]
    <3>1. ~(Len(s.prefilling) >= MaxPrefilling)
      BY <1>7, <1>4
    <3> QED BY <1>1, <1>2, <1>7, <3>1 DEF AdmitOne
  <2>2. /\ b = [s |-> b.s, admitted |-> b.admitted] /\ b.admitted = a.admitted
        /\ b.s = [s EXCEPT !.state = [s.state EXCEPT ![r] = "REJECTED"]]
    BY <2>1, <1>0, <1>1, AdmitRecords
  <2>3. PICK t : t = b.s
    OBVIOUS
  <2>4. /\ Shape(t) /\ t.state = [s.state EXCEPT ![r] = "REJECTED"]
        /\ t.prefilling = s.prefilling
        /\ t.waiting = s.waiting /\ t.active = s.active /\ t.prompt = s.prompt
        /\ t.pool = s.pool /\ t.events = s.events /\ t.busy = s.busy
    BY <2>2, <2>3, <1>3 DEF Good, Shape
  <2>5. t.state \in [Requests -> Statuses] /\ {p \in Requests : t.state[p] # "NEW"} = c.known
    BY <2>4, <1>3, <1>4 DEF Good, QueuesSound, Statuses
  <2>6. QueuesSound(c, t)
    BY <2>4, <2>5, <1>3 DEF Good, QueuesSound
  <2>7. Good(c, t)
    BY <2>4, <2>6, <1>3 DEF Good, EventsSound
  <2>8. b.admitted \in Seq(c.known) /\ Good(c, b.s)
    BY <2>2, <2>3, <2>7, <1>3
  <2>9. AdmitKeep(c, b)
    BY <2>2, <2>8 DEF AdmitKeep
  <2> QED BY <2>9, <1>2
<1> QED
  BY <1>4, <1>5, <1>6, <1>7

LEMMA AdmitWaitingSound ==
  ASSUME NEW c, NEW s, Good(c, s)
  PROVE  AdmitKeep(c, AdmitWaiting(s))
<1>1. PICK t : t = [s EXCEPT !.waiting = <<>>]
  OBVIOUS
<1>2. PICK base : base = [s |-> t, admitted |-> <<>>]
  OBVIOUS
<1>3. AdmitWaiting(s) = Admissions!Folded(c, base, s.waiting)
  BY <1>1, <1>2 DEF AdmitWaiting, Admissions!Folded, FoldLeft,
     MapThenFoldSet, Admissions!MapThenFoldSet, Max, Admissions!Greatest, AdmitOp
<1>4. /\ Shape(t) /\ t.state = s.state /\ t.prefilling = s.prefilling
      /\ t.waiting = <<>> /\ t.active = s.active /\ t.prompt = s.prompt
      /\ t.pool = s.pool /\ t.events = s.events /\ t.busy = s.busy
  BY <1>1 DEF Good, Shape
<1>5. Good(c, t)
  <2>1. QueuesSound(c, t)
    BY <1>4 DEF Good, QueuesSound
  <2> QED BY <2>1, <1>4 DEF Good, EventsSound
<1>6. AdmitKeep(c, base)
  BY <1>2, <1>5 DEF AdmitKeep
<1>7. s.waiting \in Seq(c.known)
  BY DEF Good, QueuesSound
<1>8. PICK q, n : q = s.waiting /\ n = Len(q)
  OBVIOUS
<1>9. n \in Nat /\ DOMAIN q = 1 .. n /\ \A i \in 1 .. n : q[i] \in c.known
  BY <1>7, <1>8
<1>10. \A a, i : i \in 1 .. n /\ AdmitKeep(c, a) => AdmitKeep(c, AdmitOp(c, a, q[i]))
  BY <1>9, AdmitOneSound DEF AdmitOp
<1>11. AdmitKeep(c, Admissions!Folded(c, base, q))
  BY <1>6, <1>9, <1>10, Admissions!FoldKeeps
<1> QED
  BY <1>3, <1>8, <1>11

-----------------------------------------------------------------------------
(* The batches.                                                            *)

ChooseOp(s, b, r) ==
  IF Fits(s, b, r)
  THEN [b EXCEPT !.in = Append(@, r), !.tokens = @ + s.prompt[r]]
  ELSE [b EXCEPT !.out = Append(@, r)]

(* The batch under choice: the tokens counted are the sum of its prompts.  *)
ChooseShape(b) == b = [in |-> b.in, out |-> b.out, tokens |-> b.tokens]

ChooseKeep(s, b) ==
  /\ ChooseShape(b)
  /\ b.in \in Seq({r \in Requests : s.state[r] # "NEW"})
  /\ b.out \in Seq({r \in Requests : s.state[r] # "NEW"})
  /\ b.tokens = SumOf(s.prompt, b.in) /\ b.tokens <= MaxPrefillTokens

Picks == INSTANCE FoldTheory WITH Op <- ChooseOp, Keep <- ChooseKeep

LEMMA ChooseSound ==
  ASSUME NEW c, NEW s, Good(c, s), NEW b, ChooseKeep(s, b), NEW r \in c.known
  PROVE  ChooseKeep(s, ChooseOp(s, b, r))
<1>1. PICK K : K = c.known
  OBVIOUS
<1>2. {p \in Requests : s.state[p] # "NEW"} = K
  BY <1>1 DEF Good, QueuesSound
<1>3. /\ ChooseShape(b) /\ b.in \in Seq(K) /\ b.out \in Seq(K) /\ r \in K
      /\ b.tokens = SumOf(s.prompt, b.in) /\ b.tokens <= MaxPrefillTokens
  BY <1>1, <1>2 DEF ChooseKeep
<1>4. PICK d : d = ChooseOp(s, b, r)
  OBVIOUS
<1>5. CASE Fits(s, b, r)
  <2>1. d = [b EXCEPT !.in = Append(@, r), !.tokens = @ + s.prompt[r]]
    BY <1>4, <1>5 DEF ChooseOp
  <2>2. /\ ChooseShape(d) /\ d.in = Append(b.in, r) /\ d.out = b.out
        /\ d.tokens = b.tokens + s.prompt[r]
    BY <2>1, <1>3 DEF ChooseShape
  <2>3. d.in \in Seq(K)
    BY <2>2, <1>3, SeqAppend
  <2>4. d.tokens = SumOf(s.prompt, d.in)
    BY <2>2, <1>3, SumAppend
  <2>5. d.tokens <= MaxPrefillTokens
    BY <2>2, <1>5 DEF Fits
  <2> QED BY <2>2, <2>3, <2>4, <2>5, <1>2, <1>3, <1>4 DEF ChooseKeep
<1>6. CASE ~Fits(s, b, r)
  <2>1. d = [b EXCEPT !.out = Append(@, r)]
    BY <1>4, <1>6 DEF ChooseOp
  <2>2. ChooseShape(d) /\ d.in = b.in /\ d.out = Append(b.out, r) /\ d.tokens = b.tokens
    BY <2>1, <1>3 DEF ChooseShape
  <2>3. d.out \in Seq(K)
    BY <2>2, <1>3, SeqAppend
  <2> QED BY <2>2, <2>3, <1>2, <1>3, <1>4 DEF ChooseKeep
<1> QED
  BY <1>5, <1>6

(* The choice of a prefill batch keeps to the budget.                      *)
LEMMA SelectPrefillSound ==
  ASSUME NEW c, NEW s, Good(c, s), NEW admitted \in Seq(c.known), admitted # <<>>,
         NEW b, b = SelectPrefill(s, admitted)
  PROVE  b.in \in Seq(c.known) /\ b.out \in Seq(c.known) /\ WithinBudget(c, b.in)
<1>1. PICK K : K = c.known
  OBVIOUS
<1>2. admitted \in Seq(K) /\ Len(admitted) \in Nat /\ Len(admitted) > 0
  BY <1>1
<1>3. b = SelectPrefill(s, admitted)
  OBVIOUS
<1>4. CASE \A r \in ToSet(admitted) : s.prompt[r] > MaxPrefillTokens
  <2>1. b = [in |-> <<Head(admitted)>>, out |-> Tail(admitted)]
    BY <1>3, <1>4 DEF SelectPrefill
  <2>2. Head(admitted) \in K /\ Tail(admitted) \in Seq(K)
    BY <1>2
  <2>3. <<Head(admitted)>> \in Seq(K) /\ Len(<<Head(admitted)>>) = 1
    BY <2>2
  <2> QED BY <2>1, <2>2, <2>3, <1>1, <1>3 DEF WithinBudget
<1>5. CASE ~(\A r \in ToSet(admitted) : s.prompt[r] > MaxPrefillTokens)
  <2>1. PICK base : base = [in |-> <<>>, out |-> <<>>, tokens |-> 0]
    OBVIOUS
  <2>2. b = Picks!Folded(s, base, admitted)
    BY <1>3, <1>5, <2>1 DEF SelectPrefill, Picks!Folded, FoldLeft,
       MapThenFoldSet, Picks!MapThenFoldSet, Max, Picks!Greatest, ChooseOp
  <2>3. ChooseKeep(s, base)
    <3>1. SumOf(s.prompt, <<>>) = 0
      <4>1. 0 \in Nat /\ DOMAIN <<>> = 1 .. 0
        OBVIOUS
      <4> QED BY <4>1, SumSteps DEF Partial
    <3> QED BY <3>1, <2>1, ServingAssumption DEF ChooseKeep, ChooseShape
  <2>4. PICK n : n = Len(admitted)
    OBVIOUS
  <2>5. n \in Nat /\ DOMAIN admitted = 1 .. n /\ \A i \in 1 .. n : admitted[i] \in K
    BY <1>2, <2>4
  <2>6. \A d, i : i \in 1 .. n /\ ChooseKeep(s, d) => ChooseKeep(s, ChooseOp(s, d, admitted[i]))
    BY <2>5, <1>1, ChooseSound
  <2>7. ChooseKeep(s, b)
    BY <2>2, <2>3, <2>5, <2>6, Picks!FoldKeeps
  <2>8. s.prompt = c.prompt /\ {p \in Requests : s.state[p] # "NEW"} = c.known
    BY DEF Good, QueuesSound
  <2> QED BY <2>7, <2>8, <1>3 DEF ChooseKeep, WithinBudget
<1> QED
  BY <1>4, <1>5

(* A batch that starts is answered: its requests are those of an event.    *)
LEMMA StartedSound ==
  ASSUME NEW c, NEW s, Good(c, s), NEW kind, NEW reqs, BatchSound(c, kind, reqs)
  PROVE  Good(c, Started(s, kind, reqs))
<1>1. PICK t : t = Started(s, kind, reqs)
  OBVIOUS
<1>2. PICK evs : evs = Pushed(s, kind, reqs)
  OBVIOUS
<1>3. PICK fl, ao : /\ fl = IF kind = "PREFILL" THEN s.inFlight + 1 ELSE s.inFlight
                    /\ ao = (s.admitOpen /\ ~(kind = "PREFILL"))
  OBVIOUS
<1>4. t = [s EXCEPT !.busy = s.busy \cup ToSet(reqs), !.events = s.events \cup evs,
                    !.inFlight = fl, !.admitOpen = ao]
  BY <1>1, <1>2, <1>3 DEF Started, Good, Shape
<1>5. /\ Shape(t) /\ t.state = s.state /\ t.prefilling = s.prefilling /\ t.waiting = s.waiting
      /\ t.active = s.active /\ t.prompt = s.prompt /\ t.pool = s.pool
      /\ t.events = s.events \cup evs /\ t.busy = s.busy \cup ToSet(reqs)
  BY <1>4 DEF Good, Shape
<1>6. /\ \A e \in evs : e.kind = kind /\ e.reqs = reqs
      /\ \E e \in evs : e.on = "COMPLETE"
  <2>1. PICK id : id = CHOOSE i \in BatchIds : \A e \in s.events : e.id # i
    OBVIOUS
  <2>2. evs = {Event("COMPLETE", id, kind, reqs)} \cup
              (IF kind = "PREFILL" THEN {Event("READY", id, kind, reqs)} ELSE {})
    BY <1>2, <2>1 DEF Pushed
  <2>3. \A on : /\ Event(on, id, kind, reqs).kind = kind
                /\ Event(on, id, kind, reqs).reqs = reqs
                /\ Event(on, id, kind, reqs).on = on
    BY DEF Event
  <2>4. Event("COMPLETE", id, kind, reqs) \in evs
    BY <2>2
  <2>5. \A e \in evs : e = Event("COMPLETE", id, kind, reqs) \/ e = Event("READY", id, kind, reqs)
    BY <2>2
  <2> QED BY <2>3, <2>4, <2>5
<1>7. EventsSound(c, t)
  <2>1. \A e \in t.events : BatchSound(c, e.kind, e.reqs)
    BY <1>5, <1>6 DEF Good, EventsSound
  <2>2. ASSUME c.phase = "run" PROVE t.busy \subseteq Awaited(t.events)
    <3>1. s.busy \subseteq Awaited(s.events)
      BY <2>2 DEF Good, EventsSound
    <3>2. PICK e \in evs : e.on = "COMPLETE" /\ e.reqs = reqs
      BY <1>6
    <3>3. ToSet(reqs) \subseteq Awaited(t.events)
      BY <3>2, <1>5 DEF Awaited
    <3>4. Awaited(s.events) \subseteq Awaited(t.events)
      BY <1>5 DEF Awaited
    <3> QED BY <3>1, <3>3, <3>4, <1>5
  <2> QED BY <2>1, <2>2 DEF EventsSound
<1>8. QueuesSound(c, t)
  BY <1>5 DEF Good, QueuesSound
<1> QED
  BY <1>1, <1>5, <1>7, <1>8 DEF Good

(* A batch that fails leaves no busy flag behind.                          *)
LEMMA FailedSound ==
  ASSUME NEW c, NEW s, Good(c, s), NEW kind, NEW reqs \in Seq(c.known)
  PROVE  Good(c, Failed(s, kind, reqs))
<1>1. PICK t : t = Failed(s, kind, reqs)
  OBVIOUS
<1>2. PICK u : u = PutBack(s, reqs)
  OBVIOUS
<1>3. Good(c, u)
  BY <1>2, PutBackSound
<1>4. PICK fl, ao : /\ fl = IF kind = "PREFILL" THEN MinusFloor(u.inFlight) ELSE u.inFlight
                    /\ ao = (u.admitOpen /\ ~(kind = "PREFILL"))
  OBVIOUS
<1>5. t = [u EXCEPT !.busy = u.busy \ ToSet(reqs), !.inFlight = fl, !.admitOpen = ao]
  BY <1>1, <1>2, <1>3, <1>4 DEF Failed, Good, Shape
<1>6. /\ Shape(t) /\ t.state = u.state /\ t.prefilling = u.prefilling /\ t.waiting = u.waiting
      /\ t.active = u.active /\ t.prompt = u.prompt /\ t.pool = u.pool
      /\ t.events = u.events /\ t.busy = u.busy \ ToSet(reqs)
  BY <1>3, <1>5 DEF Good, Shape
<1>7. EventsSound(c, t)
  BY <1>3, <1>6 DEF Good, EventsSound
<1>8. QueuesSound(c, t)
  BY <1>3, <1>6 DEF Good, QueuesSound
<1> QED
  BY <1>1, <1>3, <1>6, <1>7, <1>8 DEF Good

LEMMA ExecuteBatchSound ==
  ASSUME NEW c, NEW s, Good(c, s), NEW kind, NEW reqs, BatchSound(c, kind, reqs)
  PROVE  Good(c, ExecuteBatch(s, kind, reqs))
<1>1. PICK x : x = Alloc(s, kind, reqs)
  OBVIOUS
<1>2. PICK t : t = [s EXCEPT !.pool = x.pool]
  OBVIOUS
<1>3. reqs \in Seq(c.known) /\ reqs \in Seq(Requests)
  <2>1. reqs \in Seq(c.known) /\ c.known \subseteq Requests
    BY DEF BatchSound, Good, Context
  <2> QED BY <2>1
<1>4. PoolSound(x.pool)
  <2>1. PoolSound(s.pool) /\ s.prompt \in [Requests -> Nat]
    BY DEF Good, Context
  <2> QED BY <2>1, <1>1, <1>3, AllocSound
<1>5. /\ Shape(t) /\ t.state = s.state /\ t.prefilling = s.prefilling /\ t.waiting = s.waiting
      /\ t.active = s.active /\ t.prompt = s.prompt /\ t.pool = x.pool
      /\ t.events = s.events /\ t.busy = s.busy
  BY <1>2 DEF Good, Shape
<1>6. Good(c, t)
  <2>1. QueuesSound(c, t) /\ EventsSound(c, t)
    BY <1>5 DEF Good, QueuesSound, EventsSound
  <2> QED BY <2>1, <1>4, <1>5 DEF Good
<1>7. ExecuteBatch(s, kind, reqs) = IF x.ok THEN Started(t, kind, reqs) ELSE Failed(t, kind, reqs)
  BY <1>1, <1>2 DEF ExecuteBatch
<1> QED
  BY <1>3, <1>6, <1>7, StartedSound, FailedSound

LEMMA SchedulePrefillSound ==
  ASSUME NEW c, NEW s, Good(c, s)
  PROVE  Good(c, SchedulePrefill(s))
<1>1. PICK a : a = AdmitWaiting(s)
  OBVIOUS
<1>2. Good(c, a.s) /\ a.admitted \in Seq(c.known)
  BY <1>1, AdmitWaitingSound DEF AdmitKeep
<1>3. CASE a.admitted = <<>>
  BY <1>1, <1>2, <1>3 DEF SchedulePrefill
<1>4. CASE a.admitted # <<>>
  <2>1. PICK b : b = SelectPrefill(a.s, a.admitted)
    OBVIOUS
  <2>2. b.in \in Seq(c.known) /\ b.out \in Seq(c.known) /\ WithinBudget(c, b.in)
    BY <2>1, <1>2, <1>4, SelectPrefillSound
  <2>3. PICK u : u = PutBack(a.s, b.out)
    OBVIOUS
  <2>4. Good(c, u)
    BY <2>2, <2>3, <1>2, PutBackSound
  <2>5. BatchSound(c, "PREFILL", b.in)
    BY <2>2 DEF BatchSound
  <2>6. SchedulePrefill(s) = ExecuteBatch(u, "PREFILL", b.in)
    BY <1>1, <1>4, <2>1, <2>3 DEF SchedulePrefill
  <2> QED BY <2>4, <2>5, <2>6, ExecuteBatchSound
<1> QED
  BY <1>3, <1>4

LEMMA SeqPrefix ==
  ASSUME NEW S, NEW q \in Seq(S), NEW k \in 0 .. Len(q)
  PROVE  SubSeq(q, 1, k) \in Seq(S)
OBVIOUS

OnlyOp(c, p, r) == IF r \in c.in THEN Append(p, r) ELSE p

OnlyKeep(c, p) == p \in Seq(c.from)

Filters == INSTANCE FoldTheory WITH Op <- OnlyOp, Keep <- OnlyKeep

LEMMA OnlyInSound ==
  ASSUME NEW S, NEW q \in Seq(S), NEW R
  PROVE  OnlyIn(R, q) \in Seq(S)
<1>1. PICK c : c = [in |-> R, from |-> S]
  OBVIOUS
<1>2. OnlyIn(R, q) = Filters!Folded(c, <<>>, q)
  <2>1. c.in = R
    BY <1>1
  <2> QED BY <2>1 DEF OnlyIn, Filters!Folded, FoldLeft, MapThenFoldSet,
            Filters!MapThenFoldSet, Max, Filters!Greatest, OnlyOp
<1>3. OnlyKeep(c, <<>>)
  BY DEF OnlyKeep
<1>4. ASSUME NEW p, NEW r \in S, OnlyKeep(c, p) PROVE OnlyKeep(c, OnlyOp(c, p, r))
  BY <1>1, <1>4, SeqAppend DEF OnlyKeep, OnlyOp
<1>5. Len(q) \in Nat /\ DOMAIN q = 1 .. Len(q) /\ \A i \in 1 .. Len(q) : q[i] \in S
  OBVIOUS
<1>6. OnlyKeep(c, Filters!Folded(c, <<>>, q))
  BY <1>3, <1>4, <1>5, Filters!FoldKeeps
<1> QED
  BY <1>1, <1>2, <1>6 DEF OnlyKeep

LEMMA ScheduleDecodeSound ==
  ASSUME NEW c, NEW s, Good(c, s)
  PROVE  Good(c, ScheduleDecode(s))
<1>1. PICK free : free = Available(s)
  OBVIOUS
<1>2. free \in Seq(c.known)
  <2>1. s.active \in Seq(c.known)
    BY DEF Good, QueuesSound
  <2> QED BY <2>1, <1>1, OnlyInSound DEF Available
<1>3. PICK k : k = IF Len(free) < MaxDecodeBatch THEN Len(free) ELSE MaxDecodeBatch
  OBVIOUS
<1>4. k \in 0 .. Len(free)
  BY <1>2, <1>3, ServingAssumption
<1>5. SubSeq(free, 1, k) \in Seq(c.known)
  BY <1>2, <1>4, SeqPrefix
<1>6. BatchSound(c, "DECODE", SubSeq(free, 1, k))
  BY <1>5 DEF BatchSound
<1>7. ScheduleDecode(s) = ExecuteBatch(s, "DECODE", SubSeq(free, 1, k))
  BY <1>1, <1>3 DEF ScheduleDecode
<1> QED
  BY <1>6, <1>7, ExecuteBatchSound

LEMMA MaybeScheduleSound ==
  ASSUME NEW c, NEW s, Good(c, s), NEW waited
  PROVE  Good(c, MaybeSchedule(s, waited))
<1>1. PICK t : t = IF s.waiting # <<>> /\ s.admitOpen THEN SchedulePrefill(s) ELSE s
  OBVIOUS
<1>2. Good(c, t)
  BY <1>1, SchedulePrefillSound
<1>3. MaybeSchedule(s, waited) = IF CanDecode(t, waited) THEN ScheduleDecode(t) ELSE t
  BY <1>1 DEF MaybeSchedule
<1> QED
  BY <1>2, <1>3, ScheduleDecodeSound

-----------------------------------------------------------------------------
(* What a finished batch does to its requests.                             *)

(* A change of other fields than those of the queues and the batches.      *)
Frame(s, t) ==
  /\ Shape(t) /\ t.state = s.state /\ t.prefilling = s.prefilling /\ t.waiting = s.waiting
  /\ t.active = s.active /\ t.prompt = s.prompt /\ t.events = s.events /\ t.busy = s.busy

LEMMA FrameSound ==
  ASSUME NEW c, NEW s, Good(c, s), NEW t, Frame(s, t), PoolSound(t.pool)
  PROVE  Good(c, t)
<1>1. QueuesSound(c, t)
  BY DEF Frame, Good, QueuesSound
<1>2. EventsSound(c, t)
  BY DEF Frame, Good, EventsSound
<1> QED
  BY <1>1, <1>2 DEF Frame, Good

PromoteOp(c, s, r) == PromoteOne(s, r)

Promotions == INSTANCE FoldTheory WITH Op <- PromoteOp, Keep <- Good

LEMMA PromoteOneSound ==
  ASSUME NEW c, NEW s, Good(c, s), NEW r \in c.known
  PROVE  Good(c, PromoteOne(s, r))
<1>1. CASE s.state[r] # "PREFILL"
  BY <1>1 DEF PromoteOne
<1>2. CASE s.state[r] = "PREFILL"
  <2>1. PICK t : t = PromoteOne(s, r)
    OBVIOUS
  <2>2. PICK pf : pf = RemoveFirst(s.prefilling, r)
    OBVIOUS
  <2>3. t = [s EXCEPT !.state[r] = "DECODE", !.active = Append(@, r), !.prefilling = pf]
    BY <2>1, <2>2, <1>2 DEF PromoteOne, Good, Shape
  <2>4. /\ Shape(t) /\ t.state = [s.state EXCEPT ![r] = "DECODE"] /\ t.prefilling = pf
        /\ t.waiting = s.waiting /\ t.active = Append(s.active, r) /\ t.prompt = s.prompt
        /\ t.pool = s.pool /\ t.events = s.events /\ t.busy = s.busy
    BY <2>3 DEF Good, Shape
  <2>5. r \in Requests /\ s.prefilling \in Seq(c.known) /\ s.active \in Seq(c.known)
        /\ Len(s.prefilling) <= MaxPrefilling /\ Len(s.prefilling) \in Nat
    BY DEF Good, QueuesSound, Context
  <2>6. pf \in Seq(c.known) /\ Len(pf) <= Len(s.prefilling) /\ Len(pf) \in Nat
    BY <2>2, <2>5, RemoveFirstSound
  <2>7. Len(pf) <= MaxPrefilling
    BY <2>5, <2>6, ServingAssumption
  <2>8. t.active \in Seq(c.known)
    <3>1. PICK q, K : q = s.active /\ K = c.known
      OBVIOUS
    <3>2. q \in Seq(K) /\ r \in K
      BY <2>5, <3>1
    <3>3. Append(q, r) \in Seq(K)
      BY <3>2, SeqAppend
    <3> QED BY <3>1, <3>3, <2>4
  <2>9. t.state \in [Requests -> Statuses] /\ {p \in Requests : t.state[p] # "NEW"} = c.known
    BY <2>4, <2>5 DEF Good, QueuesSound, Statuses
  <2>10. QueuesSound(c, t)
    BY <2>4, <2>6, <2>7, <2>8, <2>9 DEF Good, QueuesSound
  <2>11. Good(c, t)
    BY <2>4, <2>10 DEF Good, EventsSound
  <2> QED BY <2>1, <2>11
<1> QED
  BY <1>1, <1>2

LEMMA OnPrefillCompleteSound ==
  ASSUME NEW c, NEW s, Good(c, s), NEW reqs \in Seq(c.known)
  PROVE  Good(c, OnPrefillComplete(s, reqs))
<1>1. OnPrefillComplete(s, reqs) = Promotions!Folded(c, s, reqs)
  BY DEF OnPrefillComplete, Promotions!Folded, FoldLeft, MapThenFoldSet,
     Promotions!MapThenFoldSet, Max, Promotions!Greatest, PromoteOp
<1>2. PICK n : n = Len(reqs)
  OBVIOUS
<1>3. n \in Nat /\ DOMAIN reqs = 1 .. n /\ \A i \in 1 .. n : reqs[i] \in c.known
  BY <1>2
<1>4. \A t, i : i \in 1 .. n /\ Good(c, t) => Good(c, PromoteOp(c, t, reqs[i]))
  BY <1>3, PromoteOneSound DEF PromoteOp
<1>5. Good(c, Promotions!Folded(c, s, reqs))
  BY <1>3, <1>4, Promotions!FoldKeeps
<1> QED
  BY <1>1, <1>5

DecodeOp(c, x, r) == DecodeOne(x, r)

DecodeKeep(c, x) ==
  /\ x = [s |-> x.s, finished |-> x.finished]
  /\ Good(c, x.s) /\ x.finished \in Seq(c.known)

Decodes == INSTANCE FoldTheory WITH Op <- DecodeOp, Keep <- DecodeKeep

Generated(x, r) == [x EXCEPT !.s.tokens[r] = @ + 1]

Finished(t, r) ==
  [t EXCEPT !.s.state[r] = "FINISHED", !.s.finishedCnt = @ + 1, !.finished = Append(@, r)]

Ticked(x, t) ==
  /\ t = [s |-> t.s, finished |-> t.finished] /\ t.finished = x.finished
  /\ Frame(x.s, t.s) /\ t.s.pool = x.s.pool

Ended(x, r, t, y) ==
  /\ y = [s |-> y.s, finished |-> y.finished] /\ y.finished = Append(x.finished, r)
  /\ y.s = [t.s EXCEPT !.state = [t.s.state EXCEPT ![r] = "FINISHED"],
                       !.finishedCnt = t.s.finishedCnt + 1]

PairShape(x) == x = [s |-> x.s, finished |-> x.finished] /\ Shape(x.s)

LEMMA DecodeRecords ==
  ASSUME NEW x, PairShape(x), NEW r, NEW t, NEW y, t = Generated(x, r), y = Finished(t, r)
  PROVE  Ticked(x, t) /\ Ended(x, r, t, y)
<1>1. t = [s |-> [x.s EXCEPT !.tokens = [x.s.tokens EXCEPT ![r] = x.s.tokens[r] + 1]],
           finished |-> x.finished]
  BY DEF PairShape, Shape, Generated
<1>2. /\ t = [s |-> t.s, finished |-> t.finished] /\ t.finished = x.finished
      /\ Frame(x.s, t.s) /\ t.s.pool = x.s.pool
  BY <1>1 DEF PairShape, Shape, Frame
<1>3. y = [s |-> [t.s EXCEPT !.state = [t.s.state EXCEPT ![r] = "FINISHED"],
                             !.finishedCnt = t.s.finishedCnt + 1],
           finished |-> Append(t.finished, r)]
  BY <1>2 DEF Shape, Frame, Finished
<1> QED
  BY <1>2, <1>3 DEF Ticked, Ended

LEMMA DecodeOneSound ==
  ASSUME NEW c, NEW x, DecodeKeep(c, x), NEW r \in c.known
  PROVE  DecodeKeep(c, DecodeOne(x, r))
<1>1. PICK t : t = Generated(x, r)
  OBVIOUS
<1>2. PICK y : y = Finished(t, r)
  OBVIOUS
<1>3. DecodeOne(x, r) = x \/ DecodeOne(x, r) = t \/ DecodeOne(x, r) = y
  BY <1>1, <1>2 DEF DecodeOne, Generated, Finished
<1>4. PairShape(x) /\ Good(c, x.s) /\ x.finished \in Seq(c.known)
  BY DEF DecodeKeep, Good, PairShape
<1>5. /\ t = [s |-> t.s, finished |-> t.finished] /\ t.finished = x.finished
      /\ Frame(x.s, t.s) /\ t.s.pool = x.s.pool
      /\ y = [s |-> y.s, finished |-> y.finished] /\ y.finished = Append(x.finished, r)
      /\ y.s = [t.s EXCEPT !.state = [t.s.state EXCEPT ![r] = "FINISHED"],
                           !.finishedCnt = t.s.finishedCnt + 1]
  <2>1. Ticked(x, t) /\ Ended(x, r, t, y)
    BY <1>1, <1>2, <1>4, DecodeRecords
  <2> QED BY <2>1 DEF Ticked, Ended
<1>6. Good(c, t.s)
  <2>1. PoolSound(t.s.pool)
    BY <1>4, <1>5 DEF Good
  <2> QED BY <2>1, <1>4, <1>5, FrameSound
<1>7. DecodeKeep(c, t)
  BY <1>4, <1>5, <1>6 DEF DecodeKeep
<1>8. DecodeKeep(c, y)
  <2>1. PICK u, v : u = t.s /\ v = y.s
    OBVIOUS
  <2>2. /\ Shape(v) /\ v.state = [u.state EXCEPT ![r] = "FINISHED"]
        /\ v.prefilling = u.prefilling /\ v.waiting = u.waiting /\ v.active = u.active
        /\ v.prompt = u.prompt /\ v.pool = u.pool /\ v.events = u.events /\ v.busy = u.busy
    BY <2>1, <1>5, <1>6 DEF Good, Shape
  <2>3. Good(c, u) /\ r \in Requests
    BY <2>1, <1>6 DEF Good, Context
  <2>4. v.state \in [Requests -> Statuses] /\ {p \in Requests : v.state[p] # "NEW"} = c.known
    BY <2>2, <2>3 DEF Good, QueuesSound, Statuses
  <2>5. QueuesSound(c, v)
    BY <2>2, <2>3, <2>4 DEF Good, QueuesSound
  <2>6. Good(c, v)
    BY <2>2, <2>3, <2>5 DEF Good, EventsSound
  <2>7. y.finished \in Seq(c.known)
    <3>1. PICK f, K : f = x.finished /\ K = c.known
      OBVIOUS
    <3>2. f \in Seq(K) /\ r \in K
      BY <3>1, <1>4
    <3>3. Append(f, r) \in Seq(K)
      BY <3>2, SeqAppend
    <3>4. y.finished = Append(f, r)
      BY <3>1, <1>5
    <3> QED BY <3>1, <3>3, <3>4
  <2>8. y = [s |-> y.s, finished |-> y.finished]
    BY <1>5
  <2> QED BY <2>1, <2>6, <2>7, <2>8 DEF DecodeKeep
<1> QED
  BY <1>3, <1>7, <1>8

LEMMA OnDecodeStepSound ==
  ASSUME NEW c, NEW s, Good(c, s), NEW reqs \in Seq(c.known)
  PROVE  Good(c, OnDecodeStep(s, reqs))
<1>1. PICK base : base = [s |-> s, finished |-> <<>>]
  OBVIOUS
<1>2. PICK x : x = FoldLeft(DecodeOne, base, reqs)
  OBVIOUS
<1>3. x = Decodes!Folded(c, base, reqs)
  BY <1>2 DEF Decodes!Folded, FoldLeft, MapThenFoldSet,
     Decodes!MapThenFoldSet, Max, Decodes!Greatest, DecodeOp
<1>4. DecodeKeep(c, base)
  BY <1>1 DEF DecodeKeep
<1>5. PICK n : n = Len(reqs)
  OBVIOUS
<1>6. n \in Nat /\ DOMAIN reqs = 1 .. n /\ \A i \in 1 .. n : reqs[i] \in c.known
  BY <1>5
<1>7. \A y, i : i \in 1 .. n /\ DecodeKeep(c, y) => DecodeKeep(c, DecodeOp(c, y, reqs[i]))
  BY <1>6, DecodeOneSound DEF DecodeOp
<1>8. DecodeKeep(c, x)
  BY <1>3, <1>4, <1>6, <1>7, Decodes!FoldKeeps
<1>9. PICK u, ac : u = x.s /\ ac = FoldLeft(RemoveFirst, u.active, x.finished)
  OBVIOUS
<1>10. Good(c, u) /\ x.finished \in Seq(c.known) /\ u.active \in Seq(c.known)
  BY <1>8, <1>9 DEF DecodeKeep, Good, QueuesSound
<1>11. ac \in Seq(c.known)
  BY <1>9, <1>10, RemoveAllSound
<1>12. PICK t : t = OnDecodeStep(s, reqs)
  OBVIOUS
<1>13. t = [u EXCEPT !.active = ac]
  BY <1>1, <1>2, <1>9, <1>12 DEF OnDecodeStep
<1>14. /\ Shape(t) /\ t.state = u.state /\ t.prefilling = u.prefilling /\ t.waiting = u.waiting
       /\ t.active = ac /\ t.prompt = u.prompt /\ t.pool = u.pool
       /\ t.events = u.events /\ t.busy = u.busy
  BY <1>13, <1>10 DEF Good, Shape
<1>15. QueuesSound(c, t)
  BY <1>10, <1>11, <1>14 DEF Good, QueuesSound
<1>16. Good(c, t)
  BY <1>10, <1>14, <1>15 DEF Good, EventsSound
<1> QED
  BY <1>12, <1>16

(* The release of a session's blocks, request by request.                  *)
ReleaseOp(c, p, r) == Pool!Release(p, r)

ReleaseKeep(c, p) == PoolSound(p)

Releases == INSTANCE FoldTheory WITH Op <- ReleaseOp, Keep <- ReleaseKeep

LEMMA ReleaseTurnsSound ==
  ASSUME NEW c, NEW s, Good(c, s), NEW x
  PROVE  Good(c, ReleaseTurns(s, x))
<1>1. PICK S : S = TurnsOf(s, x)
  OBVIOUS
<1>2. PICK p : p = FoldSet(LAMBDA r, q : Pool!Release(q, r), s.pool, S)
  OBVIOUS
<1>3. p = Releases!FoldedSet(c, s.pool, S)
  BY <1>2 DEF Releases!FoldedSet, FoldSet, MapThenFoldSet,
     Releases!MapThenFoldSet, ReleaseOp
<1>4. S \subseteq Requests /\ IsFiniteSet(S)
  <2>1. IsFiniteSet(Requests)
    BY ServingAssumption, FS_Interval DEF Requests
  <2>2. S \subseteq Requests
    BY <1>1 DEF TurnsOf
  <2> QED BY <2>1, <2>2, FS_Subset
<1>5. ReleaseKeep(c, s.pool)
  BY DEF ReleaseKeep, Good
<1>6. \A q, r : r \in S /\ ReleaseKeep(c, q) => ReleaseKeep(c, ReleaseOp(c, q, r))
  BY <1>4, PoolReleases DEF ReleaseKeep, ReleaseOp
<1>7. PoolSound(p)
  <2>0. Releases!IsFiniteSet(S)
    BY <1>4 DEF IsFiniteSet, Releases!IsFiniteSet
  <2>1. ReleaseKeep(c, Releases!FoldedSet(c, s.pool, S))
    BY <2>0, <1>5, <1>6, Releases!FoldSetKeeps
  <2> QED BY <2>1, <1>3 DEF ReleaseKeep
<1>8. PICK t : t = ReleaseTurns(s, x)
  OBVIOUS
<1>9. t = [s EXCEPT !.pool = p]
  BY <1>1, <1>2, <1>8 DEF ReleaseTurns
<1>10. Frame(s, t) /\ t.pool = p
  BY <1>9 DEF Good, Shape, Frame
<1> QED
  BY <1>7, <1>8, <1>10, FrameSound

TurnOp(c, s, r) == FinishTurn(s, r)

TurnFold == INSTANCE FoldTheory WITH Op <- TurnOp, Keep <- Good

LEMMA FinishTurnSound ==
  ASSUME NEW c, NEW s, Good(c, s), NEW r \in c.known
  PROVE  Good(c, FinishTurn(s, r))
<1>1. PICK x, done : x = s.session[r] /\ done = s.sess[x].done + 1
  OBVIOUS
<1>2. PICK t : t = [s EXCEPT !.sess[x].done = done]
  OBVIOUS
<1>3. Shape(s) /\ PoolSound(s.pool) /\ r \in Requests
  BY DEF Good, Context
<1>4. Frame(s, t) /\ t.pool = s.pool
  BY <1>2, <1>3 DEF Shape, Frame
<1>5. Good(c, t)
  BY <1>3, <1>4, FrameSound
<1>6. PICK u : u = FinishTurn(s, r)
  OBVIOUS
<1>7. \/ u = [s EXCEPT !.pool = Pool!Release(@, r)]
      \/ u = s
      \/ u = [t EXCEPT !.nextTurns[x] = @ + 1]
      \/ u = [ReleaseTurns(t, x) EXCEPT !.sess[x].here = FALSE]
  BY <1>1, <1>2, <1>6 DEF FinishTurn
<1>8. CASE u = [s EXCEPT !.pool = Pool!Release(@, r)]
  <2>1. Frame(s, u) /\ u.pool = Pool!Release(s.pool, r)
    BY <1>8, <1>3 DEF Shape, Frame
  <2>2. PoolSound(u.pool)
    BY <2>1, <1>3, PoolReleases
  <2> QED BY <2>1, <2>2, <1>6, FrameSound
<1>9. CASE u = s
  BY <1>9, <1>6
<1>10. CASE u = [t EXCEPT !.nextTurns[x] = @ + 1]
  <2>1. Frame(t, u) /\ u.pool = t.pool
    BY <1>10, <1>4 DEF Shape, Frame
  <2> QED BY <2>1, <1>3, <1>4, <1>5, <1>6, FrameSound
<1>11. CASE u = [ReleaseTurns(t, x) EXCEPT !.sess[x].here = FALSE]
  <2>1. PICK v : v = ReleaseTurns(t, x)
    OBVIOUS
  <2>2. Good(c, v)
    BY <2>1, <1>5, ReleaseTurnsSound
  <2>3. Frame(v, u) /\ u.pool = v.pool
    BY <2>1, <2>2, <1>11 DEF Good, Shape, Frame
  <2>4. PoolSound(u.pool)
    BY <2>2, <2>3 DEF Good
  <2> QED BY <2>2, <2>3, <2>4, <1>6, FrameSound
<1> QED
  BY <1>7, <1>8, <1>9, <1>10, <1>11

LEMMA FinishTurnsSound ==
  ASSUME NEW c, NEW s, Good(c, s), NEW reqs \in Seq(c.known)
  PROVE  Good(c, FinishTurns(s, reqs))
<1>1. PICK q : q = OnlyIn({r \in Requests : s.state[r] = "FINISHED"}, reqs)
  OBVIOUS
<1>2. q \in Seq(c.known)
  BY <1>1, OnlyInSound
<1>3. FinishTurns(s, reqs) = TurnFold!Folded(c, s, q)
  BY <1>1 DEF FinishTurns, TurnFold!Folded, FoldLeft, MapThenFoldSet,
     TurnFold!MapThenFoldSet, Max, TurnFold!Greatest, TurnOp
<1>4. PICK n : n = Len(q)
  OBVIOUS
<1>5. n \in Nat /\ DOMAIN q = 1 .. n /\ \A i \in 1 .. n : q[i] \in c.known
  BY <1>2, <1>4
<1>6. \A t, i : i \in 1 .. n /\ Good(c, t) => Good(c, TurnOp(c, t, q[i]))
  BY <1>5, FinishTurnSound DEF TurnOp
<1>7. Good(c, TurnFold!Folded(c, s, q))
  BY <1>5, <1>6, TurnFold!FoldKeeps
<1> QED
  BY <1>3, <1>7

-----------------------------------------------------------------------------
(* The steps of the program.                                               *)

(* Requests are numbered in the order in which they are submitted.         *)
FirstOnes(K) == \E k \in 0 .. MaxRequests : K = 1 .. k

Here == [known |-> Submitted, prompt |-> prompt, phase |-> phase]

(* The inductive invariant.                                                *)
IInv == Good(Here, Now) /\ FirstOnes(Submitted)

(* Only the run promises that every busy flag will be cleared.             *)
LEMMA SameContext ==
  ASSUME NEW c, NEW s, Good(c, s), NEW d, d.known = c.known, d.prompt = c.prompt,
         d.phase = "run" => c.phase = "run"
  PROVE  Good(d, s)
<1>1. QueuesSound(d, s)
  BY DEF Good, QueuesSound
<1>2. \A kind, reqs : BatchSound(c, kind, reqs) => BatchSound(d, kind, reqs)
  BY DEF BatchSound, WithinBudget
<1>3. EventsSound(d, s)
  BY <1>2 DEF Good, EventsSound
<1> QED
  BY <1>1, <1>3 DEF Good, Context

(* The fields after a handler are those of a good record.                  *)
LEMMA StepTo ==
  ASSUME NEW c, NEW t, Good(c, t), Becomes(t), FirstOnes(c.known),
         phase' = "run" => c.phase = "run"
  PROVE  IInv'
<1>1. /\ state' = t.state /\ prompt' = t.prompt /\ session' = t.session
      /\ tokens' = t.tokens /\ waiting' = t.waiting /\ prefilling' = t.prefilling
      /\ active' = t.active /\ finishedCnt' = t.finishedCnt /\ pool' = t.pool
      /\ busy' = t.busy /\ events' = t.events /\ nextTurns' = t.nextTurns
      /\ inFlight' = t.inFlight /\ admitOpen' = t.admitOpen /\ sess' = t.sess
  BY DEF Becomes
<1>2. Now' = t
  BY <1>1 DEF Now, Good, Shape
<1>3. Submitted' = c.known
  BY <1>1 DEF Submitted, Good, QueuesSound
<1>4. PICK d : d = Here'
  OBVIOUS
<1>5. d.known = c.known /\ d.prompt = c.prompt /\ d.phase = phase'
  BY <1>1, <1>3, <1>4 DEF Here, Good
<1>6. Good(d, t)
  BY <1>5, SameContext
<1> QED
  BY <1>2, <1>3, <1>4, <1>6 DEF IInv

LEMMA NowSound ==
  ASSUME IInv
  PROVE  /\ Good(Here, Now) /\ FirstOnes(Here.known)
         /\ Here.known = Submitted /\ Here.prompt = prompt /\ Here.phase = phase
BY DEF IInv, Here

(* An event leaves the queue, and its requests are free.                   *)
LEMMA PopSound ==
  ASSUME NEW c, NEW s, Good(c, s), NEW e \in s.events,
         NEW t, t = [s EXCEPT !.events = s.events \ {e}, !.busy = s.busy \ ToSet(e.reqs)]
  PROVE  Good(c, t) /\ BatchSound(c, e.kind, e.reqs)
<1>1. /\ Shape(t) /\ t.state = s.state /\ t.prefilling = s.prefilling /\ t.waiting = s.waiting
      /\ t.active = s.active /\ t.prompt = s.prompt /\ t.pool = s.pool
      /\ t.events = s.events \ {e} /\ t.busy = s.busy \ ToSet(e.reqs)
  BY DEF Good, Shape
<1>2. QueuesSound(c, t)
  BY <1>1 DEF Good, QueuesSound
<1>3. ASSUME c.phase = "run" PROVE t.busy \subseteq Awaited(t.events)
  <2>1. s.busy \subseteq Awaited(s.events)
    BY <1>3 DEF Good, EventsSound
  <2>2. ASSUME NEW r \in t.busy PROVE r \in Awaited(t.events)
    <3>1. r \in s.busy /\ r \notin ToSet(e.reqs)
      BY <1>1, <2>2
    <3>2. PICK f \in s.events : f.on = "COMPLETE" /\ r \in ToSet(f.reqs)
      BY <2>1, <3>1 DEF Awaited
    <3>3. f \in t.events
      BY <1>1, <3>1, <3>2
    <3> QED BY <3>2, <3>3 DEF Awaited
  <2> QED BY <2>2
<1>4. EventsSound(c, t)
  <2>1. \A f \in t.events : BatchSound(c, f.kind, f.reqs)
    BY <1>1 DEF Good, EventsSound
  <2> QED BY <2>1, <1>3 DEF EventsSound
<1>5. BatchSound(c, e.kind, e.reqs)
  BY DEF Good, EventsSound
<1> QED
  BY <1>1, <1>2, <1>4, <1>5 DEF Good

LEMMA PoppedSound ==
  ASSUME IInv, NEW e \in events
  PROVE  Good(Here, Popped(e)) /\ BatchSound(Here, e.kind, e.reqs)
<1>1. PICK s : s = Now
  OBVIOUS
<1>2. PICK c : c = Here
  OBVIOUS
<1>3. PICK t : t = [s EXCEPT !.events = s.events \ {e}, !.busy = s.busy \ ToSet(e.reqs)]
  OBVIOUS
<1>4. Good(c, s) /\ s.events = events
  BY <1>1, <1>2, NowSound DEF Now
<1>5. Good(c, t) /\ BatchSound(c, e.kind, e.reqs)
  BY <1>3, <1>4, PopSound
<1>6. Popped(e) = t
  BY <1>1, <1>3 DEF Popped
<1> QED
  BY <1>2, <1>5, <1>6

LEMMA SeqWider ==
  ASSUME NEW S, NEW T, S \subseteq T, NEW q \in Seq(S)
  PROVE  q \in Seq(T)
OBVIOUS

(* What was chosen under its budget stays within it when another request   *)
(* gets its prompt.                                                        *)
LEMMA SubmitSound ==
  ASSUME NEW c, NEW s, Good(c, s), NEW r \in Requests, r \notin c.known, NEW len \in Nat, NEW x,
         NEW d, d = [known |-> c.known \cup {r}, prompt |-> [c.prompt EXCEPT ![r] = len],
                     phase |-> c.phase]
  PROVE  Good(d, Submit(s, r, len, x))
<1>1. PICK t : t = Submit(s, r, len, x)
  OBVIOUS
<1>2. /\ Shape(t) /\ t.state = [s.state EXCEPT ![r] = "WAITING"]
      /\ t.prefilling = s.prefilling /\ t.waiting = Append(s.waiting, r)
      /\ t.active = s.active /\ t.prompt = [s.prompt EXCEPT ![r] = len]
      /\ t.pool = s.pool /\ t.events = s.events /\ t.busy = s.busy
  BY <1>1 DEF Submit, Good, Shape
<1>3. /\ d.known = c.known \cup {r} /\ d.prompt = [c.prompt EXCEPT ![r] = len]
      /\ d.phase = c.phase
  OBVIOUS
<1>4. PICK K, D : K = c.known /\ D = d.known
  OBVIOUS
<1>5. K \subseteq D /\ r \in D /\ K \subseteq Requests
  BY <1>3, <1>4 DEF Good, Context
<1>6. Context(d)
  BY <1>3 DEF Good, Context
<1>7. QueuesSound(d, t)
  <2>1. PICK w, p, a : w = s.waiting /\ p = s.prefilling /\ a = s.active
    OBVIOUS
  <2>2. w \in Seq(K) /\ p \in Seq(K) /\ a \in Seq(K)
    BY <1>4, <2>1 DEF Good, QueuesSound
  <2>3. w \in Seq(D) /\ p \in Seq(D) /\ a \in Seq(D)
    BY <1>5, <2>2, SeqWider
  <2>4. Append(w, r) \in Seq(D)
    BY <1>5, <2>3, SeqAppend
  <2>5. t.state \in [Requests -> Statuses] /\ {q \in Requests : t.state[q] # "NEW"} = D
    BY <1>2, <1>3, <1>4 DEF Good, QueuesSound, Statuses
  <2>6. Len(p) <= MaxPrefilling
    BY <2>1 DEF Good, QueuesSound
  <2> QED BY <1>2, <1>4, <2>1, <2>3, <2>4, <2>5, <2>6 DEF QueuesSound
<1>8. ASSUME NEW kind, NEW reqs, BatchSound(c, kind, reqs) PROVE BatchSound(d, kind, reqs)
  <2>1. reqs \in Seq(K) /\ kind \in {"PREFILL", "DECODE"}
    BY <1>4, <1>8 DEF BatchSound
  <2>2. reqs \in Seq(D)
    BY <1>5, <2>1, SeqWider
  <2>3. SumOf(c.prompt, reqs) = SumOf(d.prompt, reqs)
    <3>1. PICK n : n = Len(reqs)
      OBVIOUS
    <3>2. n \in Nat /\ DOMAIN reqs = 1 .. n /\ \A i \in 1 .. n : reqs[i] \in K
      BY <2>1, <3>1
    <3>3. PICK f, g : f = c.prompt /\ g = d.prompt
      OBVIOUS
    <3>4. \A q \in K : f[q] = g[q]
      BY <1>3, <1>4, <1>5, <3>3 DEF Good, Context
    <3>5. \A i \in 1 .. n : f[reqs[i]] = g[reqs[i]]
      BY <3>2, <3>4
    <3>6. SumOf(f, reqs) = SumOf(g, reqs)
      BY <3>2, <3>5, SumSame
    <3> QED BY <3>3, <3>6
  <2> QED BY <1>4, <1>8, <2>1, <2>2, <2>3 DEF BatchSound, WithinBudget
<1>9. EventsSound(d, t)
  BY <1>2, <1>3, <1>8 DEF Good, EventsSound
<1>10. t.prompt = d.prompt /\ PoolSound(t.pool)
  BY <1>2, <1>3 DEF Good
<1> QED
  BY <1>1, <1>2, <1>6, <1>7, <1>9, <1>10 DEF Good

(* A change of one request's numbers leads from a good record to another.  *)
LEMMA FrameStep ==
  ASSUME NEW c, NEW s, Good(c, s), NEW t, Frame(s, t), t.pool = s.pool
  PROVE  Good(c, t)
<1>1. PoolSound(t.pool)
  BY DEF Good
<1> QED
  BY <1>1, FrameSound

(* The next number belongs to no request yet.                              *)
LEMMA NextIdFresh ==
  ASSUME IInv, NextId <= MaxRequests
  PROVE  /\ NextId \in Requests /\ NextId \notin Submitted
         /\ FirstOnes(Submitted \cup {NextId})
<1>1. PICK k \in 0 .. MaxRequests : Submitted = 1 .. k
  BY DEF IInv, FirstOnes
<1>2. Cardinality(1 .. k) = k
  BY <1>1, FS_Interval, ServingAssumption
<1>3. NextId = k + 1 /\ k \in Nat
  BY <1>1, <1>2, ServingAssumption DEF NextId
<1>4. k + 1 \in 0 .. MaxRequests /\ (1 .. k) \cup {k + 1} = 1 .. k + 1
  BY <1>3, ServingAssumption
<1> QED
  BY <1>1, <1>3, <1>4, ServingAssumption DEF FirstOnes, Requests

(* A submission followed by what the loop schedules.                       *)
LEMMA SubmitStep ==
  ASSUME IInv, NextId <= MaxRequests, NEW s, Good(Here, s), NEW len \in Nat, NEW x, NEW waited,
         NEW n, n = NextId,
         Becomes(MaybeSchedule(Submit(s, n, len, x), waited)), phase' = phase
  PROVE  IInv'
<1>1. PICK c : c = Here
  OBVIOUS
<1>2. PICK d : d = [known |-> c.known \cup {n}, prompt |-> [c.prompt EXCEPT ![n] = len],
                    phase |-> c.phase]
  OBVIOUS
<1>3. c.known = Submitted /\ c.phase = phase
  BY <1>1, NowSound
<1>4. n \in Requests /\ n \notin c.known /\ FirstOnes(c.known \cup {n})
  BY <1>3, NextIdFresh
<1>5. Good(d, Submit(s, n, len, x))
  BY <1>1, <1>2, <1>4, SubmitSound
<1>6. PICK t : t = MaybeSchedule(Submit(s, n, len, x), waited)
  OBVIOUS
<1>7. Good(d, t)
  BY <1>5, <1>6, MaybeScheduleSound
<1>8. d.known = c.known \cup {n} /\ d.phase = phase
  BY <1>2, <1>3
<1>9. FirstOnes(d.known) /\ (phase' = "run" => d.phase = "run")
  BY <1>4, <1>8
<1>10. Becomes(t)
  BY <1>6
<1> QED
  BY <1>7, <1>9, <1>10, StepTo

(* A step that submits nothing.                                            *)
LEMMA PlainStep ==
  ASSUME IInv, NEW t, Good(Here, t), Becomes(t), phase' = "run" => phase = "run"
  PROVE  IInv'
<1>1. PICK c : c = Here
  OBVIOUS
<1>2. FirstOnes(c.known) /\ c.phase = phase
  BY <1>1, NowSound
<1>3. Good(c, t)
  BY <1>1
<1> QED
  BY <1>2, <1>3, StepTo

LEMMA ArriveKeeps ==
  ASSUME IInv, Arrive
  PROVE  IInv'
<1>1. PICK len \in PromptLens, waited \in BOOLEAN :
        IF agentMode
        THEN \E x \in Sessions :
               /\ x = Cardinality(StartedSessions) + 1
               /\ Becomes(MaybeSchedule(
                    Submit([Now EXCEPT !.sess[x].here = TRUE], NextId, len, x), waited))
        ELSE Becomes(MaybeSchedule(Submit(Now, NextId, len, NoSession), waited))
  BY DEF Arrive
<1>2. NextId <= MaxRequests /\ phase' = phase /\ len \in Nat
  BY ServingAssumption DEF Arrive
<1>3. PICK n, s : n = NextId /\ s = Now
  OBVIOUS
<1>4. Good(Here, s)
  BY <1>3, NowSound
<1>5. CASE agentMode
  <2>1. PICK x : Becomes(MaybeSchedule(
                   Submit([Now EXCEPT !.sess[x].here = TRUE], NextId, len, x), waited))
    BY <1>1, <1>5
  <2>2. PICK t : t = [s EXCEPT !.sess[x].here = TRUE]
    OBVIOUS
  <2>3. Frame(s, t) /\ t.pool = s.pool
    BY <2>2, <1>4 DEF Good, Shape, Frame
  <2>4. Good(Here, t)
    BY <2>3, <1>4, FrameStep
  <2>5. Becomes(MaybeSchedule(Submit(t, n, len, x), waited))
    BY <2>1, <2>2, <1>3
  <2> QED BY <2>4, <2>5, <1>2, <1>3, SubmitStep
<1>6. CASE ~agentMode
  <2>1. Becomes(MaybeSchedule(Submit(s, n, len, NoSession), waited))
    BY <1>1, <1>3, <1>6
  <2> QED BY <2>1, <1>2, <1>3, <1>4, SubmitStep
<1> QED
  BY <1>5, <1>6

LEMMA DecodeReadyKeeps ==
  ASSUME IInv, DecodeReady
  PROVE  IInv'
<1>1. PICK e \in events : Becomes(OnPrefillComplete(Popped(e), e.reqs))
  BY DEF DecodeReady
<1>2. PICK s, t : s = Popped(e) /\ t = OnPrefillComplete(s, e.reqs)
  OBVIOUS
<1>3. Good(Here, s) /\ e.reqs \in Seq(Here.known)
  BY <1>2, PoppedSound DEF BatchSound
<1>4. Good(Here, t)
  BY <1>2, <1>3, OnPrefillCompleteSound
<1>5. Becomes(t) /\ phase' = phase
  BY <1>1, <1>2 DEF DecodeReady
<1> QED
  BY <1>4, <1>5, PlainStep

LEMMA BatchCompleteKeeps ==
  ASSUME IInv, BatchComplete
  PROVE  IInv'
<1>1. PICK e \in events, waited \in BOOLEAN :
        LET s == IF e.kind = "PREFILL" THEN AfterPrefill(Popped(e))
                                       ELSE AfterDecode(Popped(e), e.reqs)
        IN  Becomes(MaybeSchedule(s, waited))
  BY DEF BatchComplete
<1>2. PICK p : p = Popped(e)
  OBVIOUS
<1>3. Good(Here, p) /\ e.reqs \in Seq(Here.known)
  BY <1>2, PoppedSound DEF BatchSound
<1>4. PICK s : s = IF e.kind = "PREFILL" THEN AfterPrefill(p) ELSE AfterDecode(p, e.reqs)
  OBVIOUS
<1>5. ASSUME e.kind = "PREFILL" PROVE Good(Here, s)
  <2>1. s = [p EXCEPT !.inFlight = MinusFloor(p.inFlight)]
    BY <1>4, <1>5 DEF AfterPrefill
  <2>2. Frame(p, s) /\ s.pool = p.pool
    BY <2>1, <1>3 DEF Good, Shape, Frame
  <2> QED BY <2>2, <1>3, FrameStep
<1>6. ASSUME e.kind # "PREFILL" PROVE Good(Here, s)
  <2>1. s = FinishTurns(OnDecodeStep(p, e.reqs), e.reqs)
    BY <1>4, <1>6 DEF AfterDecode
  <2>2. Good(Here, OnDecodeStep(p, e.reqs))
    BY <1>3, OnDecodeStepSound
  <2> QED BY <2>1, <2>2, <1>3, FinishTurnsSound
<1>7. Good(Here, s)
  BY <1>5, <1>6
<1>8. PICK t : t = MaybeSchedule(s, waited)
  OBVIOUS
<1>9. Becomes(t) /\ phase' = phase
  BY <1>1, <1>2, <1>4, <1>8 DEF BatchComplete
<1> QED
  BY <1>7, <1>8, <1>9, MaybeScheduleSound, PlainStep

LEMMA AgentNextTurnKeeps ==
  ASSUME IInv, AgentNextTurn
  PROVE  IInv'
<1>1. PICK x \in Sessions, waited \in BOOLEAN :
        /\ NextId <= MaxRequests
        /\ LET s == [Now EXCEPT !.nextTurns[x] = @ - 1]
               t == IF sess[x].done < Turns THEN Submit(s, NextId, DeltaPrompt, x) ELSE s
           IN  Becomes(MaybeSchedule(t, waited))
  BY DEF AgentNextTurn
<1>2. PICK p, n, s : p = Now /\ n = NextId /\ s = [Now EXCEPT !.nextTurns[x] = @ - 1]
  OBVIOUS
<1>3. Good(Here, p)
  BY <1>2, NowSound
<1>4. Frame(p, s) /\ s.pool = p.pool
  <2>1. s = [p EXCEPT !.nextTurns[x] = @ - 1]
    BY <1>2
  <2> QED BY <2>1, <1>3 DEF Good, Shape, Frame
<1>5. Good(Here, s)
  BY <1>3, <1>4, FrameStep
<1>6. phase' = phase /\ NextId <= MaxRequests /\ DeltaPrompt \in Nat
  BY <1>1, ServingAssumption DEF AgentNextTurn
<1>7. CASE sess[x].done < Turns
  <2>1. Becomes(MaybeSchedule(Submit(s, n, DeltaPrompt, x), waited))
    BY <1>1, <1>2, <1>7
  <2> QED BY <2>1, <1>2, <1>5, <1>6, SubmitStep
<1>8. CASE ~(sess[x].done < Turns)
  <2>1. PICK t : t = MaybeSchedule(s, waited)
    OBVIOUS
  <2>2. Becomes(t)
    BY <2>1, <1>1, <1>2, <1>8
  <2>3. Good(Here, t)
    BY <2>1, <1>5, MaybeScheduleSound
  <2> QED BY <2>2, <2>3, <1>6, PlainStep
<1> QED
  BY <1>7, <1>8

LEMMA AgentNextTurnDrainKeeps ==
  ASSUME IInv, AgentNextTurnDrain
  PROVE  IInv'
<1>1. PICK x \in Sessions :
        LET s == [Now EXCEPT !.nextTurns[x] = @ - 1]
        IN  Becomes(IF sess[x].done < Turns THEN ReleaseTurns(s, x) ELSE s)
  BY DEF AgentNextTurnDrain
<1>2. PICK p, s, t : /\ p = Now /\ s = [Now EXCEPT !.nextTurns[x] = @ - 1]
                     /\ t = IF sess[x].done < Turns THEN ReleaseTurns(s, x) ELSE s
  OBVIOUS
<1>3. Good(Here, p)
  BY <1>2, NowSound
<1>4. Frame(p, s) /\ s.pool = p.pool
  <2>1. s = [p EXCEPT !.nextTurns[x] = @ - 1]
    BY <1>2
  <2> QED BY <2>1, <1>3 DEF Good, Shape, Frame
<1>5. Good(Here, s)
  BY <1>3, <1>4, FrameStep
<1>6. Good(Here, t)
  BY <1>2, <1>5, ReleaseTurnsSound
<1>7. Becomes(t) /\ phase' = phase
  BY <1>1, <1>2 DEF AgentNextTurnDrain
<1> QED
  BY <1>6, <1>7, PlainStep

LEMMA OpenAdmissionKeeps ==
  ASSUME IInv, OpenAdmission
  PROVE  IInv'
<1>1. PICK p, t : p = Now /\ t = [p EXCEPT !.admitOpen = TRUE]
  OBVIOUS
<1>2. Good(Here, p)
  BY <1>1, NowSound
<1>3. Frame(p, t) /\ t.pool = p.pool
  BY <1>1, <1>2 DEF Good, Shape, Frame
<1>4. Good(Here, t)
  BY <1>2, <1>3, FrameStep
<1>5. Becomes(t) /\ phase' = phase
  BY <1>1 DEF OpenAdmission
<1> QED
  BY <1>4, <1>5, PlainStep

(* The event that ends the run may be a batch: its requests stay busy.     *)
LEMMA EndRunKeeps ==
  ASSUME IInv, EndRun
  PROVE  IInv'
<1>1. PICK p : p = Now
  OBVIOUS
<1>2. Good(Here, p) /\ phase' = "drain" /\ FirstOnes(Submitted)
  BY <1>1, NowSound DEF EndRun, IInv
<1>3. PICK c : c = [known |-> Submitted, prompt |-> prompt, phase |-> "drain"]
  OBVIOUS
<1>4. c.known = Submitted /\ c.prompt = prompt /\ c.phase = "drain"
  BY <1>3
<1>5. Good(c, p)
  BY <1>2, <1>4, NowSound, SameContext
<1>6. FirstOnes(c.known) /\ (phase' = "run" => c.phase = "run")
  BY <1>2, <1>4
<1>7. CASE Becomes(Now)
  <2>1. Becomes(p)
    BY <1>1, <1>7
  <2> QED BY <2>1, <1>5, <1>6, StepTo
<1>8. CASE \E e \in events : Becomes([Now EXCEPT !.events = @ \ {e}])
  <2>1. PICK e \in events : Becomes([Now EXCEPT !.events = @ \ {e}])
    BY <1>8
  <2>2. PICK t : t = [p EXCEPT !.events = @ \ {e}]
    OBVIOUS
  <2>3. /\ Shape(t) /\ t.state = p.state /\ t.prefilling = p.prefilling
        /\ t.waiting = p.waiting /\ t.active = p.active /\ t.prompt = p.prompt
        /\ t.pool = p.pool /\ t.events = p.events \ {e} /\ t.busy = p.busy
    BY <2>2, <1>5 DEF Good, Shape
  <2>4. QueuesSound(c, t)
    BY <2>3, <1>5 DEF Good, QueuesSound
  <2>5. EventsSound(c, t)
    BY <2>3, <1>4, <1>5 DEF Good, EventsSound
  <2>6. Good(c, t)
    BY <2>3, <2>4, <2>5, <1>5 DEF Good
  <2>7. Becomes(t)
    BY <2>1, <2>2, <1>1
  <2> QED BY <2>6, <2>7, <1>6, StepTo
<1>9. CASE \E x \in Sessions : Becomes([Now EXCEPT !.nextTurns[x] = @ - 1])
  <2>1. PICK x \in Sessions : Becomes([Now EXCEPT !.nextTurns[x] = @ - 1])
    BY <1>9
  <2>2. PICK t : t = [p EXCEPT !.nextTurns[x] = @ - 1]
    OBVIOUS
  <2>3. Frame(p, t) /\ t.pool = p.pool
    BY <2>2, <1>5 DEF Good, Shape, Frame
  <2>4. Good(c, t)
    BY <2>3, <1>5, FrameStep
  <2>5. Becomes(t)
    BY <2>1, <2>2, <1>1
  <2> QED BY <2>4, <2>5, <1>6, StepTo
<1> QED
  BY <1>7, <1>8, <1>9 DEF EndRun

LEMMA DrainTurnKeeps ==
  ASSUME IInv, DrainTurn
  PROVE  IInv'
<1>1. PICK open, waited \in BOOLEAN :
        Becomes(MaybeSchedule([Now EXCEPT !.admitOpen = open], waited))
  BY DEF DrainTurn
<1>2. PICK p, s, t : /\ p = Now /\ s = [p EXCEPT !.admitOpen = open]
                     /\ t = MaybeSchedule(s, waited)
  OBVIOUS
<1>3. Good(Here, p)
  BY <1>2, NowSound
<1>4. Frame(p, s) /\ s.pool = p.pool
  BY <1>2, <1>3 DEF Good, Shape, Frame
<1>5. Good(Here, t)
  BY <1>2, <1>3, <1>4, FrameStep, MaybeScheduleSound
<1>6. Becomes(t) /\ phase' = "flush"
  BY <1>1, <1>2 DEF DrainTurn
<1> QED
  BY <1>5, <1>6, PlainStep

LEMMA NextKeeps ==
  ASSUME IInv, [Next]_vars
  PROVE  IInv'
<1>1. CASE DrainTurnEnds \/ DrainEnds
  <2>1. PICK p : p = Now
    OBVIOUS
  <2>2. Good(Here, p)
    BY <2>1, NowSound
  <2>3. Becomes(p) /\ phase' # "run"
    BY <1>1, <2>1 DEF DrainTurnEnds, DrainEnds
  <2> QED BY <2>2, <2>3, PlainStep
<1>2. CASE Done \/ UNCHANGED vars
  <2>1. UNCHANGED vars
    BY <1>2 DEF Done
  <2> QED BY <2>1 DEF vars, IInv, Here, Now, Submitted
<1> QED
  BY <1>1, <1>2, ArriveKeeps, DecodeReadyKeeps, BatchCompleteKeeps, AgentNextTurnKeeps,
     AgentNextTurnDrainKeeps, OpenAdmissionKeeps, EndRunKeeps, DrainTurnKeeps DEF Next

-----------------------------------------------------------------------------
LEMMA SumZero == SumOf([r \in Requests |-> 0], Ids) = 0
<1>1. PICK f : f = [r \in Requests |-> 0]
  OBVIOUS
<1>2. PICK n : n = MaxRequests
  OBVIOUS
<1>3. /\ n \in Nat /\ DOMAIN Ids = 1 .. n /\ \A i \in 1 .. n : Ids[i] = i
      /\ Requests = 1 .. n
  BY <1>2, ServingAssumption DEF Ids, Requests
<1>4. PICK at : Partial(f, Ids, n, at) /\ SumOf(f, Ids) = at[n]
  BY <1>3, SumSteps
<1> DEFINE K == {i \in Nat : i <= n => at[i] = 0}
<1>5. 0 \in K
  BY <1>4 DEF Partial
<1>6. ASSUME NEW i \in Nat, i \in K PROVE i + 1 \in K
  <2>1. CASE i + 1 <= n
    <3>1. i + 1 \in 1 .. n /\ (i + 1) - 1 = i /\ i <= n
      BY <2>1, <1>3
    <3>2. at[i + 1] = at[i] + f[i + 1] /\ f[i + 1] = 0 /\ at[i] = 0
      BY <3>1, <1>1, <1>3, <1>4, <1>6 DEF Partial
    <3> QED BY <3>2
  <2> QED BY <2>1
<1>7. Nat \subseteq K
  <2> HIDE DEF K
  <2> QED BY <1>5, <1>6, Sums!SetInduction
<1> QED
  BY <1>1, <1>3, <1>4, <1>7

LEMMA InitKeeps ==
  ASSUME Init
  PROVE  IInv
<1>1. Submitted = {} /\ FirstOnes(Submitted)
  <2>1. Submitted = {}
    BY DEF Init, Submitted
  <2>2. 0 \in 0 .. MaxRequests /\ 1 .. 0 = {}
    BY ServingAssumption
  <2> QED BY <2>1, <2>2 DEF FirstOnes
<1>2. PICK c, s : c = Here /\ s = Now
  OBVIOUS
<1>3. /\ c.known = {} /\ c.prompt = [r \in Requests |-> 0]
      /\ Shape(s) /\ s.state = [r \in Requests |-> "NEW"] /\ s.prompt = c.prompt
      /\ s.waiting = <<>> /\ s.prefilling = <<>> /\ s.active = <<>>
      /\ s.pool = Pool!FullPool /\ s.busy = {} /\ s.events = {}
  BY <1>1, <1>2 DEF Init, Here, Now, Shape
<1>4. Context(c)
  BY <1>3 DEF Context
<1>5. QueuesSound(c, s)
  <2>1. <<>> \in Seq({}) /\ Len(<<>>) = 0
    OBVIOUS
  <2>2. 0 <= MaxPrefilling
    BY ServingAssumption
  <2>3. {r \in Requests : s.state[r] # "NEW"} = {}
    BY <1>3
  <2>4. s.state \in [Requests -> Statuses]
    BY <1>3 DEF Statuses
  <2> QED BY <2>1, <2>2, <2>3, <2>4, <1>3 DEF QueuesSound
<1>6. PoolSound(s.pool)
  BY <1>3, SumZero, ServingAssumption DEF PoolSound, Pool!FullPool
<1>7. EventsSound(c, s)
  BY <1>3 DEF EventsSound
<1>8. Good(c, s)
  BY <1>3, <1>4, <1>5, <1>6, <1>7 DEF Good
<1> QED
  BY <1>1, <1>2, <1>8 DEF IInv

LEMMA Invariance == Spec => []IInv
<1>1. Init => IInv
  BY InitKeeps
<1>2. IInv /\ [Next]_vars => IInv'
  BY NextKeeps
<1> QED
  BY <1>1, <1>2, PTL DEF Spec

(* No block is given out that is not there, and failed batches and their   *)
(* retries never make blocks appear: what model_runner.execute takes of    *)
(* the KV cache request by request is what the cache still has.            *)
THEOREM PoolNeverOverdrawn == Spec => []KVNeverOverdrawn
<1>1. IInv => KVNeverOverdrawn
  <2> SUFFICES ASSUME IInv PROVE KVNeverOverdrawn
    OBVIOUS
  <2>1. PICK p : p = pool
    OBVIOUS
  <2>2. PoolSound(p)
    BY <2>1, NowSound DEF Good, Now
  <2>3. KVHeld = SumOf(p.held, Ids)
    BY <2>1 DEF KVHeld, Ids
  <2>4. p.free \in Nat /\ p.held \in [Requests -> Nat] /\ p.free + SumOf(p.held, Ids) <= Capacity
    BY <2>2 DEF PoolSound
  <2>5. SumOf(p.held, Ids) \in Nat
    <3>1. MaxRequests \in Nat /\ DOMAIN Ids = 1 .. MaxRequests
          /\ \A i \in 1 .. MaxRequests : p.held[Ids[i]] \in Nat
      BY <2>4, ServingAssumption DEF Ids, Requests
    <3> QED BY <3>1, SumNat
  <2> QED BY <2>1, <2>3, <2>4, <2>5, ServingAssumption DEF KVNeverOverdrawn
<1> QED
  BY <1>1, Invariance, PTL

LEMMA BusyServed ==
  ASSUME IInv
  PROVE  BusyIsServed
<1> SUFFICES ASSUME phase = "run", NEW r \in busy
             PROVE  r \in InBatches("COMPLETE", "PREFILL") \cup InBatches("COMPLETE", "DECODE")
  BY DEF BusyIsServed
<1>1. EventsSound(Here, Now) /\ Here.phase = "run" /\ Now.busy = busy /\ Now.events = events
  BY NowSound DEF Good, Now
<1>2. PICK e \in events : e.on = "COMPLETE" /\ r \in ToSet(e.reqs)
  BY <1>1 DEF EventsSound, Awaited
<1>3. e.kind = "PREFILL" \/ e.kind = "DECODE"
  BY <1>1 DEF EventsSound, BatchSound
<1> QED
  BY <1>2, <1>3 DEF InBatches

(* During the run every request that _busy_ids hides from the scheduler is *)
(* one that a pending BATCH_COMPLETE will free, also after failed batches. *)
THEOREM EveryBusyIsServed == Spec => []BusyIsServed
<1>1. IInv => BusyIsServed
  BY BusyServed
<1> QED
  BY <1>1, Invariance, PTL

(* A prefill batch keeps to MAX_PREFILL_TOKENS unless it is a single       *)
(* request, from _schedule_prefill's greedy choice to its last event.      *)
THEOREM PrefillsWithinBudget == Spec => []PrefillBudget
<1>1. IInv => PrefillBudget
  <2> SUFFICES ASSUME IInv, NEW e \in events, e.kind = "PREFILL"
               PROVE  Len(e.reqs) = 1 \/ SumOf(prompt, e.reqs) <= MaxPrefillTokens
    BY DEF PrefillBudget
  <2>1. EventsSound(Here, Now) /\ Here.prompt = prompt /\ Now.events = events
    BY NowSound DEF Good, Now
  <2>2. WithinBudget(Here, e.reqs)
    BY <2>1 DEF EventsSound, BatchSound
  <2> QED BY <2>1, <2>2 DEF WithinBudget
<1> QED
  BY <1>1, Invariance, PTL

=============================================================================
