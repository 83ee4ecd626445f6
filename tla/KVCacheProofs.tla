---------------------------- MODULE KVCacheProofs ----------------------------
(***************************************************************************)
(* Theorems about KVCache, for every set of requests, every number of      *)
(* chips and blocks and every prompt length.                               *)
(***************************************************************************)
EXTENDS KVCache, FiniteSetTheorems, TLAPS

(* The part of TypeOK and Bookkeeping that is about one chip.              *)
Sound(ch) ==
  /\ ch \in ChipType
  /\ \A b \in Blocks :
       IF b \in ch.used
       THEN ch.free[b] = 0 /\ ch.ref[b] = 1 /\ b \in ch.lru
       ELSE ch.free[b] = 1 /\ ch.ref[b] = 0 /\ b \notin ch.lru

(* LockStep is part of the invariant because the call that raises without  *)
(* a rollback is harmless only in lock step.                               *)
IInv == TypeOK /\ Bookkeeping /\ Isolation /\ LockStep

(* Taking free blocks keeps a chip sound, and they were not in use.        *)
LEMMA TakeSound ==
  ASSUME NEW ch, Sound(ch), NEW T \in SUBSET Avail(ch)
  PROVE  /\ Sound(Take(ch, T))
         /\ Take(ch, T).used = ch.used \cup T
         /\ T \cap ch.used = {}
BY DEF Sound, ChipType, Avail, Take

(* Giving blocks back keeps a chip sound, whatever the blocks.             *)
LEMMA GiveSound ==
  ASSUME NEW ch, Sound(ch), NEW R \in SUBSET Blocks
  PROVE  /\ Sound(Give(ch, R))
         /\ Give(ch, R).used = ch.used \ R
BY DEF Sound, ChipType, Give

(* A rollback undoes what was taken exactly.                               *)
LEMMA RollbackUndoes ==
  ASSUME NEW ch, Sound(ch), NEW T \in SUBSET Avail(ch)
  PROVE  Give(Take(ch, T), T) = ch
<1> DEFINE u == Give(Take(ch, T), T)
<1>1. u.free = ch.free
  BY DEF Sound, ChipType, Avail, Take, Give
<1>2. u.ref = ch.ref
  BY DEF Sound, ChipType, Avail, Take, Give
<1>3. u.used = ch.used /\ u.lru = ch.lru
  BY DEF Sound, ChipType, Avail, Take, Give
<1> QED
  BY <1>1, <1>2, <1>3 DEF Sound, ChipType, Give

(* No block is ever evictable: a decode step gets a free block or none.    *)
LEMMA NothingEvictable ==
  ASSUME NEW ch, Sound(ch)
  PROVE  Grabbable(ch) = Avail(ch)
BY DEF Sound, ChipType, Grabbable, Evictable, Avail

LEMMA FullChip ==
  ASSUME NEW ch, Sound(ch)
  PROVE  Grabbable(ch) = {} <=> ch.used = Blocks
<1>1. Avail(ch) = Blocks \ ch.used
  BY DEF Sound, ChipType, Avail
<1>2. ch.used \subseteq Blocks
  BY DEF Sound, ChipType
<1> QED
  BY <1>1, <1>2, NothingEvictable

LEMMA GrabIsTake ==
  ASSUME NEW ch, Sound(ch), NEW b \in Grabbable(ch)
  PROVE  Grab(ch, b) = Take(ch, {b}) /\ {b} \in SUBSET Avail(ch)
BY NothingEvictable DEF Grab, Grabbable

(* TypeOK and Bookkeeping, chip by chip.                                   *)
LEMMA SoundChips ==
  TypeOK /\ Bookkeeping <=>
    /\ chip \in [Chips -> ChipType]
    /\ \A c \in Chips : Sound(chip[c])
    /\ seqBlocks \in [Requests -> [ChipIds -> SUBSET Blocks]]
    /\ raised \in {"no", "prefill", "decode"}
BY DEF TypeOK, Bookkeeping, Sound

LEMMA ShardsAreChips == ChipIds \subseteq Chips
BY KVAssumption DEF ChipIds, Chips

LEMMA InitIInv == Init => IInv
BY ShardsAreChips
   DEF Init, IInv, TypeOK, Bookkeeping, Isolation, LockStep, ChipType

(* Counting blocks: sets that are disjoint add up, subsets subtract.       *)
LEMMA CountTaken ==
  ASSUME NEW U \in SUBSET Blocks, NEW T \in SUBSET Blocks, T \cap U = {}
  PROVE  /\ Cardinality(U) \in Nat /\ Cardinality(T) \in Nat
         /\ Cardinality(U \cup T) = Cardinality(U) + Cardinality(T)
<1>1. IsFiniteSet(U) /\ IsFiniteSet(T)
  BY FS_Subset, KVAssumption
<1>2. Cardinality(U) \in Nat /\ Cardinality(T) \in Nat
  BY <1>1, FS_CardinalityType
<1>3. Cardinality(U \cap T) = 0
  <2>1. U \cap T = {}
    OBVIOUS
  <2> QED
    BY <2>1, FS_EmptySet
<1>4. Cardinality(U \cup T) = Cardinality(U) + Cardinality(T) - Cardinality(U \cap T)
  BY <1>1, FS_Union
<1> QED
  BY <1>2, <1>3, <1>4

LEMMA CountGiven ==
  ASSUME NEW U \in SUBSET Blocks, NEW R \in SUBSET U
  PROVE  /\ Cardinality(U) \in Nat /\ Cardinality(R) \in Nat
         /\ Cardinality(U \ R) = Cardinality(U) - Cardinality(R)
<1>1. IsFiniteSet(U) /\ IsFiniteSet(R)
  BY FS_Subset, KVAssumption
<1>2. U \cap R = R
  OBVIOUS
<1> QED
  BY <1>1, <1>2, FS_Difference, FS_CardinalityType

(***************************************************************************)
(* Each call keeps IInv.  In all of them the chips that change go through  *)
(* Take or Give, and only the record of request r changes.                 *)
(***************************************************************************)
LEMMA IsolationKept ==
  ASSUME Isolation, TypeOK,
         NEW r \in Requests,
         NEW S, NEW T,           \* r's new record, and the blocks just taken
         \A c \in ChipIds :
           /\ chip'[c].used = chip[c].used \cup T[c]
           /\ T[c] \cap chip[c].used = {}
           /\ S[c] \subseteq seqBlocks[r][c] \cup T[c],
         seqBlocks' = [seqBlocks EXCEPT ![r] = S]
  PROVE  Isolation'
<1> SUFFICES ASSUME NEW p \in Requests, NEW c \in ChipIds
             PROVE  /\ seqBlocks'[p][c] \subseteq chip'[c].used
                    /\ \A q \in Requests \ {p} :
                         seqBlocks'[q][c] \cap seqBlocks'[p][c] = {}
  BY DEF Isolation
<1>1. \A q \in Requests : seqBlocks'[q] = IF q = r THEN S ELSE seqBlocks[q]
  BY DEF TypeOK
<1>2. \A q \in Requests : seqBlocks[q][c] \subseteq chip[c].used
  BY DEF Isolation
<1>3. \A q \in Requests \ {p} : seqBlocks[q][c] \cap seqBlocks[p][c] = {}
  BY DEF Isolation
<1>4. \A q \in Requests \ {r} : seqBlocks[q][c] \cap S[c] = {}
  <2>1. \A q \in Requests \ {r} : seqBlocks[q][c] \cap seqBlocks[r][c] = {}
    BY DEF Isolation
  <2> QED
    BY <1>2, <2>1
<1>5. seqBlocks'[p][c] \subseteq chip'[c].used
  BY <1>1, <1>2
<1>6. ASSUME NEW q \in Requests \ {p}
      PROVE  seqBlocks'[q][c] \cap seqBlocks'[p][c] = {}
  BY <1>1, <1>3, <1>4
<1> QED
  BY <1>5, <1>6

LEMMA PrefillIInv ==
  ASSUME NEW r \in Requests, IInv, AllocatePrefill(r)
  PROVE  IInv'
<1>1. PICK len \in PromptLens, T \in [ChipIds -> SUBSET Blocks] :
        /\ \A c \in ChipIds : /\ T[c] \subseteq Avail(chip[c])
                              /\ Cardinality(T[c]) = BlocksPerChip(len)
        /\ chip' = [c \in Chips |->
                      IF c \in ChipIds THEN Take(chip[c], T[c]) ELSE chip[c]]
        /\ seqBlocks' = [seqBlocks EXCEPT ![r] = T]
        /\ raised' = "no"
  BY DEF AllocatePrefill
<1>2. \A c \in Chips : Sound(chip[c])
  BY SoundChips DEF IInv
<1>3. ASSUME NEW c \in ChipIds
      PROVE  /\ Sound(chip'[c])
             /\ chip'[c].used = chip[c].used \cup T[c]
             /\ T[c] \cap chip[c].used = {}
  BY <1>1, <1>2, <1>3, TakeSound, ShardsAreChips
<1>4. \A c \in Chips : Sound(chip'[c])
  BY <1>1, <1>2, <1>3
<1>5. (TypeOK /\ Bookkeeping)'
  <2>1. chip' \in [Chips -> ChipType]
    BY <1>1, <1>4 DEF Sound
  <2>2. seqBlocks' \in [Requests -> [ChipIds -> SUBSET Blocks]]
    BY <1>1 DEF IInv, TypeOK
  <2> QED
    BY <1>1, <1>4, <2>1, <2>2 DEF TypeOK, Bookkeeping, Sound
<1>6. Isolation'
  BY <1>1, <1>3, IsolationKept DEF IInv
<1>7. LockStep'
  <2> SUFFICES ASSUME NEW c \in ChipIds, NEW d \in ChipIds
               PROVE  /\ Cardinality(chip'[c].used) = Cardinality(chip'[d].used)
                      /\ \A p \in Requests :
                           Cardinality(seqBlocks'[p][c]) = Cardinality(seqBlocks'[p][d])
    BY DEF LockStep
  <2>1. ASSUME NEW e \in ChipIds
        PROVE  Cardinality(chip'[e].used) = Cardinality(chip[e].used) + Cardinality(T[e])
    <3>1. chip[e].used \in SUBSET Blocks /\ T[e] \in SUBSET Blocks
      BY <1>2, ShardsAreChips DEF Sound, ChipType
    <3> QED
      BY <1>3, <3>1, CountTaken
  <2>2. Cardinality(T[c]) = Cardinality(T[d])
    BY <1>1
  <2>3. Cardinality(chip'[c].used) = Cardinality(chip'[d].used)
    BY <2>1, <2>2 DEF IInv, LockStep
  <2>4. ASSUME NEW p \in Requests
        PROVE  Cardinality(seqBlocks'[p][c]) = Cardinality(seqBlocks'[p][d])
    BY <1>1, <2>2 DEF IInv, LockStep, TypeOK
  <2> QED
    BY <2>3, <2>4
<1> QED
  BY <1>5, <1>6, <1>7 DEF IInv

LEMMA PrefillRaisesUnchanged ==
  ASSUME NEW r \in Requests, IInv, AllocatePrefillRaises(r)
  PROVE  chip' = chip /\ seqBlocks' = seqBlocks /\ raised' = "prefill"
<1>1. PICK k \in ChipIds, T \in [ChipIds -> SUBSET Blocks] :
        /\ T[k] = Avail(chip[k])
        /\ \A c \in 0 .. k - 1 : T[c] \subseteq Avail(chip[c])
        /\ chip' = [c \in Chips |->
                      IF c \in 0 .. k THEN Give(Take(chip[c], T[c]), T[c]) ELSE chip[c]]
        /\ raised' = "prefill"
        /\ seqBlocks' = seqBlocks
  BY DEF AllocatePrefillRaises
<1>2. \A c \in Chips : Sound(chip[c])
  BY SoundChips DEF IInv
<1>3. ASSUME NEW c \in Chips, c \in 0 .. k
      PROVE  T[c] \in SUBSET Avail(chip[c])
  BY <1>1, <1>3, KVAssumption DEF Chips, ChipIds
<1>4. \A c \in Chips : chip'[c] = chip[c]
  BY <1>1, <1>2, <1>3, RollbackUndoes
<1> QED
  BY <1>1, <1>4 DEF IInv, TypeOK

LEMMA DecodeIInv ==
  ASSUME NEW r \in Requests, IInv, AllocateDecode(r)
  PROVE  IInv'
<1>1. PICK g \in [ChipIds -> Blocks] :
        /\ \A c \in ChipIds : g[c] \in Grabbable(chip[c])
        /\ chip' = [c \in Chips |->
                      IF c \in ChipIds THEN Grab(chip[c], g[c]) ELSE chip[c]]
        /\ seqBlocks' = [seqBlocks EXCEPT ![r] = [c \in ChipIds |-> @[c] \cup {g[c]}]]
        /\ raised' = "no"
  BY DEF AllocateDecode
<1>2. \A c \in Chips : Sound(chip[c])
  BY SoundChips DEF IInv
<1>3. ASSUME NEW c \in ChipIds
      PROVE  /\ Sound(chip'[c])
             /\ chip'[c].used = chip[c].used \cup {g[c]}
             /\ {g[c]} \cap chip[c].used = {}
  <2>1. Sound(chip[c]) /\ chip'[c] = Grab(chip[c], g[c]) /\ g[c] \in Grabbable(chip[c])
    BY <1>1, <1>2, ShardsAreChips
  <2>2. chip'[c] = Take(chip[c], {g[c]}) /\ {g[c]} \in SUBSET Avail(chip[c])
    BY <2>1, GrabIsTake
  <2> QED
    BY <2>1, <2>2, TakeSound
<1>4. \A c \in Chips : Sound(chip'[c])
  BY <1>1, <1>2, <1>3
<1>5. (TypeOK /\ Bookkeeping)'
  <2>1. chip' \in [Chips -> ChipType]
    BY <1>1, <1>4 DEF Sound
  <2>2. seqBlocks' \in [Requests -> [ChipIds -> SUBSET Blocks]]
    BY <1>1 DEF IInv, TypeOK
  <2> QED
    BY <1>1, <1>4, <2>1, <2>2 DEF TypeOK, Bookkeeping, Sound
<1>6. Isolation'
  <2> DEFINE S == [c \in ChipIds |-> seqBlocks[r][c] \cup {g[c]}]
             T == [c \in ChipIds |-> {g[c]}]
  <2>1. seqBlocks' = [seqBlocks EXCEPT ![r] = S]
    BY <1>1
  <2>2. \A c \in ChipIds :
          /\ chip'[c].used = chip[c].used \cup T[c]
          /\ T[c] \cap chip[c].used = {}
          /\ S[c] \subseteq seqBlocks[r][c] \cup T[c]
    BY <1>3
  <2> HIDE DEF S, T
  <2> QED
    BY <2>1, <2>2, IsolationKept DEF IInv
<1>7. LockStep'
  <2> SUFFICES ASSUME NEW c \in ChipIds, NEW d \in ChipIds
               PROVE  /\ Cardinality(chip'[c].used) = Cardinality(chip'[d].used)
                      /\ \A p \in Requests :
                           Cardinality(seqBlocks'[p][c]) = Cardinality(seqBlocks'[p][d])
    BY DEF LockStep
  <2>1. ASSUME NEW e \in ChipIds
        PROVE  /\ Cardinality(chip'[e].used) = Cardinality(chip[e].used) + 1
               /\ Cardinality(seqBlocks[r][e] \cup {g[e]}) = Cardinality(seqBlocks[r][e]) + 1
    <3>1. /\ chip[e].used \in SUBSET Blocks
          /\ seqBlocks[r][e] \subseteq chip[e].used
          /\ {g[e]} \in SUBSET Blocks
      BY <1>2, ShardsAreChips DEF Sound, ChipType, IInv, Isolation
    <3>2. Cardinality({g[e]}) = 1
      BY FS_Singleton
    <3>3. Cardinality(chip[e].used \cup {g[e]}) = Cardinality(chip[e].used) + 1
      BY <1>3, <3>1, <3>2, CountTaken
    <3>4. Cardinality(seqBlocks[r][e] \cup {g[e]}) = Cardinality(seqBlocks[r][e]) + 1
      <4>1. seqBlocks[r][e] \in SUBSET Blocks /\ {g[e]} \cap seqBlocks[r][e] = {}
        BY <1>3, <3>1
      <4> QED
        BY <3>1, <3>2, <4>1, CountTaken
    <3> QED
      BY <1>3, <3>3, <3>4
  <2>2. Cardinality(chip'[c].used) = Cardinality(chip'[d].used)
    BY <2>1 DEF IInv, LockStep
  <2>3. ASSUME NEW p \in Requests
        PROVE  Cardinality(seqBlocks'[p][c]) = Cardinality(seqBlocks'[p][d])
    <3>1. CASE p = r
      <4>1. \A e \in ChipIds : seqBlocks'[r][e] = seqBlocks[r][e] \cup {g[e]}
        BY <1>1 DEF IInv, TypeOK
      <4> QED
        BY <2>1, <3>1, <4>1 DEF IInv, LockStep
    <3>2. CASE p # r
      BY <1>1, <3>2 DEF IInv, LockStep, TypeOK
    <3> QED
      BY <3>1, <3>2
  <2> QED
    BY <2>2, <2>3
<1> QED
  BY <1>5, <1>6, <1>7 DEF IInv

LEMMA DecodeRaisesUnchanged ==
  ASSUME NEW r \in Requests, IInv, AllocateDecodeRaises(r)
  PROVE  chip' = chip /\ seqBlocks' = seqBlocks /\ raised' = "decode"
<1>0. PICK k \in ChipIds : \E g \in [0 .. k - 1 -> Blocks] :
        /\ Grabbable(chip[k]) = {}
        /\ \A c \in 0 .. k - 1 : g[c] \in Grabbable(chip[c])
        /\ chip' = [c \in Chips |->
                      IF c \in 0 .. k - 1 THEN Grab(chip[c], g[c]) ELSE chip[c]]
        /\ raised' = "decode"
        /\ seqBlocks' = seqBlocks
  BY DEF AllocateDecodeRaises
<1>1. PICK g \in [0 .. k - 1 -> Blocks] :
        /\ Grabbable(chip[k]) = {}
        /\ \A c \in 0 .. k - 1 : g[c] \in Grabbable(chip[c])
        /\ chip' = [c \in Chips |->
                      IF c \in 0 .. k - 1 THEN Grab(chip[c], g[c]) ELSE chip[c]]
        /\ raised' = "decode"
        /\ seqBlocks' = seqBlocks
  BY <1>0
<1>2. \A c \in Chips : Sound(chip[c])
  BY SoundChips DEF IInv
<1>3. 0 \in ChipIds /\ k \in Nat
  BY KVAssumption DEF ChipIds
(* A chip with nothing to give has all its blocks in use.                  *)
<1>4. \A c \in ChipIds : chip[c].used \in SUBSET Blocks
  BY <1>2, ShardsAreChips DEF Sound, ChipType
<1>5. \A c \in ChipIds : Grabbable(chip[c]) = {} <=> chip[c].used = Blocks
  BY <1>2, FullChip, ShardsAreChips
<1>6. Cardinality(chip[0].used) = Cardinality(Blocks)
  BY <1>1, <1>3, <1>5 DEF IInv, LockStep
<1>7. Grabbable(chip[0]) = {}
  BY <1>3, <1>4, <1>5, <1>6, FS_Subset, KVAssumption
<1>8. k = 0
  BY <1>1, <1>3, <1>7
<1>9. \A c \in Chips : chip'[c] = chip[c]
  BY <1>1, <1>8
<1> QED
  BY <1>1, <1>9 DEF IInv, TypeOK


LEMMA FreeRequestIInv ==
  ASSUME NEW r \in Requests, IInv, FreeRequest(r)
  PROVE  IInv'
<1>1. \A c \in Chips : Sound(chip[c])
  BY SoundChips DEF IInv
<1>2. ASSUME NEW c \in ChipIds
      PROVE  /\ Sound(chip'[c])
             /\ chip'[c].used = chip[c].used \ seqBlocks[r][c]
  <2>1. Sound(chip[c]) /\ chip'[c] = Give(chip[c], seqBlocks[r][c])
    BY <1>1, ShardsAreChips DEF FreeRequest
  <2>2. seqBlocks[r][c] \in SUBSET Blocks
    BY DEF IInv, TypeOK
  <2> QED
    BY <2>1, <2>2, GiveSound
<1>3. \A c \in Chips : Sound(chip'[c])
  BY <1>1, <1>2 DEF FreeRequest
<1>4. (TypeOK /\ Bookkeeping)'
  <2>1. chip' \in [Chips -> ChipType]
    BY <1>3 DEF FreeRequest, Sound
  <2>2. seqBlocks' \in [Requests -> [ChipIds -> SUBSET Blocks]]
    BY DEF FreeRequest, IInv, TypeOK
  <2> QED
    BY <1>3, <2>1, <2>2 DEF FreeRequest, TypeOK, Bookkeeping, Sound
<1>5. Isolation'
  <2> SUFFICES ASSUME NEW p \in Requests, NEW c \in ChipIds
               PROVE  /\ seqBlocks'[p][c] \subseteq chip'[c].used
                      /\ \A q \in Requests \ {p} :
                           seqBlocks'[q][c] \cap seqBlocks'[p][c] = {}
    BY DEF Isolation
  <2>1. \A q \in Requests : seqBlocks'[q][c] = IF q = r THEN {} ELSE seqBlocks[q][c]
    BY DEF FreeRequest, IInv, TypeOK
  <2>2. \A q \in Requests : seqBlocks[q][c] \subseteq chip[c].used
    BY DEF IInv, Isolation
  <2>3. \A q, s \in Requests : q # s => seqBlocks[q][c] \cap seqBlocks[s][c] = {}
    BY DEF IInv, Isolation
  <2>4. seqBlocks'[p][c] \subseteq chip'[c].used
    BY <1>2, <2>1, <2>2, <2>3
  <2> QED
    BY <2>1, <2>3, <2>4
<1>6. LockStep'
  <2> SUFFICES ASSUME NEW c \in ChipIds, NEW d \in ChipIds
               PROVE  /\ Cardinality(chip'[c].used) = Cardinality(chip'[d].used)
                      /\ \A p \in Requests :
                           Cardinality(seqBlocks'[p][c]) = Cardinality(seqBlocks'[p][d])
    BY DEF LockStep
  <2>1. \A e \in ChipIds : Cardinality(chip'[e].used) =
                             Cardinality(chip[e].used) - Cardinality(seqBlocks[r][e])
    BY <1>1, <1>2, CountGiven, ShardsAreChips DEF Sound, ChipType, IInv, Isolation
  <2>2. Cardinality(chip'[c].used) = Cardinality(chip'[d].used)
    BY <2>1 DEF IInv, LockStep
  <2>3. ASSUME NEW p \in Requests
        PROVE  Cardinality(seqBlocks'[p][c]) = Cardinality(seqBlocks'[p][d])
    BY DEF FreeRequest, IInv, LockStep, TypeOK
  <2> QED
    BY <2>2, <2>3
<1> QED
  BY <1>4, <1>5, <1>6 DEF IInv

(***************************************************************************)
(* The theorems.                                                           *)
(***************************************************************************)
LEMMA NextIInv == IInv /\ [Next]_vars => IInv'
<1> SUFFICES ASSUME IInv, [Next]_vars PROVE IInv'
  OBVIOUS
<1>1. ASSUME chip' = chip, seqBlocks' = seqBlocks,
             raised' \in {"no", "prefill", "decode"}
      PROVE  IInv'
  BY <1>1 DEF IInv, TypeOK, Bookkeeping, Isolation, LockStep
<1>2. ASSUME NEW r \in Requests, AllocatePrefill(r) PROVE IInv'
  BY <1>2, PrefillIInv
<1>3. ASSUME NEW r \in Requests, AllocatePrefillRaises(r) PROVE IInv'
  BY <1>1, <1>3, PrefillRaisesUnchanged
<1>4. ASSUME NEW r \in Requests, AllocateDecode(r) PROVE IInv'
  BY <1>4, DecodeIInv
<1>5. ASSUME NEW r \in Requests, AllocateDecodeRaises(r) PROVE IInv'
  BY <1>1, <1>5, DecodeRaisesUnchanged
<1>6. ASSUME NEW r \in Requests, FreeRequest(r) PROVE IInv'
  BY <1>6, FreeRequestIInv
<1>7. CASE UNCHANGED vars
  BY <1>1, <1>7 DEF vars, IInv, TypeOK
<1> QED
  BY <1>2, <1>3, <1>4, <1>5, <1>6, <1>7 DEF Next

THEOREM KVCacheInvariant == Spec => []IInv
<1> QED
  BY InitIInv, NextIInv, PTL DEF Spec

(* Every variable of the manager keeps its shape.                          *)
THEOREM KVCacheTypeOK == Spec => []TypeOK
<1>1. IInv => TypeOK
  BY DEF IInv
<1> QED
  BY <1>1, KVCacheInvariant, PTL

(* No block is ever lost, freed twice or allocated twice: the free lists,  *)
(* the allocated sets, the reference counts and the LRU lists agree.       *)
THEOREM KVCacheBookkeeping == Spec => []Bookkeeping
<1>1. IInv => Bookkeeping
  BY DEF IInv
<1> QED
  BY <1>1, KVCacheInvariant, PTL

(* No KV block is ever on the record of two requests.                      *)
THEOREM KVCacheIsolation == Spec => []Isolation
<1>1. IInv => Isolation
  BY DEF IInv
<1> QED
  BY <1>1, KVCacheInvariant, PTL

(* The chips of a cache always have equally many blocks in use.            *)
THEOREM KVCacheLockStep == Spec => []LockStep
<1>1. IInv => LockStep
  BY DEF IInv
<1> QED
  BY <1>1, KVCacheInvariant, PTL

(* A call that raises leaves every chip as it was, although a decode step  *)
(* that fails on a later chip would keep what it took from earlier ones.   *)
THEOREM KVCacheRaisingTakesNothing == Spec => RaisingTakesNothing
<1>1. IInv /\ [Next]_vars => [raised' # "no" => chip' = chip]_vars
  <2> SUFFICES ASSUME IInv, Next, raised' # "no" PROVE chip' = chip
    OBVIOUS
  <2>1. PICK r \in Requests : \/ AllocatePrefill(r)
                              \/ AllocatePrefillRaises(r)
                              \/ AllocateDecode(r)
                              \/ AllocateDecodeRaises(r)
                              \/ FreeRequest(r)
    BY DEF Next
  <2>2. AllocatePrefillRaises(r) \/ AllocateDecodeRaises(r)
    BY <2>1 DEF AllocatePrefill, AllocateDecode, FreeRequest
  <2> QED
    BY <2>2, PrefillRaisesUnchanged, DecodeRaisesUnchanged
<1> QED
  BY <1>1, KVCacheInvariant, PTL DEF Spec, RaisingTakesNothing

-----------------------------------------------------------------------------
(* KVCache implements KVPool, and the one way it loses blocks.  Chip 0     *)
(* stands for all the chips that hold KV: they run in lock step.           *)

LEMMA FirstShard == 0 \in ChipIds /\ 0 \in Chips
BY KVAssumption DEF ChipIds, Chips

(* The free blocks of a sound chip are those it has not allocated.         *)
LEMMA FreeCount ==
  ASSUME NEW ch, Sound(ch)
  PROVE  /\ ch.used \in SUBSET Blocks
         /\ Cardinality(ch.used) \in Nat
         /\ Cardinality(Blocks) \in Nat
         /\ Cardinality(Avail(ch)) \in Nat
         /\ Cardinality(Avail(ch)) = Cardinality(Blocks) - Cardinality(ch.used)
<1>1. ch.used \in SUBSET Blocks /\ Avail(ch) = Blocks \ ch.used
  BY DEF Sound, ChipType, Avail
<1>2. Avail(ch) \in SUBSET Blocks
  BY DEF Avail
<1> QED
  BY <1>1, <1>2, CountGiven

(* What a change of chip 0's allocated set does to the pool's free count.  *)
LEMMA FreeChange ==
  ASSUME NEW ch, Sound(ch), NEW dh, Sound(dh)
  PROVE  /\ \A T \in SUBSET Blocks :
              T \cap ch.used = {} /\ dh.used = ch.used \cup T
                => /\ Cardinality(T) \in Nat
                   /\ Cardinality(T) <= Cardinality(Avail(ch))
                   /\ Cardinality(Avail(dh)) = Cardinality(Avail(ch)) - Cardinality(T)
         /\ \A R \in SUBSET ch.used :
              dh.used = ch.used \ R
                => /\ Cardinality(R) \in Nat
                   /\ Cardinality(Avail(dh)) = Cardinality(Avail(ch)) + Cardinality(R)
<1>1. ASSUME NEW T \in SUBSET Blocks, T \cap ch.used = {}, dh.used = ch.used \cup T
      PROVE  /\ Cardinality(T) \in Nat
             /\ Cardinality(T) <= Cardinality(Avail(ch))
             /\ Cardinality(Avail(dh)) = Cardinality(Avail(ch)) - Cardinality(T)
  <2>1. Cardinality(T) \in Nat /\ Cardinality(dh.used) = Cardinality(ch.used) + Cardinality(T)
    BY <1>1, FreeCount, CountTaken
  <2> QED
    BY <2>1, FreeCount
<1>2. ASSUME NEW R \in SUBSET ch.used, dh.used = ch.used \ R
      PROVE  /\ Cardinality(R) \in Nat
             /\ Cardinality(Avail(dh)) = Cardinality(Avail(ch)) + Cardinality(R)
  <2>1. Cardinality(R) \in Nat /\ Cardinality(dh.used) = Cardinality(ch.used) - Cardinality(R)
    BY <1>2, FreeCount, CountGiven
  <2> QED
    BY <2>1, FreeCount
<1> QED
  BY <1>1, <1>2

-----------------------------------------------------------------------------
(* The pool that the manager's state stands for: see Pool in KVCache.      *)
mapped == [free |-> Cardinality(Avail(chip[0])),
           held |-> [r \in Requests |-> Cardinality(seqBlocks[r][0])]]

LEMMA MappedNext ==
  mapped' = [free |-> Cardinality(Avail(chip'[0])),
             held |-> [r \in Requests |-> Cardinality(seqBlocks'[r][0])]]
BY DEF mapped, Avail

LEMMA InitRefines == Init => Pool!Init
<1> SUFFICES ASSUME Init PROVE Pool!Init
  OBVIOUS
<1>1. Avail(chip[0]) = Blocks
  BY FirstShard DEF Init, Avail
<1>2. \A r \in Requests : Cardinality(seqBlocks[r][0]) = 0
  BY FirstShard, FS_EmptySet DEF Init
<1> QED
  BY <1>1, <1>2 DEF Pool!Init, Pool!FullPool

LEMMA PrefillRefines ==
  ASSUME NEW r \in Requests, IInv, AllocatePrefill(r)
  PROVE  Pool!Prefill(r)
<1>1. PICK len \in PromptLens, T \in [ChipIds -> SUBSET Blocks] :
        /\ \A c \in ChipIds : /\ T[c] \subseteq Avail(chip[c])
                              /\ Cardinality(T[c]) = BlocksPerChip(len)
        /\ chip' = [c \in Chips |->
                      IF c \in ChipIds THEN Take(chip[c], T[c]) ELSE chip[c]]
        /\ seqBlocks' = [seqBlocks EXCEPT ![r] = T]
  BY DEF AllocatePrefill
<1> DEFINE n == BlocksPerChip(len)
<1>2. Sound(chip[0]) /\ Sound(chip'[0])
  BY PrefillIInv, SoundChips, FirstShard DEF IInv, TypeOK, Bookkeeping, Sound
<1>3. chip'[0].used = chip[0].used \cup T[0] /\ T[0] \cap chip[0].used = {}
  BY <1>1, <1>2, TakeSound, FirstShard
<1>4. /\ n <= Cardinality(Avail(chip[0]))
      /\ Cardinality(Avail(chip'[0])) = Cardinality(Avail(chip[0])) - n
  BY <1>1, <1>2, <1>3, FreeChange, FirstShard
<1>5. \A p \in Requests :
        Cardinality(seqBlocks'[p][0]) = IF p = r THEN n ELSE Cardinality(seqBlocks[p][0])
  BY <1>1, FirstShard DEF IInv, TypeOK
<1>6. n \in {BlocksPerChip(l) : l \in PromptLens}
  OBVIOUS
<1> HIDE DEF n
<1>7. n <= mapped.free /\ mapped' = [free |-> mapped.free - n,
                                               held |-> [mapped.held EXCEPT ![r] = n]]
  <2> DEFINE H == [p \in Requests |-> Cardinality(seqBlocks[p][0])]
  <2>1. mapped = [free |-> Cardinality(Avail(chip[0])), held |-> H]
    BY DEF mapped
  <2>2. [p \in Requests |-> Cardinality(seqBlocks'[p][0])] = [H EXCEPT ![r] = n]
    BY <1>5
  <2>3. mapped' = [free |-> Cardinality(Avail(chip[0])) - n, held |-> [H EXCEPT ![r] = n]]
    BY <2>2, <1>4, MappedNext
  <2> HIDE DEF H
  <2> QED
    BY <2>1, <2>3, <1>4
<1> QED
  BY <1>6, <1>7 DEF Pool!Prefill, Pool!PrefillFits, Pool!TakePrefill, mapped

LEMMA DecodeRefines ==
  ASSUME NEW r \in Requests, IInv, AllocateDecode(r)
  PROVE  Pool!Decode(r)
<1>1. PICK g \in [ChipIds -> Blocks] :
        /\ \A c \in ChipIds : g[c] \in Grabbable(chip[c])
        /\ chip' = [c \in Chips |->
                      IF c \in ChipIds THEN Grab(chip[c], g[c]) ELSE chip[c]]
        /\ seqBlocks' = [seqBlocks EXCEPT ![r] = [c \in ChipIds |-> @[c] \cup {g[c]}]]
  BY DEF AllocateDecode
<1>2. Sound(chip[0]) /\ Sound(chip'[0])
  BY DecodeIInv, SoundChips, FirstShard DEF IInv, TypeOK, Bookkeeping, Sound
<1>3. chip'[0].used = chip[0].used \cup {g[0]} /\ {g[0]} \cap chip[0].used = {}
  <2>1. chip'[0] = Take(chip[0], {g[0]}) /\ {g[0]} \in SUBSET Avail(chip[0])
    BY <1>1, <1>2, GrabIsTake, FirstShard
  <2> QED
    BY <1>2, <2>1, TakeSound
<1>4. {g[0]} \in SUBSET Blocks /\ Cardinality({g[0]}) = 1
  <2>1. g[0] \in Blocks
    BY <1>1, FirstShard
  <2>2. Cardinality({g[0]}) = 1
    BY FS_Singleton
  <2> QED
    BY <2>1, <2>2
<1>5. /\ Cardinality(Avail(chip[0])) \in Nat
      /\ 1 <= Cardinality(Avail(chip[0]))
      /\ Cardinality(Avail(chip'[0])) = Cardinality(Avail(chip[0])) - 1
  <2>1. /\ Cardinality({g[0]}) <= Cardinality(Avail(chip[0]))
        /\ Cardinality(Avail(chip'[0])) = Cardinality(Avail(chip[0])) - Cardinality({g[0]})
    BY <1>2, <1>3, <1>4, FreeChange
  <2>2. Cardinality(Avail(chip[0])) \in Nat
    BY <1>2, FreeCount
  <2> QED
    BY <1>4, <2>1, <2>2
<1>6. Cardinality(seqBlocks[r][0] \cup {g[0]}) = Cardinality(seqBlocks[r][0]) + 1
  <2>1. seqBlocks[r][0] \in SUBSET Blocks /\ seqBlocks[r][0] \subseteq chip[0].used
    BY FirstShard DEF IInv, TypeOK, Isolation
  <2>2. {g[0]} \cap seqBlocks[r][0] = {}
    BY <1>3, <2>1
  <2> QED
    BY <1>4, <2>1, <2>2, CountTaken
<1>7. \A p \in Requests :
        Cardinality(seqBlocks'[p][0]) =
          IF p = r THEN Cardinality(seqBlocks[p][0]) + 1 ELSE Cardinality(seqBlocks[p][0])
  <2>1. \A p \in Requests :
          seqBlocks'[p][0] = IF p = r THEN seqBlocks[p][0] \cup {g[0]} ELSE seqBlocks[p][0]
    BY <1>1, FirstShard DEF IInv, TypeOK
  <2> QED
    BY <1>6, <2>1
<1>8. mapped.free > 0 /\ mapped' = [free |-> mapped.free - 1,
                                              held |-> [mapped.held EXCEPT ![r] = @ + 1]]
  <2> DEFINE H == [p \in Requests |-> Cardinality(seqBlocks[p][0])]
  <2>1. mapped = [free |-> Cardinality(Avail(chip[0])), held |-> H]
    BY DEF mapped
  <2>2. [p \in Requests |-> Cardinality(seqBlocks'[p][0])] = [H EXCEPT ![r] = @ + 1]
    BY <1>7
  <2>3. mapped' = [free |-> Cardinality(Avail(chip[0])) - 1, held |-> [H EXCEPT ![r] = @ + 1]]
    BY <2>2, <1>5, MappedNext
  <2> HIDE DEF H
  <2> QED
    BY <2>1, <2>3, <1>5
<1> QED
  BY <1>8 DEF Pool!Decode, Pool!DecodeFits, Pool!TakeDecode, mapped

LEMMA FreeRequestRefines ==
  ASSUME NEW r \in Requests, IInv, FreeRequest(r)
  PROVE  Pool!FreeRequest(r)
<1>1. Sound(chip[0]) /\ Sound(chip'[0])
  BY FreeRequestIInv, SoundChips, FirstShard DEF IInv, TypeOK, Bookkeeping, Sound
<1>2. seqBlocks[r][0] \in SUBSET Blocks /\ seqBlocks[r][0] \subseteq chip[0].used
  BY FirstShard DEF IInv, TypeOK, Isolation
<1>3. chip'[0].used = chip[0].used \ seqBlocks[r][0]
  BY <1>1, <1>2, GiveSound, FirstShard DEF FreeRequest
<1>4. Cardinality(Avail(chip'[0])) =
        Cardinality(Avail(chip[0])) + Cardinality(seqBlocks[r][0])
  <2>1. PICK ch, dh : ch = chip[0] /\ dh = chip'[0]
    OBVIOUS
  <2>2. Sound(ch) /\ Sound(dh)
    BY <1>1, <2>1
  <2>3. Cardinality(Avail(dh)) = Cardinality(Avail(ch)) + Cardinality(seqBlocks[r][0])
    BY <2>2, <2>1, <1>2, <1>3, FreeChange
  <2> QED
    BY <2>1, <2>3
<1>5. \A p \in Requests :
        Cardinality(seqBlocks'[p][0]) = IF p = r THEN 0 ELSE Cardinality(seqBlocks[p][0])
  BY FirstShard, FS_EmptySet DEF FreeRequest, IInv, TypeOK
<1>6. mapped' = [free |-> mapped.free + mapped.held[r],
                held |-> [mapped.held EXCEPT ![r] = 0]]
  <2> DEFINE H == [p \in Requests |-> Cardinality(seqBlocks[p][0])]
  <2>1. mapped = [free |-> Cardinality(Avail(chip[0])), held |-> H]
    BY DEF mapped
  <2>2. [p \in Requests |-> Cardinality(seqBlocks'[p][0])] = [H EXCEPT ![r] = 0]
    BY <1>5
  <2>3. mapped' = [free |-> Cardinality(Avail(chip[0])) + H[r], held |-> [H EXCEPT ![r] = 0]]
    BY <2>2, <1>4, MappedNext
  <2> HIDE DEF H
  <2> QED
    BY <2>1, <2>3, <1>4
<1> QED
  BY <1>6 DEF Pool!FreeRequest, Pool!Release, mapped

(* The calls that raise, and the steps that change nothing, stutter.       *)
LEMMA StepRefines == IInv /\ [Next]_vars => [Pool!Next]_mapped
<1> SUFFICES ASSUME IInv, [Next]_vars PROVE [Pool!Next]_mapped
  OBVIOUS
<1>1. ASSUME chip' = chip, seqBlocks' = seqBlocks PROVE mapped' = mapped
  BY <1>1 DEF mapped, Avail
<1>2. ASSUME NEW r \in Requests, AllocatePrefill(r) PROVE Pool!Next
  BY <1>2, PrefillRefines DEF Pool!Next
<1>3. ASSUME NEW r \in Requests, AllocatePrefillRaises(r) PROVE mapped' = mapped
  BY <1>1, <1>3, PrefillRaisesUnchanged
<1>4. ASSUME NEW r \in Requests, AllocateDecode(r) PROVE Pool!Next
  BY <1>4, DecodeRefines DEF Pool!Next
<1>5. ASSUME NEW r \in Requests, AllocateDecodeRaises(r) PROVE mapped' = mapped
  BY <1>1, <1>5, DecodeRaisesUnchanged
<1>6. ASSUME NEW r \in Requests, FreeRequest(r) PROVE Pool!Next
  BY <1>6, FreeRequestRefines DEF Pool!Next
<1>7. CASE UNCHANGED vars
  BY <1>1, <1>7 DEF vars
<1> QED
  BY <1>2, <1>3, <1>4, <1>5, <1>6, <1>7 DEF Next

(* The manager, with its lists, reference counts and rollbacks, implements *)
(* the pool its callers count on: see RefinesPool.                         *)
THEOREM KVCacheRefinesPool == Spec => RefinesPool
<1>1. Init => Pool!Init
  BY InitRefines
<1>2. IInv /\ [Next]_vars => [Pool!Next]_mapped
  BY StepRefines
<1> QED
  BY <1>1, <1>2, KVCacheInvariant, PTL DEF Spec, RefinesPool, Pool!Spec, mapped

-----------------------------------------------------------------------------
LEMMA BlocksPerChipPositive ==
  ASSUME NEW len \in Nat
  PROVE  BlocksPerChip(len) \in Nat \ {0}
<1>1. BlocksNeeded(len) \in Nat
  BY SizesAssumption DEF BlocksNeeded, AtLeastOne
<1>2. BlocksNeeded(len) \div NumShards \in Nat
  BY <1>1, SizesAssumption
<1> QED
  BY <1>2 DEF BlocksPerChip, AtLeastOne

(* The four calls: which blocks can be on no record after them.            *)
LEMMA PrefillLeak ==
  ASSUME NEW r \in Requests, IInv, AllocatePrefill(r),
         NEW c \in ChipIds, NEW b \in Leaked(c)', b \notin Leaked(c)
  PROVE  b \in seqBlocks[r][c] /\ seqBlocks'[r][c] # {}
<1>1. PICK len \in PromptLens, T \in [ChipIds -> SUBSET Blocks] :
        /\ \A d \in ChipIds : /\ T[d] \subseteq Avail(chip[d])
                              /\ Cardinality(T[d]) = BlocksPerChip(len)
        /\ chip' = [d \in Chips |->
                      IF d \in ChipIds THEN Take(chip[d], T[d]) ELSE chip[d]]
        /\ seqBlocks' = [seqBlocks EXCEPT ![r] = T]
  BY DEF AllocatePrefill
<1>2. T[c] # {}
  BY <1>1, BlocksPerChipPositive, FS_EmptySet, KVAssumption
<1>3. \A q \in Requests : seqBlocks'[q] = IF q = r THEN T ELSE seqBlocks[q]
  BY <1>1 DEF IInv, TypeOK
<1>4. chip'[c].used = chip[c].used \cup T[c]
  BY <1>1, ShardsAreChips DEF Take
<1>5. b \in chip'[c].used /\ \A q \in Requests : b \notin seqBlocks'[q][c]
  BY DEF Leaked
<1>6. b \in chip[c].used
  BY <1>3, <1>4, <1>5
<1>7. PICK q \in Requests : b \in seqBlocks[q][c]
  BY <1>6 DEF Leaked
<1>8. q = r
  BY <1>3, <1>5, <1>7
<1> QED
  BY <1>2, <1>3, <1>7, <1>8

LEMMA DecodeLeaksNothing ==
  ASSUME NEW r \in Requests, IInv, AllocateDecode(r), NEW c \in ChipIds
  PROVE  Leaked(c)' \subseteq Leaked(c)
<1>1. PICK g \in [ChipIds -> Blocks] :
        /\ \A d \in ChipIds : g[d] \in Grabbable(chip[d])
        /\ chip' = [d \in Chips |->
                      IF d \in ChipIds THEN Grab(chip[d], g[d]) ELSE chip[d]]
        /\ seqBlocks' = [seqBlocks EXCEPT ![r] = [d \in ChipIds |-> @[d] \cup {g[d]}]]
  BY DEF AllocateDecode
<1>2. Sound(chip[c])
  BY SoundChips, ShardsAreChips DEF IInv
<1>3. chip'[c].used = chip[c].used \cup {g[c]}
  BY <1>1, <1>2, GrabIsTake, ShardsAreChips DEF Take
<1>4. \A q \in Requests :
        seqBlocks'[q][c] = IF q = r THEN seqBlocks[q][c] \cup {g[c]} ELSE seqBlocks[q][c]
  BY <1>1 DEF IInv, TypeOK
<1> QED
  BY <1>3, <1>4 DEF Leaked

LEMMA FreeRequestLeaksNothing ==
  ASSUME NEW r \in Requests, IInv, FreeRequest(r), NEW c \in ChipIds
  PROVE  Leaked(c)' \subseteq Leaked(c)
<1>1. Sound(chip[c]) /\ seqBlocks[r][c] \in SUBSET Blocks
  BY SoundChips, ShardsAreChips DEF IInv, TypeOK
<1>2. chip'[c].used = chip[c].used \ seqBlocks[r][c]
  BY <1>1, GiveSound, ShardsAreChips DEF FreeRequest
<1>3. \A q \in Requests : seqBlocks'[q][c] = IF q = r THEN {} ELSE seqBlocks[q][c]
  BY DEF FreeRequest, IInv, TypeOK
<1> QED
  BY <1>2, <1>3 DEF Leaked

(* Only a second prefill of a request that still holds blocks can put them *)
(* out of reach of every later free_request: see LeakOnlyByPrefillAgain.   *)
THEOREM KVCacheLeakOnlyByPrefillAgain == Spec => LeakOnlyByPrefillAgain
<1>1. IInv /\ [Next]_vars =>
        [\A c \in ChipIds : \A b \in Leaked(c)' \ Leaked(c) :
           \E r \in Requests : b \in seqBlocks[r][c] /\ seqBlocks'[r][c] # {}]_vars
  <2> SUFFICES ASSUME IInv, Next,
                      NEW c \in ChipIds, NEW b \in Leaked(c)' \ Leaked(c)
               PROVE  \E r \in Requests : b \in seqBlocks[r][c] /\ seqBlocks'[r][c] # {}
    OBVIOUS
  <2>1. PICK r \in Requests : \/ AllocatePrefill(r)
                              \/ AllocatePrefillRaises(r)
                              \/ AllocateDecode(r)
                              \/ AllocateDecodeRaises(r)
                              \/ FreeRequest(r)
    BY DEF Next
  <2>2. CASE AllocatePrefill(r)
    BY <2>2, PrefillLeak
  <2>3. CASE AllocatePrefillRaises(r) \/ AllocateDecodeRaises(r)
    <3>1. chip' = chip /\ seqBlocks' = seqBlocks
      BY <2>3, PrefillRaisesUnchanged, DecodeRaisesUnchanged
    <3> QED
      BY <3>1 DEF Leaked
  <2>4. CASE AllocateDecode(r)
    BY <2>4, DecodeLeaksNothing
  <2>5. CASE FreeRequest(r)
    BY <2>5, FreeRequestLeaksNothing
  <2> QED
    BY <2>1, <2>2, <2>3, <2>4, <2>5
<1> QED
  BY <1>1, KVCacheInvariant, PTL DEF Spec, LeakOnlyByPrefillAgain

=============================================================================
