------------------------- MODULE ServingQueueProofs -------------------------
(***************************************************************************)
(* The serving loop as a whole: every event handler keeps the joint        *)
(* invariant JInv, for any number of requests, sessions, chips and blocks  *)
(* as long as EnoughKV holds; what the runs serving and sessions check     *)
(* follows from it.                                                        *)
(***************************************************************************)
EXTENDS ServingBatchProofs

-----------------------------------------------------------------------------
(* The end of a batch.                                                     *)

(* e is the batch's BATCH_COMPLETE, or its DECODE_READY after it.          *)
Timely(s, e) ==
  e \in s.events /\ (e.on = "READY" => Event("COMPLETE", e.id, e.kind, e.reqs) \notin s.events)

(* Another pending event is of another batch, but for the two events of    *)
(* one prefill.                                                            *)
LEMMA OthersApart ==
  ASSUME NEW s, BatchesApart(s), NEW e, Timely(s, e), NEW f \in s.events, f # e
  PROVE  \/ ToSet(f.reqs) \cap ToSet(e.reqs) = {}
         \/ e.on = "COMPLETE" /\ e.kind = "PREFILL" /\ f.on = "READY"
            /\ f.kind = "PREFILL" /\ f.reqs = e.reqs
<1> SUFFICES ASSUME Shares(f, e)
             PROVE  e.on = "COMPLETE" /\ e.kind = "PREFILL" /\ f.on = "READY"
                    /\ f.kind = "PREFILL" /\ f.reqs = e.reqs
  BY DEF Shares
<1>1. SameBatch(f, e) /\ EventSound(s, e) /\ EventSound(s, f) /\ e \in s.events
  BY DEF BatchesApart, Timely
<1>2. /\ e = Event(e.on, e.id, e.kind, e.reqs) /\ f = Event(f.on, e.id, e.kind, e.reqs)
      /\ e.on = "COMPLETE" \/ (e.on = "READY" /\ e.kind = "PREFILL")
      /\ f.on = "COMPLETE" \/ (f.on = "READY" /\ f.kind = "PREFILL")
      /\ f.kind = e.kind /\ f.reqs = e.reqs
  BY <1>1 DEF EventSound, SameBatch
<1>3. f.on # e.on
  BY <1>2
<1>4. ~(e.on = "READY" /\ f.on = "COMPLETE")
  BY <1>2 DEF Timely
<1> QED
  BY <1>2, <1>3, <1>4

(* An event has left the queue, and its requests are free.                 *)
PoppedOff(s, e, p) ==
  p = [s EXCEPT !.events = s.events \ {e}, !.busy = s.busy \ ToSet(e.reqs)]

(* A prefill batch is counted down.                                        *)
LEMMA PrefillDone ==
  ASSUME NEW c, NEW s, Shape(s), Settled(c, s, {}), NEW e \in s.events, e.on = "COMPLETE",
         e.kind = "PREFILL",
         NEW p, PoppedOff(s, e, p), NEW t, t = AfterPrefill(p)
  PROVE  Settled(c, t, {}) /\ Shape(t) /\ t.state = s.state /\ t.tokens = s.tokens
<1>1. t = [s EXCEPT !.events = s.events \ {e}, !.busy = s.busy \ ToSet(e.reqs),
                    !.inFlight = MinusFloor(s.inFlight)]
  BY DEF PoppedOff, AfterPrefill, Shape
<1>2. /\ QueuesListed(s) /\ RequestsTold(s) /\ BatchesApart(s)
      /\ BlocksDue(c, s, {}) /\ TurnsHeld(c, s, {}) /\ TalliesRight(c, s)
  BY DEF Settled
<1>3. /\ Shape(t) /\ t.state = s.state /\ t.prompt = s.prompt /\ t.session = s.session
      /\ t.tokens = s.tokens /\ t.waiting = s.waiting /\ t.prefilling = s.prefilling
      /\ t.active = s.active /\ t.finishedCnt = s.finishedCnt /\ t.pool = s.pool
      /\ t.nextTurns = s.nextTurns /\ t.admitOpen = s.admitOpen /\ t.sess = s.sess
      /\ t.events = s.events \ {e} /\ t.busy = s.busy \ ToSet(e.reqs)
      /\ t.inFlight = MinusFloor(s.inFlight)
  BY <1>1 DEF Shape
<1>4. \A x : In(t, x) = In(s, x)
  BY <1>3 DEF In
<1>5. QueuesListed(t)
  BY <1>2, <1>3, <1>4 DEF QueuesListed
<1>6. RequestsTold(t)
  BY <1>2, <1>3 DEF RequestsTold
<1>7. EventSound(s, e) /\ Timely(s, e) /\ ToSet(e.reqs) \subseteq In(s, "PREFILL") /\ e.reqs # <<>>
  BY <1>2 DEF BatchesApart, EventSound, Timely
<1>8. BatchesApart(t)
  <2>1. ASSUME NEW f \in t.events PROVE EventSound(t, f)
    <3>1. f \in s.events /\ f # e /\ EventSound(s, f)
      BY <1>2, <1>3, <2>1 DEF BatchesApart
    <3>2. f.on = "COMPLETE" => ToSet(f.reqs) \cap ToSet(e.reqs) = {}
      BY <3>1, <1>2, <1>7, OthersApart
    <3> QED BY <3>1, <3>2, <1>3, <1>4 DEF EventSound
  <2>2. IsFiniteSet(t.events) /\ t.busy \subseteq In(t, "PREFILL") \cup In(t, "DECODE")
    BY <1>2, <1>3, <1>4, FS_Subset DEF BatchesApart
  <2>3. \A f, g \in t.events : Shares(f, g) => SameBatch(f, g)
    BY <1>2, <1>3 DEF BatchesApart
  <2> QED BY <2>1, <2>2, <2>3 DEF BatchesApart
<1>9. BlocksDue(c, t, {})
  <2>1. ASSUME NEW r \in Requests, s.state[r] = "DECODE" PROVE Owed(t, r) = Owed(s, r)
    <3>1. r \in t.busy <=> r \in s.busy
      BY <2>1, <1>3, <1>7 DEF In
    <3> QED BY <3>1, <1>3 DEF Owed
  <2>2. \A r : Full(t, r) = Full(s, r)
    BY <1>3 DEF Full
  <2> QED BY <2>1, <2>2, <1>2, <1>3 DEF BlocksDue
<1>10. TurnsHeld(c, t, {})
  <2>1. \A r \in Requests : t.state[r] = "FINISHED" <=> s.state[r] = "FINISHED"
    BY <1>3
  <2>2. /\ TurnsHeld(c, s, {}) /\ t.session = s.session /\ t.sess = s.sess
        /\ t.nextTurns = s.nextTurns
    BY <1>2, <1>3
  <2> QED BY <2>1, <2>2, TurnsSame
<1>11. TalliesRight(c, t)
  <2>1. Prefills(t) = Prefills(s) \ {e} /\ e \in Prefills(s)
    BY <1>3 DEF Prefills
  <2>2. IsFiniteSet(Prefills(s)) /\ Cardinality(Prefills(s)) \in Nat
    BY <1>2, PrefillsFinite DEF BatchesApart
  <2>3. /\ Cardinality(Prefills(t)) = Cardinality(Prefills(s)) - 1
        /\ Cardinality(Prefills(t)) \in Nat
    <3>1. IsFiniteSet(Prefills(t))
      BY <2>1, <2>2, FS_Subset
    <3> QED BY <3>1, <2>1, <2>2, FS_RemoveElement, FS_CardinalityType
  <2>4. s.inFlight \in Nat /\ s.inFlight # 0
    BY <2>2, <2>3, <1>2 DEF TalliesRight
  <2>5. t.inFlight = s.inFlight - 1
    BY <2>4, <1>3 DEF MinusFloor
  <2>6. \A r \in Requests : Lost(s, r) => Lost(t, r)
    BY <2>1, <1>3 DEF Lost
  <2>7. t.admitOpen \in BOOLEAN /\ t.finishedCnt = Cardinality(In(t, "FINISHED"))
    BY <1>2, <1>3, <1>4 DEF TalliesRight
  <2>8. \/ t.inFlight = Cardinality(Prefills(t))
        \/ /\ c.phase # "run" /\ t.inFlight = Cardinality(Prefills(t)) + 1
           /\ \E r \in Requests : Lost(t, r)
    BY <2>2, <2>3, <2>5, <2>6, <1>2 DEF TalliesRight
  <2> QED BY <2>7, <2>8 DEF TalliesRight
<1> QED
  BY <1>3, <1>5, <1>6, <1>8, <1>9, <1>10, <1>11 DEF Settled

-----------------------------------------------------------------------------
(* The end of a prefill: its requests go on to decode.                     *)

PromotedAt(s, D, t) ==
  /\ Shape(t) /\ t.prompt = s.prompt /\ t.session = s.session /\ t.tokens = s.tokens
  /\ t.waiting = s.waiting /\ t.finishedCnt = s.finishedCnt /\ t.pool = s.pool
  /\ t.busy = s.busy /\ t.events = s.events /\ t.nextTurns = s.nextTurns
  /\ t.inFlight = s.inFlight /\ t.admitOpen = s.admitOpen /\ t.sess = s.sess
  /\ t.state = [r \in Requests |-> IF r \in D THEN "DECODE" ELSE s.state[r]]
  /\ Lists(t.prefilling, In(s, "PREFILL") \ D)
  /\ Lists(t.active, In(s, "DECODE") \cup D)

(* Promoting one more request to DECODE.                                   *)
LEMMA PromoteNext ==
  ASSUME NEW s, s.state \in [Requests -> Statuses], NEW D, D \subseteq In(s, "PREFILL"),
         NEW t, PromotedAt(s, D, t), NEW r \in In(s, "PREFILL"), r \notin D
  PROVE  PromotedAt(s, D \cup {r}, PromoteOne(t, r))
<1>1. PICK u, E : u = PromoteOne(t, r) /\ E = D \cup {r}
  OBVIOUS
<1>2. /\ Shape(t) /\ t.prompt = s.prompt /\ t.session = s.session /\ t.tokens = s.tokens
      /\ t.waiting = s.waiting /\ t.finishedCnt = s.finishedCnt /\ t.pool = s.pool
      /\ t.busy = s.busy /\ t.events = s.events /\ t.nextTurns = s.nextTurns
      /\ t.inFlight = s.inFlight /\ t.admitOpen = s.admitOpen /\ t.sess = s.sess
      /\ t.state = [q \in Requests |-> IF q \in D THEN "DECODE" ELSE s.state[q]]
      /\ Lists(t.prefilling, In(s, "PREFILL") \ D)
      /\ Lists(t.active, In(s, "DECODE") \cup D)
  BY DEF PromotedAt
<1>3. r \in Requests /\ s.state[r] = "PREFILL" /\ t.state[r] = "PREFILL"
  BY <1>2 DEF In
<1>4. PICK st, pf, ac : /\ st = [t.state EXCEPT ![r] = "DECODE"]
                        /\ pf = RemoveFirst(t.prefilling, r) /\ ac = Append(t.active, r)
  OBVIOUS
<1>5. u = [t EXCEPT !.state = st, !.active = ac, !.prefilling = pf]
  BY <1>1, <1>2, <1>3, <1>4 DEF PromoteOne, Shape
<1>6. /\ Shape(u) /\ u.prompt = t.prompt /\ u.session = t.session /\ u.tokens = t.tokens
      /\ u.waiting = t.waiting /\ u.finishedCnt = t.finishedCnt /\ u.pool = t.pool
      /\ u.busy = t.busy /\ u.events = t.events /\ u.nextTurns = t.nextTurns
      /\ u.inFlight = t.inFlight /\ u.admitOpen = t.admitOpen /\ u.sess = t.sess
      /\ u.state = st /\ u.prefilling = pf /\ u.active = ac
  BY <1>2, <1>5 DEF Shape
<1>7. st = [q \in Requests |-> IF q \in E THEN "DECODE" ELSE s.state[q]]
  BY <1>1, <1>2, <1>3, <1>4
<1>8. Lists(pf, In(s, "PREFILL") \ E)
  <2>1. Lists(pf, (In(s, "PREFILL") \ D) \ {r})
    BY <1>2, <1>4, ListsRemove
  <2>2. (In(s, "PREFILL") \ D) \ {r} = In(s, "PREFILL") \ E
    BY <1>1
  <2> QED BY <2>1, <2>2
<1>9. Lists(ac, In(s, "DECODE") \cup E)
  <2>1. r \notin In(s, "DECODE") \cup D
    BY <1>3 DEF In
  <2>2. Lists(ac, (In(s, "DECODE") \cup D) \cup {r})
    BY <2>1, <1>2, <1>4, ListsAppend
  <2>3. (In(s, "DECODE") \cup D) \cup {r} = In(s, "DECODE") \cup E
    BY <1>1
  <2> QED BY <2>2, <2>3
<1>10. PromotedAt(s, E, u)
  BY <1>2, <1>6, <1>7, <1>8, <1>9 DEF PromotedAt
<1> QED
  BY <1>1, <1>10

(* on_prefill_complete promotes its requests, once each.                   *)
LEMMA PromoteAll ==
  ASSUME NEW c, NEW s, Shape(s), s.state \in [Requests -> Statuses], QueuesListed(s),
         NEW reqs \in Seq(Requests), Once(reqs), ToSet(reqs) \subseteq In(s, "PREFILL")
  PROVE  PromotedAt(s, ToSet(reqs), OnPrefillComplete(s, reqs))
<1>1. PICK n : n = Len(reqs)
  OBVIOUS
<1>2. OnPrefillComplete(s, reqs) = Promotions!Folded(c, s, reqs)
  BY DEF OnPrefillComplete, Promotions!Folded, FoldLeft, MapThenFoldSet,
     Promotions!MapThenFoldSet, Max, Promotions!Greatest, PromoteOp
<1>3. /\ n \in Nat /\ DOMAIN reqs = 1 .. n /\ \A i \in 1 .. n : reqs[i] \in In(s, "PREFILL")
  BY <1>1 DEF ToSet
<1>4. PICK at : Promotions!Steps(c, s, reqs, n, at) /\ Promotions!Folded(c, s, reqs) = at[n]
  BY <1>3, Promotions!FoldSteps
<1>5. at[0] = s /\ \A i \in 1 .. n : at[i] = PromoteOne(at[i - 1], reqs[i])
  BY <1>4 DEF Promotions!Steps, PromoteOp
<1> DEFINE K == {i \in Nat : PromotedAt(s, Before(reqs, i), at[i])}
<1>6. 0 \in K
  <2>1. /\ s.state = [r \in Requests |-> IF r \in {} THEN "DECODE" ELSE s.state[r]]
        /\ In(s, "PREFILL") \ {} = In(s, "PREFILL")
        /\ In(s, "DECODE") \cup {} = In(s, "DECODE")
    OBVIOUS
  <2>2. PromotedAt(s, {}, s)
    BY <2>1 DEF PromotedAt, QueuesListed
  <2> QED BY <2>2, <1>5, BeforeNone
<1>7. ASSUME NEW i \in 1 .. n, i - 1 \in K PROVE i \in K
  <2>1. Before(reqs, i) = Before(reqs, i - 1) \cup {reqs[i]} /\ reqs[i] \notin Before(reqs, i - 1)
    BY <1>1, <1>3, BeforeNext, BeforeOnce
  <2>2. Before(reqs, i - 1) \subseteq In(s, "PREFILL") /\ reqs[i] \in In(s, "PREFILL")
    <3>1. \A j \in 1 .. i - 1 : j \in 1 .. n
      BY <1>3
    <3> QED BY <3>1, <1>3 DEF Before
  <2>3. PromotedAt(s, Before(reqs, i - 1), at[i - 1]) /\ i \in Nat
    BY <1>7, <1>3
  <2>4. PromotedAt(s, Before(reqs, i - 1) \cup {reqs[i]}, PromoteOne(at[i - 1], reqs[i]))
    BY <2>1, <2>2, <2>3, PromoteNext
  <2> QED BY <2>1, <2>3, <2>4, <1>5
<1>8. n \in K
  <2> HIDE DEF K
  <2> QED BY <1>3, <1>6, <1>7, Upwards
<1> QED
  BY <1>2, <1>3, <1>4, <1>8, BeforeAll

(* Some requests have been prefilled.                                      *)
Promoted(s, t) ==
  \A r \in Requests : \/ t.state[r] = s.state[r]
                      \/ s.state[r] = "PREFILL" /\ t.state[r] = "DECODE"

(* DECODE_READY promotes its batch and keeps what is settled.              *)
LEMMA ReadyDone ==
  ASSUME NEW c, NEW s, Shape(s), s.state \in [Requests -> Statuses], Settled(c, s, {}),
         NEW e, Timely(s, e), e.on = "READY",
         NEW p, PoppedOff(s, e, p),
         NEW t, t = OnPrefillComplete(p, e.reqs)
  PROVE  /\ Settled(c, t, {}) /\ t.tokens = s.tokens /\ Promoted(s, t)
         /\ t.events = s.events \ {e} /\ t.busy = s.busy \ ToSet(e.reqs)
<1>1. p = [s EXCEPT !.events = s.events \ {e}, !.busy = s.busy \ ToSet(e.reqs)]
  BY DEF PoppedOff
<1> USE <1>1
<1>2. /\ QueuesListed(s) /\ RequestsTold(s) /\ BatchesApart(s)
      /\ BlocksDue(c, s, {}) /\ TurnsHeld(c, s, {}) /\ TalliesRight(c, s)
  BY DEF Settled
<1>3. /\ Shape(p) /\ p.state = s.state /\ p.prompt = s.prompt /\ p.session = s.session
      /\ p.tokens = s.tokens /\ p.waiting = s.waiting /\ p.prefilling = s.prefilling
      /\ p.active = s.active /\ p.finishedCnt = s.finishedCnt /\ p.pool = s.pool
      /\ p.nextTurns = s.nextTurns /\ p.admitOpen = s.admitOpen /\ p.sess = s.sess
      /\ p.inFlight = s.inFlight
      /\ p.events = s.events \ {e} /\ p.busy = s.busy \ ToSet(e.reqs)
  BY DEF Shape
<1>4. PICK R : R = ToSet(e.reqs)
  OBVIOUS
<1>5. /\ e \in s.events /\ e.kind = "PREFILL" /\ e.reqs \in Seq(Requests) /\ Once(e.reqs)
      /\ R \subseteq In(s, "PREFILL")
  BY <1>2, <1>4 DEF BatchesApart, EventSound, Timely
<1>6. \A x : In(p, x) = In(s, x)
  BY <1>3 DEF In
<1>7. PromotedAt(p, R, t)
  <2>1. QueuesListed(p)
    BY <1>2, <1>3, <1>6 DEF QueuesListed
  <2>2. p.state \in [Requests -> Statuses]
    BY <1>3
  <2>3. ToSet(e.reqs) \subseteq In(p, "PREFILL") /\ e.reqs \in Seq(Requests) /\ Once(e.reqs)
    BY <1>4, <1>5, <1>6
  <2>4. PromotedAt(p, ToSet(e.reqs), OnPrefillComplete(p, e.reqs))
    BY <2>1, <2>2, <2>3, <1>3, PromoteAll
  <2> QED BY <2>4, <1>4
<1>8. /\ Shape(t) /\ t.prompt = s.prompt /\ t.session = s.session /\ t.tokens = s.tokens
      /\ t.waiting = s.waiting /\ t.finishedCnt = s.finishedCnt /\ t.pool = s.pool
      /\ t.busy = s.busy \ R /\ t.events = s.events \ {e} /\ t.nextTurns = s.nextTurns
      /\ t.inFlight = s.inFlight /\ t.admitOpen = s.admitOpen /\ t.sess = s.sess
      /\ t.state = [r \in Requests |-> IF r \in R THEN "DECODE" ELSE s.state[r]]
      /\ Lists(t.prefilling, In(s, "PREFILL") \ R)
      /\ Lists(t.active, In(s, "DECODE") \cup R)
  <2>1. t.state = [r \in Requests |-> IF r \in R THEN "DECODE" ELSE s.state[r]]
    BY <1>3, <1>7 DEF PromotedAt
  <2>2. Lists(t.prefilling, In(s, "PREFILL") \ R) /\ Lists(t.active, In(s, "DECODE") \cup R)
    BY <1>6, <1>7 DEF PromotedAt
  <2>3. p.busy = s.busy \ R
    BY <1>3, <1>4
  <2> QED BY <2>1, <2>2, <2>3, <1>3, <1>7 DEF PromotedAt
<1>9. /\ In(t, "WAITING") = In(s, "WAITING")
      /\ In(t, "PREFILL") = In(s, "PREFILL") \ R
      /\ In(t, "DECODE") = In(s, "DECODE") \cup R
      /\ In(t, "FINISHED") = In(s, "FINISHED")
  BY <1>5, <1>8 DEF In
<1>10. QueuesListed(t)
  BY <1>2, <1>8, <1>9 DEF QueuesListed
<1>11. ASSUME NEW r \in Requests
      PROVE  \/ t.state[r] = s.state[r] /\ r \notin R
             \/ s.state[r] = "PREFILL" /\ t.state[r] = "DECODE" /\ r \in R
  BY <1>5, <1>8 DEF In
<1>12. RequestsTold(t)
  <2>1. ASSUME NEW r \in Requests
        PROVE  /\ t.prompt[r] \in IF t.state[r] = "NEW" THEN {0} ELSE PromptLens \cup {DeltaPrompt}
               /\ t.state[r] = "NEW" => t.session[r] = NoSession
               /\ t.state[r] \notin {"DECODE", "FINISHED"} => t.tokens[r] = 0
               /\ t.state[r] = "DECODE" => t.tokens[r] < OutputLen
               /\ t.state[r] = "FINISHED" => t.tokens[r] = OutputLen
    <3>1. CASE t.state[r] = s.state[r]
      BY <3>1, <1>2, <1>8 DEF RequestsTold
    <3>2. CASE s.state[r] = "PREFILL" /\ t.state[r] = "DECODE"
      <4>1. t.tokens[r] = 0 /\ 0 < OutputLen
        BY <3>2, <1>2, <1>8, ServingAssumption DEF RequestsTold
      <4> QED BY <4>1, <3>2, <1>2, <1>8 DEF RequestsTold
    <3> QED BY <3>1, <3>2, <1>11
  <2> QED BY <2>1, <1>2, <1>8 DEF RequestsTold
<1>13. BatchesApart(t)
  <2>1. ASSUME NEW f \in t.events PROVE EventSound(t, f)
    <3>1. f \in s.events /\ f # e /\ EventSound(s, f)
      BY <1>2, <1>8, <2>1 DEF BatchesApart
    <3>2. ToSet(f.reqs) \cap R = {}
      BY <3>1, <1>2, <1>4, OthersApart
    <3> QED BY <3>1, <3>2, <1>8, <1>9 DEF EventSound
  <2>2. IsFiniteSet(t.events) /\ t.busy \subseteq In(t, "PREFILL") \cup In(t, "DECODE")
    BY <1>2, <1>8, <1>9, FS_Subset DEF BatchesApart
  <2>3. \A f, g \in t.events : Shares(f, g) => SameBatch(f, g)
    BY <1>2, <1>8 DEF BatchesApart
  <2> QED BY <2>1, <2>2, <2>3 DEF BatchesApart
<1>14. BlocksDue(c, t, {})
  <2>1. ASSUME NEW r \in Requests, t.state[r] = "DECODE" PROVE t.pool.held[r] = Owed(t, r)
    <3>1. CASE t.state[r] = s.state[r] /\ r \notin R
      <4>1. r \in t.busy <=> r \in s.busy
        BY <3>1, <1>8
      <4>2. Owed(t, r) = Owed(s, r)
        BY <4>1, <1>8 DEF Owed
      <4> QED BY <4>2, <3>1, <2>1, <1>2, <1>8 DEF BlocksDue
    <3>2. CASE s.state[r] = "PREFILL" /\ r \in R
      <4>1. t.tokens[r] = 0 /\ r \notin t.busy
        BY <3>2, <1>2, <1>8 DEF RequestsTold
      <4>2. PICK m : m = BlocksPerChip(s.prompt[r])
        OBVIOUS
      <4>3. m \in Nat /\ Owed(t, r) = m + 0
        BY <4>1, <4>2, <1>2, <1>8, PromptNat, RoundedNone DEF Owed
      <4> QED BY <4>2, <4>3, <3>2, <1>2, <1>8 DEF BlocksDue
    <3> QED BY <3>1, <3>2, <1>11
  <2>2. ASSUME NEW r \in Requests, t.state[r] # "DECODE"
        PROVE  s.state[r] = t.state[r] /\ Full(t, r) = Full(s, r)
    BY <2>2, <1>8, <1>11 DEF Full
  <2>3. t.pool = s.pool /\ t.session = s.session /\ t.sess = s.sess /\ t.prompt = s.prompt
    BY <1>8
  <2>4. \A r \in Requests :
          /\ t.state[r] \in {"NEW", "WAITING", "REJECTED"} => t.pool.held[r] = 0
          /\ t.state[r] = "PREFILL" => t.pool.held[r] = BlocksPerChip(t.prompt[r])
    BY <2>2, <2>3, <1>2 DEF BlocksDue
  <2>5. ASSUME NEW r \in Requests, t.state[r] = "FINISHED"
        PROVE  /\ t.pool.held[r] \in {0, Full(t, r)}
               /\ IF t.session[r] = NoSession \/ ~t.sess[t.session[r]].here THEN t.pool.held[r] = 0
                  ELSE c.phase = "run" => t.pool.held[r] = Full(t, r)
    BY <2>2, <2>3, <2>5, <1>2 DEF BlocksDue
  <2>6. PoolFull(t.pool)
    BY <2>3, <1>2 DEF BlocksDue
  <2> QED BY <2>1, <2>4, <2>5, <2>6 DEF BlocksDue
<1>15. TurnsHeld(c, t, {})
  <2>1. \A r \in Requests : t.state[r] = "FINISHED" <=> s.state[r] = "FINISHED"
    BY <1>11
  <2> QED BY <2>1, <1>2, <1>8, TurnsSame
<1>16. TalliesRight(c, t)
  <2>1. Prefills(t) = Prefills(s)
    BY <1>8 DEF Prefills
  <2>2. \A r \in Requests : Lost(s, r) => Lost(t, r)
    BY <2>1, <1>11 DEF Lost
  <2> QED BY <2>1, <2>2, <1>2, <1>8, <1>9 DEF TalliesRight
<1>17. Promoted(s, t)
  BY <1>11 DEF Promoted
<1> QED
  BY <1>4, <1>8, <1>10, <1>12, <1>13, <1>14, <1>15, <1>16, <1>17 DEF Settled

-----------------------------------------------------------------------------
(* A decode step.                                                          *)

(* Those of D for whom the next token is the last.                         *)
Ends(s, D) == {r \in D : s.tokens[r] + 1 = OutputLen}

(* Every request of D has one token more, and those that end are finished. *)
Ticks(s, D, t) ==
  /\ Shape(t) /\ t.prompt = s.prompt /\ t.session = s.session /\ t.waiting = s.waiting
  /\ t.prefilling = s.prefilling /\ t.pool = s.pool /\ t.busy = s.busy /\ t.events = s.events
  /\ t.nextTurns = s.nextTurns /\ t.inFlight = s.inFlight /\ t.admitOpen = s.admitOpen
  /\ t.sess = s.sess
  /\ t.tokens = [r \in Requests |-> IF r \in D THEN s.tokens[r] + 1 ELSE s.tokens[r]]
  /\ t.state = [r \in Requests |-> IF r \in Ends(s, D) THEN "FINISHED" ELSE s.state[r]]
  /\ t.finishedCnt = Cardinality(In(t, "FINISHED"))

DecodedAt(s, D, x) ==
  /\ x = [s |-> x.s, finished |-> x.finished]
  /\ Ticks(s, D, x.s) /\ x.s.active = s.active
  /\ Lists(x.finished, Ends(s, D))

LastToken(x, r, tk, st, y) ==
  y = [s |-> [x.s EXCEPT !.tokens = tk, !.state = st, !.finishedCnt = x.s.finishedCnt + 1],
       finished |-> Append(x.finished, r)]

(* One decode step of one request, token by token or its last.             *)
LEMMA DecodePairs ==
  ASSUME NEW x, PairShape(x), NEW r, NEW y, y = DecodeOne(x, r), x.s.state[r] # "FINISHED",
         NEW tk, tk = [x.s.tokens EXCEPT ![r] = x.s.tokens[r] + 1],
         NEW st, st = [x.s.state EXCEPT ![r] = "FINISHED"], tk[r] = x.s.tokens[r] + 1
  PROVE  /\ x.s.tokens[r] + 1 < OutputLen =>
              y = [s |-> [x.s EXCEPT !.tokens = tk], finished |-> x.finished]
         /\ ~(x.s.tokens[r] + 1 < OutputLen) => LastToken(x, r, tk, st, y)
<1>1. PICK t : t = [x EXCEPT !.s.tokens[r] = @ + 1]
  OBVIOUS
<1>2. t = [s |-> [x.s EXCEPT !.tokens = tk], finished |-> x.finished]
  BY <1>1 DEF PairShape, Shape
<1>3. /\ t.s.tokens = tk /\ t.s.state = x.s.state /\ t.s.finishedCnt = x.s.finishedCnt
      /\ t.finished = x.finished /\ Shape(t.s)
  BY <1>2 DEF PairShape, Shape
<1>4. CASE x.s.tokens[r] + 1 < OutputLen
  <2>1. t.s.tokens[r] < OutputLen
    BY <1>3, <1>4
  <2>2. y = t
    BY <2>1, <1>1 DEF DecodeOne
  <2> QED BY <2>2, <1>2, <1>4
<1>5. CASE ~(x.s.tokens[r] + 1 < OutputLen)
  <2>1. ~(t.s.tokens[r] < OutputLen)
    BY <1>3, <1>5
  <2>2. y = [t EXCEPT !.s.state[r] = "FINISHED", !.s.finishedCnt = @ + 1,
                      !.finished = Append(@, r)]
    BY <2>1, <1>1 DEF DecodeOne
  <2>3. PICK u : u = [x.s EXCEPT !.tokens = tk]
    OBVIOUS
  <2>4. t = [s |-> u, finished |-> x.finished] /\ Shape(u)
    BY <2>3, <1>2, <1>3
  <2>5. y = [s |-> [u EXCEPT !.state = [u.state EXCEPT ![r] = "FINISHED"],
                             !.finishedCnt = u.finishedCnt + 1],
             finished |-> Append(x.finished, r)]
    BY <2>2, <2>4 DEF Shape
  <2>6. u.state = x.s.state /\ u.finishedCnt = x.s.finishedCnt
    BY <2>4, <1>3
  <2>7. y = [s |-> [u EXCEPT !.state = st, !.finishedCnt = x.s.finishedCnt + 1],
             finished |-> Append(x.finished, r)]
    BY <2>5, <2>6
  <2>8. [u EXCEPT !.state = st, !.finishedCnt = x.s.finishedCnt + 1]
          = [x.s EXCEPT !.tokens = tk, !.state = st, !.finishedCnt = x.s.finishedCnt + 1]
    BY <2>3 DEF PairShape, Shape
  <2> QED BY <2>7, <2>8, <1>5 DEF LastToken
<1> QED
  BY <1>4, <1>5

(* A set of requests is finite.                                            *)
LEMMA RequestsFinite ==
  ASSUME NEW S, S \subseteq Requests
  PROVE  IsFiniteSet(S) /\ Cardinality(S) \in Nat /\ Cardinality(S) <= MaxRequests
<1>1. IsFiniteSet(Requests) /\ Cardinality(Requests) = MaxRequests
  BY ServingAssumption, FS_Interval DEF Requests
<1>2. IsFiniteSet(S) /\ Cardinality(S) <= Cardinality(Requests)
  BY <1>1, FS_Subset
<1> QED
  BY <1>1, <1>2, FS_CardinalityType

(* Counting the token of one more request.                                 *)
LEMMA DecodeNext ==
  ASSUME NEW s, s.state \in [Requests -> Statuses], s.tokens \in [Requests -> 0 .. OutputLen],
         NEW D, D \subseteq In(s, "DECODE"), NEW x, DecodedAt(s, D, x),
         NEW r \in In(s, "DECODE"), r \notin D, s.tokens[r] < OutputLen
  PROVE  DecodedAt(s, D \cup {r}, DecodeOne(x, r))
<1>1. PICK y, E, u : y = DecodeOne(x, r) /\ E = D \cup {r} /\ u = x.s
  OBVIOUS
<1>2. /\ x = [s |-> u, finished |-> x.finished] /\ Ticks(s, D, u) /\ u.active = s.active
      /\ Lists(x.finished, Ends(s, D))
  BY <1>1 DEF DecodedAt
<1>3. /\ Shape(u) /\ u.prompt = s.prompt /\ u.session = s.session /\ u.waiting = s.waiting
      /\ u.prefilling = s.prefilling /\ u.pool = s.pool /\ u.busy = s.busy /\ u.events = s.events
      /\ u.nextTurns = s.nextTurns /\ u.inFlight = s.inFlight /\ u.admitOpen = s.admitOpen
      /\ u.sess = s.sess
      /\ u.tokens = [q \in Requests |-> IF q \in D THEN s.tokens[q] + 1 ELSE s.tokens[q]]
      /\ u.state = [q \in Requests |-> IF q \in Ends(s, D) THEN "FINISHED" ELSE s.state[q]]
      /\ u.finishedCnt = Cardinality(In(u, "FINISHED"))
  BY <1>2 DEF Ticks
<1>4. /\ r \in Requests /\ s.state[r] = "DECODE" /\ u.state[r] = "DECODE"
      /\ u.tokens[r] = s.tokens[r] /\ s.tokens[r] \in Nat /\ OutputLen \in Nat
      /\ r \notin Ends(s, D)
  BY <1>3, ServingAssumption DEF In, Ends
<1>5. PICK tk, st : /\ tk = [u.tokens EXCEPT ![r] = u.tokens[r] + 1]
                    /\ st = [u.state EXCEPT ![r] = "FINISHED"]
  OBVIOUS
<1>6. tk = [q \in Requests |-> IF q \in E THEN s.tokens[q] + 1 ELSE s.tokens[q]]
      /\ tk[r] = u.tokens[r] + 1
  BY <1>1, <1>3, <1>4, <1>5
<1>7. PairShape(x) /\ u.state[r] # "FINISHED"
  BY <1>1, <1>2, <1>3, <1>4 DEF PairShape
<1>8. CASE u.tokens[r] + 1 < OutputLen
  <2>1. y = [s |-> [u EXCEPT !.tokens = tk], finished |-> x.finished]
    BY <1>1, <1>5, <1>6, <1>7, <1>8, DecodePairs
  <2>2. PICK v : v = y.s
    OBVIOUS
  <2>3. /\ y = [s |-> v, finished |-> y.finished] /\ y.finished = x.finished
        /\ v = [u EXCEPT !.tokens = tk]
    BY <2>1, <2>2
  <2>4. /\ Shape(v) /\ v.prompt = u.prompt /\ v.session = u.session /\ v.waiting = u.waiting
        /\ v.prefilling = u.prefilling /\ v.pool = u.pool /\ v.busy = u.busy
        /\ v.events = u.events /\ v.nextTurns = u.nextTurns /\ v.inFlight = u.inFlight
        /\ v.admitOpen = u.admitOpen /\ v.sess = u.sess /\ v.active = u.active
        /\ v.tokens = tk /\ v.state = u.state /\ v.finishedCnt = u.finishedCnt
    BY <2>3, <1>3 DEF Shape
  <2>5. Ends(s, E) = Ends(s, D)
    BY <1>1, <1>4, <1>8 DEF Ends
  <2>6. In(v, "FINISHED") = In(u, "FINISHED")
    BY <2>4 DEF In
  <2>7. v.state = [q \in Requests |-> IF q \in Ends(s, E) THEN "FINISHED" ELSE s.state[q]]
    BY <2>4, <2>5, <1>3
  <2>8. Ticks(s, E, v)
    BY <2>4, <2>6, <2>7, <1>3, <1>6 DEF Ticks
  <2> QED BY <2>2, <2>3, <2>4, <2>5, <2>8, <1>1, <1>2 DEF DecodedAt
<1>9. CASE ~(u.tokens[r] + 1 < OutputLen)
  <2>1. y = [s |-> [u EXCEPT !.tokens = tk, !.state = st, !.finishedCnt = u.finishedCnt + 1],
             finished |-> Append(x.finished, r)]
    <3>1. /\ tk = [x.s.tokens EXCEPT ![r] = x.s.tokens[r] + 1]
          /\ st = [x.s.state EXCEPT ![r] = "FINISHED"] /\ tk[r] = x.s.tokens[r] + 1
          /\ x.s.state[r] # "FINISHED" /\ ~(x.s.tokens[r] + 1 < OutputLen)
          /\ y = DecodeOne(x, r) /\ PairShape(x)
      BY <1>1, <1>5, <1>6, <1>7, <1>9
    <3>2. LastToken(x, r, tk, st, y)
      BY <3>1, DecodePairs
    <3> QED BY <3>2, <1>1 DEF LastToken
  <2>2. PICK v : v = y.s
    OBVIOUS
  <2>3. /\ y = [s |-> v, finished |-> y.finished] /\ y.finished = Append(x.finished, r)
        /\ v = [u EXCEPT !.tokens = tk, !.state = st, !.finishedCnt = u.finishedCnt + 1]
    BY <2>1, <2>2
  <2>4. /\ Shape(v) /\ v.prompt = u.prompt /\ v.session = u.session /\ v.waiting = u.waiting
        /\ v.prefilling = u.prefilling /\ v.pool = u.pool /\ v.busy = u.busy
        /\ v.events = u.events /\ v.nextTurns = u.nextTurns /\ v.inFlight = u.inFlight
        /\ v.admitOpen = u.admitOpen /\ v.sess = u.sess /\ v.active = u.active
        /\ v.tokens = tk /\ v.state = st /\ v.finishedCnt = u.finishedCnt + 1
    BY <2>3, <1>3 DEF Shape
  <2>5. s.tokens[r] + 1 = OutputLen
    BY <1>4, <1>9
  <2>6. Ends(s, E) = Ends(s, D) \cup {r}
    BY <2>5, <1>1 DEF Ends
  <2>7. v.state = [q \in Requests |-> IF q \in Ends(s, E) THEN "FINISHED" ELSE s.state[q]]
    BY <2>4, <2>6, <1>3, <1>4, <1>5
  <2>8. v.finishedCnt = Cardinality(In(v, "FINISHED"))
    <3>1. In(v, "FINISHED") = In(u, "FINISHED") \cup {r} /\ r \notin In(u, "FINISHED")
      BY <2>4, <1>3, <1>4, <1>5 DEF In
    <3>2. IsFiniteSet(In(u, "FINISHED"))
      BY RequestsFinite DEF In
    <3> QED BY <3>1, <3>2, <2>4, <1>3, FS_AddElement
  <2>9. Lists(y.finished, Ends(s, E))
    BY <2>3, <2>6, <1>2, <1>4, ListsAppend
  <2>10. Ticks(s, E, v)
    BY <2>4, <2>7, <2>8, <1>3, <1>6 DEF Ticks
  <2> QED BY <2>2, <2>3, <2>4, <2>9, <2>10, <1>1, <1>3, <1>2 DEF DecodedAt
<1> QED
  BY <1>8, <1>9

(* on_decode_step gives each request one token and ends those that have    *)
(* all.                                                                    *)
LEMMA DecodeAll ==
  ASSUME NEW c, NEW s, Shape(s), s.state \in [Requests -> Statuses], RequestsTold(s),
         s.finishedCnt = Cardinality(In(s, "FINISHED")), Lists(s.active, In(s, "DECODE")),
         NEW reqs \in Seq(Requests), Once(reqs), NEW R, R = ToSet(reqs), R \subseteq In(s, "DECODE"),
         NEW t, t = OnDecodeStep(s, reqs)
  PROVE  Ticks(s, R, t) /\ Lists(t.active, In(s, "DECODE") \ Ends(s, R))
<1>1. PICK base, x, n : /\ base = [s |-> s, finished |-> <<>>] /\ n = Len(reqs)
                        /\ x = FoldLeft(DecodeOne, base, reqs)
  OBVIOUS
<1>2. x = Decodes!Folded(c, base, reqs)
  BY <1>1 DEF Decodes!Folded, FoldLeft, MapThenFoldSet,
     Decodes!MapThenFoldSet, Max, Decodes!Greatest, DecodeOp
<1>3. /\ n \in Nat /\ DOMAIN reqs = 1 .. n /\ \A i \in 1 .. n : reqs[i] \in In(s, "DECODE")
  BY <1>1 DEF ToSet
<1>4. PICK at : Decodes!Steps(c, base, reqs, n, at) /\ Decodes!Folded(c, base, reqs) = at[n]
  BY <1>3, Decodes!FoldSteps
<1>5. at[0] = base /\ \A i \in 1 .. n : at[i] = DecodeOne(at[i - 1], reqs[i])
  BY <1>4 DEF Decodes!Steps, DecodeOp
<1>6. s.tokens \in [Requests -> 0 .. OutputLen] /\ \A r \in In(s, "DECODE") : s.tokens[r] < OutputLen
  BY DEF RequestsTold, In
<1> DEFINE K == {i \in Nat : DecodedAt(s, Before(reqs, i), at[i])}
<1>7. 0 \in K
  <2>1. Ends(s, {}) = {}
    BY DEF Ends
  <2>2. /\ s.tokens = [r \in Requests |-> IF r \in {} THEN s.tokens[r] + 1 ELSE s.tokens[r]]
        /\ s.state = [r \in Requests |-> IF r \in {} THEN "FINISHED" ELSE s.state[r]]
    BY <1>6
  <2>3. Ticks(s, {}, s)
    BY <2>1, <2>2 DEF Ticks
  <2>4. /\ base.s = s /\ base.finished = <<>>
        /\ base = [s |-> base.s, finished |-> base.finished]
    BY <1>1
  <2>5. DecodedAt(s, {}, base)
    BY <2>1, <2>3, <2>4, ListsNone DEF DecodedAt
  <2> QED BY <2>5, <1>5, BeforeNone
<1>8. ASSUME NEW i \in 1 .. n, i - 1 \in K PROVE i \in K
  <2>1. Before(reqs, i) = Before(reqs, i - 1) \cup {reqs[i]} /\ reqs[i] \notin Before(reqs, i - 1)
    BY <1>1, <1>3, BeforeNext, BeforeOnce
  <2>2. Before(reqs, i - 1) \subseteq In(s, "DECODE") /\ reqs[i] \in In(s, "DECODE")
    <3>1. \A j \in 1 .. i - 1 : j \in 1 .. n
      BY <1>3
    <3> QED BY <3>1, <1>3 DEF Before
  <2>3. DecodedAt(s, Before(reqs, i - 1), at[i - 1]) /\ i \in Nat
    BY <1>8, <1>3
  <2>4. s.tokens[reqs[i]] < OutputLen
    BY <2>2, <1>6
  <2>5. DecodedAt(s, Before(reqs, i - 1) \cup {reqs[i]}, DecodeOne(at[i - 1], reqs[i]))
    BY <2>1, <2>2, <2>3, <2>4, <1>6, DecodeNext
  <2> QED BY <2>1, <2>3, <2>5, <1>5
<1>9. n \in K
  <2> HIDE DEF K
  <2> QED BY <1>3, <1>7, <1>8, Upwards
<1>10. DecodedAt(s, R, x)
  BY <1>2, <1>3, <1>4, <1>9, BeforeAll
<1>11. PICK u, ac : u = x.s /\ ac = FoldLeft(RemoveFirst, u.active, x.finished)
  OBVIOUS
<1>12. Ticks(s, R, u) /\ u.active = s.active /\ Lists(x.finished, Ends(s, R))
  BY <1>10, <1>11 DEF DecodedAt
<1>13. t = [u EXCEPT !.active = ac]
  BY <1>1, <1>11 DEF OnDecodeStep
<1>14. Ticks(s, R, t) /\ t.active = ac
  <2>1. Shape(u)
    BY <1>12 DEF Ticks
  <2>2. /\ Shape(t) /\ t.prompt = u.prompt /\ t.session = u.session /\ t.waiting = u.waiting
        /\ t.prefilling = u.prefilling /\ t.pool = u.pool /\ t.busy = u.busy
        /\ t.events = u.events /\ t.nextTurns = u.nextTurns /\ t.inFlight = u.inFlight
        /\ t.admitOpen = u.admitOpen /\ t.sess = u.sess /\ t.active = ac
        /\ t.tokens = u.tokens /\ t.state = u.state /\ t.finishedCnt = u.finishedCnt
    BY <2>1, <1>13 DEF Shape
  <2>3. In(t, "FINISHED") = In(u, "FINISHED")
    BY <2>2 DEF In
  <2> QED BY <2>2, <2>3, <1>12 DEF Ticks
<1>15. Lists(ac, In(s, "DECODE") \ Ends(s, R))
  <2>1. ToSet(x.finished) = Ends(s, R) /\ x.finished \in Seq(Ends(s, R))
    BY <1>12, ListsSet DEF Lists
  <2>2. Lists(u.active, In(s, "DECODE"))
    BY <1>12
  <2>3. Lists(ac, In(s, "DECODE") \ ToSet(x.finished))
    BY <2>1, <2>2, <1>11, ListsRemoveAll
  <2> QED BY <2>1, <2>3
<1> QED
  BY <1>14, <1>15

-----------------------------------------------------------------------------
(* The requests of R have decoded, for those of D it was the last token.   *)
Decoded(s, R, D, t) ==
  /\ t.state = [r \in Requests |-> IF r \in D THEN "FINISHED" ELSE s.state[r]]
  /\ t.tokens = [r \in Requests |-> IF r \in R THEN s.tokens[r] + 1 ELSE s.tokens[r]]

(* A decode batch: a token each; those it was the last for are to be dealt *)
(* with.                                                                   *)
LEMMA DecodeDone ==
  ASSUME NEW c, NEW s, Shape(s), s.state \in [Requests -> Statuses], Settled(c, s, {}),
         NEW e \in s.events, e.on = "COMPLETE", e.kind = "DECODE",
         NEW p, PoppedOff(s, e, p),
         NEW t, t = OnDecodeStep(p, e.reqs),
         NEW R, R = ToSet(e.reqs), NEW D, D = Ends(s, R)
  PROVE  Settled(c, t, D) /\ Shape(t) /\ R \subseteq In(s, "DECODE") /\ Decoded(s, R, D, t)
<1>1. p = [s EXCEPT !.events = s.events \ {e}, !.busy = s.busy \ ToSet(e.reqs)]
  BY DEF PoppedOff
<1> USE <1>1
<1>2. /\ QueuesListed(s) /\ RequestsTold(s) /\ BatchesApart(s)
      /\ BlocksDue(c, s, {}) /\ TurnsHeld(c, s, {}) /\ TalliesRight(c, s)
  BY DEF Settled
<1>3. /\ Shape(p) /\ p.state = s.state /\ p.prompt = s.prompt /\ p.session = s.session
      /\ p.tokens = s.tokens /\ p.waiting = s.waiting /\ p.prefilling = s.prefilling
      /\ p.active = s.active /\ p.finishedCnt = s.finishedCnt /\ p.pool = s.pool
      /\ p.nextTurns = s.nextTurns /\ p.admitOpen = s.admitOpen /\ p.sess = s.sess
      /\ p.inFlight = s.inFlight
      /\ p.events = s.events \ {e} /\ p.busy = s.busy \ R
  BY DEF Shape
<1>4. \A x : In(p, x) = In(s, x)
  BY <1>3 DEF In
<1>5. /\ e.reqs \in Seq(Requests) /\ Once(e.reqs) /\ R \subseteq In(s, "DECODE")
      /\ R \subseteq s.busy /\ Timely(s, e)
  BY <1>2 DEF BatchesApart, EventSound, Timely
<1>6. Ends(p, R) = D
  BY <1>3 DEF Ends
<1>7. Ticks(p, R, t) /\ Lists(t.active, In(s, "DECODE") \ D)
  <2>1. RequestsTold(p)
    BY <1>2, <1>3 DEF RequestsTold
  <2>2. p.finishedCnt = Cardinality(In(p, "FINISHED")) /\ Lists(p.active, In(p, "DECODE"))
    BY <1>2, <1>3, <1>4 DEF TalliesRight, QueuesListed
  <2>3. R \subseteq In(p, "DECODE") /\ p.state \in [Requests -> Statuses]
    BY <1>3, <1>4, <1>5
  <2>4. Ticks(p, R, t) /\ Lists(t.active, In(p, "DECODE") \ Ends(p, R))
    BY <2>1, <2>2, <2>3, <1>3, <1>5, DecodeAll
  <2> QED BY <2>4, <1>4, <1>6
<1>8. /\ Shape(t) /\ t.prompt = s.prompt /\ t.session = s.session /\ t.waiting = s.waiting
      /\ t.prefilling = s.prefilling /\ t.pool = s.pool /\ t.busy = s.busy \ R
      /\ t.events = s.events \ {e} /\ t.nextTurns = s.nextTurns /\ t.inFlight = s.inFlight
      /\ t.admitOpen = s.admitOpen /\ t.sess = s.sess
      /\ t.tokens = [r \in Requests |-> IF r \in R THEN s.tokens[r] + 1 ELSE s.tokens[r]]
      /\ t.state = [r \in Requests |-> IF r \in D THEN "FINISHED" ELSE s.state[r]]
      /\ t.finishedCnt = Cardinality(In(t, "FINISHED"))
  BY <1>3, <1>6, <1>7 DEF Ticks
<1>9. /\ D \subseteq R /\ \A r \in R : r \in D <=> s.tokens[r] + 1 = OutputLen
      /\ \A r \in R : r \in Requests /\ s.state[r] = "DECODE" /\ r \in s.busy
  BY <1>5 DEF Ends, In
<1>10. /\ In(t, "WAITING") = In(s, "WAITING")
      /\ In(t, "PREFILL") = In(s, "PREFILL")
      /\ In(t, "DECODE") = In(s, "DECODE") \ D
      /\ In(t, "FINISHED") = In(s, "FINISHED") \cup D
  BY <1>8, <1>9 DEF In
<1>11. QueuesListed(t)
  BY <1>2, <1>7, <1>8, <1>10 DEF QueuesListed
<1>12. ASSUME NEW r \in Requests
       PROVE  \/ r \notin R /\ t.state[r] = s.state[r] /\ t.tokens[r] = s.tokens[r]
              \/ r \in R \ D /\ s.state[r] = "DECODE" /\ t.state[r] = "DECODE"
                 /\ t.tokens[r] = s.tokens[r] + 1
              \/ r \in D /\ s.state[r] = "DECODE" /\ t.state[r] = "FINISHED"
                 /\ t.tokens[r] = s.tokens[r] + 1
  BY <1>8, <1>9
<1>13. \A r \in R : /\ s.tokens[r] \in Nat /\ s.tokens[r] + 1 \in 0 .. OutputLen
                    /\ r \in D => s.tokens[r] + 1 = OutputLen
                    /\ r \notin D => s.tokens[r] + 1 < OutputLen
  BY <1>2, <1>9, ServingAssumption DEF RequestsTold
<1>14. RequestsTold(t)
  <2>1. ASSUME NEW r \in Requests
        PROVE  /\ t.tokens[r] \in 0 .. OutputLen
               /\ t.prompt[r] \in IF t.state[r] = "NEW" THEN {0} ELSE PromptLens \cup {DeltaPrompt}
               /\ t.state[r] = "NEW" => t.session[r] = NoSession
               /\ t.state[r] \notin {"DECODE", "FINISHED"} => t.tokens[r] = 0
               /\ t.state[r] = "DECODE" => t.tokens[r] < OutputLen
               /\ t.state[r] = "FINISHED" => t.tokens[r] = OutputLen
    <3>1. CASE r \notin R /\ t.state[r] = s.state[r] /\ t.tokens[r] = s.tokens[r]
      BY <3>1, <1>2, <1>8 DEF RequestsTold
    <3>2. CASE r \in R \ D /\ s.state[r] = "DECODE" /\ t.state[r] = "DECODE"
               /\ t.tokens[r] = s.tokens[r] + 1
      BY <3>2, <1>2, <1>8, <1>13 DEF RequestsTold
    <3>3. CASE r \in D /\ s.state[r] = "DECODE" /\ t.state[r] = "FINISHED"
               /\ t.tokens[r] = s.tokens[r] + 1
      BY <3>3, <1>2, <1>8, <1>9, <1>13 DEF RequestsTold
    <3> QED BY <3>1, <3>2, <3>3, <1>12
  <2>2. t.tokens \in [Requests -> 0 .. OutputLen]
    BY <2>1, <1>8
  <2> QED BY <2>1, <2>2, <1>2, <1>8 DEF RequestsTold
<1>15. BatchesApart(t)
  <2>1. ASSUME NEW f \in t.events PROVE EventSound(t, f)
    <3>1. f \in s.events /\ f # e /\ EventSound(s, f)
      BY <1>2, <1>8, <2>1 DEF BatchesApart
    <3>2. ToSet(f.reqs) \cap R = {}
      BY <3>1, <1>2, <1>5, OthersApart
    <3> QED BY <3>1, <3>2, <1>8, <1>9, <1>10 DEF EventSound
  <2>2. IsFiniteSet(t.events) /\ t.busy \subseteq In(t, "PREFILL") \cup In(t, "DECODE")
    BY <1>2, <1>8, <1>9, <1>10, FS_Subset DEF BatchesApart
  <2>3. \A f, g \in t.events : Shares(f, g) => SameBatch(f, g)
    BY <1>2, <1>8 DEF BatchesApart
  <2> QED BY <2>1, <2>2, <2>3 DEF BatchesApart
<1>16. BlocksDue(c, t, D)
  <2>1. \A r \in Requests : Full(t, r) = Full(s, r)
    BY <1>8 DEF Full
  <2>2. ASSUME NEW r \in D PROVE t.pool.held[r] = Full(t, r)
    <3>1. r \in Requests /\ s.state[r] = "DECODE" /\ r \in s.busy /\ s.tokens[r] + 1 = OutputLen
      BY <1>9
    <3>2. s.pool.held[r] = Owed(s, r)
      BY <3>1, <1>2 DEF BlocksDue
    <3>3. Owed(s, r) = Full(s, r)
      BY <3>1 DEF Owed, Full
    <3> QED BY <3>1, <3>2, <3>3, <2>1, <1>8
  <2>3. ASSUME NEW r \in Requests, t.state[r] = "DECODE" PROVE t.pool.held[r] = Owed(t, r)
    <3>1. CASE r \notin R /\ t.state[r] = s.state[r] /\ t.tokens[r] = s.tokens[r]
      <4>1. r \in t.busy <=> r \in s.busy
        BY <3>1, <1>8
      <4>2. Owed(t, r) = Owed(s, r)
        BY <3>1, <4>1, <1>8 DEF Owed
      <4> QED BY <4>2, <3>1, <2>3, <1>2, <1>8 DEF BlocksDue
    <3>2. CASE r \in R \ D /\ s.state[r] = "DECODE" /\ t.state[r] = "DECODE"
               /\ t.tokens[r] = s.tokens[r] + 1
      <4>1. r \notin t.busy /\ r \in s.busy
        BY <3>2, <1>8, <1>9
      <4>2. Owed(t, r) = Owed(s, r)
        BY <3>2, <4>1, <1>8 DEF Owed
      <4> QED BY <4>2, <3>2, <2>3, <1>2, <1>8 DEF BlocksDue
    <3> QED BY <3>1, <3>2, <2>3, <1>12
  <2>4. ASSUME NEW r \in Requests, t.state[r] # "DECODE", r \notin D
        PROVE  t.state[r] = s.state[r]
    BY <2>4, <1>12
  <2>5. t.pool = s.pool /\ t.session = s.session /\ t.sess = s.sess /\ t.prompt = s.prompt
    BY <1>8
  <2>6. \A r \in Requests :
          /\ t.state[r] \in {"NEW", "WAITING", "REJECTED"} => t.pool.held[r] = 0
          /\ t.state[r] = "PREFILL" => t.pool.held[r] = BlocksPerChip(t.prompt[r])
    <3>1. \A r \in D : t.state[r] = "FINISHED"
      BY <1>8, <1>9
    <3> QED BY <3>1, <2>4, <2>5, <1>2 DEF BlocksDue
  <2>7. ASSUME NEW r \in Requests, t.state[r] = "FINISHED", r \notin D
        PROVE  /\ t.pool.held[r] \in {0, Full(t, r)}
               /\ IF t.session[r] = NoSession \/ ~t.sess[t.session[r]].here THEN t.pool.held[r] = 0
                  ELSE c.phase = "run" => t.pool.held[r] = Full(t, r)
    BY <2>1, <2>4, <2>5, <2>7, <1>2 DEF BlocksDue
  <2>8. PoolFull(t.pool)
    BY <2>5, <1>2 DEF BlocksDue
  <2> QED BY <2>2, <2>3, <2>6, <2>7, <2>8 DEF BlocksDue
<1>17. TurnsHeld(c, t, D)
  <2>1. \A r \in Requests : (t.state[r] # "FINISHED" \/ r \in D)
                               <=> (s.state[r] # "FINISHED" \/ r \in {})
    BY <1>9, <1>12
  <2>2. D \subseteq In(t, "FINISHED")
    BY <1>10
  <2> QED BY <2>1, <2>2, <1>2, <1>8, TurnsCarried
<1>18. TalliesRight(c, t)
  <2>1. Prefills(t) = Prefills(s)
    BY <1>8 DEF Prefills
  <2>2. \A r \in Requests : Lost(s, r) => Lost(t, r)
    BY <2>1, <1>12 DEF Lost
  <2> QED BY <2>1, <2>2, <1>2, <1>8 DEF TalliesRight
<1>19. Decoded(s, R, D, t)
  BY <1>8, <1>11, <1>14 DEF Decoded
<1> QED
  BY <1>5, <1>8, <1>11, <1>14, <1>15, <1>16, <1>17, <1>18, <1>19 DEF Settled

-----------------------------------------------------------------------------
(* The end of a turn.                                                      *)

(* q is the pool p without what the requests of T hold.                    *)
Emptied(p, T, q) ==
  /\ PoolFull(q)
  /\ q.held = [r \in Requests |-> IF r \in T THEN 0 ELSE p.held[r]]

(* Releasing one more turn.                                                *)
LEMMA EmptiedMore ==
  ASSUME NEW p, NEW T, NEW q, Emptied(p, T, q), NEW r \in Requests
  PROVE  Emptied(p, T \cup {r}, Pool!Release(q, r))
<1>1. PoolFull(q) /\ q.held = [i \in Requests |-> IF i \in T THEN 0 ELSE p.held[i]]
  BY DEF Emptied
<1>2. PICK u : u = Pool!Release(q, r)
  OBVIOUS
<1>3. PoolFull(u) /\ u.held = [q.held EXCEPT ![r] = 0]
  BY <1>1, <1>2, ReleaseFull
<1>4. u.held = [i \in Requests |-> IF i \in T \cup {r} THEN 0 ELSE p.held[i]]
  BY <1>1, <1>3
<1> QED
  BY <1>2, <1>3, <1>4 DEF Emptied

(* Releasing all turns of a session empties them and no other request.     *)
LEMMA EmptiedAll ==
  ASSUME NEW p, PoolFull(p), NEW T, T \subseteq Requests
  PROVE  Emptied(p, T, FoldSet(LAMBDA r, q : Pool!Release(q, r), p, T))
<1>1. IsFiniteSet(T) /\ Releases!IsFiniteSet(T)
  BY RequestsFinite DEF IsFiniteSet, Releases!IsFiniteSet
<1>2. PICK u : u = FoldSet(LAMBDA r, q : Pool!Release(q, r), p, T)
  OBVIOUS
<1>3. u = Releases!FoldedSet({}, p, T)
  BY <1>2 DEF Releases!FoldedSet, FoldSet, MapThenFoldSet,
     Releases!MapThenFoldSet, ReleaseOp
<1>4. PICK ch, it : /\ Releases!OneByOne({}, p, T, ch, it)
                     /\ Releases!FoldedSet({}, p, T) = it[T]
  BY <1>1, Releases!FoldSetSteps
<1>5. /\ it[{}] = p /\ Releases!FoldedSet({}, p, T) = it[T]
      /\ \A S \in SUBSET T :
           S # {} => ch[S] \in S /\ it[S] = ReleaseOp({}, it[S \ {ch[S]}], ch[S])
  BY <1>4 DEF Releases!OneByOne
<1> DEFINE K == {n \in Nat : \A S \in SUBSET T : Cardinality(S) = n => Emptied(p, S, it[S])}
<1>6. PICK n : n = Cardinality(T) /\ n \in Nat
  BY RequestsFinite
<1>7. 0 \in K
  <2>1. ASSUME NEW S \in SUBSET T, Cardinality(S) = 0 PROVE Emptied(p, S, it[S])
    <3>1. S = {}
      BY <2>1, RequestsFinite, FS_EmptySet
    <3>2. p.held = [r \in Requests |-> IF r \in {} THEN 0 ELSE p.held[r]]
      BY DEF PoolFull
    <3> QED BY <3>1, <3>2, <1>5 DEF Emptied
  <2> QED BY <2>1
<1>8. ASSUME NEW i \in 1 .. n, i - 1 \in K PROVE i \in K
  <2>1. ASSUME NEW S \in SUBSET T, Cardinality(S) = i PROVE Emptied(p, S, it[S])
    <3>1. IsFiniteSet(S) /\ S # {}
      BY <2>1, RequestsFinite, FS_EmptySet
    <3>2. PICK r, Z : r = ch[S] /\ Z = S \ {r}
      OBVIOUS
    <3>3. r \in S /\ it[S] = ReleaseOp({}, it[Z], r)
      BY <3>1, <3>2, <1>5
    <3>4. Cardinality(Z) = i - 1 /\ Z \in SUBSET T
      BY <2>1, <3>1, <3>2, <3>3, FS_RemoveElement
    <3>5. Emptied(p, Z, it[Z])
      BY <3>4, <1>8
    <3>6. r \in Requests /\ Z \cup {r} = S
      BY <3>2, <3>3
    <3>7. Emptied(p, Z \cup {r}, Pool!Release(it[Z], r))
      BY <3>5, <3>6, EmptiedMore
    <3> QED BY <3>3, <3>6, <3>7 DEF ReleaseOp
  <2> QED BY <2>1
<1>9. n \in K
  <2> HIDE DEF K
  <2> QED BY <1>6, <1>7, <1>8, Upwards
<1>10. Emptied(p, T, it[T])
  BY <1>6, <1>9
<1> QED
  BY <1>2, <1>3, <1>5, <1>10

(* A turn is over: its session goes on, or is gone with all its blocks.    *)
TurnOver(s, t) ==
  /\ Shape(t) /\ t.state = s.state /\ t.prompt = s.prompt /\ t.session = s.session
  /\ t.tokens = s.tokens /\ t.waiting = s.waiting /\ t.prefilling = s.prefilling
  /\ t.active = s.active /\ t.finishedCnt = s.finishedCnt /\ t.busy = s.busy
  /\ t.events = s.events /\ t.inFlight = s.inFlight /\ t.admitOpen = s.admitOpen

(* Ending a turn touches only blocks and sessions.                         *)
LEMMA TurnOverKeeps ==
  ASSUME NEW c, NEW s, NEW P, Settled(c, s, P), NEW t, TurnOver(s, t), NEW Q,
         BlocksDue(c, t, Q), TurnsHeld(c, t, Q)
  PROVE  Settled(c, t, Q)
<1>1. /\ QueuesListed(s) /\ RequestsTold(s) /\ BatchesApart(s) /\ TalliesRight(c, s)
  BY DEF Settled
<1>2. \A x : In(t, x) = In(s, x)
  BY DEF In, TurnOver
<1>3. QueuesListed(t) /\ RequestsTold(t)
  BY <1>1, <1>2 DEF TurnOver, QueuesListed, RequestsTold
<1>4. BatchesApart(t)
  <2>1. \A e : EventSound(s, e) => EventSound(t, e)
    BY <1>2 DEF EventSound, TurnOver
  <2> QED BY <2>1, <1>1, <1>2 DEF BatchesApart, TurnOver
<1>5. TalliesRight(c, t)
  <2>1. Prefills(t) = Prefills(s)
    BY DEF Prefills, TurnOver
  <2>2. \A r \in Requests : Lost(s, r) => Lost(t, r)
    BY <2>1 DEF Lost, TurnOver
  <2> QED BY <2>1, <2>2, <1>1, <1>2 DEF TalliesRight, TurnOver
<1> QED
  BY <1>3, <1>4, <1>5 DEF Settled

-----------------------------------------------------------------------------
(* One session moves on: h, d and m are what is known of it then.          *)
MovesOn(s, P, t, Q, x, h, d, m) ==
  /\ Q \subseteq In(t, "FINISHED") /\ t.session = s.session /\ x \in Sessions
  /\ h \in BOOLEAN /\ d \in 0 .. Turns /\ m \in {0, 1}
  /\ t.sess = [s.sess EXCEPT ![x] = [here |-> h, done |-> d]]
  /\ t.nextTurns = [s.nextTurns EXCEPT ![x] = m]
  /\ \A y \in Sessions : y # x => Open(t, y, Q) = Open(s, y, P)

(* A change to one session keeps the others' turns.                        *)
LEMMA TurnsMoved ==
  ASSUME NEW c, NEW s, NEW P, TurnsHeld(c, s, P), NEW t, NEW Q, NEW x, NEW h, NEW d, NEW m,
         MovesOn(s, P, t, Q, x, h, d, m), OneTurn(c, h, d, m, TurnsOf(s, x), Open(t, x, Q))
  PROVE  TurnsHeld(c, t, Q)
<1>1. /\ Q \subseteq In(t, "FINISHED") /\ t.session = s.session /\ x \in Sessions
      /\ h \in BOOLEAN /\ d \in 0 .. Turns /\ m \in {0, 1}
      /\ t.sess = [s.sess EXCEPT ![x] = [here |-> h, done |-> d]]
      /\ t.nextTurns = [s.nextTurns EXCEPT ![x] = m]
      /\ \A y \in Sessions : y # x => Open(t, y, Q) = Open(s, y, P)
  BY DEF MovesOn
<1>2. \A y : TurnsOf(t, y) = TurnsOf(s, y)
  BY <1>1 DEF TurnsOf
<1>3. /\ s.sess \in [Sessions -> [here : BOOLEAN, done : 0 .. Turns]]
      /\ s.nextTurns \in [Sessions -> {0, 1}]
      /\ \E k \in 0 .. MaxSessions : \A y \in Sessions : TurnsOf(s, y) # {} <=> y <= k
      /\ \A y \in Sessions : OneTurn(c, s.sess[y].here, s.sess[y].done, s.nextTurns[y],
                                     TurnsOf(s, y), Open(s, y, P))
  BY DEF TurnsHeld
<1>4. [here |-> h, done |-> d] \in [here : BOOLEAN, done : 0 .. Turns]
  BY <1>1
<1>5. /\ t.sess \in [Sessions -> [here : BOOLEAN, done : 0 .. Turns]]
      /\ t.nextTurns \in [Sessions -> {0, 1}]
  BY <1>1, <1>3, <1>4
<1>6. \E k \in 0 .. MaxSessions : \A y \in Sessions : TurnsOf(t, y) # {} <=> y <= k
  BY <1>2, <1>3
<1>7. ASSUME NEW y \in Sessions
      PROVE  OneTurn(c, t.sess[y].here, t.sess[y].done, t.nextTurns[y],
                     TurnsOf(t, y), Open(t, y, Q))
  <2>1. CASE y = x
    <3>1. t.sess[y].here = h /\ t.sess[y].done = d /\ t.nextTurns[y] = m
      BY <2>1, <1>1, <1>3
    <3> QED BY <3>1, <2>1, <1>2
  <2>2. CASE y # x
    <3>1. t.sess[y] = s.sess[y] /\ t.nextTurns[y] = s.nextTurns[y]
      BY <2>2, <1>1, <1>3
    <3> QED BY <3>1, <2>2, <1>1, <1>2, <1>3
  <2> QED BY <2>1, <2>2
<1> QED
  BY <1>1, <1>5, <1>6, <1>7 DEF TurnsHeld

(* The request that ends a turn is the one its session waits for.          *)
ItsLast(s, P, r, x) ==
  /\ x \in Sessions /\ r \in TurnsOf(s, x) /\ r \in Requests
  /\ s.sess[x].here /\ s.nextTurns[x] = 0
  /\ s.sess[x].done \in Nat /\ s.sess[x].done < Turns
  /\ Cardinality(TurnsOf(s, x)) = s.sess[x].done + 1
  /\ Open(s, x, P) = {r}

(* A finished request of a session is its one open turn.                   *)
LEMMA ItsTurn ==
  ASSUME NEW c, NEW s, NEW P, TurnsHeld(c, s, P), RequestsTold(s), NEW r, r \in P,
         NEW x, x = s.session[r], x # NoSession
  PROVE  ItsLast(s, P, r, x)
<1>1. r \in Requests /\ s.state[r] = "FINISHED" /\ x \in Sessions
  BY DEF TurnsHeld, In, RequestsTold
<1>2. /\ r \in TurnsOf(s, x) /\ r \in Open(s, x, P) /\ TurnsOf(s, x) \subseteq Requests
      /\ Open(s, x, P) \subseteq TurnsOf(s, x)
  BY <1>1 DEF TurnsOf, Open
<1>3. /\ OneTurn(c, s.sess[x].here, s.sess[x].done, s.nextTurns[x],
                 TurnsOf(s, x), Open(s, x, P))
      /\ s.sess[x] \in [here : BOOLEAN, done : 0 .. Turns] /\ s.nextTurns[x] \in {0, 1}
  BY <1>1 DEF TurnsHeld
<1>4. PICK T, O : T = TurnsOf(s, x) /\ O = Open(s, x, P)
  OBVIOUS
<1>5. s.sess[x].here /\ O = {r} /\ s.nextTurns[x] = 0 /\ s.sess[x].done < Turns
      /\ s.sess[x].done = Cardinality(T \ O)
  BY <1>2, <1>3, <1>4 DEF OneTurn
<1>6. IsFiniteSet(T) /\ Cardinality(T) \in Nat
  BY <1>2, <1>4, RequestsFinite
<1>7. Cardinality(T \ {r}) = Cardinality(T) - 1 /\ r \in T
  BY <1>2, <1>4, <1>6, FS_RemoveElement
<1>8. s.sess[x].done \in Nat
  BY <1>3, ServingAssumption
<1>9. Cardinality(TurnsOf(s, x)) = s.sess[x].done + 1
  BY <1>4, <1>5, <1>6, <1>7, <1>8
<1> QED
  BY <1>1, <1>2, <1>4, <1>5, <1>8, <1>9 DEF ItsLast

(* Then none of its turns is open.                                         *)
LastClosed(s, P, t, Q, x) ==
  /\ Open(t, x, Q) = {}
  /\ \A y : y # x => Open(t, y, Q) = Open(s, y, P)
  /\ Q \subseteq In(t, "FINISHED")

(* Once that turn is over, the session has none open.                      *)
LEMMA NoneOpen ==
  ASSUME NEW s, NEW P, P \subseteq In(s, "FINISHED"), NEW r, r \in P, NEW x, x = s.session[r],
         Open(s, x, P) = {r}, NEW t, t.state = s.state, t.session = s.session
  PROVE  LastClosed(s, P, t, P \ {r}, x)
<1>1. \A y : TurnsOf(t, y) = TurnsOf(s, y)
  BY DEF TurnsOf
<1>2. P \ {r} \subseteq In(t, "FINISHED") /\ s.state[r] = "FINISHED"
  BY DEF In
<1>3. ASSUME NEW q \in Open(t, x, P \ {r}) PROVE FALSE
  <2>1. q \in TurnsOf(s, x) /\ (s.state[q] # "FINISHED" \/ q \in P \ {r})
    BY <1>1, <1>3 DEF Open
  <2>2. q \in Open(s, x, P)
    BY <2>1 DEF Open
  <2> QED BY <2>1, <2>2, <1>2
<1>4. ASSUME NEW y, y # x PROVE Open(t, y, P \ {r}) = Open(s, y, P)
  <2>1. r \notin TurnsOf(s, y)
    BY <1>4 DEF TurnsOf
  <2> QED BY <2>1, <1>1 DEF Open
<1> QED
  BY <1>2, <1>3, <1>4 DEF LastClosed

-----------------------------------------------------------------------------
(* A regular request gives its blocks back.                                *)
LEMMA RegularOver ==
  ASSUME NEW c, NEW s, Shape(s), NEW P, Settled(c, s, P), NEW r \in P,
         s.session[r] = NoSession, NEW t, t = [s EXCEPT !.pool = Pool!Release(s.pool, r)]
  PROVE  Settled(c, t, P \ {r}) /\ TurnOver(s, t)
<1>1. RequestsTold(s) /\ BlocksDue(c, s, P) /\ TurnsHeld(c, s, P)
  BY DEF Settled
<1>2. r \in Requests /\ s.state[r] = "FINISHED" /\ P \subseteq In(s, "FINISHED")
  BY <1>1 DEF TurnsHeld, In
<1>3. TurnOver(s, t) /\ t.sess = s.sess /\ t.nextTurns = s.nextTurns
      /\ t.pool = Pool!Release(s.pool, r)
  BY DEF Shape, TurnOver
<1>4. PoolFull(t.pool) /\ t.pool.held = [s.pool.held EXCEPT ![r] = 0]
  BY <1>1, <1>2, <1>3, ReleaseFull DEF BlocksDue
<1>5. /\ t.state = s.state /\ t.prompt = s.prompt /\ t.session = s.session /\ t.busy = s.busy
      /\ t.tokens = s.tokens
  BY <1>3 DEF TurnOver
<1>6. \A q \in Requests : /\ q # r => t.pool.held[q] = s.pool.held[q]
                          /\ q = r => t.pool.held[q] = 0
                          /\ Owed(t, q) = Owed(s, q) /\ Full(t, q) = Full(s, q)
  BY <1>1, <1>4, <1>5 DEF BlocksDue, PoolFull, Owed, Full
<1>7. BlocksDue(c, t, P \ {r})
  <2>1. \A q \in Requests :
          /\ t.state[q] \in {"NEW", "WAITING", "REJECTED"} => t.pool.held[q] = 0
          /\ t.state[q] = "PREFILL" => t.pool.held[q] = BlocksPerChip(t.prompt[q])
          /\ t.state[q] = "DECODE" => t.pool.held[q] = Owed(t, q)
    BY <1>1, <1>2, <1>5, <1>6 DEF BlocksDue
  <2>2. ASSUME NEW q \in Requests, t.state[q] = "FINISHED"
        PROVE  /\ t.pool.held[q] \in {0, Full(t, q)}
               /\ q \in P \ {r} => t.pool.held[q] = Full(t, q)
               /\ q \notin P \ {r} =>
                    IF t.session[q] = NoSession \/ ~t.sess[t.session[q]].here
                    THEN t.pool.held[q] = 0
                    ELSE c.phase = "run" => t.pool.held[q] = Full(t, q)
    <3>1. CASE q = r
      BY <3>1, <1>5, <1>6
    <3>2. CASE q # r
      BY <3>2, <2>2, <1>1, <1>3, <1>5, <1>6 DEF BlocksDue
    <3> QED BY <3>1, <3>2
  <2> QED BY <2>1, <2>2, <1>4 DEF BlocksDue
<1>8. TurnsHeld(c, t, P \ {r})
  <2>1. P \ {r} \subseteq In(t, "FINISHED")
    BY <1>2, <1>5 DEF In
  <2>2. \A q \in Requests : s.session[q] \in Sessions =>
          ((t.state[q] # "FINISHED" \/ q \in P \ {r}) <=> (s.state[q] # "FINISHED" \/ q \in P))
    <3>1. r \in Requests /\ s.session[r] \notin Sessions
      BY <1>2, ServingAssumption DEF Sessions
    <3> QED BY <3>1, <1>5
  <2> QED BY <2>1, <2>2, <1>1, <1>3, <1>5, TurnsCarried
<1> QED
  BY <1>3, <1>7, <1>8, TurnOverKeeps

(* The next turn is planned.                                               *)
LEMMA NextPlanned ==
  ASSUME NEW c, NEW s, Shape(s), NEW P, Settled(c, s, P), NEW r \in P,
         NEW x, x = s.session[r], x # NoSession, NEW d, d = s.sess[x].done + 1, d < Turns,
         NEW t, TurnOver(s, t), t.pool = s.pool,
         t.sess = [s.sess EXCEPT ![x] = [here |-> s.sess[x].here, done |-> d]],
         t.nextTurns = [s.nextTurns EXCEPT ![x] = s.nextTurns[x] + 1]
  PROVE  Settled(c, t, P \ {r})
<1>1. RequestsTold(s) /\ BlocksDue(c, s, P) /\ TurnsHeld(c, s, P)
  BY DEF Settled
<1>2. /\ x \in Sessions /\ r \in TurnsOf(s, x) /\ r \in Requests
      /\ s.sess[x].here /\ s.nextTurns[x] = 0
      /\ s.sess[x].done \in Nat /\ s.sess[x].done < Turns
      /\ Cardinality(TurnsOf(s, x)) = s.sess[x].done + 1
      /\ Open(s, x, P) = {r}
  <2>1. ItsLast(s, P, r, x)
    BY <1>1, ItsTurn
  <2> QED BY <2>1 DEF ItsLast
<1>3. P \subseteq In(s, "FINISHED")
      /\ s.sess \in [Sessions -> [here : BOOLEAN, done : 0 .. Turns]]
  BY <1>1 DEF TurnsHeld
<1>4. /\ t.state = s.state /\ t.prompt = s.prompt /\ t.session = s.session /\ t.busy = s.busy
      /\ t.tokens = s.tokens
  BY DEF TurnOver
<1>5. /\ Open(t, x, P \ {r}) = {}
      /\ \A y : y # x => Open(t, y, P \ {r}) = Open(s, y, P)
      /\ P \ {r} \subseteq In(t, "FINISHED")
  <2>1. LastClosed(s, P, t, P \ {r}, x)
    BY <1>2, <1>3, <1>4, NoneOpen
  <2> QED BY <2>1 DEF LastClosed
<1>6. TurnsHeld(c, t, P \ {r})
  <2>1. d \in 0 .. Turns /\ Turns \in Nat
    BY <1>2, ServingAssumption
  <2>2. PICK T, m, h, Q : /\ T = TurnsOf(s, x) /\ m = 1 /\ h = s.sess[x].here /\ Q = P \ {r}
    OBVIOUS
  <2>3. T # {} /\ d = Cardinality(T \ {}) /\ h /\ h \in BOOLEAN
    BY <2>2, <1>2, <1>3
  <2>4. OneTurn(c, h, d, m, T, {})
    BY <2>2, <2>3 DEF OneTurn
  <2>5. OneTurn(c, h, d, m, TurnsOf(s, x), Open(t, x, Q))
    BY <2>2, <2>4, <1>5
  <2>6. /\ t.sess = [s.sess EXCEPT ![x] = [here |-> h, done |-> d]]
        /\ t.nextTurns = [s.nextTurns EXCEPT ![x] = m] /\ m \in {0, 1}
    BY <2>2, <1>2
  <2>7. /\ \A y \in Sessions : y # x => Open(t, y, Q) = Open(s, y, P)
        /\ Q \subseteq In(t, "FINISHED")
    BY <2>2, <1>5
  <2>8. MovesOn(s, P, t, Q, x, h, d, m)
    BY <2>1, <2>3, <2>6, <2>7, <1>2, <1>4 DEF MovesOn
  <2>9. TurnsHeld(c, t, Q)
    BY <2>5, <2>8, <1>1, TurnsMoved
  <2> QED BY <2>2, <2>9
<1>7. \A y \in Sessions : t.sess[y].here = s.sess[y].here
  <2>1. ASSUME NEW y \in Sessions PROVE t.sess[y].here = s.sess[y].here
    <3>1. CASE y = x
      <4>1. PICK h : h = s.sess[x].here
        OBVIOUS
      <4>2. t.sess[x] = [here |-> h, done |-> d]
        BY <4>1, <1>2, <1>3
      <4> QED BY <4>1, <4>2, <3>1
    <3>2. CASE y # x
      BY <3>2, <1>2, <1>3
    <3> QED BY <3>1, <3>2
  <2> QED BY <2>1
<1>8. BlocksDue(c, t, P \ {r})
  <2>1. \A q \in Requests : Owed(t, q) = Owed(s, q) /\ Full(t, q) = Full(s, q)
    BY <1>4 DEF Owed, Full
  <2>2. \A q \in Requests :
          /\ t.state[q] \in {"NEW", "WAITING", "REJECTED"} => t.pool.held[q] = 0
          /\ t.state[q] = "PREFILL" => t.pool.held[q] = BlocksPerChip(t.prompt[q])
          /\ t.state[q] = "DECODE" => t.pool.held[q] = Owed(t, q)
    BY <2>1, <1>1, <1>4 DEF BlocksDue
  <2>3. ASSUME NEW q \in Requests, t.state[q] = "FINISHED"
        PROVE  /\ t.pool.held[q] \in {0, Full(t, q)}
               /\ q \in P \ {r} => t.pool.held[q] = Full(t, q)
               /\ q \notin P \ {r} =>
                    IF t.session[q] = NoSession \/ ~t.sess[t.session[q]].here
                    THEN t.pool.held[q] = 0
                    ELSE c.phase = "run" => t.pool.held[q] = Full(t, q)
    <3>1. CASE q = r
      <4>1. t.pool.held[q] = Full(t, q)
        BY <3>1, <2>1, <2>3, <1>1, <1>4 DEF BlocksDue
      <4>2. t.session[q] = x /\ t.sess[x].here
        BY <3>1, <1>2, <1>4, <1>7
      <4> QED BY <4>1, <4>2, <3>1
    <3>2. CASE q # r
      <4>1. s.session[q] \in Sessions \cup {NoSession}
        BY <1>1 DEF RequestsTold
      <4>2. (t.session[q] = NoSession \/ ~t.sess[t.session[q]].here)
              <=> (s.session[q] = NoSession \/ ~s.sess[s.session[q]].here)
        BY <4>1, <1>4, <1>7
      <4> QED BY <4>2, <3>2, <2>1, <2>3, <1>1, <1>4 DEF BlocksDue
    <3> QED BY <3>1, <3>2
  <2>4. PoolFull(t.pool)
    BY <1>1 DEF BlocksDue
  <2> QED BY <2>2, <2>3, <2>4 DEF BlocksDue
<1> QED
  BY <1>6, <1>8, TurnOverKeeps

-----------------------------------------------------------------------------
(* The session is gone, and all its blocks are free.                       *)
LEMMA SessionOver ==
  ASSUME NEW c, NEW s, Shape(s), NEW P, Settled(c, s, P), NEW r \in P,
         NEW x, x = s.session[r], x # NoSession, NEW d, d = s.sess[x].done + 1,
         NEW t, TurnOver(s, t), Emptied(s.pool, TurnsOf(s, x), t.pool),
         t.sess = [s.sess EXCEPT ![x] = [here |-> FALSE, done |-> d]],
         t.nextTurns = s.nextTurns
  PROVE  Settled(c, t, P \ {r})
<1>1. RequestsTold(s) /\ BlocksDue(c, s, P) /\ TurnsHeld(c, s, P)
  BY DEF Settled
<1>2. /\ x \in Sessions /\ r \in TurnsOf(s, x) /\ r \in Requests
      /\ s.sess[x].here /\ s.nextTurns[x] = 0
      /\ s.sess[x].done \in Nat /\ s.sess[x].done < Turns
      /\ Cardinality(TurnsOf(s, x)) = s.sess[x].done + 1
      /\ Open(s, x, P) = {r}
  <2>1. ItsLast(s, P, r, x)
    BY <1>1, ItsTurn
  <2> QED BY <2>1 DEF ItsLast
<1>3. /\ P \subseteq In(s, "FINISHED")
      /\ s.sess \in [Sessions -> [here : BOOLEAN, done : 0 .. Turns]]
      /\ s.nextTurns \in [Sessions -> {0, 1}]
  BY <1>1 DEF TurnsHeld
<1>4. /\ t.state = s.state /\ t.prompt = s.prompt /\ t.session = s.session /\ t.busy = s.busy
      /\ t.tokens = s.tokens
  BY DEF TurnOver
<1>5. /\ Open(t, x, P \ {r}) = {}
      /\ \A y : y # x => Open(t, y, P \ {r}) = Open(s, y, P)
      /\ P \ {r} \subseteq In(t, "FINISHED")
  <2>1. LastClosed(s, P, t, P \ {r}, x)
    BY <1>2, <1>3, <1>4, NoneOpen
  <2> QED BY <2>1 DEF LastClosed
<1>6. TurnsHeld(c, t, P \ {r})
  <2>1. d \in 0 .. Turns /\ Turns \in Nat
    BY <1>2, ServingAssumption
  <2>2. PICK T, m, h, Q : /\ T = TurnsOf(s, x) /\ m = 0 /\ h = FALSE /\ Q = P \ {r}
    OBVIOUS
  <2>3. T # {} /\ d = Cardinality(T \ {}) /\ ~h /\ h \in BOOLEAN
    BY <2>2, <1>2, <1>3
  <2>4. OneTurn(c, h, d, m, T, {})
    BY <2>2, <2>3 DEF OneTurn
  <2>5. OneTurn(c, h, d, m, TurnsOf(s, x), Open(t, x, Q))
    BY <2>2, <2>4, <1>5
  <2>6. /\ t.sess = [s.sess EXCEPT ![x] = [here |-> h, done |-> d]]
        /\ t.nextTurns = [s.nextTurns EXCEPT ![x] = m] /\ m \in {0, 1}
    BY <2>2, <1>2, <1>3
  <2>7. /\ \A y \in Sessions : y # x => Open(t, y, Q) = Open(s, y, P)
        /\ Q \subseteq In(t, "FINISHED")
    BY <2>2, <1>5
  <2>8. MovesOn(s, P, t, Q, x, h, d, m)
    BY <2>1, <2>3, <2>6, <2>7, <1>2, <1>4 DEF MovesOn
  <2>9. TurnsHeld(c, t, Q)
    BY <2>5, <2>8, <1>1, TurnsMoved
  <2> QED BY <2>2, <2>9
<1>7. /\ \A y \in Sessions : y # x => t.sess[y] = s.sess[y]
      /\ ~t.sess[x].here
  BY <1>2, <1>3
<1>8. /\ PoolFull(t.pool)
      /\ \A q \in Requests : /\ q \in TurnsOf(s, x) => t.pool.held[q] = 0
                             /\ q \notin TurnsOf(s, x) => t.pool.held[q] = s.pool.held[q]
  BY DEF Emptied
<1>9. ASSUME NEW q \in TurnsOf(s, x)
      PROVE  t.state[q] = "FINISHED" /\ q \notin P \ {r} /\ t.session[q] = x
  <2>1. q \in Open(s, x, P) => q = r
    BY <1>2
  <2>2. s.session[q] = x
    BY DEF TurnsOf
  <2>3. s.state[r] = "FINISHED"
    BY <1>3 DEF In
  <2> QED BY <2>1, <2>2, <2>3, <1>4 DEF Open
<1>10. BlocksDue(c, t, P \ {r})
  <2>1. \A q \in Requests : Owed(t, q) = Owed(s, q) /\ Full(t, q) = Full(s, q)
    BY <1>4 DEF Owed, Full
  <2>2. \A q \in Requests :
          /\ t.state[q] \in {"NEW", "WAITING", "REJECTED"} => t.pool.held[q] = 0
          /\ t.state[q] = "PREFILL" => t.pool.held[q] = BlocksPerChip(t.prompt[q])
          /\ t.state[q] = "DECODE" => t.pool.held[q] = Owed(t, q)
    BY <2>1, <1>1, <1>4, <1>8, <1>9 DEF BlocksDue
  <2>3. ASSUME NEW q \in Requests, t.state[q] = "FINISHED"
        PROVE  /\ t.pool.held[q] \in {0, Full(t, q)}
               /\ q \in P \ {r} => t.pool.held[q] = Full(t, q)
               /\ q \notin P \ {r} =>
                    IF t.session[q] = NoSession \/ ~t.sess[t.session[q]].here
                    THEN t.pool.held[q] = 0
                    ELSE c.phase = "run" => t.pool.held[q] = Full(t, q)
    <3>1. CASE q \in TurnsOf(s, x)
      <4>1. t.session[q] = x /\ q \notin P \ {r} /\ t.pool.held[q] = 0
        BY <3>1, <1>8, <1>9
      <4> QED BY <4>1, <1>7
    <3>2. CASE q \notin TurnsOf(s, x)
      <4>1. s.session[q] \in Sessions \cup {NoSession} /\ s.session[q] # x /\ q # r
        BY <3>2, <1>1, <1>2 DEF RequestsTold, TurnsOf
      <4>2. (t.session[q] = NoSession \/ ~t.sess[t.session[q]].here)
              <=> (s.session[q] = NoSession \/ ~s.sess[s.session[q]].here)
        BY <4>1, <1>4, <1>7
      <4>3. t.pool.held[q] = s.pool.held[q]
        BY <3>2, <1>8
      <4> QED BY <4>1, <4>2, <4>3, <2>1, <2>3, <1>1, <1>4 DEF BlocksDue
    <3> QED BY <3>1, <3>2
  <2> QED BY <2>2, <2>3, <1>8 DEF BlocksDue
<1> QED
  BY <1>6, <1>10, TurnOverKeeps

(* ReleaseTurns frees what the turns of a session hold.                    *)
LEMMA ReleaseTurnsFrees ==
  ASSUME NEW s, Shape(s), PoolFull(s.pool), NEW x, NEW t, t = ReleaseTurns(s, x)
  PROVE  /\ TurnOver(s, t) /\ t.sess = s.sess /\ t.nextTurns = s.nextTurns
         /\ Emptied(s.pool, TurnsOf(s, x), t.pool)
<1>1. PICK T, p : T = TurnsOf(s, x) /\ p = FoldSet(LAMBDA r, q : Pool!Release(q, r), s.pool, T)
  OBVIOUS
<1>2. t = [s EXCEPT !.pool = p]
  BY <1>1 DEF ReleaseTurns
<1>3. T \subseteq Requests
  BY <1>1 DEF TurnsOf
<1>4. Emptied(s.pool, T, p)
  BY <1>1, <1>3, EmptiedAll
<1> QED
  BY <1>1, <1>2, <1>4 DEF Shape, TurnOver

(* _maybe_finish_agent_turn settles one finished request.                  *)
LEMMA FinishTurnSettled ==
  ASSUME NEW c, c.phase = phase, NEW s, Shape(s), NEW P, Settled(c, s, P), NEW r, r \in P,
         NEW u, u = FinishTurn(s, r)
  PROVE  Settled(c, u, P \ {r}) /\ TurnOver(s, u)
<1>1. RequestsTold(s) /\ BlocksDue(c, s, P) /\ TurnsHeld(c, s, P)
  BY DEF Settled
<1>2. PICK x, d, here : x = s.session[r] /\ d = s.sess[x].done + 1 /\ here = s.sess[x].here
  OBVIOUS
<1>3. PICK t : t = [s EXCEPT !.sess[x].done = d]
  OBVIOUS
<1>4. CASE x = NoSession
  <2>1. u = [s EXCEPT !.pool = Pool!Release(s.pool, r)]
    BY <1>2, <1>4 DEF FinishTurn, Shape
  <2> QED BY <2>1, <1>2, <1>4, RegularOver
<1>5. CASE x # NoSession
  <2>1. /\ x \in Sessions /\ s.sess[x].here /\ s.nextTurns[x] = 0
        /\ s.sess \in [Sessions -> [here : BOOLEAN, done : 0 .. Turns]]
        /\ s.nextTurns \in [Sessions -> {0, 1}]
    <3>1. ItsLast(s, P, r, x)
      BY <1>1, <1>2, <1>5, ItsTurn
    <3> QED BY <3>1, <1>1 DEF ItsLast, TurnsHeld
  <2>2. PICK se : se = [s.sess EXCEPT ![x] = [here |-> here, done |-> d]]
    OBVIOUS
  <2>3. t = [s EXCEPT !.sess = se]
    <3>1. s.sess[x] \in [here : BOOLEAN, done : 0 .. Turns]
      BY <2>1
    <3>2. [s.sess[x] EXCEPT !.done = d] = [here |-> here, done |-> d]
      BY <3>1, <1>2
    <3> QED BY <3>2, <2>2, <1>3 DEF Shape
  <2>4. /\ TurnOver(s, t) /\ Shape(t) /\ t.sess = se /\ t.pool = s.pool
        /\ t.nextTurns = s.nextTurns
    BY <2>3 DEF Shape, TurnOver
  <2>5. CASE d < Turns /\ phase = "run"
    <3>1. u = [t EXCEPT !.nextTurns[x] = @ + 1]
      BY <2>1, <2>5, <1>2, <1>3, <1>5 DEF FinishTurn
    <3>2. u = [t EXCEPT !.nextTurns = [s.nextTurns EXCEPT ![x] = s.nextTurns[x] + 1]]
      BY <3>1, <2>4
    <3>3. /\ TurnOver(t, u) /\ u.sess = se /\ u.pool = s.pool
          /\ u.nextTurns = [s.nextTurns EXCEPT ![x] = s.nextTurns[x] + 1]
      BY <3>2, <2>4 DEF Shape, TurnOver
    <3>4. TurnOver(s, u)
      BY <3>3, <2>4 DEF TurnOver
    <3>5. u.sess = [s.sess EXCEPT ![x] = [here |-> s.sess[x].here, done |-> d]]
      BY <3>3, <2>2, <1>2
    <3> QED BY <3>3, <3>4, <3>5, <2>5, <1>2, <1>5, NextPlanned
  <2>6. CASE ~(d < Turns /\ phase = "run")
    <3>1. PICK v : v = ReleaseTurns(t, x)
      OBVIOUS
    <3>2. u = [v EXCEPT !.sess[x].here = FALSE]
      BY <3>1, <2>1, <2>6, <1>2, <1>3, <1>5 DEF FinishTurn
    <3>3. PoolFull(t.pool)
      BY <2>4, <1>1 DEF BlocksDue
    <3>4. /\ TurnOver(t, v) /\ v.sess = se /\ v.nextTurns = s.nextTurns
          /\ Emptied(s.pool, TurnsOf(t, x), v.pool)
      BY <3>1, <3>3, <2>4, ReleaseTurnsFrees
    <3>5. PICK sf : sf = [s.sess EXCEPT ![x] = [here |-> FALSE, done |-> d]]
      OBVIOUS
    <3>6. sf = [se EXCEPT ![x] = [se[x] EXCEPT !.here = FALSE]]
      <4>1. se[x] = [here |-> here, done |-> d]
        BY <2>1, <2>2
      <4>2. ASSUME NEW f PROVE [se[x] EXCEPT !.here = f] = [here |-> f, done |-> d]
        <5>1. PICK q : q = se[x]
          OBVIOUS
        <5>2. q = [here |-> here, done |-> d]
          BY <5>1, <4>1
        <5>3. [q EXCEPT !.here = f] = [here |-> f, done |-> d]
          BY <5>2
        <5> QED BY <5>1, <5>3
      <4> QED BY <4>2, <3>5, <2>1, <2>2
    <3>7. u = [v EXCEPT !.sess = sf] /\ Shape(v)
      BY <3>2, <3>4, <3>6 DEF TurnOver
    <3>8. TurnOver(v, u) /\ u.sess = sf /\ u.nextTurns = v.nextTurns /\ u.pool = v.pool
      BY <3>7 DEF Shape, TurnOver
    <3>9. TurnOver(s, u)
      BY <3>4, <3>8, <2>4 DEF TurnOver
    <3>10. TurnsOf(t, x) = TurnsOf(s, x)
      BY <2>4 DEF TurnOver, TurnsOf
    <3>11. Emptied(s.pool, TurnsOf(s, x), u.pool)
      BY <3>4, <3>8, <3>10
    <3>12. u.sess = [s.sess EXCEPT ![x] = [here |-> FALSE, done |-> d]] /\ u.nextTurns = s.nextTurns
      BY <3>4, <3>5, <3>8
    <3> QED BY <3>9, <3>11, <3>12, <1>2, <1>5, SessionOver
  <2> QED BY <2>5, <2>6
<1> QED
  BY <1>4, <1>5

-----------------------------------------------------------------------------
(* After the loop over the batch every finished request is settled.        *)
LEMMA FinishTurnsSettled ==
  ASSUME NEW c, c.phase = phase, NEW s, Shape(s), NEW P, Settled(c, s, P),
         NEW reqs \in Seq(Requests), Once(reqs),
         P = {r \in ToSet(reqs) : s.state[r] = "FINISHED"},
         NEW u, u = FinishTurns(s, reqs)
  PROVE  Settled(c, u, {}) /\ TurnOver(s, u)
<1>1. PICK F, q, n : /\ F = {r \in Requests : s.state[r] = "FINISHED"}
                     /\ q = OnlyIn(F, reqs) /\ n = Len(q)
  OBVIOUS
<1>2. ToSet(reqs) \cap F = P
  <2>1. ToSet(reqs) \subseteq Requests
    BY DEF ToSet
  <2> QED BY <2>1, <1>1
<1>3. Lists(q, P)
  <2>1. Lists(reqs, ToSet(reqs))
    BY ListsOf
  <2> QED BY <2>1, <1>1, <1>2, ListsOnly
<1>4. /\ n \in Nat /\ DOMAIN q = 1 .. n /\ Once(q) /\ ToSet(q) = P
      /\ \A i \in 1 .. n : q[i] \in P
  <2>1. ToSet(q) = P /\ Len(q) \in Nat /\ DOMAIN q = 1 .. Len(q) /\ Once(q) /\ q \in Seq(P)
    BY <1>3, ListsSet DEF Lists
  <2>2. \A i \in 1 .. n : q[i] \in P
    <3>1. DOMAIN q = 1 .. n /\ ToSet(q) = P
      BY <2>1, <1>1
    <3> QED BY <3>1 DEF ToSet
  <2> QED BY <2>1, <2>2, <1>1
<1>5. u = TurnFold!Folded(c, s, q)
  BY <1>1 DEF FinishTurns, TurnFold!Folded, FoldLeft, MapThenFoldSet,
     TurnFold!MapThenFoldSet, Max, TurnFold!Greatest, TurnOp
<1>6. PICK at : TurnFold!Steps(c, s, q, n, at) /\ TurnFold!Folded(c, s, q) = at[n]
  BY <1>4, TurnFold!FoldSteps
<1>7. at[0] = s /\ \A i \in 1 .. n : at[i] = FinishTurn(at[i - 1], q[i])
  BY <1>6 DEF TurnFold!Steps, TurnOp
<1> DEFINE K == {i \in Nat : Settled(c, at[i], P \ Before(q, i)) /\ TurnOver(s, at[i])}
<1>8. 0 \in K
  <2>1. TurnOver(s, s) /\ P \ {} = P
    BY DEF TurnOver
  <2> QED BY <2>1, <1>7, BeforeNone
<1>9. ASSUME NEW i \in 1 .. n, i - 1 \in K PROVE i \in K
  <2>1. PICK B, t, r, Q, v : /\ B = Before(q, i - 1) /\ t = at[i - 1] /\ r = q[i]
                             /\ Q = P \ B /\ v = at[i]
    OBVIOUS
  <2>2. Before(q, i) = B \cup {r} /\ r \notin B /\ r \in Q
    BY <2>1, <1>1, <1>4, BeforeNext, BeforeOnce
  <2>3. Settled(c, t, Q) /\ TurnOver(s, t) /\ i \in Nat /\ v = FinishTurn(t, r)
    BY <2>1, <1>4, <1>7, <1>9
  <2>4. Shape(t)
    BY <2>3 DEF TurnOver
  <2>5. Settled(c, v, Q \ {r}) /\ TurnOver(t, v)
    BY <2>2, <2>3, <2>4, FinishTurnSettled
  <2>6. TurnOver(s, v)
    BY <2>3, <2>5 DEF TurnOver
  <2>7. Q \ {r} = P \ Before(q, i)
    BY <2>1, <2>2
  <2> QED BY <2>1, <2>3, <2>5, <2>6, <2>7
<1>10. n \in K
  <2> HIDE DEF K
  <2> QED BY <1>4, <1>8, <1>9, Upwards
<1>11. P \ Before(q, n) = {}
  BY <1>4, BeforeAll
<1> QED
  BY <1>5, <1>6, <1>10, <1>11

-----------------------------------------------------------------------------
(* The ends of the run and of the drain.                                   *)

(* Outside of the run less is promised.                                    *)
LEMMA PhaseOnly ==
  ASSUME NEW c, NEW s, NEW P, Settled(c, s, P), NEW d, d.phase = "run" => c.phase = "run"
  PROVE  Settled(d, s, P)
<1>1. BlocksDue(d, s, P)
  BY DEF Settled, BlocksDue
<1>2. TurnsHeld(d, s, P)
  BY DEF Settled, TurnsHeld, OneTurn
<1>3. TalliesRight(d, s)
  BY DEF Settled, TalliesRight
<1> QED
  BY <1>1, <1>2, <1>3 DEF Settled

(* What is due depends on nothing else.                                    *)
LEMMA BlocksSame ==
  ASSUME NEW c, NEW s, NEW P, BlocksDue(c, s, P), NEW t, t.state = s.state,
         t.prompt = s.prompt, t.session = s.session, t.tokens = s.tokens, t.busy = s.busy,
         t.pool = s.pool, t.sess = s.sess
  PROVE  BlocksDue(c, t, P)
<1>1. \A r \in Requests : Owed(t, r) = Owed(s, r) /\ Full(t, r) = Full(s, r)
  BY DEF Owed, Full
<1>2. \A r \in Requests :
        /\ t.state[r] \in {"NEW", "WAITING", "REJECTED"} => t.pool.held[r] = 0
        /\ t.state[r] = "PREFILL" => t.pool.held[r] = BlocksPerChip(t.prompt[r])
        /\ t.state[r] = "DECODE" => t.pool.held[r] = Owed(t, r)
  BY <1>1 DEF BlocksDue
<1>3. \A r \in Requests : t.state[r] = "FINISHED" =>
        /\ t.pool.held[r] \in {0, Full(t, r)}
        /\ r \in P => t.pool.held[r] = Full(t, r)
        /\ r \notin P =>
             IF t.session[r] = NoSession \/ ~t.sess[t.session[r]].here THEN t.pool.held[r] = 0
             ELSE c.phase = "run" => t.pool.held[r] = Full(t, r)
  BY <1>1 DEF BlocksDue
<1>4. PoolFull(t.pool)
  BY DEF BlocksDue
<1> QED
  BY <1>2, <1>3, <1>4 DEF BlocksDue

(* An event is dropped.                                                    *)
Dropped(s, e, t) == t = [s EXCEPT !.events = s.events \ {e}]

(* An event is dropped with the requests of its batch.                     *)
LEMMA EventDropped ==
  ASSUME NEW c, NEW s, Shape(s), Settled(c, s, {}), NEW e, Timely(s, e),
         c.phase = "run", NEW d, d.phase # "run",
         NEW t, Dropped(s, e, t)
  PROVE  Settled(d, t, {}) /\ Shape(t) /\ t.state = s.state /\ t.tokens = s.tokens
<1> USE DEF Timely, Dropped
<1>1. /\ QueuesListed(s) /\ RequestsTold(s) /\ BatchesApart(s)
      /\ BlocksDue(d, s, {}) /\ TurnsHeld(d, s, {}) /\ TalliesRight(c, s)
  <2>1. Settled(d, s, {})
    BY PhaseOnly
  <2> QED BY <2>1 DEF Settled
<1>2. /\ Shape(t) /\ t.state = s.state /\ t.prompt = s.prompt /\ t.session = s.session
      /\ t.tokens = s.tokens /\ t.waiting = s.waiting /\ t.prefilling = s.prefilling
      /\ t.active = s.active /\ t.finishedCnt = s.finishedCnt /\ t.pool = s.pool
      /\ t.nextTurns = s.nextTurns /\ t.admitOpen = s.admitOpen /\ t.sess = s.sess
      /\ t.events = s.events \ {e} /\ t.busy = s.busy /\ t.inFlight = s.inFlight
  BY DEF Shape
<1>3. \A x : In(t, x) = In(s, x)
  BY <1>2 DEF In
<1>4. QueuesListed(t) /\ RequestsTold(t)
  <2>1. QueuesListed(t)
    BY <1>1, <1>2, <1>3 DEF QueuesListed
  <2>2. RequestsTold(t)
    BY <1>1, <1>2 DEF RequestsTold
  <2> QED BY <2>1, <2>2
<1>5. BatchesApart(t)
  <2>1. \A f : EventSound(s, f) => EventSound(t, f)
    BY <1>2, <1>3 DEF EventSound
  <2>2. IsFiniteSet(t.events)
    BY <1>1, <1>2, FS_Subset DEF BatchesApart
  <2> QED BY <2>1, <2>2, <1>1, <1>2, <1>3 DEF BatchesApart
<1>6. BlocksDue(d, t, {})
  BY <1>1, <1>2, BlocksSame
<1>7. TurnsHeld(d, t, {})
  BY <1>1, <1>2, TurnsSame
<1>8. TalliesRight(d, t)
  <2>1. IsFiniteSet(Prefills(s)) /\ Cardinality(Prefills(s)) \in Nat
    BY <1>1, PrefillsFinite DEF BatchesApart
  <2>2. s.inFlight = Cardinality(Prefills(s))
    BY <1>1 DEF TalliesRight
  <2>3. t.admitOpen \in BOOLEAN /\ t.finishedCnt = Cardinality(In(t, "FINISHED"))
    BY <1>1, <1>2, <1>3 DEF TalliesRight
  <2>4. CASE e \in Prefills(s)
    <3>1. Prefills(t) = Prefills(s) \ {e}
      BY <1>2 DEF Prefills
    <3>2. Cardinality(Prefills(t)) = Cardinality(Prefills(s)) - 1
      BY <3>1, <2>1, <2>4, FS_RemoveElement
    <3>3. t.inFlight = Cardinality(Prefills(t)) + 1
      BY <3>2, <2>1, <2>2, <1>2
    <3>4. EventSound(s, e) /\ e.kind = "PREFILL" /\ e.on = "COMPLETE"
      BY <2>4, <1>1 DEF BatchesApart, Prefills
    <3>5. e.reqs \in Seq(Requests) /\ e.reqs # <<>> /\ ToSet(e.reqs) \subseteq In(s, "PREFILL")
      BY <3>4 DEF EventSound
    <3>6. PICK r : r \in ToSet(e.reqs)
      <4>1. PICK q : q = e.reqs
        OBVIOUS
      <4>2. q \in Seq(Requests) /\ q # <<>>
        BY <4>1, <3>5
      <4>3. 1 \in DOMAIN q
        BY <4>2
      <4>4. q[1] \in ToSet(q)
        BY <4>3 DEF ToSet
      <4> QED BY <4>1, <4>4
    <3>7. r \in Requests /\ t.state[r] = "PREFILL"
      BY <3>5, <3>6, <1>2 DEF In
    <3>8. ASSUME NEW f \in Prefills(t) PROVE r \notin ToSet(f.reqs)
      <4>1. f \in s.events /\ f # e /\ f.on = "COMPLETE"
        BY <3>1, <3>8 DEF Prefills
      <4>2. Timely(s, e)
        BY DEF Timely
      <4>3. ToSet(f.reqs) \cap ToSet(e.reqs) = {}
        BY <4>1, <4>2, <1>1, OthersApart
      <4> QED BY <4>3, <3>6
    <3>9. Lost(t, r)
      BY <3>7, <3>8 DEF Lost
    <3> QED BY <3>3, <3>7, <3>9, <2>3 DEF TalliesRight
  <2>5. CASE e \notin Prefills(s)
    <3>1. Prefills(t) = Prefills(s)
      BY <2>5, <1>2 DEF Prefills
    <3> QED BY <3>1, <2>2, <2>3, <1>2 DEF TalliesRight
  <2> QED BY <2>4, <2>5
<1> QED
  BY <1>2, <1>4, <1>5, <1>6, <1>7, <1>8 DEF Settled

-----------------------------------------------------------------------------
(* Turns that are dropped.                                                 *)

(* A planned turn is taken back.                                           *)
Unplanned(s, x, t) ==
  t = [s EXCEPT !.nextTurns = [s.nextTurns EXCEPT ![x] = s.nextTurns[x] - 1]]

(* Once the run has ended a turn that was planned may be forgotten.        *)
LEMMA NextTurnDropped ==
  ASSUME NEW c, c.phase # "run", NEW s, Shape(s), Settled(c, s, {}), NEW x \in Sessions,
         s.nextTurns[x] > 0,
         NEW t, Unplanned(s, x, t)
  PROVE  /\ Settled(c, t, {}) /\ TurnOver(s, t) /\ t.sess = s.sess /\ t.pool = s.pool
         /\ Open(t, x, {}) = {} /\ s.sess[x].done < Turns
<1>1. RequestsTold(s) /\ BlocksDue(c, s, {}) /\ TurnsHeld(c, s, {})
  BY DEF Settled
<1>2. /\ TurnOver(s, t) /\ t.sess = s.sess /\ t.pool = s.pool
      /\ t.nextTurns = [s.nextTurns EXCEPT ![x] = s.nextTurns[x] - 1]
  BY DEF Shape, TurnOver, Unplanned
<1>3. /\ s.sess \in [Sessions -> [here : BOOLEAN, done : 0 .. Turns]]
      /\ s.nextTurns \in [Sessions -> {0, 1}] /\ {} \subseteq In(t, "FINISHED")
      /\ OneTurn(c, s.sess[x].here, s.sess[x].done, s.nextTurns[x],
                 TurnsOf(s, x), Open(s, x, {}))
  BY <1>1 DEF TurnsHeld
<1>4. \A y : Open(t, y, {}) = Open(s, y, {})
  BY <1>2 DEF TurnOver, Open, TurnsOf
<1>5. PICK h, d, m, Q : h = s.sess[x].here /\ d = s.sess[x].done /\ m = 0 /\ Q = {}
  OBVIOUS
<1>6. s.nextTurns[x] = 1
  BY <1>3
<1>7. Open(s, x, {}) = {} /\ d < Turns /\ h
  BY <1>3, <1>5, <1>6 DEF OneTurn
<1>8. OneTurn(c, h, d, m, TurnsOf(s, x), Open(t, x, {}))
  BY <1>3, <1>4, <1>5, <1>6, <1>7 DEF OneTurn
<1>9. MovesOn(s, {}, t, {}, x, h, d, m)
  <2>1. t.nextTurns = [s.nextTurns EXCEPT ![x] = m]
    BY <1>2, <1>5, <1>6
  <2>2. s.sess[x] = [here |-> h, done |-> d] /\ h \in BOOLEAN /\ d \in 0 .. Turns /\ m \in {0, 1}
    BY <1>3, <1>5
  <2>3. t.sess = [s.sess EXCEPT ![x] = [here |-> h, done |-> d]]
    BY <2>2, <1>2, <1>3
  <2>4. t.session = s.session
    BY <1>2 DEF TurnOver
  <2> QED BY <2>1, <2>2, <2>3, <2>4, <1>3, <1>4 DEF MovesOn
<1>10. TurnsHeld(c, t, {})
  BY <1>1, <1>8, <1>9, TurnsMoved
<1>11. BlocksDue(c, t, {})
  BY <1>1, <1>2, BlocksSame DEF TurnOver
<1>12. Settled(c, t, {})
  BY <1>2, <1>10, <1>11, TurnOverKeeps
<1> QED
  BY <1>2, <1>4, <1>5, <1>7, <1>12

(* Then what the session holds is released.                                *)
LEMMA TurnsReleased ==
  ASSUME NEW c, c.phase # "run", NEW s, Shape(s), Settled(c, s, {}), NEW x \in Sessions,
         Open(s, x, {}) = {}, NEW t, t = ReleaseTurns(s, x)
  PROVE  Settled(c, t, {}) /\ TurnOver(s, t)
<1>1. RequestsTold(s) /\ BlocksDue(c, s, {}) /\ TurnsHeld(c, s, {})
  BY DEF Settled
<1>2. /\ TurnOver(s, t) /\ t.sess = s.sess /\ t.nextTurns = s.nextTurns
      /\ Emptied(s.pool, TurnsOf(s, x), t.pool)
  BY <1>1, ReleaseTurnsFrees DEF BlocksDue
<1>3. /\ t.state = s.state /\ t.prompt = s.prompt /\ t.session = s.session /\ t.busy = s.busy
      /\ t.tokens = s.tokens
  BY <1>2 DEF TurnOver
<1>4. TurnsHeld(c, t, {})
  BY <1>1, <1>2, <1>3, TurnsSame
<1>5. /\ PoolFull(t.pool)
      /\ \A q \in Requests : /\ q \in TurnsOf(s, x) => t.pool.held[q] = 0
                             /\ q \notin TurnsOf(s, x) => t.pool.held[q] = s.pool.held[q]
  BY <1>2 DEF Emptied
<1>6. \A q \in TurnsOf(s, x) : s.state[q] = "FINISHED"
  BY DEF Open
<1>7. BlocksDue(c, t, {})
  <2>1. \A q \in Requests : Owed(t, q) = Owed(s, q) /\ Full(t, q) = Full(s, q)
    BY <1>3 DEF Owed, Full
  <2>2. \A q \in Requests :
          /\ t.state[q] \in {"NEW", "WAITING", "REJECTED"} => t.pool.held[q] = 0
          /\ t.state[q] = "PREFILL" => t.pool.held[q] = BlocksPerChip(t.prompt[q])
          /\ t.state[q] = "DECODE" => t.pool.held[q] = Owed(t, q)
    BY <2>1, <1>1, <1>3, <1>5, <1>6 DEF BlocksDue
  <2>3. ASSUME NEW q \in Requests, t.state[q] = "FINISHED"
        PROVE  /\ t.pool.held[q] \in {0, Full(t, q)}
               /\ t.session[q] = NoSession \/ ~t.sess[t.session[q]].here => t.pool.held[q] = 0
    BY <2>1, <2>3, <1>1, <1>2, <1>3, <1>5 DEF BlocksDue
  <2> QED BY <2>2, <2>3, <1>5 DEF BlocksDue
<1> QED
  BY <1>2, <1>4, <1>7, TurnOverKeeps

-----------------------------------------------------------------------------
(* Submission.                                                             *)

(* r is submitted, for the session x or none.                              *)
Submitting(s, r, len, x, t) ==
  /\ Shape(t) /\ r \in Requests /\ s.state[r] = "NEW" /\ len \in PromptLens \cup {DeltaPrompt}
  /\ t.state = [s.state EXCEPT ![r] = "WAITING"]
  /\ t.prompt = [s.prompt EXCEPT ![r] = len] /\ t.session = [s.session EXCEPT ![r] = x]
  /\ t.waiting = Append(s.waiting, r)
  /\ t.tokens = s.tokens /\ t.prefilling = s.prefilling /\ t.active = s.active
  /\ t.finishedCnt = s.finishedCnt /\ t.busy = s.busy /\ t.events = s.events
  /\ t.inFlight = s.inFlight /\ t.admitOpen = s.admitOpen /\ t.pool = s.pool

(* A session that is there has one more turn.                              *)
AddsTurn(s, x, h, d, m, t) ==
  /\ h = TRUE /\ d = s.sess[x].done /\ d < Turns /\ m = 0
  /\ t.sess = [s.sess EXCEPT ![x] = [here |-> h, done |-> d]]
  /\ t.nextTurns = [s.nextTurns EXCEPT ![x] = m]
  /\ \E k \in 0 .. MaxSessions : \A y \in Sessions : TurnsOf(t, y) # {} <=> y <= k

(* A session without an open turn may be given its next one.               *)
LEMMA TurnSubmitted ==
  ASSUME NEW c, NEW s, s.state \in [Requests -> Statuses], RequestsTold(s),
         TurnsHeld(c, s, {}), NEW r, NEW len, NEW x \in Sessions, NEW t,
         Submitting(s, r, len, x, t), Open(s, x, {}) = {},
         NEW h, NEW d, NEW m, AddsTurn(s, x, h, d, m, t)
  PROVE  TurnsHeld(c, t, {})
<1> USE DEF AddsTurn
<1>1. /\ r \in Requests /\ s.state[r] = "NEW" /\ t.state = [s.state EXCEPT ![r] = "WAITING"]
      /\ t.session = [s.session EXCEPT ![r] = x]
      /\ s.session \in [Requests -> Sessions \cup {NoSession}]
      /\ s.session[r] = NoSession /\ NoSession \notin Sessions
  BY ServingAssumption DEF Submitting, RequestsTold, Sessions
<1>2. \A y \in Sessions : r \notin TurnsOf(s, y)
  BY <1>1 DEF TurnsOf
<1>3. /\ TurnsOf(t, x) = TurnsOf(s, x) \cup {r}
      /\ \A y \in Sessions : y # x => TurnsOf(t, y) = TurnsOf(s, y)
  BY <1>1 DEF TurnsOf
<1>4. /\ Open(t, x, {}) = {r}
      /\ \A y \in Sessions : y # x => Open(t, y, {}) = Open(s, y, {})
  <2>1. t.state[r] = "WAITING" /\ \A q \in Requests : q # r => t.state[q] = s.state[q]
    BY <1>1
  <2>2. TurnsOf(s, x) \subseteq Requests /\ \A q \in TurnsOf(s, x) : s.state[q] = "FINISHED"
    BY DEF Open, TurnsOf
  <2>3. Open(t, x, {}) = {r}
    BY <2>1, <2>2, <1>2, <1>3 DEF Open
  <2>4. ASSUME NEW y \in Sessions, y # x PROVE Open(t, y, {}) = Open(s, y, {})
    <3>1. TurnsOf(s, y) \subseteq Requests /\ r \notin TurnsOf(s, y)
      BY <1>2 DEF TurnsOf
    <3> QED BY <3>1, <2>1, <2>4, <1>3 DEF Open
  <2> QED BY <2>3, <2>4
<1>5. /\ s.sess \in [Sessions -> [here : BOOLEAN, done : 0 .. Turns]]
      /\ s.nextTurns \in [Sessions -> {0, 1}] /\ {} \subseteq In(t, "FINISHED")
      /\ \A y \in Sessions : OneTurn(c, s.sess[y].here, s.sess[y].done, s.nextTurns[y],
                                     TurnsOf(s, y), Open(s, y, {}))
  BY DEF TurnsHeld
<1>6. d \in 0 .. Turns /\ d = Cardinality(TurnsOf(s, x))
  <2>1. d = Cardinality(TurnsOf(s, x) \ {})
    BY <1>5 DEF OneTurn
  <2>2. TurnsOf(s, x) \ {} = TurnsOf(s, x)
    OBVIOUS
  <2>3. s.sess[x].done \in 0 .. Turns
    BY <1>5
  <2> QED BY <2>1, <2>2, <2>3
<1>7. OneTurn(c, h, d, m, TurnsOf(t, x), Open(t, x, {}))
  <2>1. (TurnsOf(s, x) \cup {r}) \ {r} = TurnsOf(s, x)
    BY <1>2
  <2>2. PICK T : T = TurnsOf(s, x)
    OBVIOUS
  <2>3. d = Cardinality((T \cup {r}) \ {r})
    BY <2>1, <2>2, <1>6
  <2>4. OneTurn(c, h, d, m, T \cup {r}, {r})
    BY <2>3 DEF OneTurn
  <2> QED BY <2>2, <2>4, <1>3, <1>4
<1>8. /\ [here |-> h, done |-> d] \in [here : BOOLEAN, done : 0 .. Turns]
  BY <1>6
<1>9. /\ t.sess \in [Sessions -> [here : BOOLEAN, done : 0 .. Turns]]
      /\ t.nextTurns \in [Sessions -> {0, 1}]
  BY <1>5, <1>8
<1>10. ASSUME NEW y \in Sessions
       PROVE  OneTurn(c, t.sess[y].here, t.sess[y].done, t.nextTurns[y],
                      TurnsOf(t, y), Open(t, y, {}))
  <2>1. CASE y = x
    <3>1. PICK v : v = [here |-> h, done |-> d]
      OBVIOUS
    <3>2. t.sess[y] = v /\ t.nextTurns[y] = m
      BY <3>1, <2>1, <1>5
    <3>3. v.here = h /\ v.done = d
      BY <3>1
    <3> QED BY <3>2, <3>3, <2>1, <1>7
  <2>2. CASE y # x
    <3>1. t.sess[y] = s.sess[y] /\ t.nextTurns[y] = s.nextTurns[y]
      BY <2>2, <1>5
    <3> QED BY <3>1, <2>2, <1>3, <1>4, <1>5
  <2> QED BY <2>1, <2>2
<1> QED
  BY <1>5, <1>9, <1>10 DEF TurnsHeld

(* A submitted request holds nothing and owes nothing.                     *)
LEMMA SubmitSettled ==
  ASSUME NEW c, NEW s, s.state \in [Requests -> Statuses], s.prompt \in [Requests -> Nat],
         Settled(c, s, {}), NEW r, NEW len, NEW x \in Sessions \cup {NoSession}, NEW t,
         Submitting(s, r, len, x, t), TurnsHeld(c, t, {}),
         \A y \in Sessions : TurnsOf(s, y) # {} => t.sess[y].here = s.sess[y].here
  PROVE  Settled(c, t, {})
<1>1. /\ QueuesListed(s) /\ RequestsTold(s) /\ BatchesApart(s)
      /\ BlocksDue(c, s, {}) /\ TurnsHeld(c, s, {}) /\ TalliesRight(c, s)
  BY DEF Settled
<1>2. /\ r \in Requests /\ s.state[r] = "NEW" /\ t.state = [s.state EXCEPT ![r] = "WAITING"]
      /\ len \in PromptLens \cup {DeltaPrompt}
      /\ t.prompt = [s.prompt EXCEPT ![r] = len] /\ t.session = [s.session EXCEPT ![r] = x]
      /\ t.waiting = Append(s.waiting, r)
      /\ t.tokens = s.tokens /\ t.prefilling = s.prefilling /\ t.active = s.active
      /\ t.finishedCnt = s.finishedCnt /\ t.busy = s.busy /\ t.events = s.events
      /\ t.inFlight = s.inFlight /\ t.admitOpen = s.admitOpen /\ t.pool = s.pool
      /\ s.session \in [Requests -> Sessions \cup {NoSession}]
  BY <1>1 DEF Submitting, RequestsTold
<1>3. /\ t.state[r] = "WAITING" /\ t.prompt[r] = len /\ t.session[r] = x
      /\ \A q \in Requests : q # r => /\ t.state[q] = s.state[q] /\ t.prompt[q] = s.prompt[q]
                                      /\ t.session[q] = s.session[q]
  BY <1>2
<1>4. /\ In(t, "WAITING") = In(s, "WAITING") \cup {r} /\ r \notin In(s, "WAITING")
      /\ \A y : y # "WAITING" /\ y # "NEW" => In(t, y) = In(s, y)
  BY <1>2, <1>3 DEF In
<1>5. QueuesListed(t)
  <2>1. Lists(t.waiting, In(t, "WAITING"))
    BY <1>1, <1>2, <1>4, ListsAppend DEF QueuesListed
  <2> QED BY <2>1, <1>1, <1>2, <1>4 DEF QueuesListed
<1>6. RequestsTold(t)
  <2>1. t.session \in [Requests -> Sessions \cup {NoSession}]
    BY <1>2
  <2>2. ASSUME NEW q \in Requests
        PROVE  /\ t.prompt[q] \in IF t.state[q] = "NEW" THEN {0} ELSE PromptLens \cup {DeltaPrompt}
               /\ t.state[q] = "NEW" => t.session[q] = NoSession
               /\ t.state[q] \notin {"DECODE", "FINISHED"} => t.tokens[q] = 0
               /\ t.state[q] = "DECODE" => t.tokens[q] < OutputLen
               /\ t.state[q] = "FINISHED" => t.tokens[q] = OutputLen
    <3>1. CASE q = r
      BY <3>1, <1>1, <1>2, <1>3 DEF RequestsTold
    <3>2. CASE q # r
      BY <3>2, <1>1, <1>2, <1>3 DEF RequestsTold
    <3> QED BY <3>1, <3>2
  <2> QED BY <2>1, <2>2, <1>1, <1>2 DEF RequestsTold
<1>7. BatchesApart(t)
  <2>1. \A e : EventSound(s, e) => EventSound(t, e)
    BY <1>2, <1>4 DEF EventSound
  <2> QED BY <2>1, <1>1, <1>2, <1>4 DEF BatchesApart
<1>8. BlocksDue(c, t, {})
  <2>1. \A q \in Requests : q # r => Owed(t, q) = Owed(s, q) /\ Full(t, q) = Full(s, q)
    BY <1>2, <1>3 DEF Owed, Full
  <2>2. ASSUME NEW q \in Requests
        PROVE  /\ t.state[q] \in {"NEW", "WAITING", "REJECTED"} => t.pool.held[q] = 0
               /\ t.state[q] = "PREFILL" => t.pool.held[q] = BlocksPerChip(t.prompt[q])
               /\ t.state[q] = "DECODE" => t.pool.held[q] = Owed(t, q)
    <3>1. CASE q = r
      BY <3>1, <1>1, <1>2, <1>3 DEF BlocksDue
    <3>2. CASE q # r
      BY <3>2, <2>1, <1>1, <1>2, <1>3 DEF BlocksDue
    <3> QED BY <3>1, <3>2
  <2>3. ASSUME NEW q \in Requests, t.state[q] = "FINISHED"
        PROVE  /\ t.pool.held[q] \in {0, Full(t, q)}
               /\ IF t.session[q] = NoSession \/ ~t.sess[t.session[q]].here THEN t.pool.held[q] = 0
                  ELSE c.phase = "run" => t.pool.held[q] = Full(t, q)
    <3>1. q # r /\ s.state[q] = "FINISHED" /\ t.session[q] = s.session[q]
      BY <2>3, <1>3
    <3>2. s.session[q] \in Sessions \cup {NoSession}
      BY <1>2
    <3>3. s.session[q] \in Sessions => t.sess[s.session[q]].here = s.sess[s.session[q]].here
      <4>1. q \in TurnsOf(s, s.session[q])
        BY DEF TurnsOf
      <4> QED BY <4>1
    <3>4. /\ s.pool.held[q] \in {0, Full(s, q)}
          /\ IF s.session[q] = NoSession \/ ~s.sess[s.session[q]].here THEN s.pool.held[q] = 0
             ELSE c.phase = "run" => s.pool.held[q] = Full(s, q)
      BY <3>1, <1>1 DEF BlocksDue
    <3> QED BY <3>1, <3>2, <3>3, <3>4, <2>1, <1>2
  <2>4. PoolFull(t.pool)
    BY <1>1, <1>2 DEF BlocksDue
  <2> QED BY <2>2, <2>3, <2>4 DEF BlocksDue
<1>9. TalliesRight(c, t)
  <2>1. Prefills(t) = Prefills(s)
    BY <1>2 DEF Prefills
  <2>2. \A q \in Requests : Lost(s, q) => Lost(t, q)
    BY <2>1, <1>2, <1>3 DEF Lost
  <2> QED BY <2>1, <2>2, <1>1, <1>2, <1>4 DEF TalliesRight
<1> QED
  BY <1>5, <1>6, <1>7, <1>8, <1>9 DEF Settled

-----------------------------------------------------------------------------
(* The steps.                                                              *)

(* The joint invariant.                                                    *)
JInv == IInv /\ Settled(Here, Now, {})

(* How far a request has come.                                             *)
Ahead(s, t) ==
  \A r \in Requests :
    /\ Rank[t.state[r]] >= Rank[s.state[r]]
    /\ t.tokens[r] \in {s.tokens[r], s.tokens[r] + 1}
    /\ s.state[r] = "FINISHED" => t.state[r] = "FINISHED"

Forward ==
  \A r \in Requests :
    /\ Rank[state'[r]] >= Rank[state[r]]
    /\ tokens'[r] \in {tokens[r], tokens[r] + 1}
    /\ state[r] = "FINISHED" => state'[r] = "FINISHED"

(* The order of the statuses.                                              *)
LEMMA Ranks ==
  /\ \A y \in Statuses : Rank[y] \in Nat
  /\ Rank["NEW"] = 0 /\ Rank["WAITING"] = 1 /\ Rank["PREFILL"] = 2 /\ Rank["DECODE"] = 3
  /\ Rank["FINISHED"] = 4 /\ Rank["REJECTED"] = 4
BY DEF Rank, Statuses

(* Nothing moved is not moved back.                                        *)
LEMMA AheadSame ==
  ASSUME NEW s, s.state \in [Requests -> Statuses], NEW t, t.state = s.state, t.tokens = s.tokens
  PROVE  Ahead(s, t)
<1> SUFFICES ASSUME NEW r \in Requests
             PROVE  /\ Rank[s.state[r]] >= Rank[s.state[r]]
                    /\ s.tokens[r] \in {s.tokens[r], s.tokens[r] + 1}
  BY DEF Ahead
<1>1. s.state[r] \in Statuses
  OBVIOUS
<1>2. Rank[s.state[r]] \in Nat
  BY <1>1, Ranks
<1> QED
  BY <1>2

(* What the scheduler does to those that wait takes them ahead.            *)
LEMMA AheadMoved ==
  ASSUME NEW s, s.state \in [Requests -> Statuses], NEW t, t.state \in [Requests -> Statuses],
         Ahead(s, t), NEW u, Moved(t, u), u.tokens = t.tokens
  PROVE  Ahead(s, u)
<1> SUFFICES ASSUME NEW r \in Requests
             PROVE  /\ Rank[u.state[r]] >= Rank[s.state[r]]
                    /\ u.tokens[r] \in {s.tokens[r], s.tokens[r] + 1}
                    /\ s.state[r] = "FINISHED" => u.state[r] = "FINISHED"
  BY DEF Ahead
<1>1. PICK x, y, z : x = s.state[r] /\ y = t.state[r] /\ z = u.state[r]
  OBVIOUS
<1>2. /\ Rank[y] >= Rank[x] /\ t.tokens[r] \in {s.tokens[r], s.tokens[r] + 1}
      /\ x = "FINISHED" => y = "FINISHED"
  BY <1>1 DEF Ahead
<1>3. z = y \/ (y = "WAITING" /\ z \in {"PREFILL", "REJECTED"})
  BY <1>1 DEF Moved
<1>4. x \in Statuses /\ Rank[x] \in Nat
  <2>1. x \in Statuses
    BY <1>1
  <2> QED BY <2>1, Ranks
<1>5. Rank[z] >= Rank[x]
  <2>1. CASE z = y
    BY <2>1, <1>2
  <2>2. CASE y = "WAITING" /\ z = "PREFILL"
    BY <2>2, <1>2, <1>4, Ranks
  <2>3. CASE y = "WAITING" /\ z = "REJECTED"
    BY <2>3, <1>2, <1>4, Ranks
  <2> QED BY <2>1, <2>2, <2>3, <1>3
<1> QED
  BY <1>1, <1>2, <1>3, <1>5

(* The fields after a handler are those of a settled record.               *)
LEMMA StepSettled ==
  ASSUME NEW c, NEW t, Shape(t), Becomes(t), Settled(c, t, {}), Ahead(Now, t),
         phase' = "run" => c.phase = "run"
  PROVE  Settled(Here', Now', {}) /\ Forward /\ Now' = t
<1>1. /\ state' = t.state /\ prompt' = t.prompt /\ session' = t.session
      /\ tokens' = t.tokens /\ waiting' = t.waiting /\ prefilling' = t.prefilling
      /\ active' = t.active /\ finishedCnt' = t.finishedCnt /\ pool' = t.pool
      /\ busy' = t.busy /\ events' = t.events /\ nextTurns' = t.nextTurns
      /\ inFlight' = t.inFlight /\ admitOpen' = t.admitOpen /\ sess' = t.sess
  BY DEF Becomes
<1>2. Now' = t
  BY <1>1 DEF Now, Shape
<1>3. PICK d : d = Here'
  OBVIOUS
<1>4. d.phase = phase'
  BY <1>3 DEF Here
<1>5. Settled(d, t, {})
  BY <1>4, PhaseOnly
<1>6. Forward
  <2>1. PICK p : p = Now
    OBVIOUS
  <2>2. p.state = state /\ p.tokens = tokens /\ Ahead(p, t)
    BY <2>1 DEF Now
  <2> QED BY <2>2, <1>1 DEF Ahead, Forward
<1> QED
  BY <1>2, <1>3, <1>5, <1>6

(* What the joint invariant says of the state as one record.               *)
LEMMA NowSettled ==
  ASSUME JInv, NEW c, c = Here, NEW s, s = Now
  PROVE  /\ Good(c, s) /\ Settled(c, s, {}) /\ Shape(s) /\ s.state \in [Requests -> Statuses]
         /\ s.prompt \in [Requests -> Nat] /\ c.phase = phase /\ IInv
<1>1. Good(c, s) /\ Settled(c, s, {}) /\ c.phase = phase /\ IInv
  BY NowSound DEF JInv
<1>2. QueuesSound(c, s) /\ s.prompt = c.prompt /\ c.prompt \in [Requests -> Nat] /\ Shape(s)
  BY <1>1 DEF Good, Context
<1> QED
  BY <1>1, <1>2 DEF QueuesSound

(* Scheduling ends a handler.  With no floor on the size of a batch it     *)
(* leaves no request halfway that is not served.                           *)
Served == MinDecodeBatch = 1 => NoneHalfway(Now')

(* A handler that ends in _maybe_schedule keeps what is settled.           *)
LEMMA ScheduleStep ==
  ASSUME EnoughKV, JInv, NEW c, NEW s, Good(c, s), Settled(c, s, {}), Ahead(Now, s),
         NEW waited, Becomes(MaybeSchedule(s, waited)), phase' = "run" => c.phase = "run"
  PROVE  Settled(Here', Now', {}) /\ Forward /\ Served
<1>1. PICK u : u = MaybeSchedule(s, waited)
  OBVIOUS
<1>2. /\ Settled(c, u, {}) /\ Moved(s, u) /\ u.tokens = s.tokens
      /\ MinDecodeBatch = 1 => NoneHalfway(u)
  BY <1>1, MaybeSettled
<1>3. Good(c, u)
  BY <1>1, MaybeScheduleSound
<1>4. Shape(u) /\ s.state \in [Requests -> Statuses]
  BY <1>3 DEF Good, QueuesSound
<1>5. PICK p : p = Now
  OBVIOUS
<1>6. p.state \in [Requests -> Statuses] /\ Ahead(p, s)
  BY <1>5, NowSettled
<1>7. Ahead(p, u)
  BY <1>2, <1>4, <1>6, AheadMoved
<1>8. Settled(Here', Now', {}) /\ Forward /\ Now' = u
  BY <1>1, <1>2, <1>4, <1>5, <1>7, StepSettled
<1> QED
  BY <1>2, <1>8 DEF Served

(* DECODE_READY keeps what is settled.                                     *)
LEMMA DecodeReadySettles ==
  ASSUME JInv, DecodeReady
  PROVE  Settled(Here', Now', {}) /\ Forward
<1>1. PICK e \in events : /\ e.on = "READY" /\ Fireable(e)
                          /\ Becomes(OnPrefillComplete(Popped(e), e.reqs))
  BY DEF DecodeReady
<1>2. PICK c, s : c = Here /\ s = Now
  OBVIOUS
<1>3. /\ Good(c, s) /\ Settled(c, s, {}) /\ Shape(s) /\ s.state \in [Requests -> Statuses]
      /\ s.events = events /\ c.phase = phase
  BY <1>2, NowSettled DEF Now
<1>4. PICK p : p = [s EXCEPT !.events = s.events \ {e}, !.busy = s.busy \ ToSet(e.reqs)]
  OBVIOUS
<1>5. PICK t : t = OnPrefillComplete(p, e.reqs)
  OBVIOUS
<1>6. Timely(s, e)
  BY <1>1, <1>3 DEF Timely, Fireable
<1>7. Settled(c, t, {}) /\ t.tokens = s.tokens /\ Promoted(s, t)
  <2>1. PoppedOff(s, e, p)
    BY <1>4 DEF PoppedOff
  <2> QED BY <2>1, <1>1, <1>3, <1>5, <1>6, ReadyDone
<1>8. p = Popped(e)
  BY <1>2, <1>4 DEF Popped
<1>9. Shape(t)
  <2>1. Good(Here, Popped(e)) /\ e.reqs \in Seq(Here.known)
    BY PoppedSound DEF JInv, BatchSound
  <2>2. Good(c, p) /\ e.reqs \in Seq(c.known)
    BY <2>1, <1>2, <1>8
  <2>3. Good(c, t)
    BY <2>2, <1>5, OnPrefillCompleteSound
  <2> QED BY <2>3 DEF Good
<1>10. Ahead(s, t)
  <2> SUFFICES ASSUME NEW r \in Requests
               PROVE  /\ Rank[t.state[r]] >= Rank[s.state[r]]
                      /\ t.tokens[r] \in {s.tokens[r], s.tokens[r] + 1}
                      /\ s.state[r] = "FINISHED" => t.state[r] = "FINISHED"
    BY DEF Ahead
  <2>1. s.state[r] \in Statuses
    BY <1>3
  <2>2. Rank[s.state[r]] \in Nat
    BY <2>1, Ranks
  <2>3. CASE t.state[r] = s.state[r]
    BY <2>2, <2>3, <1>7
  <2>4. CASE s.state[r] = "PREFILL" /\ t.state[r] = "DECODE"
    BY <2>4, <1>7, Ranks
  <2> QED BY <2>3, <2>4, <1>7 DEF Promoted
<1>11. Becomes(t) /\ phase' = phase
  BY <1>1, <1>5, <1>8 DEF DecodeReady
<1> QED
  BY <1>2, <1>3, <1>7, <1>9, <1>10, <1>11, StepSettled

-----------------------------------------------------------------------------
(* The batch events.                                                       *)

(* A decode step moves requests forward only.                              *)
LEMMA AheadDecoded ==
  ASSUME NEW s, s.state \in [Requests -> Statuses], RequestsTold(s), NEW R, NEW D, NEW t,
         R \subseteq In(s, "DECODE"), D \subseteq R, Decoded(s, R, D, t)
  PROVE  Ahead(s, t)
<1> SUFFICES ASSUME NEW r \in Requests
             PROVE  /\ Rank[t.state[r]] >= Rank[s.state[r]]
                    /\ t.tokens[r] \in {s.tokens[r], s.tokens[r] + 1}
                    /\ s.state[r] = "FINISHED" => t.state[r] = "FINISHED"
  BY DEF Ahead
<1>1. s.state[r] \in Statuses
  OBVIOUS
<1>2. Rank[s.state[r]] \in Nat
  BY <1>1, Ranks
<1>3. t.tokens[r] \in {s.tokens[r], s.tokens[r] + 1}
  BY DEF Decoded
<1>4. CASE r \in D
  <2>1. s.state[r] = "DECODE" /\ t.state[r] = "FINISHED"
    BY <1>4 DEF Decoded, In
  <2> QED BY <2>1, <1>3, Ranks
<1>5. CASE r \notin D
  <2>1. t.state[r] = s.state[r]
    BY <1>5 DEF Decoded
  <2> QED BY <2>1, <1>2, <1>3
<1> QED
  BY <1>4, <1>5

(* The turns of the requests a decode batch has finished.                  *)
LEMMA DecodeSettles ==
  ASSUME NEW c, c.phase = phase, NEW s, Shape(s), s.state \in [Requests -> Statuses],
         Settled(c, s, {}), NEW e \in s.events, e.on = "COMPLETE", e.kind = "DECODE",
         NEW p, PoppedOff(s, e, p), NEW u, u = AfterDecode(p, e.reqs)
  PROVE  Settled(c, u, {}) /\ Shape(u) /\ Ahead(s, u)
<1>1. PICK R, D, t : R = ToSet(e.reqs) /\ D = Ends(s, R) /\ t = OnDecodeStep(p, e.reqs)
  OBVIOUS
<1>2. Settled(c, t, D) /\ Shape(t) /\ R \subseteq In(s, "DECODE") /\ Decoded(s, R, D, t)
  BY <1>1, DecodeDone
<1>3. e.reqs \in Seq(Requests) /\ Once(e.reqs)
  BY DEF Settled, BatchesApart, EventSound
<1>4. D \subseteq R
  BY <1>1 DEF Ends
<1>5. D = {r \in R : t.state[r] = "FINISHED"}
  <2>1. ASSUME NEW r \in R PROVE t.state[r] = "FINISHED" <=> r \in D
    <3>1. r \in Requests /\ s.state[r] = "DECODE"
      BY <1>2 DEF In
    <3> QED BY <3>1, <1>2 DEF Decoded
  <2> QED BY <2>1, <1>4
<1>6. D = {r \in ToSet(e.reqs) : t.state[r] = "FINISHED"}
  BY <1>1, <1>5
<1>7. u = FinishTurns(t, e.reqs)
  BY <1>1 DEF AfterDecode
<1>8. PICK q : q = e.reqs
  OBVIOUS
<1>9. Settled(c, u, {}) /\ TurnOver(t, u)
  <2>1. /\ q \in Seq(Requests) /\ Once(q) /\ D = {r \in ToSet(q) : t.state[r] = "FINISHED"}
        /\ u = FinishTurns(t, q)
    BY <1>3, <1>6, <1>7, <1>8
  <2> QED BY <2>1, <1>2, FinishTurnsSettled
<1>10. Ahead(s, t)
  BY <1>2, <1>4, AheadDecoded DEF Settled
<1> QED
  BY <1>9, <1>10 DEF TurnOver, Ahead

(* BATCH_COMPLETE, prefill or decode, keeps what is settled.               *)
LEMMA BatchCompleteSettles ==
  ASSUME EnoughKV, JInv, BatchComplete
  PROVE  Settled(Here', Now', {}) /\ Forward /\ Served
<1>1. PICK e \in events, waited \in BOOLEAN :
        /\ e.on = "COMPLETE"
        /\ LET s == IF e.kind = "PREFILL" THEN AfterPrefill(Popped(e))
                                          ELSE AfterDecode(Popped(e), e.reqs)
           IN  Becomes(MaybeSchedule(s, waited))
  BY DEF BatchComplete
<1>2. PICK c, s, p : c = Here /\ s = Now /\ p = Popped(e)
  OBVIOUS
<1>3. /\ Good(c, s) /\ Settled(c, s, {}) /\ Shape(s) /\ s.state \in [Requests -> Statuses]
      /\ s.events = events /\ c.phase = phase /\ e \in s.events
  BY <1>2, NowSettled DEF Now
<1>4. PoppedOff(s, e, p)
  BY <1>2 DEF PoppedOff, Popped
<1>5. Good(c, p) /\ e.reqs \in Seq(c.known)
  <2>1. Good(Here, Popped(e)) /\ e.reqs \in Seq(Here.known)
    BY PoppedSound DEF JInv, BatchSound
  <2> QED BY <2>1, <1>2
<1>6. PICK u : u = IF e.kind = "PREFILL" THEN AfterPrefill(p) ELSE AfterDecode(p, e.reqs)
  OBVIOUS
<1>7. ASSUME e.kind = "PREFILL" PROVE Good(c, u) /\ Settled(c, u, {}) /\ Ahead(s, u)
  <2>1. u = AfterPrefill(p)
    BY <1>6, <1>7
  <2>2. Settled(c, u, {}) /\ Shape(u) /\ u.state = s.state /\ u.tokens = s.tokens
    BY <2>1, <1>1, <1>3, <1>4, <1>7, PrefillDone
  <2>3. Ahead(s, u)
    BY <2>2, <1>3, AheadSame
  <2>4. u = [p EXCEPT !.inFlight = MinusFloor(p.inFlight)]
    BY <2>1 DEF AfterPrefill
  <2>5. Frame(p, u) /\ u.pool = p.pool
    BY <2>4, <1>5 DEF Good, Shape, Frame
  <2>6. Good(c, u)
    BY <2>5, <1>5, FrameStep
  <2> QED BY <2>2, <2>3, <2>6
<1>8. ASSUME e.kind # "PREFILL" PROVE Good(c, u) /\ Settled(c, u, {}) /\ Ahead(s, u)
  <2>1. u = AfterDecode(p, e.reqs)
    BY <1>6, <1>8
  <2>2. e.kind = "DECODE"
    BY <1>3, <1>8 DEF Settled, BatchesApart, EventSound
  <2>3. Settled(c, u, {}) /\ Shape(u) /\ Ahead(s, u)
    BY <2>1, <2>2, <1>1, <1>3, <1>4, DecodeSettles
  <2>4. Good(c, OnDecodeStep(p, e.reqs))
    BY <1>5, OnDecodeStepSound
  <2>5. Good(c, u)
    BY <2>1, <2>4, <1>5, FinishTurnsSound DEF AfterDecode
  <2> QED BY <2>3, <2>5
<1>9. Good(c, u) /\ Settled(c, u, {}) /\ Ahead(s, u)
  BY <1>7, <1>8
<1>10. Becomes(MaybeSchedule(u, waited)) /\ phase' = phase
  BY <1>1, <1>2, <1>6 DEF BatchComplete
<1>11. Ahead(Now, u)
  BY <1>2, <1>9
<1> QED
  BY <1>3, <1>9, <1>10, <1>11, ScheduleStep

-----------------------------------------------------------------------------
(* Steps that submit and complete nothing.                                 *)

(* Whether admission is open is for time to say.                           *)
Admits(s, open, t) == t = [s EXCEPT !.admitOpen = open]

(* Opening or closing admission changes no request.                        *)
LEMMA AdmissionSet ==
  ASSUME NEW c, NEW s, Shape(s), Settled(c, s, {}), NEW open \in BOOLEAN,
         NEW t, Admits(s, open, t)
  PROVE  Settled(c, t, {}) /\ Shape(t) /\ t.state = s.state /\ t.tokens = s.tokens
<1>1. /\ Shape(t) /\ t.state = s.state /\ t.prompt = s.prompt /\ t.session = s.session
      /\ t.tokens = s.tokens /\ t.waiting = s.waiting /\ t.prefilling = s.prefilling
      /\ t.active = s.active /\ t.finishedCnt = s.finishedCnt /\ t.pool = s.pool
      /\ t.busy = s.busy /\ t.events = s.events /\ t.nextTurns = s.nextTurns
      /\ t.inFlight = s.inFlight /\ t.admitOpen = open /\ t.sess = s.sess
  BY DEF Shape, Admits
<1>2. /\ QueuesListed(s) /\ RequestsTold(s) /\ BatchesApart(s)
      /\ BlocksDue(c, s, {}) /\ TurnsHeld(c, s, {}) /\ TalliesRight(c, s)
  BY DEF Settled
<1>3. \A x : In(t, x) = In(s, x)
  BY <1>1 DEF In
<1>4. QueuesListed(t)
  BY <1>1, <1>2, <1>3 DEF QueuesListed
<1>5. RequestsTold(t)
  BY <1>1, <1>2 DEF RequestsTold
<1>6. BatchesApart(t)
  <2>1. \A e \in s.events : EventSound(t, e)
    BY <1>1, <1>2, <1>3 DEF BatchesApart, EventSound
  <2> QED BY <2>1, <1>1, <1>2, <1>3 DEF BatchesApart
<1>7. BlocksDue(c, t, {})
  BY <1>1, <1>2, BlocksSame
<1>8. TurnsHeld(c, t, {})
  <2>1. \A r \in Requests : t.state[r] = "FINISHED" <=> s.state[r] = "FINISHED"
    BY <1>1
  <2> QED BY <2>1, <1>1, <1>2, TurnsSame
<1>9. TalliesRight(c, t)
  <2>1. Prefills(t) = Prefills(s)
    BY <1>1 DEF Prefills
  <2>2. \A r \in Requests : Lost(s, r) => Lost(t, r)
    BY <2>1, <1>1 DEF Lost
  <2> QED BY <2>1, <2>2, <1>1, <1>2, <1>3 DEF TalliesRight
<1> QED
  BY <1>1, <1>4, <1>5, <1>6, <1>7, <1>8, <1>9 DEF Settled

(* The time passing until admission opens keeps what is settled.           *)
LEMMA OpenAdmissionSettles ==
  ASSUME JInv, OpenAdmission
  PROVE  Settled(Here', Now', {}) /\ Forward
<1>1. PICK c, s, open, t : /\ c = Here /\ s = Now /\ open = TRUE
                           /\ t = [s EXCEPT !.admitOpen = open]
  OBVIOUS
<1>2. Settled(c, s, {}) /\ Shape(s) /\ s.state \in [Requests -> Statuses] /\ c.phase = phase
  BY <1>1, NowSettled
<1>3. Settled(c, t, {}) /\ Shape(t) /\ t.state = s.state /\ t.tokens = s.tokens
  <2>1. Admits(s, open, t) /\ open \in BOOLEAN
    BY <1>1 DEF Admits
  <2> QED BY <2>1, <1>2, AdmissionSet
<1>4. Ahead(s, t)
  BY <1>2, <1>3, AheadSame
<1>5. Becomes(t) /\ phase' = phase /\ Ahead(Now, t)
  BY <1>1, <1>4 DEF OpenAdmission
<1> QED
  BY <1>2, <1>3, <1>5, StepSettled

-----------------------------------------------------------------------------
(* A next turn dropped in the drain keeps what is settled.                 *)
LEMMA AgentNextTurnDrainSettles ==
  ASSUME JInv, AgentNextTurnDrain
  PROVE  Settled(Here', Now', {}) /\ Forward
<1>1. PICK x \in Sessions :
        /\ nextTurns[x] > 0
        /\ LET s == [Now EXCEPT !.nextTurns[x] = @ - 1]
           IN  Becomes(IF sess[x].done < Turns THEN ReleaseTurns(s, x) ELSE s)
  BY DEF AgentNextTurnDrain
<1>2. PICK c, s, t, u : /\ c = Here /\ s = Now /\ t = [s EXCEPT !.nextTurns[x] = @ - 1]
                        /\ u = ReleaseTurns(t, x)
  OBVIOUS
<1>3. /\ Settled(c, s, {}) /\ Shape(s) /\ s.state \in [Requests -> Statuses]
      /\ c.phase = phase /\ s.nextTurns = nextTurns /\ s.sess = sess
  BY <1>2, NowSettled DEF Now
<1>4. Unplanned(s, x, t) /\ s.nextTurns[x] > 0 /\ c.phase # "run" /\ phase' # "run"
  BY <1>1, <1>2, <1>3 DEF Unplanned, AgentNextTurnDrain
<1>5. /\ Settled(c, t, {}) /\ TurnOver(s, t) /\ Open(t, x, {}) = {} /\ s.sess[x].done < Turns
  BY <1>3, <1>4, NextTurnDropped
<1>6. Settled(c, u, {}) /\ TurnOver(t, u)
  <2>1. Shape(t)
    BY <1>5 DEF TurnOver
  <2> QED BY <2>1, <1>2, <1>4, <1>5, TurnsReleased
<1>7. Ahead(s, u) /\ Shape(u)
  BY <1>3, <1>5, <1>6, AheadSame DEF TurnOver
<1>8. Becomes(u)
  BY <1>1, <1>2, <1>3, <1>5
<1>9. Ahead(Now, u)
  BY <1>2, <1>7
<1> QED
  BY <1>4, <1>6, <1>7, <1>8, <1>9, StepSettled

(* The end of the run, which drops the event it has popped, keeps what is  *)
(* settled.                                                                *)
LEMMA EndRunSettles ==
  ASSUME JInv, EndRun
  PROVE  Settled(Here', Now', {}) /\ Forward
<1>1. PICK c, s : c = Here /\ s = Now
  OBVIOUS
<1>2. /\ Settled(c, s, {}) /\ Shape(s) /\ s.state \in [Requests -> Statuses] /\ c.phase = "run"
      /\ s.nextTurns = nextTurns /\ s.events = events
  BY <1>1, NowSettled DEF Now, EndRun
<1>3. PICK d : d = [c EXCEPT !.phase = "drain"]
  OBVIOUS
<1>4. d.phase # "run" /\ phase' # "run"
  BY <1>1, <1>3 DEF Here, EndRun
<1>5. Settled(d, s, {})
  BY <1>2, <1>4, PhaseOnly
<1>6. CASE Becomes(Now)
  <2>1. Becomes(s) /\ Ahead(Now, s)
    BY <1>1, <1>2, <1>6, AheadSame
  <2> QED BY <2>1, <1>2, <1>4, <1>5, StepSettled
<1>7. CASE \E e \in events : Fireable(e) /\ Becomes([Now EXCEPT !.events = @ \ {e}])
  <2>1. PICK e \in events : Fireable(e) /\ Becomes([Now EXCEPT !.events = @ \ {e}])
    BY <1>7
  <2>2. PICK t : t = [s EXCEPT !.events = @ \ {e}]
    OBVIOUS
  <2>3. Timely(s, e) /\ Dropped(s, e, t)
    BY <2>1, <2>2, <1>2 DEF Timely, Dropped, Fireable
  <2>4. Settled(d, t, {}) /\ Shape(t) /\ t.state = s.state /\ t.tokens = s.tokens
    BY <2>3, <1>2, <1>4, EventDropped
  <2>5. Ahead(s, t)
    BY <2>4, <1>2, AheadSame
  <2>6. Becomes(t) /\ Ahead(Now, t)
    BY <2>1, <2>2, <2>5, <1>1
  <2> QED BY <2>4, <2>6, <1>4, StepSettled
<1>8. CASE \E x \in Sessions : nextTurns[x] > 0 /\ Becomes([Now EXCEPT !.nextTurns[x] = @ - 1])
  <2>1. PICK x \in Sessions :
          nextTurns[x] > 0 /\ Becomes([Now EXCEPT !.nextTurns[x] = @ - 1])
    BY <1>8
  <2>2. PICK t : t = [s EXCEPT !.nextTurns[x] = @ - 1]
    OBVIOUS
  <2>3. Unplanned(s, x, t) /\ s.nextTurns[x] > 0
    BY <2>1, <2>2, <1>2 DEF Unplanned
  <2>4. Settled(d, t, {}) /\ TurnOver(s, t)
    BY <2>3, <1>2, <1>4, <1>5, NextTurnDropped
  <2>5. Ahead(s, t) /\ Shape(t)
    BY <2>4, <1>2, AheadSame DEF TurnOver
  <2>6. Becomes(t) /\ Ahead(Now, t)
    BY <2>1, <2>2, <2>5, <1>1
  <2> QED BY <2>4, <2>5, <2>6, <1>4, StepSettled
<1> QED
  BY <1>6, <1>7, <1>8 DEF EndRun

(* A turn of the drain loop keeps what is settled.                         *)
LEMMA DrainTurnSettles ==
  ASSUME EnoughKV, JInv, DrainTurn
  PROVE  Settled(Here', Now', {}) /\ Forward /\ Served
<1>1. PICK open, waited \in BOOLEAN :
        Becomes(MaybeSchedule([Now EXCEPT !.admitOpen = open], waited))
  BY DEF DrainTurn
<1>2. PICK c, s, t : c = Here /\ s = Now /\ t = [s EXCEPT !.admitOpen = open]
  OBVIOUS
<1>3. /\ Good(c, s) /\ Settled(c, s, {}) /\ Shape(s) /\ s.state \in [Requests -> Statuses]
  BY <1>2, NowSettled
<1>4. Admits(s, open, t) /\ phase' # "run"
  BY <1>2 DEF Admits, DrainTurn
<1>5. Settled(c, t, {}) /\ Shape(t) /\ t.state = s.state /\ t.tokens = s.tokens
  BY <1>3, <1>4, AdmissionSet
<1>6. Good(c, t)
  <2>1. Frame(s, t) /\ t.pool = s.pool
    BY <1>2, <1>3 DEF Good, Shape, Frame
  <2> QED BY <2>1, <1>3, FrameStep
<1>7. Ahead(s, t)
  BY <1>3, <1>5, AheadSame
<1>8. Becomes(MaybeSchedule(t, waited)) /\ Ahead(Now, t)
  BY <1>1, <1>2, <1>7
<1> QED
  BY <1>4, <1>5, <1>6, <1>8, ScheduleStep

(* Neither the bookkeeping of the drain nor a stutter touches a request.   *)
LEMMA RestSettles ==
  ASSUME JInv, DrainTurnEnds \/ DrainEnds \/ Done \/ UNCHANGED vars
  PROVE  Settled(Here', Now', {}) /\ Forward
<1>1. PICK c, s : c = Here /\ s = Now
  OBVIOUS
<1>2. Settled(c, s, {}) /\ Shape(s) /\ s.state \in [Requests -> Statuses] /\ c.phase = phase
  BY <1>1, NowSettled
<1>3. Becomes(s) /\ (phase' = "run" => c.phase = "run")
  <2>1. CASE DrainTurnEnds \/ DrainEnds
    BY <2>1, <1>1 DEF DrainTurnEnds, DrainEnds
  <2>2. CASE Done \/ UNCHANGED vars
    <3>1. UNCHANGED vars
      BY <2>2 DEF Done
    <3> QED BY <3>1, <1>1, <1>2 DEF vars, Becomes, Now
  <2> QED BY <2>1, <2>2
<1>4. Ahead(s, s)
  BY <1>2, AheadSame
<1>5. Ahead(Now, s)
  BY <1>1, <1>4
<1> QED
  BY <1>2, <1>3, <1>5, StepSettled

-----------------------------------------------------------------------------
(* b differs from s in what it says of sessions.                           *)
Elsewhere(s, b) == TurnOver(s, b) /\ b.pool = s.pool

(* submit_request adds one request to the waiting list.                    *)
LEMMA Submits ==
  ASSUME NEW s, NEW b, Elsewhere(s, b), NEW r \in Requests, s.state[r] = "NEW",
         NEW len \in PromptLens \cup {DeltaPrompt}, NEW x, NEW t, t = Submit(b, r, len, x)
  PROVE  Submitting(s, r, len, x, t) /\ t.sess = b.sess /\ t.nextTurns = b.nextTurns
<1>1. /\ Shape(b) /\ b.state = s.state /\ b.prompt = s.prompt /\ b.session = s.session
      /\ b.tokens = s.tokens /\ b.waiting = s.waiting /\ b.prefilling = s.prefilling
      /\ b.active = s.active /\ b.finishedCnt = s.finishedCnt /\ b.busy = s.busy
      /\ b.events = s.events /\ b.inFlight = s.inFlight /\ b.admitOpen = s.admitOpen
      /\ b.pool = s.pool
  BY DEF Elsewhere, TurnOver
<1>2. /\ Shape(t) /\ t.state = [b.state EXCEPT ![r] = "WAITING"]
      /\ t.prompt = [b.prompt EXCEPT ![r] = len] /\ t.session = [b.session EXCEPT ![r] = x]
      /\ t.waiting = Append(b.waiting, r)
      /\ t.tokens = b.tokens /\ t.prefilling = b.prefilling /\ t.active = b.active
      /\ t.finishedCnt = b.finishedCnt /\ t.busy = b.busy /\ t.events = b.events
      /\ t.inFlight = b.inFlight /\ t.admitOpen = b.admitOpen /\ t.pool = b.pool
      /\ t.sess = b.sess /\ t.nextTurns = b.nextTurns
  BY <1>1 DEF Submit, Shape
<1> QED
  BY <1>1, <1>2 DEF Submitting

(* Submitting moves a request forward.                                     *)
LEMMA AheadSubmitted ==
  ASSUME NEW s, s.state \in [Requests -> Statuses], NEW r, NEW len, NEW x, NEW t,
         Submitting(s, r, len, x, t)
  PROVE  Ahead(s, t)
<1> SUFFICES ASSUME NEW q \in Requests
             PROVE  /\ Rank[t.state[q]] >= Rank[s.state[q]]
                    /\ t.tokens[q] \in {s.tokens[q], s.tokens[q] + 1}
                    /\ s.state[q] = "FINISHED" => t.state[q] = "FINISHED"
  BY DEF Ahead
<1>1. /\ t.state = [s.state EXCEPT ![r] = "WAITING"] /\ s.state[r] = "NEW" /\ r \in Requests
      /\ t.tokens = s.tokens
  BY DEF Submitting
<1>2. s.state[q] \in Statuses
  OBVIOUS
<1>3. Rank[s.state[q]] \in Nat
  BY <1>2, Ranks
<1>4. CASE q = r
  <2>1. t.state[q] = "WAITING" /\ s.state[q] = "NEW"
    BY <1>1, <1>4
  <2> QED BY <2>1, <1>1, Ranks
<1>5. CASE q # r
  <2>1. t.state[q] = s.state[q]
    BY <1>1, <1>5
  <2> QED BY <2>1, <1>1, <1>3
<1> QED
  BY <1>4, <1>5

(* A settled submission followed by what the loop schedules.               *)
LEMMA SubmitStepSettles ==
  ASSUME EnoughKV, JInv, NextId <= MaxRequests, NEW n, n = NextId, NEW s, s = Now,
         NEW b, Elsewhere(s, b), NEW len \in PromptLens \cup {DeltaPrompt}, NEW x, NEW waited,
         NEW t, t = Submit(b, n, len, x), NEW c, c = Here, Settled(c, t, {}),
         Submitting(s, n, len, x, t), Becomes(MaybeSchedule(t, waited)), phase' = phase
  PROVE  Settled(Here', Now', {}) /\ Forward
<1>1. /\ Good(c, s) /\ Shape(s) /\ s.state \in [Requests -> Statuses] /\ c.phase = phase
      /\ IInv /\ c.known = Submitted
  BY NowSettled, NowSound
<1>2. PICK d : d = [known |-> c.known \cup {n}, prompt |-> [c.prompt EXCEPT ![n] = len],
                    phase |-> c.phase]
  OBVIOUS
<1>3. n \in Requests /\ n \notin c.known /\ len \in Nat
  BY <1>1, NextIdFresh, ServingAssumption
<1>4. Frame(s, b)
  BY DEF Elsewhere, TurnOver, Frame
<1>5. Good(c, b)
  BY <1>1, <1>4, FrameStep DEF Elsewhere
<1>6. Good(d, t)
  BY <1>2, <1>3, <1>5, SubmitSound
<1>7. d.phase = c.phase
  BY <1>2
<1>8. Settled(d, t, {})
  BY <1>7, PhaseOnly
<1>9. Ahead(s, t)
  BY <1>1, AheadSubmitted
<1>10. Ahead(Now, t)
  BY <1>9
<1> QED
  BY <1>1, <1>6, <1>7, <1>8, <1>10, ScheduleStep

(* A regular request.                                                      *)
LEMMA RegularSubmitted ==
  ASSUME NEW c, NEW s, Shape(s), s.state \in [Requests -> Statuses],
         s.prompt \in [Requests -> Nat], Settled(c, s, {}), NEW r, NEW len, NEW t,
         Submitting(s, r, len, NoSession, t), t.sess = s.sess, t.nextTurns = s.nextTurns
  PROVE  Settled(c, t, {})
<1>1. RequestsTold(s) /\ TurnsHeld(c, s, {})
  BY DEF Settled
<1>2. /\ r \in Requests /\ s.state[r] = "NEW" /\ t.session = [s.session EXCEPT ![r] = NoSession]
      /\ t.state = [s.state EXCEPT ![r] = "WAITING"]
  BY DEF Submitting
<1>3. t.session = s.session
  <2>1. s.session[r] = NoSession /\ s.session \in [Requests -> Sessions \cup {NoSession}]
    BY <1>1, <1>2 DEF RequestsTold
  <2> QED BY <2>1, <1>2
<1>4. \A q \in Requests : t.state[q] = "FINISHED" <=> s.state[q] = "FINISHED"
  BY <1>2
<1>5. TurnsHeld(c, t, {})
  BY <1>1, <1>3, <1>4, TurnsSame
<1>6. \A y \in Sessions : TurnsOf(s, y) # {} => t.sess[y].here = s.sess[y].here
  OBVIOUS
<1>7. NoSession \in Sessions \cup {NoSession}
  OBVIOUS
<1> QED
  BY <1>5, <1>6, <1>7, SubmitSettled

-----------------------------------------------------------------------------
(* The size of an interval.                                                *)
LEMMA UpTo == ASSUME NEW k \in Nat PROVE Cardinality(1 .. k) = k
BY FS_Interval

(* A session and its first turn: sessions are numbered as they come.       *)
LEMMA FirstTurn ==
  ASSUME NEW c, NEW s, Shape(s), s.state \in [Requests -> Statuses],
         s.prompt \in [Requests -> Nat], Settled(c, s, {}), NEW r, NEW len, NEW x \in Sessions,
         x = Cardinality({y \in Sessions : TurnsOf(s, y) # {}}) + 1,
         NEW t, Submitting(s, r, len, x, t), t.nextTurns = s.nextTurns,
         t.sess = [s.sess EXCEPT ![x].here = TRUE]
  PROVE  Settled(c, t, {})
<1>1. RequestsTold(s) /\ TurnsHeld(c, s, {})
  BY DEF Settled
<1>2. PICK k \in 0 .. MaxSessions : \A y \in Sessions : TurnsOf(s, y) # {} <=> y <= k
  BY <1>1 DEF TurnsHeld
<1>3. x = k + 1
  <2>1. {y \in Sessions : TurnsOf(s, y) # {}} = 1 .. k
    BY <1>2, ServingAssumption DEF Sessions
  <2>2. k \in Nat
    BY ServingAssumption
  <2>3. Cardinality(1 .. k) = k
    BY <2>2, UpTo
  <2> QED BY <2>1, <2>3
<1>4. TurnsOf(s, x) = {} /\ Open(s, x, {}) = {}
  <2>1. ~(x <= k)
    BY <1>3, ServingAssumption
  <2>2. TurnsOf(s, x) = {}
    BY <2>1, <1>2
  <2> QED BY <2>2 DEF Open
<1>5. /\ s.sess \in [Sessions -> [here : BOOLEAN, done : 0 .. Turns]]
      /\ s.nextTurns \in [Sessions -> {0, 1}]
      /\ OneTurn(c, s.sess[x].here, s.sess[x].done, s.nextTurns[x],
                 TurnsOf(s, x), Open(s, x, {}))
  BY <1>1 DEF TurnsHeld
<1>6. ~s.sess[x].here /\ s.nextTurns[x] = 0
  BY <1>4, <1>5 DEF OneTurn
<1>7. s.sess[x].done = 0
  <2>1. s.sess[x].done = Cardinality({} \ {})
    BY <1>4, <1>5 DEF OneTurn
  <2> QED BY <2>1, FS_EmptySet
<1>8. PICK h, d, m : h = TRUE /\ d = s.sess[x].done /\ m = 0
  OBVIOUS
<1>9. d < Turns
  BY <1>7, <1>8, ServingAssumption
<1>10. t.sess = [s.sess EXCEPT ![x] = [here |-> h, done |-> d]]
  <2>1. PICK v : v = s.sess[x]
    OBVIOUS
  <2>2. v \in [here : BOOLEAN, done : 0 .. Turns]
    BY <2>1, <1>5
  <2>3. [v EXCEPT !.here = TRUE] = [here |-> h, done |-> d]
    <3>1. v = [here |-> v.here, done |-> v.done]
      BY <2>2
    <3>2. [v EXCEPT !.here = h] = [here |-> h, done |-> v.done]
      BY <3>1
    <3> QED BY <3>2, <2>1, <1>8
  <2> QED BY <2>1, <2>3
<1>11. t.nextTurns = [s.nextTurns EXCEPT ![x] = m]
  BY <1>5, <1>6, <1>8
<1>12. s.session \in [Requests -> Sessions \cup {NoSession}] /\ r \in Requests
       /\ t.session = [s.session EXCEPT ![r] = x] /\ s.session[r] = NoSession
       /\ NoSession \notin Sessions
  BY <1>1, ServingAssumption DEF RequestsTold, Submitting, Sessions
<1>13. \E j \in 0 .. MaxSessions : \A y \in Sessions : TurnsOf(t, y) # {} <=> y <= j
  <2>1. ASSUME NEW y \in Sessions PROVE TurnsOf(t, y) # {} <=> y <= x
    <3>1. CASE y = x
      <4>1. r \in TurnsOf(t, y)
        BY <3>1, <1>12 DEF TurnsOf
      <4>2. y <= x
        BY <3>1, ServingAssumption DEF Sessions
      <4> QED BY <4>1, <4>2
    <3>2. CASE y # x
      <4>1. TurnsOf(t, y) = TurnsOf(s, y)
        BY <3>2, <1>12 DEF TurnsOf
      <4>2. y <= x <=> y <= k
        BY <3>2, <1>2, <1>3, ServingAssumption DEF Sessions
      <4> QED BY <4>1, <4>2, <1>2
    <3> QED BY <3>1, <3>2
  <2>2. x \in 0 .. MaxSessions
    BY ServingAssumption DEF Sessions
  <2> QED BY <2>1, <2>2
<1>14. TurnsHeld(c, t, {})
  <2>1. AddsTurn(s, x, h, d, m, t)
    BY <1>8, <1>9, <1>10, <1>11, <1>13 DEF AddsTurn
  <2> QED BY <2>1, <1>1, <1>4, TurnSubmitted
<1>15. \A y \in Sessions : TurnsOf(s, y) # {} => t.sess[y].here = s.sess[y].here
  BY <1>4, <1>5
<1> QED
  BY <1>14, <1>15, SubmitSettled

(* A later turn, as the last one planned it.                               *)
LEMMA LaterTurn ==
  ASSUME NEW c, NEW s, Shape(s), s.state \in [Requests -> Statuses],
         s.prompt \in [Requests -> Nat], Settled(c, s, {}), NEW r, NEW len, NEW x \in Sessions,
         s.nextTurns[x] > 0, NEW t, Submitting(s, r, len, x, t),
         t.nextTurns = [s.nextTurns EXCEPT ![x] = @ - 1], t.sess = s.sess
  PROVE  Settled(c, t, {})
<1>1. RequestsTold(s) /\ TurnsHeld(c, s, {})
  BY DEF Settled
<1>2. PICK k \in 0 .. MaxSessions : \A y \in Sessions : TurnsOf(s, y) # {} <=> y <= k
  BY <1>1 DEF TurnsHeld
<1>3. /\ s.sess \in [Sessions -> [here : BOOLEAN, done : 0 .. Turns]]
      /\ s.nextTurns \in [Sessions -> {0, 1}]
      /\ OneTurn(c, s.sess[x].here, s.sess[x].done, s.nextTurns[x],
                 TurnsOf(s, x), Open(s, x, {}))
  BY <1>1 DEF TurnsHeld
<1>4. s.nextTurns[x] = 1
  BY <1>3
<1>5. s.sess[x].here /\ Open(s, x, {}) = {} /\ s.sess[x].done < Turns /\ TurnsOf(s, x) # {}
  BY <1>3, <1>4 DEF OneTurn
<1>6. PICK h, d, m : h = TRUE /\ d = s.sess[x].done /\ m = 0
  OBVIOUS
<1>7. t.sess = [s.sess EXCEPT ![x] = [here |-> h, done |-> d]]
  <2>1. PICK v : v = s.sess[x]
    OBVIOUS
  <2>2. v \in [here : BOOLEAN, done : 0 .. Turns] /\ v.here
    BY <2>1, <1>3, <1>5
  <2>3. v = [here |-> h, done |-> d]
    BY <2>1, <2>2, <1>6
  <2> QED BY <2>1, <2>3, <1>3
<1>8. t.nextTurns = [s.nextTurns EXCEPT ![x] = m]
  BY <1>3, <1>4, <1>6
<1>9. s.session \in [Requests -> Sessions \cup {NoSession}] /\ r \in Requests
      /\ t.session = [s.session EXCEPT ![r] = x] /\ s.session[r] = NoSession
      /\ NoSession \notin Sessions
  BY <1>1, ServingAssumption DEF RequestsTold, Submitting, Sessions
<1>10. \E j \in 0 .. MaxSessions : \A y \in Sessions : TurnsOf(t, y) # {} <=> y <= j
  <2>1. ASSUME NEW y \in Sessions PROVE TurnsOf(t, y) # {} <=> y <= k
    <3>1. CASE y = x
      <4>1. r \in TurnsOf(t, y)
        BY <3>1, <1>9 DEF TurnsOf
      <4> QED BY <4>1, <3>1, <1>2, <1>5
    <3>2. CASE y # x
      <4>1. TurnsOf(t, y) = TurnsOf(s, y)
        BY <3>2, <1>9 DEF TurnsOf
      <4> QED BY <4>1, <1>2
    <3> QED BY <3>1, <3>2
  <2> QED BY <2>1
<1>11. TurnsHeld(c, t, {})
  <2>1. AddsTurn(s, x, h, d, m, t)
    BY <1>5, <1>6, <1>7, <1>8, <1>10 DEF AddsTurn
  <2> QED BY <2>1, <1>1, <1>5, TurnSubmitted
<1> QED
  BY <1>11, SubmitSettled

-----------------------------------------------------------------------------
(* The next identifier has not been used.                                  *)
LEMMA NextIsNew ==
  ASSUME JInv, NextId <= MaxRequests, NEW n, n = NextId, NEW s, s = Now
  PROVE  n \in Requests /\ s.state[n] = "NEW"
<1>1. n \in Requests /\ n \notin Submitted
  BY NextIdFresh DEF JInv
<1> QED
  BY <1>1 DEF Submitted, Now

(* ARRIVAL keeps what is settled.                                          *)
LEMMA ArriveSettles ==
  ASSUME EnoughKV, JInv, Arrive
  PROVE  Settled(Here', Now', {}) /\ Forward
<1>1. PICK len \in PromptLens, waited \in BOOLEAN :
        IF agentMode
        THEN \E x \in Sessions :
               /\ x = Cardinality(StartedSessions) + 1
               /\ Becomes(MaybeSchedule(
                    Submit([Now EXCEPT !.sess[x].here = TRUE], NextId, len, x), waited))
        ELSE Becomes(MaybeSchedule(Submit(Now, NextId, len, NoSession), waited))
  BY DEF Arrive
<1>2. NextId <= MaxRequests /\ phase' = phase /\ len \in PromptLens \cup {DeltaPrompt}
  BY DEF Arrive
<1>3. PICK n, c, s : n = NextId /\ c = Here /\ s = Now
  OBVIOUS
<1>4. /\ Settled(c, s, {}) /\ Shape(s) /\ s.state \in [Requests -> Statuses]
      /\ s.prompt \in [Requests -> Nat]
  BY <1>3, NowSettled
<1>5. n \in Requests /\ s.state[n] = "NEW"
  BY <1>2, <1>3, NextIsNew
<1>6. ASSUME agentMode PROVE Settled(Here', Now', {}) /\ Forward
  <2>1. PICK x \in Sessions :
          /\ x = Cardinality(StartedSessions) + 1
          /\ Becomes(MaybeSchedule(
               Submit([Now EXCEPT !.sess[x].here = TRUE], NextId, len, x), waited))
    BY <1>1, <1>6
  <2>2. PICK b : b = [s EXCEPT !.sess[x].here = TRUE]
    OBVIOUS
  <2>3. PICK t : t = Submit(b, n, len, x)
    OBVIOUS
  <2>4. /\ Elsewhere(s, b) /\ b.nextTurns = s.nextTurns
        /\ b.sess = [s.sess EXCEPT ![x].here = TRUE]
    BY <2>2, <1>4 DEF Shape, Elsewhere, TurnOver
  <2>5. Submitting(s, n, len, x, t) /\ t.sess = b.sess /\ t.nextTurns = b.nextTurns
    BY <2>4, <2>3, <1>2, <1>5, Submits
  <2>6. x = Cardinality({y \in Sessions : TurnsOf(s, y) # {}}) + 1
    BY <2>1, <1>3 DEF StartedSessions
  <2>7. t.nextTurns = s.nextTurns /\ t.sess = [s.sess EXCEPT ![x].here = TRUE]
    BY <2>4, <2>5
  <2>8. Settled(c, t, {})
    BY <2>5, <2>6, <2>7, <1>4, FirstTurn
  <2>9. Becomes(MaybeSchedule(t, waited))
    BY <2>1, <2>2, <2>3, <1>3
  <2> QED BY <2>3, <2>4, <2>5, <2>8, <2>9, <1>2, <1>3, SubmitStepSettles
<1>7. ASSUME ~agentMode PROVE Settled(Here', Now', {}) /\ Forward
  <2>1. PICK t : t = Submit(s, n, len, NoSession)
    OBVIOUS
  <2>2. Elsewhere(s, s)
    BY <1>4 DEF Elsewhere, TurnOver
  <2>3. Submitting(s, n, len, NoSession, t) /\ t.sess = s.sess /\ t.nextTurns = s.nextTurns
    BY <2>1, <2>2, <1>2, <1>5, Submits
  <2>4. Settled(c, t, {})
    BY <2>3, <1>4, RegularSubmitted
  <2>5. Becomes(MaybeSchedule(t, waited))
    BY <2>1, <1>1, <1>3, <1>7
  <2> QED BY <2>1, <2>2, <2>3, <2>4, <2>5, <1>2, <1>3, SubmitStepSettles
<1> QED
  BY <1>6, <1>7

(* AGENT_NEXT_TURN keeps what is settled.                                  *)
LEMMA AgentNextTurnSettles ==
  ASSUME EnoughKV, JInv, AgentNextTurn
  PROVE  Settled(Here', Now', {}) /\ Forward
<1>1. PICK x \in Sessions, waited \in BOOLEAN :
        /\ nextTurns[x] > 0 /\ NextId <= MaxRequests
        /\ LET s == [Now EXCEPT !.nextTurns[x] = @ - 1]
               t == IF sess[x].done < Turns THEN Submit(s, NextId, DeltaPrompt, x) ELSE s
           IN  Becomes(MaybeSchedule(t, waited))
  BY DEF AgentNextTurn
<1>2. PICK n, c, s, b, len :
        /\ n = NextId /\ c = Here /\ s = Now /\ len = DeltaPrompt
        /\ b = [s EXCEPT !.nextTurns[x] = @ - 1]
  OBVIOUS
<1>3. PICK t : t = Submit(b, n, len, x)
  OBVIOUS
<1>4. /\ Settled(c, s, {}) /\ Shape(s) /\ s.state \in [Requests -> Statuses]
      /\ s.prompt \in [Requests -> Nat] /\ s.nextTurns = nextTurns /\ s.sess = sess
  BY <1>2, NowSettled DEF Now
<1>5. n \in Requests /\ s.state[n] = "NEW" /\ len \in PromptLens \cup {DeltaPrompt}
  BY <1>1, <1>2, NextIsNew
<1>6. /\ Elsewhere(s, b) /\ b.nextTurns = [s.nextTurns EXCEPT ![x] = @ - 1] /\ b.sess = s.sess
  BY <1>2, <1>4 DEF Shape, Elsewhere, TurnOver
<1>7. Submitting(s, n, len, x, t) /\ t.sess = b.sess /\ t.nextTurns = b.nextTurns
  BY <1>3, <1>5, <1>6, Submits
<1>8. Settled(c, t, {})
  <2>1. t.nextTurns = [s.nextTurns EXCEPT ![x] = @ - 1] /\ t.sess = s.sess /\ s.nextTurns[x] > 0
    BY <1>1, <1>4, <1>6, <1>7
  <2> QED BY <2>1, <1>4, <1>7, LaterTurn
<1>9. sess[x].done < Turns
  <2>1. /\ s.nextTurns \in [Sessions -> {0, 1}]
        /\ OneTurn(c, s.sess[x].here, s.sess[x].done, s.nextTurns[x],
                   TurnsOf(s, x), Open(s, x, {}))
    BY <1>4 DEF Settled, TurnsHeld
  <2>2. s.nextTurns[x] = 1
    BY <2>1, <1>1, <1>4
  <2> QED BY <2>1, <2>2, <1>4 DEF OneTurn
<1>10. Becomes(MaybeSchedule(t, waited)) /\ phase' = phase
  BY <1>1, <1>2, <1>3, <1>9 DEF AgentNextTurn
<1> QED
  BY <1>1, <1>2, <1>3, <1>5, <1>6, <1>7, <1>8, <1>10, SubmitStepSettles

-----------------------------------------------------------------------------
(* Every step keeps the joint invariant and moves requests forward only.   *)
LEMMA NextSettles ==
  ASSUME EnoughKV, JInv, [Next]_vars
  PROVE  JInv' /\ Forward
<1>1. IInv'
  BY NextKeeps DEF JInv
<1>2. Settled(Here', Now', {}) /\ Forward
  BY RestSettles, ArriveSettles, DecodeReadySettles, BatchCompleteSettles, AgentNextTurnSettles,
     AgentNextTurnDrainSettles, OpenAdmissionSettles, EndRunSettles, DrainTurnSettles DEF Next
<1> QED
  BY <1>1, <1>2 DEF JInv

(* The joint invariant holds when the simulation is built.                 *)
LEMMA InitSettles ==
  ASSUME Init
  PROVE  JInv
<1>1. PICK c, s : c = Here /\ s = Now
  OBVIOUS
<1>2. /\ Shape(s) /\ s.state = [r \in Requests |-> "NEW"] /\ s.prompt = [r \in Requests |-> 0]
      /\ s.session = [r \in Requests |-> NoSession] /\ s.tokens = [r \in Requests |-> 0]
      /\ s.waiting = <<>> /\ s.prefilling = <<>> /\ s.active = <<>> /\ s.finishedCnt = 0
      /\ s.pool = Pool!FullPool /\ s.busy = {} /\ s.events = {} /\ s.inFlight = 0
      /\ s.admitOpen = TRUE /\ s.nextTurns = [x \in Sessions |-> 0]
      /\ s.sess = [x \in Sessions |-> [here |-> FALSE, done |-> 0]]
  BY <1>1 DEF Init, Now, Shape
<1>3. \A y : y # "NEW" => In(s, y) = {}
  BY <1>2 DEF In
<1>4. QueuesListed(s)
  BY <1>2, <1>3, ListsNone DEF QueuesListed
<1>5. RequestsTold(s)
  BY <1>2, ServingAssumption DEF RequestsTold
<1>6. BatchesApart(s)
  BY <1>2, FS_EmptySet DEF BatchesApart
<1>7. BlocksDue(c, s, {})
  <2>1. PoolFull(s.pool)
    BY <1>2, SumZero, ServingAssumption DEF PoolFull, Pool!FullPool
  <2>2. \A r \in Requests : s.state[r] = "NEW" /\ s.pool.held[r] = 0
    BY <1>2 DEF Pool!FullPool
  <2> QED BY <2>1, <2>2 DEF BlocksDue
<1>8. TurnsHeld(c, s, {})
  <2>1. \A x \in Sessions : TurnsOf(s, x) = {} /\ Open(s, x, {}) = {}
    BY <1>2, ServingAssumption DEF TurnsOf, Open, Sessions
  <2>2. 0 = Cardinality({} \ {})
    BY FS_EmptySet
  <2>3. ASSUME NEW x \in Sessions
        PROVE  OneTurn(c, s.sess[x].here, s.sess[x].done, s.nextTurns[x],
                       TurnsOf(s, x), Open(s, x, {}))
    <3>1. ~s.sess[x].here /\ s.sess[x].done = 0 /\ s.nextTurns[x] = 0
      BY <1>2
    <3> QED BY <3>1, <2>1, <2>2 DEF OneTurn
  <2>4. \E k \in 0 .. MaxSessions : \A x \in Sessions : TurnsOf(s, x) # {} <=> x <= k
    <3>1. \A x \in Sessions : ~(x <= 0)
      BY DEF Sessions
    <3>2. 0 \in 0 .. MaxSessions
      BY ServingAssumption
    <3> QED BY <3>1, <3>2, <2>1
  <2>5. s.sess \in [Sessions -> [here : BOOLEAN, done : 0 .. Turns]]
        /\ s.nextTurns \in [Sessions -> {0, 1}]
    BY <1>2, ServingAssumption
  <2> QED BY <2>3, <2>4, <2>5 DEF TurnsHeld
<1>9. TalliesRight(c, s)
  <2>1. Prefills(s) = {} /\ In(s, "FINISHED") = {}
    BY <1>2, <1>3 DEF Prefills
  <2> QED BY <2>1, <1>2, FS_EmptySet DEF TalliesRight
<1>10. Settled(c, s, {})
  BY <1>4, <1>5, <1>6, <1>7, <1>8, <1>9 DEF Settled
<1> QED
  BY <1>1, <1>10, InitKeeps DEF JInv

(* With blocks for every request the joint invariant always holds.         *)
LEMMA JointInvariance == ASSUME EnoughKV PROVE Spec => []JInv
<1>1. Init => JInv
  BY InitSettles
<1>2. JInv /\ [Next]_vars => JInv'
  BY NextSettles
<1> QED
  BY <1>1, <1>2, PTL DEF Spec

-----------------------------------------------------------------------------
(* A list that names each element once is as long as its set is large.     *)
LEMMA ListSize ==
  ASSUME NEW S, NEW q \in Seq(S), Once(q)
  PROVE  IsFiniteSet(ToSet(q)) /\ Cardinality(ToSet(q)) = Len(q)
<1>1. PICK n : n = Len(q)
  OBVIOUS
<1>2. n \in Nat /\ DOMAIN q = 1 .. n
  BY <1>1
<1>3. PICK f : f = [i \in 1 .. n |-> q[i]]
  OBVIOUS
<1>4. f \in Bijection(1 .. n, ToSet(q))
  <2>1. f \in [1 .. n -> ToSet(q)]
    BY <1>2, <1>3 DEF ToSet
  <2>2. \A i, j \in 1 .. n : f[i] = f[j] => i = j
    BY <1>1, <1>3 DEF Once
  <2>3. \A x \in ToSet(q) : \E i \in 1 .. n : f[i] = x
    BY <1>2, <1>3 DEF ToSet
  <2> QED BY <2>1, <2>2, <2>3 DEF Bijection, Injection, Surjection, IsInjective
<1>5. IsFiniteSet(1 .. n) /\ Cardinality(1 .. n) = n
  BY <1>2, UpTo, FS_Interval
<1>6. ExistsBijection(1 .. n, ToSet(q))
  BY <1>4 DEF ExistsBijection
<1> QED
  BY <1>1, <1>5, <1>6, FS_Bijection

(* A list repeats nothing.                                                 *)
LEMMA ListedOnce ==
  ASSUME NEW q, NEW S, Lists(q, S)
  PROVE  NoRepeats(q) /\ ToSet(q) = S
BY ListSize, ListsSet DEF Lists, NoRepeats

(* The requests are MaxRequests in number.                                 *)
LEMMA RequestsCounted == IsFiniteSet(Requests) /\ Cardinality(Requests) = MaxRequests
<1>1. MaxRequests \in Nat
  BY ServingAssumption
<1> QED
  BY <1>1, UpTo, FS_Interval DEF Requests

(* The prefills in flight have each a first request, and a lost request is *)
(* in none of them.                                                        *)
LEMMA PrefillsBounded ==
  ASSUME NEW s, BatchesApart(s), NEW T \in SUBSET Requests,
         \A e \in Prefills(s) : ToSet(e.reqs) \subseteq T
  PROVE  Cardinality(Prefills(s)) <= Cardinality(T)
<1>1. PICK E : E = Prefills(s)
  OBVIOUS
<1>2. \A e \in E : /\ e \in s.events /\ EventSound(s, e) /\ e.on = "COMPLETE"
                   /\ e.reqs \in Seq(Requests) /\ e.reqs # <<>>
                   /\ e = Event(e.on, e.id, e.kind, e.reqs)
  BY <1>1 DEF BatchesApart, EventSound, Prefills
<1>3. \A e \in E : e.reqs[1] \in ToSet(e.reqs)
  <2> SUFFICES ASSUME NEW e \in E PROVE e.reqs[1] \in ToSet(e.reqs)
    OBVIOUS
  <2>1. PICK q : q = e.reqs
    OBVIOUS
  <2>2. q \in Seq(Requests) /\ q # <<>>
    BY <2>1, <1>2
  <2>3. 1 \in DOMAIN q
    BY <2>2
  <2> QED BY <2>1, <2>3 DEF ToSet
<1>4. PICK f : f = [e \in E |-> e.reqs[1]]
  OBVIOUS
<1>5. f \in [E -> T]
  BY <1>1, <1>3, <1>4
<1>6. ASSUME NEW e \in E, NEW g \in E, f[e] = f[g] PROVE e = g
  <2>1. e.reqs[1] = g.reqs[1]
    BY <1>4, <1>6
  <2>2. Shares(e, g)
    BY <2>1, <1>3 DEF Shares
  <2>3. SameBatch(e, g)
    BY <2>2, <1>2 DEF BatchesApart
  <2> QED BY <2>3, <1>2 DEF SameBatch
<1>7. f \in Injection(E, T)
  BY <1>5, <1>6 DEF Injection, IsInjective
<1>8. IsFiniteSet(T)
  BY RequestsCounted, FS_Subset
<1> QED
  BY <1>1, <1>7, <1>8, FS_Injection

(* No more prefills are under way than there are requests.                 *)
LEMMA TallyBounded ==
  ASSUME NEW c, NEW s, BatchesApart(s), TalliesRight(c, s)
  PROVE  s.inFlight \in 0 .. MaxRequests
<1>1. IsFiniteSet(Prefills(s)) /\ Cardinality(Prefills(s)) \in Nat
  BY PrefillsFinite DEF BatchesApart
<1>2. \A e \in Prefills(s) : ToSet(e.reqs) \subseteq Requests
  BY DEF BatchesApart, EventSound, Prefills, In
<1>3. CASE s.inFlight = Cardinality(Prefills(s))
  <2>1. Cardinality(Prefills(s)) <= Cardinality(Requests)
    BY <1>2, PrefillsBounded
  <2> QED BY <2>1, <1>1, <1>3, RequestsCounted, ServingAssumption
<1>4. CASE s.inFlight # Cardinality(Prefills(s))
  <2>1. PICK r \in Requests : Lost(s, r)
    BY <1>4 DEF TalliesRight
  <2>2. s.inFlight = Cardinality(Prefills(s)) + 1
    BY <1>4 DEF TalliesRight
  <2>3. PICK T : T = Requests \ {r}
    OBVIOUS
  <2>4. \A e \in Prefills(s) : ToSet(e.reqs) \subseteq T
    BY <2>1, <2>3, <1>2 DEF Lost
  <2>5. Cardinality(Prefills(s)) <= Cardinality(T)
    BY <2>3, <2>4, PrefillsBounded
  <2>6. Cardinality(T) = MaxRequests - 1
    BY <2>3, RequestsCounted, FS_RemoveElement
  <2> QED BY <2>2, <2>5, <2>6, <1>1, ServingAssumption
<1> QED
  BY <1>3, <1>4

-----------------------------------------------------------------------------
(* The properties.                                                         *)

(* The joint invariant, said of the variables.                             *)
LEMMA Fields ==
  ASSUME JInv, NEW c, c = Here, NEW s, s = Now
  PROVE  /\ QueuesListed(s) /\ RequestsTold(s) /\ BatchesApart(s)
         /\ BlocksDue(c, s, {}) /\ TurnsHeld(c, s, {}) /\ TalliesRight(c, s)
         /\ s.state \in [Requests -> Statuses] /\ c.phase = phase
         /\ s.state = state /\ s.prompt = prompt /\ s.session = session /\ s.tokens = tokens
         /\ s.waiting = waiting /\ s.prefilling = prefilling /\ s.active = active
         /\ s.finishedCnt = finishedCnt /\ s.pool = pool /\ s.busy = busy /\ s.events = events
         /\ s.nextTurns = nextTurns /\ s.inFlight = inFlight /\ s.admitOpen = admitOpen
         /\ s.sess = sess
<1>1. Settled(c, s, {}) /\ s.state \in [Requests -> Statuses] /\ c.phase = phase
  BY NowSettled
<1> QED
  BY <1>1 DEF Settled, Now

(* A request is in one queue, once, and it is the one its state names.     *)
THEOREM QueuesAlwaysAgree == ASSUME EnoughKV PROVE Spec => []QueuesAgree
<1>1. ASSUME JInv PROVE QueuesAgree
  <2>1. PICK c, s : c = Here /\ s = Now
    OBVIOUS
  <2>2. /\ QueuesListed(s) /\ s.state = state /\ s.waiting = waiting
        /\ s.prefilling = prefilling /\ s.active = active
    BY <1>1, <2>1, Fields
  <2>3. /\ Lists(waiting, {r \in Requests : state[r] = "WAITING"})
        /\ Lists(prefilling, {r \in Requests : state[r] = "PREFILL"})
        /\ Lists(active, {r \in Requests : state[r] = "DECODE"})
    BY <2>2 DEF QueuesListed, In
  <2> QED BY <2>3, ListedOnce DEF QueuesAgree
<1> QED
  BY <1>1, JointInvariance, PTL

(* Two pending events that name a request are the two of one prefill, and  *)
(* none names a request twice.                                             *)
THEOREM OneBatchAtATime == ASSUME EnoughKV PROVE Spec => []OneBatchEach
<1>1. ASSUME JInv PROVE OneBatchEach
  <2>1. PICK c, s : c = Here /\ s = Now
    OBVIOUS
  <2>2. BatchesApart(s) /\ s.events = events
    BY <1>1, <2>1, Fields
  <2>3. ASSUME NEW e \in events, NEW f \in events
        PROVE  ToSet(e.reqs) \cap ToSet(f.reqs) # {} => e.id = f.id
    BY <2>2 DEF BatchesApart, Shares, SameBatch
  <2>4. ASSUME NEW e \in events PROVE NoRepeats(e.reqs)
    <3>1. PICK q : q = e.reqs
      OBVIOUS
    <3>2. q \in Seq(Requests) /\ Once(q)
      BY <3>1, <2>2 DEF BatchesApart, EventSound
    <3> QED BY <3>1, <3>2, ListSize DEF NoRepeats
  <2> QED BY <2>3, <2>4 DEF OneBatchEach
<1> QED
  BY <1>1, JointInvariance, PTL

(* In the run _busy_ids and _prefill_in_flight_count are what the pending  *)
(* events say.                                                             *)
THEOREM InFlightAlwaysAgrees == ASSUME EnoughKV PROVE Spec => []InFlightAgrees
<1>1. ASSUME JInv PROVE InFlightAgrees
  <2> SUFFICES ASSUME phase = "run"
               PROVE  /\ busy = InBatches("COMPLETE", "PREFILL")
                                  \cup InBatches("COMPLETE", "DECODE")
                      /\ inFlight = Cardinality({e \in events :
                                                   e.on = "COMPLETE" /\ e.kind = "PREFILL"})
    BY DEF InFlightAgrees
  <2>1. PICK c, s : c = Here /\ s = Now
    OBVIOUS
  <2>2. /\ BatchesApart(s) /\ TalliesRight(c, s) /\ c.phase = "run"
        /\ s.events = events /\ s.busy = busy /\ s.inFlight = inFlight
    BY <1>1, <2>1, Fields
  <2>3. ASSUME NEW r \in busy
        PROVE  r \in InBatches("COMPLETE", "PREFILL") \cup InBatches("COMPLETE", "DECODE")
    BY <1>1, BusyServed DEF BusyIsServed, JInv
  <2>4. ASSUME NEW kind, NEW r \in InBatches("COMPLETE", kind) PROVE r \in busy
    <3>1. PICK e \in events : e.on = "COMPLETE" /\ r \in ToSet(e.reqs)
      BY DEF InBatches
    <3> QED BY <3>1, <2>2 DEF BatchesApart, EventSound
  <2>5. inFlight = Cardinality({e \in events : e.on = "COMPLETE" /\ e.kind = "PREFILL"})
    BY <2>2 DEF TalliesRight, Prefills
  <2> QED BY <2>3, <2>4, <2>5
<1> QED
  BY <1>1, JointInvariance, PTL

(* A request that decodes holds the blocks of its prompt and one for each  *)
(* started block of generated tokens, the one being generated too.         *)
THEOREM KVAlwaysCovers == ASSUME EnoughKV PROVE Spec => []KVCoversTokens
<1>1. ASSUME JInv PROVE KVCoversTokens
  <2> SUFFICES ASSUME NEW r \in ToSet(active), NEW n,
                      n = tokens[r] + (IF r \in busy THEN 1 ELSE 0)
               PROVE  pool.held[r] = BlocksPerChip(prompt[r])
                                       + (n + KvBlockTokens - 1) \div KvBlockTokens
    BY DEF KVCoversTokens
  <2>1. PICK c, s : c = Here /\ s = Now
    OBVIOUS
  <2>2. /\ QueuesListed(s) /\ RequestsTold(s) /\ BlocksDue(c, s, {})
        /\ s.active = active /\ s.tokens = tokens /\ s.busy = busy /\ s.pool = pool
        /\ s.prompt = prompt
    BY <1>1, <2>1, Fields
  <2>3. r \in Requests /\ s.state[r] = "DECODE"
    BY <2>2, ListsSet DEF QueuesListed, In
  <2>4. s.pool.held[r] = Owed(s, r)
    BY <2>2, <2>3 DEF BlocksDue
  <2>5. s.tokens[r] \in Nat
    BY <2>2, <2>3, ServingAssumption DEF RequestsTold
  <2>6. (IF r \in s.busy THEN s.tokens[r] + 1 ELSE s.tokens[r]) = n
    BY <2>2, <2>5
  <2> QED BY <2>2, <2>4, <2>6 DEF Owed, Rounded
<1> QED
  BY <1>1, JointInvariance, PTL

(* Every block is free or on the record of a request in prefill or decode  *)
(* or of a turn of a session that is there, which keeps all its turns'     *)
(* blocks until the run ends.                                              *)
THEOREM KVAlwaysAccounted == ASSUME EnoughKV PROVE Spec => []KVAccounted
<1>1. ASSUME JInv PROVE KVAccounted
  <2>1. PICK c, s : c = Here /\ s = Now
    OBVIOUS
  <2>2. /\ RequestsTold(s) /\ BlocksDue(c, s, {}) /\ s.state \in [Requests -> Statuses]
        /\ s.state = state /\ s.session = session /\ s.sess = sess /\ s.pool = pool
        /\ s.prompt = prompt /\ c.phase = phase
    BY <1>1, <2>1, Fields
  <2>3. pool.free + KVHeld = Capacity
    BY <2>2 DEF BlocksDue, PoolFull, KVHeld, Ids
  <2>4. ASSUME NEW r \in Requests, pool.held[r] > 0
        PROVE  \/ state[r] \in {"PREFILL", "DECODE"}
               \/ session[r] # NoSession /\ sess[session[r]].here
    <3>1. s.state[r] \in Statuses
      BY <2>2
    <3>2. CASE s.state[r] \in {"NEW", "WAITING", "REJECTED"}
      BY <3>2, <2>2, <2>4 DEF BlocksDue
    <3>3. CASE s.state[r] = "FINISHED"
      BY <3>3, <2>2, <2>4 DEF BlocksDue
    <3> QED BY <3>1, <3>2, <3>3, <2>2 DEF Statuses
  <2>5. ASSUME phase = "run", NEW r \in Requests, state[r] = "FINISHED", session[r] # NoSession
        PROVE  (pool.held[r] > 0) = sess[session[r]].here
    <3>1. IF ~s.sess[s.session[r]].here THEN s.pool.held[r] = 0 ELSE s.pool.held[r] = Full(s, r)
      BY <2>2, <2>5 DEF BlocksDue
    <3>2. Full(s, r) > 0
      <4>1. PICK len : len = s.prompt[r]
        OBVIOUS
      <4>2. len \in Nat
        BY <4>1, <2>2, <2>5, ServingAssumption DEF RequestsTold
      <4>3. BlocksPerChip(len) \in Nat /\ BlocksPerChip(len) > 0
        BY <4>2, BlocksSome
      <4>4. Rounded(OutputLen) \in Nat
        BY ServingAssumption, RoundedStep
      <4> QED BY <4>1, <4>3, <4>4 DEF Full
    <3>3. s.sess[s.session[r]].here \in BOOLEAN
      <4>1. s.sess \in [Sessions -> [here : BOOLEAN, done : 0 .. Turns]]
        BY <1>1, <2>1, Fields DEF TurnsHeld
      <4>2. s.session[r] \in Sessions
        BY <2>2, <2>5 DEF RequestsTold
      <4> QED BY <4>1, <4>2
    <3>4. PICK h, n : h = s.sess[s.session[r]].here /\ n = s.pool.held[r]
      OBVIOUS
    <3>5. (n > 0) = h
      <4>1. CASE h
        BY <4>1, <3>1, <3>2, <3>4
      <4>2. CASE ~h
        BY <4>2, <3>1, <3>3, <3>4
      <4> QED BY <4>1, <4>2
    <3> QED BY <3>4, <3>5, <2>2
  <2> QED BY <2>3, <2>4, <2>5 DEF KVAccounted
<1> QED
  BY <1>1, JointInvariance, PTL

(* A session has completed as many turns as requests of it are finished,   *)
(* and while it is there exactly one thing keeps it going.                 *)
THEOREM TurnsAlwaysAccounted == ASSUME EnoughKV PROVE Spec => []TurnsAccounted
<1>1. ASSUME JInv PROVE TurnsAccounted
  <2>1. PICK c, s : c = Here /\ s = Now
    OBVIOUS
  <2>2. TurnsHeld(c, s, {}) /\ s.state = state /\ s.sess = sess /\ s.nextTurns = nextTurns
        /\ c.phase = phase
    BY <1>1, <2>1, Fields
  <2> SUFFICES ASSUME NEW x \in Sessions, NEW turns, turns = TurnsOf(Now, x),
                      NEW open, open = {r \in turns : state[r] # "FINISHED"}
               PROVE  /\ sess[x].done = Cardinality(turns \ open)
                      /\ phase = "run" /\ sess[x].here => Cardinality(open) + nextTurns[x] = 1
                      /\ ~sess[x].here => open = {} /\ nextTurns[x] = 0
    BY DEF TurnsAccounted
  <2>3. turns = TurnsOf(s, x) /\ open = Open(s, x, {})
    BY <2>1, <2>2 DEF Open
  <2>4. OneTurn(c, sess[x].here, sess[x].done, nextTurns[x], turns, open)
        /\ nextTurns[x] \in {0, 1}
    BY <2>2, <2>3 DEF TurnsHeld
  <2>5. sess[x].done = Cardinality(turns \ open)
        /\ (~sess[x].here => open = {} /\ nextTurns[x] = 0)
    BY <2>4 DEF OneTurn
  <2>6. ASSUME phase = "run", sess[x].here PROVE Cardinality(open) + nextTurns[x] = 1
    <3>1. CASE open = {}
      <4>1. nextTurns[x] = 1
        BY <3>1, <2>2, <2>4, <2>6 DEF OneTurn
      <4>2. Cardinality(open) = 0
        BY <3>1, FS_EmptySet
      <4> QED BY <4>1, <4>2
    <3>2. CASE open # {}
      <4>1. nextTurns[x] = 0 /\ \A q, r \in open : q = r
        BY <3>2, <2>4, <2>6 DEF OneTurn
      <4>2. PICK r : open = {r}
        BY <3>2, <4>1
      <4>3. Cardinality(open) = 1
        BY <4>2, FS_Singleton
      <4> QED BY <4>1, <4>3
    <3> QED BY <3>1, <3>2
  <2> QED BY <2>5, <2>6
<1> QED
  BY <1>1, JointInvariance, PTL

-----------------------------------------------------------------------------
(* The mode, the phase and the turns of the drain loop.                    *)
Clock ==
  /\ agentMode \in BOOLEAN /\ phase \in {"run", "drain", "flush", "done"}
  /\ ticks \in 0 .. MaxDrain /\ (phase = "flush" => ticks < MaxDrain)

(* The phase and the counters of the loop stay in their range.             *)
LEMMA ClockKept == Spec => []Clock
<1>1. Init => Clock
  BY ServingAssumption DEF Init, Clock
<1>2. Clock /\ [Next]_vars => Clock'
  <2> SUFFICES ASSUME Clock, [Next]_vars PROVE Clock'
    OBVIOUS
  <2>1. CASE DrainTurnEnds
    BY <2>1, ServingAssumption DEF DrainTurnEnds, Clock
  <2>2. CASE EndRun \/ DrainTurn \/ DrainEnds
    BY <2>2 DEF EndRun, DrainTurn, DrainEnds, Clock
  <2>3. CASE UNCHANGED <<agentMode, phase, ticks>>
    BY <2>3 DEF Clock
  <2> QED
    BY <2>1, <2>2, <2>3 DEF Next, Arrive, DecodeReady, BatchComplete, AgentNextTurn,
       AgentNextTurnDrain, OpenAdmission, Done, vars
<1> QED
  BY <1>1, <1>2, PTL DEF Spec

(* A full account of the pool is of the pool's type.                       *)
LEMMA HeldWithin ==
  ASSUME NEW p, PoolFull(p)
  PROVE  p \in Pool!PoolType
<1>1. PICK f, n : f = p.held /\ n = p.free
  OBVIOUS
<1>2. /\ p = [free |-> n, held |-> f] /\ n \in Nat /\ f \in [Requests -> Nat]
      /\ n + SumOf(f, Ids) = Capacity
  BY <1>1 DEF PoolFull
<1>3. \A r \in Requests : SumOf(f, Ids) \in Nat /\ f[r] <= SumOf(f, Ids)
  BY <1>2, TermBelow
<1>4. SumOf(f, Ids) \in Nat
  <2>1. /\ MaxRequests \in Nat /\ DOMAIN Ids = 1 .. MaxRequests
        /\ \A i \in 1 .. MaxRequests : f[Ids[i]] \in Nat
    BY <1>2, ServingAssumption DEF Ids, Requests
  <2> QED BY <2>1, SumNat
<1>5. f \in [Requests -> 0 .. Capacity] /\ n \in 0 .. Capacity
  BY <1>2, <1>3, <1>4, ServingAssumption
<1> QED
  BY <1>2, <1>5 DEF Pool!PoolType

(* A list of requests is no longer than they are many.                     *)
LEMMA ListWithin ==
  ASSUME NEW q \in Seq(Requests), Once(q), q # <<>>
  PROVE  Len(q) \in 1 .. MaxRequests
<1>1. IsFiniteSet(ToSet(q)) /\ Cardinality(ToSet(q)) = Len(q)
  BY ListSize
<1>2. ToSet(q) \in SUBSET Requests
  BY DEF ToSet
<1>3. Cardinality(ToSet(q)) <= MaxRequests
  BY <1>2, RequestsCounted, FS_Subset
<1>4. Len(q) \in Nat /\ Len(q) # 0
  OBVIOUS
<1> QED
  BY <1>1, <1>3, <1>4, ServingAssumption

(* Every variable keeps the shape and the bounds the code gives it.        *)
THEOREM TypesKept == ASSUME EnoughKV PROVE Spec => []TypeOK
<1>1. ASSUME JInv, Clock PROVE TypeOK
  <2>1. PICK c, s : c = Here /\ s = Now
    OBVIOUS
  <2>2. /\ QueuesListed(s) /\ RequestsTold(s) /\ BatchesApart(s)
        /\ BlocksDue(c, s, {}) /\ TurnsHeld(c, s, {}) /\ TalliesRight(c, s)
        /\ s.state \in [Requests -> Statuses]
    BY <1>1, <2>1, Fields
  <2>3. /\ s.state = state /\ s.prompt = prompt /\ s.session = session /\ s.tokens = tokens
        /\ s.waiting = waiting /\ s.prefilling = prefilling /\ s.active = active
        /\ s.pool = pool /\ s.busy = busy /\ s.events = events
        /\ s.nextTurns = nextTurns /\ s.inFlight = inFlight /\ s.admitOpen = admitOpen
        /\ s.sess = sess
    BY <1>1, <2>1, Fields
  <2>4. prompt \in [Requests -> PromptLens \cup {0, DeltaPrompt}]
    <3>1. prompt \in [Requests -> Nat]
      BY <1>1, <2>1, <2>3, NowSettled
    <3>2. \A r \in Requests : prompt[r] \in PromptLens \cup {0, DeltaPrompt}
      BY <2>2, <2>3 DEF RequestsTold
    <3> QED BY <3>1, <3>2
  <2>5. \A q \in {waiting, prefilling, active} : ToSet(q) \subseteq Requests
    BY <2>2, <2>3, ListsSet DEF QueuesListed, In
  <2>6. Len(prefilling) <= MaxPrefilling
    BY <1>1, <2>1, <2>3, NowSettled DEF Good, QueuesSound
  <2>7. pool \in Pool!PoolType
    BY <2>2, <2>3, HeldWithin DEF BlocksDue
  <2>8. busy \subseteq Requests /\ admitOpen \in BOOLEAN
    BY <2>2, <2>3 DEF BatchesApart, TalliesRight, In
  <2>9. inFlight \in 0 .. MaxRequests
    BY <2>2, <2>3, TallyBounded
  <2>10. ASSUME NEW e \in events PROVE Len(e.reqs) \in 1 .. MaxRequests
    <3>1. PICK q : q = e.reqs
      OBVIOUS
    <3>2. q \in Seq(Requests) /\ Once(q) /\ q # <<>>
      BY <3>1, <2>2, <2>3 DEF BatchesApart, EventSound
    <3> QED BY <3>1, <3>2, ListWithin
  <2>11. nextTurns \in [Sessions -> 0 .. Turns]
    BY <2>2, <2>3, ServingAssumption DEF TurnsHeld
  <2>12. sess \in [Sessions -> [here : BOOLEAN, done : 0 .. Turns]]
    BY <2>2, <2>3 DEF TurnsHeld
  <2>13. /\ session \in [Requests -> Sessions \cup {NoSession}]
         /\ tokens \in [Requests -> 0 .. OutputLen]
         /\ state \in [Requests -> {"NEW", "WAITING", "PREFILL", "DECODE", "FINISHED", "REJECTED"}]
    BY <2>2, <2>3 DEF RequestsTold, Statuses
  <2> QED
    BY <1>1, <2>4, <2>5, <2>6, <2>7, <2>8, <2>9, <2>10, <2>11, <2>12, <2>13 DEF TypeOK, Clock
<1> QED
  BY <1>1, JointInvariance, ClockKept, PTL

(* A request only ever goes forward, tokens are never taken back, and      *)
(* total_finished counts each finished request once.                       *)
THEOREM AlwaysForward == ASSUME EnoughKV PROVE Spec => OnlyForward
<1>1. ASSUME JInv, [Next]_vars
      PROVE  /\ \A r \in Requests :
                  /\ Rank[state'[r]] >= Rank[state[r]]
                  /\ tokens'[r] \in {tokens[r], tokens[r] + 1}
                  /\ state[r] = "FINISHED" => state'[r] = "FINISHED"
             /\ finishedCnt' = Cardinality({r \in Requests : state'[r] = "FINISHED"})
  <2>1. JInv' /\ Forward
    BY <1>1, NextSettles
  <2>2. PICK d, t : d = Here' /\ t = Now'
    OBVIOUS
  <2>3. t.state = state' /\ t.finishedCnt = finishedCnt' /\ Settled(d, t, {})
    BY <2>1, <2>2 DEF JInv, Now
  <2>4. finishedCnt' = Cardinality({r \in Requests : state'[r] = "FINISHED"})
    BY <2>3 DEF Settled, TalliesRight, In
  <2> QED BY <2>1, <2>4 DEF Forward
<1> QED
  BY <1>1, JointInvariance, PTL DEF Spec, OnlyForward

-----------------------------------------------------------------------------
(* The drain.                                                              *)

(* The turns of the drain loop are counted after the run only.  Within a   *)
(* turn a decode batch is under way as long as a request is halfway.       *)
DrainInv ==
  /\ phase = "run" => ticks = 0
  /\ phase = "flush" => NoneHalfway(Now)
  /\ phase \in {"drain", "done"} /\ ticks > 0 =>
       \A r \in In(Now, "DECODE") \ busy : tokens[r] = 0

(* DECODE_READY with nobody halfway leaves nobody halfway.                 *)
LEMMA ReadyServed ==
  ASSUME JInv, NoneHalfway(Now), DecodeReady
  PROVE  NoneHalfway(Now')
<1>1. PICK e \in events : /\ e.on = "READY" /\ Fireable(e)
                          /\ Becomes(OnPrefillComplete(Popped(e), e.reqs))
  BY DEF DecodeReady
<1>2. PICK c, s : c = Here /\ s = Now
  OBVIOUS
<1>3. /\ Good(c, s) /\ Settled(c, s, {}) /\ Shape(s) /\ s.state \in [Requests -> Statuses]
      /\ s.events = events /\ RequestsTold(s) /\ BatchesApart(s)
  BY <1>2, NowSettled DEF Now, Settled
<1>4. PICK p : PoppedOff(s, e, p) /\ p = Popped(e)
  BY <1>2 DEF Popped, PoppedOff
<1>5. PICK t : t = OnPrefillComplete(p, e.reqs)
  OBVIOUS
<1>6. Timely(s, e)
  BY <1>1, <1>3 DEF Timely, Fireable
<1>7. /\ t.tokens = s.tokens /\ Promoted(s, t)
      /\ t.events = s.events \ {e} /\ t.busy = s.busy \ ToSet(e.reqs)
  BY <1>1, <1>3, <1>4, <1>5, <1>6, ReadyDone
<1>8. NoneHalfway(t)
  <2>1. NoneHalfway(s)
    BY <1>2
  <2>2. CASE Decoding(s)
    <3>1. PICK f \in s.events : f.on = "COMPLETE" /\ f.kind = "DECODE"
      BY <2>2 DEF Decoding
    <3>2. f \in t.events
      BY <3>1, <1>1, <1>7
    <3> QED BY <3>1, <3>2 DEF Decoding, NoneHalfway
  <2>3. CASE \A r \in In(s, "DECODE") \ s.busy : s.tokens[r] = 0
    <3>1. ASSUME NEW r \in In(t, "DECODE") \ t.busy PROVE t.tokens[r] = 0
      <4>1. r \in Requests /\ t.state[r] = "DECODE"
        BY <3>1 DEF In
      <4>2. CASE s.state[r] = "PREFILL"
        BY <4>1, <4>2, <1>3, <1>7 DEF RequestsTold
      <4>3. CASE s.state[r] # "PREFILL"
        <5>1. s.state[r] = "DECODE"
          BY <4>1, <4>3, <1>7 DEF Promoted
        <5>2. r \notin ToSet(e.reqs)
          BY <5>1, <1>1, <1>3 DEF BatchesApart, EventSound, In
        <5> QED BY <5>1, <5>2, <4>1, <3>1, <2>3, <1>7 DEF In
      <4> QED BY <4>2, <4>3
    <3> QED BY <3>1 DEF NoneHalfway
  <2> QED BY <2>1, <2>2, <2>3 DEF NoneHalfway
<1>9. Now' = t
  <2>1. Good(Here, Popped(e)) /\ e.reqs \in Seq(Here.known)
    BY PoppedSound DEF JInv, BatchSound
  <2>2. Good(c, p) /\ e.reqs \in Seq(c.known)
    BY <2>1, <1>2, <1>4
  <2>3. Shape(t)
    BY <2>2, <1>5, OnPrefillCompleteSound DEF Good
  <2>4. Becomes(t)
    BY <1>1, <1>4, <1>5
  <2> QED BY <2>3, <2>4 DEF Becomes, Now, Shape
<1> QED
  BY <1>8, <1>9

(* Steps that change neither the events nor who decodes.                   *)
LEMMA QuietServed ==
  ASSUME NoneHalfway(Now), state' = state, tokens' = tokens, busy' = busy, events' = events
  PROVE  NoneHalfway(Now')
<1>1. PICK s, t : s = Now /\ t = Now'
  OBVIOUS
<1>2. /\ t.state = s.state /\ t.tokens = s.tokens /\ t.busy = s.busy /\ t.events = s.events
      /\ NoneHalfway(s)
  BY <1>1 DEF Now
<1>3. NoneHalfway(t)
  BY <1>2 DEF NoneHalfway, Decoding, In
<1> QED
  BY <1>1, <1>3

(* Releasing turns touches the KV of a session only.                       *)
LEMMA DrainTurnQuiet ==
  ASSUME AgentNextTurnDrain
  PROVE  state' = state /\ tokens' = tokens /\ busy' = busy /\ events' = events
<1>1. PICK x \in Sessions :
        LET s == [Now EXCEPT !.nextTurns[x] = @ - 1]
        IN  Becomes(IF sess[x].done < Turns THEN ReleaseTurns(s, x) ELSE s)
  BY DEF AgentNextTurnDrain
<1>2. PICK s, t : /\ s = [Now EXCEPT !.nextTurns[x] = @ - 1]
                  /\ t = IF sess[x].done < Turns THEN ReleaseTurns(s, x) ELSE s
  OBVIOUS
<1>3. Shape(s) /\ s.state = state /\ s.tokens = tokens /\ s.busy = busy /\ s.events = events
  BY <1>2 DEF Now, Shape
<1>4. t.state = s.state /\ t.tokens = s.tokens /\ t.busy = s.busy /\ t.events = s.events
  BY <1>2, <1>3 DEF ReleaseTurns, Shape
<1>5. Becomes(t)
  BY <1>1, <1>2
<1> QED
  BY <1>3, <1>4, <1>5 DEF Becomes

(* Every step keeps the invariant of the drain.                            *)
LEMMA DrainKept ==
  ASSUME EnoughKV, MinDecodeBatch = 1, JInv, Clock, DrainInv, [Next]_vars
  PROVE  DrainInv'
<1>1. CASE Arrive \/ AgentNextTurn
  BY <1>1 DEF Arrive, AgentNextTurn, DrainInv
<1>2. CASE EndRun
  BY <1>2 DEF EndRun, DrainInv
<1>3. CASE BatchComplete
  <2>1. NoneHalfway(Now') /\ phase' = phase /\ ticks' = ticks /\ phase \in {"run", "flush"}
    BY <1>3, BatchCompleteSettles DEF Served, BatchComplete, Pending
  <2> QED BY <2>1 DEF DrainInv
<1>4. CASE DrainTurn
  <2>1. NoneHalfway(Now') /\ phase' = "flush"
    BY <1>4, DrainTurnSettles DEF Served, DrainTurn
  <2> QED BY <2>1 DEF DrainInv
<1>5. CASE DecodeReady
  <2>1. phase' = phase /\ ticks' = ticks /\ phase \in {"run", "flush"}
    BY <1>5 DEF DecodeReady, Pending
  <2>2. CASE phase = "flush"
    BY <2>1, <2>2, <1>5, ReadyServed DEF DrainInv
  <2>3. CASE phase = "run"
    BY <2>1, <2>3 DEF DrainInv
  <2> QED BY <2>1, <2>2, <2>3
<1>6. CASE AgentNextTurnDrain
  <2>1. phase' = phase /\ ticks' = ticks /\ phase = "flush"
    BY <1>6 DEF AgentNextTurnDrain
  <2>2. NoneHalfway(Now')
    BY <2>1, <1>6, DrainTurnQuiet, QuietServed DEF DrainInv
  <2> QED BY <2>1, <2>2 DEF DrainInv
<1>7. CASE OpenAdmission
  <2>1. phase' = phase /\ ticks' = ticks /\ phase \in {"run", "flush"}
    BY <1>7 DEF OpenAdmission, Pending
  <2>2. state' = state /\ tokens' = tokens /\ busy' = busy /\ events' = events
    BY <1>7 DEF OpenAdmission, Becomes, Now
  <2>3. CASE phase = "flush"
    BY <2>1, <2>2, <2>3, QuietServed DEF DrainInv
  <2>4. CASE phase = "run"
    BY <2>1, <2>4 DEF DrainInv
  <2> QED BY <2>1, <2>3, <2>4
<1>8. CASE DrainTurnEnds
  <2>1. /\ phase = "flush" /\ phase' = "drain" /\ events = {} /\ state' = state
        /\ tokens' = tokens /\ busy' = busy
    BY <1>8 DEF DrainTurnEnds, Becomes, Now
  <2>2. PICK s, t : s = Now /\ t = Now'
    OBVIOUS
  <2>3. /\ s.events = {} /\ s.busy = busy /\ s.tokens = tokens /\ NoneHalfway(s)
        /\ s.state = t.state
    BY <2>1, <2>2 DEF Now, DrainInv
  <2>4. \A r \in In(t, "DECODE") \ busy' : tokens'[r] = 0
    BY <2>1, <2>3 DEF NoneHalfway, Decoding, In
  <2> QED BY <2>1, <2>2, <2>4 DEF DrainInv
<1>9. CASE DrainEnds \/ Done \/ UNCHANGED vars
  <2>1. /\ state' = state /\ tokens' = tokens /\ busy' = busy /\ events' = events
        /\ ticks' = ticks
    BY <1>9 DEF DrainEnds, Done, Becomes, Now, vars
  <2>2. phase' = phase \/ (phase = "drain" /\ phase' = "done")
    BY <1>9 DEF DrainEnds, Done, vars
  <2>3. In(Now', "DECODE") = In(Now, "DECODE")
    <3>1. PICK s, t : s = Now /\ t = Now'
      OBVIOUS
    <3>2. s.state = t.state
      BY <3>1, <2>1 DEF Now
    <3> QED BY <3>1, <3>2 DEF In
  <2>4. NoneHalfway(Now) => NoneHalfway(Now')
    BY <2>1, QuietServed
  <2> QED BY <2>1, <2>2, <2>3, <2>4 DEF DrainInv
<1> QED
  BY <1>1, <1>2, <1>3, <1>4, <1>5, <1>6, <1>7, <1>8, <1>9 DEF Next

(* With MIN_DECODE_BATCH 1, as config.py sets it, a turn of the drain loop *)
(* serves every decode to its end.                                         *)
THEOREM DrainServesAll ==
  ASSUME EnoughKV, MinDecodeBatch = 1
  PROVE  Spec => []DrainLeavesNoneHalfway
<1>1. Init => DrainInv
  BY DEF Init, DrainInv
<1>2. JInv /\ Clock /\ DrainInv /\ [Next]_vars => DrainInv'
  BY DrainKept
<1>3. ASSUME JInv, DrainInv PROVE DrainLeavesNoneHalfway
  <2>1. PICK c, s : c = Here /\ s = Now
    OBVIOUS
  <2>2. QueuesListed(s) /\ s.active = active
    BY <1>3, <2>1, Fields
  <2>3. ToSet(active) = In(s, "DECODE")
    BY <2>2, ListsSet DEF QueuesListed
  <2> QED BY <2>1, <2>3, <1>3 DEF DrainInv, DrainLeavesNoneHalfway
<1> QED
  BY <1>1, <1>2, <1>3, JointInvariance, ClockKept, PTL DEF Spec

=============================================================================
