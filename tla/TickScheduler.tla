----------------------------- MODULE TickScheduler -----------------------------
(***************************************************************************)
(* ContinuousBatchingScheduler with the interface schedule() (scripts/     *)
(* vllm_serve/scheduler.py), which the serving loop of Serving does not    *)
(* use: a tick admits requests and forms PREFILL, DECODE and MIXED         *)
(* batches; whoever runs them reports each one's completion.               *)
(*                                                                         *)
(* Ticks go on while batches are in flight, so a request that is decoding  *)
(* can be in several of them, which on_decode_step allows for.             *)
(***************************************************************************)
EXTENDS Naturals, Sequences, SequencesExt, FiniteSets, FiniteSetsExt

CONSTANTS
  Reqs,           (* request ids, in the order they are submitted            *)
  PromptOf,       (* prompt_len of each                                      *)
  OutLen,         (* max_output_len                                          *)
  TokenCap,       (* MAX_PREFILL_TOKENS                                      *)
  AdmitCap,       (* 2 * MAX_BATCH_SIZE                                      *)
  DecodeCap,      (* max_decode_batch                                        *)
  MaxInFlight     (* bound: batches in flight at a time                      *)

ASSUME TickAssumption ==
  /\ Reqs \subseteq Nat /\ IsFiniteSet(Reqs) /\ PromptOf \in [Reqs -> Nat \ {0}]
  /\ {OutLen, TokenCap, AdmitCap, DecodeCap} \subseteq Nat \ {0} /\ MaxInFlight \in Nat

VARIABLES
  tick,           (* the queues, the states and tokens of the requests, the  *)
                  (* statistics                                              *)
  inFlight,       (* batches formed and not yet completed                    *)
  putBack         (* history: how often each request was put back            *)

tickVars == <<tick, inFlight, putBack>>

TickInit ==
  /\ tick = [waiting |-> <<>>, active |-> <<>>, prefilling |-> <<>>,
             state |-> [r \in Reqs |-> "NEW"], tokens |-> [r \in Reqs |-> 0],
             accepted |-> 0, finished |-> 0]
  /\ inFlight = {} /\ putBack = [r \in Reqs |-> 0]

FirstOf(s, n) == SubSeq(s, 1, IF n < Len(s) THEN n ELSE Len(s))

-----------------------------------------------------------------------------
(* submit_request.                                                         *)
SubmitNext ==
  \E r \in Reqs :
    /\ tick.state[r] = "NEW" /\ \A s \in Reqs : s < r => tick.state[s] # "NEW"
    /\ tick' = [tick EXCEPT !.waiting = Append(@, r), !.state[r] = "WAITING"]
    /\ UNCHANGED <<inFlight, putBack>>

(* _admit_waiting, one request; room is the longest prompt that the free   *)
(* KV blocks can take.  The loop ends when prefilling is full.             *)
AdmitHead(t, room) ==
  LET r == Head(t.waiting)
      o == [t EXCEPT !.waiting = Tail(@)]
  IN IF PromptOf[r] <= room
     THEN [o EXCEPT !.prefilling = Append(@, r), !.state[r] = "PREFILL", !.accepted = @ + 1]
     ELSE [o EXCEPT !.state[r] = "REJECTED"]

(* The state after up to n turns of the loop.                              *)
AdmitWaiting(room) ==
  LET turn[n \in 0 .. Len(tick.waiting)] ==
        IF n = 0 THEN tick
        ELSE LET t == turn[n - 1]
             IN IF Len(t.prefilling) < AdmitCap THEN AdmitHead(t, room) ELSE t
  IN turn[Len(tick.waiting)]

(* Prompts are taken in order while they fit under the cap; one that does  *)
(* not is passed over and goes back to the head of the waiting queue.      *)
SelectPrefill(admitted) ==
  SelectSeq(admitted, LAMBDA r : r \in
    FoldLeft(LAMBDA s, q : IF MapThenSumSet(LAMBDA p : PromptOf[p], s) + PromptOf[q] <= TokenCap
                           THEN s \cup {q} ELSE s,
             {}, admitted))

(* They stay in prefilling.                                                *)
PutBackAll(t, rs) ==
  [t EXCEPT !.waiting = Reverse(rs) \o @,
            !.state = [r \in Reqs |-> IF r \in ToSet(rs) THEN "WAITING" ELSE @[r]]]

NewBatch(id, type, rs) == IF rs = <<>> THEN {} ELSE {[id |-> id, type |-> type, reqs |-> rs]}

(* schedule.                                                               *)
Schedule(room) ==
  LET t == AdmitWaiting(room)
      admitted == SubSeq(t.prefilling, Len(tick.prefilling) + 1, Len(t.prefilling))
      selected == SelectPrefill(admitted)
      left == SelectSeq(admitted, LAMBDA r : r \notin ToSet(selected))
      decode == FirstOf(tick.active, DecodeCap)
      mixed == admitted # <<>> /\ decode # <<>>
      slots == IF Len(selected) < DecodeCap THEN DecodeCap - Len(selected) ELSE 0
      id == CHOOSE n \in 0 .. MaxInFlight : \A b \in inFlight : b.id # n
      batches == IF mixed THEN NewBatch(id, "MIXED", selected \o FirstOf(decode, slots))
                 ELSE NewBatch(id, "PREFILL", selected) \cup NewBatch(id, "DECODE", decode)
  IN /\ Cardinality(inFlight) < MaxInFlight
     /\ t # tick \/ batches # {}
     /\ tick' = PutBackAll(t, left)
     /\ inFlight' = inFlight \cup batches
     /\ putBack' = [r \in Reqs |-> putBack[r] + IF r \in ToSet(left) THEN 1 ELSE 0]

-----------------------------------------------------------------------------
(* on_prefill_complete.                                                    *)
PrefillComplete(t, rs) ==
  FoldLeft(LAMBDA o, r :
             IF t.state[r] # "PREFILL" THEN o
             ELSE [o EXCEPT !.state[r] = "DECODE", !.active = Append(@, r),
                            !.prefilling = RemoveFirst(@, r)],
           t, rs)

(* on_decode_step: a request that another batch has finished is skipped.   *)
DecodeStep(t, rs) ==
  FoldLeft(LAMBDA o, r :
             IF o.state[r] = "FINISHED" THEN o
             ELSE LET p == [o EXCEPT !.tokens[r] = @ + 1]
                  IN IF p.tokens[r] < OutLen THEN p
                     ELSE [p EXCEPT !.state[r] = "FINISHED", !.finished = @ + 1,
                                    !.active = RemoveFirst(@, r)],
           t, rs)

(* A batch completes, in any order with the others: on_prefill_complete,   *)
(* on_decode_step or, both in turn, on_mixed_batch_complete.               *)
CompleteBatch(b) ==
  /\ b \in inFlight /\ inFlight' = inFlight \ {b} /\ UNCHANGED putBack
  /\ tick' = LET t == IF b.type = "DECODE" THEN tick ELSE PrefillComplete(tick, b.reqs)
             IN IF b.type = "PREFILL" THEN t ELSE DecodeStep(t, b.reqs)

TickNext ==
  \/ SubmitNext
  \/ \E room \in {0} \cup {PromptOf[r] : r \in Reqs} : Schedule(room)
  \/ \E b \in inFlight : CompleteBatch(b)

TickSpec == TickInit /\ [][TickNext]_tickVars

-----------------------------------------------------------------------------
Times(s, r) == Cardinality({i \in DOMAIN s : s[i] = r})

(* State and queues agree on every request although batches overlap: it    *)
(* waits once when WAITING, is active once when DECODE, is being prefilled *)
(* by exactly one batch when PREFILL; it gets no token too many and is     *)
(* counted finished once; and what prefilling and total_accepted hold too  *)
(* much is one entry for each time a request was put back.                 *)
TickQueuesAgree ==
  /\ \A r \in Reqs :
       /\ Times(tick.waiting, r) = IF tick.state[r] = "WAITING" THEN 1 ELSE 0
       /\ Times(tick.active, r) = IF tick.state[r] = "DECODE" THEN 1 ELSE 0
       /\ Times(tick.prefilling, r)
            = putBack[r] + IF tick.state[r] = "PREFILL" THEN 1 ELSE 0
       /\ tick.state[r] = "PREFILL" => Cardinality({b \in inFlight : r \in ToSet(b.reqs)}) = 1
       /\ tick.tokens[r] <= OutLen
       /\ tick.tokens[r] = OutLen <=> tick.state[r] = "FINISHED"
  /\ tick.finished = Cardinality({r \in Reqs : tick.state[r] = "FINISHED"})
  /\ tick.accepted = MapThenSumSet(LAMBDA r : putBack[r], Reqs)
                     + Cardinality({r \in Reqs : tick.state[r] \in {"PREFILL", "DECODE", "FINISHED"}})

=============================================================================
