--------------------------- MODULE IterationScheduler ---------------------------
(***************************************************************************)
(* The second serving stack's iteration-level scheduler (scripts/          *)
(* architecture/vllm_layer/scheduler.py) and the API server whose requests *)
(* it schedules (api_server.py).  One batch is out at a time: schedule,    *)
(* run, mark_step_complete.                                                *)
(*                                                                         *)
(* A request stays in api.requests for good; what waits are those of them  *)
(* in state WAITING, in the order of submission.                           *)
(***************************************************************************)
EXTENDS Naturals, Sequences, SequencesExt, FiniteSets, FiniteSetsExt

CONSTANTS
  IterReqs,       (* requests, numbered in the order they are submitted      *)
  IterPrompt,     (* len(prompt_tokens) of each                              *)
  IterOut,        (* max_tokens of each                                      *)
  SeqCap,         (* SW_MAX_NUM_SEQS                                         *)
  StepCap         (* SW_MAX_BATCH_TOKENS                                     *)

ASSUME IterAssumption ==
  /\ IterReqs = 1 .. Cardinality(IterReqs)
  /\ IterPrompt \in [IterReqs -> Nat \ {0}] /\ IterOut \in [IterReqs -> Nat \ {0}]
  /\ {SeqCap, StepCap} \subseteq Nat \ {0}

VARIABLES
  stack,          (* state and output of each request, running as a sequence *)
                  (* (a dict keeps the order of insertion), completed        *)
  iterBatch       (* the batch that is out, <<>> when there is none          *)

iterVars == <<stack, iterBatch>>

NoBatch == [type |-> "NONE", reqs |-> <<>>]

IterInit ==
  /\ stack = [state |-> [r \in IterReqs |-> "NEW"], output |-> [r \in IterReqs |-> 0],
             running |-> <<>>, completed |-> <<>>, polled |-> {}]
  /\ iterBatch = NoBatch

IterIn(state) == SelectSeq(SetToSortSeq(IterReqs, <), LAMBDA r : stack.state[r] = state)

TokensOf(rs) == FoldLeft(LAMBDA n, r : n + IterPrompt[r], 0, rs)

-----------------------------------------------------------------------------
IterSubmit ==
  \E r \in IterReqs :
    /\ stack.state[r] = "NEW" /\ \A s \in IterReqs : s < r => stack.state[s] # "NEW"
    /\ stack' = [stack EXCEPT !.state[r] = "WAITING"] /\ UNCHANGED iterBatch

IterPoll ==
  /\ stack.completed # <<>> /\ UNCHANGED iterBatch
  /\ stack' = [stack EXCEPT !.polled = @ \cup ToSet(stack.completed), !.completed = <<>>]

(* Mutant: a prompt that does not fit ends the loop.                       *)
AdmittedUntilMisfit ==
  LET queue == IterIn("WAITING")
      seen == Min({SeqCap - Len(stack.running), Len(queue)})
      misfits == {i \in 1 .. seen : IterPrompt[queue[i]] > StepCap}
  IN SubSeq(queue, 1, IF misfits = {} THEN seen ELSE Min(misfits) - 1)

(* Phase 1 looks at the first canAdd waiting requests and admits those     *)
(* whose prompt fits in a step; one that does not stays and keeps its      *)
(* place at the head.                                                      *)
Admitted ==
  LET queue == IterIn("WAITING")
      canAdd == SeqCap - Len(stack.running)
  IN SelectSeq(SubSeq(queue, 1, Min({canAdd, Len(queue)})), LAMBDA r : IterPrompt[r] <= StepCap)

(* Phase 2: all admitted prompts that fit in one step; otherwise as many   *)
(* from the head as would fit if all were as long as the longest.          *)
PrefillStep(prefill) ==
  LET longest == Max({IterPrompt[r] : r \in ToSet(prefill)})
  IN IF TokensOf(prefill) <= StepCap THEN prefill
     ELSE SubSeq(prefill, 1, Min({Len(prefill), Max({1, StepCap \div longest})}))

(* schedule: a prefill step while a running request needs one, a decode    *)
(* step of all running requests otherwise.                                 *)
IterSchedule ==
  LET new == Admitted
      running == stack.running \o new
      state == [r \in IterReqs |-> IF r \in ToSet(new) THEN "PREFILL" ELSE stack.state[r]]
      prefill == SelectSeq(running, LAMBDA r : state[r] = "PREFILL")
      decode == SelectSeq(running, LAMBDA r : state[r] = "DECODE")
  IN /\ iterBatch = NoBatch /\ running # <<>>
     /\ stack' = [stack EXCEPT !.state = state, !.running = running]
     /\ iterBatch' = IF prefill # <<>> THEN [type |-> "PREFILL", reqs |-> PrefillStep(prefill)]
                     ELSE [type |-> "DECODE", reqs |-> decode]

(* mark_step_complete, with one new token for each request of a decode     *)
(* step.                                                                   *)
MarkStepComplete ==
  LET rs == ToSet(iterBatch.reqs)
      output == [r \in IterReqs |->
                   stack.output[r] + IF iterBatch.type = "DECODE" /\ r \in rs THEN 1 ELSE 0]
      finished(r) == output[r] >= IterOut[r]
  IN /\ iterBatch # NoBatch /\ iterBatch' = NoBatch
     /\ stack' = [stack EXCEPT
          !.output = output,
          !.state = [r \in IterReqs |->
                       IF r \in ToSet(stack.running) /\ finished(r) THEN "FINISHED"
                       ELSE IF iterBatch.type = "PREFILL" /\ r \in rs THEN "DECODE" ELSE @[r]],
          !.completed = @ \o SelectSeq(stack.running, finished),
          !.running = SelectSeq(@, LAMBDA r : ~finished(r))]

IterNext == IterSubmit \/ IterPoll \/ IterSchedule \/ MarkStepComplete

(* The engine loop schedules, runs the batch and marks it complete.        *)
IterFairness == IterSchedule \/ MarkStepComplete

IterSpec == IterInit /\ [][IterNext]_iterVars /\ WF_iterVars(IterFairness)

-----------------------------------------------------------------------------
(* Every request is in one place: waiting, once among the at most SeqCap   *)
(* running ones, completed or polled; it has all its tokens exactly when   *)
(* it is finished; a batch holds running requests of its own kind only,    *)
(* no prefill step has more tokens than fit in one, and a decode step      *)
(* leaves no running request out.                                          *)
IterQueuesAgree ==
  /\ Len(stack.running) <= SeqCap /\ IsInjective(stack.running)
  /\ IsInjective(stack.completed) /\ ToSet(stack.completed) \cap stack.polled = {}
  /\ \A r \in IterReqs :
       /\ stack.state[r] \in {"PREFILL", "DECODE"} <=> r \in ToSet(stack.running)
       /\ stack.state[r] = "FINISHED" <=> r \in ToSet(stack.completed) \cup stack.polled
       /\ stack.output[r] <= IterOut[r]
       /\ stack.output[r] = IterOut[r] <=> stack.state[r] = "FINISHED"
  /\ \A r \in ToSet(iterBatch.reqs) : r \in ToSet(stack.running) /\ stack.state[r] = iterBatch.type
  /\ iterBatch.type = "PREFILL" => TokensOf(iterBatch.reqs) <= StepCap
  /\ iterBatch.type = "DECODE" => ToSet(iterBatch.reqs) = ToSet(stack.running)

(* Prefill steps go first and requests that never fit stay at the head of  *)
(* the queue; as long as those are fewer than SeqCap, every request that   *)
(* fits is finished all the same (each is submitted once, and none comes   *)
(* back).                                                                  *)
ShortOnesFinish ==
  LET long == {r \in IterReqs : IterPrompt[r] > StepCap}
  IN Cardinality(long) < SeqCap =>
       []<>(\A r \in IterReqs \ long : stack.state[r] \in {"NEW", "FINISHED"})

=============================================================================
