------------------------------- MODULE Serving -------------------------------
(***************************************************************************)
(* The serving loop: ServingSimulation (scripts/run_serving.py) with the   *)
(* scheduler and model runner it drives (scripts/vllm_serve/scheduler.py,  *)
(* model_runner.py) over the KV pool of module KVPool.                     *)
(*                                                                         *)
(* The program is one loop over a time-ordered event queue.  A handler     *)
(* runs to its end, calls _maybe_schedule included, so a handler is one    *)
(* action here.  Time is abstracted: any pending event may be next, except *)
(* that a prefill batch's BATCH_COMPLETE (microseconds of KV transfer, as  *)
(* decide_prefill_tier returns ttft_us = 0) comes before its DECODE_READY  *)
(* (milliseconds of CPU prefill).                                          *)
(*                                                                         *)
(* A handler updates many fields in sequence, so each helper below is a    *)
(* function from one record of the simulation's fields to another, and an  *)
(* action gives the variables the fields of the last record.               *)
(***************************************************************************)
EXTENDS KVSizes, SequencesExt

CONSTANTS
  AgentModes,       (* the modes to explore: agent sessions, regular requests
                       or both                                               *)
  MaxRequests,      (* bound: requests submitted in a run                    *)
  MaxSessions,      (* bound: agent sessions started in a run                *)
  NoSession,        (* the session of a regular request                      *)
  PromptLens,       (* prompt lengths of regular requests and first turns    *)
  DeltaPrompt,      (* prompt length of the later turns of a session         *)
  OutputLen,        (* max_output_len of every request                       *)
  Turns,            (* total_turns of every session, at least 2              *)
  NumChips,         (* chips the admission check counts free blocks on (32)  *)
  Capacity,         (* KV blocks per chip                                    *)
  MaxPrefilling,    (* 2 * MAX_BATCH_SIZE                                    *)
  MaxPrefillTokens, (* MAX_PREFILL_TOKENS                                    *)
  MinDecodeBatch,   (* min_decode_batch                                      *)
  MaxDecodeBatch,   (* max_decode_batch                                      *)
  MaxDrain          (* turns of the drain loop (2000)                        *)

ASSUME ServingAssumption ==
  /\ AgentModes \subseteq BOOLEAN
  /\ Turns >= 2 /\ OutputLen >= 1 /\ DeltaPrompt >= 1
  /\ NumChips >= NumShards
  /\ MinDecodeBatch >= 1 /\ MaxDecodeBatch >= 1 /\ MaxPrefilling >= 1
  /\ MaxRequests \in Nat /\ Capacity \in Nat /\ MaxPrefillTokens \in Nat
  /\ PromptLens \subseteq Nat /\ DeltaPrompt \in Nat
  /\ MaxPrefilling \in Nat /\ MaxDecodeBatch \in Nat
  /\ OutputLen \in Nat /\ Turns \in Nat /\ MaxDrain \in Nat
  /\ MaxSessions \in Nat /\ NoSession \notin 1 .. MaxSessions

Requests == 1 .. MaxRequests
Sessions == 1 .. MaxSessions

VARIABLES
  agentMode,   (* chosen when the simulation is built                        *)
  phase,       (* "run", then "drain" at the head of the drain loop and
                  "flush" in its inner loop, then "done"                     *)
  ticks,       (* drain_count                                                *)
  state,       (* Request.state, or "NEW" before the request is submitted    *)
  prompt,      (* Request.prompt_len                                         *)
  session,     (* Request._agent_session_id                                  *)
  tokens,      (* Request.tokens_generated                                   *)
  waiting,     (* waiting_queue                                              *)
  prefilling,  (* prefilling                                                 *)
  active,      (* active_decode                                              *)
  finishedCnt, (* stats.total_finished                                       *)
  pool,        (* the KV cache: see KVPool                                   *)
  busy,        (* _busy_ids                                                  *)
  events,      (* pending DECODE_READY and BATCH_COMPLETE events             *)
  nextTurns,   (* pending AGENT_NEXT_TURN events of each session             *)
  inFlight,    (* _prefill_in_flight_count                                   *)
  admitOpen,   (* now >= _next_prefill_admit_us                              *)
  sess         (* _agent_sessions, with turns_completed                      *)

vars == <<agentMode, phase, ticks, state, prompt, session, tokens, waiting, prefilling,
          active, finishedCnt, pool, busy, events, nextTurns, inFlight, admitOpen, sess>>

Pool == INSTANCE KVPool WITH Demands <- {BlocksPerChip(len) : len \in PromptLens}

(* The fields a handler works on.                                          *)
Now ==
  [state |-> state, prompt |-> prompt, session |-> session, tokens |-> tokens,
   waiting |-> waiting, prefilling |-> prefilling, active |-> active,
   finishedCnt |-> finishedCnt, pool |-> pool, busy |-> busy, events |-> events,
   nextTurns |-> nextTurns, inFlight |-> inFlight, admitOpen |-> admitOpen, sess |-> sess]

Becomes(s) ==
  \E t \in {s} :
    /\ state' = t.state /\ prompt' = t.prompt /\ session' = t.session
    /\ tokens' = t.tokens /\ waiting' = t.waiting /\ prefilling' = t.prefilling
    /\ active' = t.active /\ finishedCnt' = t.finishedCnt /\ pool' = t.pool
    /\ busy' = t.busy /\ events' = t.events /\ nextTurns' = t.nextTurns
    /\ inFlight' = t.inFlight /\ admitOpen' = t.admitOpen /\ sess' = t.sess

Init ==
  /\ agentMode \in AgentModes
  /\ phase = "run" /\ ticks = 0
  /\ state = [r \in Requests |-> "NEW"]
  /\ prompt = [r \in Requests |-> 0]
  /\ session = [r \in Requests |-> NoSession]
  /\ tokens = [r \in Requests |-> 0]
  /\ waiting = <<>> /\ prefilling = <<>> /\ active = <<>>
  /\ finishedCnt = 0
  /\ pool = Pool!FullPool
  /\ busy = {} /\ events = {} /\ inFlight = 0 /\ admitOpen = TRUE
  /\ nextTurns = [x \in Sessions |-> 0]
  /\ sess = [x \in Sessions |-> [here |-> FALSE, done |-> 0]]

-----------------------------------------------------------------------------
(* Scheduler: admission.                                                   *)

(* deque.appendleft of each request in turn, which reverses them.          *)
ToFront(s, reqs) == [s EXCEPT !.waiting = Reverse(reqs) \o @]

(* total_blocks_free >= blocks_needed * len(chip_ids) * 0.1.  Every chip   *)
(* counts as free space, also those that never hold KV.                    *)
HasRoom(s, r) ==
  10 * ((NumChips - NumShards) * Capacity + NumShards * s.pool.free)
    >= BlocksNeeded(s.prompt[r]) * NumChips

(* Variant for checking the properties: one request beyond the cap.        *)
AdmitOneTooMany(a, r) ==
  IF Len(a.s.prefilling) > MaxPrefilling
  THEN [a EXCEPT !.s.waiting = Append(@, r)]
  ELSE [a EXCEPT !.s.state[r] = "PREFILL",
                 !.s.prefilling = Append(@, r),
                 !.admitted = Append(@, r)]

AdmitOne(a, r) ==
  IF Len(a.s.prefilling) >= MaxPrefilling
  THEN [a EXCEPT !.s.waiting = Append(@, r)]
  ELSE IF HasRoom(a.s, r)
       THEN [a EXCEPT !.s.state[r] = "PREFILL",
                      !.s.prefilling = Append(@, r),
                      !.admitted = Append(@, r)]
       ELSE [a EXCEPT !.s.state[r] = "REJECTED"]

(* _admit_waiting: the queue is popped up to the cap.                      *)
AdmitWaiting(s) ==
  FoldLeft(AdmitOne, [s |-> [s EXCEPT !.waiting = <<>>], admitted |-> <<>>], s.waiting)

(* Variant: the cap compared with the tokens chosen so far.                *)
FitsBeforeAdding(s, b, r) == b.tokens <= MaxPrefillTokens

(* The greedy choice of _schedule_prefill; what does not fit is put back.  *)
Fits(s, b, r) == b.tokens + s.prompt[r] <= MaxPrefillTokens

SelectPrefill(s, admitted) ==
  LET Add(b, r) ==
        IF Fits(s, b, r)
        THEN [b EXCEPT !.in = Append(@, r), !.tokens = @ + s.prompt[r]]
        ELSE [b EXCEPT !.out = Append(@, r)]
  IN  IF \A r \in ToSet(admitted) : s.prompt[r] > MaxPrefillTokens
      THEN [in |-> <<Head(admitted)>>, out |-> Tail(admitted)]
      ELSE FoldLeft(Add, [in |-> <<>>, out |-> <<>>, tokens |-> 0], admitted)

(* Variant: as scheduler.py:153-156, which leaves it in prefilling.        *)
PutBackKeepsPrefilling(s, reqs) ==
  ToFront([s EXCEPT !.state = [r \in Requests |-> IF r \in ToSet(reqs) THEN "WAITING" ELSE @[r]]],
          reqs)

(* A request leaves prefilling and is WAITING again, at the head.          *)
PutBack(s, reqs) ==
  ToFront([s EXCEPT !.state = [r \in Requests |-> IF r \in ToSet(reqs) THEN "WAITING" ELSE @[r]],
                    !.prefilling = FoldLeft(RemoveFirst, @, reqs)],
          reqs)

-----------------------------------------------------------------------------
(* Model runner: the KV blocks of a batch, request by request.  The first  *)
(* request that finds no room fails the batch; earlier ones keep theirs.   *)

AllocPrefill(s, x, r) ==
  LET n == BlocksPerChip(s.prompt[r]) IN
  IF x.ok /\ Pool!PrefillFits(x.pool, n)
  THEN [x EXCEPT !.pool = Pool!TakePrefill(@, r, n)]
  ELSE [x EXCEPT !.ok = FALSE]

(* Variant: the first token goes into the prompt's last block.             *)
AllocDecodeNotFirst(s, x, r) ==
  IF s.tokens[r] > 0 /\ StartsBlock(s.tokens[r]) /\ Pool!DecodeFits(x.pool)
  THEN [x EXCEPT !.pool = Pool!TakeDecode(@, r)]
  ELSE x

(* Variant: a block is taken from a pool that may have none.               *)
AllocDecodeUnchecked(s, x, r) ==
  IF StartsBlock(s.tokens[r]) THEN [x EXCEPT !.pool = Pool!TakeDecode(@, r)] ELSE x

AllocDecode(s, x, r) ==
  CASE ~x.ok -> x
    [] x.ok /\ ~StartsBlock(s.tokens[r]) -> x
    [] x.ok /\ StartsBlock(s.tokens[r]) /\ Pool!DecodeFits(x.pool) ->
         [x EXCEPT !.pool = Pool!TakeDecode(@, r)]
    [] OTHER -> [x EXCEPT !.ok = FALSE]

Alloc(s, kind, reqs) ==
  LET One(x, r) == IF kind = "PREFILL" THEN AllocPrefill(s, x, r) ELSE AllocDecode(s, x, r)
  IN  FoldLeft(One, [pool |-> s.pool, ok |-> TRUE], reqs)

-----------------------------------------------------------------------------
(* _execute_batch.                                                         *)

BatchIds == 0 .. 2 * MaxRequests

Event(on, id, kind, reqs) == [on |-> on, id |-> id, kind |-> kind, reqs |-> reqs]

(* The events a started batch leaves in the queue.                         *)
Pushed(s, kind, reqs) ==
  LET id == CHOOSE i \in BatchIds : \A e \in s.events : e.id # i
  IN  {Event("COMPLETE", id, kind, reqs)} \cup
      (IF kind = "PREFILL" THEN {Event("READY", id, kind, reqs)} ELSE {})

MinusFloor(n) == IF n = 0 THEN 0 ELSE n - 1

Started(s, kind, reqs) ==
  LET prefill == kind = "PREFILL" IN
  [s EXCEPT !.busy = @ \cup ToSet(reqs),
            !.events = @ \cup Pushed(s, kind, reqs),
            !.inFlight = IF prefill THEN @ + 1 ELSE @,
            !.admitOpen = @ /\ ~prefill]

(* Variant: the requests of a failed batch are busy, with no event.        *)
FailedStaysBusy(s, kind, reqs) ==
  LET prefill == kind = "PREFILL" IN
  [PutBack(s, reqs) EXCEPT !.busy = @ \cup ToSet(reqs),
                           !.inFlight = IF prefill THEN MinusFloor(@) ELSE @,
                           !.admitOpen = @ /\ ~prefill]

(* A failed batch: every request back to the waiting queue, and admission  *)
(* closed for 50 ms after a prefill.                                       *)
Failed(s, kind, reqs) ==
  LET prefill == kind = "PREFILL" IN
  [PutBack(s, reqs) EXCEPT !.busy = @ \ ToSet(reqs),
                           !.inFlight = IF prefill THEN MinusFloor(@) ELSE @,
                           !.admitOpen = @ /\ ~prefill]

ExecuteBatch(s, kind, reqs) ==
  LET x == Alloc(s, kind, reqs)
      t == [s EXCEPT !.pool = x.pool]
  IN  IF x.ok THEN Started(t, kind, reqs) ELSE Failed(t, kind, reqs)

(* Variant: the batch is chosen from all of prefilling.                    *)
SchedulePrefillAgain(s) ==
  LET a == AdmitWaiting(s)
      b == SelectPrefill(a.s, a.s.prefilling)
  IN  IF a.admitted = <<>> THEN a.s
      ELSE ExecuteBatch(PutBack(a.s, b.out), "PREFILL", b.in)

SchedulePrefill(s) ==
  LET a == AdmitWaiting(s)
      b == SelectPrefill(a.s, a.admitted)
  IN  IF a.admitted = <<>> THEN a.s
      ELSE ExecuteBatch(PutBack(a.s, b.out), "PREFILL", b.in)

(* The elements of q that are in R, in order.                              *)
OnlyIn(R, q) == FoldLeft(LAMBDA p, r : IF r \in R THEN Append(p, r) ELSE p, <<>>, q)

(* Variant: busy requests too.                                             *)
AvailableEvenBusy(s) == s.active

(* The requests a decode batch may be formed from.                         *)
Available(s) == OnlyIn(Requests \ s.busy, s.active)

ScheduleDecode(s) ==
  LET free == Available(s)
  IN  ExecuteBatch(s, "DECODE", SubSeq(free, 1, IF Len(free) < MaxDecodeBatch
                                                THEN Len(free) ELSE MaxDecodeBatch))

(* waited: MAX_DECODE_WAIT_US have passed since the last decode batch.     *)
CanDecode(s, waited) ==
  /\ Available(s) # <<>>
  /\ Len(s.active) >= MinDecodeBatch \/ waited

MaybeSchedule(s, waited) ==
  LET t == IF s.waiting # <<>> /\ s.admitOpen THEN SchedulePrefill(s) ELSE s
  IN  IF CanDecode(t, waited) THEN ScheduleDecode(t) ELSE t

-----------------------------------------------------------------------------
(* What a finished batch does to its requests.                             *)

(* on_prefill_complete: the requests still in PREFILL go on to decode.     *)
PromoteOne(s, r) ==
  IF s.state[r] # "PREFILL" THEN s
  ELSE [s EXCEPT !.state[r] = "DECODE", !.active = Append(@, r),
                 !.prefilling = RemoveFirst(@, r)]

OnPrefillComplete(s, reqs) == FoldLeft(PromoteOne, s, reqs)

(* on_decode_step: one token each; finished requests leave active_decode.  *)
DecodeOne(x, r) ==
  LET t == [x EXCEPT !.s.tokens[r] = @ + 1] IN
  CASE x.s.state[r] = "FINISHED" -> x
    [] x.s.state[r] # "FINISHED" /\ t.s.tokens[r] < OutputLen -> t
    [] OTHER -> [t EXCEPT !.s.state[r] = "FINISHED",
                          !.s.finishedCnt = @ + 1,
                          !.finished = Append(@, r)]

OnDecodeStep(s, reqs) ==
  LET x == FoldLeft(DecodeOne, [s |-> s, finished |-> <<>>], reqs)
  IN  [x.s EXCEPT !.active = FoldLeft(RemoveFirst, @, x.finished)]

(* The requests of a session, and the release of all their KV.             *)
TurnsOf(s, x) == {r \in Requests : s.session[r] = x}

ReleaseTurns(s, x) ==
  [s EXCEPT !.pool = FoldSet(LAMBDA r, p : Pool!Release(p, r), @, TurnsOf(s, x))]

(* Variant: only the last turn's blocks are freed (see run_serving.py:937). *)
FinishTurnFreesLast(s, r) ==
  LET x == s.session[r]
      done == s.sess[x].done + 1
      t == [s EXCEPT !.sess[x].done = done]
  IN  CASE x = NoSession \/ ~s.sess[x].here -> [s EXCEPT !.pool = Pool!Release(@, r)]
        [] done < Turns /\ phase = "run" -> [t EXCEPT !.nextTurns[x] = @ + 1]
        [] OTHER -> [t EXCEPT !.pool = Pool!Release(@, r), !.sess[x].here = FALSE]

(* Variant: one turn too many is planned.                                  *)
FinishTurnOneMore(s, r) ==
  LET x == s.session[r] IN
  IF x # NoSession /\ s.sess[x].here /\ s.sess[x].done < Turns
  THEN [s EXCEPT !.sess[x].done = @ + 1, !.nextTurns[x] = @ + 1]
  ELSE s

(* _maybe_finish_agent_turn                                                *)
FinishTurn(s, r) ==
  LET x == s.session[r]
      done == s.sess[x].done + 1
      t == [s EXCEPT !.sess[x].done = done]
  IN  CASE x = NoSession -> [s EXCEPT !.pool = Pool!Release(@, r)]
        [] x # NoSession /\ ~s.sess[x].here -> s
        [] x # NoSession /\ s.sess[x].here /\ done < Turns /\ phase = "run" ->
             [t EXCEPT !.nextTurns[x] = @ + 1]
        [] OTHER -> [ReleaseTurns(t, x) EXCEPT !.sess[x].here = FALSE]

FinishTurns(s, reqs) ==
  FoldLeft(FinishTurn, s, OnlyIn({r \in Requests : s.state[r] = "FINISHED"}, reqs))

-----------------------------------------------------------------------------
(* The handlers.                                                           *)

Submitted == {r \in Requests : state[r] # "NEW"}

NextId == Cardinality(Submitted) + 1

Submit(s, r, len, x) ==
  [s EXCEPT !.state[r] = "WAITING", !.prompt[r] = len, !.session[r] = x,
            !.waiting = Append(@, r)]

StartedSessions == {x \in Sessions : TurnsOf(Now, x) # {}}

(* REQUEST_ARRIVAL: a regular request, or a session and its first turn.    *)
Arrive ==
  /\ phase = "run" /\ NextId <= MaxRequests
  /\ \E len \in PromptLens, waited \in BOOLEAN :
       IF agentMode
       THEN \E x \in Sessions :
              /\ x = Cardinality(StartedSessions) + 1
              /\ Becomes(MaybeSchedule(
                   Submit([Now EXCEPT !.sess[x].here = TRUE], NextId, len, x), waited))
       ELSE Becomes(MaybeSchedule(Submit(Now, NextId, len, NoSession), waited))
  /\ UNCHANGED <<agentMode, phase, ticks>>

Pending == phase \in {"run", "flush"}

(* BATCH_COMPLETE is the earlier of the two events of a prefill batch.     *)
Fireable(e) == e.on = "READY" => Event("COMPLETE", e.id, e.kind, e.reqs) \notin events

Popped(e) == [Now EXCEPT !.events = @ \ {e}, !.busy = @ \ ToSet(e.reqs)]

(* DECODE_READY: the requests may decode, but nothing is scheduled.        *)
DecodeReady ==
  /\ Pending
  /\ \E e \in events :
       /\ e.on = "READY" /\ Fireable(e)
       /\ Becomes(OnPrefillComplete(Popped(e), e.reqs))
  /\ UNCHANGED <<agentMode, phase, ticks>>

(* Variant: the prefill is not counted down.                               *)
AfterPrefillForgets(s) == s

AfterPrefill(s) == [s EXCEPT !.inFlight = MinusFloor(@)]

AfterDecode(s, reqs) == FinishTurns(OnDecodeStep(s, reqs), reqs)

(* Variant: nothing is scheduled after a batch.                            *)
BatchCompleteIdle ==
  /\ Pending
  /\ \E e \in events :
       /\ e.on = "COMPLETE"
       /\ Becomes(IF e.kind = "PREFILL" THEN AfterPrefill(Popped(e))
                                        ELSE AfterDecode(Popped(e), e.reqs))
  /\ UNCHANGED <<agentMode, phase, ticks>>

(* BATCH_COMPLETE                                                          *)
BatchComplete ==
  /\ Pending
  /\ \E e \in events, waited \in BOOLEAN :
       /\ e.on = "COMPLETE"
       /\ LET s == IF e.kind = "PREFILL" THEN AfterPrefill(Popped(e))
                                         ELSE AfterDecode(Popped(e), e.reqs)
          IN  Becomes(MaybeSchedule(s, waited))
  /\ UNCHANGED <<agentMode, phase, ticks>>

(* AGENT_NEXT_TURN in the run: the next turn is submitted.                 *)
AgentNextTurn ==
  /\ phase = "run"
  /\ \E x \in Sessions, waited \in BOOLEAN :
       /\ nextTurns[x] > 0 /\ NextId <= MaxRequests
       /\ LET s == [Now EXCEPT !.nextTurns[x] = @ - 1]
              t == IF sess[x].done < Turns THEN Submit(s, NextId, DeltaPrompt, x) ELSE s
          IN  Becomes(MaybeSchedule(t, waited))
  /\ UNCHANGED <<agentMode, phase, ticks>>

(* AGENT_NEXT_TURN in the drain: the session's KV is released instead.     *)
AgentNextTurnDrain ==
  /\ phase = "flush"
  /\ \E x \in Sessions :
       /\ nextTurns[x] > 0
       /\ LET s == [Now EXCEPT !.nextTurns[x] = @ - 1]
          IN  Becomes(IF sess[x].done < Turns THEN ReleaseTurns(s, x) ELSE s)
  /\ UNCHANGED <<agentMode, phase, ticks>>

(* Time reaches _next_prefill_admit_us.                                    *)
OpenAdmission ==
  /\ Pending /\ ~admitOpen
  /\ Becomes([Now EXCEPT !.admitOpen = TRUE])
  /\ UNCHANGED <<agentMode, phase, ticks>>

(* The first event past duration_us is popped and dropped by the break; or *)
(* that event is a metrics sample, or there is none.                       *)
EndRun ==
  /\ phase = "run" /\ phase' = "drain"
  /\ \/ Becomes(Now)
     \/ \E e \in events : Fireable(e) /\ Becomes([Now EXCEPT !.events = @ \ {e}])
     \/ \E x \in Sessions :
          nextTurns[x] > 0 /\ Becomes([Now EXCEPT !.nextTurns[x] = @ - 1])
  /\ UNCHANGED <<agentMode, ticks>>

(* The head of the drain loop.  Its clock is behind that of the events, so *)
(* admission may be closed again.                                          *)
DrainTurn ==
  /\ phase = "drain" /\ active # <<>> /\ ticks < MaxDrain
  /\ \E open, waited \in BOOLEAN :
       Becomes(MaybeSchedule([Now EXCEPT !.admitOpen = open], waited))
  /\ phase' = "flush"
  /\ UNCHANGED <<agentMode, ticks>>

(* Variant: turns are not counted.                                         *)
DrainTurnEndsUncounted ==
  /\ phase = "flush" /\ events = {} /\ \A x \in Sessions : nextTurns[x] = 0
  /\ phase' = "drain"
  /\ Becomes(Now) /\ UNCHANGED <<agentMode, ticks>>

(* The inner loop ends when the queue is empty.                            *)
DrainTurnEnds ==
  /\ phase = "flush" /\ events = {} /\ \A x \in Sessions : nextTurns[x] = 0
  /\ phase' = "drain" /\ ticks' = ticks + 1
  /\ Becomes(Now) /\ UNCHANGED agentMode

DrainEnds ==
  /\ phase = "drain" /\ (active = <<>> \/ ticks >= MaxDrain)
  /\ phase' = "done"
  /\ Becomes(Now) /\ UNCHANGED <<agentMode, ticks>>

Done == phase = "done" /\ UNCHANGED vars

Next ==
  \/ Arrive \/ DecodeReady \/ BatchComplete
  \/ AgentNextTurn \/ AgentNextTurnDrain
  \/ OpenAdmission
  \/ EndRun \/ DrainTurn \/ DrainTurnEnds \/ DrainEnds
  \/ Done

Spec == Init /\ [][Next]_vars

(* The program is one loop, which takes its next step as long as there is  *)
(* one, and arrivals stop at duration_us.  This is WF_vars(Next), with     *)
(* ENABLED <<Next>>_vars written out: TLC is slow at finding it.           *)
Fairness == []<>(phase = "done") \/ []<><<TRUE>>_vars

FairSpec == Spec /\ Fairness

-----------------------------------------------------------------------------
(* Correctness.  A batch that is lost when the run is cut short is the     *)
(* only way a request stays busy with no event to free it.                 *)

InBatches(on, kind) ==
  UNION {ToSet(e.reqs) : e \in {f \in events : f.on = on /\ f.kind = kind}}

NoRepeats(q) == Cardinality(ToSet(q)) = Len(q)

SumOf(f, reqs) == FoldLeft(LAMBDA n, r : n + f[r], 0, reqs)

KVHeld == SumOf(pool.held, [r \in Requests |-> r])

(* Every variable has the shape the code gives it; no list outgrows the    *)
(* bound the code puts on it.                                              *)
TypeOK ==
  /\ agentMode \in BOOLEAN /\ phase \in {"run", "drain", "flush", "done"}
  /\ ticks \in 0 .. MaxDrain
  /\ state \in [Requests -> {"NEW", "WAITING", "PREFILL", "DECODE", "FINISHED", "REJECTED"}]
  /\ prompt \in [Requests -> PromptLens \cup {0, DeltaPrompt}]
  /\ session \in [Requests -> Sessions \cup {NoSession}]
  /\ tokens \in [Requests -> 0 .. OutputLen]
  /\ \A q \in {waiting, prefilling, active} : ToSet(q) \subseteq Requests
  /\ Len(prefilling) <= MaxPrefilling
  /\ pool \in Pool!PoolType
  /\ busy \subseteq Requests /\ admitOpen \in BOOLEAN
  /\ inFlight \in 0 .. MaxRequests
  /\ \A e \in events : Len(e.reqs) \in 1 .. MaxRequests
  /\ nextTurns \in [Sessions -> 0 .. Turns]
  /\ sess \in [Sessions -> [here : BOOLEAN, done : 0 .. Turns]]

(* A request is in one of the three queues, once, and it is the one its    *)
(* state names.  The handlers move requests between the queues and set the *)
(* state in separate statements, and put back what a batch has no room for.*)
QueuesAgree ==
  /\ \A q \in {waiting, prefilling, active} : NoRepeats(q)
  /\ ToSet(waiting)    = {r \in Requests : state[r] = "WAITING"}
  /\ ToSet(prefilling) = {r \in Requests : state[r] = "PREFILL"}
  /\ ToSet(active)     = {r \in Requests : state[r] = "DECODE"}

(* A request is in one batch at a time: two pending events that name it    *)
(* are the two events of one prefill.  A batch that decodes it twice would *)
(* generate two tokens in one step.                                        *)
OneBatchEach ==
  \A e, f \in events :
    /\ ToSet(e.reqs) \cap ToSet(f.reqs) # {} => e.id = f.id
    /\ NoRepeats(e.reqs)

(* In the run, the busy flags and the count of prefills in flight are what *)
(* the pending events say: every flag will be cleared, every prefill       *)
(* counted down.  A prefill batch clears its flags at its first event.     *)
InFlightAgrees ==
  phase = "run" =>
    /\ busy = InBatches("COMPLETE", "PREFILL") \cup InBatches("COMPLETE", "DECODE")
    /\ inFlight = Cardinality({e \in events : e.on = "COMPLETE" /\ e.kind = "PREFILL"})

(* A prefill batch keeps to the token cap, unless it is one request that   *)
(* exceeds it alone.                                                       *)
PrefillBudget ==
  \A e \in events :
    e.kind = "PREFILL" =>
      \/ Len(e.reqs) = 1
      \/ SumOf(prompt, e.reqs) <= MaxPrefillTokens

(* While a request decodes it holds the blocks of its prompt and one for   *)
(* each started block of generated tokens, the one being generated too.    *)
KVCoversTokens ==
  \A r \in ToSet(active) :
    LET n == tokens[r] + (IF r \in busy THEN 1 ELSE 0) IN
    pool.held[r] = BlocksPerChip(prompt[r]) + (n + KvBlockTokens - 1) \div KvBlockTokens

(* As long as no batch fails for lack of blocks, none is lost: each is     *)
(* free or on the record of a request in prefill or decode, or of a turn   *)
(* of a session that is still there; and such a session keeps all its      *)
(* turns' blocks until the run ends.                                       *)
KVAccounted ==
  /\ pool.free + KVHeld = Capacity
  /\ \A r \in Requests :
       pool.held[r] > 0 =>
         \/ state[r] \in {"PREFILL", "DECODE"}
         \/ session[r] # NoSession /\ sess[session[r]].here
  /\ phase = "run" =>
       \A r \in Requests :
         state[r] = "FINISHED" /\ session[r] # NoSession
           => (pool.held[r] > 0) = sess[session[r]].here

(* A session has completed as many turns as requests of it are finished,   *)
(* and while it is there and the run goes on exactly one thing keeps it    *)
(* going: an unfinished turn, or the event that submits the next.          *)
TurnsAccounted ==
  \A x \in Sessions :
    LET turns == TurnsOf(Now, x)
        open  == {r \in turns : state[r] # "FINISHED"}
    IN  /\ sess[x].done = Cardinality(turns \ open)
        /\ phase = "run" /\ sess[x].here => Cardinality(open) + nextTurns[x] = 1
        /\ ~sess[x].here => open = {} /\ nextTurns[x] = 0

(* A request only ever goes forward, tokens are never taken back, and      *)
(* total_finished counts each request once, however often the events of    *)
(* its batches are handled.                                                *)
Rank == [NEW |-> 0, WAITING |-> 1, PREFILL |-> 2, DECODE |-> 3, FINISHED |-> 4, REJECTED |-> 4]

OnlyForward ==
  [][/\ \A r \in Requests :
          /\ Rank[state'[r]] >= Rank[state[r]]
          /\ tokens'[r] \in {tokens[r], tokens[r] + 1}
          /\ state[r] = "FINISHED" => state'[r] = "FINISHED"
     /\ finishedCnt' = Cardinality({r \in Requests : state'[r] = "FINISHED"})]_vars

(* A turn of the drain loop serves every decode to its end, also those     *)
(* that wait behind others.  What it leaves is in a lost batch, or became  *)
(* ready after the turn's last scheduling and has not generated a token.   *)
DrainLeavesNoneHalfway ==
  phase \in {"drain", "done"} /\ ticks > 0 =>
    \A r \in ToSet(active) \ busy : tokens[r] = 0

(* Also when batches fail for lack of blocks: no block is given out that   *)
(* is not there, and retries never make blocks appear.                     *)
KVNeverOverdrawn == pool.free \in 0 .. Capacity /\ pool.free + KVHeld <= Capacity

(* Also then: a request is busy only while an event is pending that will   *)
(* clear the flag.  A failed batch that left a flag behind would hide its  *)
(* requests from every later decode batch.                                 *)
BusyIsServed ==
  phase = "run" =>
    busy \subseteq InBatches("COMPLETE", "PREFILL") \cup InBatches("COMPLETE", "DECODE")

(* The simulation ends, although a lost batch keeps its requests in        *)
(* active_decode, which is the drain loop's condition.                     *)
Terminates == <>(phase = "done")

(* run_serving.py:491 says "Drain remaining active requests": at the end   *)
(* no request is left in decode.                                           *)
DrainFinishesActive == phase = "done" => active = <<>>

(* scheduler.py:4 gives the "State machine: WAITING -> PREFILL -> DECODE -> *)
(* FINISHED": a request that decodes does not wait for a prefill as well.  *)
DecodeNeverWaits == ToSet(active) \cap ToSet(waiting) = {}

(* run_serving.py:595-598 says "always schedule if requests are available" *)
(* and "schedule immediately if any active request is free": in the run a  *)
(* free request never waits while no decode batch is in flight.            *)
NoIdleDecode ==
  phase = "run" /\ InBatches("COMPLETE", "DECODE") = {} => Available(Now) = <<>>

=============================================================================
