------------------------------ MODULE PrefillWorker ------------------------------
(***************************************************************************)
(* The CPU prefill worker behind vLLM's scheduler (scripts/prefill/        *)
(* vllm_prefill.py): FPGAPrefillRouter, CPUPrefillWorker and its thread,   *)
(* and the wrapper that patch_vllm_scheduler puts around                   *)
(* _schedule_prefills.                                                     *)
(*                                                                         *)
(* The scheduler's thread appends to a deque that the worker's thread      *)
(* takes from; running is the only other thing they share.  stop() joins   *)
(* for five seconds only, and a long prompt takes longer: a worker that is *)
(* started again may find the old thread still there.                      *)
(***************************************************************************)
EXTENDS Naturals, Sequences, SequencesExt, FiniteSets

CONSTANTS
  Groups,         (* sequence groups                                         *)
  GroupPrompt,    (* get_token_count() of each                               *)
  GroupCached,    (* cached_prefix_len of each                               *)
  CpuChunk,       (* cpu_chunk_size                                          *)
  MaxSubmits,     (* bound: calls of submit()                                *)
  MaxStarts       (* bound: calls of start()                                 *)

ASSUME WorkerAssumption ==
  /\ GroupPrompt \in [Groups -> Nat \ {0}] /\ GroupCached \in [Groups -> Nat]
  /\ \A g \in Groups : GroupCached[g] <= GroupPrompt[g]
  /\ CpuChunk \in Nat \ {0} /\ MaxSubmits \in Nat /\ MaxStarts \in Nat

VARIABLES
  waiting,        (* scheduler.waiting, and of it what the wrapper's loop    *)
                  (* has still to route                                      *)
  cpuQueue,       (* the deque                                               *)
  worker,         (* running, and for each thread started where it is        *)
  prefilled       (* history: groups submitted and taken, in order, and the  *)
                  (* tokens computed for each one taken                      *)

workerVars == <<waiting, cpuQueue, worker, prefilled>>

Threads == 1 .. MaxStarts

WorkerInit ==
  /\ waiting = [groups |-> <<>>, toRoute |-> <<>>]
  /\ cpuQueue = <<>>
  /\ worker = [running |-> FALSE, starts |-> 0, at |-> [t \in Threads |-> "none"],
               job |-> [t \in Threads |-> 0], chunk |-> [t \in Threads |-> 0]]
  /\ prefilled = [submitted |-> <<>>, taken |-> <<>>, tokens |-> <<>>, done |-> {}]

-----------------------------------------------------------------------------
CeilOf(m, n) == (m + n - 1) \div n

(* Mutant: the chunks of a whole prompt, cached or not.                    *)
RouteWhole(g) == [group |-> g, chunks |-> CeilOf(GroupPrompt[g], CpuChunk)]

(* route: every prompt goes to the CPU, in chunks of what is not cached.   *)
Route(g) == [group |-> g, chunks |-> CeilOf(GroupPrompt[g] - GroupCached[g], CpuChunk)]

(* A request reaches vLLM.                                                 *)
GroupArrives ==
  \E g \in Groups :
    /\ g \notin ToSet(waiting.groups) \cup ToSet(prefilled.submitted)
    /\ waiting' = [waiting EXCEPT !.groups = Append(@, g)]
    /\ UNCHANGED <<cpuQueue, worker, prefilled>>

(* patched_schedule_prefills: vLLM takes what it schedules from the head   *)
(* of its queue, and the wrapper goes through what is left.                *)
SchedulePrefills ==
  \E n \in 0 .. Len(waiting.groups) :
    LET left == SubSeq(waiting.groups, n + 1, Len(waiting.groups))
    IN /\ waiting.groups # <<>> /\ waiting.toRoute = <<>>
       /\ waiting' = [groups |-> left, toRoute |-> left]
       /\ UNCHANGED <<cpuQueue, worker, prefilled>>

Submit ==
  LET g == Head(waiting.toRoute)
  IN /\ waiting.toRoute # <<>> /\ Len(prefilled.submitted) < MaxSubmits
     /\ waiting' = [waiting EXCEPT !.toRoute = Tail(@)]
     /\ cpuQueue' = Append(cpuQueue, Route(g))
     /\ prefilled' = [prefilled EXCEPT !.submitted = Append(@, g)]
     /\ UNCHANGED worker

-----------------------------------------------------------------------------
Start ==
  /\ ~worker.running /\ worker.starts < MaxStarts
  /\ worker' = [worker EXCEPT !.running = TRUE, !.starts = @ + 1,
                              !.at[worker.starts + 1] = "loop"]
  /\ UNCHANGED <<waiting, cpuQueue, prefilled>>

Stop ==
  /\ worker.running /\ worker' = [worker EXCEPT !.running = FALSE]
  /\ UNCHANGED <<waiting, cpuQueue, prefilled>>

(* while self.running; an empty queue is looked at again after a sleep.    *)
Look(t) ==
  /\ worker.at[t] = "loop" /\ (worker.running => cpuQueue # <<>>)
  /\ worker' = [worker EXCEPT !.at[t] = IF worker.running THEN "pop" ELSE "left"]
  /\ UNCHANGED <<waiting, cpuQueue, prefilled>>

(* popleft, of a queue that another thread may have emptied since: the     *)
(* IndexError ends the thread.                                             *)
Pop(t) ==
  /\ worker.at[t] = "pop" /\ UNCHANGED waiting
  /\ IF cpuQueue = <<>>
     THEN worker' = [worker EXCEPT !.at[t] = "died"] /\ UNCHANGED <<cpuQueue, prefilled>>
     ELSE /\ cpuQueue' = Tail(cpuQueue)
          /\ prefilled' = [prefilled EXCEPT !.taken = Append(@, Head(cpuQueue).group),
                                            !.tokens = Append(@, 0)]
          /\ worker' = [worker EXCEPT !.at[t] = "chunks",
                                      !.job[t] = [of |-> Len(prefilled.taken) + 1,
                                                  chunks |-> Head(cpuQueue).chunks],
                                      !.chunk[t] = 0]

(* A chunk of the prompt, the last one shorter, or the end of the loop.    *)
Chunk(t) ==
  LET job == worker.job[t]
      prompt == GroupPrompt[prefilled.taken[job.of]]
      start == worker.chunk[t] * CpuChunk
      size == IF prompt - start < CpuChunk THEN prompt - start ELSE CpuChunk
  IN /\ worker.at[t] = "chunks" /\ UNCHANGED <<waiting, cpuQueue>>
     /\ IF worker.chunk[t] < job.chunks
        THEN /\ prefilled' = [prefilled EXCEPT !.tokens[job.of] = @ + size]
             /\ worker' = [worker EXCEPT !.chunk[t] = @ + 1]
        ELSE /\ prefilled' = [prefilled EXCEPT !.done = @ \cup {job.of}]
             /\ worker' = [worker EXCEPT !.at[t] = "loop", !.job[t] = 0, !.chunk[t] = 0]

WorkerRuns == \E t \in Threads : Look(t) \/ Pop(t) \/ Chunk(t)

WorkerNext == GroupArrives \/ SchedulePrefills \/ Submit \/ Start \/ Stop \/ WorkerRuns

WorkerSpec == WorkerInit /\ [][WorkerNext]_workerVars /\ WF_workerVars(WorkerRuns)

-----------------------------------------------------------------------------
(* Nothing submitted is lost, doubled or overtaken, with two threads on    *)
(* the queue too; what a thread has taken it finishes, stopped or not; the *)
(* chunks computed cover at least what is not cached, less than a chunk    *)
(* more, and never go beyond the prompt; and a thread dies of an empty     *)
(* queue only beside another one.                                          *)
WorkerTakesEach ==
  /\ prefilled.taken \o [i \in DOMAIN cpuQueue |-> cpuQueue[i].group] = prefilled.submitted
  /\ \A i \in DOMAIN prefilled.taken :
       LET g == prefilled.taken[i]
           new == GroupPrompt[g] - GroupCached[g]
       IN /\ i \notin prefilled.done
               <=> Cardinality({t \in Threads : worker.at[t] = "chunks" /\ worker.job[t].of = i}) = 1
          /\ prefilled.tokens[i] <= GroupPrompt[g]
          /\ prefilled.tokens[i] < new + CpuChunk
          /\ i \in prefilled.done => prefilled.tokens[i] >= new
  /\ \A t \in Threads : worker.at[t] = "died" =>
       worker.starts > 1 /\ \E u \in Threads \ {t} : worker.at[u] # "died"

(* What is submitted is taken and finished unless the worker is stopped.   *)
WorkerServes ==
  []<>(DOMAIN prefilled.submitted = prefilled.done \/ ~worker.running)

=============================================================================
