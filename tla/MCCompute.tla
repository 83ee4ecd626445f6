------------------------------- MODULE MCCompute -------------------------------
(***************************************************************************)
(* What computes on tokens, and the schedulers beside the serving loop,    *)
(* for TLC: components that share no state, side by side.  unit says which *)
(* one a behaviour is of; the others stay as they begin.                   *)
(***************************************************************************)
EXTENDS MlaAttention, TransformerLayer, GemmEngine, Numerics, Engram, Mtp, TokenPath,
        TickScheduler, PrefillOverlap, IterationScheduler, PrefillWorker, SuperNode,
        V2LiteFfn, GemvArray, Fp8Formats, References

VARIABLE unit

(* All experts alike; each better than the one before; one in the middle   *)
(* far below the others.                                                   *)
MCScoreTables ==
  {[e \in 0 .. 2 |-> 0],
   [e \in 0 .. 2 |-> e * 4096 * 300],
   [e \in 0 .. 2 |-> IF e = 1 THEN -4096 * 3000 ELSE 4096]}

(* Two prompts of one token fit in a prefill batch, one of two fills it.   *)
MCPromptOf == <<1, 2, 1>>

(* One prompt is longer than a step, two others fill one together.         *)
MCIterPrompt == <<2, 5, 3, 1>>
MCIterOut == <<1, 2, 1, 2>>

(* Three chunks of which one is cached, and two.                           *)
MCGroupPrompt == <<5, 3>>
MCGroupCached == <<2, 0>>

(* One session comes twice.                                                *)
MCSessionOf == <<1, 2, 1, 3, 2>>

ComputeVars ==
  <<unit, attVars, layVars, gemmVars, sweep, engramVars, mtpVars, pathVars, tickVars,
    overlapVars, iterVars, workerVars, nodeVars, v2Vars, gvVars, fp8at, refVars>>

(* What tells states apart: the variables of the unit, as the others stay. *)
ComputeView ==
  <<unit,
    CASE unit = "attention" -> attVars [] unit = "layer" -> layVars
      [] unit = "gemm" -> gemmVars [] unit = "numerics" -> sweep
      [] unit = "engram" -> engramVars [] unit = "mtp" -> mtpVars
      [] unit = "path" -> pathVars [] unit = "ticks" -> tickVars
      [] unit = "overlap" -> overlapVars [] unit = "iter" -> iterVars
      [] unit = "worker" -> workerVars [] unit = "node" -> nodeVars
      [] unit = "v2ffn" -> v2Vars [] unit = "gemv" -> gvVars
      [] unit = "fp8" -> fp8at
      [] unit \in {"ffnref", "golden", "sums", "query"} -> refVars>>

(* Prompts and outputs vary only in the unit that reads them.              *)
ComputeInit ==
  /\ unit \in {"attention", "layer", "gemm", "numerics", "engram", "mtp", "path", "ticks",
               "overlap", "iter", "worker", "node", "v2ffn", "gemv", "fp8",
               "ffnref", "golden", "sums", "query"}
  /\ OverlapInit
  /\ unit # "overlap" => overlapSeen.prompt = 0 /\ overlapSeen.decode = 0
  /\ V2Init
  /\ unit # "v2ffn" => host2.by = "bench" /\ beats2.size = V2Burst
  /\ GvInit
  /\ unit # "gemv" => driver.by = "holder" /\ driver.between = "zero"
  /\ RefInit
  /\ unit # "ffnref" => pipe.kind = "one" /\ pipe.top = 2
  /\ AttInit /\ LayInit /\ GemmInit /\ NumInit /\ EngramInit /\ MtpInit /\ PathInit
  /\ TickInit /\ IterInit /\ WorkerInit /\ NodeInit /\ Fp8Init

(* A step is one of the unit's.                                            *)
ComputeNext ==
  /\ UNCHANGED unit
  /\ IF unit = "attention" THEN AttNext ELSE UNCHANGED attVars
  /\ IF unit = "layer" THEN LayNext ELSE UNCHANGED layVars
  /\ IF unit = "gemm" THEN GemmNext ELSE UNCHANGED gemmVars
  /\ IF unit = "numerics" THEN NumNext ELSE UNCHANGED sweep
  /\ IF unit = "engram" THEN EngramNext ELSE UNCHANGED engramVars
  /\ IF unit = "mtp" THEN MtpNext ELSE UNCHANGED mtpVars
  /\ IF unit = "path" THEN PathNext ELSE UNCHANGED pathVars
  /\ IF unit = "ticks" THEN TickNext ELSE UNCHANGED tickVars
  /\ IF unit = "overlap" THEN OverlapNext ELSE UNCHANGED overlapVars
  /\ IF unit = "iter" THEN IterNext ELSE UNCHANGED iterVars
  /\ IF unit = "worker" THEN WorkerNext ELSE UNCHANGED workerVars
  /\ IF unit = "node" THEN NodeNext ELSE UNCHANGED nodeVars
  /\ IF unit = "v2ffn" THEN V2Next ELSE UNCHANGED v2Vars
  /\ IF unit = "gemv" THEN GvNext ELSE UNCHANGED gvVars
  /\ IF unit = "fp8" THEN Fp8Next ELSE UNCHANGED fp8at
  /\ CASE unit = "ffnref" -> FfnPipeNext
       [] unit = "golden" -> GoldenNext
       [] unit = "sums" -> SumsNext
       [] unit = "query" -> QueryNext
       [] OTHER -> UNCHANGED refVars

(* The sweeps and the prefill overlap end; the host's requests run out.    *)
Ended ==
  /\ \/ unit = "numerics" /\ sweep * SweepStep > 2 * SweepMax
     \/ unit = "fp8" /\ fp8at = 256
     \/ unit = "overlap" /\ overlap.state = "IDLE"
     \/ unit \in {"ticks", "iter", "worker", "node", "ffnref", "golden", "sums", "query"}
  /\ UNCHANGED ComputeVars

ComputeSpec ==
  /\ ComputeInit /\ [][ComputeNext \/ Ended]_ComputeVars
  /\ WF_attVars(unit = "attention" /\ AttReadily)
  /\ WF_layVars(unit = "layer" /\ LayNext)
  /\ WF_engramVars(unit = "engram" /\ EngramReadily)
  /\ WF_iterVars(unit = "iter" /\ IterFairness)
  /\ WF_workerVars(unit = "worker" /\ WorkerRuns)
  /\ WF_nodeVars(unit = "node" /\ NodeCompletes)
  /\ WF_v2Vars(unit = "v2ffn" /\ V2Readily)
  /\ WF_gvVars(unit = "gemv" /\ GvReadily)

-----------------------------------------------------------------------------
(* The three schedulers beside the serving loop keep their queues: the     *)
(* tick interface, the second stack's, and the super node's.               *)
SchedulersAgree == TickQueuesAgree /\ IterQueuesAgree /\ SessionsCounted

(* Both ways of prefilling in pieces leave nothing out: entries through    *)
(* two buffers, prompts through the CPU worker.                            *)
PrefillsWhole == OverlapKeepsEntries /\ WorkerTakesEach

(* The engines that multiply give rows that are whole, each once: the GEMM *)
(* engine and the two of the bring-up design; and the prediction head      *)
(* answers with the word whose row gave most.                              *)
ProductsWhole == GemmRowsWhole /\ V2Correct /\ GemvCorrect /\ HeadPredictsBest

(* The golden exponential and best two are the layer's, but at 0, where    *)
(* the layer compares without signs.                                       *)
TwinsMeet ==
  /\ query.kind = "code" =>
       \A k \in 1 .. 40 : LET adj == -(40 * query.code + k) IN ExpGolden(adj) = ExpLut(adj)
  /\ query.kind = "scores" =>
       LET first == Best(query.scores, {})
       IN RtlTop2(query.scores) = <<first, Best(query.scores, {first})>>

(* The formats hold what they stand for: the datapaths' and the reference  *)
(* code's; and the reference models compute what the hardware computes.    *)
NumbersAgree == NumbersRight /\ Fp8Right /\ ReferencesMeet /\ TwinsMeet

(* Who waits is served: short requests behind long ones, prompts submitted *)
(* to a worker that is not stopped, sessions in the queue; and the engines *)
(* of the bring-up design end what they can end.                           *)
WaitersServed == ShortOnesFinish /\ WorkerServes /\ PendingServed /\ V2Ends /\ GemvEnds

=============================================================================
