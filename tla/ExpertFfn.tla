------------------------------- MODULE ExpertFfn -------------------------------
(***************************************************************************)
(* expert_ffn_engine_fp4_down with its three fp4_linear_engines            *)
(* (rtl/moe/expert_ffn_engine_fp4_down.sv, rtl/dsp/fp4_linear_engine.sv,   *)
(* fp4_systolic_array.sv, fp4_scaled_tile.sv, fp4_mac.sv): gate and up     *)
(* project a token's activations, their product is the activation of down. *)
(*                                                                         *)
(* A step is a clock edge of all of them.  A beat is one element wide.  A  *)
(* product is <<expert, row, beat, activation>>: the place of the weight   *)
(* and the value it is multiplied by; a sum is the list of its products.   *)
(***************************************************************************)
EXTENDS Naturals, Sequences, SequencesExt

CONSTANTS
  HiddenBeats,    (* K_BEATS_H, the rows of down                             *)
  InterBeats,     (* K_BEATS_I, the rows of gate and up                      *)
  DrainCycles,    (* DRAIN_CYCLES of the array                               *)
  PipeStages      (* registers from the array's input to its accumulator     *)

ASSUME FfnAssumption ==
  /\ HiddenBeats \in Nat \ {0} /\ InterBeats \in Nat \ {0}
  /\ DrainCycles \in Nat /\ PipeStages \in Nat \ {0}

VARIABLES
  ffn,            (* the registers of the FFN engine                         *)
  ffnActiv,       (* the activation memory of gate and up, written together  *)
  ffnMid,         (* the activation memory of down                           *)
  gate, up, down  (* the registers of the linear engines                     *)

ffnVars == <<ffn, ffnActiv, ffnMid, gate, up, down>>

NewEngine ==
  [state |-> "IDLE", row |-> 0, beat |-> 0, arrayStart |-> FALSE, kValid |-> FALSE,
   kLast |-> FALSE, done |-> FALSE, result |-> <<>>,
   array |-> "IDLE", drain |-> 0, clear |-> FALSE,
   pipe |-> [s \in 1 .. PipeStages |-> <<>>], sum |-> <<>>]

FfnInit ==
  /\ ffn = [state |-> "IDLE", guStart |-> FALSE, downStart |-> FALSE, done |-> FALSE,
            midWrite |-> FALSE, downStarted |-> FALSE, downBeat |-> 0,
            gateVec |-> [r \in 0 .. InterBeats - 1 |-> <<>>],
            upVec |-> [r \in 0 .. InterBeats - 1 |-> <<>>],
            mid |-> [r \in 0 .. InterBeats - 1 |-> <<>>]]
  /\ ffnActiv = [b \in 0 .. HiddenBeats - 1 |-> <<>>]
  /\ ffnMid = [b \in 0 .. InterBeats - 1 |-> <<>>]
  /\ gate = NewEngine /\ up = NewEngine /\ down = NewEngine

-----------------------------------------------------------------------------
(* The array and the pipeline of its tile: k_ready is S_RUN, and a product *)
(* reaches the accumulator PipeStages edges after its beat.                *)
ArrayEdge(e, product) ==
  LET fed == e.kValid /\ e.array = "RUN"
  IN [e EXCEPT
        !.array = CASE e.array = "IDLE"   -> IF e.arrayStart THEN "RUN" ELSE "IDLE"
                    [] e.array = "RUN"    -> IF fed /\ e.kLast THEN "DRAIN" ELSE "RUN"
                    [] e.array = "DRAIN"  -> IF e.drain = 0 THEN "OUTPUT" ELSE "DRAIN"
                    [] e.array = "OUTPUT" -> "DONE"
                    [] e.array = "DONE"   -> IF e.arrayStart THEN "DONE" ELSE "IDLE",
        !.drain = IF fed /\ e.kLast THEN DrainCycles
                  ELSE IF e.array = "DRAIN" /\ @ > 0 THEN @ - 1 ELSE @,
        !.clear = (e.array = "IDLE" /\ e.arrayStart),
        !.pipe = << IF fed THEN <<product>> ELSE <<>> >> \o Front(@),
        !.sum = IF e.clear THEN <<>> ELSE @ \o Last(e.pipe)]

(* The FSM of a linear engine; result_ready is tied high.                  *)
EngineControl(e, start, rows, beats) ==
  LET o == [e EXCEPT !.arrayStart = FALSE, !.kValid = FALSE, !.kLast = FALSE,
                     !.done = FALSE, !.result = <<>>]
  IN CASE e.state = "IDLE" ->
            IF start THEN [o EXCEPT !.row = 0, !.beat = 0, !.arrayStart = TRUE,
                                    !.state = "ARRAY_START"] ELSE o
       [] e.state = "ARRAY_START" ->
            [o EXCEPT !.kValid = TRUE, !.kLast = (beats = 1), !.state = "FEED"]
       [] e.state = "FEED" ->
            IF e.array # "RUN" THEN o
            ELSE IF e.beat = beats - 1 THEN [o EXCEPT !.beat = 0, !.state = "WAIT"]
            ELSE [o EXCEPT !.beat = @ + 1, !.kValid = TRUE, !.kLast = (e.beat + 1 = beats - 1)]
       [] e.state = "WAIT" ->
            IF e.array = "OUTPUT" THEN [o EXCEPT !.result = <<e.row, e.sum>>, !.state = "RESULT"]
            ELSE o
       [] e.state = "RESULT" ->
            IF e.row = rows - 1 THEN [o EXCEPT !.done = TRUE, !.state = "DONE"]
            ELSE [o EXCEPT !.row = @ + 1, !.beat = 0, !.arrayStart = TRUE,
                           !.state = "ARRAY_START"]
       [] e.state = "DONE" -> IF start THEN o ELSE [o EXCEPT !.state = "IDLE"]

(* An edge of a linear engine: FSM and array see the registers as they     *)
(* were, and the memories answer at once.                                  *)
EngineEdge(e, start, expert, activ, rows, beats) ==
  LET control == EngineControl(e, start, rows, beats)
      array == ArrayEdge(e, <<expert, e.row, e.beat, activ[e.beat]>>)
  IN [control EXCEPT !.array = array.array, !.drain = array.drain, !.clear = array.clear,
                     !.pipe = array.pipe, !.sum = array.sum]

-----------------------------------------------------------------------------
(* The pulse of a result, taken into a vector.                             *)
Collected(vec, result) == IF result = <<>> THEN vec ELSE [vec EXCEPT ![result[1]] = result[2]]

(* The FSM of the FFN engine.  gate and up are started together, and down_ *)
(* beat_cnt moves a cycle ahead of the write: beat 0 is written last.      *)
FfnControl(start) ==
  LET o == [ffn EXCEPT !.guStart = FALSE, !.downStart = FALSE, !.done = FALSE,
              !.midWrite = FALSE, !.gateVec = Collected(@, gate.result),
              !.upVec = Collected(@, up.result)]
  IN CASE ffn.state = "IDLE" ->
            IF start THEN [o EXCEPT !.guStart = TRUE, !.state = "RUN_GU"] ELSE o
       [] ffn.state = "RUN_GU" -> IF gate.done /\ up.done THEN [o EXCEPT !.state = "MID"] ELSE o
       [] ffn.state = "MID" ->
            [o EXCEPT !.mid = [r \in DOMAIN @ |-> <<ffn.gateVec[r], ffn.upVec[r]>>],
                      !.state = "LOAD_DOWN"]
       [] ffn.state = "LOAD_DOWN" ->
            IF ffn.downBeat = InterBeats - 1
            THEN [o EXCEPT !.midWrite = TRUE, !.downBeat = 0, !.downStarted = FALSE,
                           !.state = "RUN_DOWN"]
            ELSE [o EXCEPT !.midWrite = TRUE, !.downBeat = @ + 1]
       [] ffn.state = "RUN_DOWN" ->
            [o EXCEPT !.downStart = ~ffn.downStarted, !.downStarted = TRUE,
                      !.done = down.done, !.state = IF down.done THEN "DONE" ELSE @]
       [] ffn.state = "DONE" -> IF start THEN o ELSE [o EXCEPT !.state = "IDLE"]

(* A clock edge.  write is {} or {<<beat, activation>>}.                   *)
FfnEdge(start, expert, write) ==
  /\ ffn' = FfnControl(start)
  /\ ffnActiv' = [b \in DOMAIN ffnActiv |->
                    IF \E w \in write : w[1] = b THEN (CHOOSE w \in write : TRUE)[2]
                                                 ELSE ffnActiv[b]]
  /\ ffnMid' = IF ffn.midWrite THEN [ffnMid EXCEPT ![ffn.downBeat] = ffn.mid[ffn.downBeat]]
                               ELSE ffnMid
  /\ gate' = EngineEdge(gate, ffn.guStart, expert, ffnActiv, InterBeats, HiddenBeats)
  /\ up' = EngineEdge(up, ffn.guStart, expert, ffnActiv, InterBeats, HiddenBeats)
  /\ down' = EngineEdge(down, ffn.downStart, expert, ffnMid, HiddenBeats, InterBeats)

-----------------------------------------------------------------------------
(* What the engine is for: row r of the output of an expert on a token     *)
(* whose activation in beat b is activ[b].                                 *)
RowSum(expert, r, activ, beats) ==
  [b \in 1 .. beats |-> <<expert, r, b - 1, activ[b - 1]>>]

ExpertRow(expert, r, activ) ==
  RowSum(expert, r,
         [i \in 0 .. InterBeats - 1 |-> LET s == RowSum(expert, i, activ, HiddenBeats)
                                        IN <<s, s>>],
         InterBeats)

=============================================================================
