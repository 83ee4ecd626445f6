-------------------------------- MODULE GemvArray --------------------------------
(***************************************************************************)
(* ffn_gemv_array.sv (bringup/v2_lite/rtl) with what starts it: the engine *)
(* of v2_lite_ffn_engine.sv and gemv_test_top.sv, which tie start and ack  *)
(* to 1, the controller ffn_routed_expert.sv, which starts it with a       *)
(* pulse, and a driver that holds start until it is done.  With the first  *)
(* comes that engine's AXI read FSM.                                       *)
(*                                                                         *)
(* A step is a clock edge.  All lanes do the same, so one stands for them; *)
(* a product is known by the beat it is of, a sum by its summands.  What   *)
(* is on the inputs between two rows is zero or whatever the wires carry.  *)
(***************************************************************************)
EXTENDS Naturals, Sequences

CONSTANTS
  GvCycles,       (* CYCLES_PER_ROW                                          *)
  GvRows,         (* OUTPUT_DIM                                              *)
  GvDepth,        (* REDUCE_DEPTH                                            *)
  GvStages,       (* PIPE_STAGES                                             *)
  RowBeats,       (* beats of a row's burst                                  *)
  RowLimit        (* row_idx stays below: 2 ^ 11                             *)

ASSUME GemvAssumption ==
  /\ GvCycles \in Nat \ {0} /\ GvRows \in Nat \ {0} /\ GvDepth \in Nat
  /\ GvStages = 3
  /\ RowBeats \in Nat \ {0} /\ RowLimit \in Nat \ {0}

VARIABLES
  gemv,           (* the registers of the array                              *)
  driver,         (* who drives it, start, the state of the controller, and  *)
                  (* what is on the inputs between rows                      *)
  fetch,          (* the registers of the AXI read FSM, beats the memory has *)
                  (* still to send                                           *)
  gvRows          (* history: rows given in this run                         *)

gvVars == <<gemv, driver, fetch, gvRows>>

Zero == <<>>
Tied == driver.by = "engine"

GvInit ==
  /\ gemv = [st |-> "IDLE", row |-> 0, cyc |-> 0, drain |-> 0, reduce |-> 0, loaded |-> FALSE,
             clr |-> FALSE, mult |-> <<Zero, Zero>>, mac |-> <<>>,
             tree |-> [d \in 0 .. GvDepth |-> <<>>],
             valid |-> FALSE, data |-> <<>>, of |-> 0, last |-> FALSE, done |-> FALSE]
  /\ driver \in [by : {"engine", "expert", "holder"}, start : {FALSE}, st : {"IDLE"},
                 between : {"zero", "any"}]
  /\ fetch = [st |-> "IDLE", valid |-> FALSE, addr |-> 0, cnt |-> 0, row |-> 0,
              owed |-> 0, of |-> 0]
  /\ gvRows = 0

-----------------------------------------------------------------------------
(* The beat on the inputs: in S_STREAM the one cyc_cnt asks for.           *)
Input ==
  IF gemv.st = "STREAM" THEN <<gemv.row, gemv.cyc>>
  ELSE IF driver.between = "zero" THEN Zero ELSE <<gemv.row, gemv.st>>

Plus(sum, x) == IF x = Zero THEN sum ELSE Append(sum, x)

(* lpm_mult takes two cycles; the accumulator is cleared in the first      *)
(* cycle of S_STREAM and adds in the others and in S_DRAIN.                *)
Lane ==
  [mult |-> <<Input, gemv.mult[1]>>,
   mac |-> IF gemv.clr THEN <<>>
           ELSE IF gemv.st \in {"STREAM", "DRAIN"} THEN Plus(gemv.mac, gemv.mult[2])
           ELSE gemv.mac]

(* The reduction tree, a register to each stage, always moves on.          *)
Tree == [d \in 0 .. GvDepth |-> IF d = 0 THEN gemv.mac ELSE gemv.tree[d - 1]]

Quiet2 == [gemv EXCEPT !.valid = FALSE, !.done = FALSE, !.mult = Lane.mult, !.mac = Lane.mac,
                       !.tree = Tree]

GvIdle(start) == IF start THEN [Quiet2 EXCEPT !.row = 0, !.cyc = 0, !.st = "PRELOAD"] ELSE Quiet2

GvPreload(ack) ==
  IF ack THEN [Quiet2 EXCEPT !.loaded = TRUE, !.clr = TRUE, !.cyc = 0, !.st = "STREAM"] ELSE Quiet2

GvStream ==
  IF gemv.cyc = GvCycles - 1
  THEN [Quiet2 EXCEPT !.clr = FALSE, !.cyc = 0, !.drain = 0, !.st = "DRAIN"]
  ELSE [Quiet2 EXCEPT !.clr = FALSE, !.cyc = @ + 1]

GvDrain ==
  IF gemv.drain = GvStages THEN [Quiet2 EXCEPT !.drain = @ + 1, !.reduce = 0, !.st = "REDUCE"]
  ELSE [Quiet2 EXCEPT !.drain = @ + 1]

ReduceEnds == gemv.reduce = GvDepth

GvReduce ==
  IF ReduceEnds
  THEN [Quiet2 EXCEPT !.reduce = @ + 1, !.data = gemv.tree[GvDepth], !.of = gemv.row,
                      !.valid = TRUE, !.last = (gemv.row = GvRows - 1), !.st = "STORE"]
  ELSE [Quiet2 EXCEPT !.reduce = @ + 1]

GvStore ==
  IF gemv.row = GvRows - 1 THEN [Quiet2 EXCEPT !.st = "DONE"]
  ELSE [Quiet2 EXCEPT !.row = @ + 1, !.cyc = 0, !.loaded = FALSE, !.st = "PRELOAD"]

(* done is up from the second cycle on, if start is still up.              *)
GvDone(start) == IF start THEN [Quiet2 EXCEPT !.done = TRUE] ELSE [Quiet2 EXCEPT !.st = "IDLE"]

GvFsm(start, ack) ==
  gemv' = CASE gemv.st = "IDLE"    -> GvIdle(start)
            [] gemv.st = "PRELOAD" -> GvPreload(ack)
            [] gemv.st = "STREAM"  -> GvStream
            [] gemv.st = "DRAIN"   -> GvDrain
            [] gemv.st = "REDUCE"  -> GvReduce
            [] gemv.st = "STORE"   -> GvStore
            [] gemv.st = "DONE"    -> GvDone(start)

-----------------------------------------------------------------------------
(* ffn_routed_expert as far as the array lets it get: a pulse of           *)
(* gemv_start, and then gemv_done is waited for.                           *)
RoutedExpert(request) ==
  driver' = CASE driver.st = "IDLE" -> IF request THEN [driver EXCEPT !.start = TRUE, !.st = "GATE"]
                                       ELSE [driver EXCEPT !.start = FALSE]
              [] driver.st = "GATE" -> [driver EXCEPT !.start = FALSE,
                                                      !.st = IF gemv.done THEN "SILU" ELSE @]
              [] OTHER -> driver

Holder(request) ==
  driver' = [driver EXCEPT !.start = IF @ THEN ~gemv.done ELSE request /\ gemv.st = "IDLE"]

(* The AXI read FSM: row by row, for as long as the engine runs.           *)
Fetch(arready, rvalid) ==
  LET beat == fetch.owed > 0 /\ rvalid
      takes == fetch.valid /\ arready /\ fetch.owed = 0
      memory == IF takes THEN [fetch EXCEPT !.owed = RowBeats, !.of = fetch.addr]
                ELSE IF beat THEN [fetch EXCEPT !.owed = @ - 1] ELSE fetch
  IN fetch' = CASE fetch.st = "IDLE" -> [memory EXCEPT !.valid = TRUE, !.addr = fetch.row,
                                                       !.cnt = 0, !.st = "REQ"]
                [] fetch.st = "REQ" -> IF takes THEN [memory EXCEPT !.valid = FALSE, !.st = "DATA"]
                                       ELSE memory
                [] fetch.st = "DATA" ->
                     IF ~beat THEN memory
                     ELSE IF fetch.owed > 1 THEN [memory EXCEPT !.cnt = @ + 1]
                     ELSE [memory EXCEPT !.cnt = @ + 1, !.row = (@ + 1) % RowLimit, !.st = "IDLE"]

GvEdge(request, ack) ==
  /\ GvFsm(IF Tied THEN TRUE ELSE driver.start, Tied \/ ack)
  /\ CASE Tied -> UNCHANGED driver
       [] driver.by = "expert" -> RoutedExpert(request)
       [] driver.by = "holder" -> Holder(request)
  /\ IF Tied THEN \E arready, rvalid \in BOOLEAN : Fetch(arready, rvalid) ELSE UNCHANGED fetch
  /\ gvRows' = IF gemv.st = "IDLE" THEN 0 ELSE IF gemv'.valid THEN gvRows + 1 ELSE gvRows

GvNext == \E request, ack \in BOOLEAN : GvEdge(request, ack)

(* Weights are preloaded in the end.                                       *)
GvReadily == \E request \in BOOLEAN : GvEdge(request, TRUE)

GvSpec == GvInit /\ [][GvNext]_gvVars /\ WF_gvVars(GvReadily)

-----------------------------------------------------------------------------
(* The rows of a run come in order, each once, the last one marked; the    *)
(* sum of a row is its own beats in order, nothing else, if the inputs are *)
(* zero between rows, and otherwise also what is on them in the cycle      *)
(* before the first beat and in the one after the last; the array is done  *)
(* only after all rows; and its engine takes every beat of the rows it     *)
(* asks for, whichever row the array is at.                                *)
GemvCorrect ==
  /\ gemv.valid =>
       /\ gemv.of = gvRows - 1 /\ gemv.last = (gvRows = GvRows)
       /\ LET beats == [n \in 1 .. GvCycles |-> <<gemv.of, n - 1>>]
          IN gemv.data = IF driver.between = "zero" THEN beats
                         ELSE <<<<gemv.of, "PRELOAD">>>> \o beats \o <<<<gemv.of, "DRAIN">>>>
  /\ gemv.done => gvRows = GvRows
  /\ fetch.owed > 0 => fetch.st = "DATA" /\ fetch.cnt + fetch.owed = RowBeats /\ fetch.of = fetch.row

(* Who holds start gets to see done; an array that a pulse started is idle *)
(* again in the end, whatever the expert controller is at; and one whose   *)
(* start is tied up runs once and stays done.                              *)
GemvEnds ==
  /\ driver.by = "holder" => []<>(driver.start => gemv.done)
  /\ driver.by = "expert" => []<>(gemv.st = "IDLE")
  /\ Tied => <>[]gemv.done

=============================================================================
