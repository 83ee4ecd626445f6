------------------------------- MODULE GemmEngine -------------------------------
(***************************************************************************)
(* fp4_gemm_engine (rtl/dsp/fp4_gemm_engine.sv) with its activation memory *)
(* and its grid of cells (fp4_systolic_2d.sv, fp4_systolic_cell.sv,        *)
(* fp4_mac.sv): M_ROWS rows of a product matrix x vector in a pass.        *)
(*                                                                         *)
(* A step is a clock edge.  A beat is one lane wide.  A cell holds one     *)
(* weight, the one written to it last; a product is <<weight, activation>> *)
(* and a sum the list of its products.  The consumer may come late but is  *)
(* then ready until the engine is idle again; the readout loses a row when *)
(* result_ready falls under it.                                            *)
(***************************************************************************)
EXTENDS Naturals, Sequences, SequencesExt

CONSTANTS
  RowsOut,        (* M_OUT                                                   *)
  CellRows,       (* M_ROWS                                                  *)
  GemmBeats,      (* K_BEATS                                                 *)
  GemmTokens      (* numbers of the vectors                                  *)

ASSUME GemmAssumption == {RowsOut, CellRows, GemmBeats} \subseteq Nat \ {0}

VARIABLES
  gemm,           (* the registers of the engine                             *)
  grid,           (* those of the grid: pipeline, sums, reduced sums         *)
  gemmReady,      (* result_ready                                            *)
  gemmGot         (* history: the vector, and the rows the consumer took     *)

gemmVars == <<gemm, grid, gemmReady, gemmGot>>

GemmPasses == (RowsOut + CellRows - 1) \div CellRows
CellRow == 0 .. CellRows - 1

(* Stages from the input of the grid to the accumulators: activ_s0 and the *)
(* four of fp4_mac.                                                        *)
GridStages == 5

GemmInit ==
  /\ gemm = [state |-> "IDLE", pass |-> 0, beat |-> 0, activ |-> <<>>, clear |-> FALSE,
             reduce |-> FALSE, result |-> <<>>, idx |-> 0, buf |-> [r \in CellRow |-> <<>>],
             done |-> FALSE]
  /\ grid = [pipe |-> [s \in 1 .. GridStages |-> <<>>], sum |-> [r \in CellRow |-> <<>>],
             flat |-> [r \in CellRow |-> <<>>], reduced |-> FALSE]
  /\ gemmReady = FALSE /\ gemmGot = [token |-> 0, rows |-> [r \in 0 .. RowsOut - 1 |-> <<>>]]

-----------------------------------------------------------------------------
(* wt_wr_row is cut to the cells' rows and wt_wr_col to their columns, so  *)
(* of a matrix written row by row a cell keeps the last weight.            *)
WeightKept(r) ==
  LET rows == {m \in 0 .. RowsOut - 1 : m % CellRows = r}
  IN IF rows = {} THEN <<>> ELSE <<CHOOSE m \in rows : \A n \in rows : n <= m, GemmBeats - 1>>

(* The activation memory, filled before the start.                         *)
ActivOf(token, beat) == <<token, beat>>

(* The grid: activations go down the pipeline, are accumulated unless the  *)
(* sums are being cleared, and the sums are reduced when asked.            *)
GridEdge ==
  grid' = [pipe |-> << gemm.activ >> \o Front(grid.pipe),
           sum |-> [r \in CellRow |->
                      IF gemm.clear THEN <<>>
                      ELSE grid.sum[r] \o (IF Last(grid.pipe) = <<>> THEN <<>>
                                           ELSE << <<WeightKept(r), Last(grid.pipe)>> >>)],
           flat |-> IF gemm.reduce THEN grid.sum ELSE grid.flat,
           reduced |-> gemm.reduce]

(* Every output register that is a pulse falls at the next edge.           *)
GemmQuiet == [gemm EXCEPT !.activ = <<>>, !.clear = FALSE, !.reduce = FALSE, !.result = <<>>,
                          !.done = FALSE]

GemmIdle(start) ==
  /\ gemm.state = "IDLE"
  /\ gemm' = IF start THEN [GemmQuiet EXCEPT !.pass = 0, !.state = "LOAD_WEIGHTS"] ELSE GemmQuiet

(* Weights are not waited for.                                             *)
GemmLoad ==
  /\ gemm.state = "LOAD_WEIGHTS"
  /\ gemm' = [GemmQuiet EXCEPT !.clear = TRUE, !.beat = 0, !.state = "FEED_BEATS"]

GemmFeed ==
  /\ gemm.state = "FEED_BEATS"
  /\ gemm' = [GemmQuiet EXCEPT
                !.activ = ActivOf(gemmGot.token, gemm.beat),
                !.beat = IF @ = GemmBeats - 1 THEN 0 ELSE @ + 1,
                !.state = IF gemm.beat = GemmBeats - 1 THEN "DRAIN" ELSE @]

(* Mutant: three cycles fewer for the pipeline to run dry.                 *)
GemmDrainShort ==
  /\ gemm.state = "DRAIN"
  /\ gemm' = IF gemm.beat >= 3
             THEN [GemmQuiet EXCEPT !.beat = 0, !.reduce = TRUE, !.state = "REDUCE_WAIT"]
             ELSE [GemmQuiet EXCEPT !.beat = @ + 1]

GemmDrain ==
  /\ gemm.state = "DRAIN"
  /\ gemm' = IF gemm.beat >= 6
             THEN [GemmQuiet EXCEPT !.beat = 0, !.reduce = TRUE, !.state = "REDUCE_WAIT"]
             ELSE [GemmQuiet EXCEPT !.beat = @ + 1]

GemmReduce ==
  /\ gemm.state = "REDUCE_WAIT"
  /\ gemm' = IF grid.reduced THEN [GemmQuiet EXCEPT !.buf = grid.flat, !.idx = 0,
                                                    !.state = "READOUT"]
             ELSE GemmQuiet

(* A row is put out in every cycle; result_ready moves the index on in the *)
(* same cycle, before the consumer can have seen the row.                  *)
GemmReadout ==
  LET row == gemm.pass * CellRows + gemm.idx
      o == [GemmQuiet EXCEPT !.result = <<row, gemm.buf[gemm.idx]>>]
  IN /\ gemm.state = "READOUT"
     /\ gemm' = IF ~gemmReady THEN o
                ELSE IF gemm.idx = CellRows - 1 \/ row = RowsOut - 1
                THEN [o EXCEPT !.state = "NEXT_PASS"]
                ELSE [o EXCEPT !.idx = @ + 1]

GemmNextPass ==
  /\ gemm.state = "NEXT_PASS"
  /\ gemm' = IF gemm.pass = GemmPasses - 1 THEN [GemmQuiet EXCEPT !.done = TRUE, !.state = "DONE"]
             ELSE [GemmQuiet EXCEPT !.pass = @ + 1, !.state = "LOAD_WEIGHTS"]

GemmDone(start) ==
  /\ gemm.state = "DONE"
  /\ gemm' = IF start THEN GemmQuiet ELSE [GemmQuiet EXCEPT !.state = "IDLE"]

(* The consumer takes a row when result_valid meets result_ready.          *)
GemmTaken ==
  IF gemm.result # <<>> /\ gemmReady
  THEN [gemmGot EXCEPT !.rows[gemm.result[1]] = gemm.result[2]] ELSE gemmGot

(* A clock edge.  A vector is in place when its start is seen.             *)
GemmEdge(start, token, ready) ==
  /\ \/ GemmIdle(start) \/ GemmLoad \/ GemmFeed \/ GemmDrain \/ GemmReduce \/ GemmReadout
     \/ GemmNextPass \/ GemmDone(start)
  /\ GridEdge
  /\ gemmReady' = ready
  /\ gemmGot' = IF gemm.state = "IDLE" /\ start
                THEN [token |-> token, rows |-> [r \in 0 .. RowsOut - 1 |-> <<>>]]
                ELSE GemmTaken

GemmNext ==
  \E start, ready \in BOOLEAN, token \in GemmTokens :
    /\ (gemmReady /\ gemm.state # "IDLE") => ready
    /\ ~(gemm.state = "IDLE" /\ start) => token = gemmGot.token
    /\ GemmEdge(start, token, ready)

GemmSpec == GemmInit /\ [][GemmNext]_gemmVars

-----------------------------------------------------------------------------
(* When the engine is done the consumer has every row, and each is the sum *)
(* over this vector's beats, in order and each once, with the weight that  *)
(* its cell keeps: nothing is cut off by the drain, left in the pipeline   *)
(* for the next pass, or lost by the readout.                              *)
GemmRowsWhole ==
  gemm.done =>
    gemmGot.rows = [r \in 0 .. RowsOut - 1 |->
                      [b \in 1 .. GemmBeats |->
                         <<WeightKept(r % CellRows), ActivOf(gemmGot.token, b - 1)>>]]

=============================================================================
