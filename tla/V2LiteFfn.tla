-------------------------------- MODULE V2LiteFfn --------------------------------
(***************************************************************************)
(* v2_lite_ffn_engine.v (bringup/v2_lite/rtl) with the memory it reads its *)
(* weights from (axi_sram_sim.sv) and one of two hosts: that of its        *)
(* testbench, which holds its token until the engine is busy and then      *)
(* takes the result, and the self-test of v2_lite_hbm_top.v.               *)
(*                                                                         *)
(* A step is a clock edge.  A vector element is known by the token it is   *)
(* of, a sum by its summands in order, without what each was multiplied    *)
(* by; the weights appear as beats: the matrix and the place in the burst  *)
(* each one was read from.                                                 *)
(***************************************************************************)
EXTENDS Naturals, Sequences

CONSTANTS
  V2Hidden, V2Inter, V2TopK,     (* HIDDEN, INTER, TOP_K                     *)
  V2LoadSizes,    (* beats of a matrix: HIDDEN * INTER / 32                  *)
  V2Burst,        (* beats of a burst: arlen + 1                             *)
  V2Latency,      (* cycles from an address to its first beat: 10            *)
  MacLimit,       (* mac_i, mac_j and activ_wr_ptr stay below: 2 ^ 11        *)
  CntLimit        (* axi_rd_cnt and axi_rd_total stay below: 2 ^ 16          *)

(* The production parameters (2048, 1408, 6) break two of these: mac_j     *)
(* never reaches 2048, and 90112 beats do not fit in axi_rd_total.         *)
ASSUME V2Assumption ==
  /\ V2Hidden \in 1 .. MacLimit - 1 /\ V2Inter \in 1 .. MacLimit - 1 /\ V2TopK \in Nat \ {0}
  /\ V2LoadSizes \subseteq 1 .. CntLimit - 1
  /\ V2Burst \in Nat \ {0} /\ V2Latency \in Nat
  /\ MacLimit \in Nat /\ CntLimit \in Nat

VARIABLES
  ffn2,           (* the registers of the engine                             *)
  sram,           (* the registers of axi_sram_sim                           *)
  host2,          (* which host, what it drives, and what it has counted     *)
  beats2          (* history: the beats taken in this load, and how many a   *)
                  (* load of this behaviour takes                            *)

v2Vars == <<ffn2, sram, host2, beats2>>

(* Tokens are 0 and 1 by turns.                                            *)
NoBenchToken == 2

V2Init ==
  /\ ffn2 = [state |-> "IDLE", loaded |-> FALSE, wr |-> 0,
             activ |-> [j \in 0 .. V2Hidden - 1 |-> NoBenchToken],
             active |-> FALSE, cnt |-> 0, total |-> 0, addr |-> "gate",
             gate |-> [i \in 0 .. V2Inter - 1 |-> <<>>],
             up |-> [i \in 0 .. V2Inter - 1 |-> <<>>],
             result |-> [h \in 0 .. V2Hidden - 1 |-> <<>>],
             i |-> 0, j |-> 0, acc |-> <<>>, silu |-> 0, expert |-> 0]
  /\ sram = [active |-> FALSE, addr |-> "gate", beat |-> 0, left |-> 0, latency |-> 0]
  /\ host2 \in [by : {"bench", "selftest"}, state : {"IDLE"}, rx : {FALSE}, token : {0}]
  /\ beats2 \in [got : {<<>>}, size : V2LoadSizes]

-----------------------------------------------------------------------------
(* The memory: one burst at a time.                                        *)
ArValid2 == ffn2.active /\ ffn2.cnt % V2Burst = 0
RValid2 == sram.active /\ sram.latency = V2Latency
RReady2 == ffn2.active /\ RValid2

SramEdge ==
  sram' = IF ~sram.active
          THEN IF ArValid2 THEN [active |-> TRUE, addr |-> ffn2.addr, beat |-> 0,
                                 left |-> V2Burst, latency |-> 0]
               ELSE sram
          ELSE IF RReady2
          THEN [sram EXCEPT !.beat = @ + 1, !.left = IF @ > 1 THEN @ - 1 ELSE @,
                            !.active = sram.left > 1]
          ELSE [sram EXCEPT !.latency = IF @ < V2Latency THEN @ + 1 ELSE @]

-----------------------------------------------------------------------------
(* S_IDLE: an element of the vector a cycle, while it is offered.          *)
V2Idle ==
  ffn2' = IF ~(host2.rx /\ ~ffn2.loaded) THEN ffn2
          ELSE LET last == ffn2.wr = V2Hidden - 1
               IN [ffn2 EXCEPT !.activ[ffn2.wr] = host2.token,
                               !.wr = IF last THEN 0 ELSE @ + 1, !.loaded = last,
                               !.state = IF last THEN "LOAD_GATE" ELSE @]

LastBeat == ffn2.cnt = ffn2.total - 1

(* A load: its first cycle sets it up, each beat is counted, the last one  *)
(* ends it.  The address stays, so each burst reads the same beats.        *)
LoadMatrix(matrix, done) ==
  IF ~ffn2.active
  THEN [ffn2 EXCEPT !.active = TRUE, !.addr = matrix, !.total = beats2.size, !.cnt = 0]
  ELSE IF ~RReady2 THEN ffn2
  ELSE IF LastBeat THEN done
  ELSE [ffn2 EXCEPT !.cnt = @ + 1]

V2LoadGate == ffn2' = LoadMatrix("gate", [ffn2 EXCEPT !.active = FALSE, !.state = "GATE_COMPUTE"])

LoadThenClear(matrix, next) ==
  LoadMatrix(matrix, [ffn2 EXCEPT !.active = FALSE, !.state = next,
                                  !.i = 0, !.j = 0, !.acc = <<>>])

V2LoadUp == ffn2' = LoadThenClear("up", "UP_COMPUTE")
V2LoadDown == ffn2' = LoadThenClear("down", "DOWN_COMPUTE")

(* The loops of a product: a summand a cycle, then the row is stored.      *)
Summed(x) == [ffn2 EXCEPT !.acc = Append(@, x), !.j = @ + 1]
NextRow(buffers) == [buffers EXCEPT !.acc = <<>>, !.j = 0, !.i = @ + 1]

V2GateCompute ==
  ffn2' = IF ffn2.i = V2Inter THEN [ffn2 EXCEPT !.i = 0, !.state = "SILU"]
          ELSE IF ffn2.j < V2Hidden THEN Summed(ffn2.activ[ffn2.j])
          ELSE NextRow([ffn2 EXCEPT !.gate[ffn2.i] = ffn2.acc])

V2UpCompute ==
  ffn2' = IF ffn2.i = V2Inter THEN [ffn2 EXCEPT !.i = 0, !.state = "MERGE"]
          ELSE IF ffn2.j < V2Hidden THEN Summed(ffn2.activ[ffn2.j])
          ELSE NextRow([ffn2 EXCEPT !.up[ffn2.i] = ffn2.acc])

(* The experts overwrite each other's result: the last one's is given.     *)
V2DownCompute ==
  LET last == ffn2.expert = V2TopK - 1
  IN ffn2' = IF ffn2.i = V2Hidden
             THEN [ffn2 EXCEPT !.i = 0, !.expert = IF last THEN 0 ELSE @ + 1,
                               !.state = IF last THEN "OUTPUT" ELSE "LOAD_GATE"]
             ELSE IF ffn2.j < V2Inter THEN Summed(ffn2.up[ffn2.j])
             ELSE NextRow([ffn2 EXCEPT !.result[ffn2.i] = ffn2.acc])

(* S_SILU looks the high byte of a sum up, in a table that holds each      *)
(* index itself.                                                           *)
HighByte(x) == <<x>>

V2Silu ==
  ffn2' = IF ffn2.silu = V2Inter THEN [ffn2 EXCEPT !.silu = 0, !.state = "LOAD_UP"]
          ELSE [ffn2 EXCEPT !.gate[ffn2.silu] = HighByte(@), !.silu = @ + 1]

(* S_MERGE puts the gate's value in the place of the up product.           *)
V2Merge ==
  ffn2' = IF ffn2.silu = V2Inter THEN [ffn2 EXCEPT !.silu = 0, !.state = "LOAD_DOWN"]
          ELSE [ffn2 EXCEPT !.up[ffn2.silu] = ffn2.gate[ffn2.silu], !.silu = @ + 1]

V2Output(txReady) ==
  ffn2' = IF txReady THEN [ffn2 EXCEPT !.loaded = FALSE, !.state = "IDLE"] ELSE ffn2

V2Fsm(txReady) ==
  CASE ffn2.state = "IDLE"         -> V2Idle
    [] ffn2.state = "LOAD_GATE"    -> V2LoadGate
    [] ffn2.state = "GATE_COMPUTE" -> V2GateCompute
    [] ffn2.state = "SILU"         -> V2Silu
    [] ffn2.state = "LOAD_UP"      -> V2LoadUp
    [] ffn2.state = "UP_COMPUTE"   -> V2UpCompute
    [] ffn2.state = "MERGE"        -> V2Merge
    [] ffn2.state = "LOAD_DOWN"    -> V2LoadDown
    [] ffn2.state = "DOWN_COMPUTE" -> V2DownCompute
    [] ffn2.state = "OUTPUT"       -> V2Output(txReady)

V2Busy == ffn2.state # "IDLE"
V2Done(txReady) == ffn2.state = "OUTPUT" /\ txReady

-----------------------------------------------------------------------------
(* The testbench: the next token is offered at any time and held until the *)
(* engine is busy.                                                         *)
BenchEdge ==
  host2' \in IF host2.rx
             THEN {[host2 EXCEPT !.rx = ~V2Busy]}
             ELSE {host2} \cup IF V2Busy THEN {}
                               ELSE {[host2 EXCEPT !.rx = TRUE, !.token = 1 - @]}

(* The self-test offers its token for one cycle and is ready for the       *)
(* result once the engine is done, which is only when it is ready.         *)
SelfTestEdge(txReady) ==
  host2' = CASE host2.state = "IDLE" -> [host2 EXCEPT !.state = "WAIT"]
             [] host2.state = "WAIT" -> [host2 EXCEPT !.state = "SEND"]
             [] host2.state = "SEND" -> [host2 EXCEPT !.rx = TRUE, !.state = "BUSY"]
             [] host2.state = "BUSY" -> [host2 EXCEPT !.rx = FALSE,
                                                      !.state = IF V2Done(txReady) THEN "CHECK" ELSE @]
             [] OTHER -> host2

V2Edge(txReady) ==
  /\ V2Fsm(txReady) /\ SramEdge
  /\ IF host2.by = "bench" THEN BenchEdge ELSE ~txReady /\ SelfTestEdge(txReady)
  /\ beats2' = IF ~ffn2.active THEN [beats2 EXCEPT !.got = IF ffn2'.active THEN <<>> ELSE @]
               ELSE IF RReady2 THEN [beats2 EXCEPT !.got = Append(@, <<sram.addr, sram.beat>>)]
               ELSE beats2

V2Next == \E txReady \in BOOLEAN : V2Edge(txReady)

(* The testbench takes the result.                                         *)
V2Readily == V2Edge(host2.by = "bench")

V2Spec == V2Init /\ [][V2Next]_v2Vars /\ WF_v2Vars(V2Readily)

-----------------------------------------------------------------------------
(* A product is computed only after as many beats as its matrix has, none  *)
(* lost or taken twice, and when those are whole bursts all of them its    *)
(* own and none left in the memory; and while a result is offered every    *)
(* element of it is made of as many terms as there are intermediate ones,  *)
(* each of them of every element of the token offered last, once, and of   *)
(* no token before it: what each summand was multiplied by is left out.    *)
V2Correct ==
  /\ LET of == CASE ffn2.state = "GATE_COMPUTE" -> "gate" [] ffn2.state = "UP_COMPUTE" -> "up"
                 [] ffn2.state = "DOWN_COMPUTE" -> "down" [] OTHER -> "none"
     IN of # "none" =>
          /\ Len(beats2.got) = beats2.size
          /\ \A n \in 2 .. beats2.size :
               beats2.got[n][2] = (beats2.got[n - 1][2] + 1) % V2Burst
          /\ beats2.size % V2Burst = 0 =>
               ~sram.active /\ \A n \in 1 .. beats2.size : beats2.got[n] = <<of, (n - 1) % V2Burst>>
  /\ ffn2.state = "OUTPUT" =>
       ffn2.result = [h \in 0 .. V2Hidden - 1 |->
         [i \in 1 .. V2Inter |-> HighByte([j \in 1 .. V2Hidden |-> host2.token])]]

(* Every token offered by the testbench is computed if a matrix is whole   *)
(* bursts, or a burst whole matrices (the next load then begins with what  *)
(* the last one left in the memory).  Otherwise the beats left over run    *)
(* out at a count at which no address is given, and the load never ends.   *)
V2Ends ==
  (beats2.size % V2Burst = 0 \/ V2Burst % beats2.size = 0) => []<>(ffn2.state = "IDLE")

=============================================================================
