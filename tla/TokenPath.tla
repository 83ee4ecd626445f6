------------------------------- MODULE TokenPath -------------------------------
(***************************************************************************)
(* The way of a token: token_batch_accumulator (rtl/layer/                 *)
(* token_batch_accumulator.sv), which gathers a batch, and the chain of    *)
(* layers it feeds (rtl/layer/decode_pipeline.sv; the chips of             *)
(* rtl/cluster/cluster_top.sv), each a LayerBox.                           *)
(*                                                                         *)
(* A step is a clock edge.  Tokens are numbered from 1 in the order the    *)
(* accumulator takes them; the host stops after MaxTokens.  pipeline_busy  *)
(* is tied to 0, so out_ready is always up.  Two always_ff blocks drive    *)
(* fifo_wr_ptr: where they differ either may win.  Neither sends it back   *)
(* to 0 for a new batch, and a batch is put out from slot 0: one whose     *)
(* first token found the pointer elsewhere gives what the slots held.      *)
(***************************************************************************)
EXTENDS Naturals, Sequences

CONSTANTS
  MaxBatch, BatchMin, TimeoutCycles,
  Layers,         (* NUM_CHIPS, or 1 in decode_pipeline                      *)
  MaxTokens       (* bound: tokens the host gives between two resets         *)

ASSUME PathAssumption ==
  /\ MaxBatch \in Nat \ {0} /\ BatchMin \in 1 .. MaxBatch /\ TimeoutCycles \in Nat
  /\ Layers \in Nat \ {0} /\ MaxTokens \in Nat

VARIABLES
  acc,            (* the registers of the accumulator                        *)
  fifo,           (* its memory                                              *)
  chain,          (* the layers                                              *)
  pathBatch,      (* history: the tokens taken for the batch at hand         *)
  pathOut,        (* history: how many tokens of it have been put out        *)
  pathAligned,    (* history: every batch since the reset began at slot 0    *)
  pathTokens      (* history: tokens taken since the reset                   *)

pathVars == <<acc, fifo, chain, pathBatch, pathOut, pathAligned, pathTokens>>

FifoSlots == 0 .. MaxBatch - 1

AccReset ==
  [state |-> "IDLE", wr |-> 0, rd |-> 0, count |-> 0, timer |-> 0, valid |-> FALSE, data |-> 0,
   active |-> FALSE, first |-> FALSE, last |-> FALSE, size |-> 0, pos |-> 0]

ChainReset == [n \in 1 .. Layers |-> [state |-> "EMPTY", token |-> 0]]

PathInit ==
  /\ acc = AccReset /\ fifo = [s \in FifoSlots |-> 0] /\ chain = ChainReset
  /\ pathBatch = <<>> /\ pathOut = 0 /\ pathAligned = TRUE /\ pathTokens = 0

-----------------------------------------------------------------------------
AfterSlot(p) == (p + 1) % MaxBatch

(* A token is stored, where the last batch left the pointer.               *)
TakeToken(token) ==
  /\ fifo' = [fifo EXCEPT ![acc.wr] = token]
  /\ pathBatch' = Append(pathBatch, token) /\ pathTokens' = pathTokens + 1

NoNewToken == UNCHANGED <<fifo, pathBatch, pathTokens>>

AccQuiet == [acc EXCEPT !.valid = FALSE, !.first = FALSE, !.last = FALSE]

(* S_IDLE.  fifo_rd_ptr is 0; fifo_wr_ptr is where the last batch left it. *)
AccIdle(give) ==
  /\ acc.state = "IDLE"
  /\ LET empty == [AccQuiet EXCEPT !.rd = 0, !.count = 0, !.timer = 0, !.active = FALSE, !.pos = 0]
     IN IF ~give THEN acc' = empty /\ NoNewToken /\ UNCHANGED <<pathOut, pathAligned>>
        ELSE /\ \E wr \in {AfterSlot(acc.wr), 1 % MaxBatch} :
                  acc' = [empty EXCEPT !.wr = wr, !.count = 1, !.state = "ACCUMULATE"]
             /\ fifo' = [fifo EXCEPT ![acc.wr] = pathTokens + 1]
             /\ pathBatch' = <<pathTokens + 1>> /\ pathTokens' = pathTokens + 1
             /\ pathOut' = 0 /\ pathAligned' = (pathAligned /\ acc.wr = 0)

(* S_ACCUMULATE.  A token taken in the edge that begins the dispatch is    *)
(* dispatched too, and is not in batch_size.                               *)
AccAccumulate(give) ==
  LET taken == give /\ acc.count < MaxBatch
      full == acc.count >= BatchMin \/ acc.timer >= TimeoutCycles
      o == [AccQuiet EXCEPT !.timer = @ + 1, !.wr = IF taken THEN AfterSlot(@) ELSE @,
                            !.count = IF taken THEN @ + 1 ELSE @]
  IN /\ acc.state = "ACCUMULATE"
     /\ acc' = IF full THEN [o EXCEPT !.rd = 0, !.pos = 0, !.size = acc.count, !.active = TRUE,
                                      !.state = "DISPATCH"]
                       ELSE o
     /\ IF taken THEN TakeToken(pathTokens + 1) ELSE NoNewToken
     /\ UNCHANGED <<pathOut, pathAligned>>

(* Mutant: the batch ends at the size latched when its dispatch began.     *)
AccDispatchBySize ==
  /\ acc.state = "DISPATCH"
  /\ acc' = LET o == [acc EXCEPT !.data = fifo[acc.rd], !.valid = TRUE, !.first = (acc.pos = 0),
                                 !.last = (acc.pos = acc.count - 1)]
            IN IF acc.rd = acc.size - 1 THEN [o EXCEPT !.active = FALSE, !.state = "IDLE"]
               ELSE [o EXCEPT !.rd = @ + 1, !.pos = @ + 1]
  /\ pathOut' = pathOut + 1 /\ NoNewToken /\ UNCHANGED pathAligned

(* S_DISPATCH: a token in every cycle.                                     *)
AccDispatch ==
  /\ acc.state = "DISPATCH"
  /\ acc' = LET o == [acc EXCEPT !.data = fifo[acc.rd], !.valid = TRUE, !.first = (acc.pos = 0),
                                 !.last = (acc.pos = acc.count - 1)]
            IN IF acc.rd = acc.count - 1 THEN [o EXCEPT !.active = FALSE, !.state = "IDLE"]
               ELSE [o EXCEPT !.rd = @ + 1, !.pos = @ + 1]
  /\ pathOut' = pathOut + 1 /\ NoNewToken /\ UNCHANGED pathAligned

-----------------------------------------------------------------------------
(* What layer n is offered: the accumulator's token, or the one the layer  *)
(* before it gives.  It is lost unless the layer is empty.                 *)
Offered(n) ==
  IF n = 1 THEN IF acc.valid THEN {acc.data} ELSE {}
  ELSE IF chain[n - 1].state = "GIVING" THEN {chain[n - 1].token} ELSE {}

(* An edge of the layers; those in ends finish their token.                *)
ChainEdge(ends) ==
  chain' = [n \in 1 .. Layers |->
    LET box == chain[n]
    IN IF box.state = "EMPTY" /\ Offered(n) # {}
       THEN [state |-> "BUSY", token |-> CHOOSE t \in Offered(n) : TRUE]
       ELSE IF n \in ends THEN [box EXCEPT !.state = "GIVING"]
       ELSE IF box.state = "GIVING" THEN [state |-> "EMPTY", token |-> 0]
       ELSE box]

BusyLayers == {n \in 1 .. Layers : chain[n].state = "BUSY"}

PathEdge(give, ends) ==
  /\ AccIdle(give) \/ AccAccumulate(give) \/ AccDispatch
  /\ ChainEdge(ends)

PathReset ==
  /\ acc' = AccReset /\ fifo' = [s \in FifoSlots |-> 0] /\ chain' = ChainReset
  /\ pathBatch' = <<>> /\ pathOut' = 0 /\ pathAligned' = TRUE /\ pathTokens' = 0

PathNext ==
  \/ \E give \in BOOLEAN, ends \in SUBSET BusyLayers :
       (give => pathTokens < MaxTokens) /\ PathEdge(give, ends)
  \/ PathReset

PathSpec == PathInit /\ [][PathNext]_pathVars

-----------------------------------------------------------------------------
(* The registers stay in their ranges.                                     *)
PathTypeOK ==
  /\ acc.wr \in FifoSlots /\ acc.rd \in FifoSlots /\ acc.count \in 0 .. MaxBatch
  /\ acc.timer \in 0 .. TimeoutCycles + 1 /\ fifo \in [FifoSlots -> 0 .. MaxTokens]

(* A batch is put out with as many tokens as were taken for it, and        *)
(* batch_last is up with the last of them and no other, a token that slips *)
(* in as the dispatch begins included.  While every batch since the reset  *)
(* found the write pointer at 0 (the first does, and one that follows      *)
(* batches of MAX_BATCH), they are those tokens, in the order they came.   *)
BatchesWhole ==
  /\ acc.state = "IDLE" => pathOut = Len(pathBatch)
  /\ acc.valid =>
       /\ pathOut \in 1 .. Len(pathBatch)
       /\ acc.first <=> pathOut = 1
       /\ acc.last <=> pathOut = Len(pathBatch)
       /\ pathAligned => acc.data = pathBatch[pathOut]

(* No layer hands a token to two others or lets one overtake: as long as   *)
(* the accumulator gives them in order, the tokens in the chain are in the *)
(* order they came in.                                                     *)
ChainInOrder ==
  pathAligned => \A n, k \in 1 .. Layers :
    n < k /\ chain[n].state # "EMPTY" /\ chain[k].state # "EMPTY"
      => chain[n].token > chain[k].token

(* Registers in range, batches whole and the chain in order.               *)
PathCorrect == PathTypeOK /\ BatchesWhole /\ ChainInOrder

(* "Accumulates incoming tokens until BATCH_MIN reached or timeout         *)
(* expires, then dispatches them as a batch"                               *)
(* (token_batch_accumulator.sv:4-5): what is dispatched is them.           *)
DispatchesThem == acc.valid => acc.data = pathBatch[pathOut]

=============================================================================
