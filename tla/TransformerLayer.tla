--------------------------- MODULE TransformerLayer ---------------------------
(***************************************************************************)
(* full_transformer_layer (rtl/layer/full_transformer_layer.sv) with       *)
(* router_topk (rtl/moe/router_topk.sv), rms_norm (rtl/activation/         *)
(* rms_norm.sv) and the expert engine: a token is normalised, attends, is  *)
(* normalised again, routed, run through TOP_K experts in turn, weighted,  *)
(* and normalised a last time.                                             *)
(*                                                                         *)
(* A step is a clock edge of all blocks.  A vector is the token it was     *)
(* computed from.  The scores the router computes for a token are chosen   *)
(* from a small set; attention, which MlaAttention details, takes a number *)
(* of cycles out of a small set.                                           *)
(***************************************************************************)
EXTENDS ExpertFfn, Integers, FiniteSets

CONSTANTS
  Experts,        (* NUM_EXPERTS                                             *)
  TopK,           (* TOP_K                                                   *)
  RouterPairs,    (* HIDDEN / 2                                              *)
  NormCycles,     (* states of rms_norm between its input and its output     *)
  AttnCycles,     (* cycles attention may take                               *)
  LayTokens,      (* numbers of the tokens                                   *)
  NoToken,        (* what a register holds before the first one              *)
  ScoreTables,    (* the scores of a token: functions of the experts, Q24    *)
  ScoreLimit,     (* 2 ^ 31: what a kept score of 32 bits with a sign is below *)
  SelLimit,       (* 2 ^ $clog2(FFN_EXPERTS): the experts the engine can name  *)
  LocalExperts    (* cfg_local_experts: the experts said to be on this chip    *)

ASSUME LayerAssumption ==
  /\ Experts \in Nat \ {0} /\ TopK \in 1 .. Experts
  /\ RouterPairs \in Nat \ {0} /\ NormCycles \in Nat \ {0}
  /\ AttnCycles \subseteq Nat \ {0} /\ NoToken \notin LayTokens
  /\ ScoreTables \subseteq [0 .. Experts - 1 -> Int]
  /\ ScoreLimit \in Nat \ {0} /\ SelLimit \in Nat \ {0}
  /\ LocalExperts \subseteq 0 .. Experts - 1

VARIABLES
  lay,            (* the registers of the layer                              *)
  norm,           (* those of the three rms_norms                            *)
  attn,           (* the attention block                                     *)
  rtr,            (* the registers of the router                             *)
  ffo,            (* the rows the expert engine has given                    *)
  rtrOk,          (* rtr_ok: the best expert is on this chip                 *)
  layTaken        (* history: the token taken last and its scores            *)

layVars == <<lay, norm, attn, rtr, ffo, rtrOk, layTaken, ffnVars>>

(* A block with a pulse in and a pulse out: token, cycles left, output.    *)
NewBlock == [token |-> NoToken, left |-> 0, out |-> NoToken, valid |-> FALSE]

LayInit ==
  /\ lay = [state |-> "IDLE", normIn |-> <<NoToken, NoToken, NoToken>>,
            normStart |-> 0, attnStart |-> FALSE, rtrStart |-> FALSE,
            write |-> {}, ffnStart |-> FALSE, beat |-> 0, k |-> 0, expert |-> 0,
            weight |-> [k \in 0 .. TopK - 1 |-> 0], acc |-> <<>>, valid |-> FALSE, y |-> <<>>]
  /\ norm = [n \in 1 .. 3 |-> NewBlock] /\ attn = NewBlock
  /\ rtr = [state |-> "IDLE", expert |-> 0, pair |-> 0, token |-> NoToken, round |-> 0,
            taken |-> {}, top |-> [k \in 0 .. TopK - 1 |-> 0],
            score |-> [k \in 0 .. TopK - 1 |-> 0]]
  /\ ffo = [r \in 0 .. HiddenBeats - 1 |-> <<>>]
  /\ rtrOk = FALSE                    (* no reset: no one reads it before it is set *)
  /\ layTaken = [token |-> NoToken, scores |-> [e \in 0 .. Experts - 1 |-> 0]]
  /\ FfnInit

-----------------------------------------------------------------------------
(* rms_norm, and attention: a block takes a pulse when it is idle and      *)
(* gives one when it is through.                                           *)
BlockEdge(b, start, token, cycles) ==
  IF b.left = 0
  THEN IF start THEN [b EXCEPT !.token = token, !.left = cycles, !.valid = FALSE]
                ELSE [b EXCEPT !.valid = FALSE]
  ELSE [b EXCEPT !.left = @ - 1, !.valid = (b.left = 1),
                 !.out = IF b.left = 1 THEN b.token ELSE @]

(* The expert sel_best_idx names: the best not taken, the first of equals. *)
Best(scores, taken) ==
  LET left == DOMAIN scores \ taken
      best == {e \in left : \A f \in left : scores[f] <= scores[e]}
  IN CHOOSE e \in best : \A f \in best : e <= f

(* What the router keeps of a score of 64 bits: its lower 32, with a sign. *)
ScoreKept(s) == ((s + ScoreLimit) % (2 * ScoreLimit)) - ScoreLimit

(* router_topk.                                                            *)
RouterEdge ==
  rtr' = CASE rtr.state = "IDLE" ->
                IF lay.rtrStart THEN [rtr EXCEPT !.token = norm[2].out, !.state = "LATCH"]
                ELSE rtr
           [] rtr.state = "LATCH" ->
                [rtr EXCEPT !.expert = 0, !.pair = 0, !.state = "COMPUTE"]
           [] rtr.state = "COMPUTE" ->
                IF rtr.pair < RouterPairs - 1 THEN [rtr EXCEPT !.pair = @ + 1]
                ELSE IF rtr.expert < Experts - 1 THEN [rtr EXCEPT !.pair = 0, !.expert = @ + 1]
                ELSE [rtr EXCEPT !.pair = 0, !.expert = 0, !.round = 0, !.taken = {},
                                 !.state = "SELECT"]
           [] rtr.state = "SELECT" ->
                LET e == Best(layTaken.scores, rtr.taken)
                IN [rtr EXCEPT !.top[rtr.round] = e, !.taken = @ \cup {e},
                               !.score[rtr.round] = ScoreKept(layTaken.scores[e]),
                               !.round = IF @ = TopK - 1 THEN @ ELSE @ + 1,
                               !.state = IF rtr.round = TopK - 1 THEN "OUTPUT" ELSE @]
           [] rtr.state = "OUTPUT" -> [rtr EXCEPT !.state = "IDLE"]

-----------------------------------------------------------------------------
(* moe_exp_lut.  Its argument is declared without a sign, so each          *)
(* comparison is of unsigned numbers: one that is not negative is below    *)
(* every bound.                                                            *)
Above(adj, bound) == adj < 0 /\ adj > bound

ExpBounds == <<-256, -1024, -2048, -4096, -8192>>
ExpValues == <<4096, 3545, 2588, 1507, 538, 48>>

ExpLut(adj) == ExpValues[1 + Cardinality({i \in 1 .. 5 : ~Above(adj, ExpBounds[i])})]

(* moe_sw_weight: the scores in Q12, their exponentials, normalised.       *)
MoeWeights ==
  LET q12 == [k \in DOMAIN rtr.score |-> rtr.score[k] \div 4096]
      top == CHOOSE m \in {q12[k] : k \in DOMAIN q12} : \A k \in DOMAIN q12 : q12[k] <= m
      exp == [k \in DOMAIN q12 |-> ExpLut(q12[k] - top)]
      sum == FoldFunction(+, 0, exp)
  IN [k \in DOMAIN exp |-> (exp[k] * 4096) \div sum]

(* Everything that is a pulse falls at the next edge.                      *)
Quiet == [lay EXCEPT !.normStart = 0, !.attnStart = FALSE, !.rtrStart = FALSE,
                     !.write = {}, !.ffnStart = FALSE, !.valid = FALSE]

(* ffn_expert_sel_int: the expert engine gets as many bits of the router's *)
(* expert as it has for its own.                                           *)
EngineOf(e) == e % SelLimit

(* The activation of the expert engine for a beat of the routed token.     *)
Activ(beat) == <<norm[2].out, beat>>

LayIdle(offer) ==
  /\ lay.state = "IDLE"
  /\ lay' = IF offer = {} THEN Quiet
            ELSE [Quiet EXCEPT !.normIn[1] = CHOOSE t \in offer : TRUE, !.normStart = 1,
                               !.state = "R1"]

LayAttend ==
  \/ /\ lay.state = "R1"
     /\ lay' = IF norm[1].valid THEN [Quiet EXCEPT !.attnStart = TRUE, !.state = "ATTN"]
                                ELSE Quiet
  \/ /\ lay.state = "ATTN"
     /\ lay' = IF attn.valid THEN [Quiet EXCEPT !.normIn[2] = attn.out, !.normStart = 2,
                                                !.state = "R2"]
                             ELSE Quiet
  \/ /\ lay.state = "R2"
     /\ lay' = IF norm[2].valid THEN [Quiet EXCEPT !.rtrStart = TRUE, !.state = "RTR"]
                                ELSE Quiet

LayRoute ==
  /\ lay.state = "RTR"
  /\ lay' = IF rtr.state # "OUTPUT" THEN Quiet
            ELSE [Quiet EXCEPT !.weight = MoeWeights, !.k = 0, !.acc = <<>>,
                               !.expert = EngineOf(rtr.top[0]), !.beat = 0,
                               !.write = {<<0, Activ(0)>>}, !.state = "FFN_LD"]

(* Mutant: the expert engine is not started.                               *)
LayLoadNoStart ==
  /\ lay.state = "FFN_LD"
  /\ lay' = [Quiet EXCEPT !.write = {<<lay.beat + 1, Activ(lay.beat + 1)>>},
               !.beat = IF lay.beat + 1 >= HiddenBeats - 1 THEN @ ELSE @ + 1,
               !.state = IF lay.beat + 1 >= HiddenBeats - 1 THEN "FFN" ELSE @]

LayLoad ==
  /\ lay.state = "FFN_LD"
  /\ lay' = [Quiet EXCEPT !.write = {<<lay.beat + 1, Activ(lay.beat + 1)>>},
               !.ffnStart = (lay.beat + 1 >= HiddenBeats - 1),
               !.beat = IF lay.beat + 1 >= HiddenBeats - 1 THEN @ ELSE @ + 1,
               !.state = IF lay.beat + 1 >= HiddenBeats - 1 THEN "FFN" ELSE @]

LayExpert ==
  /\ lay.state = "FFN"
  /\ lay' = IF ffn.done THEN [Quiet EXCEPT !.state = "MOE_ACCUM"] ELSE Quiet

(* Mutant: the next expert's number is taken before moe_idx has moved.     *)
LayAccumulateSameExpert ==
  LET sum == Append(lay.acc, <<lay.weight[lay.k], ffo>>)
  IN /\ lay.state = "MOE_ACCUM"
     /\ lay' = IF lay.k < TopK - 1
               THEN [Quiet EXCEPT !.acc = sum, !.k = @ + 1,
                                  !.expert = EngineOf(rtr.top[lay.k]),
                                  !.ffnStart = TRUE, !.state = "FFN"]
               ELSE [Quiet EXCEPT !.normIn[3] = sum, !.normStart = 3, !.state = "R3"]

LayAccumulate ==
  LET sum == Append(lay.acc, <<lay.weight[lay.k], ffo>>)
  IN /\ lay.state = "MOE_ACCUM"
     /\ lay' = IF lay.k < TopK - 1
               THEN [Quiet EXCEPT !.acc = sum, !.k = @ + 1,
                                  !.expert = EngineOf(rtr.top[lay.k + 1]),
                                  !.ffnStart = TRUE, !.state = "FFN"]
               ELSE [Quiet EXCEPT !.normIn[3] = sum, !.normStart = 3, !.state = "R3"]

LayOutput ==
  \/ /\ lay.state = "R3"
     /\ lay' = IF norm[3].valid THEN [Quiet EXCEPT !.y = norm[3].out, !.valid = TRUE,
                                                   !.state = "OUT"]
                                ELSE Quiet
  \/ /\ lay.state = "OUT"
     /\ lay' = [Quiet EXCEPT !.state = "IDLE"]

(* A clock edge with the token offered to the layer, {} or a singleton;    *)
(* scores and cycles matter only for a token that is taken.                *)
LayEdge(offer, scores, cycles) ==
  /\ \/ LayIdle(offer) \/ LayAttend \/ LayRoute \/ LayLoad \/ LayExpert \/ LayAccumulate
     \/ LayOutput
  /\ norm' = [n \in 1 .. 3 |->
                BlockEdge(norm[n], lay.normStart = n, lay.normIn[n], NormCycles)]
  /\ attn' = BlockEdge(attn, lay.attnStart, norm[1].out, cycles)
  /\ RouterEdge
  /\ ffo' = Collected(ffo, down.result)
  /\ rtrOk' = IF lay.state = "RTR" /\ rtr.state = "OUTPUT" THEN rtr.top[0] \in LocalExperts
              ELSE rtrOk
  /\ FfnEdge(lay.ffnStart, lay.expert, lay.write)
  /\ layTaken' = IF lay.state = "IDLE" /\ offer # {}
                 THEN [token |-> CHOOSE t \in offer : TRUE, scores |-> scores] ELSE layTaken

LayNext ==
  \/ /\ lay.state = "IDLE"
     /\ \E offer \in {{}} \cup {{t} : t \in LayTokens}, s \in ScoreTables :
          LayEdge(offer, s, 1)
  \/ /\ lay.state # "IDLE"
     /\ \E c \in AttnCycles : LayEdge({}, layTaken.scores, c)

LaySpec == LayInit /\ [][LayNext]_layVars /\ WF_layVars(LayNext)

-----------------------------------------------------------------------------
(* The registers stay in their ranges.                                     *)
LayTypeOK ==
  /\ lay.state \in {"IDLE", "R1", "ATTN", "R2", "RTR", "FFN_LD", "FFN", "MOE_ACCUM", "R3",
                    "OUT"}
  /\ lay.expert \in 0 .. SelLimit - 1 /\ lay.k \in 0 .. TopK - 1
  /\ rtr.top \in [0 .. TopK - 1 -> 0 .. Experts - 1]
  /\ \A e \in {gate, up, down} : e.array \in {"IDLE", "RUN", "DRAIN", "OUTPUT", "DONE"}

(* What the layer puts out for a token: the router picks TOP_K different  *)
(* experts, none with a lower score than one passed over, in order; under  *)
(* the weight of each come all rows of the FFN of the engine's expert its  *)
(* number is cut to, on this token: each product once, none of another     *)
(* expert's, another token's, or left over from a row before; and          *)
(* router_ok says whether the best is here.  Two picks that the cut makes  *)
(* one are weighed twice, as the layer does: with as many experts in the   *)
(* engine as the router has, the cut is none.                              *)
LayerComputes ==
  lay.valid =>
    \E pick \in [1 .. TopK -> 0 .. Experts - 1] :
      /\ \A i \in 1 .. TopK : \A f \in (0 .. Experts - 1) \ {pick[j] : j \in 1 .. i} :
           layTaken.scores[f] <= layTaken.scores[pick[i]]
      /\ \A i, j \in 1 .. TopK : pick[i] = pick[j] => i = j
      /\ lay.y = [i \in 1 .. TopK |->
                   <<lay.weight[i - 1],
                     [r \in 0 .. HiddenBeats - 1 |->
                        ExpertRow(EngineOf(pick[i]), r,
                                  [b \in 0 .. HiddenBeats - 1 |-> <<layTaken.token, b>>])]>>]
      /\ rtrOk <=> pick[1] \in LocalExperts

(* The layer is a box that takes a token when it is empty and gives each   *)
(* one it took back once, before it takes another, and always does.        *)
Box == INSTANCE LayerBox WITH
         BoxTokens <- LayTokens,
         boxState <- CASE lay.state = "IDLE" -> "EMPTY" [] lay.state = "OUT" -> "GIVING"
                       [] lay.state \notin {"IDLE", "OUT"} -> "BUSY",
         boxToken <- IF lay.state = "IDLE" THEN {} ELSE {layTaken.token}

IsALayerBox == Box!BoxSpec

(* Registers in range and the layer's result, at every clock edge.         *)
LayerCorrect == LayTypeOK /\ LayerComputes

=============================================================================
