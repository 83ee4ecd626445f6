---------------------------------- MODULE Mtp ----------------------------------
(***************************************************************************)
(* Multi-token prediction (rtl/head/mtp_head.sv, rtl/head/mtp_verify.sv):  *)
(* heads that run over the vocabulary one entry a cycle and keep the best  *)
(* one each, and the comparison of their predictions with the target's     *)
(* token, connected as in rtl/sim/tb_mtp_speculative_decode.sv.            *)
(*                                                                         *)
(* A step is a clock edge.  The dot products of a hidden state are chosen  *)
(* from small sets, a table of the vocabulary for each head.               *)
(***************************************************************************)
EXTENDS Integers, FiniteSets

CONSTANTS
  Heads,          (* N_HEADS                                                 *)
  Vocab,          (* VOCAB                                                   *)
  Dots            (* the dot products, in DATA_W bits                        *)

ASSUME MtpAssumption == Heads \in Nat \ {0} /\ Vocab \in Nat \ {0, 1} /\ Dots \subseteq Int

VARIABLES
  head,           (* the registers of mtp_head                               *)
  verify,         (* the registers of mtp_verify                             *)
  mtpDots         (* the dot products of the hidden state taken last         *)

mtpVars == <<head, verify, mtpDots>>

MinWord == -(2 ^ 30)        (* stands for 32'sh80000000: below every dot product *)

HeadSet == 0 .. Heads - 1

MtpInit ==
  /\ head = [state |-> "IDLE", idx |-> 0, best |-> [h \in HeadSet |-> MinWord],
             token |-> [h \in HeadSet |-> 0], ids |-> [h \in HeadSet |-> 0],
             logprobs |-> [h \in HeadSet |-> 0], valid |-> FALSE]
  /\ verify = [valid |-> FALSE, mask |-> {}, correct |-> 0]
  /\ mtpDots = [h \in HeadSet |-> [v \in 0 .. Vocab - 1 |-> 0]]

-----------------------------------------------------------------------------
(* The heads that find the entry at hand better than their best.           *)
Better == {h \in HeadSet : mtpDots[h][head.idx] > head.best[h]}

HeadIdle(inValid) ==
  /\ head.state = "IDLE"
  /\ IF inValid
     THEN /\ mtpDots' \in [HeadSet -> [0 .. Vocab - 1 -> Dots]]
          /\ head' = [head EXCEPT !.idx = 0, !.best = [h \in HeadSet |-> MinWord],
                        !.token = [h \in HeadSet |-> 0], !.state = "COMPUTE", !.valid = FALSE]
     ELSE head' = [head EXCEPT !.valid = FALSE] /\ UNCHANGED mtpDots

(* The last entry's edge copies the best out before it is compared.        *)
HeadCompute ==
  LET kept == [head EXCEPT
                 !.best = [h \in HeadSet |-> IF h \in Better THEN mtpDots[h][head.idx] ELSE @[h]],
                 !.token = [h \in HeadSet |-> IF h \in Better THEN head.idx ELSE @[h]]]
  IN /\ head.state = "COMPUTE"
     /\ head' = IF head.idx < Vocab - 1 THEN [kept EXCEPT !.idx = @ + 1, !.valid = FALSE]
                ELSE [kept EXCEPT !.ids = head.token, !.logprobs = head.best, !.valid = TRUE,
                                  !.state = "DONE"]
     /\ UNCHANGED mtpDots

HeadDone ==
  /\ head.state = "DONE"
  /\ head' = [head EXCEPT !.state = "IDLE", !.valid = FALSE] /\ UNCHANGED mtpDots

(* match_mask_r; count and all_correct follow it without a clock.          *)
Matches(target) == {h \in HeadSet : head.ids[h] = target}

Verify(targetValid, target) ==
  verify' = IF head.valid /\ targetValid
            THEN [valid |-> TRUE, mask |-> Matches(target),
                  correct |-> Cardinality(Matches(target))]
            ELSE [verify EXCEPT !.valid = FALSE]

MtpNext ==
  \E inValid, targetValid \in BOOLEAN, target \in 0 .. Vocab - 1 :
    /\ HeadIdle(inValid) \/ HeadCompute \/ HeadDone
    /\ Verify(targetValid, target)

MtpSpec == MtpInit /\ [][MtpNext]_mtpVars

-----------------------------------------------------------------------------
(* The dot product a head puts out is that of the entry it predicts, for   *)
(* the hidden state taken last; no entry but the last, which is not yet    *)
(* compared when the result is copied, has a higher one, and none with as  *)
(* high a one comes before it.                                             *)
HeadPredictsBest ==
  head.valid => \A h \in HeadSet :
     /\ head.logprobs[h] = mtpDots[h][head.ids[h]]
     /\ \A v \in 0 .. Vocab - 2 :
          /\ mtpDots[h][v] <= head.logprobs[h]
          /\ mtpDots[h][v] = head.logprobs[h] => head.ids[h] <= v

=============================================================================
