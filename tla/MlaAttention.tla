----------------------------- MODULE MlaAttention -----------------------------
(***************************************************************************)
(* mla_attention_v2 with its projection, its rotation and its KV cache     *)
(* (rtl/attention/mla_attention_v2.sv, mla_qkv_proj.sv, mla_rope.sv,       *)
(* mla_kv_cache.sv): a token is projected, its query rotated, its latent   *)
(* K/V entered in the cache, and the cache read twice, for the scores and  *)
(* for the weighted sum, over the whole ring or over a sliding window.     *)
(*                                                                         *)
(* A step is a clock edge of all four blocks.  A vector is the token it    *)
(* was computed from, an entry the token or the preload it came from,      *)
(* numbered modulo NumSlots + 1; scores and sums are the lists of entries  *)
(* that went into them.  Entries are preloaded while the block waits for a *)
(* token, as in the testbenches.                                           *)
(***************************************************************************)
EXTENDS MlaKvCache, Sequences

CONSTANTS
  Window,         (* WINDOW_SIZE                                             *)
  AddrSpace,      (* 2^$clog2(NUM_SLOTS)                                     *)
  Hidden,         (* HIDDEN, even                                            *)
  Latent          (* K_LATENT and V_LATENT                                   *)

ASSUME AttentionAssumption ==
  /\ Window \in Nat \ {0} /\ AddrSpace \in Nat /\ NumSlots <= AddrSpace
  /\ Hidden \in Nat \ {0} /\ Latent \in 1 .. Hidden

VARIABLES
  att,            (* the registers of mla_attention_v2                       *)
  qkv,            (* those of mla_qkv_proj                                   *)
  rope,           (* those of mla_rope                                       *)
  attScored,      (* history: entries read by the first pass                 *)
  attSummed,      (* history: entries read by the second pass                *)
  attHist,        (* history: the last NumSlots entries written, in order    *)
  attToken        (* history: number of the next token or preload            *)

attVars == <<att, qkv, rope, attScored, attSummed, attHist, attToken, cacheVars>>

AttInit ==
  /\ att = [state |-> "IDLE", empty |-> FALSE, windowed |-> FALSE, wrAddr |-> 0, base |-> 0,
            count |-> 0, score |-> 0, exp |-> 0, accum |-> 0, entry |-> NoEntry,
            query |-> NoEntry, value |-> NoEntry, valid |-> FALSE]
  /\ qkv = [state |-> "IDLE", idx |-> 0, hidden |-> NoEntry, flat |-> NoEntry, valid |-> FALSE]
  /\ rope = [active |-> FALSE, stage2 |-> FALSE, pair |-> 0, vec |-> NoEntry,
             rot |-> NoEntry, valid |-> FALSE]
  /\ attScored = <<>> /\ attSummed = <<>> /\ attHist = <<>> /\ attToken = 0
  /\ CacheInit

-----------------------------------------------------------------------------
(* mla_qkv_proj.  Its stages, each a cycle per output it computes.         *)
QkvStages == <<"Q", "K", "V", "K_UP", "V_UP", "FLAT">>
QkvCycles == <<Hidden, Latent, Latent, Hidden, Hidden>>

QkvStage(i) ==
  /\ qkv.state = QkvStages[i]
  /\ qkv' = IF qkv.idx = QkvCycles[i] - 1
            THEN [qkv EXCEPT !.state = QkvStages[i + 1], !.idx = IF i = 5 THEN @ ELSE 0,
                             !.valid = FALSE]
            ELSE [qkv EXCEPT !.idx = @ + 1, !.valid = FALSE]

Qkv(inValid) ==
  \/ /\ qkv.state = "IDLE"
     /\ qkv' = IF inValid THEN [qkv EXCEPT !.state = "Q", !.idx = 0, !.hidden = attToken,
                                           !.valid = FALSE]
               ELSE [qkv EXCEPT !.valid = FALSE]
  \/ \E i \in 1 .. 5 : QkvStage(i)
  \/ /\ qkv.state = "FLAT"
     /\ qkv' = [qkv EXCEPT !.state = "OUTPUT", !.flat = qkv.hidden, !.valid = TRUE]
  \/ /\ qkv.state = "OUTPUT"
     /\ qkv' = [qkv EXCEPT !.valid = FALSE,
                           !.state = IF att.state = "QKV_PROJ" THEN "IDLE" ELSE @]

(* mla_rope: two cycles to a pair.  It takes a vector whenever the FSM is  *)
(* in S_ROPE and it is idle, so once more when the FSM takes its result.   *)
Rope ==
  rope' = IF ~rope.active
          THEN IF att.state = "ROPE"
               THEN [rope EXCEPT !.vec = qkv.flat, !.pair = 0, !.active = TRUE,
                                 !.stage2 = FALSE, !.valid = FALSE]
               ELSE [rope EXCEPT !.valid = FALSE]
          ELSE IF ~rope.stage2 THEN [rope EXCEPT !.stage2 = TRUE, !.valid = FALSE]
          ELSE IF rope.pair = Hidden \div 2 - 1
               THEN [rope EXCEPT !.rot = rope.vec, !.valid = TRUE, !.active = FALSE,
                                 !.stage2 = FALSE]
               ELSE [rope EXCEPT !.pair = @ + 1, !.stage2 = FALSE, !.valid = FALSE]

-----------------------------------------------------------------------------
(* The window is in force: its size is less than what the cache holds.     *)
Windowed == att.windowed /\ ringFill > Window

(* Mutant: the window begins one slot late.                                *)
WindowBaseLate ==
  IF att.wrAddr >= Window THEN att.wrAddr - Window + 1 ELSE att.wrAddr + NumSlots - Window

(* window_base, from the slot the token was written to.                    *)
WindowBase ==
  IF att.wrAddr >= Window - 1 THEN att.wrAddr - (Window - 1)
                              ELSE att.wrAddr + NumSlots - (Window - 1)

(* cache_rd_addr: from the base, around the end of the ring.  The sum and  *)
(* NUM_SLOTS have the width of an address.                                 *)
ReadAddr(idx) ==
  LET candidate == (att.base + idx) % AddrSpace
      wrap == NumSlots % AddrSpace
  IN IF ~Windowed THEN idx ELSE IF candidate >= wrap THEN candidate - wrap ELSE candidate

(* A step of the FSM that only goes on; out_valid is a pulse.              *)
GoTo(state) == [att EXCEPT !.state = state, !.valid = FALSE]

NoRead == UNCHANGED <<attScored, attSummed>>

AttIdle(inValid, windowed) ==
  /\ att.state = "IDLE"
  /\ att' = IF inValid THEN [GoTo("QKV_PROJ") EXCEPT !.empty = CacheEmpty, !.windowed = windowed]
                       ELSE GoTo("IDLE")
  /\ IF inValid THEN attScored' = <<>> /\ attSummed' = <<>> ELSE NoRead

AttProject ==
  /\ att.state = "QKV_PROJ"
  /\ att' = IF qkv.valid THEN [GoTo("ROPE") EXCEPT !.query = qkv.flat, !.value = qkv.flat]
                         ELSE GoTo("QKV_PROJ")
  /\ NoRead

AttRotate ==
  /\ att.state = "ROPE"
  /\ att' = IF rope.valid THEN [GoTo("CACHE_WR") EXCEPT !.query = rope.rot] ELSE GoTo("ROPE")
  /\ NoRead

AttCacheWrite ==
  /\ att.state = "CACHE_WR"
  /\ att' = [GoTo("SCORE_INIT") EXCEPT !.wrAddr = ringPtr]
  /\ NoRead

AttScoreInit ==
  /\ att.state = "SCORE_INIT"
  /\ att' = IF att.empty THEN [GoTo("OUTPUT") EXCEPT !.score = 0]
            ELSE [GoTo("CACHE_RD") EXCEPT !.score = 0,
                    !.count = IF Windowed THEN Window ELSE ringFill,
                    !.base = IF Windowed THEN WindowBase ELSE 0]
  /\ NoRead

AttCacheRead ==
  /\ att.state \in {"CACHE_RD", "CACHE_RD2"}
  /\ att' = IF att.state = "CACHE_RD"
            THEN [GoTo("ATTN_SCORE") EXCEPT !.entry = CacheRead(ReadAddr(att.score))]
            ELSE [GoTo("ACCUM_LOOP") EXCEPT !.entry = CacheRead(ReadAddr(att.accum))]
  /\ NoRead

AttScore ==
  /\ att.state = "ATTN_SCORE"
  /\ att' = IF att.score = att.count - 1 THEN [GoTo("EXP_LOOP") EXCEPT !.exp = 0]
            ELSE [GoTo("CACHE_RD") EXCEPT !.score = @ + 1]
  /\ attScored' = Append(attScored, att.entry) /\ UNCHANGED attSummed

AttExp ==
  /\ att.state = "EXP_LOOP"
  /\ att' = IF att.exp = att.count - 1 THEN GoTo("INV") ELSE [GoTo("EXP_LOOP") EXCEPT !.exp = @ + 1]
  /\ NoRead

AttInvert ==
  /\ att.state \in {"INV", "ACCUM_INIT"}
  /\ att' = IF att.state = "INV" THEN [GoTo("ACCUM_INIT") EXCEPT !.accum = 0] ELSE GoTo("CACHE_RD2")
  /\ NoRead

AttAccumulate ==
  /\ att.state = "ACCUM_LOOP"
  /\ att' = IF att.accum = att.count - 1 THEN GoTo("OUTPUT")
            ELSE [GoTo("CACHE_RD2") EXCEPT !.accum = @ + 1]
  /\ attSummed' = Append(attSummed, att.entry) /\ UNCHANGED attScored

AttOutput(outReady) ==
  /\ att.state = "OUTPUT"
  /\ att' = IF outReady THEN [GoTo("IDLE") EXCEPT !.valid = TRUE] ELSE GoTo("OUTPUT")
  /\ NoRead

AttFsm(inValid, windowed, outReady) ==
  \/ AttIdle(inValid, windowed) \/ AttProject \/ AttRotate \/ AttCacheWrite \/ AttScoreInit
  \/ AttCacheRead \/ AttScore \/ AttExp \/ AttInvert \/ AttAccumulate \/ AttOutput(outReady)

-----------------------------------------------------------------------------
LastOf(seq, n) == SubSeq(seq, IF Len(seq) > n THEN Len(seq) - n + 1 ELSE 1, Len(seq))

(* Tokens and preloads as the environment numbers them.                    *)
Arrivals(inValid, preload) ==
  /\ attToken' = IF inValid \/ preload
                 THEN (attToken + 1) % (NumSlots + 1) ELSE attToken
  /\ attHist' = IF att.state = "CACHE_WR" \/ preload
                THEN LastOf(Append(attHist, IF preload THEN attToken ELSE qkv.hidden), NumSlots)
                ELSE attHist

AttEdge(inValid, windowed, outReady, preload) ==
  /\ preload => att.state = "IDLE" /\ ~inValid
  /\ AttFsm(inValid, windowed, outReady) /\ Qkv(inValid) /\ Rope
  /\ CacheEdge(att.state = "CACHE_WR", qkv.flat, preload, attToken)
  /\ Arrivals(inValid, preload)

(* An input is looked at only in the state that reads it.                  *)
AttNext ==
  \E inValid, windowed, outReady, preload \in BOOLEAN :
    /\ inValid => att.state = "IDLE"
    /\ windowed => inValid
    /\ outReady => att.state = "OUTPUT"
    /\ AttEdge(inValid, windowed, outReady, preload)

(* The clock runs and the result is taken sooner or later.                 *)
AttReadily ==
  att.state # "IDLE" /\ AttEdge(FALSE, FALSE, TRUE, FALSE)

AttSpec == AttInit /\ [][AttNext]_attVars /\ WF_attVars(AttReadily)

-----------------------------------------------------------------------------
(* The registers stay in their ranges.                                     *)
AttTypeOK ==
  /\ att.count \in 0 .. NumSlots /\ att.score \in RingSlots /\ att.accum \in RingSlots
  /\ att.base \in RingSlots /\ att.wrAddr \in RingSlots /\ ringPtr \in RingSlots
  /\ rope.pair \in 0 .. Hidden /\ qkv.idx \in 0 .. Hidden - 1
  /\ Len(attScored) <= NumSlots /\ Len(attSummed) <= NumSlots

(* What a token attends to.                                                *)
Attended == IF att.windowed THEN LastOf(attHist, Window) ELSE attHist

(* A result is computed from one token: its own query, value and entry.    *)
(* Both passes read the same entries: the first token none, a later one    *)
(* those written last, itself among them, as many as the window or the     *)
(* ring has, and each of them once.                                        *)
AttendsWindow ==
  att.valid =>
    /\ att.query = att.value /\ att.value = attHist[Len(attHist)]
    /\ attScored = attSummed
    /\ IF att.empty THEN attScored = <<>> /\ Len(attHist) = 1
       ELSE /\ Len(attScored) = Len(Attended)
            /\ \A i \in 1 .. Len(Attended) : \E k \in 1 .. Len(attScored) :
                 attScored[k] = Attended[i]

(* A token that is taken gets its result.                                  *)
TokenEnds == (att.state # "IDLE") ~> att.valid

(* Every token that is taken is attended to over its window, and ends.     *)
AttentionCorrect == [](AttTypeOK /\ AttendsWindow) /\ TokenEnds

=============================================================================
