-------------------------------- MODULE References --------------------------------
(***************************************************************************)
(* The reference models the hardware is held against: the expert pipeline  *)
(* (bringup/v2_lite/model/ffn_pipeline.py and its v4_flash copy), with the *)
(* weights it keeps decoded; the caches of the attention models            *)
(* (scripts/simulation/mla_attention_golden.py, mla_attention.py); the     *)
(* golden vectors of the multiplier and the four ways their sums are taken *)
(* (gen_tb_vectors.py, crosscheck_rtl_vs_python.py,                        *)
(* verify_fp4_mac_stages.py, and rtl/dsp/fp4_mac.sv itself); the router's  *)
(* best experts (moe_router_topk_verify.py) and windowed attention         *)
(* (phase2a_sliding_window_model.py).                                      *)
(***************************************************************************)
EXTENDS Numerics, SequencesExt

CONSTANTS
  RefExperts,     (* the routed experts of the pipeline                      *)
  RefTops,        (* top_k of the pipelines                                  *)
  MaxCalls,       (* bound: calls of the pipeline                            *)
  RefSlots,       (* NUM_SLOTS of the golden attention                       *)
  RefWindow,      (* sliding_window; also SLIDING_WINDOW                     *)
  RefGlobal,      (* global_tokens                                           *)
  RefTokens,      (* bound: tokens written, products added, context          *)
  RefScores       (* scores and attention weights to choose from             *)

ASSUME ReferencesAssumption ==
  /\ RefTops \subseteq Nat \ {0} /\ RefTokens \in Nat
  /\ {MaxCalls, RefSlots, RefWindow, RefGlobal} \subseteq Nat \ {0}

VARIABLES
  pipe,           (* an FFNPipeline                                          *)
  golden,         (* the caches: of MLAAttentionRTL, and of MLAAttention     *)
  sums,           (* the accumulators of the four                            *)
  query           (* what is asked of a function                             *)

refVars == <<pipe, golden, sums, query>>

-----------------------------------------------------------------------------
(* FFNPipeline.  Weights are a number, 0 for none.  A kind "list" appends  *)
(* each shared expert that is loaded, "one" replaces it.  stale holds what *)
(* has been written in place since it was decoded.                         *)
FfnPipeInit == pipe \in
  [kind : {"list", "one"}, top : RefTops,
   stored : {[e \in RefExperts |-> 0]}, decoded : {[e \in RefExperts |-> 0]},
   shared : {<<>>}, sharedF : {<<>>}, router : {0}, routerF : {0},
   selected : {<<>>}, out : {<<>>}, stale : {{}}, last : {"none"}, calls : {0}]

Called(f) == /\ pipe.calls < MaxCalls
             /\ pipe' = [f EXCEPT !.calls = @ + 1]
             /\ UNCHANGED <<golden, sums, query>>

Other(v) == IF v = 1 THEN 2 ELSE 1

(* Its decoded copy goes.                                                  *)
LoadExpertWeights == \E e \in RefExperts :
  Called([pipe EXCEPT !.stored[e] = Other(@), !.decoded[e] = 0,
                     !.stale = @ \ {<<"expert", e>>}, !.last = "load"])

LoadSharedExpert ==
  IF pipe.kind = "list"
  THEN Called([pipe EXCEPT !.shared = Append(@, 1), !.sharedF = Append(@, 0), !.last = "load"])
  ELSE Called([pipe EXCEPT !.shared = IF @ = <<>> THEN <<1>> ELSE <<Other(@[1])>>,
                          !.sharedF = <<0>>, !.stale = @ \ {<<"shared", 1>>}, !.last = "load"])

LoadRouterWeights ==
  Called([pipe EXCEPT !.router = Other(@), !.routerF = 0,
                     !.stale = @ \ {<<"router", 0>>}, !.last = "load"])

(* The caller writes into the arrays it handed over: np.asarray keeps them.*)
UpdateInPlace ==
  \/ \E e \in RefExperts :
       /\ pipe.stored[e] # 0
       /\ Called([pipe EXCEPT !.stored[e] = Other(@), !.last = "load", !.stale =
                    IF pipe.decoded[e] # 0 THEN @ \union {<<"expert", e>>} ELSE @])
  \/ \E i \in DOMAIN pipe.shared :
       Called([pipe EXCEPT !.shared[i] = Other(@), !.last = "load", !.stale =
                 IF pipe.sharedF[i] # 0 THEN @ \union {<<"shared", i>>} ELSE @])
  \/ /\ pipe.router # 0
     /\ Called([pipe EXCEPT !.router = Other(@), !.last = "load", !.stale =
                  IF pipe.routerF # 0 THEN @ \union {<<"router", 0>>} ELSE @])

InvalidateCache ==
  Called([pipe EXCEPT !.decoded = [e \in RefExperts |-> 0], !.routerF = 0, !.stale = {},
                     !.sharedF = [i \in DOMAIN @ |-> 0], !.last = "load"])

Loaded == {e \in RefExperts : pipe.stored[e] # 0}

(* _get_shared_f32, _get_expert_f32: decoded once.                         *)
Decoded(copies, weights) ==
  [i \in DOMAIN copies |-> IF copies[i] # 0 THEN copies[i] ELSE weights[i]]

(* Without a router the first experts that are loaded, with one any that   *)
(* the token ranks first, loaded or not.                                   *)
Chosen ==
  IF pipe.router = 0
  THEN LET all == SetToSortSeq(Loaded, <) IN {SubSeq(all, 1, Min({pipe.top, Len(all)}))}
  ELSE {q \in [1 .. pipe.top -> RefExperts] : IsInjective(q)}

(* The experts of a selection in turn: an expert without weights raises,   *)
(* after those before it have been decoded.                                *)
RunExperts(f, chosen) ==
  LET missing == {i \in DOMAIN chosen : f.stored[chosen[i]] = 0}
      reached == IF missing = {} THEN DOMAIN chosen ELSE 1 .. Min(missing) - 1
      decoded == [e \in RefExperts |->
                    IF f.decoded[e] = 0 /\ \E i \in reached : chosen[i] = e
                    THEN f.stored[e] ELSE f.decoded[e]]
  IN IF missing # {}
     THEN [f EXCEPT !.selected = chosen, !.decoded = decoded, !.last = "failed"]
     ELSE [f EXCEPT !.selected = chosen, !.decoded = decoded, !.last = "ok",
                    !.out = <<chosen, [i \in DOMAIN chosen |-> decoded[chosen[i]]],
                              f.sharedF, f.routerF>>]

(* forward.  argpartition raises unless top_k is below the routed experts. *)
Forward ==
  LET shared == [pipe EXCEPT !.sharedF = Decoded(@, pipe.shared)]
      routed == [shared EXCEPT !.routerF = IF @ # 0 THEN @ ELSE pipe.router]
  IN IF pipe.kind = "one" /\ pipe.shared = <<>> THEN Called([pipe EXCEPT !.last = "failed"])
     ELSE IF pipe.router # 0 /\ pipe.top >= Cardinality(RefExperts)
     THEN Called([routed EXCEPT !.last = "failed"])
     ELSE \E chosen \in Chosen : Called(RunExperts(routed, chosen))

(* is_ready.                                                               *)
IsReady == Cardinality(Loaded) >= pipe.top /\ pipe.shared # <<>>

FfnPipeNext ==
  \/ LoadExpertWeights \/ LoadSharedExpert \/ LoadRouterWeights
  \/ UpdateInPlace \/ InvalidateCache \/ Forward

-----------------------------------------------------------------------------
(* The caches: a list that becomes a ring once it is full, and a list cut  *)
(* at its window.  A caller of the second may hand in no cache at all.     *)
GoldenInit == golden = [tokens |-> 0, ring |-> <<>>, ptr |-> 0, list |-> <<>>, since |-> 1]

WriteCache(token) ==
  IF Len(golden.ring) < RefSlots THEN Append(golden.ring, token)
  ELSE [golden.ring EXCEPT ![(golden.ptr % RefSlots) + 1] = token]

KeepWindow(token, cached) ==
  LET grown == Append(golden.list, token)
  IN IF ~cached THEN <<token>>
     ELSE IF RefWindow > 0 /\ Len(grown) > RefWindow
     THEN SubSeq(grown, Len(grown) - RefWindow + 1, Len(grown)) ELSE grown

GoldenNext == \E cached \in BOOLEAN :
  LET token == golden.tokens + 1
  IN /\ token <= RefTokens
     /\ golden' = [tokens |-> token, ring |-> WriteCache(token), ptr |-> golden.ptr + 1,
                   list |-> KeepWindow(token, cached),
                   since |-> IF cached THEN golden.since ELSE token]
     /\ UNCHANGED <<pipe, sums, query>>

-----------------------------------------------------------------------------
(* The sums of products: with the signs looked at (rtl_accum), wrapped     *)
(* (compute_accum), exact and cut off at the end (verify_stage3), and the  *)
(* hardware's.  left: a sum on the way did not fit.                        *)
Top == 2^(AccWidth - 1)

SumsInit == sums = [rtl |-> 0, cross |-> 0, wrap |-> 0, exact |-> 0, left |-> FALSE, n |-> 0,
                    signs |-> {}]

RtlAccum(old, product) ==
  LET sum == Signed(old + product, AccWidth)
  IN IF ~(old < 0) /\ ~(product < 0) /\ sum < 0 THEN Top - 1
     ELSE IF old < 0 /\ product < 0 /\ ~(sum < 0) THEN -Top
     ELSE sum

ComputeAccum(old, product) == Signed(old + product, AccWidth)

SumsNext == \E share \in {-4, -2, -1, 1, 3} :
  LET product == (share * Top) \div 4
      exact == sums.exact + product
  IN /\ sums.n < RefTokens
     /\ sums' = [rtl |-> SatAcc(sums.rtl, product), cross |-> RtlAccum(sums.cross, product),
                 wrap |-> ComputeAccum(sums.wrap, product), exact |-> exact,
                 left |-> sums.left \/ exact < -Top \/ exact >= Top, n |-> sums.n + 1,
                 signs |-> sums.signs \union {product < 0}]
     /\ UNCHANGED <<pipe, golden, query>>

-----------------------------------------------------------------------------
(* A weight times 16, an activation or a scale times 256 as the scripts    *)
(* decode it, and their product, times 4096.                               *)
Fp4Lut == <<0, 4, 8, 12, 16, 24, 32, 48>>

Fp4Decode(code) == (IF code >= 8 THEN -1 ELSE 1) * Fp4Lut[(code % 8) + 1]

Fp8DecodeSigned(code) ==
  LET exp == (code \div 8) % 16
      mant == code % 8
      magnitude == CASE exp = 0 -> mant \div 2
                     [] exp = 1 -> (8 + mant) \div 2
                     [] exp > 1 -> Min({(8 + mant) * 2^(exp - 2), 2047})
  IN IF code >= 128 THEN -magnitude ELSE magnitude

ProductRtl(w, a, s) == (Fp4Decode(w) * Fp8DecodeSigned(a) * Fp8DecodeSigned(s)) \div 256

(* The hardware's: the decoders of fp4_types, a product of 20 bits first.  *)
MacProduct(w, a, s) == (Signed(Fp4Decode(w) * Decode(a), 20) * Decode(s)) \div 256

Terms == (0 .. 15) \X (0 .. 255) \X (0 .. 255)

(* The golden vectors: <<weights, activations, scales>>.                   *)
Same(n, x) == [i \in 1 .. n |-> x]
Unscaled(w, a) == <<w, a, Same(Len(w), 56)>>

UnscaledTests ==
  << Unscaled(<<4>>, <<56>>),
     Unscaled(<<2, 2, 5, 5>>, <<48, 48, 40, 40>>),
     Unscaled(<<0, 1, 2, 3, 4, 5, 6, 7>>, Same(8, 56)),
     Unscaled(<<9, 10, 11, 12, 13, 14, 15>>, Same(7, 56)),
     Unscaled(<<12, 6>>, <<56, 176>>),
     Unscaled(<<0, 8, 4>>, <<56, 56, 0>>),
     Unscaled(<<4, 4, 4>>, <<1, 4, 7>>),
     Unscaled(<<4, 4, 4, 4>>, <<8, 9, 14, 15>>),
     Unscaled(<<4, 4, 4>>, <<72, 79, 80>>),
     Unscaled(Same(32, 7), Same(32, 56)),
     Unscaled(Same(16, 4), Same(16, 56)),
     Unscaled([i \in 1 .. 16 |-> IF i % 2 = 1 THEN 6 ELSE 14], Same(16, 56)),
     Unscaled(Same(8, 4), [i \in 1 .. 8 |-> (i - 1) * 8]) >>

ScaledTests ==
  << <<<<4, 4, 6, 6>>, Same(4, 56), <<64, 48, 64, 48>>>>,
     <<<<2, 3, 12, 10, 6, 4, 2, 1>>, <<1, 7, 6, 5, 4, 3, 2, 1>>,
       <<56, 48, 64, 64, 48, 48, 64, 64>>>>,
     <<<<12, 7, 6, 4>>, <<56, 80, 72, 56>>, Same(4, 0)>>,
     <<<<4, 6, 4, 4>>, Same(4, 56), <<56, 56, 0, 56>>>>,
     <<<<4, 4, 6, 7, 7>>, <<88, 87, 80, 79, 72>>, Same(5, 56)>>,
     <<<<4, 6, 10, 12, 12>>, <<7, 5, 1, 3, 7>>, Same(5, 56)>>,
     <<<<6, 6, 7, 7>>, Same(4, 56), <<1, 7, 1, 7>>>>,
     <<Same(4, 4), Same(4, 56), <<8, 9, 14, 15>>>>,
     <<Same(4, 4), Same(4, 56), <<72, 80, 87, 208>>>>,
     <<Same(4, 6), Same(4, 56), <<184, 192, 56, 192>>>>,
     <<Same(3, 7), Same(3, 0), <<56, 64, 126>>>> >>

GoldenTests == UnscaledTests \o ScaledTests

(* What crosscheck_rtl_vs_python.py expects of the first 19; it has the    *)
(* terms of the last five of them in the other order.                      *)
RtlExpected == <<4096, 5120, 36864, -36864, -8192, 0, 80, 352, 79856, 393216, 65536, 0, 8128,
                 30720, -54, 0, 16384, 272320, 48>>

(* The terms one after another, so that the sum is what the MAC holds:     *)
(* product takes weight, activation and scale.                             *)
SumOfTerms(test, product) ==
  FoldLeftDomain(LAMBDA sum, i : sum + product[<<test[1][i], test[2][i], test[3][i]>>], 0, test[1])

-----------------------------------------------------------------------------
(* rtl_top2_algorithm; six passes, each over those left; and a sort.  A    *)
(* sort leaves equals in any order.                                        *)
ScanBest(scores, from) ==
  FoldLeft(LAMBDA best, e : IF scores[e] > scores[best] THEN e ELSE best, from[1], from)

RtlTop2(scores) ==
  LET best == ScanBest(scores, [i \in DOMAIN scores |-> i])
      rest == SelectSeq([i \in DOMAIN scores |-> i], LAMBDA e : e # best)
  IN <<best, ScanBest(scores, rest)>>

Passes(scores, k) ==
  FoldLeft(LAMBDA st, i :
             LET best == ScanBest(scores, st.left)
             IN [found |-> Append(st.found, best), left |-> Remove(st.left, best)],
           [found |-> <<>>, left |-> [i \in DOMAIN scores |-> i]], [i \in 1 .. k |-> i]).found

PythonTopK(scores, k) ==
  {q \in [1 .. k -> DOMAIN scores] :
     /\ IsInjective(q)
     /\ \A i \in 1 .. k - 1 : scores[q[i]] >= scores[q[i + 1]]
     /\ \A e \in DOMAIN scores \ {q[i] : i \in 1 .. k} : scores[e] <= scores[q[k]]}

(* exp_lut_rtl and softmax_rtl of the golden attention.                    *)
ExpGolden(adj) ==
  CASE adj > -256 -> 4096 [] adj <= -256 /\ adj > -1024 -> 3545
    [] adj <= -1024 /\ adj > -2048 -> 2588 [] adj <= -2048 /\ adj > -4096 -> 1507
    [] adj <= -4096 /\ adj > -8192 -> 538 [] adj <= -8192 -> 48

SoftmaxRtl(scores) ==
  LET top == Max({scores[i] : i \in DOMAIN scores})
      exps == [i \in DOMAIN scores |-> ExpGolden(scores[i] - top)]
  IN [i \in DOMAIN scores |-> (exps[i] * 4096) \div FoldFunction(+, 0, exps)]

(* single_attention_error_trial: the last tokens, and of those before them *)
(* the most important, in an order that noise decides.  The weights of the *)
(* attended are made whole again, and cut to Q12.                          *)
AttendedSets(context) ==
  LET locals == Max({0, context - RefWindow}) + 1 .. context
      others == (1 .. context) \ locals
  IN {locals \union g : g \in kSubset(Min({RefGlobal, Cardinality(others)}), others)}

ProbsQ12(weights, attended) ==
  LET whole == FoldFunctionOnSet(+, 0, weights, attended)
  IN [i \in DOMAIN weights |-> IF i \in attended THEN (weights[i] * 4096) \div whole ELSE 0]

Scores(n) == [1 .. n -> RefScores]

Queries ==
  [kind : {"code"}, code : 0 .. 255] \union [kind : {"test"}, test : DOMAIN GoldenTests]
    \union [kind : {"scores"}, scores : Scores(4)]
    \union [kind : {"attend"}, weights : UNION {Scores(n) : n \in 1 .. RefTokens}]

QueryInit == query = [kind |-> "none"]
QueryNext == query.kind = "none" /\ query' \in Queries /\ UNCHANGED <<pipe, golden, sums>>

RefInit == FfnPipeInit /\ GoldenInit /\ SumsInit /\ QueryInit

RefSpec ==
  RefInit /\ [][FfnPipeNext \/ GoldenNext \/ SumsNext \/ QueryNext]_refVars

-----------------------------------------------------------------------------
(* What forward computes with are the weights it was given last, unless    *)
(* they were written in place and invalidate_cache was not called; it      *)
(* reports the experts it computed with; it fails only without a shared    *)
(* expert or for a router that ranks all, or one that is not loaded; and a *)
(* pipeline that is ready and has no router does not fail.                 *)
PipelineFresh ==
  /\ \A e \in RefExperts :
       pipe.decoded[e] # 0 /\ <<"expert", e>> \notin pipe.stale => pipe.decoded[e] = pipe.stored[e]
  /\ DOMAIN pipe.shared = DOMAIN pipe.sharedF
  /\ \A i \in DOMAIN pipe.shared :
       pipe.sharedF[i] # 0 /\ <<"shared", i>> \notin pipe.stale => pipe.sharedF[i] = pipe.shared[i]
  /\ pipe.last = "ok" =>
       /\ pipe.out[1] = pipe.selected
       /\ pipe.stale = {} =>
            pipe.out = <<pipe.selected, [i \in DOMAIN pipe.selected |-> pipe.stored[pipe.selected[i]]],
                        pipe.shared, pipe.router>>
  /\ pipe.last = "failed" =>
       \/ pipe.kind = "one" /\ pipe.shared = <<>>
       \/ pipe.router # 0 /\ (\/ pipe.top >= Cardinality(RefExperts)
                             \/ \E i \in DOMAIN pipe.selected : pipe.stored[pipe.selected[i]] = 0)
  /\ pipe.last = "failed" /\ IsReady => pipe.router # 0

(* The golden ring holds the last tokens, and so does the list, back to    *)
(* the last token that came without a cache.                               *)
GoldenKeepsLast ==
  /\ Range(golden.ring) = Max({1, golden.tokens - RefSlots + 1}) .. golden.tokens
  /\ golden.tokens > 0 =>
       LET first == Max({golden.since, golden.tokens - RefWindow + 1})
       IN golden.list = [i \in 1 .. golden.tokens - first + 1 |-> first + i - 1]

(* The cross-check accumulates as the hardware does.  The generator of the *)
(* vectors and the stage check do so as long as every sum on the way fits, *)
(* the stage check also when all products have one sign.                   *)
SumsMeet ==
  LET cut == IF sums.exact < -Top THEN -Top ELSE IF sums.exact >= Top THEN Top - 1 ELSE sums.exact
  IN /\ sums.cross = sums.rtl
     /\ ~sums.left => sums.wrap = sums.rtl /\ cut = sums.rtl
     /\ Cardinality(sums.signs) = 1 => cut = sums.rtl

(* A code decodes in the scripts as in the hardware but where its shift    *)
(* does not fit 16 bits, within half a unit of what it stands for unless   *)
(* it is cut off, and every product fits 20 bits.                          *)
CodesMeet(code) ==
  /\ (code \div 8) % 16 <= 13 => Fp8DecodeSigned(code) = Decode(code)
  /\ Abs(Fp8DecodeSigned(code)) < 2047 => Abs(2 * Fp8DecodeSigned(code) - Fp8Value(code)) <= 1
  /\ \A w \in 0 .. 15 :
       /\ Abs(Fp4Decode(w) * Fp8DecodeSigned(code)) < 2^19
       /\ (code \div 8) % 16 <= 13 => ProductRtl(w, code, 56) = MacProduct(w, code, 56)

(* The golden vectors are what the hardware gives, and the first 19 what   *)
(* the cross-check expects; none of them makes a sum that does not fit.    *)
VectorsMeet(i) ==
  LET test == GoldenTests[i]
      rtl == [t \in Terms |-> ProductRtl(t[1], t[2], t[3])]
      mac == [t \in Terms |-> MacProduct(t[1], t[2], t[3])]
  IN /\ SumOfTerms(test, mac) = SumOfTerms(test, rtl)
     /\ i \in DOMAIN RtlExpected => SumOfTerms(test, rtl) = RtlExpected[i]
     /\ \A j \in DOMAIN test[1] : Abs(ProductRtl(test[1][j], test[2][j], test[3][j])) < 2^20

(* The passes find a best selection, the first of equals first, and the    *)
(* scan for two is the first two of them; a better score weighs no less,   *)
(* and what is lost of the whole is less than one for each.                *)
ScoresRank(scores) ==
  LET passes == Passes(scores, 3)
      probs == SoftmaxRtl([i \in DOMAIN scores |-> scores[i] * 300])
  IN /\ passes \in PythonTopK(scores, 3)
     /\ \A i \in 1 .. 2 : scores[passes[i]] = scores[passes[i + 1]] => passes[i] < passes[i + 1]
     /\ RtlTop2(scores) = SubSeq(passes, 1, 2)
     /\ \A i, j \in DOMAIN scores : scores[i] <= scores[j] => probs[i] <= probs[j]
     /\ FoldFunction(+, 0, probs) \in 4096 - Len(scores) + 1 .. 4096

(* Windowed attention is full attention for a context that the window and  *)
(* the global tokens cover, as run_quality_validation takes for granted;   *)
(* beyond it, it attends just as many, each with no less than it had.      *)
WindowCovers(weights) ==
  LET context == Len(weights)
      full == ProbsQ12(weights, 1 .. context)
  IN \A attended \in AttendedSets(context) :
       LET probs == ProbsQ12(weights, attended)
       IN /\ Cardinality(attended) = Min({context, RefWindow + RefGlobal})
          /\ context \in attended
          /\ context <= RefWindow + RefGlobal => probs = full
          /\ \A i \in attended : probs[i] >= full[i]
          /\ FoldFunction(+, 0, probs) <= 4096

ReferencesMeet ==
  /\ PipelineFresh /\ GoldenKeepsLast /\ SumsMeet
  /\ CASE query.kind = "code" -> CodesMeet(query.code)
       [] query.kind = "test" -> VectorsMeet(query.test)
       [] query.kind = "scores" -> ScoresRank(query.scores)
       [] query.kind = "attend" -> WindowCovers(query.weights)
       [] query.kind = "none" -> TRUE

=============================================================================
