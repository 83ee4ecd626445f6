----------------------------- MODULE PrefillOverlap -----------------------------
(***************************************************************************)
(* ConcurrentScheduler (scripts/prefill/scheduler.py): the CPU prefills a  *)
(* prompt chunk by chunk into one of two KV buffers while the FPGA decodes *)
(* out of the other; they are swapped when the one is dry and the other    *)
(* ready.                                                                  *)
(*                                                                         *)
(* A step is a pass of the loop of run().  Latencies, the DMA engine (busy *)
(* only inside a call) and the event log are left out.                     *)
(***************************************************************************)
EXTENDS Naturals

CONSTANTS
  ChunkSize,      (* cpu_chunk_size                                          *)
  BufferSlots,    (* kv_slots_per_buffer                                     *)
  MaxPrompt, MaxDecode      (* bounds: the lengths run() is called with      *)

(* 2048 slots and chunks of 128 in the code; two chunks can meet in a      *)
(* buffer, see OverlapKeepsEntries.                                        *)
ASSUME OverlapAssumption ==
  /\ ChunkSize \in Nat \ {0} /\ BufferSlots \in Nat /\ BufferSlots >= 2 * ChunkSize
  /\ MaxPrompt \in Nat /\ MaxDecode \in Nat

VARIABLES
  overlap,        (* what run() keeps: state, the two buffers, active_buf,   *)
                  (* remaining_prefill, remaining_decode, stall_count        *)
  overlapSeen     (* history: prompt and decode lengths asked for, entries   *)
                  (* decoded, and whether the loop gave up the decode        *)

overlapVars == <<overlap, overlapSeen>>

Smaller(m, n) == IF m < n THEN m ELSE n

Fill(buf, n) == [tokens |-> Smaller(BufferSlots, buf.tokens + n), ready |-> TRUE]

Consume(buf, n) == [tokens |-> buf.tokens - n, ready |-> buf.ready /\ buf.tokens > n]

OtherBuf(b) == IF b = "A" THEN "B" ELSE "A"

(* Phase 1: the first chunk goes to buffer A.                              *)
OverlapInit ==
  \E prompt \in 0 .. MaxPrompt, decode \in 0 .. MaxDecode :
    LET first == Smaller(ChunkSize, prompt)
        empty == [tokens |-> 0, ready |-> FALSE]
    IN /\ overlap = [state |-> "STEADY", active |-> "A",
                     buf |-> [b \in {"A", "B"} |-> IF b = "A" THEN Fill(empty, first) ELSE empty],
                     prefill |-> prompt - first, decode |-> decode, stall |-> 0]
       /\ overlapSeen = [prompt |-> prompt, decode |-> decode, decoded |-> 0, gaveUp |-> FALSE]

(* The CPU's half of a pass: the next chunk goes to the idle buffer.       *)
PrefillChunk(o) ==
  LET chunk == Smaller(ChunkSize, o.prefill)
  IN IF o.prefill = 0 THEN o
     ELSE [o EXCEPT !.prefill = @ - chunk, !.buf[OtherBuf(o.active)] = Fill(@, chunk)]

SwapBuffers(o) ==
  IF o.buf[OtherBuf(o.active)].ready /\ o.buf[o.active].tokens = 0
  THEN [o EXCEPT !.active = OtherBuf(@)] ELSE o

(* Nothing is left to do, or the eleventh pass without progress.           *)
LoopEnds == (overlap.prefill = 0 /\ overlap.decode = 0) \/ overlap.stall > 10

(* A pass of the loop.  The test for the end of the decode looks at the    *)
(* buffer that was idle before the swap.                                   *)
OverlapPass ==
  LET filled == PrefillChunk(overlap)
      swapped == IF filled.decode = 0 THEN filled ELSE SwapBuffers(filled)
      n == Smaller(swapped.decode, swapped.buf[swapped.active].tokens)
      decoded == [swapped EXCEPT !.buf[swapped.active] = IF n = 0 THEN @ ELSE Consume(@, n),
                                 !.decode = @ - n]
      dry == /\ filled.decode > 0
             /\ decoded.buf[decoded.active].tokens = 0
             /\ ~decoded.buf[OtherBuf(filled.active)].ready
             /\ decoded.prefill = 0
      progress == overlap.prefill > 0 \/ n > 0 \/ dry
      after == [decoded EXCEPT !.decode = IF dry THEN 0 ELSE @,
                               !.stall = IF progress THEN 0 ELSE @ + 1]
  IN /\ overlap.state = "STEADY" /\ ~LoopEnds
     /\ overlap' = after
     /\ overlapSeen' = [overlapSeen EXCEPT !.decoded = @ + n,
                                           !.gaveUp = dry /\ decoded.decode > 0]

(* Phase 3.                                                                *)
OverlapEnd ==
  /\ overlap.state = "STEADY" /\ LoopEnds
  /\ overlap' = [overlap EXCEPT !.state = "IDLE"] /\ UNCHANGED overlapSeen

OverlapNext == OverlapPass \/ OverlapEnd

OverlapSpec == OverlapInit /\ [][OverlapNext]_overlapVars

-----------------------------------------------------------------------------
(* No entry gets lost between the CPU and the FPGA: while tokens are left  *)
(* to decode, those prefilled are decoded or wait in a buffer, however     *)
(* chunks, swaps and decoding interleave; the loop never passes without    *)
(* progress, and it gives up the decode only when every entry of the       *)
(* prompt has been used.                                                   *)
OverlapKeepsEntries ==
  /\ overlap.stall = 0
  /\ overlap.decode > 0 =>
       overlapSeen.prompt - overlap.prefill
         = overlapSeen.decoded + overlap.buf["A"].tokens + overlap.buf["B"].tokens
  /\ overlapSeen.gaveUp => overlapSeen.decoded = overlapSeen.prompt
  /\ overlap.state = "IDLE" => overlap.prefill = 0
                            /\ overlapSeen.decoded = Smaller(overlapSeen.prompt, overlapSeen.decode)

=============================================================================
