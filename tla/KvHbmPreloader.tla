---------------------------- MODULE KvHbmPreloader ----------------------------
(***************************************************************************)
(* kv_hbm_preloader (rtl/chip/kv_hbm_preloader.sv) and the mla_kv_cache it *)
(* fills, connected as in rtl/sim/tb_kv_hbm_path.sv: reads KV entries from *)
(* the HBM bank, a beat per cycle, gathers each in entry_buf and pulses    *)
(* preload_en for it.                                                      *)
(*                                                                         *)
(* A step is a clock edge; an operator per always_ff block.  Addresses are *)
(* counted in entries and beats.  A beat is the place it was read from:    *)
(* the bank does not change meanwhile (KvDmaBridge's ReadBankStable).      *)
(***************************************************************************)
EXTENDS MlaKvCache

CONSTANTS
  PreBeats,       (* BEATS_PER_ENTRY                                         *)
  PreEntries,     (* entries in the bank                                     *)
  NoBeat          (* entry_buf after reset                                   *)

ASSUME PreloadAssumption == PreBeats \in Nat \ {0} /\ PreEntries \in Nat \ {0}

VARIABLES
  preState,       (* state                                                   *)
  preBase,        (* base_addr_r                                             *)
  preRemain,      (* remain                                                  *)
  preIdx,         (* entry_idx                                               *)
  preBeat,        (* beat_cnt                                                *)
  preBuf,         (* entry_buf                                               *)
  preReady,       (* entry_ready                                             *)
  preDone,        (* done                                                    *)
  preJob          (* history: the start in progress                          *)

preVars == <<preState, preBase, preRemain, preIdx, preBeat, preBuf, preReady, preDone,
             preJob>>

PreJobs == {j \in [base : 0 .. PreEntries - 1, num : 1 .. PreEntries] :
              j.base + j.num <= PreEntries}

PreInit ==
  /\ preState = "IDLE" /\ preBase = 0 /\ preRemain = 0 /\ preIdx = 0
  /\ preBeat = 0 /\ preBuf = [b \in 0 .. PreBeats - 1 |-> NoBeat]
  /\ preReady = FALSE /\ preDone = FALSE
  /\ preJob = [base |-> 0, num |-> 1]
  /\ CacheInit

-----------------------------------------------------------------------------
(* hbm_rd_data, at base + entry_idx and beat_cnt.                          *)
HbmBeat == <<preBase + preIdx, preBeat>>

PreloadEn == preReady /\ preState = "READ"

(* Mutant: the count of an entry ends a beat early.                        *)
EntryBufferEarly(start) ==
  IF preState = "READ"
  THEN /\ preBuf' = [preBuf EXCEPT ![preBeat] = HbmBeat]
       /\ preReady' = (preBeat = PreBeats - 2)
       /\ preBeat' = IF preBeat = PreBeats - 2 THEN 0 ELSE preBeat + 1
  ELSE /\ preReady' = FALSE /\ UNCHANGED preBuf
       /\ preBeat' = IF preState = "IDLE" /\ start THEN 0 ELSE preBeat

(* The entry buffer; a start resets the beat count too.                    *)
EntryBuffer(start) ==
  IF preState = "READ"
  THEN /\ preBuf' = [preBuf EXCEPT ![preBeat] = HbmBeat]
       /\ preReady' = (preBeat = PreBeats - 1)
       /\ preBeat' = IF preBeat = PreBeats - 1 THEN 0 ELSE preBeat + 1
  ELSE /\ preReady' = FALSE /\ UNCHANGED preBuf
       /\ preBeat' = IF preState = "IDLE" /\ start THEN 0 ELSE preBeat

PreStart(todo) ==
  /\ preState = "IDLE"
  /\ preBase' = todo.base /\ preRemain' = todo.num /\ preIdx' = 0
  /\ preState' = "READ" /\ preDone' = FALSE
  /\ preJob' = todo

PreIdle(start) ==
  /\ IF preState = "IDLE" THEN ~start ELSE preState = "DONE"
  /\ preState' = "IDLE" /\ preDone' = FALSE
  /\ UNCHANGED <<preBase, preRemain, preIdx, preJob>>

PreRead ==
  /\ preState = "READ" /\ ~preReady
  /\ preDone' = FALSE
  /\ UNCHANGED <<preState, preBase, preRemain, preIdx, preJob>>

(* The index advances when the entry is handed over: the first beat of the *)
(* next entry has been addressed by then.                                  *)
PreNextEntry ==
  /\ preState = "READ" /\ preReady /\ preRemain > 1
  /\ preRemain' = preRemain - 1 /\ preIdx' = preIdx + 1
  /\ preDone' = FALSE
  /\ UNCHANGED <<preState, preBase, preJob>>

PreLastEntry ==
  /\ preState = "READ" /\ preReady /\ preRemain <= 1
  /\ preState' = "DONE" /\ preDone' = TRUE
  /\ UNCHANGED <<preBase, preRemain, preIdx, preJob>>

PreEdge(start, todo) ==
  /\ \/ start /\ PreStart(todo)
     \/ PreIdle(start)
     \/ PreRead \/ PreNextEntry \/ PreLastEntry
  /\ EntryBuffer(start)
  /\ CacheEdge(FALSE, NoEntry, PreloadEn, preBuf)

PreNext == \E start \in BOOLEAN, todo \in PreJobs : PreEdge(start, todo)

PreSpec == PreInit /\ [][PreNext]_<<preVars, cacheVars>>

-----------------------------------------------------------------------------
(* The registers stay in their ranges.                                     *)
PreTypeOK ==
  /\ preState \in {"IDLE", "READ", "DONE"}
  /\ preBase \in 0 .. PreEntries - 1 /\ preRemain \in 0 .. PreEntries
  /\ preIdx \in 0 .. PreEntries - 1 /\ preBeat \in 0 .. PreBeats - 1
  /\ preReady \in BOOLEAN /\ preDone \in BOOLEAN
  /\ ringPtr \in RingSlots /\ ringFill \in 0 .. NumSlots

(* The slot that holds the i-th of n entries written last.                 *)
LastWritten(n, i) == ring[(ringPtr + NumSlots - n + i - 1) % NumSlots]

(* When done pulses, the ring has as many new entries as were asked for:   *)
(* the first of them is whole, and of those after it every beat but the    *)
(* first is the bank's, in order.  Of an entry of one beat, for which      *)
(* entry_ready stays up, that says no more than that the first is right.   *)
PreloadDelivers ==
  preDone /\ preJob.num <= NumSlots =>
    /\ ringFill >= preJob.num
    /\ \A i \in 1 .. preJob.num, b \in 0 .. PreBeats - 1 :
         b > 0 \/ i = 1 => LastWritten(preJob.num, i)[b] = <<preJob.base + i - 1, b>>

(* What the preloader promises of its registers and its delivery.          *)
PreloaderCorrect == PreTypeOK /\ PreloadDelivers

=============================================================================
