----------------------------- MODULE WeightWriter -----------------------------
(***************************************************************************)
(* pcie_hbm_weight_writer and the WT registers of v2_lite_bar0_regs that   *)
(* drive it (bringup/v2_lite/rtl), connected as in v2_lite_full_top.sv: the *)
(* host writes 64-bit pairs, four of them make a word, and words leave in  *)
(* bursts on the AXI write port.                                           *)
(*                                                                         *)
(* A step is a clock edge.  Addresses are counted in bursts.  The host     *)
(* writes a register in at most every other cycle (wr_pulse is an edge)    *)
(* and, since no register tells it whether the last word has been taken,   *)
(* the next pair whenever it likes.  The memory is ready when it likes and *)
(* answers a burst whose last beat it has.  AXI_TIMEOUT is any number of   *)
(* cycles.  A pair is known by the number of its word, from 1 and modulo   *)
(* 3; what the registers hold at reset is 0.                               *)
(***************************************************************************)
EXTENDS Naturals

CONSTANTS
  WordPairs,      (* pairs to a word: 4                                      *)
  BurstWords,     (* words to a burst: 256                                   *)
  BurstCounts,    (* the burst counts the host asks for                      *)
  WtAddrs         (* the addresses it asks for                               *)

ASSUME WriterAssumption ==
  /\ WordPairs \in Nat \ {0} /\ BurstWords \in Nat \ {0}
  /\ BurstCounts \subseteq Nat /\ WtAddrs \subseteq Nat

VARIABLES
  wtCtrl,         (* wt_ctrl: "start" and "abort" bits                       *)
  wtBurst, wtAddr,
  wtCommit,       (* wt_data_commit                                          *)
  wrPulse,        (* there was a wr_pulse in the last cycle                  *)
  dataCnt, wdataBuf, wdataRdy,      \* the packer: a lane holds its word's number
  wtState,        (* st                                                      *)
  awValid, awAddr, wValid, wData, wLast,
  wtNext, beatsLeft, burstsLeft,    \* addr, beats, bursts
  wtActive, wtFinish, wtErr,
  wtWord,         (* history: the word whose pairs the host writes           *)
  wtInTime,       (* history: no pair came while a word was pending          *)
  wtSteady,       (* history: no burst was broken off, by abort or timeout   *)
  wtGoal,         (* history: address and bursts of the start                *)
  wtAnswered,     (* history: bursts answered since                          *)
  wtBeats,        (* history: beats the memory took in this burst, capped    *)
  wtLastTaken     (* history: it took the last one                           *)

barVars  == <<wtCtrl, wtBurst, wtAddr, wtCommit, wrPulse, wtWord, wtInTime>>
packVars == <<dataCnt, wdataBuf, wdataRdy>>
awVars   == <<awValid, awAddr>>
wVars    == <<wValid, wData, wLast>>
jobVars  == <<wtNext, beatsLeft, burstsLeft, wtActive, wtFinish, wtErr>>
histVars == <<wtSteady, wtGoal, wtAnswered, wtBeats, wtLastTaken>>
writerVars == <<barVars, packVars, wtState, awVars, wVars, jobVars, histVars>>

Lanes == 0 .. WordPairs - 1

WriterInit ==
  /\ wtCtrl = {} /\ wtBurst = 0 /\ wtAddr = 0 /\ wtCommit = FALSE /\ wrPulse = FALSE
  /\ wtWord = 1 /\ wtInTime = TRUE /\ wtSteady = TRUE
  /\ dataCnt = 0 /\ wdataBuf = [l \in Lanes |-> 0] /\ wdataRdy = FALSE
  /\ wtState = "IDLE" /\ awValid = FALSE /\ awAddr = 0
  /\ wValid = FALSE /\ wData = [l \in Lanes |-> 0] /\ wLast = FALSE
  /\ wtNext = 0 /\ beatsLeft = 0 /\ burstsLeft = 0
  /\ wtActive = FALSE /\ wtFinish = FALSE /\ wtErr = FALSE
  /\ wtGoal = [addr |-> 0, bursts |-> 0] /\ wtAnswered = 0 /\ wtBeats = 0
  /\ wtLastTaken = FALSE

-----------------------------------------------------------------------------
(* The WT registers.  A write wins over the clearing of the start bit.     *)
NoRegWrite ==
  /\ wtCtrl' = wtCtrl \ {"start"} /\ wtCommit' = FALSE /\ wrPulse' = FALSE
  /\ UNCHANGED <<wtBurst, wtAddr>>

WriteControl ==
  /\ ~wrPulse /\ wrPulse' = TRUE
  /\ wtCtrl' \in SUBSET {"start", "abort"} /\ wtCommit' = FALSE
  /\ UNCHANGED <<wtBurst, wtAddr>>

WriteJob ==
  /\ ~wrPulse /\ wrPulse' = TRUE
  /\ wtBurst' \in BurstCounts /\ wtAddr' \in WtAddrs
  /\ wtCtrl' = wtCtrl \ {"start"} /\ wtCommit' = FALSE

(* DATA_HI, after its DATA_LO.                                             *)
WriteData ==
  /\ ~wrPulse /\ wrPulse' = TRUE
  /\ wtCommit' = TRUE /\ wtCtrl' = wtCtrl \ {"start"}
  /\ UNCHANGED <<wtBurst, wtAddr>>

Registers ==
  /\ NoRegWrite \/ WriteControl \/ WriteJob \/ WriteData
  /\ wtWord' = IF wtCommit /\ dataCnt + 1 = WordPairs THEN (wtWord + 1) % 3 ELSE wtWord
  /\ wtInTime' = (wtInTime /\ ~(wtCommit /\ wdataRdy))

BeatTaken(wready) == wValid /\ wready

(* Mutant: the word is offered a pair early.                               *)
PackerEarly(wready) ==
  /\ IF wtCommit THEN /\ dataCnt' = (dataCnt + 1) % WordPairs
                      /\ wdataBuf' = [wdataBuf EXCEPT ![dataCnt] = wtWord]
                 ELSE UNCHANGED <<dataCnt, wdataBuf>>
  /\ wdataRdy' = IF wdataRdy /\ BeatTaken(wready) THEN FALSE
                 ELSE wdataRdy \/ (wtCommit /\ dataCnt + 2 = WordPairs)

(* The packer.                                                             *)
Packer(wready) ==
  /\ IF wtCommit THEN /\ dataCnt' = (dataCnt + 1) % WordPairs
                      /\ wdataBuf' = [wdataBuf EXCEPT ![dataCnt] = wtWord]
                 ELSE UNCHANGED <<dataCnt, wdataBuf>>
  /\ wdataRdy' = IF wdataRdy /\ BeatTaken(wready) THEN FALSE
                 ELSE wdataRdy \/ (wtCommit /\ dataCnt + 1 = WordPairs)

-----------------------------------------------------------------------------
WtStart == "start" \in wtCtrl
Abort == "abort" \in wtCtrl

(* awvalid and done are pulses: 0 unless a step sets them.                 *)
WtIdle ==
  /\ wtState = "IDLE" /\ awValid' = FALSE /\ wtFinish' = FALSE
  /\ IF WtStart /\ wtBurst # 0
     THEN /\ burstsLeft' = wtBurst /\ wtNext' = wtAddr
          /\ wtActive' = TRUE /\ wtErr' = FALSE /\ wtState' = "AW"
          /\ wtGoal' = [addr |-> wtAddr, bursts |-> wtBurst] /\ wtAnswered' = 0
     ELSE UNCHANGED <<burstsLeft, wtNext, wtActive, wtErr, wtState, wtGoal, wtAnswered>>
  /\ UNCHANGED <<awAddr, wVars, beatsLeft>>

(* The address is offered in every other cycle until it is taken.          *)
WtAddress(awready, late) ==
  /\ wtState = "AW" /\ wtFinish' = FALSE
  /\ IF ~awValid THEN awValid' = TRUE /\ awAddr' = wtNext /\ beatsLeft' = BurstWords
                 ELSE awValid' = FALSE /\ UNCHANGED <<awAddr, beatsLeft>>
  /\ wtState' = IF awValid /\ awready THEN "WDATA" ELSE IF late THEN "ERR" ELSE "AW"
  /\ UNCHANGED <<wVars, wtNext, burstsLeft, wtActive, wtErr, wtGoal, wtAnswered>>

(* A word that is ready is put on the port when the port is free.  An      *)
(* abort comes after it and a timeout after both, without an error.        *)
WtData(wready, late) ==
  LET loads == wdataRdy /\ (~wValid \/ wready)
      ends  == loads /\ beatsLeft = 1
  IN /\ wtState = "WDATA" /\ awValid' = FALSE /\ wtFinish' = FALSE
     /\ IF loads THEN wData' = wdataBuf /\ wLast' = (beatsLeft = 1) /\ beatsLeft' = beatsLeft - 1
                 ELSE UNCHANGED <<wData, wLast, beatsLeft>>
     /\ wValid' = ((wValid \/ loads) /\ ~Abort)
     /\ wtNext' = IF ends THEN wtNext + 1 ELSE wtNext
     /\ wtErr' = (wtErr \/ Abort)
     /\ wtState' = IF late \/ Abort THEN "ERR" ELSE IF ends THEN "BRESP" ELSE "WDATA"
     /\ UNCHANGED <<awAddr, burstsLeft, wtActive, wtGoal, wtAnswered>>

WtResponse(answer) ==
  /\ wtState = "BRESP" /\ awValid' = FALSE /\ wtFinish' = FALSE
  /\ wValid' = FALSE /\ wLast' = FALSE
  /\ wtState' = CASE answer = "none" -> "BRESP" [] answer = "okay" -> "NEXT" [] OTHER -> "ERR"
  /\ wtErr' = (wtErr \/ answer = "error")
  /\ wtAnswered' = IF answer = "okay" THEN wtAnswered + 1 ELSE wtAnswered
  /\ UNCHANGED <<awAddr, wData, wtNext, beatsLeft, burstsLeft, wtActive, wtGoal>>

WtNextBurst ==
  /\ wtState = "NEXT" /\ awValid' = FALSE /\ wtFinish' = FALSE
  /\ burstsLeft' = burstsLeft - 1
  /\ wtState' = IF burstsLeft > 1 THEN "AW" ELSE "DONE"
  /\ UNCHANGED <<awAddr, wVars, wtNext, beatsLeft, wtActive, wtErr, wtGoal, wtAnswered>>

WtDone ==
  /\ wtState = "DONE" /\ awValid' = FALSE /\ wtFinish' = TRUE
  /\ wtActive' = FALSE /\ wtState' = "IDLE"
  /\ UNCHANGED <<awAddr, wVars, wtNext, beatsLeft, burstsLeft, wtErr, wtGoal, wtAnswered>>

(* The start that leaves the error state begins nothing.                   *)
WtFailed ==
  /\ wtState = "ERR" /\ awValid' = FALSE /\ wtFinish' = FALSE
  /\ wtActive' = FALSE /\ wtState' = IF WtStart THEN "IDLE" ELSE "ERR"
  /\ UNCHANGED <<awAddr, wVars, wtNext, beatsLeft, burstsLeft, wtErr, wtGoal, wtAnswered>>

(* What the memory has seen of the burst.                                  *)
MemoryTakes(awready, wready, answer) ==
  IF awValid /\ awready THEN wtBeats' = 0 /\ wtLastTaken' = FALSE
  ELSE /\ wtBeats' = IF BeatTaken(wready) /\ wtBeats < BurstWords THEN wtBeats + 1 ELSE wtBeats
       /\ wtLastTaken' = ((wtLastTaken \/ (BeatTaken(wready) /\ wLast)) /\ answer = "none")

(* A burst of which some was on the port is given up.                      *)
BreaksOff(late) == wtState = "WDATA" /\ (late \/ Abort)

WriterEdge(awready, wready, answer, late) ==
  /\ answer # "none" => wtLastTaken
  /\ Registers /\ Packer(wready) /\ MemoryTakes(awready, wready, answer)
  /\ wtSteady' = (wtSteady /\ ~BreaksOff(late))
  /\ \/ WtIdle \/ WtAddress(awready, late) \/ WtData(wready, late)
     \/ WtResponse(answer) \/ WtNextBurst \/ WtDone \/ WtFailed

(* The inputs that a cycle looks at.                                       *)
WriterNext ==
  \E awready, wready, late \in BOOLEAN, answer \in {"none", "okay", "error"} :
    /\ awready => awValid
    /\ wready => wValid
    /\ late => wtState \in {"AW", "WDATA"}
    /\ WriterEdge(awready, wready, answer, late)

WriterSpec == WriterInit /\ [][WriterNext]_writerVars

-----------------------------------------------------------------------------
(* The registers stay in their ranges.                                     *)
WriterTypeOK ==
  /\ wtState \in {"IDLE", "AW", "WDATA", "BRESP", "NEXT", "DONE", "ERR"}
  /\ dataCnt \in Lanes /\ beatsLeft \in 0 .. BurstWords /\ wtWord \in 0 .. 2

(* A transfer is done only when every burst of it was answered without an  *)
(* error, and each was sent to the address after the one before.           *)
DoneMeansAnswered ==
  /\ wtFinish => wtAnswered = wtGoal.bursts
  /\ awValid => awAddr = wtGoal.addr + wtAnswered

(* No burst counts as answered before the memory took as many beats as it  *)
(* has words since it took its address, whatever was left on the port by   *)
(* the transfer before.                                                    *)
NoBurstShort == wtState = "NEXT" => wtBeats >= BurstWords

(* A word on the port is made of the pairs of one word, as long as the     *)
(* host writes no pair while a word is pending.                            *)
WordsWhole == wtInTime => \A k, l \in Lanes : wData[k] = wData[l]

(* The words then go to the port in their order and none is skipped, until *)
(* a burst is broken off: the one on it is the last that is whole, or,     *)
(* while that is pending, the one before.                                  *)
WordsInOrder ==
  wtInTime /\ wtSteady =>
    \A l \in Lanes :
      wData[l] = (wtWord + 2) % 3 \/ (wdataRdy /\ wData[l] = (wtWord + 1) % 3)

(* Done means answered, no burst is short, and words go whole and in order *)
(* under those conditions.                                                 *)
WriterCorrect ==
  WriterTypeOK /\ DoneMeansAnswered /\ NoBurstShort /\ WordsWhole /\ WordsInOrder

=============================================================================
