----------------------------- MODULE KvDmaEngine -----------------------------
(***************************************************************************)
(* kv_dma_engine (rtl/chip/kv_dma_engine.sv): the descriptor engine of the *)
(* KV offload path.  Asks the host for a beat, writes its words to HBM one *)
(* per cycle, and goes on until the length of the descriptor is reached.   *)
(*                                                                         *)
(* A step is a clock edge; lengths and addresses are counted in words, the *)
(* data of a word is the host address it came from.  The host is that of   *)
(* rtl/sim/tb_kv_dma.sv: always ready, it takes every request it sees and  *)
(* marks the last beat of a descriptor; when it answers is left open.  A   *)
(* host that is sometimes not ready loses requests or sees them twice,     *)
(* because dma_req_valid is registered while dma_req_ready is read in the  *)
(* cycle before; a descriptor of length 0 is not given.                    *)
(***************************************************************************)
EXTENDS Naturals, FiniteSetsExt

CONSTANTS
  BeatWords,      (* WORDS_PER_BEAT                                          *)
  HostWords,      (* words of host memory                                    *)
  HbmWords,       (* words of HBM                                            *)
  NoWord          (* a word of HBM never written                             *)

ASSUME EngineAssumption == BeatWords \in Nat \ {0} /\ HostWords \in Nat /\ HbmWords \in Nat

VARIABLES
  engState,       (* state                                                   *)
  engSrc, engDst, (* host_addr_r, hbm_addr_r                                 *)
  engRemain,      (* remain_bytes                                            *)
  engBytes,       (* bytes_done: bytes_transferred                           *)
  engWord,        (* wd_idx                                                  *)
  engBeat,        (* rsp_data_r                                              *)
  engLast,        (* rsp_last_r                                              *)
  engReq,         (* dma_req_valid, _addr and _length                        *)
  engWrite,       (* hbm_wr_en, _addr and _data                              *)
  engDone,        (* done                                                    *)
  engHost,        (* the host: bytes taken of the descriptor, beats to send  *)
  engMem,         (* HBM                                                     *)
  engDesc         (* history: the descriptor last accepted                   *)

engVars == <<engState, engSrc, engDst, engRemain, engBytes, engWord, engBeat, engLast,
             engReq, engWrite, engDone, engHost, engMem, engDesc>>

(* A beat is moved whole, so both ends have room for the last one.         *)
Descs == {d \in [src : 0 .. HostWords - 1, dst : 0 .. HbmWords - 1, len : 1 .. HbmWords] :
            LET beats == (d.len + BeatWords - 1) \div BeatWords
            IN d.src + beats * BeatWords <= HostWords /\ d.dst + beats * BeatWords <= HbmWords}

NoReq == [valid |-> FALSE, addr |-> 0, len |-> 0]
NoEngWrite == [en |-> FALSE, addr |-> 0, data |-> NoWord]

EngInit ==
  /\ engState = "IDLE" /\ engSrc = 0 /\ engDst = 0 /\ engRemain = 0 /\ engBytes = 0
  /\ engWord = 0 /\ engBeat = 0 /\ engLast = FALSE
  /\ engReq = NoReq /\ engWrite = NoEngWrite /\ engDone = FALSE
  /\ engHost = [taken |-> 0, owed |-> {}]
  /\ engMem = [w \in 0 .. HbmWords - 1 |-> NoWord]
  /\ engDesc = [src |-> 0, dst |-> 0, len |-> 0]

-----------------------------------------------------------------------------
EngIdle ==
  /\ engState \in {"IDLE", "DONE"}
  /\ engState' = "IDLE" /\ engDone' = FALSE /\ engReq' = NoReq /\ engWrite' = NoEngWrite
  /\ UNCHANGED <<engSrc, engDst, engRemain, engBytes, engWord, engBeat, engLast, engDesc>>

EngAccept(desc) ==
  /\ engState = "IDLE"
  /\ engSrc' = desc.src /\ engDst' = desc.dst /\ engRemain' = desc.len /\ engBytes' = 0
  /\ engState' = "REQ" /\ engDone' = FALSE /\ engReq' = NoReq /\ engWrite' = NoEngWrite
  /\ engDesc' = desc
  /\ UNCHANGED <<engWord, engBeat, engLast>>

(* dma_req_ready is up, so a request is one cycle long.                    *)
EngRequest ==
  /\ engState = "REQ"
  /\ engReq' = [valid |-> TRUE, addr |-> engSrc,
                len |-> IF engRemain < BeatWords THEN engRemain ELSE BeatWords]
  /\ engState' = "WAIT_RSP" /\ engDone' = FALSE /\ engWrite' = NoEngWrite
  /\ UNCHANGED <<engSrc, engDst, engRemain, engBytes, engWord, engBeat, engLast, engDesc>>

EngWait(rsp) ==
  /\ engState = "WAIT_RSP"
  /\ IF rsp = {} THEN UNCHANGED <<engState, engWord, engBeat, engLast>>
     ELSE \E r \in rsp : engBeat' = r.addr /\ engLast' = r.last /\ engWord' = 0
                           /\ engState' = "WRITE"
  /\ engDone' = FALSE /\ engReq' = NoReq /\ engWrite' = NoEngWrite
  /\ UNCHANGED <<engSrc, engDst, engRemain, engBytes, engDesc>>

(* The beat is written whole, also when fewer words are left.              *)
EngWriteWord ==
  /\ engState = "WRITE"
  /\ engWrite' = [en |-> TRUE, addr |-> engDst + engWord, data |-> engBeat + engWord]
  /\ IF engWord = BeatWords - 1 THEN engState' = "NEXT" /\ UNCHANGED engWord
                                ELSE engWord' = engWord + 1 /\ UNCHANGED engState
  /\ engDone' = FALSE /\ engReq' = NoReq
  /\ UNCHANGED <<engSrc, engDst, engRemain, engBytes, engBeat, engLast, engDesc>>

(* Mutant: the addresses advance only when there is more than a beat after.*)
EngNextBeatLate ==
  /\ engState = "NEXT"
  /\ engBytes' = engBytes + Min({engRemain, BeatWords})
  /\ engRemain' = IF engRemain <= BeatWords THEN 0 ELSE engRemain - BeatWords
  /\ IF engRemain <= 2 * BeatWords THEN UNCHANGED <<engSrc, engDst>>
     ELSE engSrc' = engSrc + BeatWords /\ engDst' = engDst + BeatWords
  /\ engDone' = (engLast \/ engRemain <= BeatWords)
  /\ engState' = IF engDone' THEN "DONE" ELSE "REQ"
  /\ engReq' = NoReq /\ engWrite' = NoEngWrite
  /\ UNCHANGED <<engWord, engBeat, engLast, engDesc>>

EngNextBeat ==
  /\ engState = "NEXT"
  /\ engBytes' = engBytes + Min({engRemain, BeatWords})
  /\ engRemain' = IF engRemain <= BeatWords THEN 0 ELSE engRemain - BeatWords
  /\ IF engRemain <= BeatWords THEN UNCHANGED <<engSrc, engDst>>
     ELSE engSrc' = engSrc + BeatWords /\ engDst' = engDst + BeatWords
  /\ engDone' = (engLast \/ engRemain <= BeatWords)
  /\ engState' = IF engDone' THEN "DONE" ELSE "REQ"
  /\ engReq' = NoReq /\ engWrite' = NoEngWrite
  /\ UNCHANGED <<engWord, engBeat, engLast, engDesc>>

(* The host, as the testbench drives it: the count starts with a           *)
(* descriptor, a request is owed one beat, and the last one is marked.     *)
EngHostEdge(accepts, rsp) ==
  LET owed == engHost.owed \ rsp
      asked == [addr |-> engReq.addr, last |-> engDesc.len - engHost.taken <= BeatWords]
  IN engHost' = IF engReq.valid
                THEN [taken |-> engHost.taken + engReq.len, owed |-> owed \cup {asked}]
                ELSE [taken |-> IF accepts THEN 0 ELSE engHost.taken, owed |-> owed]

EngMemory ==
  engMem' = IF engWrite.en THEN [engMem EXCEPT ![engWrite.addr] = engWrite.data] ELSE engMem

EngNext ==
  \E accepts \in BOOLEAN, desc \in Descs,
     rsp \in {{}} \cup {{r} : r \in engHost.owed} :
    /\ \/ accepts /\ EngAccept(desc)
       \/ ~accepts /\ (EngIdle \/ EngRequest \/ EngWait(rsp) \/ EngWriteWord \/ EngNextBeat)
    /\ EngHostEdge(accepts, rsp) /\ EngMemory

EngSpec == EngInit /\ [][EngNext]_engVars

-----------------------------------------------------------------------------
(* done comes when the descriptor is copied, every word of it, the last    *)
(* one too, and bytes_transferred is its length; beyond it nothing but the *)
(* rest of the last beat has been written.                                 *)
EngineCopies ==
  engDone =>
    /\ engBytes = engDesc.len
    /\ \A w \in 0 .. engDesc.len - 1 : engMem[engDesc.dst + w] = engDesc.src + w

(* A descriptor changes nothing but its words and the rest of their last   *)
(* beat.                                                                   *)
EngineStaysInside ==
  \A w \in DOMAIN engMem :
    engMem'[w] # engMem[w] =>
      w >= engDesc.dst
      /\ (w - engDesc.dst) \div BeatWords <= (engDesc.len - 1) \div BeatWords

(* The engine copies the descriptor, and nothing else.                     *)
EngineCorrect == [][EngineCopies' /\ EngineStaysInside]_engVars

=============================================================================
