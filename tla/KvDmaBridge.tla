----------------------------- MODULE KvDmaBridge -----------------------------
(***************************************************************************)
(* kv_dma_bridge (rtl/chip/kv_dma_bridge.sv): copies KV entries from host  *)
(* memory over PCIe into one of two HBM banks, an entry per request and a  *)
(* beat per response, while the FPGA reads the other bank.                 *)
(*                                                                         *)
(* A step is a clock edge.  Each always_ff block is one operator on the    *)
(* values before the edge; the inputs of the cycle are chosen by Edge.     *)
(* Addresses are counted in entries and beats, the data of a beat is the   *)
(* host address it came from.                                              *)
(*                                                                         *)
(* Outside the module, as its testbench and the architecture document use  *)
(* it: the host takes a request when it likes and answers with the beats   *)
(* of one entry, the last one marked; it starts transfers into the bank    *)
(* that is not being read, and waits with the next until the bank has been *)
(* swapped or, as the testbench does, does not; the FPGA swaps the banks   *)
(* when buf_b_ready says that there is fresh data.                         *)
(***************************************************************************)
EXTENDS Naturals

CONSTANTS
  HostEntries,    (* KV entries in host memory                               *)
  Slots,          (* entries of one HBM bank (MAX_TOKENS)                    *)
  Beats,          (* BEATS_PER_ENTRY                                         *)
  CountLimit,     (* 2^16: tokens_remaining and tokens_done have 16 bits     *)
  WaitsForSwap,   (* the host starts no transfer while buf_b_ready           *)
  NoJob           (* start_dma is low                                        *)

ASSUME BridgeAssumption ==
  /\ HostEntries \in Nat /\ Slots \in Nat /\ Beats \in Nat \ {0}
  /\ CountLimit \in Nat /\ Slots < CountLimit
  /\ WaitsForSwap \in BOOLEAN

(* A transfer: host_addr_base, hbm_addr_base and num_tokens, inside both   *)
(* memories and of at least one token.                                     *)
Jobs ==
  {j \in [src : 0 .. HostEntries - 1, slot : 0 .. Slots - 1, num : 1 .. Slots] :
     j.src + j.num <= HostEntries /\ j.slot + j.num <= Slots}

ASSUME NoJobAssumption == NoJob \notin Jobs

VARIABLES
  state,          (* of the main FSM                                         *)
  hostAddr,       (* host_addr_r                                             *)
  bank, slot,     (* hbm_addr_r: the bank and the entry in it                *)
  remaining,      (* tokens_remaining                                        *)
  tokensDone,     (* tokens_done                                             *)
  beat,           (* beat_idx                                                *)
  reqValid,       (* pcie_req_valid                                          *)
  reqAddr,        (* pcie_req_addr                                           *)
  write,          (* hbm_wr_en, _addr and _data                              *)
  dmaDone,        (* dma_done                                                *)
  readBank,       (* the bank the FPGA reads: buf_a_active                   *)
  fresh,          (* buf_b_ready                                             *)
  host,           (* the host's answer in progress                           *)
  hbm,            (* the memory behind the write port                        *)
  job             (* history: the transfer last started                      *)

bridgeVars == <<state, hostAddr, bank, slot, remaining, tokensDone, beat, reqValid,
                reqAddr, write, dmaDone, readBank, fresh, host, hbm, job>>

Banks == {"A", "B"}
Other(b) == IF b = "A" THEN "B" ELSE "A"

Cells == Banks \X (0 .. Slots - 1) \X (0 .. Beats - 1)
Data  == Nat \X Nat
Empty == <<HostEntries, 0>>

NoWrite == [en |-> FALSE, cell |-> <<"A", 0, 0>>, data |-> Empty]

BridgeInit ==
  /\ state = "IDLE"
  /\ hostAddr = 0 /\ bank = "A" /\ slot = 0 /\ remaining = 0 /\ tokensDone = 0
  /\ beat = 0 /\ reqValid = FALSE /\ reqAddr = 0 /\ write = NoWrite
  /\ dmaDone = FALSE /\ readBank = "A" /\ fresh = FALSE
  /\ host = [busy |-> FALSE, entry |-> 0, beat |-> 0]
  /\ hbm = [c \in Cells |-> Empty]
  /\ job = NoJob

-----------------------------------------------------------------------------
(* 16-bit counters.                                                        *)
Inc(n) == IF n = CountLimit - 1 THEN 0 ELSE n + 1
Dec(n) == IF n = 0 THEN CountLimit - 1 ELSE n - 1

(* pcie_rsp_last                                                           *)
LastBeat == host.beat = Beats - 1

(* Mutant: valid is a pulse, as in kv_dma_engine, taken or not.            *)
RequestPulse(ready) ==
  \/ /\ state = "REQ" /\ ~reqValid
     /\ reqValid' = TRUE /\ reqAddr' = hostAddr
  \/ /\ reqValid
     /\ reqValid' = FALSE /\ UNCHANGED reqAddr
  \/ /\ ~reqValid /\ state # "REQ"
     /\ UNCHANGED <<reqValid, reqAddr>>

(* The PCIe request: raised in S_REQ, dropped when it is taken.            *)
Request(ready) ==
  \/ /\ state = "REQ" /\ ~reqValid
     /\ reqValid' = TRUE /\ reqAddr' = hostAddr
  \/ /\ reqValid /\ ready
     /\ reqValid' = FALSE /\ UNCHANGED reqAddr
  \/ /\ IF reqValid THEN ~ready ELSE state # "REQ"
     /\ UNCHANGED <<reqValid, reqAddr>>

(* The HBM write port: a beat that arrives is written on the next edge.    *)
(* Address and data count only while hbm_wr_en is up.                      *)
WritePort(rsp) ==
  IF state = "XFER" /\ rsp
  THEN /\ write' = [en |-> TRUE, cell |-> <<bank, slot + tokensDone, beat>>,
                    data |-> <<host.entry, host.beat>>]
       /\ beat' = IF LastBeat \/ beat = Beats - 1 THEN 0 ELSE beat + 1
  ELSE write' = NoWrite /\ UNCHANGED beat

(* Main FSM.                                                               *)
Idle(start) ==
  /\ state = "IDLE" /\ start = NoJob
  /\ dmaDone' = FALSE
  /\ UNCHANGED <<state, hostAddr, bank, slot, remaining, tokensDone, job>>

Start(start) ==
  /\ state = "IDLE" /\ start # NoJob
  /\ hostAddr' = start.src /\ bank' = Other(readBank) /\ slot' = start.slot
  /\ remaining' = start.num /\ tokensDone' = 0
  /\ state' = "REQ" /\ dmaDone' = FALSE
  /\ job' = start

Ask(ready) ==
  /\ state = "REQ"
  /\ state' = IF reqValid /\ ready THEN "XFER" ELSE "REQ"
  /\ dmaDone' = FALSE
  /\ UNCHANGED <<hostAddr, bank, slot, remaining, tokensDone, job>>

Transfer(rsp) ==
  /\ state = "XFER" /\ ~(rsp /\ LastBeat)
  /\ dmaDone' = FALSE
  /\ UNCHANGED <<state, hostAddr, bank, slot, remaining, tokensDone, job>>

(* Mutant: an entry too many.                                              *)
EndOfEntryOneMore(rsp) ==
  /\ state = "XFER" /\ rsp /\ LastBeat
  /\ tokensDone' = Inc(tokensDone) /\ remaining' = Dec(remaining)
  /\ hostAddr' = hostAddr + 1
  /\ state' = IF remaining = 0 THEN "FLUSH" ELSE "REQ"
  /\ dmaDone' = FALSE
  /\ UNCHANGED <<bank, slot, job>>

(* Mutant: done with the last beat, which is not in HBM yet.               *)
EndOfEntryNoFlush(rsp) ==
  /\ state = "XFER" /\ rsp /\ LastBeat
  /\ tokensDone' = Inc(tokensDone) /\ remaining' = Dec(remaining)
  /\ hostAddr' = hostAddr + 1
  /\ state' = IF remaining = 1 THEN "DONE" ELSE "REQ"
  /\ dmaDone' = (remaining = 1)
  /\ UNCHANGED <<bank, slot, job>>

EndOfEntry(rsp) ==
  /\ state = "XFER" /\ rsp /\ LastBeat
  /\ tokensDone' = Inc(tokensDone) /\ remaining' = Dec(remaining)
  /\ hostAddr' = hostAddr + 1
  /\ state' = IF remaining = 1 THEN "FLUSH" ELSE "REQ"
  /\ dmaDone' = FALSE
  /\ UNCHANGED <<bank, slot, job>>

Flush ==
  /\ state = "FLUSH"
  /\ state' = "DONE" /\ dmaDone' = TRUE
  /\ UNCHANGED <<hostAddr, bank, slot, remaining, tokensDone, job>>

Finish(start) ==
  /\ state = "DONE"
  /\ state' = IF start = NoJob THEN "IDLE" ELSE "DONE"
  /\ dmaDone' = FALSE
  /\ UNCHANGED <<hostAddr, bank, slot, remaining, tokensDone, job>>

Fsm(start, ready, rsp) ==
  \/ Idle(start) \/ Start(start) \/ Ask(ready) \/ Transfer(rsp) \/ EndOfEntry(rsp)
  \/ Flush \/ Finish(start)

(* Mutant: the bank is offered during the last entry.                      *)
BuffersEarly(swap) ==
  /\ readBank' = IF swap THEN Other(readBank) ELSE readBank
  /\ fresh' = IF state = "XFER" /\ remaining = 1 THEN TRUE ELSE fresh /\ ~swap

(* The swap comes first in the block, so a flush in the same cycle wins.   *)
Buffers(swap) ==
  /\ readBank' = IF swap THEN Other(readBank) ELSE readBank
  /\ fresh' = IF state = "FLUSH" THEN TRUE ELSE fresh /\ ~swap

(* The host takes a request, or sends a beat.                              *)
Host(ready, rsp) ==
  \/ /\ reqValid /\ ready
     /\ host' = [busy |-> TRUE, entry |-> reqAddr, beat |-> 0]
  \/ /\ rsp
     /\ host' = IF LastBeat THEN [busy |-> FALSE, entry |-> host.entry, beat |-> 0]
                            ELSE [busy |-> TRUE, entry |-> host.entry, beat |-> host.beat + 1]
  \/ /\ ~rsp /\ ~(reqValid /\ ready)
     /\ UNCHANGED host

Memory ==
  hbm' = IF write.en THEN [hbm EXCEPT ![write.cell] = write.data] ELSE hbm

(* One edge, with the inputs the host and the FPGA may give.               *)
Edge(start, swap, ready, rsp) ==
  /\ start # NoJob => ~swap /\ (WaitsForSwap => ~fresh)
  /\ swap => fresh
  /\ ready => ~host.busy
  /\ rsp => host.busy
  /\ Request(ready) /\ WritePort(rsp) /\ Fsm(start, ready, rsp)
  /\ Buffers(swap) /\ Host(ready, rsp) /\ Memory

BridgeNext ==
  \E start \in Jobs \cup {NoJob}, swap, ready, rsp \in BOOLEAN :
    Edge(start, swap, ready, rsp)

(* The clock runs, and the host answers what it is asked.                  *)
HostTakes ==
  \E start \in Jobs \cup {NoJob}, swap \in BOOLEAN :
    reqValid /\ Edge(start, swap, TRUE, FALSE)

HostSends ==
  \E start \in Jobs \cup {NoJob}, swap \in BOOLEAN :
    Edge(start, swap, FALSE, TRUE)

BridgeSpec == BridgeInit /\ [][BridgeNext]_bridgeVars

BridgeFairSpec ==
  /\ BridgeSpec
  /\ WF_bridgeVars(BridgeNext) /\ WF_bridgeVars(HostTakes) /\ WF_bridgeVars(HostSends)

-----------------------------------------------------------------------------
(* Every register and the environment have their types.                    *)
BridgeTypeOK ==
  /\ state \in {"IDLE", "REQ", "XFER", "FLUSH", "DONE"}
  /\ hostAddr \in Nat /\ reqAddr \in Nat
  /\ bank \in Banks /\ slot \in 0 .. Slots
  /\ remaining \in 0 .. Slots /\ tokensDone \in 0 .. Slots
  /\ beat \in 0 .. Beats - 1
  /\ reqValid \in BOOLEAN /\ dmaDone \in BOOLEAN /\ readBank \in Banks /\ fresh \in BOOLEAN
  /\ write \in [en : BOOLEAN, cell : Banks \X Nat \X Nat, data : Data]
  /\ host \in [busy : BOOLEAN, entry : Nat, beat : 0 .. Beats - 1]
  /\ hbm \in [Cells -> Data]
  /\ job \in Jobs \cup {NoJob}

(* When dma_done pulses, and as long as buf_b_ready tells the FPGA that it *)
(* may swap, every beat of every entry of the transfer, the last one too,  *)
(* is in its place in the bank that is not being read, and                 *)
(* tokens_transferred says how many entries there are.                     *)
ReadyMeansCopied ==
  dmaDone \/ fresh =>
    /\ tokensDone = job.num
    /\ \A i \in 0 .. job.num - 1, b \in 0 .. Beats - 1 :
         hbm[<<Other(readBank), job.slot + i, b>>] = <<job.src + i, b>>

(* The bank that the FPGA reads does not change under it: the last write   *)
(* of a transfer has landed before the swap that shows the bank to it.     *)
ReadBankStable ==
  [][\A c \in Cells : c[1] = readBank => hbm'[c] = hbm[c]]_bridgeVars

(* A transfer changes nothing outside the entries it was asked to write.   *)
OnlyTheJob ==
  [][\A c \in Cells :
       hbm'[c] # hbm[c] => c[2] \in job.slot .. job.slot + job.num - 1]_bridgeVars

(* A transfer that was started ends with dma_done.                         *)
TransferEnds == (state = "REQ") ~> dmaDone

=============================================================================
