------------------------------- MODULE HbmPath -------------------------------
(***************************************************************************)
(* The simulated memory system: three masters, axi4_rr_arbiter             *)
(* (rtl/sim/axi4_rr_arbiter.sv), sim_axi4_hbm_model                        *)
(* (rtl/sim/sim_axi4_hbm_model.sv) and the FIFO of response IDs in it      *)
(* (rtl/sim/altera_scfifo.sv), connected as in                             *)
(* rtl/sim/tb_axi4_hbm_multi_master.sv.  The read channels and the write   *)
(* channels share no register: each half has its own specification.        *)
(*                                                                         *)
(* A step is a clock edge on which every always_ff block runs.  A master   *)
(* keeps its address up until it is taken.  A reader has one read in       *)
(* progress and is ready for data when it likes; a beat is the address of  *)
(* its burst and its number.  A writer offers its beats when it likes, is  *)
(* always ready for the response, as in the testbench, and writes again    *)
(* when it has it; WRITE_LATENCY is any number of cycles.                  *)
(***************************************************************************)
EXTENDS Naturals, Sequences

CONSTANTS
  ReadLatency,    (* READ_LATENCY                                            *)
  Reads,          (* the reads masters ask for: [addr, len]                  *)
  MaxLen,         (* awlen is 0 .. MaxLen                                    *)
  BQueueDepth     (* B_QUEUE_DEPTH                                           *)

ASSUME ReadAssumption == ReadLatency \in Nat /\ Reads \subseteq [addr : Nat, len : Nat]

ASSUME WriteAssumption ==
  MaxLen \in Nat /\ BQueueDepth \in Nat \ {0}

(* Arbitration, the same on the AW and the AR channel: three masters, one  *)
(* of them granted.                                                        *)
Masters == 0 .. 2

(* next_prio                                                               *)
NextPrio(m) == IF m = 2 THEN 0 ELSE m + 1

(* The i-th master from prio.                                              *)
FromPrio(prio, i) == (prio + i) % 3

(* The grant register: the first master asking from prio on, re-evaluated  *)
(* in every cycle in which the channel is not locked.                      *)
Granted(prio, asking, grant, busy) ==
  IF busy \/ asking = {} THEN grant
  ELSE FromPrio(prio, CHOOSE i \in 0 .. 2 :
                        /\ FromPrio(prio, i) \in asking
                        /\ \A k \in 0 .. i - 1 : FromPrio(prio, k) \notin asking)

-----------------------------------------------------------------------------
(* The read channels.                                                      *)
VARIABLES
  rdAsk,          (* m's arvalid, with its address and length                *)
  rdWant,         (* the read m has in progress                              *)
  rdGot,          (* the last beat m has received of it                      *)
  arGrant, arPrio, rGrant, rBusy,
  rState,         (* rstate                                                  *)
  rSaved,         (* r_saved_id, _addr and _len                              *)
  rBeat,          (* r_beat_count                                            *)
  rLat,           (* r_latency_count                                         *)
  rValid,         (* s_axi_rvalid                                            *)
  nextAr,         (* next_ar_valid, _id, _addr and _len                      *)
  rdPassed        (* history: grants to others since m began to ask          *)

readVars == <<rdAsk, rdWant, rdGot, arGrant, arPrio, rGrant, rBusy, rState, rSaved, rBeat,
              rLat, rValid, nextAr, rdPassed>>

ReadInit ==
  /\ rdAsk = [m \in Masters |-> {}] /\ rdWant = [m \in Masters |-> {}]
  /\ rdGot = [m \in Masters |-> <<>>]
  /\ arGrant = 0 /\ arPrio = 0 /\ rBusy = FALSE
  /\ rGrant \in Masters                    \* not reset
  /\ rState = "IDLE" /\ rSaved = [id |-> 0, addr |-> 0, len |-> 0]
  /\ rBeat = 0 /\ rLat = 0 /\ rValid = FALSE
  /\ nextAr = {} /\ rdPassed = [m \in Masters |-> 0]

-----------------------------------------------------------------------------
Asking == {m \in Masters : rdAsk[m] # {}}

ArValid == arGrant \in Asking /\ ~rBusy
ArReady == rState = "IDLE" \/ (rState = "SEND" /\ nextAr = {})
ArTaken == ArValid /\ ArReady

RLast == rBeat = rSaved.len

(* A beat moves: the master that rGrant selects is ready.                  *)
RTaken(ready) == rValid /\ ready

(* A request on the AR channel, as the slave sees it.                      *)
ReadOf(m) == LET r == CHOOSE r \in rdAsk[m] : TRUE
              IN [id |-> m, addr |-> r.addr, len |-> r.len]

(* Mutant: the channel is unlocked with the first beat.                    *)
ReadArbiterUnlocksEarly(ready) ==
  /\ rBusy' = (ArTaken \/ (rBusy /\ ~RTaken(ready)))
  /\ IF ArTaken THEN rGrant' = arGrant /\ arPrio' = NextPrio(arGrant)
                ELSE UNCHANGED <<rGrant, arPrio>>
  /\ arGrant' = Granted(arPrio, Asking, arGrant, rBusy)

(* The AR block of the arbiter.                                            *)
ReadArbiter(ready) ==
  /\ rBusy' = (ArTaken \/ (rBusy /\ ~(RTaken(ready) /\ RLast)))
  /\ IF ArTaken THEN rGrant' = arGrant /\ arPrio' = NextPrio(arGrant)
                ELSE UNCHANGED <<rGrant, arPrio>>
  /\ arGrant' = Granted(arPrio, Asking, arGrant, rBusy)

(* A burst begins: from the channel, or from the one buffered before it.   *)
Begin(request) ==
  rSaved' = request /\ rBeat' = 0 /\ rLat' = 0 /\ rState' = "WAIT"

(* The read pipeline of the memory.                                        *)
ReadIdle ==
  /\ rState = "IDLE"
  /\ IF nextAr # {} THEN \E r \in nextAr : Begin(r)
     ELSE IF ArTaken THEN Begin(ReadOf(arGrant))
     ELSE UNCHANGED <<rState, rSaved, rBeat, rLat>>
  /\ nextAr' = {} /\ UNCHANGED rValid

ReadWait ==
  /\ rState = "WAIT"
  /\ IF rLat >= ReadLatency THEN rValid' = TRUE /\ rState' = "SEND" /\ UNCHANGED rLat
                            ELSE rLat' = rLat + 1 /\ UNCHANGED <<rValid, rState>>
  /\ UNCHANGED <<rSaved, rBeat, nextAr>>

(* A request that comes during a burst is buffered; at the end of the      *)
(* burst only one buffered before is begun.                                *)
ReadSend(ready) ==
  /\ rState = "SEND"
  /\ IF ~RTaken(ready) THEN UNCHANGED <<rState, rSaved, rBeat, rLat, rValid>>
     ELSE IF ~RLast THEN rBeat' = rBeat + 1 /\ UNCHANGED <<rState, rSaved, rLat, rValid>>
     ELSE /\ rValid' = FALSE
          /\ IF nextAr # {} THEN \E r \in nextAr : Begin(r)
             ELSE rState' = "IDLE" /\ UNCHANGED <<rSaved, rBeat, rLat>>
  /\ nextAr' = IF ArTaken THEN {ReadOf(arGrant)}
               ELSE IF RTaken(ready) /\ RLast THEN {} ELSE nextAr

(* The masters: one that wants nothing may ask for one of its reads; one   *)
(* that sees its address taken drops arvalid; one takes the beat it is     *)
(* offered.                                                                *)
ReadMasters(asks, ready) ==
  LET taken   == IF ArTaken THEN {arGrant} ELSE {}
      offered == IF RTaken(ready) THEN {rGrant} ELSE {}
  IN /\ rdAsk' = [m \in Masters |-> IF m \in taken THEN {}
                                    ELSE IF rdWant[m] = {} THEN asks[m] ELSE rdAsk[m]]
     /\ rdWant' = [m \in Masters |-> IF m \in offered /\ RLast THEN {}
                                     ELSE IF rdWant[m] = {} THEN asks[m] ELSE rdWant[m]]
     /\ rdGot' = [m \in Masters |-> IF m \in offered THEN <<rSaved.addr, rBeat>>
                                    ELSE IF rdWant[m] = {} /\ asks[m] # {} THEN <<>>
                                    ELSE rdGot[m]]
     /\ rdPassed' = [m \in Masters |-> IF m \notin Asking \/ m \in taken THEN 0
                                       ELSE rdPassed[m] + IF taken # {} THEN 1 ELSE 0]

ReadEdge(asks, ready) ==
  /\ ReadArbiter(ready)
  /\ ReadIdle \/ ReadWait \/ ReadSend(ready)
  /\ ReadMasters(asks, ready)

(* What the masters may begin to ask for in this cycle.                    *)
Asks == {asks \in [Masters -> {{}} \cup {{r} : r \in Reads}] :
           \A m \in Masters : rdWant[m] # {} => asks[m] = {}}

ReadNext == \E asks \in Asks, ready \in BOOLEAN : ReadEdge(asks, ready)

(* The clock runs, and a master takes a beat it is offered sooner or later.*)
ReadReadily == \E asks \in Asks : ReadEdge(asks, TRUE)

ReadSpec == ReadInit /\ [][ReadNext]_readVars /\ WF_readVars(ReadReadily)

-----------------------------------------------------------------------------
(* Behind the arbiter every master has a port of its own: it receives the  *)
(* beats of its own reads, in order and no others, whoever else reads.     *)
Ports == INSTANCE AxiPorts WITH PortMasters <- Masters, PortReads <- Reads,
                                want <- rdWant, got <- rdGot

EachHasAPort == Ports!PortSpec

(* A master that asks is passed over at most twice.                        *)
PassedOverSeldom == \A m \in Masters : rdPassed[m] <= 2

(* A read that is asked for is finished.                                   *)
ReadsEnd == \A m \in Masters : (rdWant[m] # {}) ~> (rdWant[m] = {})

(* Readers share the memory as if each had it alone, none of them starves, *)
(* and every read comes to its end.                                        *)
ReadsCorrect == EachHasAPort /\ []PassedOverSeldom /\ ReadsEnd

-----------------------------------------------------------------------------
(* The write channels.                                                     *)
VARIABLES
  oneWriter,      (* masters begin a write only when no other has one        *)
  wrPhase,        (* of each master: idle, aw, w, b                          *)
  wrLen, wrBeat,  (* its awlen, and the beat it offers                       *)
  awGrant, awPrio, wGrant, wBusy,
  wActive,        (* w_burst_active                                          *)
  wSaved,         (* w_saved_id, w_saved_len and w_beat_count                *)
  bPush,          (* b_fifo_wr_en with b_fifo_wr_data                        *)
  bFifo,          (* the FIFO of IDs                                         *)
  bPop,           (* b_fifo_rd_en                                            *)
  bCount,         (* b_rt_count                                              *)
  bValid,         (* s_axi_bvalid                                            *)
  bOwner          (* history: whose write the response answers               *)

writeVars == <<oneWriter, wrPhase, wrLen, wrBeat, awGrant, awPrio, wGrant, wBusy, wActive, wSaved,
               bPush, bFifo, bPop, bCount, bValid, bOwner>>

WriteInit ==
  /\ oneWriter \in BOOLEAN
  /\ wrPhase = [m \in Masters |-> "idle"]
  /\ wrLen = [m \in Masters |-> 0] /\ wrBeat = [m \in Masters |-> 0]
  /\ awGrant = 0 /\ awPrio = 0 /\ wBusy = FALSE
  /\ wGrant \in Masters                    \* not reset
  /\ wActive = FALSE /\ wSaved = [id |-> 0, len |-> 0, count |-> 0]
  /\ bPush = {} /\ bFifo = <<>> /\ bPop = FALSE /\ bCount = 0
  /\ bValid = FALSE /\ bOwner = 0

-----------------------------------------------------------------------------
AwAsking == {m \in Masters : wrPhase[m] = "aw"}

(* Mutant: an address is taken in the middle of a burst.                   *)
AwTakenAnytime == awGrant \in AwAsking

(* s_awvalid and s_awready: neither the arbiter nor the memory has a burst.*)
AwTaken == awGrant \in AwAsking /\ ~wBusy /\ ~wActive

(* s_wvalid and s_wready: the master that wGrant selects offers a beat.    *)
WTaken(offers) == wBusy /\ wActive /\ wrPhase[wGrant] = "w" /\ offers

(* wlast comes from the master.                                            *)
WLast == wrBeat[wGrant] = wrLen[wGrant]

(* The AW block of the arbiter.                                            *)
WriteArbiter(offers) ==
  /\ wBusy' = (AwTaken \/ (wBusy /\ ~(WTaken(offers) /\ WLast)))
  /\ IF AwTaken THEN wGrant' = awGrant /\ awPrio' = NextPrio(awGrant)
                ELSE UNCHANGED <<wGrant, awPrio>>
  /\ awGrant' = Granted(awPrio, AwAsking, awGrant, wBusy)

(* AW and W of the memory; the ID of a finished burst is pushed.           *)
WriteSlave(offers) ==
  LET last == WTaken(offers) /\ WLast
      push == last /\ bCount < BQueueDepth
  IN /\ wActive' = (AwTaken \/ (wActive /\ ~last))
     /\ wSaved' = IF AwTaken THEN [id |-> awGrant, len |-> wrLen[awGrant], count |-> 0]
                  ELSE IF WTaken(offers) /\ ~last
                       THEN [wSaved EXCEPT !.count = @ + 1] ELSE wSaved
     /\ bPush' = IF push THEN {wSaved.id} ELSE {}

(* The head of the queue has matured and no response is waiting.           *)
Responds(matured) == ~bValid /\ bCount > 0 /\ bFifo # <<>> /\ matured

(* altera_scfifo.  Its output, the ID of the response, is left out: the    *)
(* arbiter shows a response to wGrant, whatever ID it carries.             *)
BFifo ==
  LET rest == IF bPop /\ bFifo # <<>> THEN Tail(bFifo) ELSE bFifo
  IN bFifo' = IF bPush = {} THEN rest ELSE Append(rest, CHOOSE id \in bPush : TRUE)

(* The response port.  A push and a response in the same cycle both set    *)
(* the count, and the response, which comes last, wins.                    *)
Response(offers, matured) ==
  /\ bCount' = IF Responds(matured) THEN bCount - 1
               ELSE IF WTaken(offers) /\ WLast /\ bCount < BQueueDepth THEN bCount + 1
               ELSE bCount
  /\ bPop' = Responds(matured)
  /\ bValid' = Responds(matured)
  /\ bOwner' = IF Responds(matured) THEN Head(bFifo) ELSE bOwner

(* The masters.  bvalid is shown to the one wGrant selects; one that does  *)
(* not wait for a response lets it pass.                                   *)
WriteMasters(begins, len, offers) ==
  /\ wrPhase' = [m \in Masters |->
       IF m \in begins THEN "aw"
       ELSE IF AwTaken /\ m = awGrant THEN "w"
       ELSE IF WTaken(offers) /\ WLast /\ m = wGrant THEN "b"
       ELSE IF bValid /\ m = wGrant /\ wrPhase[m] = "b" THEN "idle"
       ELSE wrPhase[m]]
  /\ wrLen' = [m \in Masters |-> IF m \in begins THEN len
                                 ELSE IF wrPhase'[m] = "idle" THEN 0 ELSE wrLen[m]]
  /\ wrBeat' = [m \in Masters |-> IF m \in begins \/ wrPhase'[m] = "idle" THEN 0
                                  ELSE IF WTaken(offers) /\ ~WLast /\ m = wGrant
                                       THEN wrBeat[m] + 1 ELSE wrBeat[m]]

WriteEdge(begins, len, offers, matured) ==
  /\ WriteArbiter(offers) /\ WriteSlave(offers) /\ BFifo /\ Response(offers, matured)
  /\ WriteMasters(begins, len, offers) /\ UNCHANGED oneWriter

(* The masters that begin a write in this cycle.                           *)
Begins == {begins \in SUBSET {m \in Masters : wrPhase[m] = "idle"} :
             oneWriter /\ begins # {} =>
               /\ \A m \in Masters : wrPhase[m] = "idle"
               /\ \A m, k \in begins : m = k}

(* The inputs that a cycle looks at.                                       *)
WriteNext ==
  \E begins \in Begins, len \in 0 .. MaxLen, offers, matured \in BOOLEAN :
    /\ begins = {} => len = 0
    /\ offers => WTaken(TRUE)
    /\ matured => Responds(TRUE)
    /\ WriteEdge(begins, len, offers, matured)

(* The clock runs, beats are offered and the latency passes.               *)
WriteReadily ==
  \E begins \in Begins, len \in 0 .. MaxLen : WriteEdge(begins, len, TRUE, TRUE)

WriteSpec == WriteInit /\ [][WriteNext]_writeVars /\ WF_writeVars(WriteReadily)

-----------------------------------------------------------------------------
(* "Write path: AW grant locks W channel for that master until wlast"      *)
(* (axi4_rr_arbiter.sv:5): the memory takes the beats of the master whose  *)
(* address it has, each in its turn, until that master offers its last.    *)
BurstsUnmixed ==
  /\ \A m \in Masters : wrPhase[m] = "w" =>
       /\ wActive /\ wBusy /\ wGrant = m
       /\ wSaved = [id |-> m, len |-> wrLen[m], count |-> wrBeat[m]]
  /\ wActive => wrPhase[wSaved.id] = "w"

(* A response is shown to the master whose write it answers, if no other   *)
(* master has begun a write since: B has no lock, and bvalid is shown to   *)
(* the master that wGrant has moved on to.                                 *)
ResponseToItsMaster == oneWriter /\ bValid => wGrant = bOwner /\ wrPhase[wGrant] = "b"

(* A write that is begun then gets its response: as no other begins before *)
(* that, the masters are all idle again and again.                         *)
WritesEnd == []<>(oneWriter => \A m \in Masters : wrPhase[m] = "idle")

(* Every burst reaches the memory unmixed, however many masters write, and *)
(* with one writer at a time it is answered to the master that wrote.      *)
WritesCorrect == [](BurstsUnmixed /\ ResponseToItsMaster) /\ WritesEnd

=============================================================================
