------------------------------ MODULE MoverProofs ------------------------------
(***************************************************************************)
(* Theorems about what moves data between the host, HBM and the KV cache:  *)
(* four components that share no state, each with an inductive invariant   *)
(* of its own.  They hold for every size of the memories, of an entry, of  *)
(* a word and of a burst.                                                  *)
(***************************************************************************)
EXTENDS KvDmaBridge, KvDmaEngine, KvHbmPreloader, WeightWriter, TLAPS

-----------------------------------------------------------------------------
(* The bridge: requests to the host, beats into the bank not being read.   *)

Busy == state \in {"REQ", "XFER", "FLUSH"}

(* The request, the host and the counters agree on the beat to come.       *)
Handshake ==
  /\ state # "IDLE" => job \in Jobs
  /\ reqValid => state = "REQ" /\ reqAddr = hostAddr
  /\ host.busy <=> state = "XFER"
  /\ host.busy => host.entry = hostAddr
  /\ host.beat = beat
  /\ ~host.busy => beat = 0

(* How far the transfer is.                                                *)
Counting ==
  /\ state # "IDLE" => slot = job.slot
  /\ state \in {"REQ", "XFER"} =>
       /\ tokensDone < job.num
       /\ remaining = job.num - tokensDone
       /\ hostAddr = job.src + tokensDone
  /\ state \in {"FLUSH", "DONE"} => tokensDone = job.num

(* A write that is on its way is for an entry of the transfer.             *)
Pending ==
  write.en =>
    /\ Busy
    /\ \E i \in 0 .. job.num - 1, b \in 0 .. Beats - 1 :
         /\ write.cell = <<bank, job.slot + i, b>>
         /\ write.data = <<job.src + i, b>>

(* The beats received have landed, or are on their way.                    *)
Received(i, b) == i < tokensDone \/ (i = tokensDone /\ b < beat)

Landing ==
  Busy =>
    \A i \in 0 .. job.num - 1, b \in 0 .. Beats - 1 :
      Received(i, b) =>
        \/ hbm[<<bank, job.slot + i, b>>] = <<job.src + i, b>>
        \/ write.en /\ write.cell = <<bank, job.slot + i, b>>

(* A bank is filled before it is offered, and is not read meanwhile.       *)
Offering ==
  /\ Busy => ~fresh /\ ~dmaDone /\ bank = Other(readBank)
  /\ dmaDone => fresh
  /\ fresh => job \in Jobs /\ ReadyMeansCopied

BridgeInv == BridgeTypeOK /\ Handshake /\ Counting /\ Pending /\ Landing

-----------------------------------------------------------------------------
LEMMA BridgeJobFacts ==
  ASSUME NEW j \in Jobs
  PROVE  /\ j.src \in Nat /\ j.slot \in Nat /\ j.num \in Nat
         /\ 1 <= j.num /\ j.slot + j.num <= Slots /\ j.slot < Slots
BY BridgeAssumption DEF Jobs

(* No count wraps while a transfer is under way.                           *)
LEMMA NoWrap ==
  ASSUME BridgeInv, state = "XFER"
  PROVE  Inc(tokensDone) = tokensDone + 1 /\ Dec(remaining) = remaining - 1
<1>1. job \in Jobs /\ tokensDone < job.num /\ remaining = job.num - tokensDone
  BY DEF BridgeInv, Handshake, Counting
<1> QED
  BY <1>1, BridgeJobFacts, BridgeAssumption DEF BridgeInv, BridgeTypeOK, Inc, Dec

(* What one edge does to the FSM, as a case split.                         *)
LEMMA HandshakeStep ==
  ASSUME BridgeInv, NEW start \in Jobs \cup {NoJob}, NEW swap \in BOOLEAN,
         NEW ready \in BOOLEAN, NEW rsp \in BOOLEAN, Edge(start, swap, ready, rsp)
  PROVE  Handshake'
<1> USE DEF BridgeInv, BridgeTypeOK, Handshake, Edge, Fsm, LastBeat
<1>0. Beats \in Nat \ {0}
  BY BridgeAssumption
<1>1. CASE Idle(start)
  BY <1>0, <1>1 DEF Idle, Request, WritePort, Host
<1>2. CASE Start(start)
  BY <1>0, <1>2 DEF Start, Request, WritePort, Host
<1>3. CASE Ask(ready)
  BY <1>0, <1>3 DEF Ask, Request, WritePort, Host
<1>4. CASE Transfer(rsp)
  BY <1>0, <1>4 DEF Transfer, Request, WritePort, Host
<1>5. CASE EndOfEntry(rsp)
  BY <1>0, <1>5 DEF EndOfEntry, Request, WritePort, Host
<1>6. CASE Flush
  BY <1>0, <1>6 DEF Flush, Request, WritePort, Host
<1>7. CASE Finish(start)
  BY <1>0, <1>7 DEF Finish, Request, WritePort, Host
<1> QED
  BY <1>1, <1>2, <1>3, <1>4, <1>5, <1>6, <1>7

LEMMA CountingStep ==
  ASSUME BridgeInv, NEW start \in Jobs \cup {NoJob}, NEW swap \in BOOLEAN,
         NEW ready \in BOOLEAN, NEW rsp \in BOOLEAN, Edge(start, swap, ready, rsp)
  PROVE  Counting'
<1> USE DEF BridgeInv, BridgeTypeOK, Handshake, Counting, Edge, Fsm
<1>1. CASE Idle(start)
  BY <1>1 DEF Idle
<1>2. CASE Start(start)
  BY <1>2, BridgeJobFacts DEF Start
<1>3. CASE Ask(ready)
  BY <1>3 DEF Ask
<1>4. CASE Transfer(rsp)
  BY <1>4 DEF Transfer
<1>5. CASE EndOfEntry(rsp)
  BY <1>5, NoWrap, BridgeJobFacts DEF EndOfEntry
<1>6. CASE Flush
  BY <1>6 DEF Flush
<1>7. CASE Finish(start)
  BY <1>7 DEF Finish
<1> QED
  BY <1>1, <1>2, <1>3, <1>4, <1>5, <1>6, <1>7

LEMMA WriteType ==
  ASSUME NEW e \in BOOLEAN, NEW c \in Banks \X Nat \X Nat, NEW d \in Data
  PROVE  [en |-> e, cell |-> c, data |-> d]
           \in [en : BOOLEAN, cell : Banks \X Nat \X Nat, data : Data]
OBVIOUS

LEMMA HostType ==
  ASSUME NEW b \in BOOLEAN, NEW e \in Nat, NEW n \in 0 .. Beats - 1
  PROVE  [busy |-> b, entry |-> e, beat |-> n]
           \in [busy : BOOLEAN, entry : Nat, beat : 0 .. Beats - 1]
OBVIOUS

LEMMA TypeStep ==
  ASSUME BridgeInv, NEW start \in Jobs \cup {NoJob}, NEW swap \in BOOLEAN,
         NEW ready \in BOOLEAN, NEW rsp \in BOOLEAN, Edge(start, swap, ready, rsp)
  PROVE  BridgeTypeOK'
<1>0. Beats \in Nat \ {0} /\ Slots \in Nat /\ BridgeTypeOK
  BY BridgeAssumption DEF BridgeInv
<1>1. /\ state' \in {"IDLE", "REQ", "XFER", "FLUSH", "DONE"}
      /\ hostAddr' \in Nat /\ bank' \in Banks /\ slot' \in 0 .. Slots
      /\ remaining' \in 0 .. Slots /\ tokensDone' \in 0 .. Slots
      /\ dmaDone' \in BOOLEAN /\ job' \in Jobs \cup {NoJob}
  <2>1. CASE Idle(start)
    BY <2>1, <1>0 DEF Idle, BridgeTypeOK
  <2>2. CASE Start(start)
    <3>1. start \in Jobs /\ start.src \in Nat /\ start.slot \in 0 .. Slots
          /\ start.num \in 0 .. Slots
      BY <2>2, <1>0, BridgeJobFacts DEF Start
    <3>2. bank' \in Banks
      BY <2>2 DEF Start, Banks, Other
    <3>3. remaining' \in 0 .. Slots /\ tokensDone' \in 0 .. Slots
      BY <2>2, <3>1, <1>0 DEF Start
    <3>4. hostAddr' \in Nat /\ slot' \in 0 .. Slots /\ job' \in Jobs
      BY <2>2, <3>1 DEF Start
    <3>5. state' = "REQ" /\ dmaDone' = FALSE
      BY <2>2 DEF Start
    <3> QED
      BY <3>2, <3>3, <3>4, <3>5
  <2>3. CASE Ask(ready)
    BY <2>3, <1>0 DEF Ask, BridgeTypeOK
  <2>4. CASE Transfer(rsp)
    BY <2>4, <1>0 DEF Transfer, BridgeTypeOK
  <2>5. CASE EndOfEntry(rsp)
    <3>1. job \in Jobs /\ tokensDone < job.num /\ remaining = job.num - tokensDone
      BY <2>5 DEF EndOfEntry, BridgeInv, Handshake, Counting
    <3>2. tokensDone + 1 \in 0 .. Slots /\ remaining - 1 \in 0 .. Slots
      BY <3>1, <1>0, BridgeJobFacts DEF BridgeTypeOK
    <3>3. tokensDone' = tokensDone + 1 /\ remaining' = remaining - 1
      BY <2>5, NoWrap DEF EndOfEntry
    <3>4. hostAddr' \in Nat /\ bank' \in Banks /\ slot' \in 0 .. Slots
      BY <2>5, <1>0 DEF EndOfEntry, BridgeTypeOK
    <3>5. state' \in {"FLUSH", "REQ"} /\ dmaDone' = FALSE /\ job' = job
      BY <2>5 DEF EndOfEntry
    <3> QED
      BY <3>1, <3>2, <3>3, <3>4, <3>5
  <2>6. CASE Flush
    BY <2>6, <1>0 DEF Flush, BridgeTypeOK
  <2>7. CASE Finish(start)
    BY <2>7, <1>0 DEF Finish, BridgeTypeOK
  <2> QED
    BY <2>1, <2>2, <2>3, <2>4, <2>5, <2>6, <2>7 DEF Edge, Fsm
<1>2. reqAddr' \in Nat /\ reqValid' \in BOOLEAN
  BY <1>0 DEF Edge, Request, BridgeTypeOK
<1>3. readBank' \in Banks /\ fresh' \in BOOLEAN
  BY <1>0 DEF Edge, Buffers, Banks, Other, BridgeTypeOK
<1>4. host' \in [busy : BOOLEAN, entry : Nat, beat : 0 .. Beats - 1]
  <2>1. /\ host \in [busy : BOOLEAN, entry : Nat, beat : 0 .. Beats - 1]
        /\ host.entry \in Nat /\ reqAddr \in Nat /\ 0 \in 0 .. Beats - 1
    BY <1>0 DEF BridgeTypeOK
  <2>2. ~LastBeat => host.beat + 1 \in 0 .. Beats - 1
    BY <1>0, <2>1 DEF LastBeat
  <2>3. \/ host' = host
        \/ host' = [busy |-> TRUE, entry |-> reqAddr, beat |-> 0]
        \/ host' = [busy |-> FALSE, entry |-> host.entry, beat |-> 0]
        \/ ~LastBeat /\ host' = [busy |-> TRUE, entry |-> host.entry, beat |-> host.beat + 1]
    BY DEF Edge, Host
  <2> QED
    BY <2>1, <2>2, <2>3, HostType
<1>5. /\ beat' \in 0 .. Beats - 1
      /\ write' \in [en : BOOLEAN, cell : Banks \X Nat \X Nat, data : Data]
  <2>1. Empty \in Data /\ <<host.entry, host.beat>> \in Data
    BY <1>0, BridgeAssumption DEF Data, Empty, BridgeTypeOK
  <2>2. /\ <<bank, slot + tokensDone, beat>> \in Banks \X Nat \X Nat
        /\ <<"A", 0, 0>> \in Banks \X Nat \X Nat
    BY <1>0 DEF Banks, BridgeTypeOK
  <2>3. beat' \in 0 .. Beats - 1
    BY <1>0 DEF Edge, WritePort, BridgeTypeOK
  <2>4. \/ write' = [en |-> TRUE, cell |-> <<bank, slot + tokensDone, beat>>,
                      data |-> <<host.entry, host.beat>>]
        \/ write' = [en |-> FALSE, cell |-> <<"A", 0, 0>>, data |-> Empty]
    BY DEF Edge, WritePort, NoWrite
  <2> DEFINE WT == [en : BOOLEAN, cell : Banks \X Nat \X Nat, data : Data]
  <2>5. [en |-> TRUE, cell |-> <<bank, slot + tokensDone, beat>>,
         data |-> <<host.entry, host.beat>>] \in WT
    BY <2>1, <2>2, WriteType, Zenon
  <2>6. [en |-> FALSE, cell |-> <<"A", 0, 0>>, data |-> Empty] \in WT
    BY <2>1, <2>2, WriteType, Zenon
  <2> QED
    BY <2>3, <2>4, <2>5, <2>6, Zenon
<1>6. hbm' \in [Cells -> Data]
  BY <1>0 DEF Edge, Memory, BridgeTypeOK
<1> QED
  BY <1>1, <1>2, <1>3, <1>4, <1>5, <1>6 DEF BridgeTypeOK

LEMMA PendingStep ==
  ASSUME BridgeInv, NEW start \in Jobs \cup {NoJob}, NEW swap \in BOOLEAN,
         NEW ready \in BOOLEAN, NEW rsp \in BOOLEAN, Edge(start, swap, ready, rsp)
  PROVE  Pending'
<1>1. CASE state = "XFER" /\ rsp
  <2>1. /\ write' = [en |-> TRUE, cell |-> <<bank, slot + tokensDone, beat>>,
                      data |-> <<host.entry, host.beat>>]
        /\ job \in Jobs /\ slot = job.slot /\ tokensDone < job.num
        /\ host.entry = job.src + tokensDone /\ host.beat = beat
        /\ tokensDone \in Nat /\ beat \in 0 .. Beats - 1
    BY <1>1 DEF Edge, WritePort, BridgeInv, Handshake, Counting, BridgeTypeOK
  <2>2. job' = job /\ bank' = bank /\ Busy'
    BY <1>1 DEF Edge, Fsm, Idle, Start, Ask, Transfer, EndOfEntry, Flush, Finish, Busy
  <2>3. tokensDone \in 0 .. job.num - 1
    BY <2>1, BridgeJobFacts
  <2> QED
    BY <2>1, <2>2, <2>3 DEF Pending
<1>2. CASE ~(state = "XFER" /\ rsp)
  BY <1>2 DEF Edge, WritePort, NoWrite, Pending
<1> QED
  BY <1>1, <1>2

(* The cell that is written is a cell of the memory.                       *)
LEMMA WriteInRange ==
  ASSUME BridgeInv, write.en
  PROVE  /\ job \in Jobs /\ write.cell \in Cells
         /\ \E i \in 0 .. job.num - 1, b \in 0 .. Beats - 1 :
              /\ write.cell = <<bank, job.slot + i, b>>
              /\ write.data = <<job.src + i, b>>
<1>1. job \in Jobs
  BY DEF BridgeInv, Handshake, Pending, Busy
<1>2. PICK i \in 0 .. job.num - 1, b \in 0 .. Beats - 1 :
        write.cell = <<bank, job.slot + i, b>> /\ write.data = <<job.src + i, b>>
  BY DEF BridgeInv, Pending
<1>3. job.slot + i \in 0 .. Slots - 1
  BY <1>1, BridgeJobFacts, BridgeAssumption
<1>4. <<bank, job.slot + i, b>> \in Cells
  BY <1>3 DEF Cells, BridgeInv, BridgeTypeOK
<1> QED
  BY <1>1, <1>2, <1>4

(* A write puts the beat in its place and spoils no other of the transfer. *)
LEMMA Lands ==
  ASSUME BridgeInv, Busy, Memory,
         NEW i \in 0 .. job.num - 1, NEW b \in 0 .. Beats - 1,
         \/ hbm[<<bank, job.slot + i, b>>] = <<job.src + i, b>>
         \/ write.en /\ write.cell = <<bank, job.slot + i, b>>
  PROVE  hbm'[<<bank, job.slot + i, b>>] = <<job.src + i, b>>
<1>1. job \in Jobs
  BY DEF BridgeInv, Handshake, Busy
<1>2. CASE write.en
  <2>1. PICK k \in 0 .. job.num - 1, d \in 0 .. Beats - 1 :
          write.cell = <<bank, job.slot + k, d>> /\ write.data = <<job.src + k, d>>
    BY <1>2 DEF BridgeInv, Pending
  <2>2. write.cell \in Cells
    BY <1>2, WriteInRange
  <2>3. hbm' = [hbm EXCEPT ![write.cell] = write.data] /\ hbm \in [Cells -> Data]
    BY <1>2 DEF Memory, BridgeInv, BridgeTypeOK
  <2>4. CASE write.cell = <<bank, job.slot + i, b>>
    <3>1. k = i /\ d = b
      BY <2>1, <2>4, <1>1, BridgeJobFacts
    <3> QED
      BY <2>1, <2>2, <2>3, <2>4, <3>1
  <2>5. CASE write.cell # <<bank, job.slot + i, b>>
    <3>1. job.slot + i \in 0 .. Slots - 1
      BY <1>1, BridgeJobFacts, BridgeAssumption
    <3>2. <<bank, job.slot + i, b>> \in Cells
      BY <3>1 DEF Cells, BridgeInv, BridgeTypeOK
    <3> QED
      BY <2>3, <2>5, <3>2
  <2> QED
    BY <2>4, <2>5
<1>3. CASE ~write.en
  BY <1>3 DEF Memory
<1> QED
  BY <1>2, <1>3

(* After an edge that writes nothing new, what was received has landed.    *)
LEMMA LandingStep ==
  ASSUME BridgeInv, NEW start \in Jobs \cup {NoJob}, NEW swap \in BOOLEAN,
         NEW ready \in BOOLEAN, NEW rsp \in BOOLEAN, Edge(start, swap, ready, rsp)
  PROVE  Landing'
<1>0. BridgeTypeOK /\ Handshake /\ Counting /\ Landing /\ Memory /\ Beats \in Nat \ {0}
  BY BridgeAssumption DEF BridgeInv, Edge
<1>1. CASE Idle(start)
  BY <1>1 DEF Idle, Landing, Busy
<1>2. CASE Start(start)
  <2>1. tokensDone' = 0 /\ beat' = 0
    BY <1>0, <1>2 DEF Start, Edge, WritePort, Handshake
  <2> QED
    BY <2>1, <1>0 DEF Landing, Received
<1>3. CASE Ask(ready) \/ (Transfer(rsp) /\ ~rsp)
  <2>1. /\ UNCHANGED <<tokensDone, beat, job, bank>> /\ Busy
    BY <1>3 DEF Ask, Transfer, Edge, WritePort, Busy
  <2> QED
    BY <2>1, <1>0, Lands DEF Landing, Received
<1>4. CASE Transfer(rsp) /\ rsp
  <2>1. /\ UNCHANGED <<tokensDone, job, bank>> /\ Busy /\ slot = job.slot
        /\ write'.en /\ write'.cell = <<bank, job.slot + tokensDone, beat>>
        /\ tokensDone \in Nat /\ beat \in Nat
    BY <1>0, <1>4 DEF Transfer, Edge, WritePort, Busy, Counting, BridgeTypeOK
  <2>2. beat' = beat + 1
    BY <1>0, <1>4 DEF Transfer, Edge, WritePort, Handshake, LastBeat
  <2>3. SUFFICES ASSUME NEW i \in 0 .. job.num - 1, NEW b \in 0 .. Beats - 1,
                        i < tokensDone \/ (i = tokensDone /\ b < beat + 1)
                 PROVE  \/ hbm'[<<bank, job.slot + i, b>>] = <<job.src + i, b>>
                        \/ write'.en /\ write'.cell = <<bank, job.slot + i, b>>
    BY <2>1, <2>2 DEF Landing, Received
  <2>4. CASE Received(i, b)
    BY <2>4, <2>1, <1>0, Lands DEF Landing
  <2>5. CASE ~Received(i, b)
    <3>1. i = tokensDone /\ b = beat
      BY <2>1, <2>3, <2>5, <1>0 DEF Received
    <3> QED
      BY <2>1, <3>1
  <2> QED
    BY <2>4, <2>5
<1>5. CASE EndOfEntry(rsp)
  <2>1. /\ UNCHANGED <<job, bank>> /\ Busy /\ slot = job.slot /\ beat = Beats - 1
        /\ write'.en /\ write'.cell = <<bank, job.slot + tokensDone, beat>>
        /\ tokensDone \in Nat
    BY <1>0, <1>5 DEF EndOfEntry, Edge, WritePort, Busy, Counting, BridgeTypeOK,
                      Handshake, LastBeat
  <2>2. beat' = 0 /\ tokensDone' = tokensDone + 1
    BY <1>0, <1>5, NoWrap DEF EndOfEntry, Edge, WritePort, LastBeat
  <2>3. SUFFICES ASSUME NEW i \in 0 .. job.num - 1, NEW b \in 0 .. Beats - 1,
                        i < tokensDone + 1 \/ (i = tokensDone + 1 /\ b < 0)
                 PROVE  \/ hbm'[<<bank, job.slot + i, b>>] = <<job.src + i, b>>
                        \/ write'.en /\ write'.cell = <<bank, job.slot + i, b>>
    BY <2>1, <2>2 DEF Landing, Received
  <2>4. CASE Received(i, b)
    BY <2>4, <2>1, <1>0, Lands DEF Landing
  <2>5. CASE ~Received(i, b)
    <3>1. i = tokensDone /\ b = beat
      BY <2>1, <2>3, <2>5, <1>0 DEF Received
    <3> QED
      BY <2>1, <3>1
  <2> QED
    BY <2>4, <2>5
<1>6. CASE Flush \/ Finish(start)
  BY <1>6 DEF Flush, Finish, Landing, Busy
<1> QED
  BY <1>1, <1>2, <1>3, <1>4, <1>5, <1>6 DEF Edge, Fsm

LEMMA BridgeInvStep ==
  ASSUME BridgeInv, [BridgeNext]_bridgeVars
  PROVE  BridgeInv'
<1>1. CASE BridgeNext
  <2>1. PICK start \in Jobs \cup {NoJob}, swap \in BOOLEAN, ready \in BOOLEAN,
             rsp \in BOOLEAN : Edge(start, swap, ready, rsp)
    BY <1>1 DEF BridgeNext
  <2> QED
    BY <2>1, TypeStep, HandshakeStep, CountingStep, PendingStep, LandingStep DEF BridgeInv
<1>2. CASE UNCHANGED bridgeVars
  BY <1>2 DEF bridgeVars, BridgeInv, BridgeTypeOK, Handshake, Counting, Pending, Landing, Received,
              Busy
<1> QED
  BY <1>1, <1>2

LEMMA BridgeInvInit ==
  ASSUME BridgeInit
  PROVE  BridgeInv
<1>1. Beats \in Nat \ {0} /\ Slots \in Nat /\ Empty \in Data
  BY BridgeAssumption DEF Empty, Data
<1>2. BridgeTypeOK
  <2>1. <<"A", 0, 0>> \in Banks \X Nat \X Nat
    BY DEF Banks
  <2>2. write \in [en : BOOLEAN, cell : Banks \X Nat \X Nat, data : Data]
    BY <1>1, <2>1, WriteType, Zenon DEF BridgeInit, NoWrite
  <2>3. host \in [busy : BOOLEAN, entry : Nat, beat : 0 .. Beats - 1]
    BY <1>1 DEF BridgeInit
  <2>4. hbm \in [Cells -> Data]
    BY <1>1 DEF BridgeInit
  <2>5. beat \in 0 .. Beats - 1 /\ slot \in 0 .. Slots
        /\ remaining \in 0 .. Slots /\ tokensDone \in 0 .. Slots
    BY <1>1 DEF BridgeInit
  <2>6. /\ state \in {"IDLE", "REQ", "XFER", "FLUSH", "DONE"}
        /\ hostAddr \in Nat /\ reqAddr \in Nat /\ bank \in Banks /\ readBank \in Banks
        /\ job \in Jobs \cup {NoJob}
    BY DEF BridgeInit, Banks
  <2>7. reqValid \in BOOLEAN /\ dmaDone \in BOOLEAN /\ fresh \in BOOLEAN
    BY DEF BridgeInit
  <2> QED
    BY <2>2, <2>3, <2>4, <2>5, <2>6, <2>7 DEF BridgeTypeOK
<1>3. Handshake /\ Counting
  BY DEF BridgeInit, Handshake, Counting
<1>4. Pending /\ Landing
  BY DEF BridgeInit, Pending, Landing, NoWrite, Busy
<1> QED
  BY <1>2, <1>3, <1>4 DEF BridgeInv

-----------------------------------------------------------------------------
(* The registers keep their types, whatever the host does.                 *)
THEOREM BridgeTypes == BridgeSpec => []BridgeTypeOK
<1>1. BridgeInit => BridgeInv
  BY BridgeInvInit
<1>2. BridgeInv /\ [BridgeNext]_bridgeVars => BridgeInv'
  BY BridgeInvStep
<1>3. BridgeInv => BridgeTypeOK
  BY DEF BridgeInv
<1> QED
  BY <1>1, <1>2, <1>3, PTL DEF BridgeSpec

(* A transfer writes no entry but its own, whatever the host does: no      *)
(* count wraps and no write of an earlier transfer is left over.           *)
THEOREM BridgeWritesItsJob == BridgeSpec => OnlyTheJob
<1>1. BridgeInit => BridgeInv
  BY BridgeInvInit
<1>2. BridgeInv /\ [BridgeNext]_bridgeVars => BridgeInv'
  BY BridgeInvStep
<1>3. BridgeInv /\ [BridgeNext]_bridgeVars =>
        [\A c \in Cells :
           hbm'[c] # hbm[c] => c[2] \in job.slot .. job.slot + job.num - 1]_bridgeVars
  <2>1. SUFFICES ASSUME BridgeInv, BridgeNext, NEW c \in Cells, hbm'[c] # hbm[c]
                 PROVE  c[2] \in job.slot .. job.slot + job.num - 1
    OBVIOUS
  <2>2. Memory /\ hbm \in [Cells -> Data]
    BY <2>1 DEF BridgeNext, Edge, BridgeInv, BridgeTypeOK
  <2>3. write.en /\ c = write.cell
    BY <2>1, <2>2 DEF Memory
  <2>4. job \in Jobs
    BY <2>1, <2>3, WriteInRange
  <2>5. PICK i \in 0 .. job.num - 1, b \in 0 .. Beats - 1 : c = <<bank, job.slot + i, b>>
    BY <2>1, <2>3, WriteInRange
  <2>6. c[2] = job.slot + i
    BY <2>5
  <2> QED
    BY <2>4, <2>6, BridgeJobFacts
<1> QED
  BY <1>1, <1>2, <1>3, PTL DEF BridgeSpec, OnlyTheJob

-----------------------------------------------------------------------------
(* With a host that waits for the swap.                                    *)
LEMMA OtherBank ==
  ASSUME NEW b \in Banks
  PROVE  Other(b) \in Banks /\ Other(b) # b
BY DEF Banks, Other

LEMMA OfferingStep ==
  ASSUME WaitsForSwap, BridgeInv, Offering, [BridgeNext]_bridgeVars
  PROVE  Offering'
<1>1. CASE UNCHANGED bridgeVars
  BY <1>1 DEF bridgeVars, Offering, ReadyMeansCopied, Busy
<1>2. CASE BridgeNext
  <2>1. PICK start \in Jobs \cup {NoJob}, swap \in BOOLEAN, ready \in BOOLEAN,
             rsp \in BOOLEAN : Edge(start, swap, ready, rsp)
    BY <1>2 DEF BridgeNext
  <2>2. CASE Flush
    <3>1. /\ state = "FLUSH" /\ state' = "DONE" /\ dmaDone' /\ fresh'
          /\ UNCHANGED <<job, tokensDone>> /\ ~fresh /\ Memory
      BY <2>1, <2>2 DEF Flush, Edge, Buffers, Offering, Busy
    <3>2. readBank' = readBank /\ bank = Other(readBank) /\ Busy
      BY <2>1, <3>1 DEF Edge, Buffers, Offering, Busy
    <3>3. job \in Jobs /\ tokensDone = job.num
      BY <3>1 DEF BridgeInv, Handshake, Counting
    <3>4. ASSUME NEW i \in 0 .. job.num - 1, NEW b \in 0 .. Beats - 1
          PROVE  hbm'[<<bank, job.slot + i, b>>] = <<job.src + i, b>>
      <4>1. Received(i, b)
        BY <3>3, BridgeJobFacts DEF Received
      <4> QED
        BY <4>1, <3>1, <3>2, Lands DEF BridgeInv, Landing
    <3> QED
      BY <3>1, <3>2, <3>3, <3>4 DEF Offering, ReadyMeansCopied, Busy
  <2>3. CASE Start(start)
    <3>1. /\ ~fresh /\ ~fresh' /\ ~dmaDone'
          /\ bank' = Other(readBank) /\ readBank' = readBank
      BY <2>1, <2>3 DEF Start, Edge, Buffers
    <3> QED
      BY <3>1 DEF Offering
  <2>4. CASE Ask(ready) \/ Transfer(rsp) \/ EndOfEntry(rsp)
    <3>1. Busy /\ state # "FLUSH" /\ ~dmaDone' /\ bank' = bank
      BY <2>4 DEF Ask, Transfer, EndOfEntry, Busy
    <3>2. ~fresh /\ ~fresh' /\ readBank' = readBank /\ bank = Other(readBank)
      BY <2>1, <3>1 DEF Edge, Buffers, Offering
    <3> QED
      BY <3>1, <3>2 DEF Offering
  <2>5. CASE Idle(start) \/ Finish(start)
    <3>1. /\ ~Busy /\ ~Busy' /\ state # "FLUSH" /\ ~dmaDone'
          /\ UNCHANGED <<job, tokensDone>>
      BY <2>5 DEF Idle, Finish, Busy
    <3>2. hbm' = hbm
      BY <2>1, <3>1 DEF Edge, Memory, BridgeInv, Pending
    <3>3. fresh' => fresh /\ readBank' = readBank
      BY <2>1, <3>1 DEF Edge, Buffers
    <3> QED
      BY <3>1, <3>2, <3>3 DEF Offering, ReadyMeansCopied
  <2> QED
    BY <2>1, <2>2, <2>3, <2>4, <2>5 DEF Edge, Fsm
<1> QED
  BY <1>1, <1>2

LEMMA OfferingInit ==
  ASSUME BridgeInit
  PROVE  Offering
BY DEF BridgeInit, Offering, Busy

(* buf_b_ready and dma_done mean that the whole transfer is in the bank    *)
(* that is not being read.                                                 *)
THEOREM BridgeReady ==
  ASSUME WaitsForSwap
  PROVE  BridgeSpec => []ReadyMeansCopied
<1>1. BridgeInit => BridgeInv /\ Offering
  BY BridgeInvInit, OfferingInit
<1>2. BridgeInv /\ Offering /\ [BridgeNext]_bridgeVars => (BridgeInv /\ Offering)'
  BY BridgeInvStep, OfferingStep
<1>3. BridgeInv /\ Offering => ReadyMeansCopied
  BY DEF Offering, ReadyMeansCopied
<1> QED
  BY <1>1, <1>2, <1>3, PTL DEF BridgeSpec

(* The bank that the FPGA reads is never written.                          *)
THEOREM BridgeReadsStableBank ==
  ASSUME WaitsForSwap
  PROVE  BridgeSpec => ReadBankStable
<1>1. BridgeInit => BridgeInv /\ Offering
  BY BridgeInvInit, OfferingInit
<1>2. BridgeInv /\ Offering /\ [BridgeNext]_bridgeVars => (BridgeInv /\ Offering)'
  BY BridgeInvStep, OfferingStep
<1>3. BridgeInv /\ Offering /\ [BridgeNext]_bridgeVars =>
        [\A c \in Cells : c[1] = readBank => hbm'[c] = hbm[c]]_bridgeVars
  <2>1. SUFFICES ASSUME BridgeInv, Offering, BridgeNext,
                        NEW c \in Cells, c[1] = readBank, hbm'[c] # hbm[c]
                 PROVE  FALSE
    OBVIOUS
  <2>2. Memory /\ hbm \in [Cells -> Data] /\ readBank \in Banks
    BY <2>1 DEF BridgeNext, Edge, BridgeInv, BridgeTypeOK
  <2>3. write.en /\ c = write.cell
    BY <2>1, <2>2 DEF Memory
  <2>4. bank = Other(readBank)
    BY <2>1, <2>3 DEF BridgeInv, Pending, Offering
  <2>5. PICK i \in 0 .. job.num - 1, b \in 0 .. Beats - 1 : c = <<bank, job.slot + i, b>>
    BY <2>1, <2>3, WriteInRange
  <2>6. c[1] = bank
    BY <2>5
  <2> QED
    BY <2>1, <2>2, <2>4, <2>6, OtherBank
<1> QED
  BY <1>1, <1>2, <1>3, PTL DEF BridgeSpec, ReadBankStable

-----------------------------------------------------------------------------
(* The preloader: entries from HBM into the ring of the cache.             *)

(* A step writes one place of the ring and of the buffer.                  *)
PreShapes ==
  /\ ring = [s \in RingSlots |-> ring[s]]
  /\ preBuf = [b \in 0 .. PreBeats - 1 |-> preBuf[b]]

(* The first n entries of the job are the last n in the ring, but for the  *)
(* first beats of all but one.                                             *)
Written(n) ==
  preJob.num <= NumSlots =>
    /\ ringFill >= n
    /\ \A i \in 1 .. n, b \in 0 .. PreBeats - 1 :
         b > 0 \/ i = 1 => LastWritten(n, i)[b] = <<preJob.base + i - 1, b>>

(* The beats before n of the entry at hand are in the buffer.              *)
Gathered(n) ==
  \A b \in 0 .. n - 1 : b > 0 \/ preIdx = 0 => preBuf[b] = <<preBase + preIdx, b>>

(* How far a transfer is: preIdx entries are handed over.                  *)
Reading ==
  preState = "READ" =>
    /\ preJob \in PreJobs /\ preBase = preJob.base
    /\ preRemain >= 1 /\ preIdx + preRemain = preJob.num
    /\ Gathered(IF preReady THEN PreBeats ELSE preBeat)
    /\ Written(preIdx)

(* entry_ready is up with the count back at 0; done is the cycle after the *)
(* last entry.                                                             *)
Pulses ==
  /\ preReady => preBeat = 0
  /\ preDone => preState = "DONE" /\ Written(preJob.num)

PreInv == PreTypeOK /\ PreShapes /\ Reading /\ Pulses

-----------------------------------------------------------------------------
(* The places counted back from the write pointer.                         *)
LEMMA RingMod ==
  ASSUME NEW x \in 0 .. 2 * NumSlots - 1
  PROVE  x % NumSlots = IF x < NumSlots THEN x ELSE x - NumSlots
<1>1. NumSlots \in Nat \ {0}
  BY CacheAssumption
<1>2. CASE x < NumSlots
  BY <1>1, <1>2
<1>3. CASE x >= NumSlots
  BY <1>1, <1>3
<1> QED
  BY <1>1, <1>2, <1>3

(* A write adds a place in front and leaves the ones behind it where they  *)
(* were, as long as the ring is not full of the same transfer.             *)
LEMMA RingBehind ==
  ASSUME NEW p \in RingSlots, NEW n \in Nat, n < NumSlots
  PROVE  /\ (NextSlot(p) + NumSlots - (n + 1) + (n + 1) - 1) % NumSlots = p
         /\ \A i \in 1 .. n :
              LET s == (p + NumSlots - n + i - 1) % NumSlots
              IN  /\ (NextSlot(p) + NumSlots - (n + 1) + i - 1) % NumSlots = s
                  /\ s \in RingSlots /\ s # p
<1>1. NumSlots \in Nat \ {0} /\ p \in 0 .. NumSlots - 1
  BY CacheAssumption DEF RingSlots
<1>2. NextSlot(p) \in 0 .. NumSlots - 1
  BY <1>1 DEF NextSlot
<1>3. (NextSlot(p) + NumSlots - (n + 1) + (n + 1) - 1) % NumSlots = p
  <2>1. NextSlot(p) + NumSlots - (n + 1) + (n + 1) - 1 = NextSlot(p) + NumSlots - 1
    BY <1>1, <1>2
  <2>2. (NextSlot(p) + NumSlots - 1) % NumSlots
          = IF NextSlot(p) + NumSlots - 1 < NumSlots THEN NextSlot(p) + NumSlots - 1
            ELSE NextSlot(p) - 1
    BY <1>1, <1>2, RingMod
  <2> QED
    BY <1>1, <2>1, <2>2 DEF NextSlot
<1>4. ASSUME NEW i \in 1 .. n
      PROVE  LET s == (p + NumSlots - n + i - 1) % NumSlots
             IN  /\ (NextSlot(p) + NumSlots - (n + 1) + i - 1) % NumSlots = s
                 /\ s \in RingSlots /\ s # p
  <2> DEFINE x == p + NumSlots - n + i - 1
             y == NextSlot(p) + NumSlots - (n + 1) + i - 1
  <2>1. x \in 0 .. 2 * NumSlots - 1 /\ y \in 0 .. 2 * NumSlots - 1
    BY <1>1, <1>2
  <2>2. /\ x % NumSlots = IF x < NumSlots THEN x ELSE x - NumSlots
        /\ y % NumSlots = IF y < NumSlots THEN y ELSE y - NumSlots
    BY <2>1, RingMod
  <2>3. y = IF p = NumSlots - 1 THEN x - NumSlots ELSE x
    BY <1>1 DEF NextSlot
  <2>4. x # p /\ x # p + NumSlots
    BY <1>1
  <2>5. y % NumSlots = x % NumSlots
    BY <1>1, <2>1, <2>2, <2>3
  <2>6. x % NumSlots \in RingSlots /\ x % NumSlots # p
    BY <1>1, <2>1, <2>2, <2>4 DEF RingSlots
  <2> QED
    BY <2>5, <2>6
<1> QED
  BY <1>3, <1>4

(* An entry that is handed over joins those before it.                     *)
LEMMA WriteEntry ==
  ASSUME PreInv, NEW n \in Nat, n < preJob.num, preJob.num \in Nat, preJob.base \in Nat,
         Written(n), UNCHANGED preJob, CacheWrite(preBuf),
         \A b \in 0 .. PreBeats - 1 :
           b > 0 \/ n = 0 => preBuf[b] = <<preJob.base + n, b>>
  PROVE  Written(n + 1)'
<1> SUFFICES ASSUME preJob.num <= NumSlots
    PROVE /\ ringFill' >= n + 1
          /\ \A i \in 1 .. n + 1, b \in 0 .. PreBeats - 1 :
               b > 0 \/ i = 1 => LastWritten(n + 1, i)'[b] = <<preJob.base + i - 1, b>>
  BY DEF Written
<1>1. /\ NumSlots \in Nat \ {0} /\ n < NumSlots /\ ringPtr \in RingSlots
      /\ ringFill \in 0 .. NumSlots /\ ring = [s \in RingSlots |-> ring[s]]
  BY CacheAssumption DEF PreInv, PreTypeOK, PreShapes
<1>2. /\ ring' = [ring EXCEPT ![ringPtr] = preBuf] /\ ringPtr' = NextSlot(ringPtr)
      /\ ringFill' = IF ringFill < NumSlots THEN ringFill + 1 ELSE ringFill
  BY DEF CacheWrite
<1>3. ringFill' >= n + 1
  BY <1>1, <1>2 DEF Written
<1>4. LastWritten(n + 1, n + 1)' = preBuf
  <2>1. LastWritten(n + 1, n + 1)' = ring'[ringPtr]
    BY <1>1, <1>2, RingBehind DEF LastWritten
  <2> QED
    BY <2>1, <1>1, <1>2
<1>5. ASSUME NEW i \in 1 .. n PROVE LastWritten(n + 1, i)' = LastWritten(n, i)
  <2> DEFINE s == (ringPtr + NumSlots - n + i - 1) % NumSlots
  <2>1. LastWritten(n + 1, i)' = ring'[s] /\ s \in RingSlots /\ s # ringPtr
    BY <1>1, <1>2, RingBehind DEF LastWritten
  <2> QED
    BY <2>1, <1>1, <1>2 DEF LastWritten
<1>6. ASSUME NEW i \in 1 .. n + 1, NEW b \in 0 .. PreBeats - 1, b > 0 \/ i = 1
      PROVE  LastWritten(n + 1, i)'[b] = <<preJob.base + i - 1, b>>
  <2>1. CASE i = n + 1
    BY <1>4, <1>6, <2>1
  <2>2. CASE i \in 1 .. n
    BY <1>5, <1>6, <2>2 DEF Written
  <2> QED
    BY <2>1, <2>2
<1> QED
  BY <1>3, <1>6

-----------------------------------------------------------------------------
LEMMA PreJobFacts ==
  ASSUME NEW j \in PreJobs
  PROVE  /\ j.base \in 0 .. PreEntries - 1 /\ j.num \in 1 .. PreEntries
         /\ j.base + j.num <= PreEntries
BY DEF PreJobs

(* What an edge does to the buffer, the ring and their registers.          *)
LEMMA BufferStep ==
  ASSUME PreInv, NEW start \in BOOLEAN, EntryBuffer(start),
         CacheEdge(FALSE, NoEntry, PreloadEn, preBuf)
  PROVE  /\ PreShapes' /\ preBeat' \in 0 .. PreBeats - 1 /\ preReady' \in BOOLEAN
         /\ ringPtr' \in RingSlots /\ ringFill' \in 0 .. NumSlots
<1>1. /\ NumSlots \in Nat \ {0} /\ PreBeats \in Nat \ {0}
      /\ PreShapes /\ preBeat \in 0 .. PreBeats - 1
      /\ ringPtr \in 0 .. NumSlots - 1 /\ ringFill \in 0 .. NumSlots
  BY CacheAssumption, PreloadAssumption DEF PreInv, PreTypeOK, RingSlots
<1>2. preBeat' \in 0 .. PreBeats - 1 /\ preBuf' = [b \in 0 .. PreBeats - 1 |-> preBuf'[b]]
  BY <1>1 DEF EntryBuffer, PreShapes
<1>3. preReady' \in BOOLEAN
  BY DEF EntryBuffer
<1>4. /\ ringPtr' \in RingSlots /\ ringFill' \in 0 .. NumSlots
      /\ ring' = [s \in RingSlots |-> ring'[s]]
  BY <1>1 DEF CacheEdge, CacheWrite, NextSlot, PreShapes, RingSlots, cacheVars
<1> QED
  BY <1>2, <1>3, <1>4 DEF PreShapes

LEMMA StartStep ==
  ASSUME PreInv, NEW start \in BOOLEAN, NEW todo \in PreJobs, start, PreStart(todo),
         EntryBuffer(start), CacheEdge(FALSE, NoEntry, PreloadEn, preBuf)
  PROVE  PreInv'
<1>1. /\ preState = "IDLE" /\ preState' = "READ" /\ preBase' = todo.base
      /\ preRemain' = todo.num /\ preIdx' = 0 /\ preDone' = FALSE /\ preJob' = todo
      /\ preReady' = FALSE /\ preBeat' = 0 /\ UNCHANGED cacheVars
  BY DEF PreStart, EntryBuffer, CacheEdge, PreloadEn
<1>2. PreTypeOK' /\ PreShapes'
  <2>1. todo.base \in 0 .. PreEntries - 1 /\ todo.num \in 0 .. PreEntries
    BY PreJobFacts, PreloadAssumption
  <2>2. 0 \in 0 .. PreEntries - 1
    BY PreloadAssumption
  <2>3. /\ PreShapes' /\ preBeat' \in 0 .. PreBeats - 1 /\ preReady' \in BOOLEAN
        /\ ringPtr' \in RingSlots /\ ringFill' \in 0 .. NumSlots
    BY BufferStep
  <2> QED
    BY <1>1, <2>1, <2>2, <2>3 DEF PreTypeOK
<1>3. Reading'
  <2>1. Written(0)'
    BY <1>1, <1>2 DEF Written, PreTypeOK
  <2>2. Gathered(0)'
    BY DEF Gathered
  <2> QED
    BY <1>1, <2>1, <2>2, PreJobFacts DEF Reading
<1> QED
  BY <1>1, <1>2, <1>3 DEF PreInv, Pulses

LEMMA IdleStep ==
  ASSUME PreInv, NEW start \in BOOLEAN, PreIdle(start),
         EntryBuffer(start), CacheEdge(FALSE, NoEntry, PreloadEn, preBuf)
  PROVE  PreInv'
<1>1. /\ preState # "READ" /\ preState' = "IDLE" /\ preDone' = FALSE /\ preReady' = FALSE
      /\ UNCHANGED <<preBase, preRemain, preIdx, preJob>>
  BY DEF PreIdle, EntryBuffer
<1>2. PreTypeOK' /\ PreShapes'
  BY <1>1, BufferStep DEF PreTypeOK, PreInv
<1> QED
  BY <1>1, <1>2 DEF PreInv, Pulses, Reading

(* A beat arrives; with the last one the entry is ready.                   *)
LEMMA ReadStep ==
  ASSUME PreInv, NEW start \in BOOLEAN, PreRead,
         EntryBuffer(start), CacheEdge(FALSE, NoEntry, PreloadEn, preBuf)
  PROVE  PreInv'
<1>1. /\ preState = "READ" /\ ~preReady /\ preDone' = FALSE
      /\ UNCHANGED <<preState, preBase, preRemain, preIdx, preJob>> /\ UNCHANGED cacheVars
  BY DEF PreRead, CacheEdge, PreloadEn
<1>2. PreTypeOK' /\ PreShapes'
  BY <1>1, BufferStep DEF PreTypeOK, PreInv
<1>3. /\ preBuf' = [preBuf EXCEPT ![preBeat] = <<preBase + preIdx, preBeat>>]
      /\ preReady' <=> preBeat = PreBeats - 1
      /\ preBeat' = IF preBeat = PreBeats - 1 THEN 0 ELSE preBeat + 1
  BY <1>1 DEF EntryBuffer, HbmBeat
<1>4. PreBeats \in Nat \ {0} /\ preBeat \in 0 .. PreBeats - 1 /\ PreShapes
  BY PreloadAssumption DEF PreInv, PreTypeOK
<1>5. ASSUME NEW b \in 0 .. preBeat, b > 0 \/ preIdx = 0
      PROVE  preBuf'[b] = <<preBase + preIdx, b>>
  <2>1. CASE b = preBeat
    BY <2>1, <1>3, <1>4 DEF PreShapes
  <2>2. CASE b \in 0 .. preBeat - 1
    <3>1. preBuf[b] = <<preBase + preIdx, b>>
      BY <1>1, <1>5, <2>2 DEF PreInv, Reading, Gathered
    <3>2. preBuf'[b] = preBuf[b]
      BY <2>2, <1>3, <1>4 DEF PreShapes
    <3> QED
      BY <3>1, <3>2
  <2> QED
    BY <1>4, <2>1, <2>2
<1>6. Reading'
  <2>1. Written(preIdx)'
    BY <1>1 DEF PreInv, Reading, Written, LastWritten, cacheVars
  <2>2. Gathered(IF preReady THEN PreBeats ELSE preBeat)'
    <3>1. (IF preReady' THEN PreBeats ELSE preBeat') - 1 = preBeat
      BY <1>3, <1>4
    <3> QED
      BY <1>1, <1>5, <3>1 DEF Gathered
  <2> QED
    BY <1>1, <2>1, <2>2 DEF PreInv, Reading
<1> QED
  BY <1>1, <1>2, <1>3, <1>6 DEF PreInv, Pulses

(* An entry is handed over, and the beat that arrives meanwhile is of the  *)
(* old address: the next entry's first, and the whole of it if an entry    *)
(* has no more.                                                            *)
LEMMA HandOver ==
  ASSUME PreInv, NEW start \in BOOLEAN, preState = "READ", preReady, UNCHANGED preJob,
         EntryBuffer(start), CacheEdge(FALSE, NoEntry, PreloadEn, preBuf),
         NEW n, n = preIdx
  PROVE  /\ n \in Nat /\ Written(n + 1)'
         /\ IF PreBeats = 1 THEN preReady' /\ preBeat' = 0 ELSE ~preReady' /\ preBeat' = 1
<1>1. /\ preJob \in PreJobs /\ preIdx \in 0 .. PreEntries - 1 /\ preBase = preJob.base
      /\ preRemain \in Nat /\ preRemain >= 1 /\ preIdx + preRemain = preJob.num
      /\ Gathered(PreBeats) /\ Written(n)
  BY DEF PreInv, PreTypeOK, Reading
<1>2. PreBeats \in Nat \ {0} /\ PreEntries \in Nat /\ preBeat = 0
  BY PreloadAssumption DEF PreInv, Pulses
<1>3. preJob.base \in Nat /\ preJob.num \in Nat /\ n < preJob.num /\ n \in Nat
  BY <1>1, <1>2, PreJobFacts
<1>4. IF PreBeats = 1 THEN preReady' /\ preBeat' = 0 ELSE ~preReady' /\ preBeat' = 1
  <2>1. /\ preReady' <=> preBeat = PreBeats - 1
        /\ preBeat' = IF preBeat = PreBeats - 1 THEN 0 ELSE preBeat + 1
    BY Zenon DEF EntryBuffer
  <2>2. preBeat = PreBeats - 1 <=> PreBeats = 1
    BY <1>2
  <2>3. CASE PreBeats = 1
    BY <2>1, <2>2, <2>3
  <2>4. CASE PreBeats # 1
    <3>1. preBeat' = 1
      BY <1>2, <2>1, <2>2, <2>4
    <3> QED
      BY <2>1, <2>2, <2>4, <3>1, Zenon
  <2> QED
    BY <2>3, <2>4
<1>5. CacheWrite(preBuf)
  BY DEF CacheEdge, PreloadEn
<1>6. \A b \in 0 .. PreBeats - 1 : b > 0 \/ n = 0 => preBuf[b] = <<preJob.base + n, b>>
  BY <1>1 DEF Gathered
<1>7. Written(n + 1)'
  BY <1>1, <1>3, <1>5, <1>6, WriteEntry
<1> QED
  BY <1>3, <1>4, <1>7

LEMMA NextEntryStep ==
  ASSUME PreInv, NEW start \in BOOLEAN, PreNextEntry,
         EntryBuffer(start), CacheEdge(FALSE, NoEntry, PreloadEn, preBuf)
  PROVE  PreInv'
<1>1. /\ preState = "READ" /\ preReady /\ preRemain > 1 /\ preDone' = FALSE
      /\ preRemain' = preRemain - 1 /\ preIdx' = preIdx + 1
      /\ UNCHANGED <<preState, preBase, preJob>>
  BY DEF PreNextEntry
<1>2. /\ preJob \in PreJobs /\ preBase = preJob.base /\ preRemain \in 0 .. PreEntries
      /\ preIdx + preRemain = preJob.num /\ preIdx \in 0 .. PreEntries - 1
      /\ PreEntries \in Nat \ {0} /\ PreBeats \in Nat \ {0}
  BY <1>1, PreloadAssumption DEF PreInv, Reading, PreTypeOK
<1>3. PICK n : n = preIdx
  OBVIOUS
<1>4. /\ n \in Nat /\ Written(n + 1)'
      /\ IF PreBeats = 1 THEN preReady' /\ preBeat' = 0 ELSE ~preReady' /\ preBeat' = 1
  BY <1>1, <1>3, HandOver
<1>5. preJob.num \in 1 .. PreEntries
  BY <1>2, PreJobFacts
<1>6. PreTypeOK' /\ PreShapes'
  <2>1. preRemain' \in 0 .. PreEntries /\ preIdx' \in 0 .. PreEntries - 1
    BY <1>1, <1>2, <1>5
  <2>2. /\ PreShapes' /\ preBeat' \in 0 .. PreBeats - 1 /\ preReady' \in BOOLEAN
        /\ ringPtr' \in RingSlots /\ ringFill' \in 0 .. NumSlots
    BY BufferStep
  <2> QED
    BY <1>1, <2>1, <2>2 DEF PreInv, PreTypeOK
<1>7. Reading'
  <2>1. Written(preIdx)'
    BY <1>1, <1>3, <1>4
  <2>2. preIdx' # 0 /\ (IF preReady' THEN PreBeats ELSE preBeat') = 1
    BY <1>1, <1>3, <1>4
  <2>3. Gathered(IF preReady THEN PreBeats ELSE preBeat)'
    BY <2>2 DEF Gathered
  <2> QED
    BY <1>1, <1>2, <2>1, <2>3 DEF Reading
<1> QED
  BY <1>1, <1>4, <1>6, <1>7 DEF PreInv, Pulses

LEMMA LastEntryStep ==
  ASSUME PreInv, NEW start \in BOOLEAN, PreLastEntry,
         EntryBuffer(start), CacheEdge(FALSE, NoEntry, PreloadEn, preBuf)
  PROVE  PreInv'
<1>1. /\ preState = "READ" /\ preReady /\ preRemain <= 1
      /\ preState' = "DONE" /\ preDone' = TRUE
      /\ UNCHANGED <<preBase, preRemain, preIdx, preJob>>
  BY DEF PreLastEntry
<1>2. PICK n : n = preIdx
  OBVIOUS
<1>3. n \in Nat /\ Written(n + 1)' /\ (preReady' => preBeat' = 0)
  BY <1>1, <1>2, HandOver
<1>4. preJob'.num = n + 1
  <2>1. preRemain >= 1 /\ preRemain \in Nat /\ preIdx + preRemain = preJob.num
    BY <1>1 DEF PreInv, Reading, PreTypeOK
  <2> QED
    BY <1>1, <1>2, <1>3, <2>1
<1>5. PreTypeOK' /\ PreShapes'
  BY <1>1, BufferStep DEF PreInv, PreTypeOK
<1>6. Pulses'
  BY <1>1, <1>3, <1>4 DEF Pulses
<1> QED
  BY <1>1, <1>5, <1>6 DEF PreInv, Reading

LEMMA PreInvInit == ASSUME PreInit PROVE PreInv
<1> USE CacheAssumption, PreloadAssumption
<1>1. PreTypeOK
  <2>1. 0 \in RingSlots /\ 0 \in 0 .. NumSlots /\ 0 \in 0 .. PreBeats - 1
    BY DEF RingSlots
  <2>2. 0 \in 0 .. PreEntries - 1 /\ 0 \in 0 .. PreEntries
    OBVIOUS
  <2> QED
    BY <2>1, <2>2 DEF PreInit, CacheInit, PreTypeOK
<1>2. PreShapes
  BY DEF PreInit, CacheInit, PreShapes, RingSlots
<1> QED
  BY <1>1, <1>2 DEF PreInit, PreInv, Reading, Pulses

LEMMA PreInvStep ==
  ASSUME PreInv, [PreNext]_<<preVars, cacheVars>>
  PROVE  PreInv'
<1>1. CASE UNCHANGED <<preVars, cacheVars>>
  BY <1>1 DEF preVars, cacheVars, PreInv, PreTypeOK, PreShapes, Reading, Pulses, Gathered, Written,
     LastWritten
<1>2. ASSUME NEW start \in BOOLEAN, NEW todo \in PreJobs, PreEdge(start, todo)
      PROVE  PreInv'
  BY <1>2, StartStep, IdleStep, ReadStep, NextEntryStep, LastEntryStep DEF PreEdge
<1> QED
  BY <1>1, <1>2 DEF PreNext

LEMMA InvImpliesCorrect == ASSUME PreInv PROVE PreloaderCorrect
BY DEF PreInv, Pulses, Written, PreloaderCorrect, PreloadDelivers

(* Whatever the beats of an entry, the bank and the ring: when done        *)
(* pulses, the ring ends in as many entries as were asked for, the first   *)
(* of which is whole, and those after it have the bank's beats in order    *)
(* but for their first (the only one, if an entry has one beat).           *)
THEOREM PreloaderIsCorrect == PreSpec => []PreloaderCorrect
<1>1. PreInit => PreInv
  BY PreInvInit
<1>2. PreInv /\ [PreNext]_<<preVars, cacheVars>> => PreInv'
  BY PreInvStep
<1>3. PreInv => PreloaderCorrect
  BY InvImpliesCorrect
<1> QED
  BY <1>1, <1>2, <1>3, PTL DEF PreSpec

-----------------------------------------------------------------------------
(* The weight writer: words packed from the host, bursts to HBM.           *)

(* What the steps below assign has its type.                               *)
WriterShapes ==
  /\ wtBurst \in Nat /\ wtAddr \in Nat /\ wtNext \in Nat /\ burstsLeft \in Nat
  /\ wtGoal \in [addr : Nat, bursts : Nat] /\ wtAnswered \in Nat
  /\ wdataBuf \in [Lanes -> 0 .. 2]

(* How far a transfer is: what is left, and where the next burst goes.     *)
Underway ==
  /\ wtState \in {"AW", "WDATA"} =>
       wtNext = wtGoal.addr + wtAnswered /\ burstsLeft >= 1
         /\ wtAnswered + burstsLeft = wtGoal.bursts
  /\ wtState = "BRESP" =>
       wtNext = wtGoal.addr + wtAnswered + 1 /\ burstsLeft >= 1
         /\ wtAnswered + burstsLeft = wtGoal.bursts
  /\ wtState = "NEXT" =>
       wtNext = wtGoal.addr + wtAnswered /\ burstsLeft >= 1
         /\ wtAnswered + burstsLeft = wtGoal.bursts + 1
  /\ wtState = "DONE" => wtAnswered = wtGoal.bursts
  /\ wtState = "AW" /\ awValid => beatsLeft = BurstWords
  /\ wtState = "WDATA" => beatsLeft >= 1

(* While pairs come in time, the lanes before dataCnt are the word the     *)
(* host is writing, and a pending word is the one before, untouched.       *)
Packing ==
  wtInTime =>
    /\ wdataRdy => dataCnt = 0 /\ \A l \in Lanes : wdataBuf[l] = (wtWord + 2) % 3
    /\ ~wdataRdy => \A l \in 0 .. dataCnt - 1 : wdataBuf[l] = wtWord

(* The beats the memory took of a burst, against those put on the port:    *)
(* the last one put there may not be taken yet, and one left there with    *)
(* its last bit is taken first.                                            *)
BeatsSent ==
  /\ wtBeats \in Nat
  /\ wtState \in {"WDATA", "BRESP", "NEXT"} => ~awValid
  /\ wtState = "WDATA" =>
       /\ ~wValid => beatsLeft = BurstWords /\ ~wtLastTaken
       /\ wValid => wtBeats + 1 + beatsLeft >= BurstWords
       /\ wValid /\ wLast => beatsLeft = BurstWords
       /\ wtLastTaken => wtBeats + beatsLeft >= BurstWords
  /\ wtState = "BRESP" =>
       /\ wValid => wtBeats + 1 >= BurstWords
       /\ wtLastTaken => wtBeats >= BurstWords
  /\ NoBurstShort

(* Nothing is on the port outside a burst, and what is there when a burst  *)
(* has just ended is the pending word if there is one.                     *)
Ordered ==
  /\ WordsInOrder
  /\ wtInTime /\ wtSteady /\ wValid =>
       \/ wtState = "WDATA"
       \/ wtState = "BRESP" /\ (wdataRdy => \A l \in Lanes : wData[l] = (wtWord + 2) % 3)

WriterInv ==
  /\ WriterTypeOK /\ WriterShapes /\ Underway /\ Packing /\ BeatsSent /\ Ordered
  /\ DoneMeansAnswered /\ WordsWhole

-----------------------------------------------------------------------------
(* The lane after a lane.                                                  *)
LEMMA LaneAfter ==
  ASSUME NEW l \in Lanes
  PROVE  (l + 1) % WordPairs = IF l + 1 = WordPairs THEN 0 ELSE l + 1
<1>1. WordPairs \in Nat \ {0} /\ l \in 0 .. WordPairs - 1
  BY WriterAssumption DEF Lanes
<1>2. CASE l + 1 = WordPairs
  BY <1>1, <1>2
<1>3. CASE l + 1 < WordPairs
  BY <1>1, <1>3
<1> QED
  BY <1>1, <1>2, <1>3

(* The word before the next one is this one.                               *)
LEMMA WordAfter ==
  ASSUME NEW w \in 0 .. 2
  PROVE  /\ (w + 1) % 3 \in 0 .. 2
         /\ (((w + 1) % 3) + 2) % 3 = w /\ (((w + 1) % 3) + 1) % 3 = (w + 2) % 3
<1>1. w = 0 \/ w = 1 \/ w = 2
  OBVIOUS
<1> QED
  BY <1>1

(* The registers and the packer: a word is packed whole.                   *)
LEMMA PackStep ==
  ASSUME WriterInv, NEW wready \in BOOLEAN, Registers, Packer(wready)
  PROVE  /\ Packing' /\ dataCnt' \in Lanes /\ wtWord' \in 0 .. 2
         /\ wtBurst' \in Nat /\ wtAddr' \in Nat /\ wdataBuf' \in [Lanes -> 0 .. 2]
<1>1. /\ WordPairs \in Nat \ {0} /\ dataCnt \in Lanes /\ wtWord \in 0 .. 2
      /\ wtBurst \in Nat /\ wtAddr \in Nat /\ wdataBuf \in [Lanes -> 0 .. 2] /\ Packing
  BY WriterAssumption DEF WriterInv, WriterTypeOK, WriterShapes
<1>2. wtBurst' \in Nat /\ wtAddr' \in Nat
  BY <1>1, WriterAssumption DEF Registers, NoRegWrite, WriteControl, WriteJob, WriteData
<1>3. wtInTime' => wtInTime /\ ~(wtCommit /\ wdataRdy)
  BY DEF Registers
<1>4. CASE ~wtCommit
  <2>1. UNCHANGED <<dataCnt, wdataBuf, wtWord>> /\ (wdataRdy' => wdataRdy)
    BY <1>4 DEF Registers, Packer
  <2>2. ~wdataRdy' => ~wdataRdy \/ (wdataRdy /\ ~wdataRdy')
    OBVIOUS
  <2> QED
    BY <1>1, <1>2, <1>3, <2>1 DEF Packing
<1>5. CASE wtCommit /\ dataCnt + 1 = WordPairs
  <2>1. /\ dataCnt' = 0 /\ wdataBuf' = [wdataBuf EXCEPT ![dataCnt] = wtWord]
        /\ wtWord' = (wtWord + 1) % 3
    BY <1>1, <1>5, LaneAfter DEF Packer, Registers
  <2>2. wtWord' \in 0 .. 2 /\ (wtWord' + 2) % 3 = wtWord
    BY <1>1, <2>1, WordAfter
  <2>3. ~wdataRdy => wdataRdy'
    BY <1>5 DEF Packer
  <2>4. wtInTime' => ~wdataRdy /\ \A l \in Lanes : wdataBuf'[l] = wtWord
    BY <1>1, <1>3, <1>5, <2>1 DEF Packing, Lanes
  <2>5. 0 \in Lanes
    BY <1>1 DEF Lanes
  <2> QED
    BY <1>1, <1>2, <2>1, <2>2, <2>3, <2>4, <2>5 DEF Packing
<1>6. CASE wtCommit /\ dataCnt + 1 # WordPairs
  <2>1. /\ dataCnt' = dataCnt + 1 /\ wdataBuf' = [wdataBuf EXCEPT ![dataCnt] = wtWord]
        /\ wtWord' = wtWord /\ (~wdataRdy => ~wdataRdy')
    BY <1>1, <1>6, LaneAfter DEF Registers, Packer
  <2>2. dataCnt' \in Lanes
    BY <1>1, <1>6, <2>1 DEF Lanes
  <2>3. wtInTime' => ~wdataRdy' /\ \A l \in 0 .. dataCnt : wdataBuf'[l] = wtWord
    BY <1>1, <1>3, <1>6, <2>1 DEF Packing, Lanes
  <2> QED
    BY <1>1, <1>2, <2>1, <2>2, <2>3 DEF Packing, Lanes
<1> QED
  BY <1>4, <1>5, <1>6

(* What the order of the words needs to know of the packer.                *)
LEMMA PackOrder ==
  ASSUME WriterInv, NEW wready \in BOOLEAN, Registers, Packer(wready), wtInTime'
  PROVE  /\ wtInTime /\ wtWord \in 0 .. 2
         /\ wdataRdy => wtWord' = wtWord /\ (wdataRdy' <=> ~BeatTaken(wready))
         /\ ~wdataRdy => \/ wtWord' = wtWord /\ ~wdataRdy'
                         \/ wtWord' = (wtWord + 1) % 3 /\ wdataRdy'
<1>1. wtWord \in 0 .. 2 /\ wtInTime /\ ~(wtCommit /\ wdataRdy)
  BY DEF WriterInv, WriterTypeOK, Registers
<1>2. CASE wdataRdy
  BY <1>1, <1>2 DEF Registers, Packer
<1>3. CASE ~wdataRdy
  BY <1>1, <1>3 DEF Registers, Packer
<1> QED
  BY <1>1, <1>2, <1>3

(* The words stay in order whatever the FSM does.                          *)
LEMMA OrderStep ==
  ASSUME WriterInv, NEW awready \in BOOLEAN, NEW wready \in BOOLEAN, NEW late \in BOOLEAN,
         NEW answer \in {"none", "okay", "error"}, WriterEdge(awready, wready, answer, late)
  PROVE  Ordered'
<1> DEFINE Buffered(w) == \A l \in Lanes : wData[l] = (w + 2) % 3
<1> SUFFICES ASSUME wtInTime', wtSteady'
             PROVE  Ordered'
  BY DEF Ordered, WordsInOrder
<1>1. /\ Registers /\ Packer(wready) /\ wtSteady /\ ~BreaksOff(late)
      /\ Packing /\ Ordered /\ WriterTypeOK
  BY DEF WriterEdge, WriterInv
<1>2. /\ wtInTime /\ wtWord \in 0 .. 2
      /\ wdataRdy => wtWord' = wtWord /\ (wdataRdy' <=> ~BeatTaken(wready))
      /\ ~wdataRdy => \/ wtWord' = wtWord /\ ~wdataRdy'
                      \/ wtWord' = (wtWord + 1) % 3 /\ wdataRdy'
  BY <1>1, PackOrder
<1>3. (((wtWord + 1) % 3) + 1) % 3 = (wtWord + 2) % 3
  BY <1>2, WordAfter
<1>4. CASE wtState = "WDATA"
  <2>1. WtData(wready, late) /\ ~late /\ ~Abort
    BY <1>1, <1>4 DEF WriterEdge, WtIdle, WtAddress, WtResponse, WtNextBurst, WtDone, WtFailed,
       BreaksOff
  <2>2. CASE wdataRdy /\ (~wValid \/ wready)
    <3>1. wData' = wdataBuf /\ wtState' \in {"WDATA", "BRESP"} /\ wtWord' = wtWord
      BY <1>2, <2>1, <2>2 DEF WtData
    <3>2. \A l \in Lanes : wData'[l] = (wtWord' + 2) % 3
      BY <1>1, <1>2, <2>2, <3>1 DEF Packing
    <3> QED
      BY <3>1, <3>2 DEF Ordered, WordsInOrder
  <2>3. CASE ~(wdataRdy /\ (~wValid \/ wready))
    <3>1. wData' = wData /\ wtState' = "WDATA" /\ (wdataRdy => ~BeatTaken(wready))
      BY <2>1, <2>3 DEF WtData, BeatTaken
    <3> QED
      BY <1>1, <1>2, <1>3, <3>1 DEF Ordered, WordsInOrder
  <2> QED
    BY <2>2, <2>3
<1>5. CASE wtState = "BRESP"
  <2>1. wData' = wData /\ wValid' = FALSE
    BY <1>1, <1>5 DEF WriterEdge, WtIdle, WtAddress, WtData, WtResponse, WtNextBurst, WtDone, WtFailed
  <2> QED
    BY <1>1, <1>2, <1>3, <1>5, <2>1 DEF Ordered, WordsInOrder, BeatTaken
<1>6. CASE wtState \notin {"WDATA", "BRESP"}
  <2>1. wData' = wData /\ wValid' = wValid
    BY <1>1, <1>6 DEF WriterEdge, WtIdle, WtAddress, WtData, WtResponse, WtNextBurst, WtDone,
       WtFailed, wVars
  <2>2. ~wValid
    BY <1>1, <1>2, <1>6 DEF Ordered
  <2> QED
    BY <1>1, <1>2, <1>3, <2>1, <2>2 DEF Ordered, WordsInOrder, BeatTaken
<1> QED
  BY <1>4, <1>5, <1>6

(* The memory has taken what was put on the port, but for one beat.        *)
LEMMA SentStep ==
  ASSUME WriterInv, NEW awready \in BOOLEAN, NEW wready \in BOOLEAN, NEW late \in BOOLEAN,
         NEW answer \in {"none", "okay", "error"}, WriterEdge(awready, wready, answer, late)
  PROVE  BeatsSent'
<1>1. /\ BurstWords \in Nat \ {0} /\ beatsLeft \in 0 .. BurstWords /\ BeatsSent
      /\ MemoryTakes(awready, wready, answer) /\ (answer # "none" => wtLastTaken)
      /\ wtState = "AW" /\ awValid => beatsLeft = BurstWords
      /\ wtState = "WDATA" => beatsLeft >= 1
  BY WriterAssumption DEF WriterInv, WriterTypeOK, WriterEdge, Underway
<1>2. wtBeats' \in Nat
  BY <1>1 DEF MemoryTakes, BeatsSent
<1>3. CASE WtAddress(awready, late)
  <2>1. wtState = "AW" /\ UNCHANGED wValid /\ (wtState' = "WDATA" => awValid /\ awready)
        /\ wtState' \in {"AW", "WDATA", "ERR"}
        /\ (awValid => awValid' = FALSE /\ beatsLeft' = beatsLeft)
    BY <1>3 DEF WtAddress, wVars
  <2>2. awValid /\ awready => wtBeats' = 0 /\ ~wtLastTaken'
    BY <1>1 DEF MemoryTakes
  <2>3. CASE wtState' = "WDATA"
    <3>1. beatsLeft' = BurstWords /\ awValid' = FALSE /\ wtBeats' = 0 /\ ~wtLastTaken'
      BY <1>1, <2>1, <2>2, <2>3
    <3> QED
      BY <1>1, <2>3, <3>1 DEF BeatsSent, NoBurstShort
  <2>4. CASE wtState' # "WDATA"
    BY <1>2, <2>1, <2>4 DEF BeatsSent, NoBurstShort
  <2> QED
    BY <2>3, <2>4
<1>4. CASE WtData(wready, late)
  <2>1. /\ wtState = "WDATA" /\ ~awValid /\ awValid' = FALSE
        /\ wtState' \in {"WDATA", "BRESP", "ERR"}
    BY <1>1, <1>4 DEF WtData, BeatsSent
  <2>2. /\ wtBeats' = IF BeatTaken(wready) /\ wtBeats < BurstWords THEN wtBeats + 1 ELSE wtBeats
        /\ wtLastTaken' => wtLastTaken \/ (BeatTaken(wready) /\ wLast)
    BY <1>1, <2>1 DEF MemoryTakes
  <2>3. CASE wdataRdy /\ (~wValid \/ wready)
    <3>1. /\ beatsLeft' = beatsLeft - 1 /\ (wLast' <=> beatsLeft = 1)
          /\ wtState' = "WDATA" => wValid' /\ beatsLeft # 1
          /\ wtState' = "BRESP" => beatsLeft = 1
      BY <1>4, <2>3 DEF WtData
    <3>2. wValid => BeatTaken(wready)
      BY <2>3 DEF BeatTaken
    <3>3. ~wValid => beatsLeft = BurstWords /\ ~wtLastTaken /\ ~BeatTaken(wready)
      BY <1>1, <2>1 DEF BeatsSent, BeatTaken
    <3>4. wtBeats' + 1 + beatsLeft' >= BurstWords
      BY <1>1, <2>1, <2>2, <3>1, <3>2, <3>3 DEF BeatsSent
    <3>5. wtLastTaken' => wtBeats' + beatsLeft' >= BurstWords
      BY <1>1, <2>1, <2>2, <3>1, <3>2, <3>3 DEF BeatsSent
    <3>6. CASE wtState' = "WDATA"
      <4>1. ~awValid' /\ wValid' /\ ~wLast'
        BY <2>1, <3>1, <3>6
      <4> QED
        BY <1>2, <3>4, <3>5, <3>6, <4>1 DEF BeatsSent, NoBurstShort
    <3>7. CASE wtState' = "BRESP"
      <4>1. ~awValid' /\ beatsLeft' = 0
        BY <2>1, <3>1, <3>7
      <4>2. PICK left : left = beatsLeft'
        OBVIOUS
      <4>3. PICK taken : taken = wtBeats'
        OBVIOUS
      <4>4. left = 0 /\ taken \in Nat /\ BurstWords \in Nat /\ taken + 1 + left >= BurstWords
        BY <1>1, <1>2, <3>4, <4>1, <4>2, <4>3
      <4>5. wtLastTaken' => taken + left >= BurstWords
        BY <3>5, <4>2, <4>3
      <4>6. taken + 1 >= BurstWords /\ (taken + left >= BurstWords => taken >= BurstWords)
        BY <4>4
      <4> QED
        BY <1>2, <3>7, <4>1, <4>3, <4>5, <4>6 DEF BeatsSent, NoBurstShort
    <3>8. CASE wtState' = "ERR"
      BY <1>2, <3>8 DEF BeatsSent, NoBurstShort
    <3> QED
      BY <2>1, <3>6, <3>7, <3>8
  <2>4. CASE ~(wdataRdy /\ (~wValid \/ wready))
    <3>1. /\ UNCHANGED <<beatsLeft, wLast>> /\ wtState' \in {"WDATA", "ERR"}
          /\ wtState' = "WDATA" => (wValid' <=> wValid)
      BY <1>4, <2>4 DEF WtData
    <3>2. BeatTaken(wready) => wValid
      BY DEF BeatTaken
    <3> QED
      BY <1>1, <1>2, <2>1, <2>2, <3>1, <3>2 DEF BeatsSent, NoBurstShort
  <2> QED
    BY <2>3, <2>4
<1>5. CASE WtResponse(answer)
  <2>1. /\ wtState = "BRESP" /\ ~awValid /\ awValid' = FALSE /\ wValid' = FALSE
        /\ wtState' \in {"BRESP", "NEXT", "ERR"} /\ (wtState' = "NEXT" => answer # "none")
    BY <1>1, <1>5 DEF WtResponse, BeatsSent
  <2>2. /\ wtBeats' = IF BeatTaken(wready) /\ wtBeats < BurstWords THEN wtBeats + 1 ELSE wtBeats
        /\ wtLastTaken' => wtLastTaken \/ (BeatTaken(wready) /\ wLast)
    BY <1>1, <2>1 DEF MemoryTakes
  <2>3. BeatTaken(wready) => wValid
    BY DEF BeatTaken
  <2> QED
    BY <1>1, <1>2, <2>1, <2>2, <2>3 DEF BeatsSent, NoBurstShort
<1>6. CASE WtIdle \/ WtNextBurst \/ WtDone \/ WtFailed
  <2>1. wtState' \notin {"WDATA", "BRESP", "NEXT"}
    BY <1>6 DEF WtIdle, WtNextBurst, WtDone, WtFailed
  <2> QED
    BY <1>2, <2>1 DEF BeatsSent, NoBurstShort
<1> QED
  BY <1>3, <1>4, <1>5, <1>6 DEF WriterEdge

(* What a step of the FSM has to keep.                                     *)
Kept ==
  /\ wtState \in {"IDLE", "AW", "WDATA", "BRESP", "NEXT", "DONE", "ERR"}
  /\ beatsLeft \in 0 .. BurstWords
  /\ wtNext \in Nat /\ burstsLeft \in Nat
  /\ wtGoal \in [addr : Nat, bursts : Nat] /\ wtAnswered \in Nat
  /\ Underway /\ DoneMeansAnswered

LEMMA KeptNow ==
  ASSUME WriterInv
  PROVE  Kept /\ BurstWords \in Nat \ {0} /\ wtBurst \in Nat /\ wtAddr \in Nat
BY WriterAssumption DEF WriterInv, WriterTypeOK, WriterShapes, Kept

LEMMA IdleKeeps ==
  ASSUME WriterInv, WtIdle
  PROVE  Kept'
BY KeptNow DEF Kept, WtIdle, Underway, DoneMeansAnswered, wVars

LEMMA AddressKeeps ==
  ASSUME WriterInv, NEW awready \in BOOLEAN, NEW late \in BOOLEAN, WtAddress(awready, late)
  PROVE  Kept'
BY KeptNow DEF Kept, WtAddress, Underway, DoneMeansAnswered, wVars

LEMMA DataKeeps ==
  ASSUME WriterInv, NEW wready \in BOOLEAN, NEW late \in BOOLEAN, WtData(wready, late)
  PROVE  Kept'
BY KeptNow DEF Kept, WtData, Underway, DoneMeansAnswered

LEMMA ResponseKeeps ==
  ASSUME WriterInv, NEW answer, WtResponse(answer)
  PROVE  Kept'
BY KeptNow DEF Kept, WtResponse, Underway, DoneMeansAnswered

LEMMA NextBurstKeeps ==
  ASSUME WriterInv, WtNextBurst
  PROVE  Kept'
BY KeptNow DEF Kept, WtNextBurst, Underway, DoneMeansAnswered, wVars

LEMMA EndKeeps ==
  ASSUME WriterInv, WtDone \/ WtFailed
  PROVE  Kept'
BY KeptNow DEF Kept, WtDone, WtFailed, Underway, DoneMeansAnswered, wVars

(* What is put on the port while pairs come in time is whole.              *)
LEMMA WholeStep ==
  ASSUME WriterInv, NEW awready \in BOOLEAN, NEW wready \in BOOLEAN, NEW late \in BOOLEAN,
         NEW answer \in {"none", "okay", "error"}, WriterEdge(awready, wready, answer, late)
  PROVE  WordsWhole'
<1>1. /\ wtInTime' => wtInTime
      /\ wtInTime /\ wdataRdy => \A k, l \in Lanes : wdataBuf[k] = wdataBuf[l]
      /\ WordsWhole
  BY DEF WriterInv, Packing, WriterEdge, Registers
<1>2. wData' = wData \/ (wdataRdy /\ wData' = wdataBuf)
  BY DEF WriterEdge, WtIdle, WtAddress, WtData, WtResponse, WtNextBurst, WtDone, WtFailed, wVars
<1> QED
  BY <1>1, <1>2 DEF WordsWhole

LEMMA WriterInvInit == ASSUME WriterInit PROVE WriterInv
<1>1. WordPairs \in Nat \ {0} /\ BurstWords \in Nat \ {0}
  BY WriterAssumption
<1>2. WriterTypeOK /\ WriterShapes /\ Underway /\ Packing /\ BeatsSent
  BY <1>1 DEF WriterInit, WriterTypeOK, WriterShapes, Underway, Packing, BeatsSent, NoBurstShort, Lanes
<1>3. \A l \in Lanes : wData[l] = (wtWord + 2) % 3
  BY DEF WriterInit
<1>4. Ordered /\ DoneMeansAnswered /\ WordsWhole
  BY <1>1, <1>3 DEF WriterInit, Ordered, WordsInOrder, DoneMeansAnswered, WordsWhole
<1> QED
  BY <1>2, <1>4 DEF WriterInv

LEMMA WriterInvStep ==
  ASSUME WriterInv, [WriterNext]_writerVars
  PROVE  WriterInv'
<1>1. CASE UNCHANGED writerVars
  BY <1>1 DEF writerVars, barVars, packVars, awVars, wVars, jobVars, histVars, WriterInv,
     WriterTypeOK, WriterShapes, Underway, Packing, BeatsSent, NoBurstShort, Ordered, WordsInOrder,
     DoneMeansAnswered, WordsWhole
<1>2. ASSUME NEW awready \in BOOLEAN, NEW wready \in BOOLEAN, NEW late \in BOOLEAN,
             NEW answer \in {"none", "okay", "error"},
             WriterEdge(awready, wready, answer, late)
      PROVE  WriterInv'
  <2>1. /\ Packing' /\ dataCnt' \in Lanes /\ wtWord' \in 0 .. 2
        /\ wtBurst' \in Nat /\ wtAddr' \in Nat /\ wdataBuf' \in [Lanes -> 0 .. 2]
    BY <1>2, PackStep DEF WriterEdge
  <2>2. Kept'
    BY <1>2, IdleKeeps, AddressKeeps, DataKeeps, ResponseKeeps, NextBurstKeeps, EndKeeps
    DEF WriterEdge
  <2>3. BeatsSent' /\ Ordered' /\ WordsWhole'
    BY <1>2, SentStep, OrderStep, WholeStep
  <2> QED
    BY <2>1, <2>2, <2>3 DEF WriterInv, Kept, WriterTypeOK, WriterShapes
<1> QED
  BY <1>1, <1>2 DEF WriterNext

(* Whatever the sizes and the jobs: a transfer is done only when all its   *)
(* bursts were answered, each went to its own address, and no burst was    *)
(* answered before the memory took as many beats as it has words; and as   *)
(* long as the host writes no pair while a word is pending, the words on   *)
(* the port are whole and, until a burst is broken off, come in order with *)
(* none left out.                                                          *)
THEOREM WriterIsCorrect == WriterSpec => []WriterCorrect
<1>1. WriterInit => WriterInv
  BY WriterInvInit
<1>2. WriterInv /\ [WriterNext]_writerVars => WriterInv'
  BY WriterInvStep
<1>3. WriterInv => WriterCorrect
  BY DEF WriterInv, WriterCorrect, BeatsSent, Ordered
<1> QED
  BY <1>1, <1>2, <1>3, PTL DEF WriterSpec


-----------------------------------------------------------------------------
(* Whole beats.                                                            *)

LEMMA WholeBeats ==
  ASSUME NEW b \in Nat \ {0}, NEW len \in Nat
  PROVE  /\ (len + b - 1) \div b \in Nat
         /\ len <= ((len + b - 1) \div b) * b
OBVIOUS

LEMMA DivOfBeat ==
  ASSUME NEW b \in Nat \ {0}, NEW k \in Nat, NEW j \in 0 .. b - 1
  PROVE  (k * b + j) \div b = k
OBVIOUS

LEMMA DivGrows ==
  ASSUME NEW b \in Nat \ {0}, NEW m \in Nat, NEW n \in Nat, m <= n
  PROVE  m \div b <= n \div b
OBVIOUS

LEMMA MinOfTwo ==
  ASSUME NEW m \in Nat, NEW n \in Nat
  PROVE  Min({m, n}) = IF m <= n THEN m ELSE n
BY DEF Min

-----------------------------------------------------------------------------
(* The descriptor engine: beats asked of the host, words written to HBM.   *)

Copying == engState \in {"REQ", "WAIT_RSP", "WRITE", "NEXT"}

(* The words of the beat that the engine has sent to HBM.                  *)
Sent == CASE engState = "WRITE" -> engWord
          [] engState = "NEXT" -> BeatWords
          [] OTHER -> 0

EngTypeOK ==
  /\ engState \in {"IDLE", "REQ", "WAIT_RSP", "WRITE", "NEXT", "DONE"}
  /\ engSrc \in Nat /\ engDst \in Nat /\ engRemain \in Nat /\ engBytes \in Nat
  /\ engWord \in 0 .. BeatWords - 1
  /\ engHost.taken \in Nat
  /\ engMem = [w \in 0 .. HbmWords - 1 |-> engMem[w]]

(* The counters: a whole number of beats is behind the engine, the rest of *)
(* the descriptor ahead.                                                   *)
EngProgress ==
  /\ engDesc.src \in Nat /\ engDesc.dst \in Nat /\ engDesc.len \in Nat
  /\ engDone => engState = "DONE"
  /\ engState = "DONE" => engBytes = engDesc.len
  /\ Copying =>
       /\ engDesc \in Descs
       /\ engRemain > 0 /\ engBytes + engRemain = engDesc.len
       /\ engSrc = engDesc.src + engBytes /\ engDst = engDesc.dst + engBytes
       /\ \E k \in Nat : engBytes = k * BeatWords

(* The host owes at most the beat that the engine waits for, and the beat  *)
(* it sends is the one asked for, marked as the last if it is.             *)
EngHandshake ==
  /\ engReq.valid => engState = "WAIT_RSP" /\ engHost.owed = {}
  /\ engState # "WAIT_RSP" => engHost.owed = {}
  /\ engState = "REQ" => engHost.taken = engBytes
  /\ engState = "WAIT_RSP" =>
       LET n == IF engRemain < BeatWords THEN engRemain ELSE BeatWords IN
       IF engReq.valid
       THEN engReq.addr = engSrc /\ engReq.len = n /\ engHost.taken = engBytes
       ELSE /\ engHost.taken = engBytes + n
            /\ engHost.owed = {[addr |-> engSrc, last |-> engRemain <= BeatWords]}
  /\ engState \in {"WRITE", "NEXT"} =>
       /\ engBeat = engSrc /\ (engLast <=> engRemain <= BeatWords)
       /\ engHost.taken = engBytes + IF engRemain < BeatWords THEN engRemain ELSE BeatWords
  /\ engState = "NEXT" => engWord = BeatWords - 1

(* The word on its way to HBM is one of the beat's.                        *)
EngPending ==
  engWrite.en =>
    /\ engState \in {"WRITE", "NEXT"}
    /\ \E j \in 0 .. Sent - 1 : engWrite.addr = engDst + j /\ engWrite.data = engSrc + j

(* The words sent have landed, or are on their way.                        *)
EngLanding ==
  /\ Copying =>
       \A w \in 0 .. engBytes + Sent - 1 :
         \/ engWrite.en /\ engWrite.addr = engDesc.dst + w
         \/ engDesc.dst + w < HbmWords => engMem[engDesc.dst + w] = engDesc.src + w
  /\ engState = "DONE" =>
       \A w \in 0 .. engDesc.len - 1 : engMem[engDesc.dst + w] = engDesc.src + w

EngInv == EngTypeOK /\ EngProgress /\ EngHandshake /\ EngPending /\ EngLanding

-----------------------------------------------------------------------------
LEMMA DescFacts ==
  ASSUME NEW d \in Descs
  PROVE  /\ d.src \in Nat /\ d.dst \in Nat /\ d.len \in Nat /\ d.len > 0
         /\ d.dst + d.len <= HbmWords
<1> DEFINE beats == (d.len + BeatWords - 1) \div BeatWords
<1>1. /\ d.src \in 0 .. HostWords - 1 /\ d.dst \in 0 .. HbmWords - 1 /\ d.len \in 1 .. HbmWords
      /\ d.dst + beats * BeatWords <= HbmWords
  BY DEF Descs
<1>2. d.len <= beats * BeatWords /\ beats \in Nat
  BY <1>1, WholeBeats, EngineAssumption
<1>3. beats * BeatWords \in Nat
  BY <1>2, EngineAssumption
<1> QED
  BY <1>1, <1>2, <1>3, EngineAssumption

LEMMA EngInvInit == ASSUME EngInit PROVE EngInv
BY EngineAssumption
DEF EngInit, EngInv, EngTypeOK, EngProgress, EngHandshake, EngPending, EngLanding, Copying, NoReq,
    NoEngWrite

(* What lands in HBM is the word on its way, and it is the right one.      *)
LEMMA EngLands ==
  ASSUME EngInv, EngMemory
  PROVE  /\ engMem' = [w \in 0 .. HbmWords - 1 |-> engMem'[w]]
         /\ Copying => \A w \in 0 .. engBytes + Sent - 1 :
              engDesc.dst + w < HbmWords => engMem'[engDesc.dst + w] = engDesc.src + w
         /\ ~Copying => engMem' = engMem
<1>1. CASE ~engWrite.en
  BY <1>1 DEF EngMemory, EngInv, EngTypeOK, EngLanding
<1>2. CASE engWrite.en
  <2>1. PICK j \in 0 .. Sent - 1 : engWrite.addr = engDst + j /\ engWrite.data = engSrc + j
    BY <1>2 DEF EngInv, EngPending
  <2>2. /\ engState \in {"WRITE", "NEXT"} /\ Copying /\ Sent \in Nat
        /\ engMem' = [engMem EXCEPT ![engWrite.addr] = engWrite.data]
        /\ engMem = [w \in 0 .. HbmWords - 1 |-> engMem[w]]
    BY <1>2, EngineAssumption DEF EngMemory, EngInv, EngTypeOK, EngPending, Copying, Sent
  <2>3. /\ engBytes \in Nat /\ engDesc.src \in Nat /\ engDesc.dst \in Nat
        /\ engSrc = engDesc.src + engBytes /\ engDst = engDesc.dst + engBytes
    BY <2>2 DEF EngInv, EngTypeOK, EngProgress
  <2>4. ASSUME NEW w \in 0 .. engBytes + Sent - 1, engDesc.dst + w < HbmWords
        PROVE  engMem'[engDesc.dst + w] = engDesc.src + w
    <3>1. engDesc.dst + w \in 0 .. HbmWords - 1
      BY <2>3, <2>4, EngineAssumption
    <3>2. CASE w = engBytes + j
      BY <2>1, <2>2, <2>3, <3>1, <3>2
    <3>3. CASE w # engBytes + j
      <4>0. w \in Int /\ j \in Int /\ engDst + j = engDesc.dst + (engBytes + j)
        BY <2>2, <2>3
      <4>1. engWrite.addr # engDesc.dst + w
        BY <4>0, <2>1, <2>3, <3>3
      <4> QED
        BY <4>1, <2>2, <2>4, <3>1 DEF EngInv, EngLanding
    <3> QED
      BY <3>2, <3>3
  <2> QED
    BY <2>2, <2>4
<1> QED
  BY <1>1, <1>2


LEMMA IdleOrAccept ==
  ASSUME EngInv, NEW rsp, rsp \in {{}} \cup {{r} : r \in engHost.owed}, EngMemory,
         \/ EngIdle /\ EngHostEdge(FALSE, rsp)
         \/ \E desc \in Descs : EngAccept(desc) /\ EngHostEdge(TRUE, rsp)
  PROVE  EngInv'
<1>0. /\ ~Copying /\ engHost.owed = {} /\ ~engReq.valid /\ engHost.taken \in Nat
      /\ engState # "WAIT_RSP" /\ rsp = {}
  BY DEF EngIdle, EngAccept, EngInv, EngTypeOK, EngHandshake, Copying
<1>1. /\ engMem' = [w \in 0 .. HbmWords - 1 |-> engMem'[w]] /\ engMem' = engMem
  BY <1>0, EngLands
<1>2. CASE EngIdle /\ EngHostEdge(FALSE, rsp)
  <2>1. engHost' = [taken |-> engHost.taken, owed |-> {}]
    BY <1>0, <1>2 DEF EngHostEdge
  <2> QED
    BY <1>0, <1>1, <1>2, <2>1
    DEF EngIdle, EngInv, EngTypeOK, EngProgress, EngHandshake, EngPending, EngLanding, Copying,
        NoReq, NoEngWrite
<1>3. ASSUME NEW desc \in Descs, EngAccept(desc), EngHostEdge(TRUE, rsp)
      PROVE  EngInv'
  <2>1. engHost' = [taken |-> 0, owed |-> {}]
    BY <1>0, <1>3 DEF EngHostEdge
  <2>2. /\ desc.src \in Nat /\ desc.dst \in Nat /\ desc.len \in Nat /\ desc.len > 0
    BY DescFacts
  <2>3. 0 = 0 * BeatWords /\ 0 \in Nat
    BY EngineAssumption
  <2>4. /\ engState' = "REQ" /\ engSrc' = desc.src /\ engDst' = desc.dst /\ engRemain' = desc.len
        /\ engBytes' = 0 /\ engDone' = FALSE /\ ~engReq'.valid /\ ~engWrite'.en /\ engDesc' = desc
        /\ engWord' = engWord
    BY <1>3 DEF EngAccept, NoReq, NoEngWrite
  <2>5. Copying' /\ Sent' = 0
    BY <2>4 DEF Copying, Sent
  <2>6. EngProgress'
    BY <2>2, <2>3, <2>4 DEF EngProgress, Copying
  <2>7. EngTypeOK' /\ EngHandshake' /\ EngPending' /\ EngLanding'
    BY <1>1, <2>1, <2>2, <2>4, <2>5
    DEF EngInv, EngTypeOK, EngHandshake, EngPending, EngLanding
  <2> QED
    BY <2>6, <2>7 DEF EngInv
<1> QED
  BY <1>2, <1>3

LEMMA RequestStep ==
  ASSUME EngInv, EngMemory, NEW rsp, rsp \in {{}} \cup {{r} : r \in engHost.owed},
         EngHostEdge(FALSE, rsp), EngRequest
  PROVE  EngInv'
<1>1. /\ engMem' = [w \in 0 .. HbmWords - 1 |-> engMem'[w]]
      /\ \A w \in 0 .. engBytes - 1 :
           engDesc.dst + w < HbmWords => engMem'[engDesc.dst + w] = engDesc.src + w
  BY EngLands DEF EngRequest, Copying, Sent, EngInv, EngTypeOK
<1>2. engHost' = [taken |-> engHost.taken, owed |-> {}] /\ engHost.taken = engBytes
  BY DEF EngRequest, EngHostEdge, EngInv, EngHandshake
<1>3. Sent' = 0 /\ Copying' /\ Copying
  BY DEF EngRequest, Sent, Copying
<1>4. EngTypeOK' /\ EngProgress'
  BY <1>1, <1>2, <1>3 DEF EngRequest, EngInv, EngTypeOK, EngProgress, Copying
<1>5. EngHandshake' /\ EngPending' /\ EngLanding'
  BY <1>1, <1>2, <1>3
  DEF EngRequest, EngInv, EngTypeOK, EngHandshake, EngPending, EngLanding, NoEngWrite
<1> QED
  BY <1>4, <1>5 DEF EngInv

LEMMA WaitStep ==
  ASSUME EngInv, EngMemory, NEW rsp, rsp \in {{}} \cup {{r} : r \in engHost.owed},
         EngHostEdge(FALSE, rsp), EngWait(rsp)
  PROVE  EngInv'
<1> DEFINE n == IF engRemain < BeatWords THEN engRemain ELSE BeatWords
<1>1. /\ engMem' = [w \in 0 .. HbmWords - 1 |-> engMem'[w]]
      /\ \A w \in 0 .. engBytes - 1 :
           engDesc.dst + w < HbmWords => engMem'[engDesc.dst + w] = engDesc.src + w
  BY EngLands DEF EngWait, Copying, Sent, EngInv, EngTypeOK
<1>2. Sent' = 0 /\ Copying' /\ Copying /\ ~engWrite'.en /\ ~engReq'.valid
  <2>1. CASE rsp = {}
    BY <2>1 DEF EngWait, Sent, Copying, NoReq, NoEngWrite
  <2>2. CASE rsp # {}
    BY <2>2, EngineAssumption DEF EngWait, Sent, Copying, NoReq, NoEngWrite
  <2> QED
    BY <2>1, <2>2
<1>3. /\ UNCHANGED <<engSrc, engDst, engRemain, engBytes, engDesc>> /\ engDone' = FALSE
      /\ engState' \in {"WAIT_RSP", "WRITE"} /\ engState = "WAIT_RSP" /\ n \in Nat
      /\ engRemain \in Nat /\ engBytes \in Nat
  BY EngineAssumption DEF EngWait, EngInv, EngTypeOK
<1>4. EngProgress'
  BY <1>2, <1>3 DEF EngInv, EngProgress, Copying
<1>5. EngLanding' /\ EngPending'
  BY <1>1, <1>2, <1>3 DEF EngInv, EngTypeOK, EngLanding, EngPending
<1>6. CASE engReq.valid
  <2>1. /\ rsp = {} /\ engReq.addr = engSrc /\ engReq.len = n /\ engHost.taken = engBytes
        /\ engHost.owed = {}
    BY <1>3, <1>6 DEF EngInv, EngHandshake
  <2>2. engDesc.len - engBytes = engRemain
    BY <1>3 DEF EngInv, EngProgress, Copying
  <2>3. engHost' = [taken |-> engBytes + n,
                    owed |-> {[addr |-> engSrc, last |-> engRemain <= BeatWords]}]
    BY <1>6, <2>1, <2>2 DEF EngHostEdge
  <2>4. engState' = "WAIT_RSP" /\ engWord' = engWord
    BY <1>3, <2>1 DEF EngWait
  <2>5. EngTypeOK' /\ EngHandshake'
    BY <1>1, <1>2, <1>3, <2>3, <2>4 DEF EngInv, EngTypeOK, EngHandshake
  <2> QED
    BY <1>4, <1>5, <2>5 DEF EngInv
<1>7. CASE ~engReq.valid
  <2>1. /\ engHost.taken = engBytes + n
        /\ engHost.owed = {[addr |-> engSrc, last |-> engRemain <= BeatWords]}
    BY <1>3, <1>7 DEF EngInv, EngHandshake
  <2>2. CASE rsp = {}
    <3>1. engHost' = [taken |-> engHost.taken, owed |-> engHost.owed]
      BY <1>7, <2>2 DEF EngHostEdge
    <3>2. engState' = "WAIT_RSP" /\ engWord' = engWord
      BY <1>3, <2>2 DEF EngWait
    <3>3. EngTypeOK' /\ EngHandshake'
      BY <1>1, <1>2, <1>3, <2>1, <3>1, <3>2 DEF EngInv, EngTypeOK, EngHandshake
    <3> QED
      BY <1>4, <1>5, <3>3 DEF EngInv
  <2>3. CASE rsp # {}
    <3>1. rsp = {[addr |-> engSrc, last |-> engRemain <= BeatWords]}
      BY <2>1, <2>3
    <3>2. engHost' = [taken |-> engHost.taken, owed |-> {}]
      BY <1>7, <2>1, <3>1 DEF EngHostEdge
    <3>3. /\ engState' = "WRITE" /\ engWord' = 0 /\ engBeat' = engSrc
          /\ engLast' <=> (engRemain <= BeatWords)
      <4>1. PICK r \in rsp : engBeat' = r.addr /\ engLast' = r.last /\ engWord' = 0
                             /\ engState' = "WRITE"
        BY <2>3 DEF EngWait
      <4>2. PICK last : last = (engRemain <= BeatWords)
        OBVIOUS
      <4>3. r = [addr |-> engSrc, last |-> last]
        BY <3>1, <4>2
      <4>4. r.addr = engSrc /\ r.last = last
        BY <4>3
      <4> QED
        BY <4>1, <4>2, <4>4
    <3>4. EngTypeOK' /\ EngHandshake'
      BY <1>1, <1>2, <1>3, <2>1, <3>2, <3>3, EngineAssumption DEF EngInv, EngTypeOK, EngHandshake
    <3> QED
      BY <1>4, <1>5, <3>4 DEF EngInv
  <2> QED
    BY <2>2, <2>3
<1> QED
  BY <1>6, <1>7

LEMMA WriteWordStep ==
  ASSUME EngInv, EngMemory, NEW rsp, rsp \in {{}} \cup {{r} : r \in engHost.owed},
         EngHostEdge(FALSE, rsp), EngWriteWord
  PROVE  EngInv'
<1>1. /\ engMem' = [w \in 0 .. HbmWords - 1 |-> engMem'[w]]
      /\ \A w \in 0 .. engBytes + engWord - 1 :
           engDesc.dst + w < HbmWords => engMem'[engDesc.dst + w] = engDesc.src + w
  BY EngLands DEF EngWriteWord, Copying, Sent
<1>2. engHost' = [taken |-> engHost.taken, owed |-> {}]
  BY DEF EngWriteWord, EngHostEdge, EngInv, EngHandshake
<1>3. /\ engWrite' = [en |-> TRUE, addr |-> engDst + engWord, data |-> engBeat + engWord]
      /\ UNCHANGED <<engSrc, engDst, engRemain, engBytes, engBeat, engLast, engDesc>>
      /\ engDone' = FALSE /\ ~engReq'.valid
      /\ engBeat = engSrc /\ engSrc = engDesc.src + engBytes /\ engDst = engDesc.dst + engBytes
      /\ engState = "WRITE" /\ engState' \in {"WRITE", "NEXT"} /\ Copying /\ Copying'
      /\ engSrc \in Nat /\ engDst \in Nat /\ engBytes \in Nat /\ engWord \in 0 .. BeatWords - 1
      /\ engDesc.dst \in Nat /\ engDesc.src \in Nat
  <2>1. engState' \in {"WRITE", "NEXT"}
    BY DEF EngWriteWord
  <2> QED
    BY <2>1 DEF EngWriteWord, EngInv, EngTypeOK, EngProgress, EngHandshake, Copying, NoReq
<1>4. /\ engWord' \in 0 .. BeatWords - 1 /\ Sent' = engWord + 1
      /\ engState' = "NEXT" => engWord' = BeatWords - 1
  BY <1>3, EngineAssumption DEF EngWriteWord, Sent
<1>5. EngTypeOK' /\ EngProgress'
  BY <1>1, <1>2, <1>3, <1>4 DEF EngInv, EngTypeOK, EngProgress, Copying
<1>6. EngHandshake'
  BY <1>2, <1>3, <1>4 DEF EngInv, EngHandshake
<1>7. EngPending'
  BY <1>3, <1>4 DEF EngPending
<1>8. EngLanding'
  <2>1. \A w \in 0 .. engBytes + engWord :
          \/ w = engBytes + engWord
          \/ w \in 0 .. engBytes + engWord - 1
    BY <1>3
  <2>2. engBytes' + Sent' - 1 = engBytes + engWord /\ engBytes + engWord \in Nat
    BY <1>3, <1>4
  <2>3. engWrite'.en /\ engWrite'.addr = engDesc'.dst + (engBytes + engWord)
    BY <1>3
  <2>4. \A w \in 0 .. engBytes' + Sent' - 1 :
          \/ engWrite'.en /\ engWrite'.addr = engDesc'.dst + w
          \/ engDesc'.dst + w < HbmWords => engMem'[engDesc'.dst + w] = engDesc'.src + w
    BY <1>1, <1>3, <2>1, <2>2, <2>3
  <2> QED
    BY <1>3, <2>4 DEF EngLanding
<1> QED
  BY <1>5, <1>6, <1>7, <1>8 DEF EngInv

LEMMA NextBeatStep ==
  ASSUME EngInv, EngMemory, NEW rsp, rsp \in {{}} \cup {{r} : r \in engHost.owed},
         EngHostEdge(FALSE, rsp), EngNextBeat
  PROVE  EngInv'
<1>1. /\ engMem' = [w \in 0 .. HbmWords - 1 |-> engMem'[w]]
      /\ \A w \in 0 .. engBytes + BeatWords - 1 :
           engDesc.dst + w < HbmWords => engMem'[engDesc.dst + w] = engDesc.src + w
  BY EngLands DEF EngNextBeat, Copying, Sent
<1>2. engHost' = [taken |-> engHost.taken, owed |-> {}]
  BY DEF EngNextBeat, EngHostEdge, EngInv, EngHandshake
<1>3. /\ engRemain \in Nat /\ engRemain > 0 /\ engBytes \in Nat /\ BeatWords \in Nat \ {0}
      /\ engBytes + engRemain = engDesc.len /\ engDesc \in Descs
      /\ engSrc = engDesc.src + engBytes /\ engDst = engDesc.dst + engBytes
      /\ engDesc.src \in Nat /\ engDesc.dst \in Nat /\ engDesc.len \in Nat
      /\ engDesc.dst + engDesc.len <= HbmWords
      /\ (engLast <=> engRemain <= BeatWords) /\ HbmWords \in Nat
      /\ engHost.taken = engBytes + IF engRemain < BeatWords THEN engRemain ELSE BeatWords
  BY DescFacts, EngineAssumption
  DEF EngNextBeat, EngInv, EngTypeOK, EngProgress, EngHandshake, Copying
<1>4. engDesc' = engDesc /\ ~engReq'.valid /\ ~engWrite'.en /\ engWord' = engWord
  BY DEF EngNextBeat, NoReq, NoEngWrite
<1>5. CASE engRemain <= BeatWords
  <2>1. /\ engBytes' = engDesc.len /\ engState' = "DONE" /\ engRemain' = 0
        /\ engSrc' = engSrc /\ engDst' = engDst
    BY <1>3, <1>5, MinOfTwo DEF EngNextBeat
  <2>2. \A w \in 0 .. engDesc.len - 1 : engMem'[engDesc.dst + w] = engDesc.src + w
    <3> TAKE w \in 0 .. engDesc.len - 1
    <3>1. w \in 0 .. engBytes + BeatWords - 1 /\ engDesc.dst + w < HbmWords
      BY <1>3, <1>5
    <3> QED
      BY <1>1, <3>1
  <2> QED
    BY <1>1, <1>2, <1>3, <1>4, <2>1, <2>2
    DEF EngInv, EngTypeOK, EngProgress, EngHandshake, EngPending, EngLanding, Copying
<1>6. CASE engRemain > BeatWords
  <2>1. /\ engBytes' = engBytes + BeatWords /\ engState' = "REQ"
        /\ engRemain' = engRemain - BeatWords
        /\ engSrc' = engSrc + BeatWords /\ engDst' = engDst + BeatWords /\ ~engDone'
    <3>1. Min({engRemain, BeatWords}) = BeatWords /\ ~(engRemain <= BeatWords)
      BY <1>3, <1>6, MinOfTwo
    <3> QED
      BY <1>3, <3>1 DEF EngNextBeat
  <2>2. PICK k \in Nat : engBytes = k * BeatWords
    BY DEF EngNextBeat, EngInv, EngProgress, Copying
  <2>3. \E i \in Nat : engBytes' = i * BeatWords
    <3>1. engBytes' = (k + 1) * BeatWords /\ k + 1 \in Nat
      BY <1>3, <2>1, <2>2
    <3> QED
      BY <3>1
  <2>4. EngProgress'
    BY <1>3, <1>4, <1>6, <2>1, <2>3 DEF EngProgress, Copying
  <2>5. Sent' = 0 /\ engHost.taken = engBytes'
    BY <1>3, <1>6, <2>1 DEF Sent
  <2>6. EngTypeOK'
    <3>1. /\ engBytes' \in Nat /\ engRemain' \in Nat /\ engSrc' \in Nat /\ engDst' \in Nat
          /\ engHost'.taken \in Nat
      BY <1>2, <1>3, <1>6, <2>1
    <3> QED
      BY <1>1, <1>4, <2>1, <3>1 DEF EngInv, EngTypeOK
  <2>7. EngHandshake'
    BY <1>2, <1>4, <2>1, <2>5 DEF EngHandshake
  <2>8. EngPending'
    BY <1>4 DEF EngPending
  <2>9. EngLanding'
    <3>1. engBytes' + Sent' - 1 = engBytes + BeatWords - 1 /\ engState' # "DONE"
      BY <1>3, <2>1, <2>5
    <3> QED
      BY <1>1, <1>4, <3>1 DEF EngLanding
  <2> QED
    BY <2>4, <2>6, <2>7, <2>8, <2>9 DEF EngInv
<1> QED
  BY <1>3, <1>5, <1>6

LEMMA EngInvStep ==
  ASSUME EngInv, [EngNext]_engVars
  PROVE  EngInv'
<1>1. CASE UNCHANGED engVars
  BY <1>1
  DEF engVars, EngInv, EngTypeOK, EngProgress, EngHandshake, EngPending, EngLanding, Copying, Sent
<1>2. CASE EngNext
  <2>1. PICK accepts \in BOOLEAN, desc \in Descs, rsp \in {{}} \cup {{r} : r \in engHost.owed} :
          /\ \/ accepts /\ EngAccept(desc)
             \/ ~accepts /\ (EngIdle \/ EngRequest \/ EngWait(rsp) \/ EngWriteWord \/ EngNextBeat)
          /\ EngHostEdge(accepts, rsp) /\ EngMemory
    BY <1>2 DEF EngNext
  <2>2. CASE accepts = TRUE
    BY <2>1, <2>2, IdleOrAccept
  <2>3. CASE accepts = FALSE
    BY <2>1, <2>3, IdleOrAccept, RequestStep, WaitStep, WriteWordStep, NextBeatStep
  <2> QED
    BY <2>1, <2>2, <2>3
<1> QED
  BY <1>1, <1>2

LEMMA StaysInside ==
  ASSUME EngInv, [EngNext]_engVars
  PROVE  EngineStaysInside
<1> SUFFICES ASSUME NEW w \in DOMAIN engMem, engMem'[w] # engMem[w]
    PROVE  w >= engDesc.dst
           /\ (w - engDesc.dst) \div BeatWords <= (engDesc.len - 1) \div BeatWords
  BY DEF EngineStaysInside
<1>1. engWrite.en /\ engMem' = [engMem EXCEPT ![engWrite.addr] = engWrite.data]
  BY DEF EngNext, EngMemory, engVars
<1>2. w = engWrite.addr
  BY <1>1 DEF EngInv, EngTypeOK
<1>3. PICK j \in 0 .. Sent - 1 : w = engDst + j
  BY <1>1, <1>2 DEF EngInv, EngPending
<1>4. /\ Copying /\ Sent \in 0 .. BeatWords
  BY <1>1, EngineAssumption DEF EngInv, EngPending, EngTypeOK, Copying, Sent
<1>5. PICK k \in Nat : engBytes = k * BeatWords
  BY <1>4 DEF EngInv, EngProgress
<1>6. /\ engDst = engDesc.dst + engBytes /\ engBytes < engDesc.len /\ engDesc.dst \in Nat
      /\ engBytes \in Nat /\ engDesc.len \in Nat
  BY <1>4 DEF EngInv, EngProgress, EngTypeOK
<1>7. j \in 0 .. BeatWords - 1 /\ w - engDesc.dst = k * BeatWords + j /\ w >= engDesc.dst
  BY <1>3, <1>4, <1>5, <1>6, EngineAssumption
<1>8. (w - engDesc.dst) \div BeatWords = k
  BY <1>7, DivOfBeat, EngineAssumption
<1>9. k = (k * BeatWords + 0) \div BeatWords /\ k * BeatWords + 0 = engBytes
  BY <1>5, <1>6, DivOfBeat, EngineAssumption
<1>10. engBytes \div BeatWords <= (engDesc.len - 1) \div BeatWords
  BY <1>6, DivGrows, EngineAssumption
<1> QED
  BY <1>7, <1>8, <1>9, <1>10

(* Whatever the width of a beat and the sizes of the memories: when the    *)
(* engine says it is done the descriptor is copied to its last word, and   *)
(* no cycle of it changes a word beyond its last beat.                     *)
THEOREM EngineIsCorrect == EngSpec => EngineCorrect
<1>1. EngInit => EngInv
  BY EngInvInit
<1>2. EngInv /\ [EngNext]_engVars => EngInv'
  BY EngInvStep
<1>3. EngInv /\ EngInv' /\ [EngNext]_engVars => [EngineCopies' /\ EngineStaysInside]_engVars
  <2>1. EngInv' => EngineCopies'
    BY DEF EngInv, EngProgress, EngLanding, EngineCopies
  <2> QED
    BY <2>1, StaysInside
<1> QED
  BY <1>1, <1>2, <1>3, PTL DEF EngSpec, EngineCorrect

=============================================================================
