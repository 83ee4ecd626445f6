---------------------------- MODULE ComputeProofs -----------------------------
(***************************************************************************)
(* Theorems about the compute path.  TokenPath: for every size of a batch, *)
(* every timeout and every number of layers and tokens.  TransformerLayer: *)
(* for every number of experts and picks, every length of a row and every  *)
(* depth of the multipliers' pipeline that the drain covers.               *)
(***************************************************************************)
EXTENDS TokenPath, TransformerLayer, Integers, FiniteSetTheorems, TLAPS

Registers ==
  [state : {"IDLE", "ACCUMULATE", "DISPATCH"}, wr : FifoSlots, rd : FifoSlots,
   count : 0 .. MaxBatch, timer : 0 .. TimeoutCycles + 1, valid : BOOLEAN, data : Nat,
   active : BOOLEAN, first : BOOLEAN, last : BOOLEAN, size : Nat, pos : Nat]

Boxes == [state : {"EMPTY", "BUSY", "GIVING"}, token : Nat]

(* The registers, the memory and the layers have their shapes.             *)
AccShape ==
  /\ acc \in Registers /\ fifo \in [FifoSlots -> 0 .. MaxTokens]
  /\ pathBatch \in Seq(Nat) /\ pathOut \in Nat /\ pathAligned \in BOOLEAN
  /\ pathTokens \in 0 .. MaxTokens

ChainShape == chain \in [1 .. Layers -> Boxes]

(* How far the batch at hand is.                                           *)
Progress ==
  /\ acc.state # "IDLE" => acc.count = Len(pathBatch) /\ acc.count \in 1 .. MaxBatch
  /\ acc.state = "IDLE" => pathOut = Len(pathBatch)
  /\ acc.state = "ACCUMULATE" => pathOut = 0 /\ acc.timer <= TimeoutCycles /\ ~acc.valid
  /\ acc.state = "DISPATCH" => acc.rd = pathOut /\ acc.pos = pathOut /\ pathOut < acc.count

(* The last token taken before the batch at hand.                          *)
Base == pathTokens - Len(pathBatch)

(* The token that is put out.                                              *)
Output ==
  acc.valid =>
    /\ pathOut \in 1 .. Len(pathBatch)
    /\ acc.first <=> pathOut = 1
    /\ acc.last <=> pathOut = Len(pathBatch)
    /\ pathAligned => acc.data = Base + pathOut

(* Tokens are numbered as they come, so the batch at hand goes on from the *)
(* last one before it; aligned, it lies in the memory from slot 0 on.      *)
Batch ==
  /\ Len(pathBatch) <= pathTokens
  /\ \A i \in 1 .. Len(pathBatch) : pathBatch[i] = Base + i
  /\ pathAligned =>
       /\ acc.state # "IDLE" => \A i \in 1 .. acc.count : fifo[i - 1] = Base + i
       /\ acc.state = "ACCUMULATE" => acc.wr = acc.count % MaxBatch

Full(n) == chain[n].state # "EMPTY"

(* The tokens that the chain has been offered so far.                      *)
Given == Base + (IF acc.valid THEN pathOut - 1 ELSE pathOut)

(* The tokens in the chain are of these, and each is ahead of those in the *)
(* layers before its own.                                                  *)
InChain ==
  pathAligned =>
    /\ \A n \in 1 .. Layers : Full(n) => chain[n].token \in 1 .. Given
    /\ \A n, k \in 1 .. Layers :
         n < k /\ Full(n) /\ Full(k) => chain[n].token > chain[k].token

IInv == AccShape /\ ChainShape /\ Progress /\ Output /\ Batch /\ InChain

-----------------------------------------------------------------------------
(* The slot after slot n - 1 of a memory that is filled from slot 0.       *)
LEMMA AfterSlotIsNext ==
  ASSUME NEW n \in 1 .. MaxBatch - 1
  PROVE  n % MaxBatch = n /\ AfterSlot(n % MaxBatch) = (n + 1) % MaxBatch
<1>1. MaxBatch \in Nat \ {0}
  BY PathAssumption
<1>2. n % MaxBatch = n
  BY <1>1
<1> QED
  BY <1>2 DEF AfterSlot

LEMMA SlotsWrap ==
  ASSUME NEW s \in FifoSlots
  PROVE  AfterSlot(s) \in FifoSlots /\ 1 % MaxBatch \in FifoSlots
<1>1. MaxBatch \in Nat \ {0} /\ s \in Nat
  BY PathAssumption DEF FifoSlots
<1>2. \A k \in Nat : k % MaxBatch \in 0 .. MaxBatch - 1
  BY <1>1
<1> QED
  BY <1>1, <1>2 DEF AfterSlot, FifoSlots

(* What a layer holds after an edge: what it held, or what it was offered. *)
LEMMA LayerStep ==
  ASSUME AccShape, ChainShape, NEW ends \in SUBSET BusyLayers, ChainEdge(ends),
         NEW n \in 1 .. Layers, Full(n)'
  PROVE  \/ chain[n].state = "BUSY" /\ chain'[n].token = chain[n].token
         \/ n = 1 /\ acc.valid /\ chain'[n].token = acc.data
         \/ /\ n > 1 /\ chain[n].state = "EMPTY" /\ chain[n - 1].state = "GIVING"
            /\ chain'[n].token = chain[n - 1].token
<1>1. /\ chain[n].state \in {"EMPTY", "BUSY", "GIVING"}
      /\ n \in ends => chain[n].state = "BUSY"
  BY DEF ChainShape, Boxes, BusyLayers
<1>2. CASE chain[n].state = "EMPTY" /\ Offered(n) # {}
  <2>1. chain'[n] = [state |-> "BUSY", token |-> CHOOSE t \in Offered(n) : TRUE]
    BY <1>2 DEF ChainEdge
  <2>2. chain'[n].token \in Offered(n)
    BY <2>1, <1>2
  <2> QED
    BY <1>2, <2>2 DEF Offered
<1>3. CASE ~(chain[n].state = "EMPTY" /\ Offered(n) # {}) /\ n \in ends
  BY <1>1, <1>3 DEF ChainEdge, ChainShape, Boxes
<1>4. CASE ~(chain[n].state = "EMPTY" /\ Offered(n) # {}) /\ n \notin ends
  <2>1. chain'[n] = IF chain[n].state = "GIVING" THEN [state |-> "EMPTY", token |-> 0]
                    ELSE chain[n]
    BY <1>4 DEF ChainEdge
  <2> QED
    BY <2>1, <1>1, <1>4 DEF Full
<1> QED
  BY <1>2, <1>3, <1>4

LEMMA ChainShapeStep ==
  ASSUME AccShape, ChainShape, NEW ends \in SUBSET BusyLayers, ChainEdge(ends)
  PROVE  ChainShape'
<1>1. ASSUME NEW n \in 1 .. Layers
      PROVE  (IF chain[n].state = "EMPTY" /\ Offered(n) # {}
              THEN [state |-> "BUSY", token |-> CHOOSE t \in Offered(n) : TRUE]
              ELSE IF n \in ends THEN [chain[n] EXCEPT !.state = "GIVING"]
              ELSE IF chain[n].state = "GIVING" THEN [state |-> "EMPTY", token |-> 0]
              ELSE chain[n]) \in Boxes
  <2>1. chain[n] \in Boxes
    BY DEF ChainShape
  <2>2. Offered(n) \subseteq Nat
    <3>1. acc.data \in Nat
      BY DEF AccShape, Registers
    <3>2. n # 1 => chain[n - 1].token \in Nat
      BY PathAssumption DEF ChainShape, Boxes
    <3> QED
      BY <3>1, <3>2 DEF Offered
  <2>3. Offered(n) # {} => (CHOOSE t \in Offered(n) : TRUE) \in Nat
    BY <2>2
  <2> QED
    BY <2>1, <2>3 DEF Boxes
<1> QED
  BY <1>1 DEF ChainEdge, ChainShape


-----------------------------------------------------------------------------
LEMMA AccKept ==
  ASSUME acc \in Registers, NEW quiet, quiet = AccQuiet
  PROVE  quiet = [state |-> acc.state, wr |-> acc.wr, rd |-> acc.rd, count |-> acc.count,
                  timer |-> acc.timer, valid |-> FALSE, data |-> acc.data,
                  active |-> acc.active, first |-> FALSE, last |-> FALSE,
                  size |-> acc.size, pos |-> acc.pos]
BY DEF AccQuiet, Registers

LEMMA RegisterTypes ==
  ASSUME acc \in Registers
  PROVE  /\ acc.state \in {"IDLE", "ACCUMULATE", "DISPATCH"}
         /\ acc.wr \in FifoSlots /\ acc.rd \in FifoSlots /\ acc.count \in 0 .. MaxBatch
         /\ acc.timer \in 0 .. TimeoutCycles + 1 /\ acc.valid \in BOOLEAN /\ acc.data \in Nat
         /\ acc.active \in BOOLEAN /\ acc.first \in BOOLEAN /\ acc.last \in BOOLEAN
         /\ acc.size \in Nat /\ acc.pos \in Nat
BY DEF Registers

(* A token is stored.                                                      *)
LEMMA StoreShape ==
  ASSUME AccShape, NEW slot \in FifoSlots, pathTokens < MaxTokens
  PROVE  /\ [fifo EXCEPT ![slot] = pathTokens + 1] \in [FifoSlots -> 0 .. MaxTokens]
         /\ pathTokens + 1 \in 0 .. MaxTokens /\ pathTokens \in Nat
         /\ [fifo EXCEPT ![slot] = pathTokens + 1][slot] = pathTokens + 1
<1>1. /\ MaxTokens \in Nat /\ pathTokens \in 0 .. MaxTokens
      /\ fifo \in [FifoSlots -> 0 .. MaxTokens]
  BY PathAssumption DEF AccShape
<1> QED
  BY <1>1

(* One edge of the accumulator, state by state.                            *)
LEMMA IdleStep ==
  ASSUME IInv, NEW give \in BOOLEAN, give => pathTokens < MaxTokens, AccIdle(give)
  PROVE  /\ AccShape' /\ Progress' /\ Output' /\ Batch'
         /\ pathAligned' => pathAligned /\ Given' = Base + pathOut
<1>0. AccShape /\ Progress /\ Output /\ Batch
  BY DEF IInv
<1>1. MaxBatch \in Nat \ {0} /\ TimeoutCycles \in Nat /\ MaxTokens \in Nat
  BY PathAssumption
<1>2. /\ acc \in Registers /\ acc.state = "IDLE" /\ acc.wr \in FifoSlots
      /\ acc.data \in Nat /\ acc.size \in Nat
  BY <1>0 DEF AccShape, Registers, AccIdle
<1>3. /\ 0 \in FifoSlots /\ {0, 1} \subseteq 0 .. MaxBatch /\ 0 \in 0 .. TimeoutCycles + 1
      /\ 0 \in Nat
  BY <1>1 DEF FifoSlots
<1>4. CASE ~give
  <2>1. UNCHANGED <<fifo, pathBatch, pathTokens, pathOut, pathAligned>>
    BY <1>4 DEF AccIdle, NoNewToken
  <2>2. acc' = [state |-> "IDLE", wr |-> acc.wr, rd |-> 0, count |-> 0, timer |-> 0,
                valid |-> FALSE, data |-> acc.data, active |-> FALSE, first |-> FALSE,
                last |-> FALSE, size |-> acc.size, pos |-> 0]
    <3>1. acc' = [AccQuiet EXCEPT !.rd = 0, !.count = 0, !.timer = 0, !.active = FALSE,
                                  !.pos = 0]
      BY <1>4 DEF AccIdle
    <3> QED
      BY <3>1, <1>2 DEF AccQuiet, Registers
  <2>3. AccShape'
    <3>1. acc' \in Registers
      BY <2>2, <1>2, <1>3 DEF Registers
    <3> QED
      BY <1>0, <2>1, <3>1 DEF AccShape
  <2>4. Progress' /\ Output' /\ Batch'
    BY <1>0, <2>1, <2>2, <1>2 DEF Progress, Output, Batch, Base
  <2>5. Given' = Base + pathOut
    BY <2>1, <2>2 DEF Given, Base
  <2> QED
    BY <2>1, <2>3, <2>4, <2>5
<1>5. CASE give
  <2>1. PICK wr \in {AfterSlot(acc.wr), 1 % MaxBatch} :
          acc' = [[AccQuiet EXCEPT !.rd = 0, !.count = 0, !.timer = 0, !.active = FALSE,
                                   !.pos = 0]
                  EXCEPT !.wr = wr, !.count = 1, !.state = "ACCUMULATE"]
    BY <1>5 DEF AccIdle
  <2>2. /\ fifo' = [fifo EXCEPT ![acc.wr] = pathTokens + 1]
        /\ pathBatch' = <<pathTokens + 1>> /\ pathTokens' = pathTokens + 1
        /\ pathOut' = 0 /\ pathAligned' = (pathAligned /\ acc.wr = 0)
    BY <1>5 DEF AccIdle
  <2>3. wr \in FifoSlots
    BY <1>2, SlotsWrap
  <2>4. acc' = [state |-> "ACCUMULATE", wr |-> wr, rd |-> 0, count |-> 1, timer |-> 0,
                valid |-> FALSE, data |-> acc.data, active |-> FALSE, first |-> FALSE,
                last |-> FALSE, size |-> acc.size, pos |-> 0]
    BY <2>1, <1>2 DEF AccQuiet, Registers
  <2>5. acc' \in Registers
    BY <2>4, <2>3, <1>2, <1>3 DEF Registers
  <2>6. fifo' \in [FifoSlots -> 0 .. MaxTokens] /\ pathTokens' \in 0 .. MaxTokens
    BY <1>0, <2>2, <1>2, <1>5, StoreShape
  <2>7. pathBatch' \in Seq(Nat) /\ Len(pathBatch') = 1 /\ pathBatch'[1] = pathTokens + 1
    BY <1>0, <2>2, <1>1 DEF AccShape
  <2>8. Progress' /\ Output'
    BY <1>0, <2>2, <2>4, <2>7, <1>1 DEF Progress, Output
  <2>9. /\ Base' = pathTokens /\ Base + pathOut = pathTokens /\ Given' = pathTokens
        /\ pathTokens \in Nat
    <3>1. pathOut = Len(pathBatch) /\ Len(pathBatch) \in Nat /\ pathTokens \in Nat
      BY <1>0, <1>1, <1>2 DEF Progress, AccShape
    <3> QED
      BY <3>1, <2>2, <2>4, <2>7 DEF Base, Given
  <2>10. Batch'
    <3>1. Len(pathBatch') <= pathTokens' /\ \A i \in 1 .. Len(pathBatch') : pathBatch'[i] = Base' + i
      BY <2>2, <2>7, <2>9
    <3>2. ASSUME pathAligned' PROVE fifo'[0] = pathTokens + 1 /\ acc'.wr = 1 % MaxBatch
      <4>1. acc.wr = 0
        BY <2>2, <3>2
      <4>2. fifo'[0] = pathTokens + 1
        BY <1>0, <2>2, <4>1, <1>2 DEF AccShape
      <4>3. wr = 1 % MaxBatch
        BY <4>1, <1>1 DEF AfterSlot
      <4> QED
        BY <4>2, <4>3, <2>4
    <3>3. ASSUME pathAligned'
          PROVE  \A i \in 1 .. acc'.count : fifo'[i - 1] = Base' + i
      BY <3>2, <3>3, <2>4, <2>9
    <3>4. acc'.state = "ACCUMULATE" /\ acc'.count = 1
      BY <2>4
    <3> QED
      BY <3>1, <3>2, <3>3, <3>4 DEF Batch
  <2>11. AccShape'
    <3>1. pathAligned' \in BOOLEAN
      BY <2>2, Zenon
    <3> QED
      BY <1>1, <2>2, <2>5, <2>6, <2>7, <3>1 DEF AccShape
  <2>12. pathAligned' => pathAligned
    BY <2>2
  <2> QED
    BY <2>8, <2>9, <2>10, <2>11, <2>12
<1> QED
  BY <1>4, <1>5

LEMMA AccumulateStep ==
  ASSUME IInv, NEW give \in BOOLEAN, give => pathTokens < MaxTokens, AccAccumulate(give)
  PROVE  /\ AccShape' /\ Progress' /\ Output' /\ Batch'
         /\ pathAligned' => pathAligned /\ Given' = Base + pathOut
<1>0. AccShape /\ Progress /\ Output /\ Batch
  BY DEF IInv
<1> DEFINE taken == give /\ acc.count < MaxBatch
           full  == acc.count >= BatchMin \/ acc.timer >= TimeoutCycles
           wr    == IF taken THEN AfterSlot(acc.wr) ELSE acc.wr
           count == IF taken THEN acc.count + 1 ELSE acc.count
           state == IF full THEN "DISPATCH" ELSE "ACCUMULATE"
           rd    == IF full THEN 0 ELSE acc.rd
           active == IF full THEN TRUE ELSE acc.active
           size  == IF full THEN acc.count ELSE acc.size
           pos   == IF full THEN 0 ELSE acc.pos
<1>1. MaxBatch \in Nat \ {0} /\ TimeoutCycles \in Nat /\ MaxTokens \in Nat
  BY PathAssumption
<1>2. /\ acc \in Registers /\ acc.wr \in FifoSlots /\ acc.state = "ACCUMULATE"
      /\ acc.count = Len(pathBatch) /\ acc.count \in 1 .. MaxBatch
      /\ acc.timer \in 0 .. TimeoutCycles /\ ~acc.valid /\ pathOut = 0
  BY <1>0, RegisterTypes DEF AccShape, AccAccumulate, Progress
<1>3. UNCHANGED <<pathOut, pathAligned>>
  BY DEF AccAccumulate
<1>4. acc' = [state |-> state, wr |-> wr, rd |-> rd, count |-> count, timer |-> acc.timer + 1,
              valid |-> FALSE, data |-> acc.data, active |-> active, first |-> FALSE,
              last |-> FALSE, size |-> size, pos |-> pos]
  <2>1. PICK quiet : quiet = AccQuiet
    OBVIOUS
  <2>2. quiet = [state |-> "ACCUMULATE", wr |-> acc.wr, rd |-> acc.rd, count |-> acc.count,
                 timer |-> acc.timer, valid |-> FALSE, data |-> acc.data,
                 active |-> acc.active, first |-> FALSE, last |-> FALSE,
                 size |-> acc.size, pos |-> acc.pos]
    BY <1>2, <2>1, AccKept
  <2>3. acc' = LET o == [quiet EXCEPT !.timer = acc.timer + 1, !.wr = wr, !.count = count]
               IN  IF full THEN [o EXCEPT !.rd = 0, !.pos = 0, !.size = acc.count,
                                          !.active = TRUE, !.state = "DISPATCH"]
                   ELSE o
    BY <2>1, <2>2 DEF AccAccumulate
  <2>4. CASE full
    BY <2>2, <2>3, <2>4
  <2>5. CASE ~full
    BY <2>2, <2>3, <2>5
  <2> QED
    BY <2>4, <2>5
<1>5. acc' \in Registers
  <2>1. /\ wr \in FifoSlots /\ count \in 0 .. MaxBatch
        /\ acc.timer + 1 \in 0 .. TimeoutCycles + 1
    BY <1>1, <1>2, SlotsWrap
  <2>2. /\ rd \in FifoSlots /\ size \in Nat /\ pos \in Nat
        /\ acc.data \in Nat /\ state \in {"IDLE", "ACCUMULATE", "DISPATCH"}
    BY <1>1, <1>2, RegisterTypes DEF FifoSlots
  <2>3. active \in BOOLEAN
    BY <1>2, RegisterTypes, Zenon
  <2> HIDE DEF wr, count, state, rd, active, size, pos
  <2> QED
    BY <1>4, <2>1, <2>2, <2>3 DEF Registers
<1>6. CASE ~taken
  <2>1. UNCHANGED <<fifo, pathBatch, pathTokens>>
    BY <1>6 DEF AccAccumulate, NoNewToken
  <2>2. AccShape'
    BY <1>0, <2>1, <1>3, <1>5 DEF AccShape
  <2>3. Progress' /\ Output'
    BY <1>0, <2>1, <1>1, <1>2, <1>3, <1>4, <1>6, PathAssumption DEF Progress, Output
  <2> QED
    BY <1>0, <2>1, <2>2, <2>3, <1>2, <1>3, <1>4, <1>6 DEF Batch, Given, Base
<1>7. CASE taken
  <2>1. /\ fifo' = [fifo EXCEPT ![acc.wr] = pathTokens + 1]
        /\ pathBatch' = Append(pathBatch, pathTokens + 1) /\ pathTokens' = pathTokens + 1
    BY <1>7 DEF AccAccumulate, TakeToken
  <2>2. AccShape'
    <3>1. fifo' \in [FifoSlots -> 0 .. MaxTokens] /\ pathTokens' \in 0 .. MaxTokens
      BY <1>0, <2>1, <1>2, <1>7, StoreShape
    <3>2. pathBatch' \in Seq(Nat)
      BY <1>0, <2>1, <1>2, <1>7, StoreShape DEF AccShape
    <3> QED
      BY <1>0, <3>1, <3>2, <1>3, <1>5 DEF AccShape
  <2>3. Len(pathBatch') = acc.count + 1
    BY <1>0, <2>1, <1>2, <1>1 DEF AccShape
  <2>4. Progress' /\ Output'
    BY <1>0, <2>3, <1>1, <1>2, <1>3, <1>4, <1>7, PathAssumption DEF Progress, Output
  <2>5. /\ Base' = Base /\ Base \in Nat /\ pathTokens = Base + acc.count
        /\ Len(pathBatch') <= pathTokens'
    BY <1>0, <2>1, <2>3, <1>1, <1>2 DEF Base, Batch, AccShape
  <2>6. \A i \in 1 .. acc.count + 1 : pathBatch'[i] = Base + i
    <3>1. PICK b : b = Base
      OBVIOUS
    <3>2. \A i \in 1 .. acc.count : pathBatch[i] = b + i
      BY <1>0, <1>2, <3>1 DEF Batch
    <3>3. /\ pathBatch \in Seq(Nat) /\ acc.count = Len(pathBatch) /\ acc.count \in Nat
          /\ pathTokens + 1 = b + (acc.count + 1) /\ b \in Nat
      BY <1>0, <2>5, <1>2, <3>1 DEF AccShape
    <3>4. pathBatch'[acc.count + 1] = pathTokens + 1
      BY <2>1, <3>3
    <3>5. \A i \in 1 .. acc.count : pathBatch'[i] = pathBatch[i]
      BY <2>1, <3>3
    <3>6. PICK f : f = pathBatch'
      OBVIOUS
    <3>7. \A i \in 1 .. acc.count : f[i] = b + i
      BY <3>2, <3>5, <3>6
    <3>8. f[acc.count + 1] = b + (acc.count + 1)
      BY <3>3, <3>4, <3>6
    <3>9. \A i \in 1 .. acc.count + 1 : i \in 1 .. acc.count \/ i = acc.count + 1
      BY <3>3
    <3>10. \A i \in 1 .. acc.count + 1 : f[i] = b + i
      BY <3>7, <3>8, <3>9
    <3> QED
      BY <3>1, <3>6, <3>10
  <2>7. ASSUME pathAligned
        PROVE  /\ \A i \in 1 .. acc.count + 1 : fifo'[i - 1] = Base + i
               /\ wr = (acc.count + 1) % MaxBatch
    <3>1. acc.wr = acc.count % MaxBatch /\ acc.count \in 1 .. MaxBatch - 1
      BY <1>0, <2>7, <1>1, <1>2, <1>7 DEF Batch
    <3>2. acc.wr = acc.count /\ wr = (acc.count + 1) % MaxBatch
      BY <3>1, <1>7, AfterSlotIsNext
    <3>3. ASSUME NEW i \in 1 .. acc.count PROVE fifo'[i - 1] = Base + i
      <4>1. i - 1 \in FifoSlots /\ i - 1 # acc.wr
        BY <3>1, <3>2, <1>1 DEF FifoSlots
      <4>2. fifo[i - 1] = Base + i
        BY <1>0, <2>7, <1>2 DEF Batch
      <4> QED
        BY <1>0, <4>1, <4>2, <2>1 DEF AccShape
    <3>4. fifo'[acc.count] = Base + (acc.count + 1)
      <4>1. fifo'[acc.count] = pathTokens + 1
        BY <1>0, <2>1, <3>1, <3>2, <1>2, <1>7, StoreShape
      <4> QED
        BY <4>1, <2>5, <1>2
    <3>5. PICK b, f : b = Base /\ f = fifo'
      OBVIOUS
    <3>6. \A i \in 1 .. acc.count + 1 : f[i - 1] = b + i
      <4>1. acc.count \in Nat /\ (acc.count + 1) - 1 = acc.count
        BY <1>2
      <4>2. \A i \in 1 .. acc.count + 1 : i \in 1 .. acc.count \/ i = acc.count + 1
        BY <4>1
      <4>3. f[(acc.count + 1) - 1] = b + (acc.count + 1)
        BY <3>4, <3>5, <4>1
      <4> QED
        BY <3>3, <3>5, <4>2, <4>3
    <3> QED
      BY <3>2, <3>5, <3>6
  <2>8. Batch'
    <3>1. acc'.count = acc.count + 1 /\ acc'.wr = wr
      BY <1>4, <1>7
    <3> HIDE DEF wr
    <3>2. PICK b : b = Base'
      OBVIOUS
    <3> QED
      BY <2>3, <2>5, <2>6, <2>7, <3>1, <3>2, <1>3 DEF Batch
  <2>9. Given' = Base + pathOut
    BY <2>5, <1>2, <1>3, <1>4 DEF Given
  <2> QED
    BY <2>2, <2>4, <2>8, <2>9, <1>3
<1> QED
  BY <1>6, <1>7

LEMMA DispatchStep ==
  ASSUME IInv, AccDispatch
  PROVE  /\ AccShape' /\ Progress' /\ Output' /\ Batch'
         /\ pathAligned' => pathAligned /\ Given' = Base + pathOut
<1>0. AccShape /\ Progress /\ Output /\ Batch
  BY DEF IInv
<1> DEFINE done   == acc.rd = acc.count - 1
           state  == IF done THEN "IDLE" ELSE "DISPATCH"
           rd     == IF done THEN acc.rd ELSE acc.rd + 1
           pos    == IF done THEN acc.pos ELSE acc.pos + 1
           active == IF done THEN FALSE ELSE acc.active
           first  == acc.pos = 0
           last   == acc.pos = acc.count - 1
           data   == fifo[acc.rd]
<1>1. MaxBatch \in Nat \ {0}
  BY PathAssumption
<1>2. /\ acc \in Registers /\ acc.state = "DISPATCH"
      /\ acc.rd = pathOut /\ acc.pos = pathOut /\ pathOut < acc.count
      /\ acc.count = Len(pathBatch) /\ acc.count \in 1 .. MaxBatch
      /\ pathOut \in Nat
  BY <1>0 DEF AccShape, AccDispatch, Progress
<1>3. /\ pathOut' = pathOut + 1
      /\ UNCHANGED <<fifo, pathBatch, pathTokens, pathAligned>>
  BY DEF AccDispatch, NoNewToken
<1>4. acc' = [state |-> state, wr |-> acc.wr, rd |-> rd, count |-> acc.count,
              timer |-> acc.timer, valid |-> TRUE, data |-> data, active |-> active,
              first |-> first, last |-> last, size |-> acc.size, pos |-> pos]
  <2>1. PICK o : o = [acc EXCEPT !.data = data, !.valid = TRUE, !.first = first, !.last = last]
    OBVIOUS
  <2> HIDE DEF first, last, data
  <2>2. o = [state |-> "DISPATCH", wr |-> acc.wr, rd |-> acc.rd, count |-> acc.count,
             timer |-> acc.timer, valid |-> TRUE, data |-> data, active |-> acc.active,
             first |-> first, last |-> last, size |-> acc.size, pos |-> acc.pos]
    <3>1. acc \in Registers /\ acc.state = "DISPATCH"
      BY <1>2
    <3> QED
      BY <2>1, <3>1 DEF Registers
  <2>3. acc' = IF done THEN [o EXCEPT !.active = FALSE, !.state = "IDLE"]
               ELSE [o EXCEPT !.rd = acc.rd + 1, !.pos = acc.pos + 1]
    BY <2>1, <2>2 DEF AccDispatch, first, last, data
  <2>4. CASE done
    BY <2>2, <2>3, <2>4
  <2>5. CASE ~done
    BY <2>2, <2>3, <2>5
  <2> QED
    BY <2>4, <2>5
<1>5. data \in Nat /\ (pathAligned => data = Base + (pathOut + 1))
  <2>1. acc.rd \in FifoSlots /\ data \in 0 .. MaxTokens
    BY <1>0, <1>2, RegisterTypes DEF AccShape
  <2>2. ASSUME pathAligned PROVE data = Base + (pathOut + 1)
    <3>1. pathOut + 1 \in 1 .. acc.count
      BY <1>1, <1>2
    <3>2. fifo[(pathOut + 1) - 1] = Base + (pathOut + 1)
      BY <1>0, <1>2, <2>2, <3>1 DEF Batch
    <3> QED
      BY <3>2, <1>2
  <2> QED
    BY <2>1, <2>2, PathAssumption
<1>6. AccShape'
  <2>1. /\ rd \in FifoSlots /\ pos \in Nat /\ state \in {"IDLE", "ACCUMULATE", "DISPATCH"}
    BY <1>1, <1>2, RegisterTypes DEF FifoSlots
  <2>2. active \in BOOLEAN /\ first \in BOOLEAN /\ last \in BOOLEAN
    BY <1>2, RegisterTypes, Zenon
  <2>3. acc.wr \in FifoSlots /\ acc.timer \in 0 .. TimeoutCycles + 1 /\ acc.size \in Nat
    BY <1>2, RegisterTypes
  <2>4. acc.count \in 0 .. MaxBatch
    BY <1>2
  <2>5. acc' \in Registers
    <3> HIDE DEF state, rd, pos, active, first, last, data
    <3> QED
      BY <1>4, <1>5, <2>1, <2>2, <2>3, <2>4 DEF Registers
  <2> QED
    BY <1>0, <1>2, <1>3, <2>5 DEF AccShape
<1>7. Progress'
  BY <1>0, <1>1, <1>2, <1>3, <1>4 DEF Progress
<1>8. Output'
  <2>1. pathOut' \in 1 .. Len(pathBatch')
    BY <1>1, <1>2, <1>3
  <2>2. (first <=> pathOut' = 1) /\ (last <=> pathOut' = Len(pathBatch'))
    BY <1>1, <1>2, <1>3
  <2>3. acc'.first = first /\ acc'.last = last
    <3> HIDE DEF first, last
    <3> QED
      BY <1>4
  <2>4. pathAligned' => acc'.data = Base' + pathOut'
    <3> HIDE DEF data
    <3> QED
      BY <1>3, <1>4, <1>5 DEF Base
  <2> QED
    BY <2>1, <2>2, <2>3, <2>4 DEF Output
<1>9. Batch'
  BY <1>0, <1>1, <1>2, <1>3, <1>4 DEF Batch, Base
<1>10. Given' = Base + pathOut
  BY <1>0, <1>2, <1>3, <1>4 DEF Given, Base, AccShape
<1> QED
  BY <1>3, <1>6, <1>7, <1>8, <1>9, <1>10

-----------------------------------------------------------------------------
(* The chain moves in step with the accumulator: the token it is offered   *)
(* is younger than all in it, and a layer takes only from one that gives.  *)
LEMMA InChainStep ==
  ASSUME IInv, NEW ends \in SUBSET BusyLayers, ChainEdge(ends),
         pathAligned' => pathAligned /\ Given' = Base + pathOut
  PROVE  InChain'
<1> SUFFICES ASSUME pathAligned' PROVE InChain'
  BY DEF InChain
<1> PICK last : last = Base + pathOut
  OBVIOUS
<1>1. /\ pathAligned /\ Given' = last /\ ChainShape /\ AccShape
      /\ \A n \in 1 .. Layers : Full(n) => chain[n].token \in 1 .. Given
      /\ \A n, k \in 1 .. Layers :
           n < k /\ Full(n) /\ Full(k) => chain[n].token > chain[k].token
  BY DEF IInv, InChain
<1>2. Layers \in Nat \ {0} /\ pathOut \in Nat /\ Base \in Nat /\ last \in Nat
  BY <1>1, PathAssumption DEF AccShape, IInv, Batch, Base
<1>3. acc.valid => acc.data = last /\ last >= 1 /\ Given = last - 1
  BY <1>1, <1>2 DEF IInv, Output, Given
<1>4. Given <= last /\ Given \in Int
  BY <1>2 DEF Given
<1>5. ASSUME NEW n \in 1 .. Layers, Full(n)'
      PROVE  \/ /\ chain[n].state = "BUSY" /\ Full(n) /\ chain'[n].token = chain[n].token
             \/ n = 1 /\ acc.valid /\ chain'[n].token = last
             \/ /\ n - 1 \in 1 .. Layers /\ chain[n].state = "EMPTY"
                /\ chain[n - 1].state = "GIVING" /\ Full(n - 1)
                /\ chain'[n].token = chain[n - 1].token
  BY <1>1, <1>2, <1>3, <1>5, LayerStep DEF Full
<1>6. ASSUME NEW n \in 1 .. Layers, Full(n)' PROVE chain'[n].token \in 1 .. last
  BY <1>1, <1>2, <1>3, <1>4, <1>5, <1>6
<1>7. ASSUME NEW n \in 1 .. Layers, NEW k \in 1 .. Layers, n < k, Full(n)', Full(k)'
      PROVE  chain'[n].token > chain'[k].token
  <2>1. PICK from \in {k, k - 1} \cap (1 .. Layers) :
          /\ Full(from) /\ chain'[k].token = chain[from].token
          /\ from = k => chain[from].state = "BUSY"
          /\ from = k - 1 => chain[from].state = "GIVING"
    BY <1>2, <1>5, <1>7
  <2>2. n <= from /\ from \in 1 .. Layers
    BY <1>2, <1>7, <2>1
  <2>3. CASE chain[n].state = "BUSY" /\ Full(n) /\ chain'[n].token = chain[n].token
    <3>1. n # from
      BY <1>7, <2>1, <2>3
    <3> QED
      BY <1>1, <1>2, <2>1, <2>2, <2>3, <3>1
  <2>4. CASE n = 1 /\ acc.valid /\ chain'[n].token = last
    <3>1. chain[from].token \in 1 .. last - 1
      BY <1>1, <1>3, <2>1, <2>2, <2>4
    <3> QED
      BY <1>2, <2>1, <2>4, <3>1
  <2>5. CASE /\ n - 1 \in 1 .. Layers /\ chain[n].state = "EMPTY"
             /\ chain[n - 1].state = "GIVING" /\ Full(n - 1)
             /\ chain'[n].token = chain[n - 1].token
    <3>1. n - 1 < from
      BY <1>2, <2>2
    <3> QED
      BY <1>1, <2>1, <2>2, <2>5, <3>1
  <2> QED
    BY <1>5, <1>7, <2>3, <2>4, <2>5
<1> QED
  BY <1>1, <1>6, <1>7 DEF InChain

LEMMA ResetInv == PathInit => IInv
<1> SUFFICES ASSUME PathInit PROVE IInv
  OBVIOUS
<1>1. MaxBatch \in Nat \ {0} /\ TimeoutCycles \in Nat /\ MaxTokens \in Nat
  BY PathAssumption
<1>2. AccShape
  <2>1. acc \in Registers
    BY <1>1 DEF PathInit, AccReset, Registers, FifoSlots
  <2> QED
    BY <1>1, <2>1 DEF PathInit, AccShape
<1>3. ChainShape /\ InChain
  BY DEF PathInit, ChainReset, ChainShape, Boxes, InChain, Full
<1>4. Progress /\ Output /\ Batch
  BY <1>1 DEF PathInit, AccReset, Progress, Output, Batch, Base
<1> QED
  BY <1>2, <1>3, <1>4 DEF IInv

LEMMA EdgeInv ==
  ASSUME IInv, NEW give \in BOOLEAN, NEW ends \in SUBSET BusyLayers,
         give => pathTokens < MaxTokens, PathEdge(give, ends)
  PROVE  IInv'
<1>1. /\ AccShape' /\ Progress' /\ Output' /\ Batch'
      /\ pathAligned' => pathAligned /\ Given' = Base + pathOut
  BY IdleStep, AccumulateStep, DispatchStep DEF PathEdge
<1>2. ChainEdge(ends) /\ AccShape /\ ChainShape
  BY DEF PathEdge, IInv
<1> QED
  BY <1>1, <1>2, ChainShapeStep, InChainStep DEF IInv

LEMMA NextInv ==
  ASSUME IInv, [PathNext]_pathVars
  PROVE  IInv'
<1>1. CASE PathReset
  <2>1. PathInit'
    BY <1>1 DEF PathReset, PathInit
  <2> QED
    BY <2>1, ResetInv, PTL
<1>2. CASE UNCHANGED pathVars
  BY <1>2 DEF pathVars, IInv, AccShape, ChainShape, Progress, Output, Batch, InChain,
     Full, Given, Base
<1>3. CASE \E give \in BOOLEAN, ends \in SUBSET BusyLayers :
             (give => pathTokens < MaxTokens) /\ PathEdge(give, ends)
  BY <1>3, EdgeInv
<1> QED
  BY <1>1, <1>2, <1>3 DEF PathNext

LEMMA InvImpliesCorrect ==
  ASSUME IInv
  PROVE  PathCorrect
<1>1. PathTypeOK
  BY RegisterTypes DEF IInv, AccShape, PathTypeOK
<1>2. BatchesWhole
  BY DEF IInv, AccShape, Progress, Output, Batch, BatchesWhole, Base
<1>3. ChainInOrder
  BY DEF IInv, InChain, Full, ChainInOrder
<1> QED
  BY <1>1, <1>2, <1>3 DEF PathCorrect

(* Whatever the sizes, and whichever of its two drivers sets the write     *)
(* pointer: the accumulator puts out as many tokens as were taken for the  *)
(* batch, the last marked; and while every batch since a reset began at    *)
(* slot 0, they are those tokens in the order they came, and they reach    *)
(* the layers and stay in them in that order.                              *)
THEOREM PathIsCorrect == PathSpec => []PathCorrect
<1>1. PathInit => IInv
  BY ResetInv
<1>2. IInv /\ [PathNext]_pathVars => IInv'
  BY NextInv
<1>3. IInv => PathCorrect
  BY InvImpliesCorrect
<1> QED
  BY <1>1, <1>2, <1>3, PTL DEF PathSpec

-----------------------------------------------------------------------------
(* The layer's inductive invariant, from the inside out.  First a linear   *)
(* engine, at work on row r for expert x with the activations av.          *)
Term(x, r, av, b) == <<x, r, b, av[b]>>

(* The pipeline n edges after the row's first beat went in.                *)
PipeAt(p, n, x, r, av, beats) ==
  p = [s \in 1 .. PipeStages |-> IF n - s \in 0 .. beats - 1 THEN <<Term(x, r, av, n - s)>>
                                 ELSE <<>>]

(* The terms that have left the pipeline by then, and their sum.           *)
Summed(n, beats) ==
  IF n <= PipeStages THEN 0 ELSE IF n - PipeStages > beats THEN beats ELSE n - PipeStages

SumAt(q, n, x, r, av, beats) == q = [b \in 1 .. Summed(n, beats) |-> Term(x, r, av, b - 1)]

Drained(p) == p = [s \in 1 .. PipeStages |-> <<>>]

EngineShape(e) ==
  e = [state |-> e.state, row |-> e.row, beat |-> e.beat, arrayStart |-> e.arrayStart,
       kValid |-> e.kValid, kLast |-> e.kLast, done |-> e.done, result |-> e.result,
       array |-> e.array, drain |-> e.drain, clear |-> e.clear, pipe |-> e.pipe,
       sum |-> e.sum]

(* Nothing is fed, and no result is told.                                  *)
Silent(e) ==
  EngineShape(e) /\ e.kValid = FALSE /\ e.kLast = FALSE /\ e.clear = FALSE /\ e.result = <<>>

Resting(e) ==
  /\ Silent(e) /\ e.state = "IDLE" /\ e.array = "IDLE" /\ e.arrayStart = FALSE
  /\ e.done = FALSE /\ Drained(e.pipe)

Finished(e) ==
  /\ Silent(e) /\ e.state = "DONE" /\ e.array = "IDLE" /\ e.arrayStart = FALSE
  /\ e.done = TRUE /\ Drained(e.pipe)

(* The phases of a row.                                                    *)
Arming(e, r) ==
  /\ Silent(e) /\ e.state = "ARRAY_START" /\ e.array = "IDLE" /\ e.arrayStart = TRUE
  /\ e.row = r /\ e.beat = 0 /\ e.done = FALSE /\ Drained(e.pipe)

Feeding(e, x, av, beats, r) ==
  /\ EngineShape(e) /\ e.state = "FEED" /\ e.array = "RUN" /\ e.arrayStart = FALSE
  /\ e.row = r /\ e.beat \in 0 .. beats - 1 /\ e.done = FALSE /\ e.result = <<>>
  /\ e.kValid = TRUE /\ e.kLast = (e.beat = beats - 1) /\ e.clear = (e.beat = 0)
  /\ PipeAt(e.pipe, e.beat, x, r, av, beats)
  /\ e.beat > 0 => SumAt(e.sum, e.beat, x, r, av, beats)

Draining(e, x, av, beats, r) ==
  /\ Silent(e) /\ e.state = "WAIT" /\ e.array = "DRAIN" /\ e.arrayStart = FALSE
  /\ e.row = r /\ e.drain \in 0 .. DrainCycles /\ e.done = FALSE
  /\ PipeAt(e.pipe, beats + DrainCycles - e.drain, x, r, av, beats)
  /\ SumAt(e.sum, beats + DrainCycles - e.drain, x, r, av, beats)

Giving(e, x, av, beats, r) ==
  /\ Silent(e) /\ e.state = "WAIT" /\ e.array = "OUTPUT" /\ e.arrayStart = FALSE
  /\ e.row = r /\ e.done = FALSE /\ Drained(e.pipe) /\ e.sum = RowSum(x, r, av, beats)

Told(e, x, av, beats, r) ==
  /\ EngineShape(e) /\ e.state = "RESULT" /\ e.array = "DONE" /\ e.arrayStart = FALSE
  /\ e.row = r /\ e.done = FALSE /\ Drained(e.pipe)
  /\ e.kValid = FALSE /\ e.kLast = FALSE /\ e.clear = FALSE
  /\ e.result = <<r, RowSum(x, r, av, beats)>>

AtRow(e, x, av, beats, r) ==
  \/ Arming(e, r) \/ Feeding(e, x, av, beats, r) \/ Draining(e, x, av, beats, r)
  \/ Giving(e, x, av, beats, r) \/ Told(e, x, av, beats, r)

-----------------------------------------------------------------------------
(* The expert engine, at work for expert x with the activations av.        *)
FfnShape ==
  ffn = [state |-> ffn.state, guStart |-> ffn.guStart, downStart |-> ffn.downStart,
         done |-> ffn.done, midWrite |-> ffn.midWrite, downStarted |-> ffn.downStarted,
         downBeat |-> ffn.downBeat, gateVec |-> ffn.gateVec, upVec |-> ffn.upVec,
         mid |-> ffn.mid]

FfnTypes ==
  /\ FfnShape /\ up = gate
  /\ ffn.upVec = ffn.gateVec
  /\ ffn.gateVec = [i \in 0 .. InterBeats - 1 |-> ffn.gateVec[i]]
  /\ DOMAIN ffn.mid = 0 .. InterBeats - 1
  /\ ffnMid = [b \in 0 .. InterBeats - 1 |-> ffnMid[b]]
  /\ ffnActiv = [b \in 0 .. HiddenBeats - 1 |-> ffnActiv[b]]
  /\ ffo = [r \in 0 .. HiddenBeats - 1 |-> ffo[r]]

(* The value of row i of gate and up, of row i of their product, and of    *)
(* the row r of down.                                                      *)
Half(x, i, av) == RowSum(x, i, av, HiddenBeats)
Products(x, av) == [i \in 0 .. InterBeats - 1 |-> <<Half(x, i, av), Half(x, i, av)>>]

Halves(x, av, n) == \A i \in 0 .. InterBeats - 1 : i < n => ffn.gateVec[i] = Half(x, i, av)
Rows(x, av, n) == \A r \in 0 .. HiddenBeats - 1 : r < n => ffo[r] = ExpertRow(x, r, av)

NoPulse ==
  ffn.guStart = FALSE /\ ffn.downStart = FALSE /\ ffn.done = FALSE /\ ffn.midWrite = FALSE

FfnQuiet ==
  ffn.state = "IDLE" /\ NoPulse /\ ffn.downBeat = 0 /\ Resting(gate) /\ Resting(down)

Starting ==
  /\ ffn.state = "RUN_GU" /\ ffn.guStart = TRUE /\ ffn.downStart = FALSE
  /\ ffn.done = FALSE /\ ffn.midWrite = FALSE /\ ffn.downBeat = 0
  /\ Resting(gate) /\ Resting(down)

Projecting(x, av) ==
  /\ ffn.state = "RUN_GU" /\ NoPulse /\ ffn.downBeat = 0 /\ Resting(down)
  /\ \E r \in 0 .. InterBeats - 1 : AtRow(gate, x, av, HiddenBeats, r) /\ Halves(x, av, r)

Projected(x, av) ==
  /\ ffn.state = "RUN_GU" /\ NoPulse /\ ffn.downBeat = 0 /\ Resting(down)
  /\ Finished(gate) /\ Halves(x, av, InterBeats)

Multiplying(x, av) ==
  /\ ffn.state = "MID" /\ NoPulse /\ ffn.downBeat = 0 /\ Resting(gate) /\ Resting(down)
  /\ Halves(x, av, InterBeats)

(* The beat before downBeat is being written, and beat 0 comes last.       *)
Loading(x, av) ==
  /\ ffn.state = "LOAD_DOWN" /\ Resting(gate) /\ Resting(down) /\ ffn.mid = Products(x, av)
  /\ ffn.guStart = FALSE /\ ffn.downStart = FALSE /\ ffn.done = FALSE
  /\ ffn.downBeat \in 0 .. InterBeats - 1
  /\ ffn.downBeat = 0 => ffn.midWrite = FALSE
  /\ ffn.downBeat # 0 => ffn.midWrite = TRUE
  /\ \A b \in 1 .. InterBeats - 1 : b < ffn.downBeat => ffnMid[b] = Products(x, av)[b]

Loaded(x, av) ==
  /\ ffn.state = "RUN_DOWN" /\ Resting(gate) /\ Resting(down) /\ ffn.mid = Products(x, av)
  /\ ffn.guStart = FALSE /\ ffn.downStart = FALSE /\ ffn.done = FALSE
  /\ ffn.downBeat = 0 /\ ffn.midWrite = TRUE /\ ffn.downStarted = FALSE
  /\ \A b \in 1 .. InterBeats - 1 : ffnMid[b] = Products(x, av)[b]

DownStarting(x, av) ==
  /\ ffn.state = "RUN_DOWN" /\ Resting(gate) /\ Resting(down) /\ ffnMid = Products(x, av)
  /\ ffn.guStart = FALSE /\ ffn.downStart = TRUE /\ ffn.done = FALSE
  /\ ffn.downBeat = 0 /\ ffn.midWrite = FALSE /\ ffn.downStarted = TRUE

DownRunning(x, av) ==
  /\ ffn.state = "RUN_DOWN" /\ Resting(gate) /\ ffnMid = Products(x, av)
  /\ NoPulse /\ ffn.downBeat = 0 /\ ffn.downStarted = TRUE
  /\ \E r \in 0 .. HiddenBeats - 1 :
       AtRow(down, x, Products(x, av), InterBeats, r) /\ Rows(x, av, r)

DownFinished(x, av) ==
  /\ ffn.state = "RUN_DOWN" /\ Resting(gate) /\ Finished(down)
  /\ NoPulse /\ ffn.downBeat = 0 /\ ffn.downStarted = TRUE /\ Rows(x, av, HiddenBeats)

FfnThrough(x, av) ==
  /\ ffn.state = "DONE" /\ ffn.done = TRUE /\ ffn.guStart = FALSE /\ ffn.downStart = FALSE
  /\ ffn.midWrite = FALSE /\ ffn.downBeat = 0 /\ Resting(gate) /\ Resting(down)
  /\ Rows(x, av, HiddenBeats)

FfnAtWork(x, av) ==
  \/ Starting \/ Projecting(x, av) \/ Projected(x, av) \/ Multiplying(x, av) \/ Loading(x, av)
  \/ Loaded(x, av) \/ DownStarting(x, av) \/ DownRunning(x, av) \/ DownFinished(x, av)
  \/ FfnThrough(x, av)

-----------------------------------------------------------------------------
(* The layer at a token.                                                   *)
BlockShape(b) == b = [token |-> b.token, left |-> b.left, out |-> b.out, valid |-> b.valid]

Still(b) == BlockShape(b) /\ b.left = 0 /\ b.valid = FALSE

(* A value on its way through a block: not taken yet, in it, or through.   *)
Inside(b, value) == BlockShape(b) /\ b.left \in Nat \ {0} /\ b.valid = FALSE /\ b.token = value
Through(b, value) == BlockShape(b) /\ b.left = 0 /\ b.valid = TRUE /\ b.out = value

Beats(token) == [b \in 0 .. HiddenBeats - 1 |-> <<token, b>>]

(* What the activation memory holds once the pending write is done.        *)
Written ==
  [b \in 0 .. HiddenBeats - 1 |->
     IF \E w \in lay.write : w[1] = b THEN (CHOOSE w \in lay.write : TRUE)[2] ELSE ffnActiv[b]]

LayShape ==
  lay = [state |-> lay.state, normIn |-> lay.normIn, normStart |-> lay.normStart,
         attnStart |-> lay.attnStart, rtrStart |-> lay.rtrStart, write |-> lay.write,
         ffnStart |-> lay.ffnStart, beat |-> lay.beat, k |-> lay.k, expert |-> lay.expert,
         weight |-> lay.weight, acc |-> lay.acc, valid |-> lay.valid, y |-> lay.y]

RtrShape ==
  rtr = [state |-> rtr.state, expert |-> rtr.expert, pair |-> rtr.pair, token |-> rtr.token,
         round |-> rtr.round, taken |-> rtr.taken, top |-> rtr.top, score |-> rtr.score]

(* The router, idle or at a token.                                         *)
RtrTypes ==
  /\ RtrShape /\ rtr.state \in {"IDLE", "LATCH", "COMPUTE", "SELECT", "OUTPUT"}
  /\ rtr.top \in [0 .. TopK - 1 -> 0 .. Experts - 1] /\ rtr.round \in 0 .. TopK - 1

LayTypes ==
  /\ LayShape /\ lay.expert \in 0 .. SelLimit - 1 /\ lay.k \in 0 .. TopK - 1
  /\ lay.normIn = [n \in 1 .. 3 |-> lay.normIn[n]]
  /\ norm = [n \in 1 .. 3 |-> norm[n]]
  /\ layTaken.scores \in [0 .. Experts - 1 -> Int]

(* The pulses of the layer's state.                                        *)
Pulses ==
  /\ lay.state \notin {"R1", "R2", "R3"} => lay.normStart = 0
  /\ lay.state # "ATTN" => lay.attnStart = FALSE
  /\ lay.state # "RTR" => lay.rtrStart = FALSE
  /\ lay.state \notin {"FFN_LD", "FFN"} => lay.write = {}
  /\ lay.state # "FFN" => lay.ffnStart = FALSE
  /\ lay.state # "OUT" => lay.valid = FALSE

(* The token in a norm, the others still.                                  *)
Norming(n, value) ==
  /\ \/ lay.normStart = n /\ Still(norm[n]) /\ lay.normIn[n] = value
     \/ lay.normStart = 0 /\ (Inside(norm[n], value) \/ Through(norm[n], value))
  /\ \A m \in 1 .. 3 : m # n => Still(norm[m])

NormsStill == \A m \in 1 .. 3 : Still(norm[m])

Attending(value) ==
  \/ lay.attnStart = TRUE /\ Still(attn) /\ norm[1].out = value
  \/ lay.attnStart = FALSE /\ (Inside(attn, value) \/ Through(attn, value))

(* The first n experts picked: different ones, none passed over with a     *)
(* higher score.                                                           *)
Picked(top, n) == {top[j] : j \in 0 .. n - 1}

Ranked(top, scores, n) ==
  \A i \in 0 .. n - 1 :
    /\ top[i] \notin Picked(top, i)
    /\ \A f \in (0 .. Experts - 1) \ Picked(top, i + 1) : scores[f] <= scores[top[i]]

RouterAt ==
  /\ rtr.state = "SELECT" => /\ rtr.taken = Picked(rtr.top, rtr.round)
                             /\ Ranked(rtr.top, layTaken.scores, rtr.round)
  /\ rtr.state = "OUTPUT" => Ranked(rtr.top, layTaken.scores, TopK)

(* The experts' rows under their weights, up to the first n.               *)
Gathered(n) ==
  [i \in 1 .. n |-> <<lay.weight[i - 1],
                      [r \in 0 .. HiddenBeats - 1 |->
                         ExpertRow(EngineOf(rtr.top[i - 1]), r, Beats(layTaken.token))]>>]

Routed ==
  /\ Ranked(rtr.top, layTaken.scores, TopK) /\ rtr.state = "IDLE"
  /\ norm[2].out = layTaken.token

AtIdle == lay.state = "IDLE" /\ NormsStill /\ Still(attn) /\ rtr.state = "IDLE" /\ FfnQuiet

AtFirst ==
  /\ lay.state = "R1" /\ Norming(1, layTaken.token) /\ Still(attn) /\ rtr.state = "IDLE"
  /\ FfnQuiet

AtAttention ==
  lay.state = "ATTN" /\ NormsStill /\ Attending(layTaken.token) /\ rtr.state = "IDLE" /\ FfnQuiet

AtSecond ==
  /\ lay.state = "R2" /\ Norming(2, layTaken.token) /\ Still(attn) /\ rtr.state = "IDLE"
  /\ FfnQuiet

AtRouter ==
  /\ lay.state = "RTR" /\ NormsStill /\ Still(attn) /\ FfnQuiet
  /\ norm[2].out = layTaken.token
  /\ (lay.rtrStart = TRUE) <=> (rtr.state = "IDLE")
  /\ RouterAt

AtLoad ==
  /\ lay.state = "FFN_LD" /\ NormsStill /\ Still(attn) /\ FfnQuiet /\ Routed
  /\ lay.k = 0 /\ lay.acc = <<>> /\ lay.expert = EngineOf(rtr.top[0])
  /\ lay.beat \in 0 .. HiddenBeats - 1 /\ (lay.beat = 0 \/ lay.beat < HiddenBeats - 1)
  /\ \A b \in 0 .. lay.beat : Written[b] = Beats(layTaken.token)[b]

AtExpert ==
  /\ lay.state = "FFN" /\ NormsStill /\ Still(attn) /\ Routed
  /\ lay.acc = Gathered(lay.k) /\ lay.expert = EngineOf(rtr.top[lay.k])
  /\ \/ lay.ffnStart = TRUE /\ FfnQuiet /\ Written = Beats(layTaken.token)
     \/ /\ lay.ffnStart = FALSE /\ lay.write = {} /\ ffnActiv = Beats(layTaken.token)
        /\ FfnAtWork(lay.expert, Beats(layTaken.token))

AtAccumulate ==
  /\ lay.state = "MOE_ACCUM" /\ NormsStill /\ Still(attn) /\ Routed
  /\ lay.acc = Gathered(lay.k) /\ lay.expert = EngineOf(rtr.top[lay.k])
  /\ ffnActiv = Beats(layTaken.token)
  /\ FfnQuiet /\ Rows(lay.expert, Beats(layTaken.token), HiddenBeats)

AtLast ==
  /\ lay.state = "R3" /\ Norming(3, Gathered(TopK)) /\ Still(attn) /\ Routed /\ FfnQuiet

AtOutput ==
  /\ lay.state = "OUT" /\ NormsStill /\ Still(attn) /\ Routed /\ FfnQuiet
  /\ lay.valid = TRUE /\ lay.y = Gathered(TopK)

LayerStage ==
  \/ AtIdle \/ AtFirst \/ AtAttention \/ AtSecond \/ AtRouter \/ AtLoad \/ AtExpert
  \/ AtAccumulate \/ AtLast \/ AtOutput

LayerInv == FfnTypes /\ RtrTypes /\ LayTypes /\ Pulses /\ LayerStage

-----------------------------------------------------------------------------
(* What an edge does to a pipeline and to the sum behind it.               *)
IsPipe(p) == p = [s \in 1 .. PipeStages |-> p[s]]

Shifted(p, v, q, out) ==
  /\ q = [s \in 1 .. PipeStages |-> IF s = 1 THEN v ELSE p[s - 1]]
  /\ out = p[PipeStages]

LEMMA PushFront ==
  ASSUME NEW p, IsPipe(p), NEW v
  PROVE  Shifted(p, v, <<v>> \o Front(p), Last(p))
<1>0. PICK P : P = PipeStages
  OBVIOUS
<1>a. P \in Nat \ {0} /\ p = [s \in 1 .. P |-> p[s]]
  BY <1>0, FfnAssumption DEF IsPipe
<1>1. PICK S : S = {p[s] : s \in 1 .. P} \cup {v}
  OBVIOUS
<1>2. p \in Seq(S) /\ Len(p) = P /\ v \in S
  BY <1>1, <1>a
<1>3. PICK f : f = Front(p)
  OBVIOUS
<1>4. f \in Seq(S) /\ Len(f) = P - 1 /\ \A s \in 1 .. P - 1 : f[s] = p[s]
  BY <1>2, <1>3, <1>a DEF Front
<1>5. PICK q : q = <<v>> \o f
  OBVIOUS
<1>6. q \in Seq(S) /\ Len(q) = P /\ q[1] = v /\ \A s \in 2 .. P : q[s] = f[s - 1]
  BY <1>2, <1>4, <1>5, <1>a
<1>7. q = [s \in 1 .. P |-> q[s]]
  BY <1>6
<1>8. ASSUME NEW s \in 1 .. P PROVE q[s] = IF s = 1 THEN v ELSE p[s - 1]
  <2>1. CASE s = 1
    BY <2>1, <1>6
  <2>2. CASE s # 1
    <3>1. s \in 2 .. P /\ s - 1 \in 1 .. P - 1
      BY <2>2, <1>a
    <3> QED BY <3>1, <2>2, <1>4, <1>6
  <2> QED BY <2>1, <2>2
<1>9. q = [s \in 1 .. P |-> IF s = 1 THEN v ELSE p[s - 1]]
  BY <1>7, <1>8
<1>10. Last(p) = p[P]
  BY <1>2, <1>a DEF Last
<1> QED BY <1>0, <1>3, <1>5, <1>9, <1>10 DEF Shifted

LEMMA PipeStep ==
  ASSUME NEW n \in Nat, NEW beats \in Nat \ {0}, NEW x, NEW r, NEW av, NEW p, NEW v,
         PipeAt(p, n, x, r, av, beats),
         v = IF n <= beats - 1 THEN <<Term(x, r, av, n)>> ELSE <<>>
  PROVE  /\ PipeAt(<<v>> \o Front(p), n + 1, x, r, av, beats)
         /\ Last(p) = IF n - PipeStages \in 0 .. beats - 1
                      THEN <<Term(x, r, av, n - PipeStages)>> ELSE <<>>
<1>0. PipeStages \in Nat \ {0}
  BY FfnAssumption
<1>1. p = [s \in 1 .. PipeStages |-> p[s]]
  BY DEF PipeAt
<1>2. PICK q : q = <<v>> \o Front(p)
  OBVIOUS
<1>3. /\ q = [s \in 1 .. PipeStages |-> IF s = 1 THEN v ELSE p[s - 1]]
      /\ Last(p) = p[PipeStages]
  <2>1. IsPipe(p)
    BY <1>1 DEF IsPipe
  <2>2. Shifted(p, v, <<v>> \o Front(p), Last(p))
    BY <2>1, PushFront
  <2> QED BY <2>2, <1>2 DEF Shifted
<1>4. ASSUME NEW s \in 1 .. PipeStages
      PROVE  (IF s = 1 THEN v ELSE p[s - 1])
               = IF (n + 1) - s \in 0 .. beats - 1
                 THEN <<Term(x, r, av, (n + 1) - s)>> ELSE <<>>
  <2>1. CASE s = 1
    <3>1. (n + 1) - s = n
      BY <2>1
    <3> QED BY <3>1, <2>1
  <2>2. CASE s # 1
    <3>1. s - 1 \in 1 .. PipeStages /\ n - (s - 1) = (n + 1) - s
      BY <2>2, <1>0
    <3> QED BY <3>1, <2>2 DEF PipeAt
  <2> QED BY <2>1, <2>2
<1>5. PipeAt(q, n + 1, x, r, av, beats)
  BY <1>3, <1>4 DEF PipeAt
<1>6. Last(p) = IF n - PipeStages \in 0 .. beats - 1
                THEN <<Term(x, r, av, n - PipeStages)>> ELSE <<>>
  BY <1>3, <1>0 DEF PipeAt
<1> QED BY <1>2, <1>5, <1>6

LEMMA DrainedStep ==
  ASSUME NEW p, Drained(p)
  PROVE  Drained(<< <<>> >> \o Front(p)) /\ Last(p) = <<>>
<1>0. PipeStages \in Nat \ {0}
  BY FfnAssumption
<1>1. p = [s \in 1 .. PipeStages |-> p[s]] /\ \A s \in 1 .. PipeStages : p[s] = <<>>
  BY DEF Drained
<1>2. PICK v : v = <<>>
  OBVIOUS
<1>3. /\ <<v>> \o Front(p) = [s \in 1 .. PipeStages |-> IF s = 1 THEN v ELSE p[s - 1]]
      /\ Last(p) = p[PipeStages]
  <2>1. IsPipe(p)
    BY <1>1 DEF IsPipe
  <2>2. Shifted(p, v, <<v>> \o Front(p), Last(p))
    BY <2>1, PushFront
  <2> QED BY <2>2 DEF Shifted
<1>4. \A s \in 1 .. PipeStages : (IF s = 1 THEN v ELSE p[s - 1]) = <<>>
  BY <1>0, <1>1, <1>2
<1> QED BY <1>0, <1>1, <1>2, <1>3, <1>4 DEF Drained

LEMMA PipeEnds ==
  ASSUME NEW p, NEW x, NEW r, NEW av, NEW beats \in Nat \ {0}, NEW n \in Nat
  PROVE  /\ Drained(p) => PipeAt(p, 0, x, r, av, beats)
         /\ PipeAt(p, n, x, r, av, beats) /\ n >= beats + PipeStages => Drained(p)
<1>0. PipeStages \in Nat \ {0}
  BY FfnAssumption
<1>1. ASSUME NEW s \in 1 .. PipeStages PROVE 0 - s \notin 0 .. beats - 1
  BY <1>0
<1>2. ASSUME NEW s \in 1 .. PipeStages, n >= beats + PipeStages
      PROVE  n - s \notin 0 .. beats - 1
  BY <1>0, <1>2
<1> QED BY <1>1, <1>2 DEF Drained, PipeAt

LEMMA PushSum ==
  ASSUME NEW k \in Nat, NEW q, NEW t, q = [b \in 1 .. k |-> q[b]]
  PROVE  /\ q \o <<t>> = [b \in 1 .. k + 1 |-> IF b = k + 1 THEN t ELSE q[b]]
         /\ q \o <<>> = q
<1>1. PICK S : S = {q[b] : b \in 1 .. k} \cup {t}
  OBVIOUS
<1>2. q \in Seq(S) /\ Len(q) = k /\ t \in S
  BY <1>1
<1>4. PICK g : g = q \o <<t>>
  OBVIOUS
<1>5. g \in Seq(S) /\ Len(g) = k + 1 /\ g[k + 1] = t /\ \A b \in 1 .. k : g[b] = q[b]
  BY <1>2, <1>4
<1>6. g = [b \in 1 .. k + 1 |-> g[b]]
  BY <1>5
<1>7. \A b \in 1 .. k + 1 : g[b] = IF b = k + 1 THEN t ELSE q[b]
  BY <1>5
<1>8. g = [b \in 1 .. k + 1 |-> IF b = k + 1 THEN t ELSE q[b]]
  BY <1>6, <1>7
<1>9. q \o <<>> = q
  BY <1>2
<1> QED BY <1>4, <1>8, <1>9

LEMMA SumStep ==
  ASSUME NEW n \in Nat, NEW beats \in Nat \ {0}, NEW x, NEW r, NEW av, NEW q, NEW out,
         SumAt(q, n, x, r, av, beats),
         out = IF n - PipeStages \in 0 .. beats - 1
               THEN <<Term(x, r, av, n - PipeStages)>> ELSE <<>>
  PROVE  SumAt(q \o out, n + 1, x, r, av, beats)
<1>0. PipeStages \in Nat \ {0}
  BY FfnAssumption
<1>1. PICK k : k = Summed(n, beats)
  OBVIOUS
<1>2. k \in Nat /\ q = [b \in 1 .. k |-> q[b]]
  BY <1>0, <1>1 DEF Summed, SumAt
<1>3. CASE n - PipeStages \in 0 .. beats - 1
  <2>1. k = n - PipeStages /\ Summed(n + 1, beats) = k + 1
    BY <1>0, <1>1, <1>3 DEF Summed
  <2>2. PICK t : t = Term(x, r, av, k)
    OBVIOUS
  <2>3. q \o out = [b \in 1 .. k + 1 |-> IF b = k + 1 THEN t ELSE q[b]]
    BY <1>2, <1>3, <2>1, <2>2, PushSum
  <2>4. ASSUME NEW b \in 1 .. k + 1
        PROVE  (IF b = k + 1 THEN t ELSE q[b]) = Term(x, r, av, b - 1)
    <3>1. CASE b = k + 1
      <4>1. b - 1 = k
        BY <3>1, <1>2
      <4> QED BY <4>1, <3>1, <2>2
    <3>2. CASE b # k + 1
      <4>1. b \in 1 .. k
        BY <3>2, <1>2
      <4> QED BY <4>1, <3>2, <1>1 DEF SumAt
    <3> QED BY <3>1, <3>2
  <2> QED BY <2>1, <2>3, <2>4 DEF SumAt
<1>4. CASE n - PipeStages \notin 0 .. beats - 1
  <2>1. Summed(n + 1, beats) = k
    BY <1>0, <1>1, <1>4 DEF Summed
  <2>2. q \o out = q
    BY <1>2, <1>4, PushSum
  <2> QED BY <2>1, <2>2, <1>1 DEF SumAt
<1> QED BY <1>3, <1>4

LEMMA SumEnds ==
  ASSUME NEW q, NEW x, NEW r, NEW av, NEW beats \in Nat \ {0}, NEW n \in Nat
  PROVE  /\ SumAt(<<>>, 1, x, r, av, beats)
         /\ SumAt(q, n, x, r, av, beats) /\ n >= beats + PipeStages
              => q = RowSum(x, r, av, beats)
<1>0. PipeStages \in Nat \ {0}
  BY FfnAssumption
<1>1. Summed(1, beats) = 0
  BY <1>0 DEF Summed
<1>2. SumAt(<<>>, 1, x, r, av, beats)
  BY <1>1 DEF SumAt
<1>3. ASSUME SumAt(q, n, x, r, av, beats), n >= beats + PipeStages
      PROVE  q = RowSum(x, r, av, beats)
  <2>1. Summed(n, beats) = beats
    BY <1>0, <1>3 DEF Summed
  <2> QED BY <2>1, <1>3 DEF SumAt, RowSum, Term
<1> QED BY <1>2, <1>3

-----------------------------------------------------------------------------
(* An edge of an engine, field by field.                                   *)
Fields(g, state, row, beat, arrayStart, kValid, kLast, done, result) ==
  /\ EngineShape(g) /\ g.state = state /\ g.row = row /\ g.beat = beat
  /\ g.arrayStart = arrayStart /\ g.kValid = kValid /\ g.kLast = kLast
  /\ g.done = done /\ g.result = result

Merged(c, a, g) ==
  /\ EngineShape(g) /\ g.state = c.state /\ g.row = c.row /\ g.beat = c.beat
  /\ g.arrayStart = c.arrayStart /\ g.kValid = c.kValid /\ g.kLast = c.kLast
  /\ g.done = c.done /\ g.result = c.result
  /\ g.array = a.array /\ g.drain = a.drain /\ g.clear = a.clear /\ g.pipe = a.pipe
  /\ g.sum = a.sum

LEMMA EngineFields ==
  ASSUME NEW e, NEW start, NEW x, NEW av, NEW rows, NEW beats, NEW c, NEW a, NEW g,
         c = EngineControl(e, start, rows, beats),
         a = ArrayEdge(e, <<x, e.row, e.beat, av[e.beat]>>),
         g = EngineEdge(e, start, x, av, rows, beats), EngineShape(c)
  PROVE  Merged(c, a, g)
<1>1. g = [c EXCEPT !.array = a.array, !.drain = a.drain, !.clear = a.clear,
                    !.pipe = a.pipe, !.sum = a.sum]
  BY DEF EngineEdge
<1>2. PICK array, drain, clear, pipe, sum :
        /\ array = a.array /\ drain = a.drain /\ clear = a.clear /\ pipe = a.pipe
        /\ sum = a.sum
  OBVIOUS
<1>3. g = [c EXCEPT !.array = array, !.drain = drain, !.clear = clear, !.pipe = pipe,
                    !.sum = sum]
  BY <1>1, <1>2
<1>4. EngineShape(c)
  OBVIOUS
<1>5. g = [state |-> c.state, row |-> c.row, beat |-> c.beat, arrayStart |-> c.arrayStart,
           kValid |-> c.kValid, kLast |-> c.kLast, done |-> c.done, result |-> c.result,
           array |-> array, drain |-> drain, clear |-> clear, pipe |-> pipe, sum |-> sum]
  BY <1>3, <1>4 DEF EngineShape
<1> QED BY <1>2, <1>5 DEF EngineShape, Merged

(* Nothing fed into a resting array, or into one whose pipeline is empty.  *)
LEMMA ArrayDrained ==
  ASSUME NEW e, NEW v, NEW a, a = ArrayEdge(e, v), EngineShape(e), Drained(e.pipe),
         e.kValid = FALSE, e.clear = FALSE, e.array \in {"IDLE", "OUTPUT", "DONE"}
  PROVE  /\ Drained(a.pipe) /\ a.clear = (e.array = "IDLE" /\ e.arrayStart)
         /\ a.sum = e.sum \o <<>>
         /\ a.array = CASE e.array = "IDLE" -> IF e.arrayStart THEN "RUN" ELSE "IDLE"
                        [] e.array = "OUTPUT" -> "DONE"
                        [] e.array = "DONE" -> IF e.arrayStart THEN "DONE" ELSE "IDLE"
<1>1. PICK p : p = e.pipe
  OBVIOUS
<1>2. Drained(<< <<>> >> \o Front(p)) /\ Last(p) = <<>>
  BY <1>1, DrainedStep
<1>3. a.pipe = << <<>> >> \o Front(p)
  BY <1>1 DEF ArrayEdge, EngineShape
<1>4. a.clear = (e.array = "IDLE" /\ e.arrayStart)
  BY DEF ArrayEdge, EngineShape
<1>5. a.sum = e.sum \o Last(p)
  BY <1>1 DEF ArrayEdge, EngineShape
<1>6. a.array = CASE e.array = "IDLE" -> IF e.arrayStart THEN "RUN" ELSE "IDLE"
                  [] e.array = "OUTPUT" -> "DONE"
                  [] e.array = "DONE" -> IF e.arrayStart THEN "DONE" ELSE "IDLE"
  BY DEF ArrayEdge, EngineShape
<1> QED BY <1>2, <1>3, <1>4, <1>5, <1>6

LEMMA RestingStep ==
  ASSUME NEW e, NEW x, NEW av, NEW rows, NEW beats, NEW g, Resting(e),
         g = EngineEdge(e, FALSE, x, av, rows, beats)
  PROVE  Resting(g)
<1>1. PICK c : c = EngineControl(e, FALSE, rows, beats)
  OBVIOUS
<1>2. PICK a : a = ArrayEdge(e, <<x, e.row, e.beat, av[e.beat]>>)
  OBVIOUS
<1>3. Fields(c, "IDLE", e.row, e.beat, FALSE, FALSE, FALSE, FALSE, <<>>)
  BY <1>1 DEF EngineControl, Resting, Silent, EngineShape, Fields
<1>4. Drained(a.pipe) /\ a.clear = FALSE /\ a.array = "IDLE"
  <2>1. /\ EngineShape(e) /\ Drained(e.pipe) /\ e.kValid = FALSE /\ e.clear = FALSE
        /\ e.array = "IDLE" /\ e.arrayStart = FALSE
    BY DEF Resting, Silent
  <2> QED BY <2>1, <1>2, ArrayDrained
<1>5. EngineShape(c)
  BY <1>3 DEF Fields
<1>6. Merged(c, a, g)
  BY <1>1, <1>2, <1>5, EngineFields
<1> QED BY <1>3, <1>4, <1>6 DEF Fields, Merged, Resting, Silent

LEMMA FinishedStep ==
  ASSUME NEW e, NEW x, NEW av, NEW rows, NEW beats, NEW g, Finished(e),
         g = EngineEdge(e, FALSE, x, av, rows, beats)
  PROVE  Resting(g)
<1>1. PICK c : c = EngineControl(e, FALSE, rows, beats)
  OBVIOUS
<1>2. PICK a : a = ArrayEdge(e, <<x, e.row, e.beat, av[e.beat]>>)
  OBVIOUS
<1>3. Fields(c, "IDLE", e.row, e.beat, FALSE, FALSE, FALSE, FALSE, <<>>)
  BY <1>1 DEF EngineControl, Finished, Silent, EngineShape, Fields
<1>4. Drained(a.pipe) /\ a.clear = FALSE /\ a.array = "IDLE"
  <2>1. /\ EngineShape(e) /\ Drained(e.pipe) /\ e.kValid = FALSE /\ e.clear = FALSE
        /\ e.array = "IDLE" /\ e.arrayStart = FALSE
    BY DEF Finished, Silent
  <2> QED BY <2>1, <1>2, ArrayDrained
<1>5. EngineShape(c)
  BY <1>3 DEF Fields
<1>6. Merged(c, a, g)
  BY <1>1, <1>2, <1>5, EngineFields
<1> QED BY <1>3, <1>4, <1>6 DEF Fields, Merged, Resting, Silent

LEMMA StartStep ==
  ASSUME NEW e, NEW x, NEW av, NEW rows, NEW beats, NEW g, Resting(e),
         g = EngineEdge(e, TRUE, x, av, rows, beats)
  PROVE  Arming(g, 0)
<1>1. PICK c : c = EngineControl(e, TRUE, rows, beats)
  OBVIOUS
<1>2. PICK a : a = ArrayEdge(e, <<x, e.row, e.beat, av[e.beat]>>)
  OBVIOUS
<1>3. Fields(c, "ARRAY_START", 0, 0, TRUE, FALSE, FALSE, FALSE, <<>>)
  BY <1>1 DEF EngineControl, Resting, Silent, EngineShape, Fields
<1>4. Drained(a.pipe) /\ a.clear = FALSE /\ a.array = "IDLE"
  <2>1. /\ EngineShape(e) /\ Drained(e.pipe) /\ e.kValid = FALSE /\ e.clear = FALSE
        /\ e.array = "IDLE" /\ e.arrayStart = FALSE
    BY DEF Resting, Silent
  <2> QED BY <2>1, <1>2, ArrayDrained
<1>5. EngineShape(c)
  BY <1>3 DEF Fields
<1>6. Merged(c, a, g)
  BY <1>1, <1>2, <1>5, EngineFields
<1> QED BY <1>3, <1>4, <1>6 DEF Fields, Merged, Arming, Silent

LEMMA ArmingStep ==
  ASSUME NEW e, NEW start, NEW x, NEW av, NEW rows, NEW beats \in Nat \ {0}, NEW r, NEW g,
         Arming(e, r), g = EngineEdge(e, start, x, av, rows, beats)
  PROVE  Feeding(g, x, av, beats, r)
<1>1. PICK c : c = EngineControl(e, start, rows, beats)
  OBVIOUS
<1>2. PICK a : a = ArrayEdge(e, <<x, e.row, e.beat, av[e.beat]>>)
  OBVIOUS
<1>3. Fields(c, "FEED", r, 0, FALSE, TRUE, (beats = 1), FALSE, <<>>)
  BY <1>1 DEF EngineControl, Arming, Silent, EngineShape, Fields
<1>4. Drained(a.pipe) /\ a.clear = TRUE /\ a.array = "RUN"
  <2>1. /\ EngineShape(e) /\ Drained(e.pipe) /\ e.kValid = FALSE /\ e.clear = FALSE
        /\ e.array = "IDLE" /\ e.arrayStart = TRUE
    BY DEF Arming, Silent
  <2> QED BY <2>1, <1>2, ArrayDrained
<1>5. EngineShape(c)
  BY <1>3 DEF Fields
<1>6. Merged(c, a, g)
  BY <1>1, <1>2, <1>5, EngineFields
<1>7. PipeAt(g.pipe, 0, x, r, av, beats)
  BY <1>4, <1>6, PipeEnds DEF Merged
<1>8. g.kLast = (0 = beats - 1)
  BY <1>3, <1>6 DEF Fields, Merged
<1>9. g.clear = TRUE
  BY <1>4, <1>6 DEF Merged
<1>11. 0 \in 0 .. beats - 1
  OBVIOUS
<1>10. /\ EngineShape(g) /\ g.state = "FEED" /\ g.array = "RUN" /\ g.arrayStart = FALSE
       /\ g.row = r /\ g.beat = 0 /\ g.done = FALSE /\ g.result = <<>> /\ g.kValid = TRUE
  BY <1>3, <1>4, <1>6 DEF Fields, Merged
<1>12. ~(0 > 0)
  OBVIOUS
<1>13. g.clear = (g.beat = 0)
  BY <1>9, <1>10
<1> QED BY <1>7, <1>8, <1>10, <1>11, <1>12, <1>13 DEF Feeding

(* An array that is fed, or drains.                                        *)
LEMMA ArrayRunning ==
  ASSUME NEW e, NEW a, NEW x, NEW av, NEW beats \in Nat \ {0}, NEW r,
         a = ArrayEdge(e, <<x, e.row, e.beat, av[e.beat]>>), Feeding(e, x, av, beats, r)
  PROVE  /\ PipeAt(a.pipe, e.beat + 1, x, r, av, beats)
         /\ SumAt(a.sum, e.beat + 1, x, r, av, beats)
         /\ a.clear = FALSE
         /\ e.beat = beats - 1 => a.array = "DRAIN" /\ a.drain = DrainCycles
         /\ e.beat # beats - 1 => a.array = "RUN"
<1>0. e.beat \in Nat /\ e.beat <= beats - 1
  BY DEF Feeding
<1>1. PICK p, b, t : p = e.pipe /\ b = e.beat /\ t = <<x, e.row, e.beat, av[e.beat]>>
  OBVIOUS
<1>2. t = Term(x, r, av, b)
  BY <1>1 DEF Term, Feeding
<1>3. PICK v : v = <<t>>
  OBVIOUS
<1>4. a.pipe = <<v>> \o Front(p)
  BY <1>1, <1>3 DEF ArrayEdge, Feeding, EngineShape
<1>5. PipeAt(p, b, x, r, av, beats)
  BY <1>1 DEF Feeding
<1>6. v = IF b <= beats - 1 THEN <<Term(x, r, av, b)>> ELSE <<>>
  BY <1>0, <1>1, <1>2, <1>3
<1>7. /\ PipeAt(<<v>> \o Front(p), b + 1, x, r, av, beats)
      /\ Last(p) = IF b - PipeStages \in 0 .. beats - 1
                   THEN <<Term(x, r, av, b - PipeStages)>> ELSE <<>>
  BY <1>0, <1>1, <1>5, <1>6, PipeStep
<1>8. SumAt(a.sum, b + 1, x, r, av, beats)
  <2>1. CASE b = 0
    <3>1. e.clear = TRUE
      BY <2>1, <1>1 DEF Feeding
    <3>2. a.sum = <<>>
      BY <3>1 DEF ArrayEdge, Feeding, EngineShape
    <3> QED BY <2>1, <3>2, SumEnds
  <2>2. CASE b # 0
    <3>0. e.clear = (e.beat = 0) /\ e.beat # 0
      BY <2>2, <1>1 DEF Feeding
    <3>1. e.clear = FALSE /\ b > 0
      <4>1. b > 0
        BY <2>2, <1>0, <1>1
      <4>2. e.clear = FALSE
        BY <3>0
      <4> QED BY <4>1, <4>2
    <3>2. a.sum = e.sum \o Last(p)
      BY <1>1, <3>1 DEF ArrayEdge, Feeding, EngineShape
    <3>3. PICK q, out : q = e.sum /\ out = Last(p)
      OBVIOUS
    <3>4. SumAt(q, b, x, r, av, beats)
      BY <3>1, <3>3, <1>1 DEF Feeding
    <3>5. SumAt(q \o out, b + 1, x, r, av, beats)
      BY <3>3, <3>4, <1>0, <1>1, <1>7, SumStep
    <3> QED BY <3>2, <3>3, <3>5
  <2> QED BY <2>1, <2>2
<1>9. a.clear = FALSE
  BY DEF ArrayEdge, Feeding, EngineShape
<1>10. e.beat = beats - 1 => a.array = "DRAIN" /\ a.drain = DrainCycles
  BY DEF ArrayEdge, Feeding, EngineShape
<1>11. e.beat # beats - 1 => a.array = "RUN"
  BY DEF ArrayEdge, Feeding, EngineShape
<1> QED BY <1>1, <1>4, <1>7, <1>8, <1>9, <1>10, <1>11

LEMMA FeedingStep ==
  ASSUME NEW e, NEW start, NEW x, NEW av, NEW rows, NEW beats \in Nat \ {0}, NEW r, NEW g,
         Feeding(e, x, av, beats, r), g = EngineEdge(e, start, x, av, rows, beats)
  PROVE  Feeding(g, x, av, beats, r) \/ Draining(g, x, av, beats, r)
<1>0. e.beat \in Nat /\ e.beat <= beats - 1 /\ DrainCycles \in Nat
  BY FfnAssumption DEF Feeding
<1>1. PICK c : c = EngineControl(e, start, rows, beats)
  OBVIOUS
<1>2. PICK a : a = ArrayEdge(e, <<x, e.row, e.beat, av[e.beat]>>)
  OBVIOUS
<1>3. PICK b : b = e.beat
  OBVIOUS
<1>4. /\ PipeAt(a.pipe, b + 1, x, r, av, beats)
      /\ SumAt(a.sum, b + 1, x, r, av, beats)
      /\ a.clear = FALSE
      /\ b = beats - 1 => a.array = "DRAIN" /\ a.drain = DrainCycles
      /\ b # beats - 1 => a.array = "RUN"
  BY <1>2, <1>3, ArrayRunning
<1>5. CASE b = beats - 1
  <2>1. Fields(c, "WAIT", r, 0, FALSE, FALSE, FALSE, FALSE, <<>>)
    BY <1>1, <1>3, <1>5 DEF EngineControl, Feeding, EngineShape, Fields
  <2>2. EngineShape(c)
    BY <2>1 DEF Fields
  <2>3. Merged(c, a, g)
    BY <1>1, <1>2, <2>2, EngineFields
  <2>4. b + 1 = beats + DrainCycles - DrainCycles
    BY <1>0, <1>5
  <2>5. /\ g.drain = DrainCycles /\ PipeAt(g.pipe, b + 1, x, r, av, beats)
        /\ SumAt(g.sum, b + 1, x, r, av, beats)
    BY <1>4, <1>5, <2>3 DEF Merged
  <2>6. /\ PipeAt(g.pipe, beats + DrainCycles - g.drain, x, r, av, beats)
        /\ SumAt(g.sum, beats + DrainCycles - g.drain, x, r, av, beats)
        /\ g.drain \in 0 .. DrainCycles
    BY <1>0, <2>4, <2>5
  <2>7. Silent(g) /\ g.state = "WAIT" /\ g.array = "DRAIN" /\ g.arrayStart = FALSE
        /\ g.row = r /\ g.done = FALSE
    BY <1>4, <1>5, <2>1, <2>3 DEF Merged, Fields, Silent
  <2> QED BY <2>6, <2>7 DEF Draining
<1>6. CASE b # beats - 1
  <2>1. Fields(c, "FEED", r, b + 1, FALSE, TRUE, (b + 1 = beats - 1), FALSE, <<>>)
    BY <1>1, <1>3, <1>6 DEF EngineControl, Feeding, EngineShape, Fields
  <2>2. EngineShape(c)
    BY <2>1 DEF Fields
  <2>3. Merged(c, a, g)
    BY <1>1, <1>2, <2>2, EngineFields
  <2>4. /\ EngineShape(g) /\ g.state = "FEED" /\ g.array = "RUN" /\ g.arrayStart = FALSE
        /\ g.row = r /\ g.beat = b + 1 /\ g.done = FALSE /\ g.result = <<>>
        /\ g.kValid = TRUE /\ g.kLast = (b + 1 = beats - 1) /\ g.clear = FALSE
        /\ g.pipe = a.pipe /\ g.sum = a.sum
    BY <1>4, <1>6, <2>1, <2>3 DEF Merged, Fields
  <2>5. b + 1 # 0 /\ b + 1 \in 0 .. beats - 1
    BY <1>0, <1>3, <1>6
  <2> QED BY <1>4, <2>4, <2>5 DEF Feeding
<1> QED BY <1>5, <1>6

(* DRAIN_CYCLES covers the pipeline: fp4_linear_engine.sv gives the array  *)
(* 16 of them for a pipeline of 5 registers.                               *)
PipeDrains == PipeStages <= DrainCycles + 1

LEMMA DrainingStep ==
  ASSUME PipeDrains,
         NEW e, NEW start, NEW x, NEW av, NEW rows, NEW beats \in Nat \ {0}, NEW r, NEW g,
         Draining(e, x, av, beats, r), g = EngineEdge(e, start, x, av, rows, beats)
  PROVE  Draining(g, x, av, beats, r) \/ Giving(g, x, av, beats, r)
<1>0. DrainCycles \in Nat /\ PipeStages \in Nat \ {0} /\ e.drain \in 0 .. DrainCycles
  BY FfnAssumption DEF Draining
<1>1. PICK c : c = EngineControl(e, start, rows, beats)
  OBVIOUS
<1>2. PICK a : a = ArrayEdge(e, <<x, e.row, e.beat, av[e.beat]>>)
  OBVIOUS
<1>3. PICK d, n, p, q : /\ d = e.drain /\ n = beats + DrainCycles - e.drain
                        /\ p = e.pipe /\ q = e.sum
  OBVIOUS
<1>4. n \in Nat /\ n >= beats
  BY <1>0, <1>3
<1>5. PipeAt(p, n, x, r, av, beats) /\ SumAt(q, n, x, r, av, beats)
  BY <1>3 DEF Draining
<1>6. PICK v : v = <<>>
  OBVIOUS
<1>7. v = IF n <= beats - 1 THEN <<Term(x, r, av, n)>> ELSE <<>>
  BY <1>4, <1>6
<1>8. PICK out : out = Last(p)
  OBVIOUS
<1>9. /\ PipeAt(<<v>> \o Front(p), n + 1, x, r, av, beats)
      /\ out = IF n - PipeStages \in 0 .. beats - 1
               THEN <<Term(x, r, av, n - PipeStages)>> ELSE <<>>
  BY <1>4, <1>5, <1>7, <1>8, PipeStep
<1>10. SumAt(q \o out, n + 1, x, r, av, beats)
  BY <1>4, <1>5, <1>9, SumStep
<1>11. a.pipe = <<v>> \o Front(p) /\ a.sum = q \o out /\ a.clear = FALSE
  BY <1>2, <1>3, <1>6, <1>8 DEF ArrayEdge, Draining, Silent, EngineShape
<1>12. /\ d = 0 => a.array = "OUTPUT"
       /\ d # 0 => a.array = "DRAIN" /\ a.drain = d - 1
  BY <1>0, <1>2, <1>3 DEF ArrayEdge, Draining, Silent, EngineShape
<1>13. Fields(c, "WAIT", r, e.beat, FALSE, FALSE, FALSE, FALSE, <<>>)
  BY <1>1 DEF EngineControl, Draining, Silent, EngineShape, Fields
<1>14. EngineShape(c)
  BY <1>13 DEF Fields
<1>15. Merged(c, a, g)
  BY <1>1, <1>2, <1>14, EngineFields
<1>16. /\ Silent(g) /\ g.state = "WAIT" /\ g.arrayStart = FALSE /\ g.row = r /\ g.done = FALSE
       /\ g.array = a.array /\ g.drain = a.drain
  BY <1>11, <1>13, <1>15 DEF Fields, Merged, Silent
<1>17. PipeAt(g.pipe, n + 1, x, r, av, beats) /\ SumAt(g.sum, n + 1, x, r, av, beats)
  BY <1>9, <1>10, <1>11, <1>15 DEF Merged
<1>18. CASE d = 0
  <2>1. n + 1 \in Nat /\ n + 1 >= beats + PipeStages
    BY <1>0, <1>3, <1>18 DEF PipeDrains
  <2>2. PICK m, gp, gs : m = n + 1 /\ gp = g.pipe /\ gs = g.sum
    OBVIOUS
  <2>3. /\ m \in Nat /\ m >= beats + PipeStages
        /\ PipeAt(gp, m, x, r, av, beats) /\ SumAt(gs, m, x, r, av, beats)
    BY <2>1, <2>2, <1>17
  <2>4. Drained(gp)
    BY <2>3, PipeEnds
  <2>5. gs = RowSum(x, r, av, beats)
    BY <2>3, SumEnds
  <2> QED BY <2>2, <2>4, <2>5, <1>12, <1>16, <1>18 DEF Giving
<1>19. CASE d # 0
  <2>1. g.drain = d - 1 /\ g.array = "DRAIN"
    BY <1>12, <1>16, <1>19
  <2>2. n + 1 = beats + DrainCycles - g.drain /\ g.drain \in 0 .. DrainCycles
    BY <2>1, <1>0, <1>3, <1>19
  <2> QED BY <2>1, <2>2, <1>16, <1>17 DEF Draining
<1> QED BY <1>18, <1>19

LEMMA GivingStep ==
  ASSUME NEW e, NEW start, NEW x, NEW av, NEW rows, NEW beats \in Nat \ {0}, NEW r, NEW g,
         Giving(e, x, av, beats, r), g = EngineEdge(e, start, x, av, rows, beats)
  PROVE  Told(g, x, av, beats, r)
<1>1. PICK c : c = EngineControl(e, start, rows, beats)
  OBVIOUS
<1>2. PICK a : a = ArrayEdge(e, <<x, e.row, e.beat, av[e.beat]>>)
  OBVIOUS
<1>3. PICK sum : sum = e.sum
  OBVIOUS
<1>4. Fields(c, "RESULT", r, e.beat, FALSE, FALSE, FALSE, FALSE, <<r, sum>>)
  BY <1>1, <1>3 DEF EngineControl, Giving, Silent, EngineShape, Fields
<1>5. Drained(a.pipe) /\ a.clear = FALSE /\ a.array = "DONE"
  <2>1. /\ EngineShape(e) /\ Drained(e.pipe) /\ e.kValid = FALSE /\ e.clear = FALSE
        /\ e.array = "OUTPUT" /\ e.arrayStart = FALSE
    BY DEF Giving, Silent
  <2> QED BY <2>1, <1>2, ArrayDrained
<1>6. EngineShape(c)
  BY <1>4 DEF Fields
<1>7. Merged(c, a, g)
  BY <1>1, <1>2, <1>6, EngineFields
<1>8. sum = RowSum(x, r, av, beats)
  BY <1>3 DEF Giving
<1> QED BY <1>4, <1>5, <1>7, <1>8 DEF Fields, Merged, Told

LEMMA ToldStep ==
  ASSUME NEW e, NEW start, NEW x, NEW av, NEW rows, NEW beats \in Nat \ {0}, NEW r, NEW g,
         Told(e, x, av, beats, r), g = EngineEdge(e, start, x, av, rows, beats)
  PROVE  IF r = rows - 1 THEN Finished(g) ELSE Arming(g, r + 1)
<1>1. PICK c : c = EngineControl(e, start, rows, beats)
  OBVIOUS
<1>2. PICK a : a = ArrayEdge(e, <<x, e.row, e.beat, av[e.beat]>>)
  OBVIOUS
<1>3. Drained(a.pipe) /\ a.clear = FALSE /\ a.array = "IDLE"
  <2>1. /\ EngineShape(e) /\ Drained(e.pipe) /\ e.kValid = FALSE /\ e.clear = FALSE
        /\ e.array = "DONE" /\ e.arrayStart = FALSE
    BY DEF Told
  <2> QED BY <2>1, <1>2, ArrayDrained
<1>4. CASE r = rows - 1
  <2>1. Fields(c, "DONE", r, e.beat, FALSE, FALSE, FALSE, TRUE, <<>>)
    BY <1>1, <1>4 DEF EngineControl, Told, EngineShape, Fields
  <2>2. EngineShape(c)
    BY <2>1 DEF Fields
  <2>3. Merged(c, a, g)
    BY <1>1, <1>2, <2>2, EngineFields
  <2> QED BY <1>3, <1>4, <2>1, <2>3 DEF Fields, Merged, Finished, Silent
<1>5. CASE r # rows - 1
  <2>1. Fields(c, "ARRAY_START", r + 1, 0, TRUE, FALSE, FALSE, FALSE, <<>>)
    BY <1>1, <1>5 DEF EngineControl, Told, EngineShape, Fields
  <2>2. EngineShape(c)
    BY <2>1 DEF Fields
  <2>3. Merged(c, a, g)
    BY <1>1, <1>2, <2>2, EngineFields
  <2> QED BY <1>3, <1>5, <2>1, <2>3 DEF Fields, Merged, Arming, Silent
<1> QED BY <1>4, <1>5

(* An edge within a row, or from one row to the next: the result of a row  *)
(* is told once, and is the sum of its products.                           *)
RowEdge(e, g, x, av, rows, beats, r) ==
  \/ e.result = <<>> /\ AtRow(g, x, av, beats, r)
  \/ /\ e.result = <<r, RowSum(x, r, av, beats)>>
     /\ IF r = rows - 1 THEN Finished(g) ELSE AtRow(g, x, av, beats, r + 1)

LEMMA RowStep ==
  ASSUME PipeDrains,
         NEW e, NEW start, NEW x, NEW av, NEW rows, NEW beats \in Nat \ {0}, NEW r, NEW g,
         AtRow(e, x, av, beats, r), g = EngineEdge(e, start, x, av, rows, beats)
  PROVE  RowEdge(e, g, x, av, rows, beats, r) /\ e.done = FALSE
<1>1. CASE Arming(e, r)
  <2>1. Feeding(g, x, av, beats, r)
    BY <1>1, ArmingStep
  <2>2. e.result = <<>> /\ e.done = FALSE
    BY <1>1 DEF Arming, Silent
  <2> QED BY <2>1, <2>2 DEF RowEdge, AtRow
<1>2. CASE Feeding(e, x, av, beats, r)
  <2>1. Feeding(g, x, av, beats, r) \/ Draining(g, x, av, beats, r)
    BY <1>2, FeedingStep
  <2>2. e.result = <<>> /\ e.done = FALSE
    BY <1>2 DEF Feeding
  <2> QED BY <2>1, <2>2 DEF RowEdge, AtRow
<1>3. CASE Draining(e, x, av, beats, r)
  <2>1. Draining(g, x, av, beats, r) \/ Giving(g, x, av, beats, r)
    BY <1>3, DrainingStep
  <2>2. e.result = <<>> /\ e.done = FALSE
    BY <1>3 DEF Draining, Silent
  <2> QED BY <2>1, <2>2 DEF RowEdge, AtRow
<1>4. CASE Giving(e, x, av, beats, r)
  <2>1. Told(g, x, av, beats, r)
    BY <1>4, GivingStep
  <2>2. e.result = <<>> /\ e.done = FALSE
    BY <1>4 DEF Giving, Silent
  <2> QED BY <2>1, <2>2 DEF RowEdge, AtRow
<1>5. CASE Told(e, x, av, beats, r)
  <2>1. IF r = rows - 1 THEN Finished(g) ELSE Arming(g, r + 1)
    BY <1>5, ToldStep
  <2>2. e.result = <<r, RowSum(x, r, av, beats)>> /\ e.done = FALSE
    BY <1>5 DEF Told
  <2> QED BY <2>1, <2>2 DEF RowEdge, AtRow
<1> QED BY <1>1, <1>2, <1>3, <1>4, <1>5 DEF AtRow

-----------------------------------------------------------------------------
(* An edge of the expert engine, with what it gives collected.             *)
FfnStep(start, x, write) == FfnEdge(start, x, write) /\ ffo' = Collected(ffo, down.result)

IsCollected(n, vec, result, w) ==
  /\ w = [i \in 0 .. n - 1 |-> w[i]]
  /\ \A i \in 0 .. n - 1 : result = <<>> => w[i] = vec[i]
  /\ \A r \in 0 .. n - 1 : \A v : result = <<r, v>> =>
       w[r] = v /\ \A i \in 0 .. n - 1 : i # r => w[i] = vec[i]

LEMMA CollectedKeeps ==
  ASSUME NEW n \in Nat, NEW vec, NEW result, vec = [i \in 0 .. n - 1 |-> vec[i]]
  PROVE  IsCollected(n, vec, result, Collected(vec, result))
<1>1. CASE result = <<>>
  <2>1. Collected(vec, result) = vec
    BY <1>1 DEF Collected
  <2>2. \A r, v : result # <<r, v>>
    BY <1>1
  <2> QED BY <1>1, <2>1, <2>2 DEF IsCollected
<1>2. CASE result # <<>>
  <2>1. PICK w : w = Collected(vec, result)
    OBVIOUS
  <2>2. w = [vec EXCEPT ![result[1]] = result[2]]
    BY <1>2, <2>1 DEF Collected
  <2>3. w = [i \in 0 .. n - 1 |-> w[i]]
    BY <2>2
  <2>4. ASSUME NEW r \in 0 .. n - 1, NEW v, result = <<r, v>>
        PROVE  w[r] = v /\ \A i \in 0 .. n - 1 : i # r => w[i] = vec[i]
    <3>1. result[1] = r /\ result[2] = v
      BY <2>4
    <3> QED BY <2>2, <3>1
  <2> QED BY <1>2, <2>1, <2>3, <2>4 DEF IsCollected
<1> QED BY <1>1, <1>2

FfnStates == {"IDLE", "RUN_GU", "MID", "LOAD_DOWN", "RUN_DOWN", "DONE"}

Recorded ==
  [ffn EXCEPT !.guStart = FALSE, !.downStart = FALSE, !.done = FALSE, !.midWrite = FALSE,
              !.gateVec = Collected(@, gate.result), !.upVec = Collected(@, up.result)]

(* What every edge does to the vectors and memories of the engine.         *)
FfnKept ==
  /\ FfnTypes' /\ ffn'.gateVec = Collected(ffn.gateVec, gate.result)
  /\ ffn.state # "MID" => ffn'.mid = ffn.mid
  /\ ~ffn.midWrite => ffnMid' = ffnMid
  /\ ffn.midWrite => ffnMid' = [ffnMid EXCEPT ![ffn.downBeat] = ffn.mid[ffn.downBeat]]

FfnIs(state, guStart, downStart, done, midWrite, downBeat, downStarted) ==
  /\ ffn'.state = state /\ ffn'.guStart = guStart /\ ffn'.downStart = downStart
  /\ ffn'.done = done /\ ffn'.midWrite = midWrite /\ ffn'.downBeat = downBeat
  /\ ffn'.downStarted = downStarted

(* The registers of the engine after an edge, its vectors apart.           *)
ShapeOf(f) ==
  f = [state |-> f.state, guStart |-> f.guStart, downStart |-> f.downStart, done |-> f.done,
       midWrite |-> f.midWrite, downStarted |-> f.downStarted, downBeat |-> f.downBeat,
       gateVec |-> f.gateVec, upVec |-> f.upVec, mid |-> f.mid]

LEMMA FfnVectors ==
  ASSUME FfnTypes, ffn.state \in FfnStates, NEW start, NEW f, f = FfnControl(start)
  PROVE  /\ ShapeOf(f)
         /\ f.gateVec = Collected(ffn.gateVec, gate.result)
         /\ f.upVec = Collected(ffn.upVec, up.result)
         /\ ffn.state # "MID" => f.mid = ffn.mid
         /\ ffn.state = "MID" =>
              f.mid = [r \in DOMAIN ffn.mid |-> <<ffn.gateVec[r], ffn.upVec[r]>>]
<1>1. PICK o : o = Recorded
  OBVIOUS
<1>2. /\ ShapeOf(o) /\ o.gateVec = Collected(ffn.gateVec, gate.result)
      /\ o.upVec = Collected(ffn.upVec, up.result) /\ o.mid = ffn.mid
  BY <1>1 DEF Recorded, FfnTypes, FfnShape, ShapeOf
<1>3. CASE ffn.state = "IDLE"
  <2>1. f = IF start THEN [o EXCEPT !.guStart = TRUE, !.state = "RUN_GU"] ELSE o
    BY <1>1, <1>3 DEF FfnControl, Recorded
  <2> QED BY <1>2, <1>3, <2>1 DEF ShapeOf
<1>4. CASE ffn.state = "RUN_GU"
  <2>1. f = IF gate.done /\ up.done THEN [o EXCEPT !.state = "MID"] ELSE o
    BY <1>1, <1>4 DEF FfnControl, Recorded
  <2> QED BY <1>2, <1>4, <2>1 DEF ShapeOf
<1>5. CASE ffn.state = "MID"
  <2>1. f = [o EXCEPT !.mid = [r \in DOMAIN @ |-> <<ffn.gateVec[r], ffn.upVec[r]>>],
                      !.state = "LOAD_DOWN"]
    BY <1>1, <1>5 DEF FfnControl, Recorded
  <2> QED BY <1>2, <1>5, <2>1 DEF ShapeOf
<1>6. CASE ffn.state = "LOAD_DOWN"
  <2>1. f = IF ffn.downBeat = InterBeats - 1
            THEN [o EXCEPT !.midWrite = TRUE, !.downBeat = 0, !.downStarted = FALSE,
                           !.state = "RUN_DOWN"]
            ELSE [o EXCEPT !.midWrite = TRUE, !.downBeat = @ + 1]
    BY <1>1, <1>6 DEF FfnControl, Recorded
  <2> QED BY <1>2, <1>6, <2>1 DEF ShapeOf
<1>7. CASE ffn.state = "RUN_DOWN"
  <2>1. f = [o EXCEPT !.downStart = ~ffn.downStarted, !.downStarted = TRUE,
                      !.done = down.done, !.state = IF down.done THEN "DONE" ELSE @]
    BY <1>1, <1>7 DEF FfnControl, Recorded
  <2> QED BY <1>2, <1>7, <2>1 DEF ShapeOf
<1>8. CASE ffn.state = "DONE"
  <2>1. f = IF start THEN o ELSE [o EXCEPT !.state = "IDLE"]
    BY <1>1, <1>8 DEF FfnControl, Recorded
  <2> QED BY <1>2, <1>8, <2>1 DEF ShapeOf
<1> QED BY <1>3, <1>4, <1>5, <1>6, <1>7, <1>8 DEF FfnStates

LEMMA FfnKeeps ==
  ASSUME FfnTypes, ffn.state \in FfnStates, NEW start, NEW x, NEW write,
         FfnStep(start, x, write)
  PROVE  FfnKept
<1>0. InterBeats \in Nat /\ HiddenBeats \in Nat
  BY FfnAssumption
<1>1. ffn' = FfnControl(start) /\ ffo' = Collected(ffo, down.result)
  BY DEF FfnStep, FfnEdge
<1>2. PICK f : f = FfnControl(start)
  OBVIOUS
<1>3. /\ ShapeOf(f)
      /\ f.gateVec = Collected(ffn.gateVec, gate.result)
      /\ f.upVec = Collected(ffn.upVec, up.result)
      /\ ffn.state # "MID" => f.mid = ffn.mid
      /\ ffn.state = "MID" =>
           f.mid = [r \in DOMAIN ffn.mid |-> <<ffn.gateVec[r], ffn.upVec[r]>>]
  BY <1>2, FfnVectors
<1>4. FfnShape'
  BY <1>1, <1>2, <1>3 DEF FfnShape, ShapeOf
<1>5. up' = gate'
  BY DEF FfnStep, FfnEdge, FfnTypes
<1>6. ffn'.upVec = ffn'.gateVec
  BY <1>1, <1>2, <1>3 DEF FfnTypes
<1>7. ffn'.gateVec = [i \in 0 .. InterBeats - 1 |-> ffn'.gateVec[i]]
  <2>1. PICK vec, result : vec = ffn.gateVec /\ result = gate.result
    OBVIOUS
  <2>2. vec = [i \in 0 .. InterBeats - 1 |-> vec[i]]
    BY <2>1 DEF FfnTypes
  <2>3. Collected(vec, result) = [i \in 0 .. InterBeats - 1 |-> Collected(vec, result)[i]]
    BY <1>0, <2>2, CollectedKeeps DEF IsCollected
  <2> QED BY <1>1, <1>2, <1>3, <2>1, <2>3
<1>8. ffo' = [r \in 0 .. HiddenBeats - 1 |-> ffo'[r]]
  <2>1. PICK vec, result : vec = ffo /\ result = down.result
    OBVIOUS
  <2>2. vec = [i \in 0 .. HiddenBeats - 1 |-> vec[i]]
    BY <2>1 DEF FfnTypes
  <2>3. Collected(vec, result) = [i \in 0 .. HiddenBeats - 1 |-> Collected(vec, result)[i]]
    BY <1>0, <2>2, CollectedKeeps DEF IsCollected
  <2> QED BY <1>1, <2>1, <2>3
<1>9. DOMAIN ffn'.mid = 0 .. InterBeats - 1
  BY <1>1, <1>2, <1>3 DEF FfnTypes
<1>10. ffnActiv' = [b \in 0 .. HiddenBeats - 1 |-> ffnActiv'[b]]
  <2>1. DOMAIN ffnActiv = 0 .. HiddenBeats - 1
    BY DEF FfnTypes
  <2> QED BY <2>1 DEF FfnStep, FfnEdge
<1>11. /\ ~ffn.midWrite => ffnMid' = ffnMid
       /\ ffn.midWrite => ffnMid' = [ffnMid EXCEPT ![ffn.downBeat] = ffn.mid[ffn.downBeat]]
  BY DEF FfnStep, FfnEdge
<1>12. ffnMid' = [b \in 0 .. InterBeats - 1 |-> ffnMid'[b]]
  <2>1. PICK m : m = ffnMid
    OBVIOUS
  <2>2. m = [b \in 0 .. InterBeats - 1 |-> m[b]]
    BY <2>1 DEF FfnTypes
  <2>3. PICK d, v : d = ffn.downBeat /\ v = ffn.mid[ffn.downBeat]
    OBVIOUS
  <2>4. ffnMid' = m \/ ffnMid' = [m EXCEPT ![d] = v]
    BY <1>11, <2>1, <2>3
  <2> QED BY <2>2, <2>4
<1> QED BY <1>1, <1>2, <1>3, <1>4, <1>5, <1>6, <1>7, <1>8, <1>9, <1>10, <1>11, <1>12
        DEF FfnKept, FfnTypes

(* The rows already right stay so, and the one that is told becomes so.    *)
LEMMA HalvesKept ==
  ASSUME FfnTypes, FfnKept, NEW x, NEW av, NEW n \in Nat, Halves(x, av, n)
  PROVE  /\ gate.result = <<>> => Halves(x, av, n)'
         /\ n \in 0 .. InterBeats - 1 /\ gate.result = <<n, Half(x, n, av)>>
              => Halves(x, av, n + 1)'
<1>0. InterBeats \in Nat
  BY FfnAssumption
<1>1. PICK vec, result : vec = ffn.gateVec /\ result = gate.result
  OBVIOUS
<1>2. vec = [i \in 0 .. InterBeats - 1 |-> vec[i]]
  BY <1>1 DEF FfnTypes
<1>3. PICK w : w = Collected(vec, result)
  OBVIOUS
<1>4. /\ \A i \in 0 .. InterBeats - 1 : result = <<>> => w[i] = vec[i]
      /\ \A r \in 0 .. InterBeats - 1 : \A v : result = <<r, v>> =>
           w[r] = v /\ \A i \in 0 .. InterBeats - 1 : i # r => w[i] = vec[i]
  <2>1. IsCollected(InterBeats, vec, result, Collected(vec, result))
    BY <1>0, <1>2, CollectedKeeps
  <2> QED BY <2>1, <1>3 DEF IsCollected
<1>5. ffn'.gateVec = w
  BY <1>1, <1>3 DEF FfnKept
<1>6. \A i \in 0 .. InterBeats - 1 : i < n => vec[i] = Half(x, i, av)
  BY <1>1 DEF Halves
<1>7. ASSUME result = <<>> PROVE Halves(x, av, n)'
  BY <1>4, <1>5, <1>6, <1>7 DEF Halves
<1>8. ASSUME n \in 0 .. InterBeats - 1, result = <<n, Half(x, n, av)>>
      PROVE  Halves(x, av, n + 1)'
  <2>1. PICK v : v = Half(x, n, av)
    OBVIOUS
  <2>2. w[n] = v /\ \A i \in 0 .. InterBeats - 1 : i # n => w[i] = vec[i]
    BY <1>4, <1>8, <2>1
  <2>3. ASSUME NEW i \in 0 .. InterBeats - 1, i < n + 1 PROVE w[i] = Half(x, i, av)
    <3>1. CASE i = n
      BY <3>1, <2>1, <2>2
    <3>2. CASE i # n
      <4>1. i < n
        BY <3>2, <2>3, <1>0
      <4> QED BY <4>1, <3>2, <2>2, <1>6
    <3> QED BY <3>1, <3>2
  <2> QED BY <2>3, <1>5 DEF Halves
<1> QED BY <1>1, <1>7, <1>8

LEMMA RowsKept ==
  ASSUME FfnTypes, ffo' = Collected(ffo, down.result), NEW x, NEW av, NEW n \in Nat,
         Rows(x, av, n)
  PROVE  /\ down.result = <<>> => Rows(x, av, n)'
         /\ n \in 0 .. HiddenBeats - 1 /\ down.result = <<n, ExpertRow(x, n, av)>>
              => Rows(x, av, n + 1)'
<1>0. HiddenBeats \in Nat
  BY FfnAssumption
<1>1. PICK vec, result : vec = ffo /\ result = down.result
  OBVIOUS
<1>2. vec = [i \in 0 .. HiddenBeats - 1 |-> vec[i]]
  BY <1>1 DEF FfnTypes
<1>3. PICK w : w = Collected(vec, result)
  OBVIOUS
<1>4. /\ \A i \in 0 .. HiddenBeats - 1 : result = <<>> => w[i] = vec[i]
      /\ \A r \in 0 .. HiddenBeats - 1 : \A v : result = <<r, v>> =>
           w[r] = v /\ \A i \in 0 .. HiddenBeats - 1 : i # r => w[i] = vec[i]
  <2>1. IsCollected(HiddenBeats, vec, result, Collected(vec, result))
    BY <1>0, <1>2, CollectedKeeps
  <2> QED BY <2>1, <1>3 DEF IsCollected
<1>5. ffo' = w
  BY <1>1, <1>3
<1>6. \A i \in 0 .. HiddenBeats - 1 : i < n => vec[i] = ExpertRow(x, i, av)
  BY <1>1 DEF Rows
<1>7. ASSUME result = <<>> PROVE Rows(x, av, n)'
  BY <1>4, <1>5, <1>6, <1>7 DEF Rows
<1>8. ASSUME n \in 0 .. HiddenBeats - 1, result = <<n, ExpertRow(x, n, av)>>
      PROVE  Rows(x, av, n + 1)'
  <2>1. PICK v : v = ExpertRow(x, n, av)
    OBVIOUS
  <2>2. w[n] = v /\ \A i \in 0 .. HiddenBeats - 1 : i # n => w[i] = vec[i]
    BY <1>4, <1>8, <2>1
  <2>3. ASSUME NEW i \in 0 .. HiddenBeats - 1, i < n + 1 PROVE w[i] = ExpertRow(x, i, av)
    <3>1. CASE i = n
      BY <3>1, <2>1, <2>2
    <3>2. CASE i # n
      <4>1. i < n
        BY <3>2, <2>3, <1>0
      <4> QED BY <4>1, <3>2, <2>2, <1>6
    <3> QED BY <3>1, <3>2
  <2> QED BY <2>3, <1>5 DEF Rows
<1> QED BY <1>1, <1>7, <1>8

-----------------------------------------------------------------------------
(* The expert engine from one phase to the next.                           *)
LEMMA RestKept ==
  ASSUME NEW start, NEW x, NEW write, FfnStep(start, x, write)
  PROVE  /\ Resting(gate) /\ ffn.guStart = FALSE => Resting(gate')
         /\ Resting(down) /\ ffn.downStart = FALSE => Resting(down')
<1>1. ASSUME Resting(gate), ffn.guStart = FALSE PROVE Resting(gate')
  <2>1. gate' = EngineEdge(gate, FALSE, x, ffnActiv, InterBeats, HiddenBeats)
    BY <1>1 DEF FfnStep, FfnEdge
  <2>2. PICK e, g, av : e = gate /\ g = gate' /\ av = ffnActiv
    OBVIOUS
  <2>3. Resting(e) /\ g = EngineEdge(e, FALSE, x, av, InterBeats, HiddenBeats)
    BY <1>1, <2>1, <2>2
  <2> QED BY <2>2, <2>3, RestingStep
<1>2. ASSUME Resting(down), ffn.downStart = FALSE PROVE Resting(down')
  <2>1. down' = EngineEdge(down, FALSE, x, ffnMid, HiddenBeats, InterBeats)
    BY <1>2 DEF FfnStep, FfnEdge
  <2>2. PICK e, g, av : e = down /\ g = down' /\ av = ffnMid
    OBVIOUS
  <2>3. Resting(e) /\ g = EngineEdge(e, FALSE, x, av, HiddenBeats, InterBeats)
    BY <1>2, <2>1, <2>2
  <2> QED BY <2>2, <2>3, RestingStep
<1> QED BY <1>1, <1>2

LEMMA QuietStep ==
  ASSUME FfnTypes, FfnQuiet, NEW start \in BOOLEAN, NEW x, NEW write, FfnStep(start, x, write)
  PROVE  IF start THEN Starting' ELSE FfnQuiet'
<1>1. ffn' = FfnControl(start)
  BY DEF FfnStep, FfnEdge
<1>2. Resting(gate') /\ Resting(down')
  BY RestKept DEF FfnQuiet, NoPulse
<1>3. CASE start
  <2>1. FfnIs("RUN_GU", TRUE, FALSE, FALSE, FALSE, 0, ffn.downStarted)
    BY <1>1, <1>3 DEF FfnControl, FfnQuiet, FfnTypes, FfnShape, FfnIs
  <2> QED BY <1>2, <1>3, <2>1 DEF FfnIs, Starting
<1>4. CASE ~start
  <2>1. FfnIs("IDLE", FALSE, FALSE, FALSE, FALSE, 0, ffn.downStarted)
    BY <1>1, <1>4 DEF FfnControl, FfnQuiet, FfnTypes, FfnShape, FfnIs
  <2> QED BY <1>2, <1>4, <2>1 DEF FfnIs, FfnQuiet, NoPulse
<1> QED BY <1>3, <1>4

LEMMA StartingStep ==
  ASSUME FfnTypes, Starting, NEW x, NEW write, NEW av, FfnStep(FALSE, x, write)
  PROVE  Projecting(x, av)'
<1>0. InterBeats \in Nat \ {0}
  BY FfnAssumption
<1>1. /\ ffn' = FfnControl(FALSE)
      /\ gate' = EngineEdge(gate, TRUE, x, ffnActiv, InterBeats, HiddenBeats)
  BY DEF FfnStep, FfnEdge, Starting
<1>2. Arming(gate', 0) /\ Resting(down')
  <2>1. PICK e, g, v : e = gate /\ g = gate' /\ v = ffnActiv
    OBVIOUS
  <2>2. Resting(e) /\ g = EngineEdge(e, TRUE, x, v, InterBeats, HiddenBeats)
    BY <1>1, <2>1 DEF Starting
  <2>3. Arming(g, 0)
    BY <2>2, StartStep
  <2> QED BY <2>1, <2>3, RestKept DEF Starting
<1>3. gate.done = FALSE
  BY DEF Starting, Resting
<1>4. FfnIs("RUN_GU", FALSE, FALSE, FALSE, FALSE, 0, ffn.downStarted)
  BY <1>1, <1>3 DEF FfnControl, Starting, FfnTypes, FfnShape, FfnIs
<1>5. AtRow(gate', x, av, HiddenBeats, 0)
  BY <1>2 DEF AtRow
<1>6. Halves(x, av, 0)'
  BY <1>0 DEF Halves
<1>7. 0 \in 0 .. InterBeats - 1
  BY <1>0
<1> QED BY <1>2, <1>4, <1>5, <1>6, <1>7 DEF FfnIs, Projecting, NoPulse

LEMMA ProjectingStep ==
  ASSUME PipeDrains, FfnTypes, FfnKept, NEW x, NEW write, NEW av, Projecting(x, av),
         ffnActiv = av, FfnStep(FALSE, x, write)
  PROVE  Projecting(x, av)' \/ Projected(x, av)'
<1>0. InterBeats \in Nat \ {0} /\ HiddenBeats \in Nat \ {0}
  BY FfnAssumption
<1>1. /\ ffn' = FfnControl(FALSE)
      /\ gate' = EngineEdge(gate, FALSE, x, av, InterBeats, HiddenBeats)
  BY DEF FfnStep, FfnEdge, Projecting, NoPulse
<1>2. PICK r \in 0 .. InterBeats - 1 : AtRow(gate, x, av, HiddenBeats, r) /\ Halves(x, av, r)
  BY DEF Projecting
<1>3. PICK e, g : e = gate /\ g = gate'
  OBVIOUS
<1>4. RowEdge(e, g, x, av, InterBeats, HiddenBeats, r) /\ e.done = FALSE
  BY <1>0, <1>1, <1>2, <1>3, RowStep
<1>5. FfnIs("RUN_GU", FALSE, FALSE, FALSE, FALSE, 0, ffn.downStarted)
  BY <1>1, <1>3, <1>4 DEF FfnControl, Projecting, FfnTypes, FfnShape, FfnIs
<1>6. Resting(down')
  BY RestKept DEF Projecting, NoPulse
<1>7. r \in Nat
  BY <1>0
<1>8. /\ gate.result = <<>> => Halves(x, av, r)'
      /\ gate.result = <<r, Half(x, r, av)>> => Halves(x, av, r + 1)'
  BY <1>2, <1>7, HalvesKept
<1>9. CASE e.result = <<>> /\ AtRow(g, x, av, HiddenBeats, r)
  BY <1>3, <1>5, <1>6, <1>8, <1>9 DEF FfnIs, Projecting, NoPulse
<1>10. CASE /\ e.result = <<r, RowSum(x, r, av, HiddenBeats)>>
            /\ IF r = InterBeats - 1 THEN Finished(g) ELSE AtRow(g, x, av, HiddenBeats, r + 1)
  <2>1. Halves(x, av, r + 1)'
    BY <1>3, <1>8, <1>10 DEF Half
  <2>2. CASE r = InterBeats - 1
    <3>1. r + 1 = InterBeats
      BY <1>0, <2>2
    <3>2. Halves(x, av, InterBeats)'
      BY <3>1, <2>1
    <3> QED BY <3>2, <2>2, <1>3, <1>5, <1>6, <1>10 DEF FfnIs, Projected, NoPulse
  <2>3. CASE r # InterBeats - 1
    <3>1. r + 1 \in 0 .. InterBeats - 1
      BY <1>0, <2>3
    <3> QED BY <3>1, <2>1, <2>3, <1>3, <1>5, <1>6, <1>10 DEF FfnIs, Projecting, NoPulse
  <2> QED BY <2>2, <2>3
<1> QED BY <1>4, <1>9, <1>10 DEF RowEdge

LEMMA ProjectedStep ==
  ASSUME FfnTypes, FfnKept, NEW x, NEW write, NEW av, Projected(x, av),
         FfnStep(FALSE, x, write)
  PROVE  Multiplying(x, av)'
<1>0. InterBeats \in Nat \ {0}
  BY FfnAssumption
<1>1. /\ ffn' = FfnControl(FALSE)
      /\ gate' = EngineEdge(gate, FALSE, x, ffnActiv, InterBeats, HiddenBeats)
  BY DEF FfnStep, FfnEdge, Projected, NoPulse
<1>2. Resting(gate') /\ Resting(down')
  <2>1. PICK e, g, v : e = gate /\ g = gate' /\ v = ffnActiv
    OBVIOUS
  <2>2. Finished(e) /\ g = EngineEdge(e, FALSE, x, v, InterBeats, HiddenBeats)
    BY <1>1, <2>1 DEF Projected
  <2>3. Resting(g)
    BY <2>2, FinishedStep
  <2> QED BY <2>1, <2>3, RestKept DEF Projected, NoPulse
<1>3. gate.done = TRUE /\ up = gate /\ gate.result = <<>>
  BY DEF Projected, Finished, Silent, FfnTypes
<1>4. FfnIs("MID", FALSE, FALSE, FALSE, FALSE, 0, ffn.downStarted)
  BY <1>1, <1>3 DEF FfnControl, Projected, FfnTypes, FfnShape, FfnIs
<1>5. Halves(x, av, InterBeats)'
  BY <1>0, <1>3, HalvesKept DEF Projected
<1> QED BY <1>2, <1>4, <1>5 DEF FfnIs, Multiplying, NoPulse

LEMMA MultiplyingStep ==
  ASSUME FfnTypes, FfnKept, NEW x, NEW write, NEW av, Multiplying(x, av),
         FfnStep(FALSE, x, write)
  PROVE  Loading(x, av)'
<1>0. InterBeats \in Nat \ {0}
  BY FfnAssumption
<1>1. ffn' = FfnControl(FALSE)
  BY DEF FfnStep, FfnEdge
<1>2. Resting(gate') /\ Resting(down')
  BY RestKept DEF Multiplying, NoPulse
<1>3. FfnIs("LOAD_DOWN", FALSE, FALSE, FALSE, FALSE, 0, ffn.downStarted)
  BY <1>1 DEF FfnControl, Multiplying, FfnTypes, FfnShape, FfnIs
<1>4. ffn'.mid = [i \in 0 .. InterBeats - 1 |-> <<ffn.gateVec[i], ffn.upVec[i]>>]
  <2>1. PICK f : f = FfnControl(FALSE)
    OBVIOUS
  <2>2. f.mid = [i \in DOMAIN ffn.mid |-> <<ffn.gateVec[i], ffn.upVec[i]>>]
    BY <2>1, FfnVectors DEF Multiplying, FfnStates
  <2> QED BY <1>1, <2>1, <2>2 DEF FfnTypes
<1>5. \A i \in 0 .. InterBeats - 1 : ffn.gateVec[i] = Half(x, i, av)
  BY <1>0 DEF Multiplying, Halves
<1>6. ffn'.mid = Products(x, av)
  BY <1>4, <1>5 DEF FfnTypes, Products
<1>7. 0 \in 0 .. InterBeats - 1
  BY <1>0
<1>8. \A b \in 1 .. InterBeats - 1 : ~(b < 0)
  BY <1>0
<1> QED BY <1>2, <1>3, <1>6, <1>7, <1>8 DEF FfnIs, Loading

LEMMA LoadingStep ==
  ASSUME FfnTypes, FfnKept, NEW x, NEW write, NEW av, Loading(x, av),
         FfnStep(FALSE, x, write)
  PROVE  Loading(x, av)' \/ Loaded(x, av)'
<1>0. InterBeats \in Nat \ {0}
  BY FfnAssumption
<1>1. ffn' = FfnControl(FALSE)
  BY DEF FfnStep, FfnEdge
<1>2. Resting(gate') /\ Resting(down')
  BY RestKept DEF Loading
<1>3. PICK d, m, m2, mid : /\ d = ffn.downBeat /\ m = ffnMid /\ m2 = ffnMid'
                           /\ mid = Products(x, av)
  OBVIOUS
<1>4. d \in 0 .. InterBeats - 1 /\ m = [b \in 0 .. InterBeats - 1 |-> m[b]]
  BY <1>3 DEF Loading, FfnTypes
<1>5. \A b \in 1 .. InterBeats - 1 : b < d => m[b] = mid[b]
  BY <1>3 DEF Loading
<1>6. d = 0 => m2 = m
  BY <1>3 DEF Loading, FfnKept
<1>7. d # 0 => m2 = [m EXCEPT ![d] = mid[d]]
  BY <1>3 DEF Loading, FfnKept
<1>8. ASSUME NEW b \in 1 .. InterBeats - 1, b <= d PROVE m2[b] = mid[b]
  <2>0. d # 0
    BY <1>0, <1>4, <1>8
  <2>1. CASE b = d
    <3>1. m2 = [m EXCEPT ![d] = mid[d]]
      BY <1>7, <2>0
    <3>2. d \in DOMAIN m
      BY <1>4
    <3> QED BY <3>1, <3>2, <2>1
  <2>2. CASE b # d
    <3>1. b < d /\ b \in 0 .. InterBeats - 1
      BY <1>0, <1>4, <1>8, <2>2
    <3>2. m2[b] = m[b]
      BY <1>4, <1>7, <2>0, <2>2, <3>1
    <3> QED BY <3>1, <3>2, <1>5
  <2> QED BY <2>1, <2>2
<1>9. ffn'.mid = Products(x, av)
  BY DEF Loading, FfnKept
<1>10. CASE d = InterBeats - 1
  <2>1. FfnIs("RUN_DOWN", FALSE, FALSE, FALSE, TRUE, 0, FALSE)
    BY <1>1, <1>3, <1>10 DEF FfnControl, Loading, FfnTypes, FfnShape, FfnIs
  <2>2. \A b \in 1 .. InterBeats - 1 : b <= d
    BY <1>0, <1>10
  <2>3. \A b \in 1 .. InterBeats - 1 : ffnMid'[b] = Products(x, av)[b]
    BY <1>3, <1>8, <2>2
  <2> QED BY <1>2, <1>9, <2>1, <2>3 DEF FfnIs, Loaded
<1>11. CASE d # InterBeats - 1
  <2>1. FfnIs("LOAD_DOWN", FALSE, FALSE, FALSE, TRUE, d + 1, ffn.downStarted)
    BY <1>1, <1>3, <1>11 DEF FfnControl, Loading, FfnTypes, FfnShape, FfnIs
  <2>2. d + 1 \in 0 .. InterBeats - 1 /\ d + 1 # 0
    BY <1>0, <1>4, <1>11
  <2>3. \A b \in 1 .. InterBeats - 1 : b < d + 1 => b <= d
    BY <1>0, <1>4
  <2>4. \A b \in 1 .. InterBeats - 1 : b < d + 1 => ffnMid'[b] = Products(x, av)[b]
    BY <1>3, <1>8, <2>3
  <2> QED BY <1>2, <1>9, <2>1, <2>2, <2>4 DEF FfnIs, Loading
<1> QED BY <1>10, <1>11

LEMMA LoadedStep ==
  ASSUME FfnTypes, FfnKept, NEW x, NEW write, NEW av, Loaded(x, av),
         FfnStep(FALSE, x, write)
  PROVE  DownStarting(x, av)'
<1>0. InterBeats \in Nat \ {0}
  BY FfnAssumption
<1>1. ffn' = FfnControl(FALSE)
  BY DEF FfnStep, FfnEdge
<1>2. Resting(gate') /\ Resting(down')
  BY RestKept DEF Loaded
<1>3. down.done = FALSE
  BY DEF Loaded, Resting
<1>4. FfnIs("RUN_DOWN", FALSE, TRUE, FALSE, FALSE, 0, TRUE)
  BY <1>1, <1>3 DEF FfnControl, Loaded, FfnTypes, FfnShape, FfnIs
<1>5. PICK m, m2, mid : m = ffnMid /\ m2 = ffnMid' /\ mid = Products(x, av)
  OBVIOUS
<1>6. m = [b \in 0 .. InterBeats - 1 |-> m[b]] /\ m2 = [m EXCEPT ![0] = mid[0]]
  BY <1>5 DEF Loaded, FfnTypes, FfnKept
<1>7. \A b \in 1 .. InterBeats - 1 : m[b] = mid[b]
  BY <1>5 DEF Loaded
<1>8. m2 = [b \in 0 .. InterBeats - 1 |-> m2[b]]
  BY <1>6
<1>9. ASSUME NEW b \in 0 .. InterBeats - 1 PROVE m2[b] = mid[b]
  <2>1. CASE b = 0
    BY <2>1, <1>6
  <2>2. CASE b # 0
    <3>1. b \in 1 .. InterBeats - 1
      BY <1>0, <2>2
    <3> QED BY <3>1, <2>2, <1>6, <1>7
  <2> QED BY <2>1, <2>2
<1>10. mid = [b \in 0 .. InterBeats - 1 |-> mid[b]]
  BY <1>5 DEF Products
<1>11. m2 = mid
  BY <1>8, <1>9, <1>10
<1> QED BY <1>2, <1>4, <1>5, <1>11 DEF FfnIs, DownStarting

LEMMA DownStartingStep ==
  ASSUME FfnTypes, FfnKept, NEW x, NEW write, NEW av, DownStarting(x, av),
         FfnStep(FALSE, x, write)
  PROVE  DownRunning(x, av)'
<1>0. HiddenBeats \in Nat \ {0}
  BY FfnAssumption
<1>1. /\ ffn' = FfnControl(FALSE)
      /\ down' = EngineEdge(down, TRUE, x, ffnMid, HiddenBeats, InterBeats)
  BY DEF FfnStep, FfnEdge, DownStarting
<1>2. Arming(down', 0) /\ Resting(gate')
  <2>1. PICK e, g, v : e = down /\ g = down' /\ v = ffnMid
    OBVIOUS
  <2>2. Resting(e) /\ g = EngineEdge(e, TRUE, x, v, HiddenBeats, InterBeats)
    BY <1>1, <2>1 DEF DownStarting
  <2>3. Arming(g, 0)
    BY <2>2, StartStep
  <2> QED BY <2>1, <2>3, RestKept DEF DownStarting
<1>3. down.done = FALSE
  BY DEF DownStarting, Resting
<1>4. FfnIs("RUN_DOWN", FALSE, FALSE, FALSE, FALSE, 0, TRUE)
  BY <1>1, <1>3 DEF FfnControl, DownStarting, FfnTypes, FfnShape, FfnIs
<1>5. AtRow(down', x, Products(x, av), InterBeats, 0)
  BY <1>2 DEF AtRow
<1>6. Rows(x, av, 0)' /\ 0 \in 0 .. HiddenBeats - 1
  BY <1>0 DEF Rows
<1>7. ffnMid' = Products(x, av)
  BY DEF DownStarting, FfnKept
<1> QED BY <1>2, <1>4, <1>5, <1>6, <1>7 DEF FfnIs, DownRunning, NoPulse

LEMMA DownRunningStep ==
  ASSUME PipeDrains, FfnTypes, FfnKept, NEW x, NEW write, NEW av, DownRunning(x, av),
         FfnStep(FALSE, x, write)
  PROVE  DownRunning(x, av)' \/ DownFinished(x, av)'
<1>0. InterBeats \in Nat \ {0} /\ HiddenBeats \in Nat \ {0}
  BY FfnAssumption
<1>1. /\ ffn' = FfnControl(FALSE)
      /\ down' = EngineEdge(down, FALSE, x, Products(x, av), HiddenBeats, InterBeats)
  BY DEF FfnStep, FfnEdge, DownRunning, NoPulse
<1>2. PICK r \in 0 .. HiddenBeats - 1 :
        AtRow(down, x, Products(x, av), InterBeats, r) /\ Rows(x, av, r)
  BY DEF DownRunning
<1>3. PICK e, g, mid : e = down /\ g = down' /\ mid = Products(x, av)
  OBVIOUS
<1>4. RowEdge(e, g, x, mid, HiddenBeats, InterBeats, r) /\ e.done = FALSE
  BY <1>0, <1>1, <1>2, <1>3, RowStep
<1>5. FfnIs("RUN_DOWN", FALSE, FALSE, FALSE, FALSE, 0, TRUE)
  BY <1>1, <1>3, <1>4 DEF FfnControl, DownRunning, NoPulse, FfnTypes, FfnShape, FfnIs
<1>6. Resting(gate')
  BY RestKept DEF DownRunning, NoPulse
<1>7. r \in Nat
  BY <1>0
<1>8. /\ down.result = <<>> => Rows(x, av, r)'
      /\ down.result = <<r, ExpertRow(x, r, av)>> => Rows(x, av, r + 1)'
  BY <1>2, <1>7, RowsKept DEF FfnStep
<1>9. ffnMid' = Products(x, av)
  BY DEF DownRunning, NoPulse, FfnKept
<1>10. RowSum(x, r, mid, InterBeats) = ExpertRow(x, r, av)
  BY <1>3 DEF ExpertRow, Products, Half
<1>11. CASE e.result = <<>> /\ AtRow(g, x, mid, InterBeats, r)
  BY <1>3, <1>5, <1>6, <1>8, <1>9, <1>11 DEF FfnIs, DownRunning, NoPulse
<1>12. CASE /\ e.result = <<r, RowSum(x, r, mid, InterBeats)>>
            /\ IF r = HiddenBeats - 1 THEN Finished(g) ELSE AtRow(g, x, mid, InterBeats, r + 1)
  <2>1. Rows(x, av, r + 1)'
    BY <1>3, <1>8, <1>10, <1>12
  <2>2. CASE r = HiddenBeats - 1
    <3>1. r + 1 = HiddenBeats
      BY <1>0, <2>2
    <3>2. Rows(x, av, HiddenBeats)'
      BY <3>1, <2>1
    <3> QED BY <3>2, <2>2, <1>3, <1>5, <1>6, <1>12 DEF FfnIs, DownFinished, NoPulse
  <2>3. CASE r # HiddenBeats - 1
    <3>1. r + 1 \in 0 .. HiddenBeats - 1
      BY <1>0, <2>3
    <3> QED BY <3>1, <2>1, <2>3, <1>3, <1>5, <1>6, <1>9, <1>12 DEF FfnIs, DownRunning, NoPulse
  <2> QED BY <2>2, <2>3
<1> QED BY <1>4, <1>11, <1>12 DEF RowEdge

LEMMA DownFinishedStep ==
  ASSUME FfnTypes, FfnKept, NEW x, NEW write, NEW av, DownFinished(x, av),
         FfnStep(FALSE, x, write)
  PROVE  FfnThrough(x, av)'
<1>0. HiddenBeats \in Nat \ {0}
  BY FfnAssumption
<1>1. /\ ffn' = FfnControl(FALSE)
      /\ down' = EngineEdge(down, FALSE, x, ffnMid, HiddenBeats, InterBeats)
  BY DEF FfnStep, FfnEdge, DownFinished, NoPulse
<1>2. Resting(gate') /\ Resting(down')
  <2>1. PICK e, g, v : e = down /\ g = down' /\ v = ffnMid
    OBVIOUS
  <2>2. Finished(e) /\ g = EngineEdge(e, FALSE, x, v, HiddenBeats, InterBeats)
    BY <1>1, <2>1 DEF DownFinished
  <2>3. Resting(g)
    BY <2>2, FinishedStep
  <2> QED BY <2>1, <2>3, RestKept DEF DownFinished, NoPulse
<1>3. down.done = TRUE /\ down.result = <<>>
  BY DEF DownFinished, Finished, Silent
<1>4. FfnIs("DONE", FALSE, FALSE, TRUE, FALSE, 0, TRUE)
  BY <1>1, <1>3 DEF FfnControl, DownFinished, NoPulse, FfnTypes, FfnShape, FfnIs
<1>5. Rows(x, av, HiddenBeats)'
  BY <1>0, <1>3, RowsKept DEF DownFinished, FfnStep
<1> QED BY <1>2, <1>4, <1>5 DEF FfnIs, FfnThrough

LEMMA ThroughStep ==
  ASSUME FfnTypes, FfnKept, NEW x, NEW write, NEW av, FfnThrough(x, av),
         FfnStep(FALSE, x, write)
  PROVE  FfnQuiet' /\ Rows(x, av, HiddenBeats)'
<1>0. HiddenBeats \in Nat \ {0}
  BY FfnAssumption
<1>1. ffn' = FfnControl(FALSE)
  BY DEF FfnStep, FfnEdge
<1>2. Resting(gate') /\ Resting(down')
  BY RestKept DEF FfnThrough
<1>3. FfnIs("IDLE", FALSE, FALSE, FALSE, FALSE, 0, ffn.downStarted)
  BY <1>1 DEF FfnControl, FfnThrough, FfnTypes, FfnShape, FfnIs
<1>4. down.result = <<>>
  BY DEF FfnThrough, Resting, Silent
<1>5. Rows(x, av, HiddenBeats)'
  BY <1>0, <1>4, RowsKept DEF FfnThrough, FfnStep
<1> QED BY <1>2, <1>3, <1>5 DEF FfnIs, FfnQuiet, NoPulse

(* One edge of the engine at work: it stays at work, or is done.           *)
LEMMA FfnWorks ==
  ASSUME PipeDrains, FfnTypes, NEW x, NEW av, FfnAtWork(x, av), ffnActiv = av,
         FfnStep(FALSE, x, {})
  PROVE  /\ FfnTypes' /\ ffnActiv' = av
         /\ ffn.done # TRUE => FfnAtWork(x, av)'
         /\ ffn.done = TRUE => FfnQuiet' /\ Rows(x, av, HiddenBeats)'
<1>1. FfnKept
  <2>1. ffn.state \in FfnStates
    BY DEF FfnAtWork, FfnStates, Starting, Projecting, Projected, Multiplying, Loading, Loaded,
           DownStarting, DownRunning, DownFinished, FfnThrough
  <2> QED BY <2>1, FfnKeeps
<1>2. ffnActiv' = av
  <2>1. ffnActiv' = [b \in DOMAIN ffnActiv |-> ffnActiv[b]]
    BY DEF FfnStep, FfnEdge
  <2>2. ffnActiv = [b \in DOMAIN ffnActiv |-> ffnActiv[b]]
    BY DEF FfnTypes
  <2> QED BY <2>1, <2>2
<1>3. CASE FfnThrough(x, av)
  BY <1>1, <1>2, <1>3, ThroughStep DEF FfnKept, FfnThrough
<1>4. CASE ~FfnThrough(x, av)
  <2>1. ffn.done # TRUE
    BY <1>4 DEF FfnAtWork, NoPulse, Starting, Projecting, Projected, Multiplying, Loading,
                Loaded, DownStarting, DownRunning, DownFinished
  <2>2. FfnAtWork(x, av)'
    <3>1. CASE Starting
      BY <3>1, StartingStep DEF FfnAtWork
    <3>2. CASE Projecting(x, av)
      BY <1>1, <3>2, ProjectingStep DEF FfnAtWork
    <3>3. CASE Projected(x, av)
      BY <1>1, <3>3, ProjectedStep DEF FfnAtWork
    <3>4. CASE Multiplying(x, av)
      BY <1>1, <3>4, MultiplyingStep DEF FfnAtWork
    <3>5. CASE Loading(x, av)
      BY <1>1, <3>5, LoadingStep DEF FfnAtWork
    <3>6. CASE Loaded(x, av)
      BY <1>1, <3>6, LoadedStep DEF FfnAtWork
    <3>7. CASE DownStarting(x, av)
      BY <1>1, <3>7, DownStartingStep DEF FfnAtWork
    <3>8. CASE DownRunning(x, av)
      BY <1>1, <3>8, DownRunningStep DEF FfnAtWork
    <3>9. CASE DownFinished(x, av)
      BY <1>1, <3>9, DownFinishedStep DEF FfnAtWork
    <3> QED BY <1>4, <3>1, <3>2, <3>3, <3>4, <3>5, <3>6, <3>7, <3>8, <3>9 DEF FfnAtWork
  <2> QED BY <1>1, <1>2, <2>1, <2>2 DEF FfnKept
<1> QED BY <1>3, <1>4

-----------------------------------------------------------------------------
(* The router picks an expert of those left, and none left is better.      *)
LEMMA LeastOf ==
  ASSUME NEW T, T \subseteq Nat, T # {}
  PROVE  \E x \in T : \A y \in T : x <= y
<1> DEFINE R == OpToRel(<, Nat)
<1>1. IsWellFoundedOn(R, Nat)
  BY NatLessThanWellFounded
<1>2. PICK x \in T : \A y \in T : ~ (<<y, x>> \in R)
  <2> HIDE DEF R
  <2> QED BY <1>1, WFMin
<1>3. \A y \in T : ~ (y < x)
  BY <1>2 DEF OpToRel
<1> QED BY <1>3

TopOf(s, scores) == {e \in s : \A f \in s : scores[f] <= scores[e]}

LEMMA SomeHighest ==
  ASSUME NEW scores \in [0 .. Experts - 1 -> Int], NEW s \in SUBSET (0 .. Experts - 1),
         s # {}
  PROVE  TopOf(s, scores) # {}
<1>0. Experts \in Nat \ {0}
  BY LayerAssumption
<1> DEFINE T == {m \in Nat : \E r \in SUBSET (0 .. Experts - 1) :
                   r \subseteq 0 .. m - 1 /\ r # {} /\ TopOf(r, scores) = {}}
<1> SUFFICES ASSUME TopOf(s, scores) = {} PROVE FALSE
  OBVIOUS
<1>1. Experts \in T
  BY <1>0
<1>2. PICK m \in T : \A y \in T : m <= y
  <2>1. T \subseteq Nat /\ T # {}
    BY <1>1
  <2> HIDE DEF T
  <2> QED BY <2>1, LeastOf
<1>3. PICK r \in SUBSET (0 .. Experts - 1) :
        r \subseteq 0 .. m - 1 /\ r # {} /\ TopOf(r, scores) = {}
  BY <1>2
<1>4. m # 0 /\ m - 1 \in Nat /\ m - 1 \notin T
  <2>0. m \in Nat
    BY <1>2
  <2> HIDE DEF T
  <2>1. m # 0
    <3>1. 0 .. 0 - 1 = {}
      OBVIOUS
    <3> QED BY <3>1, <1>3
  <2> QED BY <2>0, <2>1, <1>2
<1>5. PICK q : q = r \ {m - 1}
  OBVIOUS
<1>6. q \subseteq 0 .. (m - 1) - 1 /\ q \in SUBSET (0 .. Experts - 1)
  BY <1>2, <1>3, <1>4, <1>5
<1>7. CASE q = {}
  <2>1. r = {m - 1}
    BY <1>3, <1>5, <1>7
  <2>2. m - 1 \in TopOf(r, scores)
    BY <2>1, <1>3 DEF TopOf
  <2> QED BY <2>2, <1>3
<1>8. CASE q # {}
  <2>1. TopOf(q, scores) # {}
    BY <1>4, <1>6, <1>8
  <2>2. PICK e \in q : \A f \in q : scores[f] <= scores[e]
    BY <2>1 DEF TopOf
  <2>3. scores[e] \in Int /\ \A f \in r : scores[f] \in Int
    BY <1>3, <1>6, <2>2
  <2>4. CASE m - 1 \notin r \/ scores[m - 1] <= scores[e]
    <3>1. \A f \in r : scores[f] <= scores[e]
      BY <2>2, <2>4, <1>5
    <3>2. e \in TopOf(r, scores)
      BY <3>1, <2>2, <1>5 DEF TopOf
    <3> QED BY <3>2, <1>3
  <2>5. CASE m - 1 \in r /\ ~(scores[m - 1] <= scores[e])
    <3>1. \A f \in r : scores[f] <= scores[m - 1]
      BY <2>2, <2>3, <2>5, <1>5, <1>6
    <3>2. m - 1 \in TopOf(r, scores)
      BY <3>1, <2>5 DEF TopOf
    <3> QED BY <3>2, <1>3
  <2> QED BY <2>4, <2>5
<1> QED BY <1>7, <1>8

LEMMA BestIsLeft ==
  ASSUME NEW scores \in [0 .. Experts - 1 -> Int], NEW taken, NEW left,
         left = (0 .. Experts - 1) \ taken, left # {}
  PROVE  Best(scores, taken) \in TopOf(left, scores)
<1>1. PICK best : best = TopOf(left, scores)
  OBVIOUS
<1>2. best # {} /\ best \subseteq Nat
  <2>1. left \in SUBSET (0 .. Experts - 1)
    OBVIOUS
  <2>2. best # {}
    BY <2>1, <1>1, SomeHighest
  <2>3. best \subseteq left
    BY <1>1 DEF TopOf
  <2>4. 0 .. Experts - 1 \subseteq Nat
    BY LayerAssumption
  <2> QED BY <2>1, <2>2, <2>3, <2>4
<1>3. \E e \in best : \A f \in best : e <= f
  BY <1>2, LeastOf
<1>4. DOMAIN scores \ taken = left
  OBVIOUS
<1>5. Best(scores, taken) = CHOOSE e \in best : \A f \in best : e <= f
  BY <1>1, <1>4 DEF Best, TopOf
<1> QED BY <1>1, <1>3, <1>5

(* Fewer experts are taken than there are, so some are left.               *)
LEMMA SomeLeft ==
  ASSUME NEW top \in [0 .. TopK - 1 -> 0 .. Experts - 1], NEW n \in 0 .. TopK - 1
  PROVE  (0 .. Experts - 1) \ Picked(top, n) # {}
<1>0. Experts \in Nat \ {0} /\ TopK \in 1 .. Experts /\ n \in Nat /\ n < Experts
  BY LayerAssumption
<1>1. PICK S, T : S = 0 .. n - 1 /\ T = Picked(top, n)
  OBVIOUS
<1>2. IsFiniteSet(S) /\ Cardinality(S) = n
  BY <1>0, <1>1, FS_Interval
<1>3. PICK f : f = [j \in S |-> top[j]]
  OBVIOUS
<1>4. f \in Surjection(S, T)
  <2>1. f \in [S -> T]
    BY <1>1, <1>3 DEF Picked
  <2>2. \A t \in T : \E j \in S : f[j] = t
    BY <1>1, <1>3 DEF Picked
  <2> QED BY <2>1, <2>2 DEF Surjection
<1>5. IsFiniteSet(T) /\ Cardinality(T) <= n
  BY <1>2, <1>4, FS_Surjection
<1>6. PICK U : U = 0 .. Experts - 1
  OBVIOUS
<1>7. IsFiniteSet(U) /\ Cardinality(U) = Experts
  BY <1>0, <1>6, FS_Interval
<1>8. Cardinality(T) \in Nat
  BY <1>5, FS_CardinalityType
<1>9. ASSUME U \ T = {} PROVE FALSE
  <2>1. U \in SUBSET T
    BY <1>9
  <2>2. Cardinality(U) <= Cardinality(T)
    BY <2>1, <1>5, FS_Subset
  <2> QED BY <2>2, <1>0, <1>5, <1>7, <1>8
<1> QED BY <1>1, <1>6, <1>9

PickedNext(top, scores, n, e, next) ==
  /\ e \in 0 .. Experts - 1 /\ next \in [0 .. TopK - 1 -> 0 .. Experts - 1]
  /\ Picked(next, n + 1) = Picked(top, n) \cup {e}
  /\ Ranked(next, scores, n + 1)

LEMMA PickNext ==
  ASSUME NEW top \in [0 .. TopK - 1 -> 0 .. Experts - 1],
         NEW scores \in [0 .. Experts - 1 -> Int], NEW n \in 0 .. TopK - 1,
         Ranked(top, scores, n), NEW e, e = Best(scores, Picked(top, n)),
         NEW next, next = [top EXCEPT ![n] = e]
  PROVE  PickedNext(top, scores, n, e, next)
<1>0. Experts \in Nat \ {0} /\ TopK \in 1 .. Experts
  BY LayerAssumption
<1>1. PICK taken, left : taken = Picked(top, n) /\ left = (0 .. Experts - 1) \ taken
  OBVIOUS
<1>2. e \in TopOf(left, scores)
  BY <1>1, SomeLeft, BestIsLeft
<1>3. e \in left /\ \A f \in left : scores[f] <= scores[e]
  BY <1>2 DEF TopOf
<1>4. next \in [0 .. TopK - 1 -> 0 .. Experts - 1]
  BY <1>1, <1>3
<1>5. next[n] = e /\ \A j \in 0 .. TopK - 1 : j # n => next[j] = top[j]
  OBVIOUS
<1>6. ASSUME NEW i \in 0 .. n PROVE Picked(next, i) = Picked(top, i)
  <2>1. \A j \in 0 .. i - 1 : next[j] = top[j]
    BY <1>0, <1>5
  <2> QED BY <2>1 DEF Picked
<1>7. Picked(next, n + 1) = Picked(top, n) \cup {e}
  <2>1. 0 .. (n + 1) - 1 = (0 .. n - 1) \cup {n}
    BY <1>0
  <2>2. Picked(next, n + 1) = Picked(next, n) \cup {next[n]}
    BY <2>1 DEF Picked
  <2>3. n \in 0 .. n
    BY <1>0
  <2>4. Picked(next, n) = Picked(top, n)
    BY <2>3, <1>6
  <2> QED BY <2>2, <2>4, <1>5
<1>8. ASSUME NEW i \in 0 .. (n + 1) - 1
      PROVE  /\ next[i] \notin Picked(next, i)
             /\ \A f \in (0 .. Experts - 1) \ Picked(next, i + 1) : scores[f] <= scores[next[i]]
  <2>1. CASE i = n
    <3>1. Picked(next, i + 1) = taken \cup {e} /\ Picked(next, i) = taken
      <4>1. n \in 0 .. n
        BY <1>0
      <4>2. Picked(next, n) = Picked(top, n)
        BY <4>1, <1>6
      <4> QED BY <4>2, <2>1, <1>1, <1>7
    <3> QED BY <3>1, <2>1, <1>1, <1>3, <1>5
  <2>2. CASE i # n
    <3>1. i \in 0 .. n - 1 /\ i \in 0 .. n /\ i + 1 \in 0 .. n /\ i \in 0 .. TopK - 1
      BY <2>2, <1>0
    <3>2. next[i] = top[i] /\ Picked(next, i) = Picked(top, i)
          /\ Picked(next, i + 1) = Picked(top, i + 1)
      BY <3>1, <2>2, <1>5, <1>6
    <3> QED BY <3>1, <3>2 DEF Ranked
  <2> QED BY <2>1, <2>2
<1>9. Ranked(next, scores, n + 1)
  BY <1>8 DEF Ranked
<1> QED BY <1>1, <1>3, <1>4, <1>7, <1>9 DEF PickedNext

-----------------------------------------------------------------------------
(* An edge of a block.                                                     *)
LEMMA BlockStep ==
  ASSUME NEW b, NEW start \in BOOLEAN, NEW input, NEW value, NEW cycles \in Nat \ {0}, NEW c,
         c = BlockEdge(b, start, input, cycles)
  PROVE  /\ Still(b) /\ ~start => Still(c) /\ c.out = b.out
         /\ Still(b) /\ start /\ input = value => Inside(c, value)
         /\ Inside(b, value) => Inside(c, value) \/ Through(c, value)
         /\ Through(b, value) /\ ~start => Still(c) /\ c.out = value
<1>1. ASSUME Still(b), ~start PROVE Still(c) /\ c.out = b.out
  <2>1. c = [b EXCEPT !.valid = FALSE]
    BY <1>1 DEF BlockEdge, Still
  <2> QED BY <1>1, <2>1 DEF Still, BlockShape
<1>2. ASSUME Still(b), start, input = value PROVE Inside(c, value)
  <2>1. c = [b EXCEPT !.token = value, !.left = cycles, !.valid = FALSE]
    BY <1>2 DEF BlockEdge, Still
  <2> QED BY <1>2, <2>1 DEF Still, Inside, BlockShape
<1>3. ASSUME Inside(b, value) PROVE Inside(c, value) \/ Through(c, value)
  <2>1. c = [b EXCEPT !.left = @ - 1, !.valid = (b.left = 1),
                      !.out = IF b.left = 1 THEN b.token ELSE @]
    BY <1>3 DEF BlockEdge, Inside
  <2>2. CASE b.left = 1
    <3>1. PICK h : h = (b.left = 1)
      OBVIOUS
    <3>2. c = [b EXCEPT !.left = 0, !.valid = h, !.out = b.token]
      BY <2>1, <2>2, <3>1
    <3>3. BlockShape(c) /\ c.left = 0 /\ c.valid = h /\ c.out = b.token
      BY <1>3, <3>2 DEF Inside, BlockShape
    <3>4. h = TRUE
      BY <2>2, <3>1
    <3> QED BY <1>3, <3>3, <3>4 DEF Inside, Through
  <2>3. CASE b.left # 1
    <3>1. c = [token |-> b.token, left |-> b.left - 1, out |-> b.out, valid |-> FALSE]
      BY <1>3, <2>1, <2>3 DEF Inside, BlockShape
    <3>2. b.left - 1 \in Nat \ {0}
      BY <1>3, <2>3 DEF Inside
    <3> QED BY <1>3, <3>1, <3>2 DEF Inside, BlockShape
  <2> QED BY <2>2, <2>3
<1>4. ASSUME Through(b, value), ~start PROVE Still(c) /\ c.out = value
  <2>1. c = [b EXCEPT !.valid = FALSE]
    BY <1>4 DEF BlockEdge, Through
  <2> QED BY <1>4, <2>1 DEF Still, Through, BlockShape
<1> QED BY <1>1, <1>2, <1>3, <1>4

LEMMA RouterStep ==
  ASSUME RtrTypes, RouterEdge, RouterAt, layTaken.scores \in [0 .. Experts - 1 -> Int],
         layTaken' = layTaken
  PROVE  /\ RtrTypes' /\ RouterAt'
         /\ rtr.state = "IDLE" /\ ~lay.rtrStart => rtr' = rtr
         /\ rtr.state = "IDLE" /\ lay.rtrStart => rtr'.state # "IDLE"
         /\ rtr.state \notin {"IDLE", "OUTPUT"} => rtr'.state # "IDLE"
         /\ rtr.state = "OUTPUT" => rtr'.state = "IDLE" /\ rtr'.top = rtr.top
<1>0. TopK \in Nat \ {0}
  BY LayerAssumption
<1>1. CASE rtr.state = "IDLE"
  <2>1. rtr' = IF lay.rtrStart THEN [rtr EXCEPT !.token = norm[2].out, !.state = "LATCH"]
               ELSE rtr
    BY <1>1 DEF RouterEdge
  <2> QED BY <1>1, <2>1 DEF RtrTypes, RtrShape, RouterAt
<1>2. CASE rtr.state = "LATCH"
  <2>1. rtr' = [rtr EXCEPT !.expert = 0, !.pair = 0, !.state = "COMPUTE"]
    BY <1>2 DEF RouterEdge
  <2> QED BY <1>2, <2>1 DEF RtrTypes, RtrShape, RouterAt
<1>3. CASE rtr.state = "COMPUTE"
  <2>1. rtr' = IF rtr.pair < RouterPairs - 1 THEN [rtr EXCEPT !.pair = @ + 1]
               ELSE IF rtr.expert < Experts - 1 THEN [rtr EXCEPT !.pair = 0, !.expert = @ + 1]
               ELSE [rtr EXCEPT !.pair = 0, !.expert = 0, !.round = 0, !.taken = {},
                                !.state = "SELECT"]
    BY <1>3 DEF RouterEdge
  <2>2. CASE rtr'.state = "COMPUTE"
    BY <1>0, <1>3, <2>1, <2>2 DEF RtrTypes, RtrShape, RouterAt
  <2>3. CASE rtr'.state # "COMPUTE"
    <3>1. rtr' = [rtr EXCEPT !.pair = 0, !.expert = 0, !.round = 0, !.taken = {},
                             !.state = "SELECT"]
      BY <1>3, <2>1, <2>3 DEF RtrTypes, RtrShape
    <3>4. /\ RtrShape' /\ rtr'.state = "SELECT" /\ rtr'.taken = {} /\ rtr'.round = 0
          /\ rtr'.top = rtr.top
      BY <3>1 DEF RtrTypes, RtrShape
    <3>5. 0 \in 0 .. TopK - 1
      BY <1>0
    <3>2. /\ RtrTypes' /\ rtr'.state = "SELECT" /\ rtr'.taken = {} /\ rtr'.round = 0
      BY <3>4, <3>5 DEF RtrTypes
    <3>3. RouterAt'
      BY <3>2 DEF RouterAt, Picked, Ranked
    <3> QED BY <1>3, <3>2, <3>3
  <2> QED BY <2>2, <2>3
<1>4. CASE rtr.state = "SELECT"
  <2>1. PICK n, e, top, scores, kept :
          /\ n = rtr.round /\ e = Best(layTaken.scores, rtr.taken) /\ top = rtr.top
          /\ scores = layTaken.scores /\ kept = ScoreKept(layTaken.scores[e])
    OBVIOUS
  <2>2. rtr' = [rtr EXCEPT !.top[n] = e, !.taken = @ \cup {e}, !.score[n] = kept,
                           !.round = IF @ = TopK - 1 THEN @ ELSE @ + 1,
                           !.state = IF n = TopK - 1 THEN "OUTPUT" ELSE @]
    BY <1>4, <2>1 DEF RouterEdge
  <2>3. PICK next : next = [top EXCEPT ![n] = e]
    OBVIOUS
  <2>4. /\ n \in 0 .. TopK - 1 /\ top \in [0 .. TopK - 1 -> 0 .. Experts - 1]
        /\ scores \in [0 .. Experts - 1 -> Int] /\ rtr.taken = Picked(top, n)
        /\ Ranked(top, scores, n)
    BY <1>4, <2>1 DEF RtrTypes, RouterAt
  <2>5. PickedNext(top, scores, n, e, next)
    BY <2>1, <2>3, <2>4, PickNext
  <2>6. /\ RtrShape' /\ rtr'.top = next /\ rtr'.taken = rtr.taken \cup {e}
        /\ rtr'.round = (IF n = TopK - 1 THEN n ELSE n + 1)
        /\ rtr'.state = (IF n = TopK - 1 THEN "OUTPUT" ELSE "SELECT")
    BY <1>4, <2>1, <2>2, <2>3 DEF RtrTypes, RtrShape
  <2>7. rtr'.round \in 0 .. TopK - 1
    BY <1>0, <2>4, <2>6
  <2>8. RtrTypes'
    BY <2>5, <2>6, <2>7 DEF RtrTypes, PickedNext
  <2>9. CASE n = TopK - 1
    <3>1. n + 1 = TopK
      BY <1>0, <2>9
    <3>2. Ranked(next, scores, TopK)
      BY <3>1, <2>5 DEF PickedNext
    <3>3. RouterAt'
      BY <3>2, <2>1, <2>6, <2>9 DEF RouterAt
    <3> QED BY <3>3, <2>6, <2>8, <2>9, <1>4
  <2>10. CASE n # TopK - 1
    <3>1. rtr'.taken = Picked(next, n + 1) /\ Ranked(next, scores, n + 1)
      BY <2>4, <2>5, <2>6 DEF PickedNext
    <3>2. RouterAt'
      BY <3>1, <2>1, <2>6, <2>10 DEF RouterAt
    <3> QED BY <3>2, <2>6, <2>8, <2>10, <1>4
  <2> QED BY <2>9, <2>10
<1>5. CASE rtr.state = "OUTPUT"
  <2>1. rtr' = [rtr EXCEPT !.state = "IDLE"]
    BY <1>5 DEF RouterEdge
  <2> QED BY <1>5, <2>1 DEF RtrTypes, RtrShape, RouterAt
<1> QED BY <1>1, <1>2, <1>3, <1>4, <1>5 DEF RtrTypes

-----------------------------------------------------------------------------
(* An edge of what the layer drives: the norms, attention, the router and  *)
(* the expert engine.                                                      *)
EdgeAround(cycles) ==
  /\ norm' = [n \in 1 .. 3 |->
                BlockEdge(norm[n], lay.normStart = n, lay.normIn[n], NormCycles)]
  /\ attn' = BlockEdge(attn, lay.attnStart, norm[1].out, cycles)
  /\ RouterEdge /\ FfnStep(lay.ffnStart, lay.expert, lay.write)

LEMMA NormEdge ==
  ASSUME NEW cycles, EdgeAround(cycles), NEW n \in 1 .. 3
  PROVE  norm'[n] = BlockEdge(norm[n], lay.normStart = n, lay.normIn[n], NormCycles)
BY DEF EdgeAround

LEMMA NormsAtRest ==
  ASSUME NEW cycles, EdgeAround(cycles), NEW m \in 1 .. 3, Still(norm[m]), lay.normStart # m
  PROVE  Still(norm'[m]) /\ norm'[m].out = norm[m].out
<1>0. NormCycles \in Nat \ {0}
  BY LayerAssumption
<1>1. PICK b, c, s, i : b = norm[m] /\ c = norm'[m] /\ s = (lay.normStart = m) /\ i = lay.normIn[m]
  OBVIOUS
<1>2. c = BlockEdge(b, s, i, NormCycles) /\ s \in BOOLEAN /\ ~s
  BY <1>1, NormEdge
<1>3. Still(b) /\ ~s => Still(c) /\ c.out = b.out
  BY <1>0, <1>2, BlockStep
<1> QED BY <1>1, <1>2, <1>3

LEMMA NormsStep ==
  ASSUME NEW cycles, EdgeAround(cycles), NEW n \in 1 .. 3, NEW value, Norming(n, value)
  PROVE  /\ norm[n].valid \in BOOLEAN
         /\ ~norm[n].valid => Inside(norm'[n], value) \/ Through(norm'[n], value)
         /\ norm[n].valid => Still(norm'[n]) /\ norm'[n].out = value /\ norm[n].out = value
         /\ \A m \in 1 .. 3 : m # n => Still(norm'[m]) /\ norm'[m].out = norm[m].out
<1>0. NormCycles \in Nat \ {0}
  BY LayerAssumption
<1>1. ASSUME NEW m \in 1 .. 3, m # n PROVE Still(norm'[m]) /\ norm'[m].out = norm[m].out
  <2>1. Still(norm[m]) /\ lay.normStart # m
    BY <1>1 DEF Norming
  <2> QED BY <2>1, NormsAtRest
<1>2. PICK b, c, s, i : b = norm[n] /\ c = norm'[n] /\ s = (lay.normStart = n) /\ i = lay.normIn[n]
  OBVIOUS
<1>3. c = BlockEdge(b, s, i, NormCycles) /\ s \in BOOLEAN
  BY <1>2, NormEdge
<1>4. /\ Still(b) /\ s /\ i = value => Inside(c, value)
      /\ Inside(b, value) => Inside(c, value) \/ Through(c, value)
      /\ Through(b, value) /\ ~s => Still(c) /\ c.out = value
  BY <1>0, <1>3, BlockStep
<1>5. \/ s /\ Still(b) /\ i = value
      \/ ~s /\ Inside(b, value)
      \/ ~s /\ Through(b, value)
  <2>1. lay.normStart = n => s
    BY <1>2
  <2>2. lay.normStart = 0 => ~s
    <3>1. n # 0
      OBVIOUS
    <3>2. s <=> (lay.normStart = n)
      BY <1>2
    <3> QED BY <3>1, <3>2
  <2> QED BY <2>1, <2>2, <1>2 DEF Norming
<1>6. /\ Still(b) => b.valid = FALSE
      /\ Inside(b, value) => b.valid = FALSE
      /\ Through(b, value) => b.valid = TRUE /\ b.out = value
  BY DEF Still, Inside, Through
<1>7. /\ b.valid \in BOOLEAN
      /\ ~b.valid => Inside(c, value) \/ Through(c, value)
      /\ b.valid => Still(c) /\ c.out = value /\ b.out = value
  BY <1>4, <1>5, <1>6
<1> QED BY <1>1, <1>2, <1>7

LEMMA AttnStep ==
  ASSUME NEW cycles \in Nat \ {0}, EdgeAround(cycles), NEW value
  PROVE  /\ Still(attn) /\ lay.attnStart = FALSE => Still(attn')
         /\ Attending(value) => /\ attn.valid \in BOOLEAN
                                /\ ~attn.valid => Inside(attn', value) \/ Through(attn', value)
                                /\ attn.valid => Still(attn') /\ attn.out = value
<1>1. PICK b, c, i : b = attn /\ c = attn' /\ i = norm[1].out
  OBVIOUS
<1>2. ASSUME Still(attn), lay.attnStart = FALSE PROVE Still(attn')
  <2>1. c = BlockEdge(b, FALSE, i, cycles)
    BY <1>1, <1>2 DEF EdgeAround
  <2>2. Still(b) => Still(c)
    BY <2>1, BlockStep
  <2> QED BY <2>2, <1>1, <1>2
<1>3. ASSUME Attending(value)
      PROVE  /\ b.valid \in BOOLEAN
             /\ ~b.valid => Inside(c, value) \/ Through(c, value)
             /\ b.valid => Still(c) /\ b.out = value
  <2>1. CASE lay.attnStart = TRUE
    <3>1. c = BlockEdge(b, TRUE, i, cycles)
      BY <1>1, <2>1 DEF EdgeAround
    <3>2. Still(b) /\ i = value => Inside(c, value)
      BY <3>1, BlockStep
    <3>3. Still(b) /\ i = value
      BY <1>1, <1>3, <2>1 DEF Attending
    <3> QED BY <3>2, <3>3 DEF Still
  <2>2. CASE lay.attnStart = FALSE
    <3>1. c = BlockEdge(b, FALSE, i, cycles)
      BY <1>1, <2>2 DEF EdgeAround
    <3>2. /\ Inside(b, value) => Inside(c, value) \/ Through(c, value)
          /\ Through(b, value) => Still(c)
      BY <3>1, BlockStep
    <3>3. Inside(b, value) \/ Through(b, value)
      BY <1>1, <1>3, <2>2 DEF Attending
    <3> QED BY <3>2, <3>3 DEF Inside, Through
  <2> QED BY <1>3, <2>1, <2>2 DEF Attending
<1> QED BY <1>1, <1>2, <1>3

(* The activation memory gets the pending write.                           *)
LEMMA WriteStep ==
  ASSUME NEW cycles, EdgeAround(cycles), FfnTypes
  PROVE  /\ ffnActiv' = Written
         /\ lay.write = {} => ffnActiv' = ffnActiv
<1>1. DOMAIN ffnActiv = 0 .. HiddenBeats - 1
  BY DEF FfnTypes
<1>2. ffnActiv' = Written
  BY <1>1 DEF EdgeAround, FfnStep, FfnEdge, Written
<1>3. ASSUME lay.write = {} PROVE ffnActiv' = ffnActiv
  <2>1. Written = [b \in 0 .. HiddenBeats - 1 |-> ffnActiv[b]]
    BY <1>3 DEF Written
  <2> QED BY <1>2, <2>1 DEF FfnTypes
<1> QED BY <1>2, <1>3

(* Where the engine is quiet and not started, it stays quiet.              *)
LEMMA StaysQuiet ==
  ASSUME NEW cycles, EdgeAround(cycles), FfnTypes, FfnQuiet, lay.ffnStart = FALSE
  PROVE  FfnQuiet' /\ FfnTypes'
<1>1. PICK x, w : x = lay.expert /\ w = lay.write
  OBVIOUS
<1>2. FfnStep(FALSE, x, w)
  BY <1>1 DEF EdgeAround
<1>3. FfnQuiet'
  <2>1. PICK s : s = FALSE
    OBVIOUS
  <2>2. s \in BOOLEAN /\ FfnStep(s, x, w) /\ ~s
    BY <1>2, <2>1
  <2> QED BY <2>2, QuietStep
<1>4. FfnKept
  <2>1. ffn.state \in FfnStates
    BY DEF FfnQuiet, FfnStates
  <2> QED BY <1>2, <2>1, FfnKeeps
<1> QED BY <1>3, <1>4 DEF FfnKept

LEMMA GetsStarted ==
  ASSUME NEW cycles, EdgeAround(cycles), FfnTypes, FfnQuiet, lay.ffnStart = TRUE
  PROVE  Starting' /\ FfnTypes'
<1>1. PICK x, w : x = lay.expert /\ w = lay.write
  OBVIOUS
<1>2. FfnStep(TRUE, x, w)
  BY <1>1 DEF EdgeAround
<1>3. Starting'
  <2>1. PICK s : s = TRUE
    OBVIOUS
  <2>2. s \in BOOLEAN /\ FfnStep(s, x, w) /\ s
    BY <1>2, <2>1
  <2> QED BY <2>2, QuietStep
<1>4. FfnKept
  <2>1. ffn.state \in FfnStates
    BY DEF FfnQuiet, FfnStates
  <2> QED BY <1>2, <2>1, FfnKeeps
<1> QED BY <1>3, <1>4 DEF FfnKept

(* The registers of the layer once its pulses have fallen.                 *)
IsQuiet(q) ==
  /\ q = [state |-> q.state, normIn |-> q.normIn, normStart |-> q.normStart,
          attnStart |-> q.attnStart, rtrStart |-> q.rtrStart, write |-> q.write,
          ffnStart |-> q.ffnStart, beat |-> q.beat, k |-> q.k, expert |-> q.expert,
          weight |-> q.weight, acc |-> q.acc, valid |-> q.valid, y |-> q.y]
  /\ q.normStart = 0 /\ q.attnStart = FALSE /\ q.rtrStart = FALSE /\ q.write = {}
  /\ q.ffnStart = FALSE /\ q.valid = FALSE
  /\ q.state = lay.state /\ q.normIn = lay.normIn /\ q.beat = lay.beat /\ q.k = lay.k
  /\ q.expert = lay.expert /\ q.weight = lay.weight /\ q.acc = lay.acc /\ q.y = lay.y

LEMMA QuietFields ==
  ASSUME LayShape
  PROVE  IsQuiet(Quiet)
<1>1. PICK q, h : q = Quiet /\ h = FALSE
  OBVIOUS
<1>2. q = [lay EXCEPT !.normStart = 0, !.attnStart = h, !.rtrStart = h, !.write = {},
                      !.ffnStart = h, !.valid = h]
  BY <1>1 DEF Quiet
<1>3. q = [state |-> lay.state, normIn |-> lay.normIn, normStart |-> 0, attnStart |-> h,
           rtrStart |-> h, write |-> {}, ffnStart |-> h, beat |-> lay.beat, k |-> lay.k,
           expert |-> lay.expert, weight |-> lay.weight, acc |-> lay.acc, valid |-> h,
           y |-> lay.y]
  BY <1>2 DEF LayShape
<1>4. IsQuiet(q)
  BY <1>1, <1>3 DEF IsQuiet
<1> QED BY <1>1, <1>4

-----------------------------------------------------------------------------
(* The layer from one state to the next.                                   *)
LayerKept == LayTypes' /\ Pulses' /\ LayerStage'

LEMMA IdleEdge ==
  ASSUME FfnTypes, RtrTypes, LayTypes, Pulses, AtIdle, NEW offer, NEW scores \in ScoreTables,
         NEW cycles \in Nat \ {0}, LayIdle(offer), EdgeAround(cycles),
         layTaken' = IF offer # {}
                     THEN [token |-> CHOOSE t \in offer : TRUE, scores |-> scores] ELSE layTaken
  PROVE  LayerKept /\ FfnTypes' /\ RtrTypes'
<1>1. PICK q : q = Quiet
  OBVIOUS
<1>2. IsQuiet(q)
  BY <1>1, QuietFields DEF LayTypes
<1>3. /\ lay.normStart = 0 /\ lay.attnStart = FALSE /\ lay.rtrStart = FALSE
      /\ lay.ffnStart = FALSE
  BY DEF Pulses, AtIdle
<1>4. \A m \in 1 .. 3 : Still(norm'[m])
  BY <1>3, NormsAtRest DEF AtIdle, NormsStill
<1>5. Still(attn')
  BY <1>3, AttnStep DEF AtIdle
<1>6. rtr' = rtr
  BY <1>3 DEF EdgeAround, RouterEdge, AtIdle
<1>7. FfnQuiet' /\ FfnTypes'
  BY <1>3, StaysQuiet DEF AtIdle
<1>8. RtrTypes' /\ rtr'.state = "IDLE"
  BY <1>6 DEF RtrTypes, RtrShape, AtIdle
<1>9. norm' = [n \in 1 .. 3 |-> norm'[n]]
  BY DEF EdgeAround
<1>10. CASE offer = {}
  <2>1. lay' = q /\ layTaken' = layTaken
    BY <1>1, <1>10 DEF LayIdle
  <2>2. LayTypes'
    BY <1>2, <1>9, <2>1 DEF IsQuiet, LayTypes, LayShape
  <2>3. Pulses' /\ lay'.state = "IDLE"
    BY <1>2, <2>1 DEF IsQuiet, Pulses, AtIdle
  <2>4. AtIdle'
    BY <1>4, <1>5, <1>7, <1>8, <2>3 DEF AtIdle, NormsStill
  <2> QED BY <1>7, <1>8, <2>2, <2>3, <2>4 DEF LayerKept, LayerStage
<1>11. CASE offer # {}
  <2>1. PICK t : t = CHOOSE u \in offer : TRUE
    OBVIOUS
  <2>2. lay' = [q EXCEPT !.normIn[1] = t, !.normStart = 1, !.state = "R1"]
    BY <1>1, <1>11, <2>1 DEF LayIdle
  <2>3. layTaken' = [token |-> t, scores |-> scores]
    BY <1>11, <2>1
  <2>4. PICK v : v = [lay.normIn EXCEPT ![1] = t]
    OBVIOUS
  <2>5. v = [n \in 1 .. 3 |-> v[n]] /\ v[1] = t
    <3>1. PICK w : w = lay.normIn
      OBVIOUS
    <3>2. w = [n \in 1 .. 3 |-> w[n]] /\ v = [w EXCEPT ![1] = t]
      BY <3>1, <2>4 DEF LayTypes
    <3>3. 1 \in 1 .. 3 /\ 2 \in 1 .. 3 /\ DOMAIN w = 1 .. 3
      BY <3>2
    <3> QED BY <3>2, <3>3
  <2>6. /\ LayShape' /\ lay'.normIn = v /\ lay'.normStart = 1 /\ lay'.state = "R1"
        /\ lay'.attnStart = FALSE /\ lay'.rtrStart = FALSE /\ lay'.write = {}
        /\ lay'.ffnStart = FALSE /\ lay'.valid = FALSE /\ lay'.expert = lay.expert
        /\ lay'.k = lay.k
    BY <1>2, <2>2, <2>4 DEF IsQuiet, LayShape
  <2>7. layTaken'.scores \in [0 .. Experts - 1 -> Int] /\ layTaken'.token = t
    BY <2>3, LayerAssumption
  <2>8. LayTypes'
    BY <1>9, <2>5, <2>6, <2>7 DEF LayTypes
  <2>9. Pulses'
    BY <2>6 DEF Pulses
  <2>10. Norming(1, layTaken.token)'
    BY <1>4, <2>5, <2>6, <2>7 DEF Norming
  <2>11. AtFirst'
    BY <1>5, <1>7, <1>8, <2>6, <2>10 DEF AtFirst
  <2> QED BY <1>7, <1>8, <2>8, <2>9, <2>11 DEF LayerKept, LayerStage
<1> QED BY <1>10, <1>11

(* What a state that is neither the router's nor the engine's leaves.      *)
LEMMA RestsAround ==
  ASSUME FfnTypes, RtrTypes, LayTypes, Pulses, NEW cycles \in Nat \ {0}, EdgeAround(cycles),
         rtr.state = "IDLE", lay.rtrStart = FALSE, FfnQuiet, lay.ffnStart = FALSE
  PROVE  /\ FfnQuiet' /\ FfnTypes' /\ rtr' = rtr /\ RtrTypes'
         /\ norm' = [n \in 1 .. 3 |-> norm'[n]]
<1>1. rtr' = rtr
  BY DEF EdgeAround, RouterEdge
<1>2. RtrTypes'
  BY <1>1 DEF RtrTypes, RtrShape
<1>3. FfnQuiet' /\ FfnTypes'
  BY StaysQuiet
<1>4. norm' = [n \in 1 .. 3 |-> norm'[n]]
  BY DEF EdgeAround
<1> QED BY <1>1, <1>2, <1>3, <1>4

LEMMA FirstEdge ==
  ASSUME FfnTypes, RtrTypes, LayTypes, Pulses, AtFirst, NEW cycles \in Nat \ {0}, LayAttend,
         EdgeAround(cycles), layTaken' = layTaken
  PROVE  LayerKept /\ FfnTypes' /\ RtrTypes'
<1>1. PICK q : q = Quiet
  OBVIOUS
<1>2. IsQuiet(q)
  BY <1>1, QuietFields DEF LayTypes
<1>3. lay.attnStart = FALSE /\ lay.rtrStart = FALSE /\ lay.ffnStart = FALSE
  BY DEF Pulses, AtFirst
<1>4. PICK t : t = layTaken.token
  OBVIOUS
<1>5. /\ norm[1].valid \in BOOLEAN
      /\ ~norm[1].valid => Inside(norm'[1], t) \/ Through(norm'[1], t)
      /\ norm[1].valid => Still(norm'[1]) /\ norm'[1].out = t /\ norm[1].out = t
      /\ \A m \in 1 .. 3 : m # 1 => Still(norm'[m]) /\ norm'[m].out = norm[m].out
  BY <1>4, NormsStep DEF AtFirst
<1>6. Still(attn')
  BY <1>3, AttnStep DEF AtFirst
<1>7. /\ FfnQuiet' /\ FfnTypes' /\ rtr' = rtr /\ RtrTypes'
      /\ norm' = [n \in 1 .. 3 |-> norm'[n]]
  BY <1>3, RestsAround DEF AtFirst
<1>8. lay' = IF norm[1].valid THEN [q EXCEPT !.attnStart = TRUE, !.state = "ATTN"] ELSE q
  BY <1>1 DEF LayAttend, AtFirst
<1>9. CASE ~norm[1].valid
  <2>1. lay' = q
    BY <1>8, <1>9
  <2>2. LayTypes'
    BY <1>2, <1>7, <2>1 DEF IsQuiet, LayTypes, LayShape
  <2>3. Pulses' /\ lay'.state = "R1" /\ lay'.normStart = 0
    BY <1>2, <2>1 DEF IsQuiet, Pulses, AtFirst
  <2>4. Norming(1, layTaken.token)'
    BY <1>4, <1>5, <1>9, <2>3 DEF Norming
  <2>5. AtFirst'
    BY <1>6, <1>7, <2>3, <2>4 DEF AtFirst
  <2> QED BY <1>7, <2>2, <2>3, <2>5 DEF LayerKept, LayerStage
<1>10. CASE norm[1].valid
  <2>0. PICK h : h = TRUE
    OBVIOUS
  <2>1. lay' = [q EXCEPT !.attnStart = h, !.state = "ATTN"]
    BY <1>8, <1>10, <2>0
  <2>2. LayTypes'
    BY <1>2, <1>7, <2>1 DEF IsQuiet, LayTypes, LayShape
  <2>3. /\ lay'.state = "ATTN" /\ lay'.attnStart = h /\ lay'.normStart = 0
        /\ lay'.rtrStart = FALSE /\ lay'.write = {} /\ lay'.ffnStart = FALSE
        /\ lay'.valid = FALSE
    BY <1>2, <2>1 DEF IsQuiet
  <2>4. Pulses'
    BY <2>3 DEF Pulses
  <2>5. Attending(layTaken.token)'
    BY <1>4, <1>5, <1>6, <1>10, <2>0, <2>3 DEF Attending
  <2>6. NormsStill'
    BY <1>5, <1>10 DEF NormsStill
  <2>7. AtAttention'
    BY <1>7, <2>3, <2>5, <2>6 DEF AtAttention, AtFirst
  <2> QED BY <1>7, <2>2, <2>4, <2>7 DEF LayerKept, LayerStage
<1> QED BY <1>5, <1>9, <1>10

LEMMA AttentionEdge ==
  ASSUME FfnTypes, RtrTypes, LayTypes, Pulses, AtAttention, NEW cycles \in Nat \ {0}, LayAttend,
         EdgeAround(cycles), layTaken' = layTaken
  PROVE  LayerKept /\ FfnTypes' /\ RtrTypes'
<1>1. PICK q : q = Quiet
  OBVIOUS
<1>2. IsQuiet(q)
  BY <1>1, QuietFields DEF LayTypes
<1>3. lay.normStart = 0 /\ lay.rtrStart = FALSE /\ lay.ffnStart = FALSE
  BY DEF Pulses, AtAttention
<1>4. PICK t : t = layTaken.token
  OBVIOUS
<1>5. \A m \in 1 .. 3 : Still(norm'[m]) /\ norm'[m].out = norm[m].out
  BY <1>3, NormsAtRest DEF AtAttention, NormsStill
<1>6. /\ attn.valid \in BOOLEAN
      /\ ~attn.valid => Inside(attn', t) \/ Through(attn', t)
      /\ attn.valid => Still(attn') /\ attn.out = t
  BY <1>4, AttnStep DEF AtAttention
<1>7. /\ FfnQuiet' /\ FfnTypes' /\ rtr' = rtr /\ RtrTypes'
      /\ norm' = [n \in 1 .. 3 |-> norm'[n]]
  BY <1>3, RestsAround DEF AtAttention
<1>8. lay' = IF attn.valid THEN [q EXCEPT !.normIn[2] = attn.out, !.normStart = 2,
                                          !.state = "R2"] ELSE q
  BY <1>1 DEF LayAttend, AtAttention
<1>9. CASE ~attn.valid
  <2>1. lay' = q
    BY <1>8, <1>9
  <2>2. LayTypes'
    BY <1>2, <1>7, <2>1 DEF IsQuiet, LayTypes, LayShape
  <2>3. Pulses' /\ lay'.state = "ATTN" /\ lay'.attnStart = FALSE
    BY <1>2, <2>1 DEF IsQuiet, Pulses, AtAttention
  <2>4. Attending(layTaken.token)'
    BY <1>4, <1>6, <1>9, <2>3 DEF Attending
  <2>5. AtAttention'
    BY <1>5, <1>7, <2>3, <2>4 DEF AtAttention, NormsStill
  <2> QED BY <1>7, <2>2, <2>3, <2>5 DEF LayerKept, LayerStage
<1>10. CASE attn.valid
  <2>1. lay' = [q EXCEPT !.normIn[2] = t, !.normStart = 2, !.state = "R2"]
    BY <1>6, <1>8, <1>10
  <2>2. PICK v : v = [lay.normIn EXCEPT ![2] = t]
    OBVIOUS
  <2>3. v = [n \in 1 .. 3 |-> v[n]] /\ v[2] = t
    <3>1. PICK w : w = lay.normIn
      OBVIOUS
    <3>2. w = [n \in 1 .. 3 |-> w[n]] /\ v = [w EXCEPT ![2] = t]
      BY <3>1, <2>2 DEF LayTypes
    <3>3. 1 \in 1 .. 3 /\ 2 \in 1 .. 3 /\ DOMAIN w = 1 .. 3
      BY <3>2
    <3> QED BY <3>2, <3>3
  <2>4. /\ LayShape' /\ lay'.normIn = v /\ lay'.normStart = 2 /\ lay'.state = "R2"
        /\ lay'.attnStart = FALSE /\ lay'.rtrStart = FALSE /\ lay'.write = {}
        /\ lay'.ffnStart = FALSE /\ lay'.valid = FALSE /\ lay'.expert = lay.expert
        /\ lay'.k = lay.k
    BY <1>2, <2>1, <2>2 DEF IsQuiet, LayShape
  <2>5. LayTypes'
    BY <1>7, <2>3, <2>4 DEF LayTypes
  <2>6. Pulses'
    BY <2>4 DEF Pulses
  <2>7. Norming(2, layTaken.token)'
    BY <1>4, <1>5, <2>3, <2>4 DEF Norming
  <2>8. AtSecond'
    BY <1>6, <1>7, <1>10, <2>4, <2>7 DEF AtSecond, AtAttention
  <2> QED BY <1>7, <2>5, <2>6, <2>8 DEF LayerKept, LayerStage
<1> QED BY <1>6, <1>9, <1>10

LEMMA SecondEdge ==
  ASSUME FfnTypes, RtrTypes, LayTypes, Pulses, AtSecond, NEW cycles \in Nat \ {0}, LayAttend,
         EdgeAround(cycles), layTaken' = layTaken
  PROVE  LayerKept /\ FfnTypes' /\ RtrTypes'
<1>1. PICK q : q = Quiet
  OBVIOUS
<1>2. IsQuiet(q)
  BY <1>1, QuietFields DEF LayTypes
<1>3. lay.attnStart = FALSE /\ lay.rtrStart = FALSE /\ lay.ffnStart = FALSE
  BY DEF Pulses, AtSecond
<1>4. PICK t : t = layTaken.token
  OBVIOUS
<1>5. /\ norm[2].valid \in BOOLEAN
      /\ ~norm[2].valid => Inside(norm'[2], t) \/ Through(norm'[2], t)
      /\ norm[2].valid => Still(norm'[2]) /\ norm'[2].out = t /\ norm[2].out = t
      /\ \A m \in 1 .. 3 : m # 2 => Still(norm'[m]) /\ norm'[m].out = norm[m].out
  BY <1>4, NormsStep DEF AtSecond
<1>6. Still(attn')
  BY <1>3, AttnStep DEF AtSecond
<1>7. /\ FfnQuiet' /\ FfnTypes' /\ rtr' = rtr /\ RtrTypes'
      /\ norm' = [n \in 1 .. 3 |-> norm'[n]]
  BY <1>3, RestsAround DEF AtSecond
<1>8. lay' = IF norm[2].valid THEN [q EXCEPT !.rtrStart = TRUE, !.state = "RTR"] ELSE q
  BY <1>1 DEF LayAttend, AtSecond
<1>9. CASE ~norm[2].valid
  <2>1. lay' = q
    BY <1>8, <1>9
  <2>2. LayTypes'
    BY <1>2, <1>7, <2>1 DEF IsQuiet, LayTypes, LayShape
  <2>3. Pulses' /\ lay'.state = "R2" /\ lay'.normStart = 0
    BY <1>2, <2>1 DEF IsQuiet, Pulses, AtSecond
  <2>4. Norming(2, layTaken.token)'
    BY <1>4, <1>5, <1>9, <2>3 DEF Norming
  <2>5. AtSecond'
    BY <1>6, <1>7, <2>3, <2>4 DEF AtSecond
  <2> QED BY <1>7, <2>2, <2>3, <2>5 DEF LayerKept, LayerStage
<1>10. CASE norm[2].valid
  <2>0. PICK h : h = TRUE
    OBVIOUS
  <2>1. lay' = [q EXCEPT !.rtrStart = h, !.state = "RTR"]
    BY <1>8, <1>10, <2>0
  <2>2. LayTypes'
    BY <1>2, <1>7, <2>1 DEF IsQuiet, LayTypes, LayShape
  <2>3. /\ lay'.state = "RTR" /\ lay'.rtrStart = h /\ lay'.normStart = 0
        /\ lay'.attnStart = FALSE /\ lay'.write = {} /\ lay'.ffnStart = FALSE
        /\ lay'.valid = FALSE
    BY <1>2, <2>1 DEF IsQuiet
  <2>4. Pulses'
    BY <2>3 DEF Pulses
  <2>5. NormsStill'
    BY <1>5, <1>10 DEF NormsStill
  <2>6. rtr'.state = "IDLE" /\ lay'.rtrStart = TRUE
    BY <1>7, <2>0, <2>3 DEF AtSecond
  <2>7. RouterAt'
    BY <2>6 DEF RouterAt
  <2>8. norm'[2].out = layTaken'.token
    BY <1>4, <1>5, <1>10
  <2>9. AtRouter'
    BY <1>6, <1>7, <2>3, <2>5, <2>6, <2>7, <2>8 DEF AtRouter
  <2> QED BY <1>7, <2>2, <2>4, <2>9 DEF LayerKept, LayerStage
<1> QED BY <1>5, <1>9, <1>10

LEMMA EngineRange == \A e \in 0 .. Experts - 1 : EngineOf(e) \in 0 .. SelLimit - 1
<1>1. SelLimit \in Nat \ {0}
  BY LayerAssumption
<1> QED BY <1>1 DEF EngineOf

LEMMA RoutingEdge ==
  ASSUME FfnTypes, RtrTypes, LayTypes, Pulses, AtRouter, NEW cycles \in Nat \ {0}, LayRoute,
         EdgeAround(cycles), layTaken' = layTaken
  PROVE  LayerKept /\ FfnTypes' /\ RtrTypes'
<1>0. HiddenBeats \in Nat \ {0} /\ TopK \in Nat \ {0}
  BY FfnAssumption, LayerAssumption
<1>1. PICK q : q = Quiet
  OBVIOUS
<1>2. IsQuiet(q)
  BY <1>1, QuietFields DEF LayTypes
<1>3. lay.normStart = 0 /\ lay.attnStart = FALSE /\ lay.ffnStart = FALSE
  BY DEF Pulses, AtRouter
<1>4. \A m \in 1 .. 3 : Still(norm'[m]) /\ norm'[m].out = norm[m].out
  BY <1>3, NormsAtRest DEF AtRouter, NormsStill
<1>5. Still(attn')
  BY <1>3, AttnStep DEF AtRouter
<1>6. FfnQuiet' /\ FfnTypes'
  BY <1>3, StaysQuiet DEF AtRouter
<1>7. norm' = [n \in 1 .. 3 |-> norm'[n]] /\ RouterEdge
  BY DEF EdgeAround
<1>8. /\ RtrTypes' /\ RouterAt'
      /\ rtr.state = "IDLE" /\ lay.rtrStart => rtr'.state # "IDLE"
      /\ rtr.state \notin {"IDLE", "OUTPUT"} => rtr'.state # "IDLE"
      /\ rtr.state = "OUTPUT" => rtr'.state = "IDLE" /\ rtr'.top = rtr.top
  BY <1>7, RouterStep DEF AtRouter, LayTypes
<1>9. NormsStill' /\ norm'[2].out = layTaken'.token
  BY <1>4 DEF AtRouter, NormsStill
<1>10. CASE rtr.state # "OUTPUT"
  <2>1. lay' = q
    BY <1>1, <1>10 DEF LayRoute
  <2>2. LayTypes'
    BY <1>2, <1>7, <2>1 DEF IsQuiet, LayTypes, LayShape
  <2>3. Pulses' /\ lay'.state = "RTR" /\ lay'.rtrStart = FALSE
    BY <1>2, <2>1 DEF IsQuiet, Pulses, AtRouter
  <2>4. rtr'.state # "IDLE"
    BY <1>8, <1>10 DEF AtRouter
  <2>5. AtRouter'
    BY <1>5, <1>6, <1>8, <1>9, <2>3, <2>4 DEF AtRouter
  <2> QED BY <1>6, <1>8, <2>2, <2>3, <2>5 DEF LayerKept, LayerStage
<1>11. CASE rtr.state = "OUTPUT"
  <2>1. PICK a, e, w : a = Activ(0) /\ e = EngineOf(rtr.top[0]) /\ w = MoeWeights
    OBVIOUS
  <2>2. lay' = [q EXCEPT !.weight = w, !.k = 0, !.acc = <<>>, !.expert = e, !.beat = 0,
                         !.write = {<<0, a>>}, !.state = "FFN_LD"]
    BY <1>1, <1>11, <2>1 DEF LayRoute
  <2>3. /\ LayShape' /\ lay'.state = "FFN_LD" /\ lay'.normIn = lay.normIn
        /\ lay'.normStart = 0 /\ lay'.attnStart = FALSE /\ lay'.rtrStart = FALSE
        /\ lay'.write = {<<0, a>>} /\ lay'.ffnStart = FALSE /\ lay'.valid = FALSE
        /\ lay'.expert = e /\ lay'.k = 0 /\ lay'.acc = <<>> /\ lay'.beat = 0
    BY <1>2, <2>2 DEF IsQuiet, LayShape
  <2>4. 0 \in 0 .. TopK - 1 /\ 0 \in 0 .. HiddenBeats - 1
    BY <1>0
  <2>5. e \in 0 .. SelLimit - 1
    BY <2>1, <2>4, EngineRange DEF RtrTypes
  <2>6. LayTypes'
    BY <1>7, <2>3, <2>4, <2>5 DEF LayTypes
  <2>7. Pulses'
    BY <2>3 DEF Pulses
  <2>8. PICK t : t = layTaken.token
    OBVIOUS
  <2>9. a = <<t, 0>>
    BY <2>1, <2>8 DEF Activ, AtRouter
  <2>10. Written'[0] = <<t, 0>>
    <3>1. \E w1 \in lay'.write : w1[1] = 0
      BY <2>3
    <3>2. (CHOOSE w1 \in lay'.write : TRUE)[2] = a
      <4>1. PICK w2 : w2 = CHOOSE w1 \in lay'.write : TRUE
        OBVIOUS
      <4>2. w2 \in lay'.write
        BY <3>1, <4>1
      <4>3. w2[2] = a
        BY <2>3, <4>2
      <4> QED BY <4>1, <4>3
    <3> QED BY <2>4, <2>9, <3>1, <3>2 DEF Written
  <2>11. \A b \in 0 .. lay'.beat : Written'[b] = Beats(layTaken'.token)[b]
    <3>1. \A b \in 0 .. lay'.beat : b = 0
      BY <2>3
    <3> QED BY <2>4, <2>8, <2>10, <3>1 DEF Beats
  <2>12. Routed'
    BY <1>8, <1>9, <1>11 DEF Routed, AtRouter, RouterAt
  <2>13. AtLoad'
    BY <1>5, <1>6, <1>8, <1>9, <1>11, <2>1, <2>3, <2>4, <2>11, <2>12 DEF AtLoad
  <2> QED BY <1>6, <1>8, <2>6, <2>7, <2>13 DEF LayerKept, LayerStage
<1> QED BY <1>10, <1>11

(* What the states after the router leave.                                 *)
LEMMA RoutedKept ==
  ASSUME FfnTypes, RtrTypes, LayTypes, Pulses, NEW cycles \in Nat \ {0}, EdgeAround(cycles),
         Routed, lay.rtrStart = FALSE, lay.attnStart = FALSE, Still(attn), NormsStill,
         lay.normStart = 0, layTaken' = layTaken
  PROVE  /\ rtr' = rtr /\ RtrTypes' /\ Routed' /\ Still(attn') /\ NormsStill'
         /\ norm'[2].out = norm[2].out /\ norm' = [n \in 1 .. 3 |-> norm'[n]]
<1>1. rtr' = rtr
  BY DEF EdgeAround, RouterEdge, Routed
<1>2. RtrTypes'
  BY <1>1 DEF RtrTypes, RtrShape
<1>3. \A m \in 1 .. 3 : Still(norm'[m]) /\ norm'[m].out = norm[m].out
  BY NormsAtRest DEF NormsStill
<1>4. Still(attn')
  BY AttnStep
<1>5. norm'[2].out = norm[2].out
  BY <1>3
<1>6. Routed'
  BY <1>1, <1>5 DEF Routed
<1>7. norm' = [n \in 1 .. 3 |-> norm'[n]]
  BY DEF EdgeAround
<1> QED BY <1>1, <1>2, <1>3, <1>4, <1>5, <1>6, <1>7 DEF NormsStill

LEMMA LoadEdge ==
  ASSUME FfnTypes, RtrTypes, LayTypes, Pulses, AtLoad, NEW cycles \in Nat \ {0}, LayLoad,
         EdgeAround(cycles), layTaken' = layTaken
  PROVE  LayerKept /\ FfnTypes' /\ RtrTypes'
<1>0. HiddenBeats \in Nat \ {0} /\ TopK \in Nat \ {0}
  BY FfnAssumption, LayerAssumption
<1>1. PICK q : q = Quiet
  OBVIOUS
<1>2. IsQuiet(q)
  BY <1>1, QuietFields DEF LayTypes
<1>3. /\ lay.normStart = 0 /\ lay.attnStart = FALSE /\ lay.rtrStart = FALSE
      /\ lay.ffnStart = FALSE
  BY DEF Pulses, AtLoad
<1>4. /\ rtr' = rtr /\ RtrTypes' /\ Routed' /\ Still(attn') /\ NormsStill'
      /\ norm'[2].out = norm[2].out /\ norm' = [n \in 1 .. 3 |-> norm'[n]]
  BY <1>3, RoutedKept DEF AtLoad
<1>5. FfnQuiet' /\ FfnTypes'
  BY <1>3, StaysQuiet DEF AtLoad
<1>6. PICK b, a, t, last : /\ b = lay.beat /\ a = Activ(lay.beat + 1) /\ t = layTaken.token
                           /\ last = (lay.beat + 1 >= HiddenBeats - 1)
  OBVIOUS
<1>7. b \in 0 .. HiddenBeats - 1 /\ a = <<t, b + 1>> /\ last \in BOOLEAN
  BY <1>6 DEF AtLoad, Routed, Activ
<1>8. lay' = [q EXCEPT !.write = {<<b + 1, a>>}, !.ffnStart = last,
                       !.beat = IF last THEN @ ELSE @ + 1,
                       !.state = IF last THEN "FFN" ELSE @]
  BY <1>1, <1>6 DEF LayLoad
<1>9. /\ LayShape' /\ lay'.state = (IF last THEN "FFN" ELSE "FFN_LD")
      /\ lay'.normIn = lay.normIn /\ lay'.normStart = 0 /\ lay'.attnStart = FALSE
      /\ lay'.rtrStart = FALSE /\ lay'.write = {<<b + 1, a>>} /\ lay'.ffnStart = last
      /\ lay'.valid = FALSE /\ lay'.expert = lay.expert /\ lay'.k = lay.k
      /\ lay'.acc = lay.acc /\ lay'.beat = (IF last THEN b ELSE b + 1)
      /\ lay'.weight = lay.weight
  BY <1>2, <1>6, <1>8 DEF IsQuiet, LayShape, AtLoad
<1>10. LayTypes'
  BY <1>4, <1>9 DEF LayTypes
<1>11. ASSUME NEW c \in 0 .. HiddenBeats - 1, c <= b + 1
       PROVE  Written'[c] = Beats(t)[c]
  <2>1. CASE c = b + 1
    <3>1. \E w \in lay'.write : w[1] = c
      BY <1>9, <2>1
    <3>2. (CHOOSE w \in lay'.write : TRUE)[2] = a
      <4>1. PICK w2 : w2 = CHOOSE w \in lay'.write : TRUE
        OBVIOUS
      <4>2. w2 \in lay'.write
        BY <3>1, <4>1
      <4>3. w2[2] = a
        BY <1>9, <4>2
      <4> QED BY <4>1, <4>3
    <3>3. Written'[c] = a
      BY <3>1, <3>2 DEF Written
    <3> QED BY <3>3, <2>1, <1>7 DEF Beats
  <2>2. CASE c # b + 1
    <3>1. ~ \E w \in lay'.write : w[1] = c
      BY <1>9, <2>2
    <3>2. Written'[c] = ffnActiv'[c]
      BY <3>1 DEF Written
    <3>3. ffnActiv'[c] = Written[c]
      BY WriteStep
    <3>4. c \in 0 .. b
      BY <1>7, <1>11, <2>2
    <3>5. Written[c] = Beats(t)[c]
      BY <3>4, <1>6 DEF AtLoad
    <3> QED BY <3>2, <3>3, <3>5
  <2> QED BY <2>1, <2>2
<1>12. CASE last
  <2>1. lay'.state = "FFN" /\ lay'.ffnStart = TRUE
    BY <1>9, <1>12
  <2>2. Pulses'
    BY <1>9, <2>1 DEF Pulses
  <2>3. \A c \in 0 .. HiddenBeats - 1 : c <= b + 1
    <3>1. b + 1 >= HiddenBeats - 1
      BY <1>6, <1>12
    <3> QED BY <3>1, <1>0, <1>7
  <2>4. Written' = Beats(t)
    BY <1>11, <2>3 DEF Written, Beats
  <2>5. lay'.acc = Gathered(lay.k)' /\ lay'.expert = EngineOf(rtr'.top[lay'.k])
    <3>1. lay.k = 0 /\ lay.acc = <<>> /\ lay.expert = EngineOf(rtr.top[0])
      BY DEF AtLoad
    <3>2. Gathered(0)' = <<>>
      BY DEF Gathered
    <3> QED BY <3>1, <3>2, <1>4, <1>9
  <2>6. AtExpert'
    BY <1>4, <1>5, <1>6, <1>9, <2>1, <2>4, <2>5 DEF AtExpert
  <2> QED BY <1>4, <1>5, <1>10, <2>2, <2>6 DEF LayerKept, LayerStage
<1>13. CASE ~last
  <2>1. lay'.state = "FFN_LD" /\ lay'.ffnStart = FALSE /\ lay'.beat = b + 1
    BY <1>9, <1>13
  <2>2. Pulses'
    BY <1>9, <2>1 DEF Pulses
  <2>3. b + 1 \in 0 .. HiddenBeats - 1 /\ b + 1 < HiddenBeats - 1
    <3>1. ~(b + 1 >= HiddenBeats - 1)
      BY <1>6, <1>13
    <3> QED BY <3>1, <1>0, <1>7
  <2>4. \A c \in 0 .. b + 1 : Written'[c] = Beats(t)[c]
    BY <1>0, <1>11, <2>3
  <2>5. AtLoad'
    BY <1>4, <1>5, <1>6, <1>9, <2>1, <2>3, <2>4 DEF AtLoad
  <2> QED BY <1>4, <1>5, <1>10, <2>2, <2>5 DEF LayerKept, LayerStage
<1> QED BY <1>7, <1>12, <1>13

-----------------------------------------------------------------------------
LEMMA ExpertEdge ==
  ASSUME PipeDrains, FfnTypes, RtrTypes, LayTypes, Pulses, AtExpert, NEW cycles \in Nat \ {0},
         LayExpert, EdgeAround(cycles), layTaken' = layTaken
  PROVE  LayerKept /\ FfnTypes' /\ RtrTypes'
<1>1. PICK q : q = Quiet
  OBVIOUS
<1>2. IsQuiet(q)
  BY <1>1, QuietFields DEF LayTypes
<1>3. lay.normStart = 0 /\ lay.attnStart = FALSE /\ lay.rtrStart = FALSE
  BY DEF Pulses, AtExpert
<1>4. /\ rtr' = rtr /\ RtrTypes' /\ Routed' /\ Still(attn') /\ NormsStill'
      /\ norm' = [n \in 1 .. 3 |-> norm'[n]]
  BY <1>3, RoutedKept DEF AtExpert
<1>5. PICK av, x : av = Beats(layTaken.token) /\ x = lay.expert
  OBVIOUS
<1>6. lay' = IF ffn.done THEN [q EXCEPT !.state = "MOE_ACCUM"] ELSE q
  BY <1>1 DEF LayExpert
<1>7. /\ lay.acc = Gathered(lay.k) /\ lay.expert = EngineOf(rtr.top[lay.k])
      /\ lay'.weight = lay.weight => Gathered(lay.k)' = Gathered(lay.k)
  <2>1. lay.acc = Gathered(lay.k) /\ lay.expert = EngineOf(rtr.top[lay.k])
    BY DEF AtExpert
  <2>2. lay'.weight = lay.weight /\ lay'.k = lay.k => Gathered(lay.k)' = Gathered(lay.k)
    BY <1>4 DEF Gathered
  <2>3. lay'.k = lay.k
    BY <1>2, <1>6 DEF IsQuiet
  <2> QED BY <2>1, <2>2, <2>3
<1>8. /\ LayTypes' /\ lay'.weight = lay.weight /\ lay'.k = lay.k /\ lay'.expert = x
      /\ lay'.acc = lay.acc /\ lay'.ffnStart = FALSE /\ lay'.write = {}
      /\ lay'.normStart = 0 /\ lay'.attnStart = FALSE /\ lay'.rtrStart = FALSE
      /\ lay'.valid = FALSE
  BY <1>2, <1>4, <1>5, <1>6 DEF IsQuiet, LayTypes, LayShape
<1>9. Pulses'
  BY <1>8 DEF Pulses
<1>10. lay'.acc = Gathered(lay.k)' /\ lay'.expert = EngineOf(rtr'.top[lay'.k])
  BY <1>4, <1>5, <1>7, <1>8
<1>11. CASE lay.ffnStart = TRUE
  <2>1. FfnQuiet /\ Written = av
    BY <1>5, <1>11 DEF AtExpert
  <2>2. Starting' /\ FfnTypes'
    BY <1>11, <2>1, GetsStarted
  <2>3. ffnActiv' = av
    BY <2>1, WriteStep
  <2>4. lay'.state = "FFN"
    <3>1. ffn.done = FALSE
      BY <2>1 DEF FfnQuiet, NoPulse
    <3> QED BY <3>1, <1>2, <1>6 DEF IsQuiet, AtExpert
  <2>5. FfnAtWork(x, av)'
    BY <2>2 DEF FfnAtWork
  <2>6. AtExpert'
    BY <1>4, <1>5, <1>8, <1>10, <2>3, <2>4, <2>5 DEF AtExpert
  <2> QED BY <1>4, <1>8, <1>9, <2>2, <2>6 DEF LayerKept, LayerStage
<1>12. CASE lay.ffnStart # TRUE
  <2>1. /\ FfnAtWork(x, av) /\ ffnActiv = av /\ lay.write = {} /\ lay.ffnStart = FALSE
    BY <1>5, <1>12 DEF AtExpert
  <2>2. FfnStep(FALSE, x, {})
    BY <1>5, <2>1 DEF EdgeAround
  <2>3. /\ FfnTypes' /\ ffnActiv' = av
        /\ ffn.done # TRUE => FfnAtWork(x, av)'
        /\ ffn.done = TRUE => FfnQuiet' /\ Rows(x, av, HiddenBeats)'
    BY <2>1, <2>2, FfnWorks
  <2>4. ffn.done \in BOOLEAN
    BY <2>1 DEF FfnAtWork, NoPulse, Starting, Projecting, Projected, Multiplying, Loading,
                Loaded, DownStarting, DownRunning, DownFinished, FfnThrough
  <2>5. CASE ffn.done = FALSE
    <3>1. lay'.state = "FFN"
      BY <1>2, <1>6, <2>5 DEF IsQuiet, AtExpert
    <3>2. FfnAtWork(x, av)'
      BY <2>3, <2>5
    <3>3. AtExpert'
      BY <1>4, <1>5, <1>8, <1>10, <2>3, <3>1, <3>2 DEF AtExpert
    <3> QED BY <1>4, <1>8, <1>9, <2>3, <3>3 DEF LayerKept, LayerStage
  <2>6. CASE ffn.done = TRUE
    <3>1. lay'.state = "MOE_ACCUM"
      BY <1>2, <1>6, <2>6 DEF IsQuiet
    <3>2. FfnQuiet' /\ Rows(x, av, HiddenBeats)'
      BY <2>3, <2>6
    <3>3. AtAccumulate'
      BY <1>4, <1>5, <1>8, <1>10, <2>3, <3>1, <3>2 DEF AtAccumulate
    <3> QED BY <1>4, <1>8, <1>9, <2>3, <3>3 DEF LayerKept, LayerStage
  <2> QED BY <2>4, <2>5, <2>6
<1> QED BY <1>11, <1>12

(* The engine's rows under the weight of the expert join those before.     *)
LEMMA GatherNext ==
  ASSUME FfnTypes, RtrTypes, LayTypes, AtAccumulate
  PROVE  Append(lay.acc, <<lay.weight[lay.k], ffo>>) = Gathered(lay.k + 1)
<1>0. HiddenBeats \in Nat \ {0} /\ lay.k \in Nat
  BY FfnAssumption, LayerAssumption DEF LayTypes
<1>1. PICK k, q, rows, w, x, av : /\ k = lay.k /\ q = lay.acc /\ rows = ffo
                                  /\ w = lay.weight[lay.k] /\ x = lay.expert
                                  /\ av = Beats(layTaken.token)
  OBVIOUS
<1>2. q = Gathered(k) /\ x = EngineOf(rtr.top[k]) /\ w = lay.weight[k] /\ k \in Nat
  BY <1>0, <1>1 DEF AtAccumulate
<1>3. rows = [r \in 0 .. HiddenBeats - 1 |-> ExpertRow(x, r, av)]
  <2>1. rows = [r \in 0 .. HiddenBeats - 1 |-> rows[r]]
    BY <1>1 DEF FfnTypes
  <2>2. \A r \in 0 .. HiddenBeats - 1 : rows[r] = ExpertRow(x, r, av)
    BY <1>0, <1>1 DEF AtAccumulate, Rows
  <2> QED BY <2>1, <2>2
<1>4. PICK t : t = <<w, rows>>
  OBVIOUS
<1>5. q = [i \in 1 .. k |-> q[i]]
  BY <1>2 DEF Gathered
<1>6. Append(q, t) = q \o <<t>>
  <2>1. PICK S : S = {q[b] : b \in 1 .. k} \cup {t}
    OBVIOUS
  <2>2. q \in Seq(S) /\ t \in S
    BY <1>2, <1>5, <2>1
  <2> QED BY <2>2
<1>7. q \o <<t>> = [i \in 1 .. k + 1 |-> IF i = k + 1 THEN t ELSE q[i]]
  BY <1>2, <1>5, PushSum
<1>8. ASSUME NEW i \in 1 .. k + 1
      PROVE  (IF i = k + 1 THEN t ELSE q[i])
               = <<lay.weight[i - 1],
                   [r \in 0 .. HiddenBeats - 1 |->
                      ExpertRow(EngineOf(rtr.top[i - 1]), r, av)]>>
  <2>1. CASE i = k + 1
    <3>1. i - 1 = k
      BY <1>2, <2>1
    <3> QED BY <3>1, <2>1, <1>2, <1>3, <1>4
  <2>2. CASE i # k + 1
    <3>1. i \in 1 .. k
      BY <1>2, <2>2
    <3> QED BY <3>1, <2>2, <1>1, <1>2 DEF Gathered
  <2> QED BY <2>1, <2>2
<1>9. Gathered(k + 1) = [i \in 1 .. k + 1 |-> IF i = k + 1 THEN t ELSE q[i]]
  BY <1>1, <1>8 DEF Gathered
<1> QED BY <1>1, <1>4, <1>6, <1>7, <1>9

LEMMA AccumulateEdge ==
  ASSUME FfnTypes, RtrTypes, LayTypes, Pulses, AtAccumulate, NEW cycles \in Nat \ {0},
         LayAccumulate, EdgeAround(cycles), layTaken' = layTaken
  PROVE  LayerKept /\ FfnTypes' /\ RtrTypes'
<1>0. TopK \in Nat \ {0} /\ lay.k \in 0 .. TopK - 1
  BY LayerAssumption DEF LayTypes
<1>1. PICK q : q = Quiet
  OBVIOUS
<1>2. IsQuiet(q)
  BY <1>1, QuietFields DEF LayTypes
<1>3. /\ lay.normStart = 0 /\ lay.attnStart = FALSE /\ lay.rtrStart = FALSE
      /\ lay.write = {} /\ lay.ffnStart = FALSE
  BY DEF Pulses, AtAccumulate
<1>4. /\ rtr' = rtr /\ RtrTypes' /\ Routed' /\ Still(attn') /\ NormsStill'
      /\ norm' = [n \in 1 .. 3 |-> norm'[n]]
  BY <1>3, RoutedKept DEF AtAccumulate
<1>5. FfnQuiet' /\ FfnTypes'
  BY <1>3, StaysQuiet DEF AtAccumulate
<1>6. ffnActiv' = Beats(layTaken.token)
  BY <1>3, WriteStep DEF AtAccumulate
<1>7. PICK sum, k, e : /\ sum = Append(lay.acc, <<lay.weight[lay.k], ffo>>) /\ k = lay.k
                       /\ e = EngineOf(rtr.top[lay.k + 1])
  OBVIOUS
<1>8. sum = Gathered(k + 1)
  BY <1>7, GatherNext
<1>9. lay' = IF k < TopK - 1
             THEN [q EXCEPT !.acc = sum, !.k = @ + 1, !.expert = e, !.ffnStart = TRUE,
                            !.state = "FFN"]
             ELSE [q EXCEPT !.normIn[3] = sum, !.normStart = 3, !.state = "R3"]
  BY <1>1, <1>7 DEF LayAccumulate
<1>10. CASE k < TopK - 1
  <2>0. PICK h : h = TRUE
    OBVIOUS
  <2>1. lay' = [q EXCEPT !.acc = sum, !.k = k + 1, !.expert = e, !.ffnStart = h,
                         !.state = "FFN"]
    BY <1>2, <1>7, <1>9, <1>10, <2>0 DEF IsQuiet
  <2>2. /\ LayShape' /\ lay'.state = "FFN" /\ lay'.normIn = lay.normIn /\ lay'.normStart = 0
        /\ lay'.attnStart = FALSE /\ lay'.rtrStart = FALSE /\ lay'.write = {}
        /\ lay'.ffnStart = h /\ lay'.valid = FALSE /\ lay'.expert = e /\ lay'.k = k + 1
        /\ lay'.acc = sum /\ lay'.weight = lay.weight
    BY <1>2, <2>1 DEF IsQuiet, LayShape
  <2>3. k + 1 \in 0 .. TopK - 1 /\ e = EngineOf(rtr.top[k + 1])
    BY <1>0, <1>7, <1>10
  <2>4. e \in 0 .. SelLimit - 1
    BY <2>3, EngineRange DEF RtrTypes
  <2>5. LayTypes'
    BY <1>4, <2>2, <2>3, <2>4 DEF LayTypes
  <2>6. Pulses'
    BY <2>2 DEF Pulses
  <2>7. Gathered(lay.k)' = Gathered(k + 1)
    BY <1>4, <2>2 DEF Gathered
  <2>8. Written' = Beats(layTaken'.token)
    BY <1>6, <2>2 DEF Written, Beats
  <2>9. AtExpert'
    BY <1>4, <1>5, <1>8, <2>0, <2>2, <2>3, <2>7, <2>8 DEF AtExpert
  <2> QED BY <1>4, <1>5, <2>5, <2>6, <2>9 DEF LayerKept, LayerStage
<1>11. CASE ~(k < TopK - 1)
  <2>1. lay' = [q EXCEPT !.normIn[3] = sum, !.normStart = 3, !.state = "R3"]
    BY <1>9, <1>11
  <2>2. PICK v : v = [lay.normIn EXCEPT ![3] = sum]
    OBVIOUS
  <2>3. v = [n \in 1 .. 3 |-> v[n]] /\ v[3] = sum
    <3>1. PICK w : w = lay.normIn
      OBVIOUS
    <3>2. w = [n \in 1 .. 3 |-> w[n]] /\ v = [w EXCEPT ![3] = sum]
      BY <3>1, <2>2 DEF LayTypes
    <3>3. 1 \in 1 .. 3 /\ 3 \in 1 .. 3 /\ DOMAIN w = 1 .. 3
      BY <3>2
    <3> QED BY <3>2, <3>3
  <2>4. /\ LayShape' /\ lay'.normIn = v /\ lay'.normStart = 3 /\ lay'.state = "R3"
        /\ lay'.attnStart = FALSE /\ lay'.rtrStart = FALSE /\ lay'.write = {}
        /\ lay'.ffnStart = FALSE /\ lay'.valid = FALSE /\ lay'.expert = lay.expert
        /\ lay'.k = lay.k /\ lay'.weight = lay.weight
    BY <1>2, <2>1, <2>2 DEF IsQuiet, LayShape
  <2>5. LayTypes'
    BY <1>4, <2>3, <2>4 DEF LayTypes
  <2>6. Pulses'
    BY <2>4 DEF Pulses
  <2>7. k + 1 = TopK
    BY <1>0, <1>7, <1>11
  <2>8. sum = Gathered(TopK)'
    <3>1. Gathered(TopK)' = Gathered(TopK)
      BY <1>4, <2>4 DEF Gathered
    <3> QED BY <3>1, <2>7, <1>8
  <2>9. Norming(3, Gathered(TopK))'
    BY <1>4, <2>3, <2>4, <2>8 DEF Norming, NormsStill
  <2>10. AtLast'
    BY <1>4, <1>5, <2>4, <2>9 DEF AtLast
  <2> QED BY <1>4, <1>5, <2>5, <2>6, <2>10 DEF LayerKept, LayerStage
<1> QED BY <1>10, <1>11

-----------------------------------------------------------------------------
LEMMA LastEdge ==
  ASSUME FfnTypes, RtrTypes, LayTypes, Pulses, AtLast, NEW cycles \in Nat \ {0}, LayOutput,
         EdgeAround(cycles), layTaken' = layTaken
  PROVE  LayerKept /\ FfnTypes' /\ RtrTypes'
<1>1. PICK q : q = Quiet
  OBVIOUS
<1>2. IsQuiet(q)
  BY <1>1, QuietFields DEF LayTypes
<1>3. lay.attnStart = FALSE /\ lay.rtrStart = FALSE /\ lay.ffnStart = FALSE
  BY DEF Pulses, AtLast
<1>4. PICK sum : sum = Gathered(TopK)
  OBVIOUS
<1>5. /\ norm[3].valid \in BOOLEAN
      /\ ~norm[3].valid => Inside(norm'[3], sum) \/ Through(norm'[3], sum)
      /\ norm[3].valid => Still(norm'[3]) /\ norm'[3].out = sum /\ norm[3].out = sum
      /\ \A m \in 1 .. 3 : m # 3 => Still(norm'[m]) /\ norm'[m].out = norm[m].out
  BY <1>4, NormsStep DEF AtLast
<1>6. Still(attn')
  BY <1>3, AttnStep DEF AtLast
<1>7. /\ FfnQuiet' /\ FfnTypes' /\ rtr' = rtr /\ RtrTypes'
      /\ norm' = [n \in 1 .. 3 |-> norm'[n]]
  BY <1>3, RestsAround DEF AtLast, Routed
<1>8. Routed'
  BY <1>5, <1>7 DEF AtLast, Routed
<1>9. PICK y : y = norm[3].out
  OBVIOUS
<1>10. lay' = IF norm[3].valid THEN [q EXCEPT !.y = y, !.valid = TRUE, !.state = "OUT"] ELSE q
  BY <1>1, <1>9 DEF LayOutput, AtLast
<1>11. lay'.weight = lay.weight => Gathered(TopK)' = sum
  BY <1>4, <1>7 DEF Gathered
<1>12. CASE ~norm[3].valid
  <2>1. lay' = q
    BY <1>10, <1>12
  <2>2. LayTypes'
    BY <1>2, <1>7, <2>1 DEF IsQuiet, LayTypes, LayShape
  <2>3. Pulses' /\ lay'.state = "R3" /\ lay'.normStart = 0 /\ lay'.weight = lay.weight
    BY <1>2, <2>1 DEF IsQuiet, Pulses, AtLast
  <2>4. Norming(3, Gathered(TopK))'
    BY <1>5, <1>11, <1>12, <2>3 DEF Norming
  <2>5. AtLast'
    BY <1>6, <1>7, <1>8, <2>3, <2>4 DEF AtLast
  <2> QED BY <1>7, <2>2, <2>3, <2>5 DEF LayerKept, LayerStage
<1>13. CASE norm[3].valid
  <2>0. PICK h : h = TRUE
    OBVIOUS
  <2>1. lay' = [q EXCEPT !.y = y, !.valid = h, !.state = "OUT"]
    BY <1>10, <1>13, <2>0
  <2>2. LayTypes'
    BY <1>2, <1>7, <2>1 DEF IsQuiet, LayTypes, LayShape
  <2>3. /\ lay'.state = "OUT" /\ lay'.valid = h /\ lay'.y = y /\ lay'.normStart = 0
        /\ lay'.attnStart = FALSE /\ lay'.rtrStart = FALSE /\ lay'.write = {}
        /\ lay'.ffnStart = FALSE /\ lay'.weight = lay.weight
    BY <1>2, <2>1 DEF IsQuiet
  <2>4. Pulses'
    BY <2>3 DEF Pulses
  <2>5. NormsStill'
    BY <1>5, <1>13 DEF NormsStill
  <2>6. lay'.y = Gathered(TopK)'
    BY <1>5, <1>9, <1>11, <1>13, <2>3
  <2>7. AtOutput'
    BY <1>6, <1>7, <1>8, <2>0, <2>3, <2>5, <2>6 DEF AtOutput
  <2> QED BY <1>7, <2>2, <2>4, <2>7 DEF LayerKept, LayerStage
<1> QED BY <1>5, <1>12, <1>13

LEMMA OutputEdge ==
  ASSUME FfnTypes, RtrTypes, LayTypes, Pulses, AtOutput, NEW cycles \in Nat \ {0}, LayOutput,
         EdgeAround(cycles), layTaken' = layTaken
  PROVE  LayerKept /\ FfnTypes' /\ RtrTypes'
<1>1. PICK q : q = Quiet
  OBVIOUS
<1>2. IsQuiet(q)
  BY <1>1, QuietFields DEF LayTypes
<1>3. /\ lay.normStart = 0 /\ lay.attnStart = FALSE /\ lay.rtrStart = FALSE
      /\ lay.ffnStart = FALSE
  BY DEF Pulses, AtOutput
<1>4. /\ rtr' = rtr /\ RtrTypes' /\ Still(attn') /\ NormsStill'
      /\ norm' = [n \in 1 .. 3 |-> norm'[n]]
  BY <1>3, RoutedKept DEF AtOutput
<1>5. FfnQuiet' /\ FfnTypes'
  BY <1>3, StaysQuiet DEF AtOutput
<1>6. lay' = [q EXCEPT !.state = "IDLE"]
  BY <1>1 DEF LayOutput, AtOutput
<1>7. LayTypes'
  BY <1>2, <1>4, <1>6 DEF IsQuiet, LayTypes, LayShape
<1>8. Pulses' /\ lay'.state = "IDLE"
  BY <1>2, <1>6 DEF IsQuiet, Pulses
<1>9. AtIdle'
  BY <1>4, <1>5, <1>8 DEF AtIdle, AtOutput, Routed
<1> QED BY <1>4, <1>5, <1>7, <1>8, <1>9 DEF LayerKept, LayerStage

-----------------------------------------------------------------------------
LEMMA LayerReset == LayInit => LayerInv
<1> SUFFICES ASSUME LayInit PROVE LayerInv
  OBVIOUS
<1>0. /\ TopK \in Nat \ {0} /\ Experts \in Nat \ {0} /\ 0 \in 0 .. Experts - 1
      /\ 0 \in 0 .. TopK - 1 /\ 0 \in 0 .. SelLimit - 1
  BY LayerAssumption
<1>1. Resting(NewEngine)
  BY DEF NewEngine, Resting, Silent, EngineShape, Drained
<1>2. FfnTypes /\ FfnQuiet
  BY <1>1 DEF LayInit, FfnInit, FfnTypes, FfnShape, FfnQuiet, NoPulse
<1>3. RtrTypes /\ rtr.state = "IDLE"
  BY <1>0 DEF LayInit, RtrTypes, RtrShape
<1>4. NormsStill /\ Still(attn)
  BY DEF LayInit, NormsStill, Still, BlockShape, NewBlock
<1>5. LayShape /\ Pulses /\ lay.state = "IDLE" /\ lay.expert = 0 /\ lay.k = 0
  BY DEF LayInit, LayShape, Pulses
<1>6. lay.normIn = [n \in 1 .. 3 |-> lay.normIn[n]]
  BY DEF LayInit
<1>7. norm = [n \in 1 .. 3 |-> norm[n]] /\ layTaken.scores \in [0 .. Experts - 1 -> Int]
  BY DEF LayInit
<1>8. LayTypes
  BY <1>0, <1>5, <1>6, <1>7 DEF LayTypes
<1>9. AtIdle
  BY <1>2, <1>3, <1>4, <1>5 DEF AtIdle
<1> QED BY <1>2, <1>3, <1>5, <1>8, <1>9 DEF LayerInv, LayerStage

(* An edge in which no token is taken, whatever the layer is at.           *)
LEMMA BusyEdge ==
  ASSUME PipeDrains, LayerInv, lay.state # "IDLE", NEW cycles \in Nat \ {0},
         NEW offer, NEW scores, LayEdge(offer, scores, cycles)
  PROVE  LayerInv'
<1>1. EdgeAround(cycles)
  BY DEF LayEdge, EdgeAround, FfnStep
<1>2. layTaken' = layTaken
  BY DEF LayEdge
<1>3. FfnTypes /\ RtrTypes /\ LayTypes /\ Pulses
  BY DEF LayerInv
<1>4. LayerKept /\ FfnTypes' /\ RtrTypes'
  <2>1. CASE AtFirst
    <3>1. LayAttend
      BY <2>1 DEF LayEdge, AtFirst, LayIdle, LayRoute, LayLoad, LayExpert, LayAccumulate,
                  LayOutput
    <3> QED BY <1>1, <1>2, <1>3, <2>1, <3>1, FirstEdge
  <2>2. CASE AtAttention
    <3>1. LayAttend
      BY <2>2 DEF LayEdge, AtAttention, LayIdle, LayRoute, LayLoad, LayExpert, LayAccumulate,
                  LayOutput
    <3> QED BY <1>1, <1>2, <1>3, <2>2, <3>1, AttentionEdge
  <2>3. CASE AtSecond
    <3>1. LayAttend
      BY <2>3 DEF LayEdge, AtSecond, LayIdle, LayRoute, LayLoad, LayExpert, LayAccumulate,
                  LayOutput
    <3> QED BY <1>1, <1>2, <1>3, <2>3, <3>1, SecondEdge
  <2>4. CASE AtRouter
    <3>1. LayRoute
      BY <2>4 DEF LayEdge, AtRouter, LayIdle, LayAttend, LayLoad, LayExpert, LayAccumulate,
                  LayOutput
    <3> QED BY <1>1, <1>2, <1>3, <2>4, <3>1, RoutingEdge
  <2>5. CASE AtLoad
    <3>1. LayLoad
      BY <2>5 DEF LayEdge, AtLoad, LayIdle, LayAttend, LayRoute, LayExpert, LayAccumulate,
                  LayOutput
    <3> QED BY <1>1, <1>2, <1>3, <2>5, <3>1, LoadEdge
  <2>6. CASE AtExpert
    <3>1. LayExpert
      BY <2>6 DEF LayEdge, AtExpert, LayIdle, LayAttend, LayRoute, LayLoad, LayAccumulate,
                  LayOutput
    <3> QED BY <1>1, <1>2, <1>3, <2>6, <3>1, ExpertEdge
  <2>7. CASE AtAccumulate
    <3>1. LayAccumulate
      BY <2>7 DEF LayEdge, AtAccumulate, LayIdle, LayAttend, LayRoute, LayLoad, LayExpert,
                  LayOutput
    <3> QED BY <1>1, <1>2, <1>3, <2>7, <3>1, AccumulateEdge
  <2>8. CASE AtLast
    <3>1. LayOutput
      BY <2>8 DEF LayEdge, AtLast, LayIdle, LayAttend, LayRoute, LayLoad, LayExpert,
                  LayAccumulate
    <3> QED BY <1>1, <1>2, <1>3, <2>8, <3>1, LastEdge
  <2>9. CASE AtOutput
    <3>1. LayOutput
      BY <2>9 DEF LayEdge, AtOutput, LayIdle, LayAttend, LayRoute, LayLoad, LayExpert,
                  LayAccumulate
    <3> QED BY <1>1, <1>2, <1>3, <2>9, <3>1, OutputEdge
  <2>10. ~AtIdle
    BY DEF AtIdle
  <2> QED BY <2>1, <2>2, <2>3, <2>4, <2>5, <2>6, <2>7, <2>8, <2>9, <2>10 DEF LayerInv, LayerStage
<1> QED BY <1>4 DEF LayerKept, LayerInv

LEMMA LayerKeepsInv == PipeDrains /\ LayerInv /\ [LayNext]_layVars => LayerInv'
<1> SUFFICES ASSUME PipeDrains, LayerInv, [LayNext]_layVars PROVE LayerInv'
  OBVIOUS
<1>1. FfnTypes /\ RtrTypes /\ LayTypes /\ Pulses
  BY DEF LayerInv
<1>2. ASSUME lay.state = "IDLE",
             NEW offer \in {{}} \cup {{t} : t \in LayTokens}, NEW scores \in ScoreTables,
             LayEdge(offer, scores, 1)
      PROVE  LayerInv'
  <2>1. EdgeAround(1)
    BY <1>2 DEF LayEdge, EdgeAround, FfnStep
  <2>2. layTaken' = IF offer # {}
                    THEN [token |-> CHOOSE t \in offer : TRUE, scores |-> scores] ELSE layTaken
    BY <1>2 DEF LayEdge
  <2>3. LayIdle(offer)
    BY <1>2 DEF LayEdge, LayAttend, LayRoute, LayLoad, LayExpert, LayAccumulate, LayOutput
  <2>4. AtIdle
    BY <1>2 DEF LayerInv, LayerStage, AtFirst, AtAttention, AtSecond, AtRouter, AtLoad,
                AtExpert, AtAccumulate, AtLast, AtOutput
  <2>5. 1 \in Nat \ {0}
    OBVIOUS
  <2>6. LayerKept /\ FfnTypes' /\ RtrTypes'
    BY <1>1, <1>2, <2>1, <2>2, <2>3, <2>4, <2>5, IdleEdge
  <2> QED BY <2>6 DEF LayerKept, LayerInv
<1>3. ASSUME lay.state # "IDLE", NEW c \in AttnCycles, LayEdge({}, layTaken.scores, c)
      PROVE  LayerInv'
  <2>1. c \in Nat \ {0}
    BY LayerAssumption
  <2>2. PICK s : s = layTaken.scores
    OBVIOUS
  <2>3. LayEdge({}, s, c)
    BY <1>3, <2>2
  <2> QED BY <1>3, <2>1, <2>3, BusyEdge
<1>4. CASE UNCHANGED layVars
  <2>1. FfnTypes'
    BY <1>1, <1>4 DEF layVars, ffnVars, FfnTypes, FfnShape
  <2>2. RtrTypes' /\ LayTypes' /\ Pulses'
    BY <1>1, <1>4 DEF layVars, RtrTypes, RtrShape, LayTypes, LayShape, Pulses
  <2>3. LayerStage' = LayerStage
    BY <1>4 DEF layVars, ffnVars, LayerStage, AtIdle, AtFirst, AtAttention, AtSecond, AtRouter,
       AtLoad, AtExpert, AtAccumulate, AtLast, AtOutput, NormsStill, Norming, Attending, RouterAt,
       Routed, Gathered, Written, Rows, FfnQuiet, NoPulse, FfnAtWork, Starting, Projecting,
       Projected, Multiplying, Loading, Loaded, DownStarting, DownRunning, DownFinished,
       FfnThrough, Halves
  <2> QED BY <2>1, <2>2, <2>3 DEF LayerInv
<1> QED BY <1>2, <1>3, <1>4 DEF LayNext

-----------------------------------------------------------------------------
(* What the invariant says of the layer.                                   *)
Arrays == {"IDLE", "RUN", "DRAIN", "OUTPUT", "DONE"}

LEMMA PhasesOfArray ==
  ASSUME NEW e
  PROVE  /\ Resting(e) \/ Finished(e) => e.array \in Arrays
         /\ \A x, av, beats, r : AtRow(e, x, av, beats, r) => e.array \in Arrays
BY DEF Arrays, Resting, Finished, AtRow, Arming, Feeding, Draining, Giving, Told

LEMMA ArraysInRange == LayerInv => gate.array \in Arrays /\ down.array \in Arrays
<1> SUFFICES ASSUME LayerInv PROVE gate.array \in Arrays /\ down.array \in Arrays
  OBVIOUS
<1>1. CASE FfnQuiet
  BY <1>1, PhasesOfArray DEF FfnQuiet
<1>2. ASSUME NEW x, NEW av, FfnAtWork(x, av)
      PROVE  gate.array \in Arrays /\ down.array \in Arrays
  <2>1. CASE Starting
    BY <2>1, PhasesOfArray DEF Starting
  <2>2. CASE Projecting(x, av)
    BY <2>2, PhasesOfArray DEF Projecting
  <2>3. CASE Projected(x, av)
    BY <2>3, PhasesOfArray DEF Projected
  <2>4. CASE Multiplying(x, av) \/ Loading(x, av) \/ Loaded(x, av) \/ DownStarting(x, av)
    BY <2>4, PhasesOfArray DEF Multiplying, Loading, Loaded, DownStarting
  <2>5. CASE DownRunning(x, av)
    BY <2>5, PhasesOfArray DEF DownRunning
  <2>6. CASE DownFinished(x, av) \/ FfnThrough(x, av)
    BY <2>6, PhasesOfArray DEF DownFinished, FfnThrough
  <2> QED BY <1>2, <2>1, <2>2, <2>3, <2>4, <2>5, <2>6 DEF FfnAtWork
<1> QED BY <1>1, <1>2 DEF LayerInv, LayerStage, AtIdle, AtFirst, AtAttention, AtSecond, AtRouter,
                          AtLoad, AtExpert, AtAccumulate, AtLast, AtOutput

LEMMA InvTypes == LayerInv => LayTypeOK
<1> SUFFICES ASSUME LayerInv PROVE LayTypeOK
  OBVIOUS
<1>1. lay.state \in {"IDLE", "R1", "ATTN", "R2", "RTR", "FFN_LD", "FFN", "MOE_ACCUM", "R3",
                     "OUT"}
  BY DEF LayerInv, LayerStage, AtIdle, AtFirst, AtAttention, AtSecond, AtRouter, AtLoad,
         AtExpert, AtAccumulate, AtLast, AtOutput
<1>2. /\ lay.expert \in 0 .. SelLimit - 1 /\ lay.k \in 0 .. TopK - 1
      /\ rtr.top \in [0 .. TopK - 1 -> 0 .. Experts - 1]
  BY DEF LayerInv, LayTypes, RtrTypes
<1>3. \A e \in {gate, up, down} : e.array \in Arrays
  BY ArraysInRange DEF LayerInv, FfnTypes
<1> QED BY <1>1, <1>2, <1>3 DEF LayTypeOK, Arrays

(* router_ok, once it is set, is about the best expert of the token.       *)
OkKnown ==
  lay.state \in {"FFN_LD", "FFN", "MOE_ACCUM", "R3", "OUT"}
    => (rtrOk <=> rtr.top[0] \in LocalExperts)

LEMMA OkStep ==
  ASSUME LayerInv, OkKnown, NEW offer, NEW scores, NEW cycles, LayEdge(offer, scores, cycles)
  PROVE  OkKnown'
<1>1. PICK ok : ok = (rtr.top[0] \in LocalExperts)
  OBVIOUS
<1>2. /\ rtrOk' = IF lay.state = "RTR" /\ rtr.state = "OUTPUT" THEN ok ELSE rtrOk
      /\ RouterEdge
  BY <1>1 DEF LayEdge
<1>3. CASE lay.state \in {"FFN_LD", "FFN", "MOE_ACCUM", "R3", "OUT"}
  <2>1. lay.rtrStart = FALSE /\ rtr.state = "IDLE"
    BY <1>3 DEF LayerInv, Pulses, LayerStage, AtIdle, AtFirst, AtAttention, AtSecond, AtRouter,
       AtLoad, AtExpert, AtAccumulate, AtLast, AtOutput, Routed
  <2>2. rtr' = rtr
    BY <1>2, <2>1 DEF RouterEdge
  <2> QED BY <1>2, <1>3, <2>2 DEF OkKnown
<1>4. CASE lay.state = "RTR" /\ rtr.state = "OUTPUT"
  <2>1. rtr' = [rtr EXCEPT !.state = "IDLE"]
    BY <1>2, <1>4 DEF RouterEdge
  <2>2. rtr'.top = rtr.top
    BY <2>1 DEF LayerInv, RtrTypes, RtrShape
  <2> QED BY <1>1, <1>2, <1>4, <2>2 DEF OkKnown
<1>5. CASE /\ lay.state \notin {"FFN_LD", "FFN", "MOE_ACCUM", "R3", "OUT"}
           /\ ~(lay.state = "RTR" /\ rtr.state = "OUTPUT")
  <2>1. PICK q, h, t, o : /\ q = Quiet /\ h = TRUE /\ t = (CHOOSE u \in offer : TRUE)
                          /\ o = attn.out
    OBVIOUS
  <2>2. IsQuiet(q)
    BY <2>1, QuietFields DEF LayerInv, LayTypes
  <2>3. \/ lay' = q
        \/ lay' = [q EXCEPT !.normIn[1] = t, !.normStart = 1, !.state = "R1"]
        \/ lay' = [q EXCEPT !.attnStart = h, !.state = "ATTN"]
        \/ lay' = [q EXCEPT !.normIn[2] = o, !.normStart = 2, !.state = "R2"]
        \/ lay' = [q EXCEPT !.rtrStart = h, !.state = "RTR"]
    <3>1. LayIdle(offer) \/ LayAttend \/ LayRoute
      BY <1>5 DEF LayEdge, LayLoad, LayExpert, LayAccumulate, LayOutput
    <3>2. CASE LayIdle(offer)
      BY <2>1, <3>2 DEF LayIdle
    <3>3. CASE LayAttend
      BY <2>1, <3>3 DEF LayAttend
    <3>4. CASE LayRoute
      BY <2>1, <1>5, <3>4 DEF LayRoute
    <3> QED BY <3>1, <3>2, <3>3, <3>4
  <2>4. lay'.state \notin {"FFN_LD", "FFN", "MOE_ACCUM", "R3", "OUT"}
    BY <1>5, <2>2, <2>3 DEF IsQuiet
  <2> QED BY <2>4 DEF OkKnown
<1> QED BY <1>3, <1>4, <1>5

LEMMA OkKept == LayerInv /\ OkKnown /\ [LayNext]_layVars => OkKnown'
<1>1. CASE UNCHANGED layVars
  BY <1>1 DEF layVars, OkKnown
<1>2. ASSUME LayerInv, OkKnown, LayNext PROVE OkKnown'
  <2>1. PICK offer, scores, cycles : LayEdge(offer, scores, cycles)
    BY <1>2 DEF LayNext
  <2> QED BY <1>2, <2>1, OkStep
<1> QED BY <1>1, <1>2

LEMMA InvComputes == LayerInv /\ OkKnown => LayerComputes
<1> SUFFICES ASSUME LayerInv, OkKnown, lay.valid PROVE LayerComputes
  BY DEF LayerComputes
<1>0. TopK \in Nat \ {0}
  BY LayerAssumption
<1>1. AtOutput
  <2>1. lay.state # "OUT" => lay.valid = FALSE
    BY DEF LayerInv, Pulses
  <2>2. lay.state = "OUT"
    BY <2>1
  <2> QED BY <2>2 DEF LayerInv, LayerStage, AtIdle, AtFirst, AtAttention, AtSecond, AtRouter,
                      AtLoad, AtExpert, AtAccumulate, AtLast
<1>2. PICK top, scores : top = rtr.top /\ scores = layTaken.scores
  OBVIOUS
<1>3. /\ top \in [0 .. TopK - 1 -> 0 .. Experts - 1] /\ Ranked(top, scores, TopK)
      /\ lay.y = Gathered(TopK)
  BY <1>1, <1>2 DEF LayerInv, RtrTypes, AtOutput, Routed
<1>4. PICK pick : pick = [i \in 1 .. TopK |-> top[i - 1]]
  OBVIOUS
<1>5. ASSUME NEW i \in 1 .. TopK
      PROVE  i - 1 \in 0 .. TopK - 1 /\ pick[i] = top[i - 1]
  BY <1>0, <1>4
<1>6. pick \in [1 .. TopK -> 0 .. Experts - 1]
  BY <1>3, <1>4, <1>5
<1>7. ASSUME NEW i \in 1 .. TopK
      PROVE  {pick[j] : j \in 1 .. i} = Picked(top, i)
  <2>1. ASSUME NEW j \in 1 .. i PROVE pick[j] \in Picked(top, i)
    <3>1. j \in 1 .. TopK /\ j - 1 \in 0 .. i - 1
      BY <1>0
    <3> QED BY <3>1, <1>5 DEF Picked
  <2>2. ASSUME NEW j \in 0 .. i - 1 PROVE top[j] \in {pick[l] : l \in 1 .. i}
    <3>1. j + 1 \in 1 .. i /\ j + 1 \in 1 .. TopK /\ (j + 1) - 1 = j
      BY <1>0
    <3>2. pick[j + 1] = top[j]
      BY <3>1, <1>5
    <3> QED BY <3>1, <3>2
  <2> QED BY <2>1, <2>2 DEF Picked
<1>8. ASSUME NEW i \in 1 .. TopK, NEW f \in (0 .. Experts - 1) \ {pick[j] : j \in 1 .. i}
      PROVE  scores[f] <= scores[pick[i]]
  <2>1. f \in (0 .. Experts - 1) \ Picked(top, (i - 1) + 1)
    <3>1. (i - 1) + 1 = i
      BY <1>0
    <3> QED BY <3>1, <1>7, <1>8
  <2> QED BY <2>1, <1>3, <1>5 DEF Ranked
<1>9. ASSUME NEW i \in 1 .. TopK, NEW j \in 1 .. TopK, j < i PROVE pick[j] # pick[i]
  <2>1. j - 1 \in 0 .. (i - 1) - 1
    BY <1>0, <1>9
  <2>2. top[j - 1] \in Picked(top, i - 1)
    BY <2>1 DEF Picked
  <2>3. top[i - 1] \notin Picked(top, i - 1)
    BY <1>3, <1>5 DEF Ranked
  <2> QED BY <2>2, <2>3, <1>5
<1>10. ASSUME NEW i \in 1 .. TopK, NEW j \in 1 .. TopK, pick[i] = pick[j] PROVE i = j
  <2>1. i < j \/ j < i \/ i = j
    BY <1>0
  <2> QED BY <2>1, <1>9, <1>10
<1>11. lay.y = [i \in 1 .. TopK |->
                  <<lay.weight[i - 1],
                    [r \in 0 .. HiddenBeats - 1 |->
                       ExpertRow(EngineOf(pick[i]), r,
                                 [b \in 0 .. HiddenBeats - 1 |-> <<layTaken.token, b>>])]>>]
  BY <1>2, <1>3, <1>5 DEF Gathered, Beats
<1>12. rtrOk <=> pick[1] \in LocalExperts
  <2>1. pick[1] = rtr.top[0]
    <3>1. 1 \in 1 .. TopK /\ 1 - 1 = 0
      BY <1>0
    <3> QED BY <3>1, <1>2, <1>5
  <2> QED BY <2>1, <1>1 DEF OkKnown, AtOutput
<1> QED BY <1>2, <1>6, <1>8, <1>10, <1>11, <1>12 DEF LayerComputes

(* The invariant holds at every clock edge, for every number of experts,   *)
(* of picks, of beats and every depth of the pipeline the drain covers.    *)
THEOREM LayerKeepsItsInvariant == PipeDrains => (LaySpec => []LayerInv)
<1> SUFFICES ASSUME PipeDrains PROVE LaySpec => []LayerInv
  OBVIOUS
<1>1. LayInit => LayerInv
  BY LayerReset
<1>2. LayerInv /\ [LayNext]_layVars => LayerInv'
  BY LayerKeepsInv
<1> QED BY <1>1, <1>2, PTL DEF LaySpec

(* The layer's result is that of the expert engine for the experts the     *)
(* router ranks best, as full_transformer_layer.sv cuts their numbers and  *)
(* accumulates their rows: no product of another row, expert or token,     *)
(* however many there are; and router_ok is about the best.                *)
THEOREM LayerAlwaysCorrect == PipeDrains => (LaySpec => []LayerCorrect)
<1> SUFFICES ASSUME PipeDrains PROVE LaySpec => []LayerCorrect
  OBVIOUS
<1>1. LayerInv /\ OkKnown => LayerCorrect
  BY InvTypes, InvComputes DEF LayerCorrect
<1>2. LaySpec => []LayerInv
  BY LayerKeepsItsInvariant
<1>3. LayInit => OkKnown
  BY DEF LayInit, OkKnown
<1>4. LayerInv /\ OkKnown /\ [LayNext]_layVars => OkKnown'
  BY OkKept
<1> QED BY <1>1, <1>2, <1>3, <1>4, PTL DEF LaySpec

-----------------------------------------------------------------------------
(* The states an edge of the layer goes through, whatever it computes.     *)
Stays == lay.state = "IDLE" /\ lay'.state = "IDLE"
Takes == lay.state = "IDLE" /\ lay'.state = "R1"
GoesOn == lay.state \notin {"IDLE", "OUT"} /\ lay'.state \notin {"IDLE", "OUT"}
Gives == lay.state = "R3" /\ lay'.state = "OUT"
Clears == lay.state = "OUT" /\ lay'.state = "IDLE"

LEMMA StateMoves ==
  ASSUME LayShape, NEW offer, NEW scores, NEW cycles, LayEdge(offer, scores, cycles)
  PROVE  /\ LayShape' /\ (Stays \/ Takes \/ GoesOn \/ Gives \/ Clears)
         /\ Stays => offer = {}
         /\ Takes => offer # {}
<1>1. PICK q, h, i : q = Quiet /\ h = TRUE /\ i = "R1"
  OBVIOUS
<1>2. IsQuiet(q)
  BY <1>1, QuietFields
<1>3. CASE LayIdle(offer)
  <2>1. PICK t : t = CHOOSE u \in offer : TRUE
    OBVIOUS
  <2>2. lay' = IF offer = {} THEN q
               ELSE [q EXCEPT !.normIn[1] = t, !.normStart = 1, !.state = "R1"]
    BY <1>1, <1>3, <2>1 DEF LayIdle
  <2>3. LayShape' /\ lay.state = "IDLE" /\ lay'.state = IF offer = {} THEN "IDLE" ELSE "R1"
    BY <1>2, <1>3, <2>2 DEF IsQuiet, LayShape, LayIdle
  <2> QED BY <2>3 DEF Stays, Takes, GoesOn, Gives, Clears
<1>4. CASE LayAttend
  <2>1. PICK o : o = attn.out
    OBVIOUS
  <2>2. \/ lay' = q
        \/ lay' = [q EXCEPT !.attnStart = h, !.state = "ATTN"]
        \/ lay' = [q EXCEPT !.normIn[2] = o, !.normStart = 2, !.state = "R2"]
        \/ lay' = [q EXCEPT !.rtrStart = h, !.state = "RTR"]
    BY <1>1, <1>4, <2>1 DEF LayAttend
  <2>3. /\ LayShape' /\ lay.state \in {"R1", "ATTN", "R2"}
        /\ lay'.state \in {"R1", "ATTN", "R2", "RTR"}
    BY <1>2, <1>4, <2>2 DEF IsQuiet, LayShape, LayAttend
  <2> QED BY <2>3 DEF Stays, Takes, GoesOn, Gives, Clears
<1>5. CASE LayRoute
  <2>1. PICK a, e, w : a = Activ(0) /\ e = EngineOf(rtr.top[0]) /\ w = MoeWeights
    OBVIOUS
  <2>2. \/ lay' = q
        \/ lay' = [q EXCEPT !.weight = w, !.k = 0, !.acc = <<>>, !.expert = e, !.beat = 0,
                            !.write = {<<0, a>>}, !.state = "FFN_LD"]
    BY <1>1, <1>5, <2>1 DEF LayRoute
  <2>3. LayShape' /\ lay.state = "RTR" /\ lay'.state \in {"RTR", "FFN_LD"}
    BY <1>2, <1>5, <2>2 DEF IsQuiet, LayShape, LayRoute
  <2> QED BY <2>3 DEF Stays, Takes, GoesOn, Gives, Clears
<1>6. CASE LayLoad
  <2>1. PICK b, a, last : /\ b = lay.beat + 1 /\ a = Activ(lay.beat + 1)
                          /\ last = (lay.beat + 1 >= HiddenBeats - 1)
    OBVIOUS
  <2>2. lay' = [q EXCEPT !.write = {<<b, a>>}, !.ffnStart = last,
                         !.beat = IF last THEN @ ELSE @ + 1,
                         !.state = IF last THEN "FFN" ELSE @]
    BY <1>1, <1>6, <2>1 DEF LayLoad
  <2>3. LayShape' /\ lay.state = "FFN_LD" /\ lay'.state \in {"FFN_LD", "FFN"}
    BY <1>2, <1>6, <2>2 DEF IsQuiet, LayShape, LayLoad
  <2> QED BY <2>3 DEF Stays, Takes, GoesOn, Gives, Clears
<1>7. CASE LayExpert
  <2>1. lay' = q \/ lay' = [q EXCEPT !.state = "MOE_ACCUM"]
    BY <1>1, <1>7 DEF LayExpert
  <2>2. LayShape' /\ lay.state = "FFN" /\ lay'.state \in {"FFN", "MOE_ACCUM"}
    BY <1>2, <1>7, <2>1 DEF IsQuiet, LayShape, LayExpert
  <2> QED BY <2>2 DEF Stays, Takes, GoesOn, Gives, Clears
<1>8. CASE LayAccumulate
  <2>1. PICK sum, e : /\ sum = Append(lay.acc, <<lay.weight[lay.k], ffo>>)
                      /\ e = EngineOf(rtr.top[lay.k + 1])
    OBVIOUS
  <2>2. \/ lay' = [q EXCEPT !.acc = sum, !.k = @ + 1, !.expert = e, !.ffnStart = h,
                            !.state = "FFN"]
        \/ lay' = [q EXCEPT !.normIn[3] = sum, !.normStart = 3, !.state = "R3"]
    BY <1>1, <1>8, <2>1 DEF LayAccumulate
  <2>3. LayShape' /\ lay.state = "MOE_ACCUM" /\ lay'.state \in {"FFN", "R3"}
    BY <1>2, <1>8, <2>2 DEF IsQuiet, LayShape, LayAccumulate
  <2> QED BY <2>3 DEF Stays, Takes, GoesOn, Gives, Clears
<1>9. CASE LayOutput
  <2>1. PICK y : y = norm[3].out
    OBVIOUS
  <2>2. \/ lay.state = "R3" /\ lay' = q
        \/ lay.state = "R3" /\ lay' = [q EXCEPT !.y = y, !.valid = h, !.state = "OUT"]
        \/ lay.state = "OUT" /\ lay' = [q EXCEPT !.state = "IDLE"]
    BY <1>1, <1>9, <2>1 DEF LayOutput
  <2>3. LayShape'
    BY <1>2, <2>2 DEF IsQuiet, LayShape
  <2>4. \/ lay.state = "R3" /\ lay'.state \in {"R3", "OUT"}
        \/ lay.state = "OUT" /\ lay'.state = "IDLE"
    BY <1>2, <2>2 DEF IsQuiet
  <2> QED BY <2>3, <2>4 DEF Stays, Takes, GoesOn, Gives, Clears
<1> QED BY <1>3, <1>4, <1>5, <1>6, <1>7, <1>8, <1>9 DEF LayEdge

LEMMA BoxSteps ==
  LayShape /\ [LayNext]_layVars => LayShape' /\ [Box!BoxNext]_(Box!boxVars)
<1> SUFFICES ASSUME LayShape, [LayNext]_layVars
             PROVE  LayShape' /\ [Box!BoxNext]_(Box!boxVars)
  OBVIOUS
<1>1. ASSUME lay.state = "IDLE",
             NEW offer \in {{}} \cup {{t} : t \in LayTokens}, NEW scores \in ScoreTables,
             LayEdge(offer, scores, 1)
      PROVE  LayShape' /\ [Box!BoxNext]_(Box!boxVars)
  <2>1. /\ LayShape' /\ (Stays \/ Takes \/ GoesOn \/ Gives \/ Clears)
        /\ Stays => offer = {}
        /\ Takes => offer # {}
    BY <1>1, StateMoves
  <2>2. layTaken' = IF offer # {}
                    THEN [token |-> CHOOSE t \in offer : TRUE, scores |-> scores] ELSE layTaken
    BY <1>1 DEF LayEdge
  <2>3. CASE Stays
    BY <2>3, <2>1 DEF Stays, Box!boxVars
  <2>4. CASE Takes
    <3>1. PICK t \in LayTokens : offer = {t}
      BY <2>1, <2>4
    <3>2. (CHOOSE u \in offer : TRUE) = t
      BY <3>1
    <3>3. layTaken'.token = t
      BY <2>2, <3>1, <3>2
    <3>4. Box!BoxTake(t)
      BY <2>4, <3>3 DEF Takes, Box!BoxTake
    <3> QED BY <2>1, <3>4 DEF Box!BoxNext
  <2> QED BY <1>1, <2>1, <2>3, <2>4 DEF GoesOn, Gives, Clears
<1>2. ASSUME lay.state # "IDLE", NEW c \in AttnCycles, LayEdge({}, layTaken.scores, c)
      PROVE  LayShape' /\ [Box!BoxNext]_(Box!boxVars)
  <2>1. PICK s : s = layTaken.scores
    OBVIOUS
  <2>2. LayEdge({}, s, c)
    BY <1>2, <2>1
  <2>3. LayShape' /\ (Stays \/ Takes \/ GoesOn \/ Gives \/ Clears)
    BY <2>2, StateMoves
  <2>4. layTaken' = layTaken
    BY <2>2 DEF LayEdge
  <2>5. CASE GoesOn
    BY <2>3, <2>4, <2>5 DEF GoesOn, Box!boxVars
  <2>6. CASE Gives
    <3>1. Box!BoxGive
      BY <2>4, <2>6 DEF Gives, Box!BoxGive
    <3> QED BY <2>3, <3>1 DEF Box!BoxNext
  <2>7. CASE Clears
    <3>1. Box!BoxClear
      BY <2>7 DEF Clears, Box!BoxClear
    <3> QED BY <2>3, <3>1 DEF Box!BoxNext
  <2> QED BY <1>2, <2>3, <2>5, <2>6, <2>7 DEF Stays, Takes
<1>3. CASE UNCHANGED layVars
  BY <1>3 DEF layVars, LayShape, Box!boxVars
<1> QED BY <1>1, <1>2, <1>3 DEF LayNext

(* A layer is the box the layers of the chain are taken for: it takes a    *)
(* token only when it is empty, gives that token back once, and is empty   *)
(* again, for every size of its parts.                                     *)
THEOREM LayerIsABox == LaySpec => Box!BoxInit /\ [][Box!BoxNext]_(Box!boxVars)
<1>1. LayInit => LayShape /\ Box!BoxInit
  BY DEF LayInit, LayShape, Box!BoxInit
<1>2. LayShape /\ [LayNext]_layVars => LayShape' /\ [Box!BoxNext]_(Box!boxVars)
  BY BoxSteps
<1> QED BY <1>1, <1>2, PTL DEF LaySpec

=============================================================================
