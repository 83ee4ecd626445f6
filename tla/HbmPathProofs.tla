----------------------------- MODULE HbmPathProofs -----------------------------
(***************************************************************************)
(* Theorems about the masters that share the simulated memory, through the *)
(* two halves of axi4_rr_arbiter: for every latency of the memory, every   *)
(* set of reads, every burst length and every depth of the response queue. *)
(***************************************************************************)
EXTENDS HbmPath, TLAPS

(* prio, the next master and the one after are all there are.              *)
LEMMA Modulo ==
  ASSUME NEW prio \in Masters
  PROVE  /\ FromPrio(prio, 0) = prio
         /\ FromPrio(prio, 1) = NextPrio(prio)
         /\ FromPrio(prio, 2) = NextPrio(NextPrio(prio))
         /\ NextPrio(prio) \in Masters /\ NextPrio(NextPrio(prio)) \in Masters
         /\ \A m \in Masters : m = prio \/ m = NextPrio(prio) \/ m = NextPrio(NextPrio(prio))
<1>1. prio = 0 \/ prio = 1 \/ prio = 2
  BY DEF Masters
<1> QED
  BY <1>1 DEF FromPrio, NextPrio, Masters

(* The grant goes to the first master asking from prio on.                 *)
LEMMA GrantIsFirst ==
  ASSUME NEW prio \in Masters, NEW asking \in SUBSET Masters, NEW grant, NEW busy \in BOOLEAN
  PROVE  Granted(prio, asking, grant, busy) =
           IF busy \/ asking = {} THEN grant
           ELSE IF prio \in asking THEN prio
           ELSE IF NextPrio(prio) \in asking THEN NextPrio(prio)
           ELSE NextPrio(NextPrio(prio))
<1> DEFINE First(i) == /\ FromPrio(prio, i) \in asking
                       /\ \A k \in 0 .. i - 1 : FromPrio(prio, k) \notin asking
<1> SUFFICES ASSUME ~busy, asking # {}
    PROVE  FromPrio(prio, CHOOSE i \in 0 .. 2 : First(i)) =
             IF prio \in asking THEN prio
             ELSE IF NextPrio(prio) \in asking THEN NextPrio(prio)
             ELSE NextPrio(NextPrio(prio))
  BY DEF Granted
<1>0. \A i \in 0 .. 2 : i = 0 \/ i = 1 \/ i = 2
  OBVIOUS
<1>1. /\ First(0) <=> prio \in asking
      /\ First(1) <=> prio \notin asking /\ NextPrio(prio) \in asking
      /\ First(2) <=> /\ prio \notin asking /\ NextPrio(prio) \notin asking
                      /\ NextPrio(NextPrio(prio)) \in asking
  <2>1. First(0) <=> prio \in asking
    BY Modulo
  <2>2. \A k \in 0 .. 1 - 1 : k = 0
    OBVIOUS
  <2>3. First(1) <=> prio \notin asking /\ NextPrio(prio) \in asking
    BY <2>2, Modulo
  <2>4. \A k \in 0 .. 2 - 1 : k = 0 \/ k = 1
    OBVIOUS
  <2>5. First(2) <=> /\ prio \notin asking /\ NextPrio(prio) \notin asking
                     /\ NextPrio(NextPrio(prio)) \in asking
    BY <2>4, Modulo
  <2> QED
    BY <2>1, <2>3, <2>5
<1>2. First(0) \/ First(1) \/ First(2)
  BY <1>1, Modulo
<1> HIDE DEF First
<1>3. PICK i \in 0 .. 2 : i = (CHOOSE j \in 0 .. 2 : First(j)) /\ First(i)
  BY <1>2
<1> QED
  BY <1>0, <1>1, <1>3, Modulo

LEMMA GrantIsAMaster ==
  ASSUME NEW prio \in Masters, NEW asking \in SUBSET Masters, NEW grant \in Masters,
         NEW busy \in BOOLEAN
  PROVE  Granted(prio, asking, grant, busy) \in Masters
BY GrantIsFirst, Modulo

-----------------------------------------------------------------------------
(* Writes.                                                                 *)

WriteTypeOK ==
  /\ oneWriter \in BOOLEAN /\ wBusy \in BOOLEAN /\ bValid \in BOOLEAN /\ bPop \in BOOLEAN
  /\ wrPhase \in [Masters -> {"idle", "aw", "w", "b"}]
  /\ wrLen \in [Masters -> Nat] /\ wrBeat \in [Masters -> Nat]
  /\ awGrant \in Masters /\ awPrio \in Masters /\ wGrant \in Masters
  /\ wActive \in BOOLEAN /\ bCount \in Nat

(* The arbiter is locked just as long as the memory has a burst, which is  *)
(* the granted master's.                                                   *)
OneBurst ==
  /\ wActive <=> wBusy
  /\ wBusy => /\ wrPhase[wGrant] = "w"
              /\ wSaved = [id |-> wGrant, len |-> wrLen[wGrant], count |-> wrBeat[wGrant]]
  /\ \A m \in Masters : wrPhase[m] = "w" => wBusy /\ m = wGrant
  /\ \A m \in Masters : wrPhase[m] \in {"idle", "aw"} => wrBeat[m] = 0

(* One writer, while it waits for its response: the ID is pushed, or in    *)
(* the FIFO, or taken from it as the response is shown.                    *)
Answering(m) ==
  \/ bPush = {m} /\ bFifo = <<>> /\ bCount = 1 /\ ~bValid
  \/ bPush = {} /\ bFifo = <<m>> /\ bCount = 1 /\ ~bValid
  \/ bPush = {} /\ bFifo = <<m>> /\ bCount = 0 /\ bValid /\ bOwner = m

OneAnswer ==
  oneWriter =>
    /\ \A m, k \in Masters : wrPhase[m] # "idle" /\ wrPhase[k] # "idle" => m = k
    /\ bPop <=> bValid
    /\ \A m \in Masters : wrPhase[m] = "b" => m = wGrant /\ Answering(m)
    /\ (\A m \in Masters : wrPhase[m] # "b")
         => bPush = {} /\ bFifo = <<>> /\ bCount = 0 /\ ~bValid

WriteInv == WriteTypeOK /\ OneBurst /\ OneAnswer

LEMMA WriteInvInit == ASSUME WriteInit PROVE WriteInv
BY DEF WriteInit, WriteInv, WriteTypeOK, OneBurst, OneAnswer, Masters

LEMMA WriteTypeStep ==
  ASSUME WriteInv, NEW begins \in Begins, NEW len \in 0 .. MaxLen, NEW offers \in BOOLEAN,
         NEW matured \in BOOLEAN, WriteEdge(begins, len, offers, matured)
  PROVE  WriteTypeOK'
<1>1. awGrant' \in Masters /\ awPrio' \in Masters /\ wGrant' \in Masters /\ wBusy' \in BOOLEAN
  BY GrantIsAMaster, Modulo
  DEF WriteEdge, WriteArbiter, WriteInv, WriteTypeOK, AwAsking, AwTaken, WTaken, WLast
<1>2. wActive' \in BOOLEAN /\ bCount' \in Nat /\ bValid' \in BOOLEAN /\ bPop' \in BOOLEAN
      /\ oneWriter' = oneWriter
  BY DEF WriteEdge, WriteSlave, Response, Responds, WriteInv, WriteTypeOK, AwTaken, WTaken, WLast
<1>3. /\ wrPhase' \in [Masters -> {"idle", "aw", "w", "b"}]
      /\ wrLen' \in [Masters -> Nat] /\ wrBeat' \in [Masters -> Nat]
  <2>1. len \in Nat
    BY WriteAssumption
  <2> QED
    BY <2>1 DEF WriteEdge, WriteMasters, WriteInv, WriteTypeOK
<1> QED
  BY <1>1, <1>2, <1>3 DEF WriteInv, WriteTypeOK

LEMMA BurstStep ==
  ASSUME WriteInv, NEW begins \in Begins, NEW len \in 0 .. MaxLen, NEW offers \in BOOLEAN,
         NEW matured \in BOOLEAN, WriteEdge(begins, len, offers, matured)
  PROVE  OneBurst'
<1>0. \A m \in begins : wrPhase[m] = "idle"
  BY DEF Begins
<1>1. \A m \in Masters :
        /\ wrPhase'[m] = IF m \in begins THEN "aw"
                         ELSE IF AwTaken /\ m = awGrant THEN "w"
                         ELSE IF WTaken(offers) /\ WLast /\ m = wGrant THEN "b"
                         ELSE IF bValid /\ m = wGrant /\ wrPhase[m] = "b" THEN "idle"
                         ELSE wrPhase[m]
        /\ wrLen'[m] = IF m \in begins THEN len ELSE IF wrPhase'[m] = "idle" THEN 0 ELSE wrLen[m]
        /\ wrBeat'[m] = IF m \in begins \/ wrPhase'[m] = "idle" THEN 0
                        ELSE IF WTaken(offers) /\ ~WLast /\ m = wGrant
                             THEN wrBeat[m] + 1 ELSE wrBeat[m]
  BY DEF WriteEdge, WriteMasters
<1>2. /\ wBusy' = (AwTaken \/ (wBusy /\ ~(WTaken(offers) /\ WLast)))
      /\ AwTaken => wGrant' = awGrant
      /\ ~AwTaken => wGrant' = wGrant
      /\ wActive' = (AwTaken \/ (wActive /\ ~(WTaken(offers) /\ WLast)))
      /\ wSaved' = IF AwTaken THEN [id |-> awGrant, len |-> wrLen[awGrant], count |-> 0]
                   ELSE IF WTaken(offers) /\ ~(WTaken(offers) /\ WLast)
                        THEN [wSaved EXCEPT !.count = @ + 1] ELSE wSaved
  BY DEF WriteEdge, WriteArbiter, WriteSlave
<1>3. wGrant \in Masters /\ awGrant \in Masters /\ (wActive <=> wBusy)
  BY DEF WriteInv, WriteTypeOK, OneBurst
<1>4. CASE AwTaken
  <2>1. ~wBusy /\ wrPhase[awGrant] = "aw" /\ ~WTaken(offers) /\ wrBeat[awGrant] = 0
        /\ awGrant \notin begins
    BY <1>0, <1>4 DEF AwTaken, AwAsking, WTaken, WriteInv, OneBurst
  <2>2. /\ wBusy' /\ wActive' /\ wGrant' = awGrant
        /\ wSaved' = [id |-> awGrant, len |-> wrLen[awGrant], count |-> 0]
    BY <1>2, <1>4
  <2>3. wrPhase'[awGrant] = "w" /\ wrLen'[awGrant] = wrLen[awGrant] /\ wrBeat'[awGrant] = 0
    BY <1>1, <1>3, <1>4, <2>1
  <2>4. \A m \in Masters : wrPhase'[m] = "w" => m = awGrant
    BY <1>1, <1>3, <1>4, <2>1 DEF WriteInv, OneBurst
  <2>5. \A m \in Masters : wrPhase'[m] \in {"idle", "aw"} => wrBeat'[m] = 0
    BY <1>1, <1>4, <2>1 DEF WriteInv, OneBurst
  <2> QED
    BY <2>2, <2>3, <2>4, <2>5 DEF OneBurst
<1>5. CASE ~AwTaken
  <2>1. wGrant' = wGrant
    BY <1>2, <1>5
  <2>2. CASE WTaken(offers) /\ WLast
    <3>1. ~wBusy' /\ ~wActive'
      BY <1>2, <1>5, <2>2
    <3>2. \A m \in Masters : wrPhase'[m] # "w"
      BY <1>1, <1>5, <2>2 DEF WriteInv, OneBurst
    <3>3. \A m \in Masters : wrPhase'[m] \in {"idle", "aw"} => wrBeat'[m] = 0
      BY <1>1, <1>5, <2>2 DEF WriteInv, OneBurst
    <3> QED
      BY <3>1, <3>2, <3>3 DEF OneBurst
  <2>3. CASE WTaken(offers) /\ ~WLast
    <3>1. /\ wBusy' /\ wActive' /\ wBusy /\ wrPhase[wGrant] = "w" /\ wGrant \notin begins
          /\ wSaved = [id |-> wGrant, len |-> wrLen[wGrant], count |-> wrBeat[wGrant]]
      BY <1>0, <1>2, <1>5, <2>3 DEF WTaken, WriteInv, OneBurst
    <3>2. wSaved' = [wSaved EXCEPT !.count = @ + 1]
      BY <1>2, <1>5, <2>3
    <3>3. /\ wrPhase'[wGrant] = "w" /\ wrLen'[wGrant] = wrLen[wGrant]
          /\ wrBeat'[wGrant] = wrBeat[wGrant] + 1
      BY <1>1, <1>3, <1>5, <2>3, <3>1
    <3>4. \A m \in Masters : wrPhase'[m] = "w" => m = wGrant
      BY <1>1, <1>5, <2>3 DEF WriteInv, OneBurst
    <3>5. \A m \in Masters : wrPhase'[m] \in {"idle", "aw"} => wrBeat'[m] = 0
      BY <1>1, <1>3, <1>5, <2>3, <3>1 DEF WriteInv, OneBurst
    <3> QED
      BY <2>1, <3>1, <3>2, <3>3, <3>4, <3>5 DEF OneBurst
  <2>4. CASE ~WTaken(offers)
    <3>1. wBusy' = wBusy /\ wActive' = wActive /\ wSaved' = wSaved
      BY <1>2, <1>5, <2>4 DEF WriteInv, WriteTypeOK
    <3>2. \A m \in Masters : wrPhase'[m] = "w" <=> wrPhase[m] = "w"
      BY <1>0, <1>1, <1>5, <2>4
    <3>3. \A m \in Masters : wrPhase'[m] \in {"idle", "aw"} => wrBeat'[m] = 0
      BY <1>1, <1>5, <2>4 DEF WriteInv, OneBurst
    <3>4. wBusy => wrLen'[wGrant] = wrLen[wGrant] /\ wrBeat'[wGrant] = wrBeat[wGrant]
      BY <1>0, <1>1, <1>3, <1>5, <2>4, <3>2 DEF WriteInv, OneBurst
    <3> QED
      BY <1>3, <2>1, <3>1, <3>2, <3>3, <3>4 DEF WriteInv, OneBurst
  <2> QED
    BY <2>2, <2>3, <2>4
<1> QED
  BY <1>4, <1>5

LEMMA AnswerStep ==
  ASSUME WriteInv, NEW begins \in Begins, NEW len \in 0 .. MaxLen, NEW offers \in BOOLEAN,
         NEW matured \in BOOLEAN, WriteEdge(begins, len, offers, matured)
  PROVE  OneAnswer'
<1> SUFFICES ASSUME oneWriter
    PROVE /\ \A m, k \in Masters : wrPhase'[m] # "idle" /\ wrPhase'[k] # "idle" => m = k
          /\ bPop' <=> bValid'
          /\ \A m \in Masters : wrPhase'[m] = "b" => m = wGrant' /\ Answering(m)'
          /\ (\A m \in Masters : wrPhase'[m] # "b")
               => bPush' = {} /\ bFifo' = <<>> /\ bCount' = 0 /\ ~bValid'
  BY DEF OneAnswer, WriteEdge
<1>0. /\ \A m \in begins : m \in Masters /\ wrPhase[m] = "idle"
      /\ begins # {} => (\A m \in Masters : wrPhase[m] = "idle")
      /\ \A m, k \in begins : m = k
  BY DEF Begins
<1>1. \A m \in Masters :
        wrPhase'[m] = IF m \in begins THEN "aw"
                      ELSE IF AwTaken /\ m = awGrant THEN "w"
                      ELSE IF WTaken(offers) /\ WLast /\ m = wGrant THEN "b"
                      ELSE IF bValid /\ m = wGrant /\ wrPhase[m] = "b" THEN "idle"
                      ELSE wrPhase[m]
  BY DEF WriteEdge, WriteMasters
<1>2. /\ wGrant \in Masters /\ awGrant \in Masters /\ bCount \in Nat /\ BQueueDepth \in Nat \ {0}
      /\ bValid \in BOOLEAN /\ bPop \in BOOLEAN
      /\ \A m, k \in Masters : wrPhase[m] # "idle" /\ wrPhase[k] # "idle" => m = k
      /\ bPop <=> bValid
      /\ \A m \in Masters : wrPhase[m] = "b" => m = wGrant /\ Answering(m)
      /\ (\A m \in Masters : wrPhase[m] # "b")
           => bPush = {} /\ bFifo = <<>> /\ bCount = 0 /\ ~bValid
  BY WriteAssumption DEF WriteInv, WriteTypeOK, OneAnswer
<1>3. /\ AwTaken => wrPhase[awGrant] = "aw"
      /\ WTaken(offers) => wrPhase[wGrant] = "w" /\ wSaved.id = wGrant
      /\ wGrant' = IF AwTaken THEN awGrant ELSE wGrant
  BY DEF AwTaken, AwAsking, WTaken, WriteEdge, WriteArbiter, WriteInv, OneBurst
<1>4. bPop' = bValid' /\ bValid' = Responds(matured)
  BY DEF WriteEdge, Response
<1>5. \A m, k \in Masters : wrPhase'[m] # "idle" /\ wrPhase'[k] # "idle" => m = k
  <2>1. \A m \in Masters : wrPhase'[m] # "idle" => m \in begins \/ wrPhase[m] # "idle"
    BY <1>1, <1>2, <1>3
  <2> QED
    BY <1>0, <1>2, <2>1
<1>6. CASE WTaken(offers) /\ WLast
  <2>1. \A m \in Masters : wrPhase[m] # "idle" <=> m = wGrant
    BY <1>2, <1>3, <1>6
  <2>2. /\ bPush = {} /\ bFifo = <<>> /\ bCount = 0 /\ ~bValid /\ ~bPop /\ ~AwTaken /\ begins = {}
    BY <1>0, <1>2, <1>3, <1>6, <2>1
  <2>3. ~Responds(matured)
    BY <2>2 DEF Responds
  <2>4. bPush' = {wGrant} /\ bFifo' = <<>> /\ bCount' = 1 /\ ~bValid'
    BY <1>2, <1>3, <1>4, <1>6, <2>2, <2>3 DEF WriteEdge, WriteSlave, BFifo, Response
  <2>5. wrPhase'[wGrant] = "b" /\ \A m \in Masters : wrPhase'[m] = "b" => m = wGrant
    BY <1>1, <1>2, <1>3, <1>6, <2>1, <2>2
  <2> QED
    BY <1>2, <1>3, <1>4, <1>5, <2>2, <2>4, <2>5 DEF Answering
<1>7. CASE ~(WTaken(offers) /\ WLast)
  <2>1. /\ bPush' = {}
        /\ bCount' = IF Responds(matured) THEN bCount - 1 ELSE bCount
        /\ bOwner' = IF Responds(matured) THEN Head(bFifo) ELSE bOwner
    BY <1>7 DEF WriteEdge, WriteSlave, Response
  <2>2. bFifo' = LET rest == IF bPop /\ bFifo # <<>> THEN Tail(bFifo) ELSE bFifo
                 IN IF bPush = {} THEN rest ELSE Append(rest, CHOOSE id \in bPush : TRUE)
    BY DEF WriteEdge, BFifo
  <2>3. CASE \A m \in Masters : wrPhase[m] # "b"
    <3>1. bPush = {} /\ bFifo = <<>> /\ bCount = 0 /\ ~bValid /\ ~bPop
      BY <1>2, <2>3
    <3>2. ~Responds(matured)
      BY <3>1 DEF Responds
    <3>3. \A m \in Masters : wrPhase'[m] # "b"
      BY <1>1, <1>7, <2>3
    <3> QED
      BY <1>4, <1>5, <2>1, <2>2, <3>1, <3>2, <3>3
  <2>4. ASSUME NEW m \in Masters, wrPhase[m] = "b"
        PROVE  /\ \A k \in Masters : wrPhase'[k] = "b" => k = wGrant' /\ Answering(k)'
               /\ (\A k \in Masters : wrPhase'[k] # "b")
                    => bPush' = {} /\ bFifo' = <<>> /\ bCount' = 0 /\ ~bValid'
    <3>1. /\ m = wGrant /\ begins = {} /\ ~AwTaken /\ wGrant' = wGrant
          /\ \A k \in Masters : wrPhase[k] # "idle" => k = m
      BY <1>0, <1>2, <1>3, <2>4
    <3>2. CASE bPush = {m} /\ bFifo = <<>> /\ bCount = 1 /\ ~bValid
      <4>1. ~Responds(matured) /\ (CHOOSE id \in bPush : TRUE) = m
        BY <3>2 DEF Responds
      <4>2. bPush' = {} /\ bFifo' = <<m>> /\ bCount' = 1 /\ ~bValid'
        BY <1>2, <1>4, <2>1, <2>2, <3>2, <4>1
      <4>3. wrPhase'[m] = "b" /\ \A k \in Masters : wrPhase'[k] = "b" => k = m
        BY <1>1, <1>7, <2>4, <3>1, <3>2
      <4> QED
        BY <3>1, <4>2, <4>3 DEF Answering
    <3>3. CASE bPush = {} /\ bFifo = <<m>> /\ bCount = 1 /\ ~bValid
      <4>1. bFifo' = <<m>>
        BY <1>2, <2>2, <3>3
      <4>2. wrPhase'[m] = "b" /\ \A k \in Masters : wrPhase'[k] = "b" => k = m
        BY <1>1, <1>7, <2>4, <3>1, <3>3
      <4>3. Responds(matured) => bCount' = 0 /\ bOwner' = m /\ bValid'
        BY <1>4, <2>1, <3>3
      <4>4. ~Responds(matured) => bCount' = 1 /\ ~bValid'
        BY <1>4, <2>1, <3>3
      <4> QED
        BY <2>1, <3>1, <4>1, <4>2, <4>3, <4>4 DEF Answering
    <3>4. CASE bPush = {} /\ bFifo = <<m>> /\ bCount = 0 /\ bValid /\ bOwner = m
      <4>1. ~Responds(matured) /\ bPop
        BY <1>2, <3>4 DEF Responds
      <4>2. bFifo' = <<>> /\ bPush' = {} /\ bCount' = 0 /\ ~bValid'
        BY <1>4, <2>1, <2>2, <3>4, <4>1
      <4>3. \A k \in Masters : wrPhase'[k] # "b"
        BY <1>1, <1>7, <2>4, <3>1, <3>4
      <4> QED
        BY <4>2, <4>3
    <3> QED
      BY <1>2, <2>4, <3>2, <3>3, <3>4 DEF Answering
  <2> QED
    BY <1>4, <1>5, <2>3, <2>4
<1> QED
  BY <1>6, <1>7

LEMMA WriteInvStep ==
  ASSUME WriteInv, [WriteNext]_writeVars
  PROVE  WriteInv'
<1>1. CASE UNCHANGED writeVars
  BY <1>1 DEF writeVars, WriteInv, WriteTypeOK, OneBurst, OneAnswer, Answering
<1>2. CASE WriteNext
  <2>1. PICK begins \in Begins, len \in 0 .. MaxLen, offers \in BOOLEAN, matured \in BOOLEAN :
          WriteEdge(begins, len, offers, matured)
    BY <1>2 DEF WriteNext
  <2> QED
    BY <2>1, WriteTypeStep, BurstStep, AnswerStep DEF WriteInv
<1> QED
  BY <1>1, <1>2

(* Whatever the lengths of the bursts and the depth of the queue, with any *)
(* interleaving of the three masters: the bursts reach the memory unmixed, *)
(* and with one writer at a time a response is shown to its master.        *)
THEOREM WritesAreSafe == WriteSpec => [](BurstsUnmixed /\ ResponseToItsMaster)
<1>1. WriteInit => WriteInv
  BY WriteInvInit
<1>2. WriteInv /\ [WriteNext]_writeVars => WriteInv'
  BY WriteInvStep
<1>3. WriteInv => BurstsUnmixed /\ ResponseToItsMaster
  <2> SUFFICES ASSUME WriteInv PROVE BurstsUnmixed /\ ResponseToItsMaster
    OBVIOUS
  <2>1. BurstsUnmixed
    BY DEF WriteInv, WriteTypeOK, OneBurst, BurstsUnmixed
  <2>2. ASSUME oneWriter, bValid PROVE wGrant = bOwner /\ wrPhase[wGrant] = "b"
    <3>1. PICK m \in Masters : wrPhase[m] = "b"
      BY <2>2 DEF WriteInv, OneAnswer
    <3> QED
      BY <2>2, <3>1 DEF WriteInv, OneAnswer, Answering
  <2> QED
    BY <2>1, <2>2 DEF ResponseToItsMaster
<1> QED
  BY <1>1, <1>2, <1>3, PTL DEF WriteSpec

-----------------------------------------------------------------------------
(* Reads.                                                                  *)

ReadTypeOK ==
  /\ arGrant \in Masters /\ arPrio \in Masters /\ rGrant \in Masters
  /\ rBusy \in BOOLEAN /\ rValid \in BOOLEAN
  /\ rState \in {"IDLE", "WAIT", "SEND"} /\ rBeat \in Nat
  /\ rdAsk = [m \in Masters |-> rdAsk[m]] /\ rdWant = [m \in Masters |-> rdWant[m]]
  /\ rdGot = [m \in Masters |-> rdGot[m]] /\ rdPassed \in [Masters -> Nat]

(* The arbiter is locked as long as the memory reads a burst, so no second *)
(* request is ever buffered.                                               *)
OneRead ==
  /\ nextAr = {}
  /\ rBusy <=> rState # "IDLE"
  /\ rValid <=> rState = "SEND"

Reading(m) == rBusy /\ m = rGrant

(* The master whose burst is read has got the beats before the next one;   *)
(* another that wants to read still asks, and has got none.                *)
OwnBeats(m) ==
  /\ rdWant[m] = {} \/ \E r \in Reads : rdWant[m] = {r}
  /\ Reading(m) =>
       /\ rdAsk[m] = {} /\ rSaved.len \in Nat /\ rBeat <= rSaved.len
       /\ \E r \in Reads : rdWant[m] = {r} /\ rSaved.addr = r.addr /\ rSaved.len = r.len
       /\ rdGot[m] = IF rBeat = 0 THEN <<>> ELSE <<rSaved.addr, rBeat - 1>>
  /\ ~Reading(m) => rdAsk[m] = rdWant[m] /\ (rdWant[m] # {} => rdGot[m] = <<>>)

(* The grant is left over from the read in progress, or from the last one. *)
Spent == arGrant \notin Asking /\ (rBusy => arGrant = rGrant)

(* A master that was passed over is the first from prio on, or the second  *)
(* and not passed over by the third; one passed over twice is next.        *)
Passing(m) ==
  /\ rdPassed[m] > 0 => m \in Asking
  /\ rdPassed[m] \in 0 .. 2
  /\ rdPassed[m] = 1 =>
       \/ arPrio = m
       \/ arPrio = NextPrio(NextPrio(m)) /\ (arGrant # NextPrio(m) \/ Spent)
  /\ rdPassed[m] = 2 => arGrant = m \/ (arPrio = m /\ Spent)

ReadInv ==
  /\ ReadTypeOK /\ OneRead
  /\ \A m \in Masters : OwnBeats(m)
  /\ \A m \in Masters : Passing(m)

LEMMA ReadInvInit == ASSUME ReadInit PROVE ReadInv
<1>1. ReadTypeOK
  <2>1. 0 \in Masters
    BY DEF Masters
  <2> QED
    BY <2>1 DEF ReadInit, ReadTypeOK
<1>2. OneRead /\ \A m \in Masters : OwnBeats(m) /\ Passing(m)
  BY DEF ReadInit, OneRead, OwnBeats, Passing, Reading
<1> QED
  BY <1>1, <1>2 DEF ReadInv

LEMMA AskOfASet ==
  ASSUME NEW asks \in Asks, NEW m \in Masters
  PROVE  asks[m] = {} \/ \E r \in Reads : asks[m] = {r}
BY DEF Asks

(* The memory and its lock.                                                *)
LEMMA MemoryStep ==
  ASSUME ReadInv, NEW asks \in Asks, NEW ready \in BOOLEAN, ReadEdge(asks, ready)
  PROVE  /\ ReadTypeOK' /\ OneRead'
         /\ ArTaken <=> arGrant \in Asking /\ ~rBusy
         /\ rBusy' <=> ArTaken \/ (rBusy /\ ~(RTaken(ready) /\ RLast))
         /\ ArTaken => rGrant' = arGrant /\ rSaved' = ReadOf(arGrant) /\ rBeat' = 0
         /\ ~ArTaken => rGrant' = rGrant /\ rSaved' = rSaved
         /\ ~ArTaken /\ rBusy' =>
              rBeat' = IF RTaken(ready) THEN rBeat + 1 ELSE rBeat
         /\ RTaken(ready) => rBusy
<1>1. /\ ArTaken <=> arGrant \in Asking /\ ~rBusy
      /\ RTaken(ready) => rBusy /\ rState = "SEND"
  BY DEF ReadInv, ReadTypeOK, OneRead, ArTaken, ArValid, ArReady, RTaken
<1>2. /\ rBusy' <=> ArTaken \/ (rBusy /\ ~(RTaken(ready) /\ RLast))
      /\ rBusy' \in BOOLEAN
      /\ ArTaken => rGrant' = arGrant /\ arPrio' = NextPrio(arGrant)
      /\ ~ArTaken => rGrant' = rGrant /\ arPrio' = arPrio
  BY DEF ReadEdge, ReadArbiter, ReadInv, ReadTypeOK, ArTaken, ArValid, RTaken, RLast
<1>3. arGrant' \in Masters /\ arPrio' \in Masters /\ rGrant' \in Masters
  BY <1>2, GrantIsAMaster, Modulo DEF ReadEdge, ReadArbiter, ReadInv, ReadTypeOK, Asking
<1>4. /\ rdAsk' = [m \in Masters |-> rdAsk'[m]] /\ rdWant' = [m \in Masters |-> rdWant'[m]]
      /\ rdGot' = [m \in Masters |-> rdGot'[m]] /\ rdPassed' \in [Masters -> Nat]
  <2>1. rdPassed' \in [Masters -> Nat]
    BY DEF ReadEdge, ReadMasters, ReadInv, ReadTypeOK
  <2> QED
    BY <2>1 DEF ReadEdge, ReadMasters
<1>5. CASE rState = "IDLE"
  <2>1. /\ nextAr' = {} /\ rValid' = rValid /\ ~rBusy /\ ~RTaken(ready)
        /\ ArTaken => rSaved' = ReadOf(arGrant) /\ rBeat' = 0 /\ rState' = "WAIT"
        /\ ~ArTaken => rState' = rState /\ rSaved' = rSaved /\ rBeat' = rBeat
    BY <1>1, <1>5 DEF ReadEdge, ReadIdle, ReadWait, ReadSend, Begin, ReadInv, OneRead
  <2> QED
    <3>1. CASE ArTaken
      <4>1. /\ rBeat' = 0 /\ rState' = "WAIT" /\ rBusy' /\ nextAr' = {}
            /\ ~rValid' /\ rValid' \in BOOLEAN
        BY <1>2, <1>5, <2>1, <3>1 DEF ReadInv, ReadTypeOK, OneRead
      <4>2. ReadTypeOK' /\ OneRead'
        BY <1>2, <1>3, <1>4, <4>1 DEF ReadTypeOK, OneRead
      <4> QED
        BY <1>1, <1>2, <2>1, <3>1, <4>2
    <3>2. CASE ~ArTaken
      <4>1. /\ rBeat' = rBeat /\ rState' = "IDLE" /\ ~rBusy' /\ nextAr' = {}
            /\ ~rValid' /\ rValid' \in BOOLEAN /\ rBeat \in Nat
        BY <1>2, <1>5, <2>1, <3>2 DEF ReadInv, ReadTypeOK, OneRead
      <4>2. ReadTypeOK' /\ OneRead'
        BY <1>2, <1>3, <1>4, <4>1 DEF ReadTypeOK, OneRead
      <4> QED
        BY <1>1, <1>2, <2>1, <3>2, <4>1, <4>2
    <3> QED
      BY <3>1, <3>2
<1>6. CASE rState = "WAIT"
  <2>1. /\ ~ArTaken /\ rBusy /\ ~RTaken(ready) /\ rSaved' = rSaved /\ rBeat' = rBeat
        /\ nextAr' = nextAr
        /\ (rState' = "SEND" /\ rValid' = TRUE) \/ (rState' = rState /\ rValid' = rValid)
    BY <1>1, <1>6 DEF ReadEdge, ReadIdle, ReadWait, ReadSend, ReadInv, OneRead
  <2> QED
    <3>1. rState' \in {"WAIT", "SEND"} /\ rValid' \in BOOLEAN /\ (rValid' <=> rState' = "SEND")
      <4>1. ~rValid /\ rValid \in BOOLEAN
        BY <1>6 DEF ReadInv, ReadTypeOK, OneRead
      <4>2. CASE rState' = "SEND" /\ rValid' = TRUE
        BY <4>2
      <4>3. CASE rState' = rState /\ rValid' = rValid
        BY <1>6, <4>1, <4>3
      <4> QED
        BY <2>1, <4>2, <4>3
    <3>2. ReadTypeOK' /\ OneRead'
      BY <1>2, <1>3, <1>4, <2>1, <3>1 DEF ReadInv, ReadTypeOK, OneRead
    <3> QED
      BY <1>1, <1>2, <2>1, <3>2
<1>7. CASE rState = "SEND"
  <2>1. /\ ~ArTaken /\ rBusy /\ rValid /\ nextAr' = {} /\ rSaved' = rSaved
        /\ ~RTaken(ready) => rState' = rState /\ rBeat' = rBeat /\ rValid' = rValid
        /\ RTaken(ready) /\ ~RLast =>
             rState' = rState /\ rBeat' = rBeat + 1 /\ rValid' = rValid
        /\ RTaken(ready) /\ RLast => rState' = "IDLE" /\ rBeat' = rBeat /\ rValid' = FALSE
    BY <1>1, <1>7 DEF ReadEdge, ReadIdle, ReadWait, ReadSend, ReadInv, OneRead
  <2> QED
    <3>1. CASE RTaken(ready) /\ RLast
      BY <1>1, <1>2, <1>3, <1>4, <1>7, <2>1, <3>1 DEF ReadInv, ReadTypeOK, OneRead
    <3>2. CASE RTaken(ready) /\ ~RLast
      BY <1>1, <1>2, <1>3, <1>4, <1>7, <2>1, <3>2 DEF ReadInv, ReadTypeOK, OneRead
    <3>3. CASE ~RTaken(ready)
      BY <1>1, <1>2, <1>3, <1>4, <1>7, <2>1, <3>3 DEF ReadInv, ReadTypeOK, OneRead
    <3> QED
      BY <3>1, <3>2, <3>3
<1> QED
  BY <1>5, <1>6, <1>7 DEF ReadInv, ReadTypeOK

(* What a master sees of a clock edge.                                     *)
LEMMA MasterStep ==
  ASSUME NEW asks \in Asks, NEW ready \in BOOLEAN, ReadEdge(asks, ready), NEW m \in Masters
  PROVE  LET taken   == ArTaken /\ m = arGrant
             offered == RTaken(ready) /\ m = rGrant
         IN /\ rdAsk'[m] = IF taken THEN {} ELSE IF rdWant[m] = {} THEN asks[m] ELSE rdAsk[m]
            /\ rdWant'[m] = IF offered /\ RLast THEN {}
                            ELSE IF rdWant[m] = {} THEN asks[m] ELSE rdWant[m]
            /\ rdGot'[m] = IF offered THEN <<rSaved.addr, rBeat>>
                           ELSE IF rdWant[m] = {} /\ asks[m] # {} THEN <<>> ELSE rdGot[m]
            /\ rdPassed'[m] = IF m \notin Asking \/ taken THEN 0
                              ELSE rdPassed[m] + IF ArTaken THEN 1 ELSE 0
<1>1. ReadMasters(asks, ready)
  BY DEF ReadEdge
<1> QED
  BY <1>1 DEF ReadMasters

LEMMA OwnBeatsStep ==
  ASSUME ReadInv, NEW asks \in Asks, NEW ready \in BOOLEAN, ReadEdge(asks, ready),
         NEW m \in Masters
  PROVE  /\ OwnBeats(m)'
         /\ Ports!Ask(m) \/ Ports!Receive(m) \/ Ports!Rest(m)
<1>1. /\ ArTaken <=> arGrant \in Asking /\ ~rBusy
      /\ rBusy' <=> ArTaken \/ (rBusy /\ ~(RTaken(ready) /\ RLast))
      /\ ArTaken => rGrant' = arGrant /\ rSaved' = ReadOf(arGrant) /\ rBeat' = 0
      /\ ~ArTaken => rGrant' = rGrant /\ rSaved' = rSaved
      /\ ~ArTaken /\ rBusy' => rBeat' = IF RTaken(ready) THEN rBeat + 1 ELSE rBeat
      /\ RTaken(ready) => rBusy
  BY MemoryStep
<1>2. OwnBeats(m) /\ rBeat \in Nat
  BY DEF ReadInv, ReadTypeOK
<1>3. asks[m] = {} \/ \E r \in Reads : asks[m] = {r}
  BY AskOfASet
<1>4. CASE ArTaken /\ m = arGrant
  <2>1. /\ ~Reading(m) /\ ~RTaken(ready) /\ m \in Asking
    BY <1>1, <1>4 DEF Reading
  <2>2. PICK r \in Reads : rdWant[m] = {r} /\ rdAsk[m] = {r} /\ rdGot[m] = <<>>
    BY <1>2, <2>1 DEF OwnBeats, Asking
  <2>3. ReadOf(m) = [id |-> m, addr |-> r.addr, len |-> r.len]
    <3>1. (CHOOSE x \in rdAsk[m] : TRUE) = r
      BY <2>2
    <3> QED
      BY <3>1 DEF ReadOf
  <2>4. rdAsk'[m] = {} /\ rdWant'[m] = {r} /\ rdGot'[m] = <<>>
    BY <1>4, <2>1, <2>2, MasterStep
  <2>5. Reading(m)' /\ rSaved'.addr = r.addr /\ rSaved'.len = r.len /\ rBeat' = 0 /\ r.len \in Nat
    BY <1>1, <1>4, <2>3, ReadAssumption DEF Reading
  <2>6. OwnBeats(m)'
    BY <2>4, <2>5 DEF OwnBeats
  <2>7. Ports!Rest(m)
    BY <2>2, <2>4 DEF Ports!Rest
  <2> QED
    BY <2>6, <2>7
<1>5. CASE ~(ArTaken /\ m = arGrant) /\ Reading(m)
  <2>1. /\ rBusy /\ m = rGrant /\ ~ArTaken /\ rdAsk[m] = {} /\ rdWant[m] # {}
        /\ rSaved' = rSaved /\ rGrant' = rGrant /\ rBeat <= rSaved.len /\ rSaved.len \in Nat
    BY <1>1, <1>2, <1>5 DEF Reading, OwnBeats
  <2>2. PICK r \in Reads : rdWant[m] = {r} /\ rSaved.addr = r.addr /\ rSaved.len = r.len
    BY <1>2, <1>5 DEF OwnBeats
  <2>3. rdAsk'[m] = {}
    BY <2>1, MasterStep
  <2>4. rdGot[m] = IF rBeat = 0 THEN <<>> ELSE <<rSaved.addr, rBeat - 1>>
    BY <1>2, <1>5 DEF OwnBeats
  <2>5. CASE ~RTaken(ready)
    <3>1. rdWant'[m] = rdWant[m] /\ rdGot'[m] = rdGot[m]
      BY <2>1, <2>5, MasterStep
    <3>2. Reading(m)' /\ rBeat' = rBeat
      BY <1>1, <2>1, <2>5 DEF Reading
    <3>3. OwnBeats(m)'
      BY <1>2, <1>5, <2>1, <2>2, <2>3, <3>1, <3>2 DEF OwnBeats
    <3> QED
      BY <3>1, <3>3 DEF Ports!Rest
  <2>6. CASE RTaken(ready)
    <3>1. rdGot'[m] = <<rSaved.addr, rBeat>>
      BY <2>1, <2>6, MasterStep
    <3>2. rdWant'[m] = IF RLast THEN {} ELSE {r}
      BY <2>1, <2>2, <2>6, MasterStep
    <3>3. (IF rdGot[m] = <<>> THEN 0 ELSE rdGot[m][2] + 1) = rBeat
      BY <1>2, <2>4
    <3>4. Ports!Receive(m)
      BY <2>2, <3>1, <3>2, <3>3 DEF Ports!Receive, RLast
    <3>5. CASE RLast
      <4>1. ~Reading(m)'
        BY <1>1, <2>1, <2>6, <3>5 DEF Reading
      <4> QED
        BY <2>3, <3>2, <3>4, <3>5, <4>1 DEF OwnBeats
    <3>6. CASE ~RLast
      <4>1. Reading(m)' /\ rBeat' = rBeat + 1
        BY <1>1, <2>1, <2>6, <3>6 DEF Reading
      <4>2. rBeat' <= rSaved'.len /\ rBeat' # 0 /\ rBeat' - 1 = rBeat
        BY <1>2, <2>1, <3>6, <4>1 DEF RLast
      <4> QED
        BY <2>1, <2>2, <2>3, <3>1, <3>2, <3>4, <3>6, <4>1, <4>2 DEF OwnBeats
    <3> QED
      BY <3>5, <3>6
  <2> QED
    BY <2>5, <2>6
<1>6. CASE ~(ArTaken /\ m = arGrant) /\ ~Reading(m)
  <2>1. ~(RTaken(ready) /\ m = rGrant) /\ ~Reading(m)'
    BY <1>1, <1>6 DEF Reading
  <2>2. rdAsk[m] = rdWant[m] /\ (rdWant[m] # {} => rdGot[m] = <<>>)
    BY <1>2, <1>6 DEF OwnBeats
  <2>3. /\ rdAsk'[m] = IF rdWant[m] = {} THEN asks[m] ELSE rdWant[m]
        /\ rdWant'[m] = IF rdWant[m] = {} THEN asks[m] ELSE rdWant[m]
        /\ rdGot'[m] = IF rdWant[m] = {} /\ asks[m] # {} THEN <<>> ELSE rdGot[m]
    BY <1>6, <2>1, <2>2, MasterStep
  <2>4. OwnBeats(m)'
    BY <1>2, <1>3, <2>1, <2>2, <2>3 DEF OwnBeats
  <2>5. Ports!Ask(m) \/ Ports!Rest(m)
    BY <1>3, <2>3 DEF Ports!Ask, Ports!Rest
  <2> QED
    BY <2>4, <2>5
<1> QED
  BY <1>4, <1>5, <1>6

LEMMA PassingStep ==
  ASSUME ReadInv, NEW asks \in Asks, NEW ready \in BOOLEAN, ReadEdge(asks, ready),
         NEW m \in Masters
  PROVE  Passing(m)'
<1>1. /\ ArTaken <=> arGrant \in Asking /\ ~rBusy
      /\ rBusy' <=> ArTaken \/ (rBusy /\ ~(RTaken(ready) /\ RLast))
      /\ ArTaken => rGrant' = arGrant
      /\ ~ArTaken => rGrant' = rGrant
  BY MemoryStep
<1>2. /\ arGrant \in Masters /\ arPrio \in Masters /\ rGrant \in Masters /\ rBusy \in BOOLEAN
      /\ Passing(m) /\ Asking \in SUBSET Masters
  BY DEF ReadInv, ReadTypeOK, Asking
<1>3. /\ ArTaken => arPrio' = NextPrio(arGrant)
      /\ ~ArTaken => arPrio' = arPrio
      /\ arGrant' = Granted(arPrio, Asking, arGrant, rBusy)
  BY DEF ReadEdge, ReadArbiter
<1>4. rdPassed'[m] = IF m \notin Asking \/ (ArTaken /\ m = arGrant) THEN 0
                     ELSE rdPassed[m] + IF ArTaken THEN 1 ELSE 0
  BY MasterStep
<1>5. ASSUME NEW k \in Masters, k \in Asking, ~(ArTaken /\ k = arGrant)
      PROVE  k \in Asking'
  <2>1. rdAsk[k] # {} /\ rdWant[k] # {}
    BY <1>5 DEF Asking, ReadInv, OwnBeats
  <2>2. rdAsk'[k] = rdAsk[k]
    BY <1>5, <2>1, MasterStep
  <2> QED
    BY <2>1, <2>2 DEF Asking
<1>6. CASE m \notin Asking \/ (ArTaken /\ m = arGrant)
  BY <1>4, <1>6 DEF Passing
<1>7. CASE m \in Asking /\ ArTaken /\ m # arGrant
  <2>1. /\ ~rBusy /\ rBusy' /\ rGrant' = arGrant /\ arGrant \in Asking
        /\ arPrio' = NextPrio(arGrant) /\ rdPassed'[m] = rdPassed[m] + 1 /\ m \in Asking'
    BY <1>1, <1>3, <1>4, <1>5, <1>7
  <2>2. arGrant' = arGrant => Spent'
    <3>1. rdAsk'[arGrant] = {}
      BY <1>2, <1>7, MasterStep
    <3> QED
      BY <2>1, <3>1 DEF Spent, Asking
  <2>3. ~Spent
    BY <2>1 DEF Spent
  <2>4. arGrant' = IF arPrio \in Asking THEN arPrio
                   ELSE IF NextPrio(arPrio) \in Asking THEN NextPrio(arPrio)
                   ELSE NextPrio(NextPrio(arPrio))
    BY <1>2, <1>3, <2>1, GrantIsFirst
  <2>5. CASE rdPassed[m] = 0
    <3>1. arGrant = NextPrio(m) \/ arGrant = NextPrio(NextPrio(m))
      BY <1>2, <1>7, Modulo
    <3>2. NextPrio(NextPrio(NextPrio(m))) = m
      BY DEF NextPrio, Masters
    <3> QED
      BY <2>1, <2>2, <2>5, <3>1, <3>2 DEF Passing
  <2>6. CASE rdPassed[m] = 1
    <3>1. CASE arPrio = m
      BY <1>7, <2>1, <2>4, <2>6, <3>1 DEF Passing
    <3>2. CASE arPrio = NextPrio(NextPrio(m)) /\ arGrant # NextPrio(m)
      <4>1. arGrant = NextPrio(NextPrio(m))
        BY <1>2, <1>7, <3>2, Modulo
      <4>2. NextPrio(NextPrio(NextPrio(m))) = m
        BY DEF NextPrio, Masters
      <4>3. arGrant' = arGrant /\ arPrio' = m
        BY <2>1, <2>4, <3>2, <4>1, <4>2
      <4> QED
        BY <2>1, <2>2, <2>6, <4>3 DEF Passing
    <3> QED
      BY <1>2, <2>3, <2>6, <3>1, <3>2 DEF Passing
  <2>7. rdPassed[m] # 2
    BY <1>2, <1>7, <2>3 DEF Passing
  <2> QED
    BY <1>2, <2>5, <2>6, <2>7 DEF Passing
<1>8. CASE m \in Asking /\ ~ArTaken
  <2>1. /\ rdPassed'[m] = rdPassed[m] /\ arPrio' = arPrio /\ rGrant' = rGrant /\ m \in Asking'
        /\ rBusy' => rBusy
    <3>1. m \in Asking' /\ (rBusy' => rBusy)
      BY <1>1, <1>5, <1>8
    <3>2. rdPassed[m] \in Nat
      BY <1>2 DEF Passing
    <3> QED
      BY <1>1, <1>3, <1>4, <1>8, <3>1, <3>2
  <2>2. CASE rBusy
    <3>1. arGrant' = arGrant
      BY <1>3, <2>2 DEF Granted
    <3>2. Spent => Spent'
      <4> SUFFICES ASSUME Spent PROVE Spent'
        OBVIOUS
      <4>1. arGrant = rGrant /\ rdAsk[rGrant] = {} /\ rdWant[rGrant] # {}
        BY <1>2, <2>2 DEF Spent, ReadInv, OwnBeats, Reading
      <4>2. rdAsk'[rGrant] = {}
        BY <1>2, <4>1, MasterStep
      <4> QED
        BY <2>1, <3>1, <4>1, <4>2 DEF Spent, Asking
    <3> QED
      BY <1>2, <2>1, <3>1, <3>2 DEF Passing
  <2>3. CASE ~rBusy
    <3>1. arGrant \notin Asking /\ arGrant # m
      BY <1>1, <1>8, <2>3
    <3>2. arGrant' = IF arPrio \in Asking THEN arPrio
                     ELSE IF NextPrio(arPrio) \in Asking THEN NextPrio(arPrio)
                     ELSE NextPrio(NextPrio(arPrio))
      BY <1>2, <1>3, <1>8, <2>3, GrantIsFirst
    <3>3. CASE rdPassed[m] = 1
      <4>1. CASE arPrio = m
        BY <2>1, <3>3, <4>1 DEF Passing
      <4>2. CASE arPrio = NextPrio(NextPrio(m))
        <5>1. NextPrio(NextPrio(NextPrio(m))) = m /\ m # NextPrio(m)
              /\ NextPrio(NextPrio(m)) # NextPrio(m)
          BY DEF NextPrio, Masters
        <5>2. arGrant' # NextPrio(m)
          BY <1>8, <3>2, <4>2, <5>1
        <5> QED
          BY <2>1, <3>3, <4>2, <5>2 DEF Passing
      <4> QED
        BY <1>2, <3>3, <4>1, <4>2 DEF Passing
    <3>4. CASE rdPassed[m] = 2
      <4>1. arPrio = m
        BY <1>2, <3>1, <3>4 DEF Passing
      <4> QED
        BY <1>8, <2>1, <3>2, <3>4, <4>1 DEF Passing
    <3> QED
      BY <1>2, <2>1, <3>3, <3>4 DEF Passing
  <2> QED
    BY <2>2, <2>3
<1> QED
  BY <1>6, <1>7, <1>8

LEMMA ReadInvStep ==
  ASSUME ReadInv, [ReadNext]_readVars
  PROVE  ReadInv' /\ [Ports!PortNext]_Ports!portVars
<1>1. CASE UNCHANGED readVars
  BY <1>1 DEF readVars, ReadInv, ReadTypeOK, OneRead, OwnBeats, Passing, Reading, Spent, Asking,
     Ports!portVars
<1>2. CASE ReadNext
  <2>1. PICK asks \in Asks, ready \in BOOLEAN : ReadEdge(asks, ready)
    BY <1>2 DEF ReadNext
  <2>2. ReadTypeOK' /\ OneRead'
    BY <2>1, MemoryStep
  <2>3. \A m \in Masters : OwnBeats(m)' /\ (Ports!Ask(m) \/ Ports!Receive(m) \/ Ports!Rest(m))
    BY <2>1, OwnBeatsStep
  <2>4. \A m \in Masters : Passing(m)'
    BY <2>1, PassingStep
  <2> QED
    BY <2>2, <2>3, <2>4 DEF ReadInv, Ports!PortNext
<1> QED
  BY <1>1, <1>2

(* Whatever the latency of the memory and the reads asked for: each of the *)
(* masters sees a port of its own.  Every edge is, for each, a step of     *)
(* AxiPorts: it asks, or receives its own next beat, or nothing happens.   *)
THEOREM ReadersHavePorts == ReadSpec => EachHasAPort
<1>1. ReadInit => ReadInv /\ Ports!PortInit
  BY ReadInvInit DEF ReadInit, Ports!PortInit
<1>2. ReadInv /\ [ReadNext]_readVars => ReadInv' /\ [Ports!PortNext]_Ports!portVars
  BY ReadInvStep
<1> QED
  BY <1>1, <1>2, PTL DEF ReadSpec, EachHasAPort, Ports!PortSpec

(* And none of them is passed over more than twice while it asks, although *)
(* the grant is made ahead and may be stale when the port is free again.   *)
THEOREM ReadersTakeTurns == ReadSpec => []PassedOverSeldom
<1>1. ReadInit => ReadInv
  BY ReadInvInit
<1>2. ReadInv /\ [ReadNext]_readVars => ReadInv'
  BY ReadInvStep
<1>3. ReadInv => PassedOverSeldom
  <2> SUFFICES ASSUME ReadInv, NEW m \in Masters PROVE rdPassed[m] <= 2
    BY DEF PassedOverSeldom
  <2>1. rdPassed[m] \in 0 .. 2
    BY DEF ReadInv, Passing
  <2> QED
    BY <2>1
<1> QED
  BY <1>1, <1>2, <1>3, PTL DEF ReadSpec

=============================================================================
