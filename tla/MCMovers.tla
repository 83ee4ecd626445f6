------------------------------- MODULE MCMovers -------------------------------
(***************************************************************************)
(* What moves data between the host, HBM and the KV cache, for TLC: six    *)
(* components that share no state, side by side.  unit says which one a    *)
(* behaviour is of; the others stay as they begin.                         *)
(***************************************************************************)
EXTENDS KvDmaBridge, KvDmaEngine, KvHbmPreloader, HbmPath, WeightWriter

VARIABLE unit

(* Reads of one beat and of two, from different places.                    *)
MCReads == {[addr |-> 0, len |-> 0], [addr |-> 1, len |-> 1]}

preloadVars == <<preVars, cacheVars>>

MoversVars == <<unit, bridgeVars, engVars, preloadVars, readVars, writeVars, writerVars>>

(* Of a pair only how many words ago it was is told apart: all that looks  *)
(* at the number of a word compares it with others.                        *)
Ago(lanes) == [l \in Lanes |-> (wtWord + 3 - lanes[l]) % 3]

(* What tells states apart: the variables of the unit, as the others stay. *)
MoversView ==
  <<unit,
    CASE unit = "bridge" -> bridgeVars
      [] unit = "engine" -> engVars
      [] unit = "preloader" -> preloadVars
      [] unit = "reads" -> readVars
      [] unit = "writes" -> writeVars
      [] unit = "writer" ->
           <<wtCtrl, wtBurst, wtAddr, wtCommit, wrPulse, wtInTime, dataCnt, Ago(wdataBuf), wdataRdy,
             wtState, awVars, wValid, Ago(wData), wLast, jobVars, histVars>>>>

(* A grant that reset leaves open, and how many masters write, varies only *)
(* in the unit that it is about.                                           *)
MoversInit ==
  /\ unit \in {"bridge", "engine", "preloader", "reads", "writes", "writer"}
  /\ BridgeInit /\ EngInit /\ PreInit /\ ReadInit /\ WriteInit /\ WriterInit
  /\ unit # "reads" => rGrant = 0
  /\ unit # "writes" => wGrant = 0 /\ oneWriter

(* A step is one of the unit's.                                            *)
MoversNext ==
  /\ UNCHANGED unit
  /\ IF unit = "bridge" THEN BridgeNext ELSE UNCHANGED bridgeVars
  /\ IF unit = "engine" THEN EngNext ELSE UNCHANGED engVars
  /\ IF unit = "preloader" THEN PreNext ELSE UNCHANGED preloadVars
  /\ IF unit = "reads" THEN ReadNext ELSE UNCHANGED readVars
  /\ IF unit = "writes" THEN WriteNext ELSE UNCHANGED writeVars
  /\ IF unit = "writer" THEN WriterNext ELSE UNCHANGED writerVars

MoversSpec ==
  /\ MoversInit /\ [][MoversNext]_MoversVars
  /\ WF_bridgeVars(unit = "bridge" /\ BridgeNext)
  /\ WF_bridgeVars(unit = "bridge" /\ HostTakes)
  /\ WF_bridgeVars(unit = "bridge" /\ HostSends)
  /\ WF_readVars(unit = "reads" /\ ReadReadily)
  /\ WF_writeVars(unit = "writes" /\ WriteReadily)

=============================================================================
