------------------------------- MODULE AxiPorts -------------------------------
(***************************************************************************)
(* What masters expect of a memory they share: as if each had a port of    *)
(* its own.  A read that is asked for is answered by its own beats, in     *)
(* order, from the first to the last, and by nothing else.                 *)
(***************************************************************************)
EXTENDS Naturals

CONSTANTS
  PortMasters,    (* the masters                                             *)
  PortReads       (* the reads they may ask for: [addr, len]                 *)

VARIABLES
  want,           (* the read each has in progress: a set of at most one     *)
  got             (* the last beat each has received of it                   *)

portVars == <<want, got>>

PortInit == want = [m \in PortMasters |-> {}] /\ got = [m \in PortMasters |-> <<>>]

Ask(m) == \E r \in PortReads : want[m] = {} /\ want'[m] = {r} /\ got'[m] = <<>>

Receive(m) ==
  LET beat == IF got[m] = <<>> THEN 0 ELSE got[m][2] + 1
  IN \E r \in want[m] :
       got'[m] = <<r.addr, beat>> /\ want'[m] = IF beat = r.len THEN {} ELSE want[m]

Rest(m) == want'[m] = want[m] /\ got'[m] = got[m]

PortNext == \A m \in PortMasters : Ask(m) \/ Receive(m) \/ Rest(m)

PortSpec == PortInit /\ [][PortNext]_portVars

=============================================================================
