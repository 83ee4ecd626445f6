-------------------------------- MODULE SuperNode --------------------------------
(***************************************************************************)
(* SuperNodeScheduler (scripts/simulation/fpga_cloud_serving.py): sessions *)
(* are placed on servers, the least loaded one first, a session that comes *)
(* again on the server that holds its KV cache if there is room; when all  *)
(* are full, sessions wait in a queue.                                     *)
(*                                                                         *)
(* A visit is a SessionSpec: several visits can be of one session_id.      *)
(* Times, token counts and the KV sizes, which nothing updates, are left   *)
(* out.                                                                    *)
(***************************************************************************)
EXTENDS Naturals, Sequences, SequencesExt, FiniteSets, FiniteSetsExt, Functions

CONSTANTS
  Servers,        (* server ids                                              *)
  MaxSessions,    (* max_sessions_per_server                                 *)
  Visits,         (* SessionSpecs                                            *)
  SessionOf,      (* session_id of each                                      *)
  NoServer        (* assigned_server = -1, or no entry in session_routing    *)

ASSUME SuperNodeAssumption ==
  /\ Servers \subseteq Nat /\ IsFiniteSet(Servers) /\ Servers # {}
  /\ NoServer \in Nat \ Servers
  /\ MaxSessions \in Nat \ {0} /\ IsFiniteSet(Visits) /\ DOMAIN SessionOf = Visits

VARIABLES
  node,           (* active_sessions of each server, session_routing,        *)
                  (* pending_queue                                           *)
  visit           (* state and assigned_server of each visit                 *)

nodeVars == <<node, visit>>

NodeInit ==
  /\ node = [active |-> [s \in Servers |-> 0], pending |-> <<>>,
             routing |-> [i \in Range(SessionOf) |-> NoServer]]
  /\ visit = [v \in Visits |-> [state |-> "NEW", server |-> NoServer]]

HasRoom(n, s) == s \in Servers /\ n.active[s] < MaxSessions

(* The least loaded server, of several the one with the lowest id, unless  *)
(* all are full.                                                           *)
LeastLoaded(n) ==
  LET s == CHOOSE s \in Servers : \A t \in Servers :
             n.active[s] < n.active[t] \/ (n.active[s] = n.active[t] /\ s <= t)
  IN IF HasRoom(n, s) THEN s ELSE NoServer

RouteSession(n, i) == IF HasRoom(n, n.routing[i]) THEN n.routing[i] ELSE LeastLoaded(n)

(* admit_session, of a visit in a state of servers and visits.             *)
Admit(n, vs, v) ==
  LET s == RouteSession(n, SessionOf[v])
  IN IF s = NoServer
     THEN [node |-> [n EXCEPT !.pending = Append(@, v)], visit |-> [vs EXCEPT ![v].state = "QUEUED"]]
     ELSE [node |-> [n EXCEPT !.active[s] = @ + 1, !.routing[SessionOf[v]] = s],
           visit |-> [vs EXCEPT ![v] = [state |-> "QUEUED", server |-> s]]]

SessionArrives(v) ==
  LET a == Admit(node, visit, v)
  IN /\ visit[v].state = "NEW" /\ node' = a.node /\ visit' = a.visit

(* Mutant: a slot that comes free is not given to who waits.               *)
CompleteAndDrop(v) ==
  /\ visit[v].state = "QUEUED" /\ visit[v].server # NoServer
  /\ node' = [node EXCEPT !.active[visit[v].server] = @ - 1]
  /\ visit' = [visit EXCEPT ![v].state = "COMPLETED"]

(* complete_session, of one that was placed: the first that waits is       *)
(* admitted as if it came now.                                             *)
CompleteSession(v) ==
  LET n == [node EXCEPT !.active[visit[v].server] = @ - 1, !.pending = IF @ = <<>> THEN @ ELSE Tail(@)]
      vs == [visit EXCEPT ![v].state = "COMPLETED"]
      a == IF node.pending = <<>> THEN [node |-> n, visit |-> vs]
           ELSE Admit(n, vs, Head(node.pending))
  IN /\ visit[v].state = "QUEUED" /\ visit[v].server # NoServer
     /\ node' = a.node /\ visit' = a.visit

NodeCompletes == \E v \in Visits : CompleteSession(v)

NodeNext == (\E v \in Visits : SessionArrives(v)) \/ NodeCompletes

NodeSpec == NodeInit /\ [][NodeNext]_nodeVars /\ WF_nodeVars(NodeCompletes)

-----------------------------------------------------------------------------
(* The counters are the sessions: each server counts those placed on it    *)
(* that are not completed, never more than it may hold; a visit waits in   *)
(* the queue once exactly while it has no server; nobody waits while a     *)
(* server has room, whatever is completed where and whichever session has  *)
(* moved; and the routing table knows every session that was ever placed,  *)
(* at a server that one of its visits was on.                              *)
SessionsCounted ==
  /\ \A s \in Servers :
       /\ node.active[s] = Cardinality({v \in Visits : visit[v] = [state |-> "QUEUED", server |-> s]})
       /\ node.active[s] <= MaxSessions
       /\ node.pending # <<>> => node.active[s] = MaxSessions
  /\ IsInjective(node.pending)
  /\ ToSet(node.pending) = {v \in Visits : visit[v] = [state |-> "QUEUED", server |-> NoServer]}
  /\ \A v \in Visits : visit[v].server # NoServer => node.routing[SessionOf[v]] # NoServer
  /\ \A i \in Range(SessionOf) : node.routing[i] # NoServer =>
       \E v \in Visits : SessionOf[v] = i /\ visit[v].server = node.routing[i]

(* Who waits for a server gets one in the end.                             *)
PendingServed == []<>(node.pending = <<>>)

=============================================================================
