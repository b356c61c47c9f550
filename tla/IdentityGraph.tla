---------------------------- MODULE IdentityGraph ----------------------------
(***************************************************************************)
(* src/truepresence/memory/identity_graph.py: sessions that behave alike   *)
(* are connected, and a session is as risky as its cluster.  One graph     *)
(* serves the threads of a process without a lock.  Features are abstract  *)
(* kinds; which kinds are alike is a parameter, for the cosine of two      *)
(* vectors is symmetric but not transitive.                                *)
(***************************************************************************)
EXTENDS Integers, FiniteSets

CONSTANTS
  GraphSession, Evaluator,
  Bot,          \* the sessions that evaluations find to be bots
  Kind, Alike,  \* pairs of kinds whose similarity reaches the threshold
  MaxAdds       \* bound on evaluations

ASSUME AlikeAssumption ==
  /\ Alike \subseteq Kind \X Kind
  /\ \A k, l \in Kind : <<k, l>> \in Alike <=> <<l, k>> \in Alike
ASSUME AddsAssumption == MaxAdds \in Nat

VARIABLES
  sessions,  \* those that are known, with what was found of them
  features,  \* session_features
  graph,     \* session -> the sessions connected to it
  adding,    \* what each thread adds, and how far it is
  adds,
  failed     \* history: sessions whose last addition was given up

graphVars == <<sessions, features, graph, adding, adds, failed>>

NotAdding == [at |-> "idle", session |-> "none", kind |-> "none", left |-> {},
              size |-> 0, peer |-> "none"]

GraphInit ==
  /\ sessions = {} /\ features = <<>>
  /\ graph = [s \in GraphSession |-> {}]
  /\ adding = [e \in Evaluator |-> NotAdding]
  /\ adds = 0
  /\ failed = {}

Extended(f, s, v) == [x \in DOMAIN f \cup {s} |-> IF x = s THEN v ELSE f[x]]
Goto(e, at) == adding' = [adding EXCEPT ![e].at = at]

\* add_session, at the end of every evaluation of the session.
AddToGraph(e) ==
  /\ adding[e].at = "idle" /\ adds < MaxAdds
  /\ \E s \in GraphSession :
       /\ sessions' = sessions \cup {s}
       /\ adding' = [adding EXCEPT ![e] = [NotAdding EXCEPT !.at = "known", !.session = s]]
       /\ failed' = failed \ {s}
  /\ adds' = adds + 1
  /\ UNCHANGED <<features, graph>>

\* _extract_features; a session that is there already keeps its place in the
\* dictionary, and what it was connected to.
ExtractFeatures(e) ==
  /\ adding[e].at = "known"
  /\ \E k \in Kind :
       /\ features' = Extended(features, adding[e].session, k)
       /\ adding' = [adding EXCEPT ![e].at = "comparing", ![e].kind = k,
                       ![e].left = DOMAIN features', ![e].size = Cardinality(DOMAIN features')]
  /\ UNCHANGED <<sessions, graph, adds, failed>>

\* The iteration of _build_connections raises when another thread has put a session
\* in, and with it the evaluation fails; what is connected stays.
GiveUp(e) ==
  /\ adding[e].at = "comparing" /\ adding[e].left # {}
  /\ Cardinality(DOMAIN features) # adding[e].size
  /\ adding' = [adding EXCEPT ![e] = NotAdding]
  /\ failed' = failed \cup {adding[e].session}
  /\ UNCHANGED <<sessions, features, graph, adds>>

\* Mutant: sessions that were there before are told, the new one is not.
CompareOneWay(e) ==
  LET s == adding[e].session IN
  /\ adding[e].at = "comparing" /\ Cardinality(DOMAIN features) = adding[e].size
  /\ \E peer \in adding[e].left :
       /\ adding' = [adding EXCEPT ![e].left = @ \ {peer}]
       /\ graph' = IF peer # s /\ <<adding[e].kind, features[peer]>> \in Alike
                   THEN [graph EXCEPT ![peer] = @ \cup {s}] ELSE graph
  /\ UNCHANGED <<sessions, features, adds, failed>>

\* A session alike is connected in one direction, then in the other.
Compare(e) ==
  LET s == adding[e].session IN
  /\ adding[e].at = "comparing" /\ Cardinality(DOMAIN features) = adding[e].size
  /\ \E peer \in adding[e].left :
       IF peer # s /\ <<adding[e].kind, features[peer]>> \in Alike
       THEN /\ graph' = [graph EXCEPT ![s] = @ \cup {peer}]
            /\ adding' = [adding EXCEPT ![e].left = @ \ {peer}, ![e].peer = peer,
                                        ![e].at = "connecting"]
       ELSE adding' = [adding EXCEPT ![e].left = @ \ {peer}] /\ UNCHANGED graph
  /\ UNCHANGED <<sessions, features, adds, failed>>

ConnectBack(e) ==
  /\ adding[e].at = "connecting"
  /\ graph' = [graph EXCEPT ![adding[e].peer] = @ \cup {adding[e].session}]
  /\ Goto(e, "comparing")
  /\ UNCHANGED <<sessions, features, adds, failed>>

AddEnds(e) ==
  /\ adding[e].at = "comparing" /\ adding[e].left = {}
  /\ adding' = [adding EXCEPT ![e] = NotAdding]
  /\ UNCHANGED <<sessions, features, graph, adds, failed>>

GraphNext ==
  \E e \in Evaluator : \/ AddToGraph(e) \/ ExtractFeatures(e) \/ GiveUp(e) \/ Compare(e)
                       \/ ConnectBack(e) \/ AddEnds(e)

GraphSpec == GraphInit /\ [][GraphNext]_graphVars

\* get_session_cluster: the session and what can be reached from it.
SessionCluster(s) ==
  {t \in GraphSession : \A S \in SUBSET GraphSession :
     s \in S /\ (\A x \in S : graph[x] \subseteq S) => t \in S}

\* get_session_risk: beyond the average once two of the cluster were found bots.
SessionRisk(s) ==
  LET bots == SessionCluster(s) \cap Bot IN
  IF s \notin sessions THEN "unknown"
  ELSE IF Cardinality(bots) > 1 THEN "boosted" ELSE "average"

(***************************************************************************)
(* Properties                                                              *)
(***************************************************************************)
Quiet == \A e \in Evaluator : adding[e].at = "idle"

\* The variables keep their types; what is connected is known, so the risk of a
\* cluster can be read at any time.
GraphTypeOK ==
  /\ DOMAIN features \subseteq sessions /\ sessions \subseteq GraphSession
  /\ \A s \in GraphSession : graph[s] \subseteq DOMAIN features \ {s}
  /\ \A e \in Evaluator : adding[e].left \subseteq DOMAIN features
  /\ failed \subseteq GraphSession /\ adds \in 0..MaxAdds

\* _build_connections: whatever additions went on at the same time, two sessions that
\* are alike are connected once both are in the graph and neither was given up.
AlikeAreConnected ==
  Quiet => \A s, t \in DOMAIN features \ failed :
    s # t /\ <<features[s], features[t]>> \in Alike => t \in graph[s]

\* "Get the entire cluster of connected sessions": it is the same from whichever of
\* its sessions it is asked, and so is its risk.
OneRiskPerCluster ==
  Quiet => \A s \in sessions : \A t \in SessionCluster(s) :
    SessionCluster(t) = SessionCluster(s) /\ SessionRisk(t) = SessionRisk(s)

\* A cluster is what is alike, directly or not, and one to whoever asks.
ClustersHold == AlikeAreConnected /\ OneRiskPerCluster
=============================================================================
