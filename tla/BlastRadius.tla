----------------------------- MODULE BlastRadius ---------------------------
(***************************************************************************)
(* What a failing node affects (services/assurance/topology_impact.py): a  *)
(* search of the topology, breadth first, along links as they are stored,  *)
(* against them, or, in mode "auto", along them and also against them      *)
(* where the roles of the ends say that a link is stored upstream or do    *)
(* not say anything.  The graph and the parameters are inputs.             *)
(***************************************************************************)
EXTENDS Integers, Sequences, FiniteSets

CONSTANTS
  Node, Root,
  Rank,      \* what _ROLE_RANK has for roles
  Graph,     \* inputs: sets of pairs <<source, target>>
  MaxDepth   \* inputs: max_depth

ASSUME RadiusAssumption ==
  /\ IsFiniteSet(Node) /\ Root \in Node
  /\ Rank \subseteq Nat /\ Graph \subseteq SUBSET (Node \X Node)
  /\ MaxDepth \subseteq Int

VARIABLES
  rank,      \* [Node -> its rank, or NoRank]
  links, mode, limit,
  visited, queue,
  impacted   \* the steps: node and depth

input_vars  == <<rank, links, mode, limit>>
radius_vars == <<rank, links, mode, limit, visited, queue, impacted>>

NoRank == 0 - 1

DepthLimit(depth) == IF depth < 1 THEN 1 ELSE IF depth > 10 THEN 10 ELSE depth

RadiusInit ==
  /\ rank \in [Node -> Rank \cup {NoRank}]
  /\ links \in Graph
  /\ mode \in {"auto", "downstream", "upstream", "bidirectional"}
  /\ limit \in {DepthLimit(d) : d \in MaxDepth}
  /\ visited = {Root}
  /\ queue = <<[node |-> Root, depth |-> 0]>>
  /\ impacted = {}

\* The confidence of _edge_orientation; "medium" is an ambiguous edge.  That
\* a step carries it too, and is sorted by it, is left out.
Orientation(source, target) ==
  IF NoRank \in {rank[source], rank[target]} \/ rank[source] = rank[target]
    THEN "medium"
    ELSE IF rank[source] < rank[target] THEN "high" ELSE "low"

Outbound(n) == {t \in Node : <<n, t>> \in links}
Inbound(n)  == {s \in Node : <<s, n>> \in links}

Uncertain(n) == {s \in Inbound(n) : Orientation(s, n) \in {"medium", "low"}}

(* _candidate_edges: the nodes after n along links, and against them.      *)
Along(n) ==
  IF mode \in {"auto", "downstream", "bidirectional"} THEN Outbound(n) ELSE {}

Against(n) ==
  CASE mode \in {"upstream", "bidirectional"} -> Inbound(n)
    [] mode = "auto"                          -> Uncertain(n)
    [] OTHER                                  -> {}

Orders(S) == {q \in [1 .. Cardinality(S) -> S] :
                \A i, j \in DOMAIN q : q[i] = q[j] => i = j}

\* Mutant of Enqueue: what was found last is looked at first.
EnqueueFirst(found) == found \o Tail(queue)

Enqueue(found) == Tail(queue) \o found

(* One round of the loop; the links of a node come in any order.           *)
Round ==
  LET n == Head(queue).node
      d == Head(queue).depth
      new == (Along(n) \cup Against(n)) \ visited
  IN
  /\ queue # << >>
  /\ UNCHANGED input_vars
  /\ \/ /\ d >= limit
        /\ queue' = Tail(queue)
        /\ UNCHANGED <<visited, impacted>>
     \/ /\ d < limit
        /\ visited' = visited \cup new
        /\ impacted' = impacted \cup
             {[node |-> m, depth |-> d + 1] : m \in new}
        /\ \E o \in Orders(new) :
             queue' = Enqueue([i \in DOMAIN o |-> [node |-> o[i], depth |-> d + 1]])

RadiusSpec == RadiusInit /\ [][Round]_radius_vars

-----------------------------------------------------------------------------
(* The nodes that n steps from one of these pairs to the next lead to, at  *)
(* most.                                                                   *)
Within(pairs, n) ==
  LET reach[k \in Nat] ==
        IF k = 0 THEN {Root}
        ELSE reach[k - 1] \cup
               {m \in Node : \E l \in reach[k - 1] : <<l, m>> \in pairs}
  IN reach[n]

Candidates ==
  {p \in Node \X Node : p[2] \in Along(p[1]) \cup Against(p[1])}

(* Two nodes with a link, stored either way, whose roles do not say that   *)
(* the second is the nearer one to the core.                               *)
NotUpstream ==
  {p \in Node \X Node :
     /\ p \in links \/ <<p[2], p[1]>> \in links
     /\ Orientation(p[1], p[2]) # "low"}

(* When the search is over, it has found the nodes within the limit, and   *)
(* each just once, at its distance from the root, in whichever order the   *)
(* links of a node came.  And in mode "auto" it does not miss a neighbour  *)
(* because of the way its link was discovered, as the docstring has it:    *)
(* whatever is downstream of the root, or may be, is found whichever way   *)
(* its links are stored.                                                   *)
SearchExact ==
  queue = << >> =>
    /\ visited = Within(Candidates, limit)
    /\ \A s \in impacted :
         /\ s.node \in Within(Candidates, s.depth)
         /\ s.node \notin Within(Candidates, s.depth - 1)
    /\ Cardinality(impacted) = Cardinality(visited) - 1
    /\ mode = "auto" => Within(NotUpstream, limit) \subseteq visited

=============================================================================
