---------------------------- MODULE TopologyBuild --------------------------
(***************************************************************************)
(* Building the topology (services/topology/builder.py): for one device    *)
(* after the other, in a transaction each, the node of the device, and the *)
(* node and the link of each neighbour that is missing.  The worker goes   *)
(* through all devices again and again, and a request may do so too; an    *)
(* error ends the pass.                                                    *)
(*                                                                         *)
(* A link has two foreign keys to the ids of nodes.  The id of a node is a *)
(* fresh UUID; what the builder puts into a link is the keys of the nodes, *)
(* node_id, which are the device's UUID or "ext:" and a name.              *)
(***************************************************************************)
EXTENDS Naturals, Sequences, FiniteSets, SequencesExt

CONSTANTS
  Managed, External,  \* the keys of nodes: of devices, and of others
  Neighbours,        \* [Managed -> SUBSET keys], whom LLDP and CDP report
  Builder            \* the worker and requests

ASSUME BuildAssumption ==
  /\ IsFiniteSet(Managed) /\ Managed \cap External = {}
  /\ Neighbours \in [Managed -> SUBSET (Managed \cup External)]

VARIABLES
  nodes,  \* the keys that have a row
  links,  \* rows: the set of the two columns, in whichever order
  ahead,   \* [Builder -> Seq(Managed)], what is left of the pass
  seen    \* [Builder -> the nodes that were there], or none yet

build_vars == <<nodes, links, ahead, seen>>

Key      == Managed \cup External
Unlooked == {<<"not looked">>}

\* The id of the row of a key, and _node_key.
RowId(k)   == <<"uuid4", k>>
NodeKey(k) == k

BuildInit ==
  /\ nodes = {} /\ links = {}
  /\ ahead = [b \in Builder |-> << >>]
  /\ seen = [b \in Builder |-> Unlooked]

(* build_full starts, over all devices with a credential, in the order the *)
(* query returns them, which is any.                                       *)
StartPass(b) ==
  /\ ahead[b] = << >>
  /\ \E order \in SetToSeqs(Managed) : ahead' = [ahead EXCEPT ![b] = order]
  /\ UNCHANGED <<nodes, links, seen>>

(* The queries of _upsert_node and _upsert_link.                           *)
LookUp(b) ==
  /\ ahead[b] # << >> /\ seen[b] = Unlooked
  /\ seen' = [seen EXCEPT ![b] = nodes]
  /\ UNCHANGED <<nodes, links, ahead>>

\* What the transaction of d inserts.
NewNodes(b, d) == ({d} \cup Neighbours[d]) \ seen[b]
NewLinks(d)    == {{NodeKey(d), NodeKey(n)} : n \in Neighbours[d]} \ links

Constraints(b, d) ==
  /\ NewNodes(b, d) \cap nodes = {}                  \* node_id is unique
  /\ \A l \in NewLinks(d) :                          \* the foreign keys
       l \subseteq {RowId(k) : k \in nodes \cup NewNodes(b, d)}

CommitDevice(b) ==
  LET d == Head(ahead[b]) IN
  /\ ahead[b] # << >> /\ seen[b] # Unlooked
  /\ Constraints(b, d)
  /\ nodes' = nodes \cup NewNodes(b, d)
  /\ links' = links \cup NewLinks(d)
  /\ ahead' = [ahead EXCEPT ![b] = Tail(@)]
  /\ seen' = [seen EXCEPT ![b] = Unlooked]

\* Mutant of Refused: the device is tried again.
RefusedRetries(b) ==
  /\ ahead[b] # << >> /\ seen[b] # Unlooked
  /\ ~Constraints(b, Head(ahead[b]))
  /\ seen' = [seen EXCEPT ![b] = Unlooked]
  /\ UNCHANGED <<nodes, links, ahead>>

(* The database refuses: the rows are rolled back, the nodes with them,    *)
(* and the pass is over.                                                   *)
Refused(b) ==
  /\ ahead[b] # << >> /\ seen[b] # Unlooked
  /\ ~Constraints(b, Head(ahead[b]))
  /\ ahead' = [ahead EXCEPT ![b] = << >>]
  /\ seen' = [seen EXCEPT ![b] = Unlooked]
  /\ UNCHANGED <<nodes, links>>

BuildStep(b) == StartPass(b) \/ LookUp(b) \/ CommitDevice(b) \/ Refused(b)

BuildNext == \E b \in Builder : BuildStep(b)

BuildSpec ==
  BuildInit /\ [][BuildNext]_build_vars
    /\ \A b \in Builder : WF_build_vars(BuildStep(b))

-----------------------------------------------------------------------------
Linked(d, n) ==
  {NodeKey(d), NodeKey(n)} \in links \/ {RowId(d), RowId(n)} \in links

(* docs/FUNCTIONAL_MANUAL.md:134-135: the topology is refreshed from what  *)
(* LLDP and CDP report, and stored as nodes and links.  As long as the     *)
(* builders keep going, every pair of neighbours gets its link.            *)
NeighboursLinked ==
  \A d \in Managed : \A n \in Neighbours[d] : <>Linked(d, n)

(* However builders get in each other's way, every pass comes to an end.   *)
PassesEnd == \A b \in Builder : []<>(ahead[b] = << >>)

=============================================================================
