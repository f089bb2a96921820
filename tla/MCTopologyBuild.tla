--------------------------- MODULE MCTopologyBuild -------------------------
(***************************************************************************)
(* Three devices: one alone, one that sees the third, and the third, which *)
(* sees a neighbour that is not managed as well.                           *)
(***************************************************************************)
EXTENDS TopologyBuild

CONSTANTS d1, d2, d3, e1

MCNeighbours == [d \in {d1, d2, d3} |->
                   CASE d = d1 -> {} [] d = d2 -> {d3} [] d = d3 -> {d2, e1}]

=============================================================================
