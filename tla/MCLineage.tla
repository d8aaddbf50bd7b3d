------------------------------ MODULE MCLineage ------------------------------
(***************************************************************************)
(* Instances of Lineage for TLC: a table t, known by its name with the     *)
(* default schema, and four other nodes, the fewest among which an         *)
(* unordered search can misplace one.                                      *)
(***************************************************************************)
EXTENDS Lineage, TLC

CONSTANTS t, a, b, c, d

MCLong    == <<"service", "db", "default", "orders">>
MCDrafts  == <<"service", "db", "drafts">>
MCNames   == {MCLong, <<"service", "db", "orders">>, <<"service", "db", "audit", "orders">>, MCDrafts}

\* A table without an id hides the one of the same name in the default schema.
MCCatalog == MCLong :> t @@ MCDrafts :> NoId @@ <<"service", "db", "default", "drafts">> :> a

\* Every acyclic graph in which t comes first, and two edges that close cycles;
\* and the same graphs with t last.
MCEdges == {<<t, a>>, <<t, b>>, <<t, c>>, <<a, b>>, <<a, c>>, <<a, d>>,
            <<b, c>>, <<b, d>>, <<c, d>>} \cup {<<c, a>>, <<d, t>>}

Reversed == {<<e[2], e[1]>> : e \in MCEdges}

Response(nodes, list, directional) == [nodes |-> nodes, edges |-> list, directional |-> directional]

\* The response describes every node but b; its edges are the direction's, or
\* in one list, and may lack an end.
MCResponses ==
  [nodes : {Nodes \ {b}}, edges : {NoList}, directional : SUBSET MCEdges \cup SUBSET Reversed]
  \cup {Response(Nodes, {<<t, a>>, <<a, NoId>>, <<NoId, b>>, <<a, a>>}, NoList),
        Response(Nodes, NoList, NoList), Response(NoList, {}, {})}

MCRequested == {-1, 1, 2, 9, NotANumber}
=============================================================================
