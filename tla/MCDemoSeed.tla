----------------------------- MODULE MCDemoSeed -----------------------------
(***************************************************************************)
(* Instances of DemoSeed for TLC: one entry of every kind, in the order    *)
(* and with the needs of seed_demo.py.                                     *)
(***************************************************************************)
EXTENDS DemoSeed

MCEntry(item, kind, job, step) == [item |-> item, kind |-> kind, job |-> job, step |-> step]

MCPlan == <<
  MCEntry("table", "entity", 1, 1), MCEntry("pipeline", "pipeline", 2, 2),
  MCEntry("edge", "edge", 3, 3), MCEntry("status", "status", 4, 4),
  MCEntry("notNull", "builtin", 5, 5), MCEntry("suite", "suite", 5, 5),
  MCEntry("nullCheck", "case", 5, 5),
  MCEntry("freshness", "definition", 6, 5) >>

MCNeeds == [
  table |-> {}, pipeline |-> {}, edge |-> {"pipeline", "table"}, status |-> {"pipeline"},
  notNull |-> {}, suite |-> {"table"}, nullCheck |-> {"suite", "notNull"},
  freshness |-> {}]
=============================================================================
