--------------------------- MODULE MCIncidentViews ---------------------------
(***************************************************************************)
(* Instance of IncidentViews for TLC.  The reports mention an entity       *)
(* twice, on both sides, and the incident's own table.                     *)
(***************************************************************************)
EXTENDS IncidentViews, TLC

MCReports == {
  [timeline |-> <<"staging", "mart", "orders", "staging">>, blast |-> <<"mart", "board">>],
  [timeline |-> <<"orders", "staging">>, blast |-> <<"orders", "board", "board">>]}

MCSymmetry == Permutations(Incidents)
=============================================================================
