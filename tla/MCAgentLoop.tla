----------------------------- MODULE MCAgentLoop -----------------------------
(***************************************************************************)
(* Instances of AgentLoop for TLC: an OpenMetadata call and a call to      *)
(* find_past_incidents, the confidence scores at the label boundaries, and *)
(* counts the model may under- or overstate.                               *)
(***************************************************************************)
EXTENDS AgentLoop

CONSTANTS om, past   \* the two calls

MCScores == {20, 59, 60, 85}
MCClaims == {0, 9}
=============================================================================
