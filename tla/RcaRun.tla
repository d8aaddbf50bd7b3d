------------------------------- MODULE RcaRun -------------------------------
(***************************************************************************)
(* What one run of the RCA agent promises its caller, the Celery task:     *)
(* evidence only accumulates, no call is executed twice, a repeated call   *)
(* reports the outcome of its first execution, and the run ends either     *)
(* with one report that agrees with the evidence or with an exception.     *)
(* Nothing is said of prompts, retries or the transcript.                  *)
(***************************************************************************)
EXTENDS Integers, Sequences

CONSTANTS Calls,          \* the distinct tool calls, a name with its arguments
          MaxIterations   \* settings.llm_max_iterations

VARIABLES phase,      \* "running", "reported" or "aborted"
          evidence,   \* the tool calls logged so far, in order
          report      \* the RCAReport returned, NoReport before

vars == <<phase, evidence, report>>

Labels == {"LOW", "MEDIUM", "HIGH"}

\* Scores are in hundredths.
DeriveConfidenceLabel(score) ==
  IF score >= 85 THEN "HIGH" ELSE IF score >= 60 THEN "MEDIUM" ELSE "LOW"

NoReport == [kind |-> "none", score |-> 0, label |-> "LOW", toolCalls |-> 0, iterations |-> 0]

Report == [kind : {"parsed", "fallback"}, score : 0..100, label : Labels,
           toolCalls : Nat, iterations : Nat]

\* The report never claims less evidence than was logged, its label follows
\* from its score, and a fallback report is exact about the work done.
Sound(r, rows) ==
  /\ r.label = DeriveConfidenceLabel(r.score)
  /\ r.toolCalls >= Len(rows)
  /\ r.kind = "fallback" => /\ r.score = 20
                            /\ r.toolCalls = Len(rows)
                            /\ r.iterations <= MaxIterations

RowsOf(c, rows) == {i \in DOMAIN rows : rows[i].call = c}

Init == phase = "running" /\ evidence = <<>> /\ report = NoReport

Gather(c, ok) ==
  /\ phase = "running"
  /\ \A i \in RowsOf(c, evidence) : evidence[i].success = ok
  /\ evidence' = Append(evidence, [call |-> c, success |-> ok,
                                   cached |-> RowsOf(c, evidence) # {}])
  /\ UNCHANGED <<phase, report>>

Conclude ==
  /\ phase = "running"
  /\ phase' = "reported"
  /\ report' \in Report /\ Sound(report', evidence)
  /\ UNCHANGED evidence

Abort ==
  /\ phase = "running"
  /\ phase' = "aborted"
  /\ UNCHANGED <<evidence, report>>

Next == \/ \E c \in Calls, ok \in BOOLEAN : Gather(c, ok)
        \/ Conclude \/ Abort

Spec == Init /\ [][Next]_vars
=============================================================================
