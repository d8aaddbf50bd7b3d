---------------------------- MODULE IncidentLedger ----------------------------
(***************************************************************************)
(* What the worker promises about the incidents table and the two places   *)
(* an incident is announced in, Slack and OpenMetadata: a row is opened,   *)
(* completed at most once, announced in each place at most once and only   *)
(* when complete, and marked as announced only when it was.  Which task    *)
(* does what, and what fails or is repeated on the way, is left out.       *)
(***************************************************************************)
EXTENDS Integers, Sequences

CONSTANTS Tasks      \* the Celery tasks a row can be opened for

VARIABLES incidents, \* the rows of the incidents table, in order of creation
          posted     \* per row, how often each channel got it

vars == <<incidents, posted>>

Channels      == {"slack", "om"}
NothingPosted == [ch \in Channels |-> 0]

\* announced[ch] stands for slack_notified and for om_incident_id being set.
NewRow(t) == [task |-> t, status |-> "PROCESSING", announced |-> [ch \in Channels |-> FALSE]]

Row == [task : Tasks, status : {"PROCESSING", "COMPLETE"}, announced : [Channels -> BOOLEAN]]

Init == incidents = <<>> /\ posted = <<>>

Open(t) ==
  /\ incidents' = Append(incidents, NewRow(t))
  /\ posted' = Append(posted, NothingPosted)

Complete(i) ==
  /\ incidents[i].status = "PROCESSING"
  /\ incidents' = [incidents EXCEPT ![i].status = "COMPLETE"]
  /\ UNCHANGED posted

Announce(i, ch) ==
  /\ incidents[i].status = "COMPLETE" /\ posted[i][ch] = 0
  /\ posted' = [posted EXCEPT ![i][ch] = 1]
  /\ UNCHANGED incidents

Mark(i, ch) ==
  /\ posted[i][ch] = 1
  /\ incidents' = [incidents EXCEPT ![i].announced[ch] = TRUE]
  /\ UNCHANGED posted

Next == \/ \E t \in Tasks : Open(t)
        \/ \E i \in DOMAIN incidents :
             Complete(i) \/ \E ch \in Channels : Announce(i, ch) \/ Mark(i, ch)

Spec == Init /\ [][Next]_vars
=============================================================================
