---------------------------- MODULE IncidentViews ----------------------------
(***************************************************************************)
(* What readers see of the incidents while the worker opens and completes  *)
(* them: the detail page with its graph (three statements), the paged list *)
(* (one statement a page), and scripts/wait_for_incident.py, which polls   *)
(* for the latest incident.  Statements are READ COMMITTED: each sees what *)
(* was committed when it began.                                            *)
(***************************************************************************)
EXTENDS Integers, Sequences, FiniteSets

CONSTANTS
  Incidents,  \* rows the worker may open
  Times,      \* values of triggered_at, to the millisecond
  Entities,
  Reports,    \* timeline and blast radius of reports
  Root,       \* table_fqn
  PageSize,   \* of the list
  MaxPolls,   \* polls before wait_for_incident's deadline
  None

NoChildren == [timeline |-> <<>>, blast |-> <<>>]

ASSUME TimesAssumption == Times \subseteq Nat
ASSUME FiniteAssumption == IsFiniteSet(Incidents)
ASSUME ReportsAssumption ==
  Reports \subseteq [timeline : Seq(Entities), blast : Seq(Entities)]
ASSUME SizesAssumption == PageSize \in Nat \ {0} /\ MaxPolls \in Nat
ASSUME NoneAssumption == None \notin Incidents

VARIABLES
  status,     \* the table incidents: per row "absent", "PROCESSING", "COMPLETE"
  triggered,  \* per row: triggered_at
  children,   \* per row: its rows of timeline_events and blast_radius_consumers
  reader,     \* "page", "list" or "wait".  Readers change nothing, so one at a
              \* time shows what any number of them sees
  pc,         \* how far the reader is
  view,       \* page: what it has read
  page,       \* list: the page asked for next
  shown,      \* list: the incidents on the pages so far
  baseline, seenNonComplete,
  polls,      \* wait: how often it has asked
  answer,     \* wait: the last incident it got, with its status
  before      \* history: what was there (list) or complete (wait) at first

rows    == <<status, triggered, children>>
readers == <<pc, view, page, shown, baseline, seenNonComplete, polls, answer, before>>
vars    == <<rows, reader, readers>>

Present == {i \in Incidents : status[i] # "absent"}
Complete == {i \in Incidents : status[i] = "COMPLETE"}
Latest  == {i \in Present : \A j \in Present : triggered[j] <= triggered[i]}

NoView == [incident |-> None, status |-> "absent", timeline |-> <<>>, blast |-> <<>>]
NoAnswer == [incident |-> None, status |-> "absent"]

Init ==
  /\ status = [i \in Incidents |-> "absent"]
  /\ triggered \in [Incidents -> Times]
  /\ children = [i \in Incidents |-> NoChildren]
  /\ reader \in {"page", "list", "wait"}
  /\ pc = "idle" /\ view = NoView
  /\ page = 1 /\ shown = {}
  /\ baseline = None /\ seenNonComplete = FALSE /\ polls = 0 /\ answer = NoAnswer
  /\ before = {}

-----------------------------------------------------------------------------
\* The worker's commits.  triggered_at is the event's time, not the commit's.
Open(i) ==
  /\ status[i] = "absent" /\ status' = [status EXCEPT ![i] = "PROCESSING"]
  /\ UNCHANGED <<triggered, children, reader, readers>>

\* The report's columns and the child rows, in one transaction.
Finish(i, report) ==
  /\ status[i] = "PROCESSING" /\ status' = [status EXCEPT ![i] = "COMPLETE"]
  /\ children' = [children EXCEPT ![i] = report]
  /\ UNCHANGED <<triggered, reader, readers>>

-----------------------------------------------------------------------------
\* GET /incidents/{id}: get_incident_detail
Reads(who, from, to) ==
  /\ reader = who /\ pc = from /\ pc' = to /\ UNCHANGED <<rows, reader>>

NoPage == UNCHANGED view
NoList == UNCHANGED <<page, shown>>
NoWait == UNCHANGED <<baseline, seenNonComplete, polls, answer>>

GetIncident(i) ==
  /\ Reads("page", "idle", IF status[i] = "absent" THEN "notFound" ELSE "timeline")
  /\ view' = [NoView EXCEPT !.incident = i, !.status = status[i]]
  /\ NoList /\ NoWait /\ UNCHANGED before

GetTimeline ==
  /\ Reads("page", "timeline", "blast")
  /\ view' = [view EXCEPT !.timeline = children[view.incident].timeline]
  /\ NoList /\ NoWait /\ UNCHANGED before

\* Mutant: the incident is refreshed at the end.
GetBlastRadiusRefreshing ==
  /\ Reads("page", "blast", "rendered")
  /\ view' = [view EXCEPT !.blast = children[view.incident].blast,
                          !.status = status[view.incident]]
  /\ NoList /\ NoWait /\ UNCHANGED before

GetBlastRadius ==
  /\ Reads("page", "blast", "rendered")
  /\ view' = [view EXCEPT !.blast = children[view.incident].blast]
  /\ NoList /\ NoWait /\ UNCHANGED before

\* The graph of the page: an entity is shown once, as the root, or else as a
\* consumer downstream of it, or else as an event upstream.  (Every mention of
\* it in the lists has an edge; here equal edges are one.)
Mentioned(seq) == {seq[n] : n \in DOMAIN seq}

\* Mutant: consumers are not left out of the events.
UpstreamWithConsumers(v) == Mentioned(v.timeline) \ {Root}

Upstream(v) == Mentioned(v.timeline) \ ({Root} \cup Mentioned(v.blast))

Nodes(v) ==
  [e \in {Root} \cup Upstream(v) \cup Mentioned(v.blast) |->
    IF e = Root THEN "root" ELSE IF e \in Upstream(v) THEN "upstream" ELSE "downstream"]

Edges(v) == (Upstream(v) \X {Root}) \cup ({Root} \X Mentioned(v.blast))

-----------------------------------------------------------------------------
\* GET /incidents?page=: list_incidents.  The order of rows with the same
\* triggered_at is the database's, and may differ from page to page.
Offset(p) == (IF p > 1 THEN p - 1 ELSE 0) * PageSize

Precede(first, second) == \A i \in first, j \in second : triggered[i] >= triggered[j]

AtMost(n, S) == IF Cardinality(S) < n THEN Cardinality(S) ELSE n

Browse(listed) ==
  /\ page' = page + 1 /\ shown' = shown \cup listed
  /\ before' = IF page = 1 THEN Present ELSE before
  /\ NoPage /\ NoWait

\* Mutant: finished incidents are listed last.
ListPageByStatus(skipped, listed) ==
  /\ Reads("list", "idle", IF Cardinality(listed) < PageSize THEN "listed" ELSE "idle")
  /\ skipped \cup listed \subseteq Present /\ skipped \cap listed = {}
  /\ Cardinality(skipped) = AtMost(Offset(page), Present)
  /\ Cardinality(listed) = AtMost(PageSize, Present \ skipped)
  /\ \A i \in skipped, j \in Present \ skipped : i \in Complete => j \in Complete
  /\ \A i \in listed, j \in Present \ (skipped \cup listed) : i \in Complete => j \in Complete
  /\ Browse(listed)

\* One page; who browses goes on until a page is not full.
ListPage(skipped, listed) ==
  /\ Reads("list", "idle", IF Cardinality(listed) < PageSize THEN "listed" ELSE "idle")
  /\ skipped \cup listed \subseteq Present /\ skipped \cap listed = {}
  /\ Cardinality(skipped) = AtMost(Offset(page), Present)
  /\ Cardinality(listed) = AtMost(PageSize, Present \ skipped)
  /\ Precede(skipped, Present \ skipped)
  /\ Precede(listed, Present \ (skipped \cup listed))
  /\ Browse(listed)

-----------------------------------------------------------------------------
\* scripts/wait_for_incident.py on GET /api/incidents/latest.  Of several latest
\* rows the database picks one.
Got(i) ==
  /\ polls' = polls + 1
  /\ answer' = [incident |-> i, status |-> status[i]]
  /\ before' = IF baseline = None THEN Complete ELSE before
  /\ NoPage /\ NoList

\* The incident that is complete, but was so from the start.
Old(i) == ~seenNonComplete /\ (baseline = None \/ baseline = i)

\* Mutant: the baseline is the incident seen last.
PollFollowing(i) ==
  /\ polls < MaxPolls /\ i \in Latest
  /\ Reads("wait", "idle", IF status[i] = "COMPLETE" /\ ~Old(i) THEN "done" ELSE "idle")
  /\ baseline' = IF seenNonComplete THEN baseline ELSE i
  /\ seenNonComplete' = FALSE
  /\ Got(i)

\* Mutant: any complete incident will do.
PollAny(i) ==
  /\ polls < MaxPolls /\ i \in Latest
  /\ Reads("wait", "idle", IF status[i] = "COMPLETE" THEN "done" ELSE "idle")
  /\ baseline' = IF baseline = None THEN i ELSE baseline
  /\ seenNonComplete' = (seenNonComplete \/ status[i] # "COMPLETE")
  /\ Got(i)

\* Mutant: the deadline is not looked at.
PollForever(i) ==
  /\ i \in Latest
  /\ Reads("wait", "idle", IF status[i] = "COMPLETE" /\ ~Old(i) THEN "done" ELSE "idle")
  /\ baseline' = IF baseline = None THEN i ELSE baseline
  /\ seenNonComplete' = (seenNonComplete \/ status[i] # "COMPLETE")
  /\ Got(i)

Poll(i) ==
  /\ polls < MaxPolls /\ i \in Latest
  /\ Reads("wait", "idle", IF status[i] = "COMPLETE" /\ ~Old(i) THEN "done" ELSE "idle")
  /\ baseline' = IF baseline = None THEN i ELSE baseline
  /\ seenNonComplete' = (seenNonComplete \/ status[i] # "COMPLETE")
  /\ Got(i)

\* No incident (404), another status, or an exception: no answer.
PollUnanswered ==
  /\ polls < MaxPolls /\ polls' = polls + 1
  /\ Reads("wait", "idle", "idle")
  /\ NoPage /\ NoList /\ UNCHANGED <<baseline, seenNonComplete, answer, before>>

Deadline ==
  /\ Reads("wait", "idle", "timeout")
  /\ NoPage /\ NoList /\ NoWait /\ UNCHANGED before

-----------------------------------------------------------------------------
Next ==
  \/ \E i \in Incidents : Open(i) \/ GetIncident(i) \/ Poll(i)
  \/ \E i \in Incidents, report \in Reports : Finish(i, report)
  \/ \E skipped, listed \in SUBSET Incidents : ListPage(skipped, listed)
  \/ GetTimeline \/ GetBlastRadius \/ PollUnanswered \/ Deadline

Spec == Init /\ [][Next]_vars

-----------------------------------------------------------------------------
Statuses == {"absent", "PROCESSING", "COMPLETE"}

\* The types of the rows and of the readers' state.
TypeOK ==
  /\ status \in [Incidents -> Statuses]
  /\ triggered \in [Incidents -> Times]
  /\ children \in [Incidents -> Reports \cup {NoChildren}]
  /\ reader \in {"page", "list", "wait"}
  /\ pc \in {"idle", "timeline", "blast", "rendered", "notFound", "listed", "done", "timeout"}
  /\ view.incident \in Incidents \cup {None} /\ view.status \in Statuses
  /\ page \in Nat /\ shown \subseteq Incidents
  /\ baseline \in Incidents \cup {None} /\ seenNonComplete \in BOOLEAN
  /\ polls \in 0..MaxPolls
  /\ answer \in [incident : Incidents \cup {None}, status : Statuses]
  /\ before \subseteq Incidents

\* A page that says COMPLETE shows all of the report, and one that shows the
\* timeline shows the blast radius with it: the worker's commit cannot fall
\* between the statements so that the page claims more than it shows
\* (app/services/incident_store.py:47-55).
PageIsWhole ==
  pc = "rendered" =>
    /\ view.status = "COMPLETE" => view.timeline = children[view.incident].timeline
    /\ view.status = "COMPLETE" \/ view.timeline # <<>> =>
         view.blast = children[view.incident].blast

\* The graph of any page, also of one torn by a commit, flows from upstream to
\* the root to downstream: an edge joins the root and a node on its side, and
\* every other node has an edge on one side only (services/graph_builder.py:114-132).
\* (A report with the table among its own consumers has an edge from root to root.)
GraphFlows ==
  pc = "rendered" =>
    /\ \A edge \in Edges(view) :
         /\ {edge[1], edge[2]} \subseteq DOMAIN Nodes(view)
         /\ edge[2] = Root => Nodes(view)[edge[1]] \in {"upstream", "root"}
         /\ edge[1] = Root => Nodes(view)[edge[2]] \in {"downstream", "root"}
    /\ \A e \in DOMAIN Nodes(view) \ {Root} :
         <<e, Root>> \in Edges(view) <=> <<Root, e>> \notin Edges(view)

\* Who pages through the list misses no incident that was there at the start,
\* whatever is opened and completed meanwhile, unless it shares its
\* triggered_at with another (app/services/incident_store.py:7-17).
Alone(i) == \A j \in Present \ {i} : triggered[j] # triggered[i]

BrowsingMissesNone ==
  pc = "listed" => \A i \in before : Alone(i) => i \in shown

\* A wait passes over an incident only if it was complete at the first answer
\* (scripts/wait_for_incident.py:27-46).
WaitPassesOnlyOld ==
  pc \in {"idle", "timeout"} /\ answer.status = "COMPLETE" => answer.incident \in before

\* "Avoid false-positive completion when latest incident was already complete
\* before" (knowledge/sprint-progress/sprint-4-progress.md:98): the incident a
\* wait ends with was not complete at the first answer.  One with another's
\* triggered_at may have been: the database may give either as the latest.
WaitEndsWithNew ==
  pc = "done" => answer.incident \notin before \/ ~Alone(answer.incident)
=============================================================================
