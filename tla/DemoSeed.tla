------------------------------- MODULE DemoSeed -------------------------------
(***************************************************************************)
(* POST /api/demo/trigger (app/routers/dashboard.py): each call waits for  *)
(* OpenMetadata, seeds the demo's entities and posts a failed test to the  *)
(* webhook, each in a script of its own.  Calls may overlap: every script  *)
(* looks for an entity and creates it some time later.                     *)
(***************************************************************************)
EXTENDS Integers, Sequences, FiniteSets

CONSTANTS
  Callers,     \* the calls of the endpoint
  Plan,        \* what seed_demo ensures, in order: item, kind, job and step
  Needs,       \* per item: what OpenMetadata must hold before it
  MaxPolls,    \* polls before wait_for_om's deadline
  MaxFaulty    \* bound: calls whose seeding meets failing requests

\* Services, databases, schemas, tables and dashboards; pipelines; lineage
\* edges; pipeline statuses; test definitions with a payload and without;
\* test suites; test cases.
Kinds == {"entity", "pipeline", "edge", "status", "definition", "builtin", "suite", "case"}

ASSUME PlanAssumption ==
  Plan \in Seq([item : DOMAIN Needs, kind : Kinds, job : Nat, step : Nat])

\* The order of the steps and, in a test case's job, of its entries: what an
\* entry needs comes before it.  Test definitions and suites occur in several
\* jobs, each time as the same kind; each call of _ensure_entity is a job.
ASSUME PlanOrderAssumption ==
  \A i \in DOMAIN Plan :
    /\ \A item \in Needs[Plan[i].item] : \E j \in 1..(i - 1) : Plan[j].item = item
    /\ \A j \in DOMAIN Plan :
         /\ Plan[j].item = Plan[i].item => Plan[j].kind = Plan[i].kind
         /\ Plan[j].job = Plan[i].job /\ Plan[i].kind = "entity" => j = i
ASSUME BoundsAssumption == MaxPolls \in Nat /\ MaxFaulty \in Nat

VARIABLES
  seeded,     \* what OpenMetadata holds
  queued,     \* rca_task messages the webhook has queued
  pc,         \* per call: "idle", the script's state, or the answer
  polls,
  pos,        \* seed_demo: the entry of Plan it is at
  summary,    \* seed_demo: its counters
  faulty,     \* history: the calls whose seeding met a failing request
  whole       \* history: everything was there when its seeding began

scriptVars == <<polls, pos, summary, faulty, whole>>
vars == <<seeded, queued, pc, scriptVars>>

Items == {Plan[i].item : i \in DOMAIN Plan}
Done  == Len(Plan) + 1

Init ==
  /\ seeded \in {{}, {Plan[i].item : i \in {j \in DOMAIN Plan : Plan[j].kind = "builtin"}}}
  /\ queued = 0
  /\ pc = [c \in Callers |-> "idle"]
  /\ polls = [c \in Callers |-> 0]
  /\ pos = [c \in Callers |-> 1]
  /\ summary = [c \in Callers |-> [created |-> 0, existing |-> 0, failed |-> 0]]
  /\ faulty = {}
  /\ whole = [c \in Callers |-> FALSE]

-----------------------------------------------------------------------------
\* The endpoint runs the scripts one after the other; one that does not exit
\* with 0 makes it answer 500.
Goto(c, from, to) == pc[c] = from /\ pc' = [pc EXCEPT ![c] = to]

Start(c) ==
  /\ Goto(c, "idle", "wait")
  /\ UNCHANGED <<seeded, queued, scriptVars>>

\* Mutant: the deadline is computed anew in every round.
PollForever(c) ==
  \/ /\ Goto(c, "wait", "look")
     /\ whole' = [whole EXCEPT ![c] = Items \subseteq seeded]
     /\ polls' = [polls EXCEPT ![c] = 0]
     /\ UNCHANGED <<seeded, queued, pos, summary, faulty>>
  \/ /\ Goto(c, "wait", "wait")
     /\ polls' = [polls EXCEPT ![c] = (@ + 1) % (MaxPolls + 1)]
     /\ UNCHANGED <<seeded, queued, pos, summary, faulty, whole>>

\* wait_for_om: any answer but 200, a 401 answered twice included, and any
\* exception means another round.
Poll(c) ==
  \/ /\ Goto(c, "wait", "look")
     /\ whole' = [whole EXCEPT ![c] = Items \subseteq seeded]
     /\ polls' = [polls EXCEPT ![c] = 0]
     /\ UNCHANGED <<seeded, queued, pos, summary, faulty>>
  \/ /\ Goto(c, "wait", IF polls[c] < MaxPolls THEN "wait" ELSE "failed")
     /\ polls' = [polls EXCEPT ![c] = IF @ < MaxPolls THEN @ + 1 ELSE @]
     /\ UNCHANGED <<seeded, queued, pos, summary, faulty, whole>>

-----------------------------------------------------------------------------
\* seed_demo
Entry(c) == Plan[pos[c]]

\* The first entry after i that is of another job, or of another step.
NextJob(i) ==
  LET later == {j \in DOMAIN Plan : j > i /\ Plan[j].job # Plan[i].job} IN
  IF later = {} THEN Done ELSE CHOOSE j \in later : \A k \in later : j <= k
NextStep(i) ==
  LET later == {j \in DOMAIN Plan : j > i /\ Plan[j].step # Plan[i].step} IN
  IF later = {} THEN Done ELSE CHOOSE j \in later : \A k \in later : j <= k

Count(c, counter) == summary' = [summary EXCEPT ![c][counter] = @ + 1]

\* The entry is there: on to the next.  The seeding ends after the last.
Settled(c, from, counter) ==
  /\ Goto(c, from, "look") /\ Count(c, counter)
  /\ pos' = [pos EXCEPT ![c] = @ + 1]
  /\ UNCHANGED <<queued, polls, whole>>

\* Mutant: what failed is tried again, without end.
FailedRetrying(c, from) ==
  /\ Goto(c, from, "look") /\ Count(c, "failed")
  /\ UNCHANGED <<queued, polls, pos, whole>>

\* The entry fails, and with it what is left of its job.
Failed(c, from) ==
  /\ Goto(c, from, "look") /\ Count(c, "failed")
  /\ pos' = [pos EXCEPT ![c] = NextJob(@)]
  /\ UNCHANGED <<queued, polls, whole>>

Fault(c) == faulty' = faulty \cup {c} /\ Cardinality(faulty') <= MaxFaulty

\* Mutant: a step that raises is logged but not counted.
AbortedUncounted(c, from) ==
  /\ Goto(c, from, "look")
  /\ pos' = [pos EXCEPT ![c] = NextStep(@)]
  /\ UNCHANGED <<queued, polls, summary, whole>>

\* What no ensure function catches ends the step.
Aborted(c, from) ==
  /\ Goto(c, from, "look") /\ Count(c, "failed")
  /\ pos' = [pos EXCEPT ![c] = NextStep(@)]
  /\ UNCHANGED <<queued, polls, whole>>

\* The lookup of the entry.
Found(c) ==
  /\ Entry(c).item \in seeded
  /\ Settled(c, "look", "existing") /\ UNCHANGED <<seeded, faulty>>

NotFound(c) ==
  /\ Entry(c).item \notin seeded
  /\ Goto(c, "look", "make") /\ UNCHANGED <<seeded, queued, scriptVars>>

LookupFails(c) ==
  Fault(c) /\ (Failed(c, "look") \/ Aborted(c, "look")) /\ UNCHANGED seeded

LookUp(c) == Found(c) \/ NotFound(c) \/ LookupFails(c)

\* The request that creates it.  OpenMetadata creates the entry, or answers 404
\* for want of something needed, or with an error.  Without an answer (timeout,
\* connection) it may have taken effect, and the step ends.
Create(c) ==
  \/ /\ Entry(c).item \notin seeded /\ Needs[Entry(c).item] \subseteq seeded
     /\ seeded' = seeded \cup {Entry(c).item}
     /\ Settled(c, "make", "created") /\ UNCHANGED faulty
  \/ /\ ~(Needs[Entry(c).item] \subseteq seeded)
     /\ Failed(c, "make") /\ UNCHANGED <<seeded, faulty>>
  \/ Fault(c) /\ Failed(c, "make") /\ UNCHANGED seeded
  \/ Fault(c) /\ Aborted(c, "make") /\ UNCHANGED seeded
  \/ /\ Fault(c) /\ Aborted(c, "make")
     /\ Needs[Entry(c).item] \subseteq seeded
     /\ seeded' = seeded \cup {Entry(c).item}

\* Another seeding was faster: a POST conflicts (409), a PUT updates.
Conflict(c) == pc[c] = "make" /\ Entry(c).item \in seeded /\ UNCHANGED <<seeded, faulty>>

Updated(c)        == Conflict(c) /\ Settled(c, "make", "created")
ConflictExists(c) == Conflict(c) /\ Settled(c, "make", "existing")
ConflictFails(c)  == Conflict(c) /\ Failed(c, "make")

Of(c, kind) == pos[c] < Done /\ Entry(c).kind = kind

EnsureEntity(c) ==
  Of(c, "entity") /\ (LookUp(c) \/ Create(c) \/ ConflictFails(c))

EnsurePipeline(c) == Of(c, "pipeline") /\ (LookUp(c) \/ Create(c) \/ Updated(c))

\* Edges and statuses look for what they belong to first; nothing is deleted,
\* so these lookups and the one of the entry are one step.
EndMissing(c) ==
  /\ ~(Needs[Entry(c).item] \subseteq seeded)
  /\ Failed(c, "look") /\ UNCHANGED <<seeded, faulty>>

AfterEnds(c) ==
  \/ Found(c) \/ LookupFails(c) \/ EndMissing(c)
  \/ (Needs[Entry(c).item] \subseteq seeded /\ NotFound(c))

\* A request for an edge that is refused as bad (400) counts as a conflict.
BadRequest(c) ==
  Fault(c) /\ Settled(c, "make", "existing") /\ UNCHANGED seeded

\* Mutant: the ends of the existing edges are compared the wrong way round.
EnsureEdgeAgain(c) ==
  /\ Of(c, "edge")
  /\ \/ /\ Needs[Entry(c).item] \subseteq seeded
        /\ Goto(c, "look", "make") /\ UNCHANGED <<seeded, queued, scriptVars>>
     \/ LookupFails(c) \/ EndMissing(c) \/ Create(c) \/ Updated(c)
     \/ ConflictExists(c) \/ BadRequest(c)

EnsureEdge(c) ==
  /\ Of(c, "edge")
  /\ AfterEnds(c) \/ Create(c) \/ Updated(c) \/ ConflictExists(c) \/ BadRequest(c)

EnsureStatus(c) ==
  /\ Of(c, "status")
  /\ AfterEnds(c) \/ Create(c) \/ Updated(c) \/ ConflictExists(c)

\* A definition that OpenMetadata should bring along is not created.
EnsureBuiltin(c) ==
  /\ Of(c, "builtin")
  /\ \/ Found(c) \/ LookupFails(c)
     \/ /\ Entry(c).item \notin seeded
        /\ Failed(c, "look") /\ UNCHANGED <<seeded, faulty>>

EnsureDefinition(c) ==
  /\ Of(c, "definition")
  /\ LookUp(c) \/ Create(c) \/ ConflictExists(c)

\* Mutant: a conflict on a test suite is a failure.
EnsureSuiteFailing(c) ==
  Of(c, "suite") /\ (LookUp(c) \/ Create(c) \/ ConflictFails(c))

EnsureSuite(c) ==
  /\ Of(c, "suite")
  /\ LookUp(c) \/ Create(c) \/ ConflictExists(c)

EnsureTestCase(c) ==
  /\ Of(c, "case")
  /\ LookUp(c) \/ Create(c) \/ ConflictExists(c)

Ensure(c) ==
  \/ EnsureEntity(c) \/ EnsurePipeline(c) \/ EnsureEdge(c) \/ EnsureStatus(c)
  \/ EnsureBuiltin(c) \/ EnsureDefinition(c) \/ EnsureSuite(c) \/ EnsureTestCase(c)

\* The script exits with 1 if anything failed.
ExitSeed(c) ==
  /\ pos[c] = Done
  /\ Goto(c, "look", IF summary[c].failed > 0 THEN "failed" ELSE "trigger")
  /\ UNCHANGED <<seeded, queued, scriptVars>>

-----------------------------------------------------------------------------
\* trigger_demo: only an exception makes the script fail; whatever status the
\* webhook answers with, it exits with 0.
Trigger(c) ==
  /\ \/ Goto(c, "trigger", "success") /\ queued' = queued + 1
     \/ Goto(c, "trigger", "success") /\ UNCHANGED queued
     \/ Goto(c, "trigger", "failed") /\ queued' \in {queued, queued + 1}
  /\ UNCHANGED <<seeded, scriptVars>>

Proceed(c) == Poll(c) \/ Ensure(c) \/ ExitSeed(c) \/ Trigger(c)

Next == \E c \in Callers : Start(c) \/ Proceed(c)

Spec == Init /\ [][Next]_vars

\* Every request of the scripts has a timeout.
FairSpec == Spec /\ \A c \in Callers : WF_vars(Proceed(c))

-----------------------------------------------------------------------------
\* The types of the calls' state; a seeding counts no entry twice.
TypeOK ==
  /\ seeded \subseteq Items /\ queued \in Nat
  /\ pc \in [Callers -> {"idle", "wait", "look", "make", "trigger", "success", "failed"}]
  /\ polls \in [Callers -> 0..MaxPolls]
  /\ pos \in [Callers -> 1..Done]
  /\ summary \in [Callers -> [{"created", "existing", "failed"} -> 0..Len(Plan)]]
  /\ faulty \subseteq Callers
  /\ whole \in [Callers -> BOOLEAN]

\* A seeding that reports no failure has accounted for every entry, and all of
\* the demo is in OpenMetadata, but for a lineage edge whose request was refused
\* as bad and taken for a conflict (scripts/seed_demo.py:797, 955-980).
SuccessMeansSeeded ==
  \A c \in Callers : pc[c] \in {"trigger", "success"} =>
    /\ \A i \in DOMAIN Plan :
         Plan[i].item \in seeded \/ (Plan[i].kind = "edge" /\ c \in faulty)
    /\ summary[c].created + summary[c].existing = Len(Plan)

\* Overlapping seedings get in each other's way only in the counters: one that
\* met no failing request ends with everything in place, its conflicts
\* included, if OpenMetadata has the definitions it should bring along
\* (scripts/seed_demo.py:305-316, 463-466, 522-525).
OverlapLosesNothing ==
  \A c \in Callers :
    /\ pos[c] = Done /\ c \notin faulty
    /\ \A i \in DOMAIN Plan : Plan[i].kind = "builtin" => Plan[i].item \in seeded
    => Items \subseteq seeded

\* "Idempotent": seeding what is already there creates nothing and fails
\* nowhere, however many calls do it at the same time
\* (knowledge/sprint-tickets/sprint-2.md:208).
ReseedIsQuiet ==
  \A c \in Callers : whole[c] /\ c \notin faulty =>
    summary[c].created = 0 /\ summary[c].failed = 0

\* Each step brings one call nearer to its answer: on to the next script, a poll
\* nearer to the deadline, from the lookup of an entry to its creation, or past
\* the entry.  Nothing of the others' makes a seeding go back, or an entry be
\* tried again (scripts/seed_demo.py:955-973).
Advances(c) ==
  \/ pc[c] = "idle" /\ pc'[c] = "wait"
  \/ pc[c] = "wait" /\ (pc'[c] \in {"look", "failed"} \/ (pc'[c] = "wait" /\ polls'[c] > polls[c]))
  \/ /\ pc[c] \in {"look", "make"}
     /\ \/ pos'[c] > pos[c] /\ pc'[c] = "look"
        \/ pos'[c] = pos[c] /\ pc[c] = "look" /\ pc'[c] \in {"make", "trigger", "failed"}
  \/ pc[c] = "trigger" /\ pc'[c] \in {"success", "failed"}

SomeCallAdvances ==
  [][\E c \in Callers :
       /\ Advances(c)
       /\ \A d \in Callers \ {c} : pc'[d] = pc[d] /\ pos'[d] = pos[d] /\ polls'[d] = polls[d]]_vars

\* Every call of the endpoint is answered, also when OpenMetadata never is
\* ready (scripts/wait_for_om.py:61-99, app/routers/dashboard.py:131-160).
CallAnswered == <>[](\A c \in Callers : pc[c] \in {"idle", "success", "failed"})

-----------------------------------------------------------------------------
\* "Demo incident triggered successfully" (app/routers/dashboard.py:159): the
\* answer is given only to a call whose webhook has queued a task.
SuccessMeansTriggered == Cardinality({c \in Callers : pc[c] = "success"}) <= queued
=============================================================================
