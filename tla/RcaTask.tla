------------------------------- MODULE RcaTask -------------------------------
(***************************************************************************)
(* From an accepted webhook to a finished incident: the Redis queue, the   *)
(* threads of the Celery worker running rca_task (worker/tasks.py), the    *)
(* incidents table (worker/persistence.py), Slack and OpenMetadata.        *)
(* Messages are acknowledged late, so a worker crash or the broker's       *)
(* visibility timeout makes a task run again.  The agent either returns a  *)
(* report or raises; module AgentLoop says how.                            *)
(***************************************************************************)
EXTENDS Integers, Sequences, FiniteSets

CONSTANTS
  Tasks,             \* ids of the task messages, one per accepted webhook
  Threads,           \* the threads of the worker (--pool=threads)
  NoTask,            \* an idle thread's task
  MaxCrashes,        \* bound: worker crashes
  MaxEarlyRestores   \* bound: messages restored although their thread still runs

ASSUME TaskAssumption == NoTask \notin Tasks
ASSUME ThreadAssumption == Threads \cap {"absent", "queued", "acked"} = {}
ASSUME BoundsAssumption == MaxCrashes \in Nat /\ MaxEarlyRestores \in Nat

VARIABLES
  broker,         \* per task: "absent", "queued", "acked", or the thread whose
                  \* unacknowledged delivery it is
  result,         \* per task: the state in the Celery result backend
  pc,             \* per thread: the next step of _run
  task,           \* per thread: the task it runs
  inc,            \* per thread: incident_id, 0 before the row is created
  incidents,      \* the incidents table
  posted,         \* per row: the Slack messages and OpenMetadata incidents made
  crashes, earlyRestores

vars == <<broker, result, pc, task, inc, incidents, posted, crashes, earlyRestores>>

queueVars == <<broker, result, task, crashes, earlyRestores>>

Ledger == INSTANCE IncidentLedger

Steps == {"idle", "create", "agent", "complete", "slack", "slackFlag", "om",
          "omId", "success", "failure", "ack"}

Init ==
  /\ broker = [t \in Tasks |-> "absent"]
  /\ result = [t \in Tasks |-> "PENDING"]
  /\ pc = [w \in Threads |-> "idle"]
  /\ task = [w \in Threads |-> NoTask]
  /\ inc = [w \in Threads |-> 0]
  /\ incidents = <<>> /\ posted = <<>>
  /\ crashes = 0 /\ earlyRestores = 0

At(w, from, to) == pc[w] = from /\ pc' = [pc EXCEPT ![w] = to]

\* An update of the session's rows and its commit.  The exception a failing
\* commit raises says nothing about whether PostgreSQL has committed.
Commit(w, from, to, rows) ==
  \/ At(w, from, to) /\ incidents' = rows
  \/ At(w, from, "failure") /\ incidents' \in {incidents, rows}

-----------------------------------------------------------------------------
\* The webhook accepts a testCaseFailed event; any other leaves no trace, and
\* neither does one whose delay() raises.
Webhook(t) ==
  /\ broker[t] = "absent"
  /\ broker' = [broker EXCEPT ![t] = "queued"]
  /\ UNCHANGED <<result, pc, task, inc, incidents, posted, crashes, earlyRestores>>

\* Mutant: the delivery is acknowledged when it is taken.
TakeAckingEarly(w, t) ==
  /\ broker[t] = "queued"
  /\ At(w, "idle", "create")
  /\ broker' = [broker EXCEPT ![t] = "acked"]
  /\ task' = [task EXCEPT ![w] = t]
  /\ UNCHANGED <<result, inc, incidents, posted, crashes, earlyRestores>>

Take(w, t) ==
  /\ broker[t] = "queued"
  /\ At(w, "idle", "create")
  /\ broker' = [broker EXCEPT ![t] = w]
  /\ task' = [task EXCEPT ![w] = t]
  /\ UNCHANGED <<result, inc, incidents, posted, crashes, earlyRestores>>

\* Mutant: a task that runs again takes over the row of its earlier run.
CreateIncidentReusing(w) ==
  LET old == {i \in DOMAIN incidents : incidents[i].task = task[w]} IN
  /\ At(w, "create", "agent")
  /\ inc' = [inc EXCEPT ![w] = IF old = {} THEN Len(incidents) + 1 ELSE CHOOSE i \in old : TRUE]
  /\ incidents' = IF old = {} THEN Append(incidents, Ledger!NewRow(task[w])) ELSE incidents
  /\ posted' = IF old = {} THEN Append(posted, Ledger!NothingPosted) ELSE posted
  /\ UNCHANGED queueVars

\* save_incident without an id always inserts.
CreateIncident(w) ==
  /\ Commit(w, "create", "agent", Append(incidents, Ledger!NewRow(task[w])))
  /\ posted' = IF incidents' = incidents THEN posted
               ELSE Append(posted, Ledger!NothingPosted)
  /\ inc' = IF pc'[w] = "agent" THEN [inc EXCEPT ![w] = Len(incidents) + 1] ELSE inc
  /\ UNCHANGED queueVars

\* Mutant: an exception frees the thread without ending the task.
RunAgentLosingThread(w) ==
  /\ At(w, "agent", "complete") \/ At(w, "agent", "idle")
  /\ UNCHANGED <<queueVars, inc, incidents, posted>>

\* Mutant: a run that failed is treated as a finished one.
RunAgentSwallowing(w) ==
  /\ At(w, "agent", "complete") \/ At(w, "agent", "success")
  /\ UNCHANGED <<queueVars, inc, incidents, posted>>

RunAgent(w) ==
  /\ At(w, "agent", "complete") \/ At(w, "agent", "failure")
  /\ UNCHANGED <<queueVars, inc, incidents, posted>>

\* Mutant: completing inserts a row instead of updating the run's own.
CompleteIncidentInserting(w) ==
  /\ Commit(w, "complete", "slack",
            Append(incidents, [Ledger!NewRow(task[w]) EXCEPT !.status = "COMPLETE"]))
  /\ UNCHANGED <<queueVars, inc, posted>>

\* save_incident with the report: status, report columns, timeline and blast
\* radius rows in one transaction.
CompleteIncident(w) ==
  /\ Commit(w, "complete", "slack", [incidents EXCEPT ![inc[w]].status = "COMPLETE"])
  /\ UNCHANGED <<queueVars, inc, posted>>

\* A failed post (None, False) may have arrived all the same.
Post(w, from, to, ch, otherwise) ==
  \/ /\ At(w, from, to)
     /\ posted' = [posted EXCEPT ![inc[w]][ch] = @ + 1]
  \/ /\ At(w, from, otherwise)
     /\ posted' \in {posted, [posted EXCEPT ![inc[w]][ch] = @ + 1]}

\* Mutant: a post that seems to have failed is repeated.
NotifySlackRepeating(w) ==
  /\ Post(w, "slack", "slackFlag", "slack", "slack")
  /\ posted[inc[w]]["slack"] < 2
  /\ UNCHANGED <<queueVars, inc, incidents>>

\* With Slack disabled nothing is posted: as when a post fails unreceived.
NotifySlack(w) ==
  /\ Post(w, "slack", "slackFlag", "slack", "om")
  /\ UNCHANGED <<queueVars, inc, incidents>>

SetSlackNotified(w) ==
  /\ Commit(w, "slackFlag", "om", [incidents EXCEPT ![inc[w]].announced["slack"] = TRUE])
  /\ UNCHANGED <<queueVars, inc, posted>>

CreateOmIncident(w) ==
  /\ Post(w, "om", "omId", "om", "success")
  /\ UNCHANGED <<queueVars, inc, incidents>>

SetOmIncidentId(w) ==
  /\ Commit(w, "omId", "success", [incidents EXCEPT ![inc[w]].announced["om"] = TRUE])
  /\ UNCHANGED <<queueVars, inc, posted>>

\* Celery stores the outcome of rca_task; a stored success stays.  No
\* autoretry_for is declared and the task never calls retry: an exception is
\* final.
StoreResult(w) ==
  /\ \/ At(w, "success", "ack") /\ result' = [result EXCEPT ![task[w]] = "SUCCESS"]
     \/ /\ At(w, "failure", "ack")
        /\ result' = [result EXCEPT ![task[w]] = IF @ = "SUCCESS" THEN @ ELSE "FAILURE"]
  /\ UNCHANGED <<broker, task, inc, incidents, posted, crashes, earlyRestores>>

\* Success and failure are both acknowledged.  The acknowledgement of a
\* delivery the broker has restored in the meantime acknowledges nothing.
Ack(w) ==
  /\ At(w, "ack", "idle")
  /\ broker' = IF broker[task[w]] = w THEN [broker EXCEPT ![task[w]] = "acked"] ELSE broker
  /\ task' = [task EXCEPT ![w] = NoTask]
  /\ inc' = [inc EXCEPT ![w] = 0]
  /\ UNCHANGED <<result, incidents, posted, crashes, earlyRestores>>

\* The worker process dies: every run and its open transaction are gone.
Crash ==
  /\ crashes < MaxCrashes /\ \E w \in Threads : pc[w] # "idle"
  /\ crashes' = crashes + 1
  /\ pc' = [w \in Threads |-> "idle"]
  /\ task' = [w \in Threads |-> NoTask]
  /\ inc' = [w \in Threads |-> 0]
  /\ UNCHANGED <<broker, result, incidents, posted, earlyRestores>>

\* The visibility timeout of an unacknowledged delivery: its thread died with
\* the worker, or is still at work.
Unacked(t)  == broker[t] \in Threads
Orphaned(t) == Unacked(t) /\ task[broker[t]] # t

RestoreOrphan(t) ==
  /\ Orphaned(t)
  /\ broker' = [broker EXCEPT ![t] = "queued"]
  /\ UNCHANGED <<result, pc, task, inc, incidents, posted, crashes, earlyRestores>>

RestoreEarly(t) ==
  /\ Unacked(t) /\ ~Orphaned(t) /\ earlyRestores < MaxEarlyRestores
  /\ broker' = [broker EXCEPT ![t] = "queued"]
  /\ earlyRestores' = earlyRestores + 1
  /\ UNCHANGED <<result, pc, task, inc, incidents, posted, crashes>>

Run(w) ==
  \/ CreateIncident(w) \/ RunAgent(w) \/ CompleteIncident(w)
  \/ NotifySlack(w) \/ SetSlackNotified(w) \/ CreateOmIncident(w) \/ SetOmIncidentId(w)
  \/ StoreResult(w) \/ Ack(w)

Next ==
  \/ \E t \in Tasks : Webhook(t) \/ RestoreOrphan(t) \/ RestoreEarly(t)
  \/ \E w \in Threads, t \in Tasks : Take(w, t)
  \/ \E w \in Threads : Run(w)
  \/ Crash

Spec == Init /\ [][Next]_vars

\* A free thread takes a waiting message, a thread finishes its step (every
\* await has a timeout), and the broker restores what a dead worker held.
Fairness ==
  /\ \A t \in Tasks : WF_vars(\E w \in Threads : Take(w, t)) /\ WF_vars(RestoreOrphan(t))
  /\ \A w \in Threads : WF_vars(Run(w))

FairSpec == Spec /\ Fairness

-----------------------------------------------------------------------------
\* The types of the pipeline's state; rows and their announcements go in pairs.
TypeOK ==
  /\ broker \in [Tasks -> {"absent", "queued", "acked"} \cup Threads]
  /\ result \in [Tasks -> {"PENDING", "SUCCESS", "FAILURE"}]
  /\ pc \in [Threads -> Steps]
  /\ task \in [Threads -> Tasks \cup {NoTask}]
  /\ inc \in [Threads -> Nat]
  /\ incidents \in Seq(Ledger!Row)
  /\ posted \in Seq([Ledger!Channels -> Nat])
  /\ Len(posted) = Len(incidents)
  /\ crashes \in 0..MaxCrashes /\ earlyRestores \in 0..MaxEarlyRestores

\* However often a task is redelivered, no two runs ever work on one incident,
\* and a run works on an incident of its own task (worker/persistence.py:19-29).
OneRunPerIncident ==
  \A w \in Threads : inc[w] # 0 =>
    /\ inc[w] \in DOMAIN incidents /\ incidents[inc[w]].task = task[w]
    /\ \A v \in Threads : inc[v] = inc[w] => v = w

\* Late acknowledgement: a message the broker has forgotten is of a task that
\* ran to its end, however the worker crashed (worker/celery_app.py:13).
NoTaskLost == \A t \in Tasks : broker[t] = "acked" => result[t] # "PENDING"

\* A task reported successful has left a complete incident
\* (worker/tasks.py:49-82).
SuccessMeansComplete ==
  \A t \in Tasks : result[t] = "SUCCESS" =>
    \E i \in DOMAIN incidents : incidents[i].task = t /\ incidents[i].status = "COMPLETE"

\* Crashes, redeliveries and failing commits included, the worker keeps the
\* promises of IncidentLedger: an incident is announced once per channel, when
\* complete, and marked as announced only if it was (worker/tasks.py:65-81).
LedgerHolds == Ledger!Spec

\* Every accepted task is in the end acknowledged for good: crashes and
\* redeliveries delay it, nothing makes it circulate or stick.
TasksSettle == \A t \in Tasks : broker[t] = "queued" ~> [](broker[t] = "acked")

-----------------------------------------------------------------------------
\* "The on_failure hook updates the incident status so the dashboard never
\* shows a stuck PROCESSING incident" (knowledge/services/worker.md:159).
NoStuckProcessing ==
  \A t \in Tasks : broker[t] = "acked" /\ result[t] = "FAILURE" =>
    ~ \E i \in DOMAIN incidents : incidents[i].task = t /\ incidents[i].status = "PROCESSING"

\* "One row per testCaseFailed event that is fully processed"
\* (knowledge/architecture/data-model.md:36).
OneRowPerTask ==
  \A i, j \in DOMAIN incidents :
    /\ incidents[i].task = incidents[j].task
    /\ incidents[i].status = "COMPLETE" /\ incidents[j].status = "COMPLETE"
    => i = j
=============================================================================
