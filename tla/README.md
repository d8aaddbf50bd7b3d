# DataLineage Doctor: TLA+ models and proofs

OpenMetadata tells DataLineage Doctor that a data-quality test failed. A Celery
worker lets an LLM agent gather evidence with tools, stores a root-cause report
as an *incident*, and announces it in Slack and OpenMetadata. This directory
holds specifications of that pipeline, TLC configurations that check them on
small instances, and TLAPS proofs.

## 1. The system

| Part | Source | State it keeps | Operations |
| --- | --- | --- | --- |
| Webhook | `app/routers/webhook.py` | none; puts a message on the broker | accept, ignore, fail with 500 |
| Worker | `worker/tasks.py`, `worker/celery_app.py` | broker queue `rca`, result backend, one `_run` per thread | take, run, store result, acknowledge |
| Persistence | `worker/persistence.py` | rows of `incidents` and their child rows | create, complete, two flag updates |
| Agent loop | `agent/loop.py` | transcript, tool cache, counters, flags, `tool_call_logs` rows | one model request or one tool call per step |
| Tools | `agent/tools/*.py` | none, but `find_past_incidents` uses the run's session | dispatch |
| Parser, schema | `agent/parser.py`, `agent/schemas/report.py` | none | text to `RCAReport`, label from score |
| Notifications | `agent/notifications.py`, `om_client/incidents.py` | a process-wide cached answer whether OpenMetadata has an incidents API | post to Slack, post to OpenMetadata |
| OpenMetadata client | `om_client/*.py` | a process-wide token and lock | login, GET with retries, POST, normalisation, lineage levels |
| Dashboard API | `app/routers/dashboard.py`, `app/services/*` | none; reads the tables | list, detail, graph, latest, demo trigger |
| Scripts | `scripts/*.py` | none | wait for OpenMetadata, seed, trigger, wait for an incident |

They interact through the Redis broker (webhook to worker), the PostgreSQL
tables (worker to dashboard and scripts), function calls in one process (task,
agent, tools, client), and HTTP to services outside (OpenMetadata, Slack, the
model). The worker runs `--pool=threads --concurrency=4`: four tasks in one
process, each with an event loop of its own (`asyncio.run`), sharing every
module-level variable.

What is hard about it, and what makes each part correct:

* **Worker.** Messages are acknowledged late (`celery_app.py:13`), so a crash,
  or a run longer than the broker's visibility timeout, makes a task run again,
  also next to its first run. Each step of `_run` has its own commit, and a
  commit or a post can fail after it had its effect. Correct: no task is lost,
  runs never share an incident, an incident is announced at most once in each
  place and only when complete, a flag says only what happened, success means a
  complete incident, and every task settles.
* **Agent loop.** One loop serves three kinds of retry (API attempts, rate
  limits, two corrective prompts) and three counters. Correct: the loop ends,
  requests stay within a budget, tool calls are answered as the chat protocol
  wants, log, cache, transcript and count tell the same story, and the report
  does not claim less or other evidence than was gathered.
* **OpenMetadata client.** A token and an `asyncio.Lock` are shared by event
  loops in different threads. Correct: no request without a token, a refused
  token is not used again, a request ends.
* **Lineage.** Levels come from a breadth-first search over whatever graph
  OpenMetadata answers with, cyclic ones included, up to a depth the model asks
  for, once the client has a token, which it may have to wait for. Correct: the
  call ends if that wait does, the first of the table's names that exists decides,
  and the answer lists the nodes within the depth at their distance.
* **Read side.** A page is read in three statements, a list in pages, while the
  worker commits; `triggered_at` orders incidents and need not be unique.
  Correct: a page claims no more than it shows, paging misses no incident, the
  graph of any page fits together.
* **Scripts.** Demo triggers may overlap, each checking for an entity and
  creating it later, and any request may fail after it took effect. Correct:
  reported success means everything is there, overlap loses nothing, seeding
  again changes nothing, every call is answered, and a wait ends with an incident
  that was not complete before.

`PROJECT.json` lists every component with its status and, under `hazards`,
every such point at its line with the properties that cover it, or with a note
saying why none does.

## 2. Modules

| Module | Models |
| --- | --- |
| `RcaRun` | what a run of the agent promises its caller (abstract) |
| `AgentLoop` | `run_rca_agent`, implements `RcaRun` |
| `AgentLoopProofs` | theorems about `AgentLoop`: types, budget, cache and log, refinement |
| `AgentTranscriptProofs` | theorems about `AgentLoop`: what its transcript says |
| `IncidentLedger` | what the worker promises about incidents and announcements (abstract) |
| `RcaTask` | webhook, broker, worker threads, persistence, notifications; implements `IncidentLedger` |
| `RcaTaskProofs` | theorems about `RcaTask` |
| `OMAuth` | token cache, lock and retries of `OMClient` across the worker's threads |
| `OMAuthProofs` | theorems about `OMAuth` |
| `Lineage` | the tools `get_upstream_lineage` and `calculate_blast_radius`: name candidates, response, search |
| `LineageProofs` | theorems about `Lineage` |
| `IncidentViews` | detail page with its graph, list, and `wait_for_incident.py`, against the worker's commits |
| `IncidentViewsProofs` | theorems about `IncidentViews` |
| `DemoSeed` | `POST /api/demo/trigger` with `wait_for_om.py`, `seed_demo.py` and `trigger_demo.py`, calls overlapping |
| `DemoSeedProofs` | theorems about `DemoSeed` |
| `MCAgentLoop`, `MCRcaTask`, `MCOMAuth`, `MCLineage`, `MCIncidentViews`, `MCDemoSeed` | instances for TLC |

Operators whose comment begins with "Mutant" are faulty variants of the
definition that follows them. No specification uses them; substituting one
shows that the property it is kept for can fail.

### AgentLoop

The state is the local state of one call of `run_rca_agent`: `iteration`,
`rateLimitRetries`, the two prompt flags, `toolCallsMade`, the result cache, the
transcript `messages`, the flushed log rows, and whether the database
transaction is still usable (`txn`). `pc` says whether the run asks the model,
answers tool calls (`pending`), has returned or has raised. A model request with
its attempts is a sequence of steps (`LlmRetry`, then an outcome), a tool call
is one (`AnswerCall`: cache lookup or dispatch, log row, tool message, count).
What the model says, how a tool ends, and whether an answer parses are choices.
A tool call is its cache key, a message is its role and its calls, scores are in
hundredths. Wording, metrics and timing are left out. `requests` is a history
variable: it counts completions, and saturates above its budget.

`RcaRun` sees the log rows as *evidence*, `pc` as the phase, and the report. Its
steps are `Gather`, `Conclude` with a report that is sound for the evidence, and
`Abort`.

### RcaTask

`broker` says of each message whether it is absent, queued, delivered to a
thread, or acknowledged. Each thread has a program counter over the awaits of
`_run` (`create`, `agent`, `complete`, `slack`, `slackFlag`, `om`, `omId`, then
`success` or `failure`, then `ack`), its task, and its `incident_id`. A row of
`incidents` holds task, status and the two flags (`slack_notified`,
`om_incident_id`); `posted` is outside the program: what Slack and OpenMetadata
received. Slack switched off is a post that fails unreceived. `Commit` is the update of a row with its `commit()`: it succeeds, or
raises with the update done or not. `Post` is an HTTP request: it succeeds, or
fails with the message received or not. `Crash` ends all threads. `RestoreOrphan`
and `RestoreEarly` are the broker's visibility timeout for a delivery whose
thread is gone and for one whose thread is still at work. The agent appears as
one step that returns or raises, which is what `AgentLoop` shows of it.

`IncidentLedger` forgets tasks and threads: a row is opened, completed once,
announced in each channel once and only when complete, and marked only if
announced.

### OMAuth

`cachedToken` and the lock are the module variables of `client.py`; everything
else is per thread, since a thread runs one event loop with one coroutine at a
time. `pc` follows a call: no task (`idle`), in a task, acquiring the lock
(`lock`, `seenFree`, `seenBusy`, `waiting`), holding it (`held`, `login`,
`store`), client open (`open`), a request sent (`send`) or sent again after a
401 (`resend`). `header` is the token in the client's `Authorization` header; a
client without one is being opened, one with a header is refreshing it. Tokens
are numbers in the order of issue, and OpenMetadata accepts those newer than
`expired`.

The lock is modelled as CPython 3.12 implements it, because its behaviour across
threads is what matters. `acquire` tests a flag and a deque of waiters and then
sets the flag. Without a deque the two are adjacent bytecodes, with one they are
two steps, and so are the test and the enqueuing of a future. The lock binds
itself to the loop of the first waiter for good; a later waiter of another loop
gets a `RuntimeError` (`lockError`). `release` of a lock that is free raises
one too. A future set by another thread does not wake a sleeping loop, so `Wake`
may happen (something else may wake the loop) but need not.

### Lineage

One call of a tool. Its inputs are chosen in `Init`: the name, the direction, the
depth asked for (capped there), and whether the client finds a token when it is
opened. `pc` goes from `lookup`, one candidate of the name a step, over `fetch` to
`search`, and ends in the tool's outcome. A name in `Catalog` is that of a table,
which may lack an id (`NoId`): the code's loop stops at such a table, and the call
answers nothing (`withoutId`), although the other candidate may have an id. Both
requests go through `_get`. `token` is `awaited` while the call waits for the lock
of the login, in opening the client or after a 401; `refreshes` counts the 401s of
the current request, one in each of its `Attempts`. `GetToken` is the lock with
the login made under it; a failed login costs the attempt or the call. What other
tasks do with the lock is in `OMAuth`. The response to the lineage request is
chosen in `Fetch`.

`levels`, `queue`, `current` are the variables of `_build_levels`; `levels` has 0
for what is not reached, and `pending` holds the neighbours of `current` that the
inner loop has still to look at. The code visits neighbours in the order of the
edges in the response; here they come in any order. A response with its edges in
one list and one with the legacy lists by direction are distinct, as are edges
without an end and responses without lists. Names, services and types of the
nodes are left out.

### IncidentViews

`status`, `triggered` and `children` are the committed rows. The worker's two
commits are `Open` and `Finish`; when `triggered_at` is fixed does not matter to
readers, so it is chosen in `Init`, and rows may share one. There is one reader,
of one of three kinds: readers change nothing, so what one sees is what each of
many sees. `GetIncident`, `GetTimeline`, `GetBlastRadius` are the statements of
`get_incident_detail`; under READ COMMITTED each sees the rows as they are at its
step. `view` is what the page has; `Nodes` and `Edges` are `build_graph_data` of
it. `ListPage` is the statement of `list_incidents`: a set of rows to skip and a
set to list, of the sizes of `OFFSET` and `LIMIT`, each preceding what follows
it; the database orders ties as it likes, each time anew. `baseline` and
`seenNonComplete` are the variables of `wait_for_incident.py`. Its deadline may
strike at any time; `polls` bounds how often it asks. `before` is a history
variable: what was there when the list's first page was read, and what was
complete when the wait got its first answer.

### DemoSeed

`seeded` is what OpenMetadata holds. `pc` follows each call through the scripts
(`wait`, `look`, `make`, `trigger`) to its answer. `Plan` is the sequence of
`_ensure_*` calls of `seed_demo_data`; each entry names its item, the kind of the
function, and the job and step it belongs to: a status error leaves the entries
of the job undone, an exception no function catches those of the step. `Needs`
says what OpenMetadata wants to be there first. `look` is the lookup, `make` the
creation; each function's disjuncts say what it makes of a conflict. Lookups of
an edge's ends are one step with the lookup of the edge, since nothing is ever
deleted. A pipeline is an item with its tasks. `faulty` and `whole` are history
variables: the calls that met a failing request, and whether everything was there
when a call's seeding began.

## 3. Runs

| Run | Instance | Shows |
| --- | --- | --- |
| `agent_loop` | 2 calls (one to `find_past_incidents`), 3 iterations, 1 rate-limit retry, 2 calls per turn | types, chat protocol, evidence, cache, budget, prompts; refinement of `RcaRun`; no step that leads nowhere, termination |
| `agent_loop_tool_failure` | 1 call per turn | a statement of the documents that the code does not keep |
| `rca_task` | 1 task, 2 threads, 1 crash, 1 early redelivery | types, no lost task, runs never share an incident, success means complete; refinement of `IncidentLedger`; every queued task settles |
| `rca_task_stuck`, `rca_task_rows` | 1 task | two statements of the documents that the code does not keep |
| `om_auth` | 2 threads, no bot token, 2 logins, 1 expiry | types and refusals per request, no request without a token, no abandoned lock, a refresh renews; a request ends or waits for the lock |
| `om_auth_blank`, `om_auth_loops` | 1 thread, a blank token; 3 threads | two statements of the documents that the code does not keep |
| `lineage` | 5 nodes, 11 edges either way, depths -1 to 9 and no number, maximum 3; a table without an id, a 401 to any attempt | types, the right table, shortest levels, the exact answer; no step that leads nowhere, the call ends or waits for the lock |
| `incident_views` | 4 incidents, 3 values of `triggered_at`, pages of 2, 3 polls | types, whole pages, graphs, paging, and the two halves of waiting |
| `demo_seed` | 2 calls, an entry of each kind, 1 repeated poll, failing requests in one call | types, success, overlap, seeding again; no step that leads nowhere, every call is answered |
| `demo_trigger` | 1 call | a statement of the code's own message that the code does not keep |

**Bounds.** Three iterations are the least that hold a corrective prompt, a tool
turn and the last iteration in one run, in every order; the code's behaviour
depends on `iteration` only through its comparison with the limit. Two calls give
a repeated and a new call, one of them able to abort the transaction. The scores
are those at the label boundaries, the claimed counts one below and one above
what can be gathered. Two threads and one message are enough for a redelivered
task to overlap with itself; one crash and one early redelivery let a task run
three times. Tasks meet only in the table of incidents, where a run of another
task is no different from a second run of the same one. The theorems drop all
these bounds except those on crashes and redeliveries, which are arbitrary
naturals there. In `OMAuth` a login happens at the first opening and at a
refresh, and one expiry makes every token in circulation refused at once. A third
thread matters only for the loop the lock is bound to. Its theorems hold for any
number of threads, logins and expiries. In `Lineage` five nodes are the fewest on
which a stack in place of the queue gives a wrong level; the graphs are all
subsets of the acyclic edges and two edges that close cycles, in both directions.
Of the names, one is a table's own, one is a table's only with the default schema
put in, one is that of a table without an id while with the default schema it is
that of another table, and one is unknown.
In `IncidentViews` two pages of two rows leave room for an insertion before,
between and after them, and three times for four rows make ties; three polls are
a baseline, an incident in progress, and its end. In `DemoSeed` two calls are
enough for every conflict, and each way of failing ends in the same counters
wherever it happens. The theorems hold for any of these sizes.

**Deadlock** is checked for `OMAuth`. The others end: a run has returned, a queue
is empty, a reader is done and the last incident complete, a call is answered.

**Fairness.** `AgentLoop` assumes weak fairness of `Next`: each await is bounded,
the model's client by 90 s, the OpenMetadata client by 30 s, or ends in an error.
`RcaTask` assumes it of each thread's next step, of a free thread taking a given
queued message, and of the visibility timeout of an orphaned delivery. Neither
crashes nor early redeliveries are fair; that they are finitely many is a bound.
One await has no timeout, the client's token lock. The fairness of `AgentLoop`
and `RcaTask` leaves it out: their liveness holds of runs that do not hang there.
`OMAuth` shows the hang: `FairSpec` assumes weak fairness of a thread's next step
(`Proceed`), which is local work or an HTTP request with a 30 s timeout, but not
of `Wake`, nor of the choices a task makes freely. `RequestEnds` therefore allows
a request to be left waiting.
`Lineage` has the same wait, in opening its client and on a 401: its `FairSpec`
assumes weak fairness of every step but `GetToken` (`Proceed`: attempts of
requests, each with a timeout of 30 s, and computation), and `CallEnds` allows a
call to be left waiting for the lock.
`DemoSeed` assumes it of each call's own next step: the scripts' own
HTTP requests have timeouts, and the endpoint waits for the scripts.
`IncidentViews` has no liveness property and assumes nothing.

## 4. Where code and documents disagree

* `knowledge/services/worker.md:159` has an `on_failure` hook; there is none, and
  a failed run's incident stays PROCESSING (`rca_task_stuck`).
* `knowledge/architecture/data-model.md:36` has one row per event; a redelivered
  task makes a second one (`rca_task_rows`).
* `knowledge/services/agent.md:212` has no tool failure abort the loop; a failed
  statement of `find_past_incidents` does (`agent_loop_tool_failure`).
* `om_client/client.py:104` has the token refreshed on 401; with an `OM_JWT_TOKEN`
  of white space it is not, since `_get_token` strips the setting and
  `_refresh_auth` does not (`om_auth_blank`).
* `knowledge/services/worker.md:100` has no state shared between tasks; the lock
  is, and fails the call of a task in another loop (`om_auth_loops`).
* `app/routers/dashboard.py:159` reports a triggered incident whenever
  `trigger_demo.py` exits with 0, which it does whatever status the webhook
  answered with (`demo_trigger`).

More are plain in the code and have no run. `worker.md:154` has three
retries of a failed task; without `autoretry_for` the first exception is final.
`knowledge/rca-agent-architecture.md:205` has a fallback after the second failed
parse; without a tool call the loop takes a third. `knowledge/SRS.md:73` has two
tools called before a report; any answer that parses is taken.
`om_client/client.py:159` has one retry after a 401; a GET may be refused and
refreshed in each of its three attempts, and `TypeOK` of `OMAuth` bounds that.
`om_client/client.py:42` has one login for tasks that start together; those
refused together log in one after the other (`client.py:145`).
`knowledge/sprint-progress/sprint-4-progress.md:98` has no wait end with an
incident that was complete before; one with the `triggered_at` of another can
become the latest, and `WaitEndsWithNew` says so. `seed_demo.py:797` takes a 400
to an edge for a conflict and counts it as existing, which `SuccessMeansSeeded`
allows for.

## 5. Proofs

TLAPS checks, for all values of the constants that satisfy the modules' named
assumptions:

* `TypeCorrect`, `RequestsWithinBudget` (`AgentLoopProofs`) from `RunInv`. The
  budget is not inductive: `Paid` relates the requests made to the iterations and
  rate-limit retries that paid for them and to the attempt in progress, and
  `StillRunning` and `InTurn` say which counters can still grow in which phase.
* `CacheAgreesWithLog` from `EvidenceInv`, which adds the length of the log to
  the count of calls; the theorem's hard case is a row appended for a call that is in the cache.
* `LoopImplementsContract`: initial states map to initial states, and every step
  is a `Gather`, a `Conclude`, an `Abort` or a stutter of `RcaRun`.
* `TranscriptIsAnswered`, `EvidenceIsAccounted`, `PromptsAreSentOnce`
  (`AgentTranscriptProofs`). The transcript only grows: `MessageSteps` says that a
  step appends at most one message, and of which role, which is all the three
  proofs know of the actions. `PromptInv`: a prompt whose flag is not set is not in
  the transcript, nor is an answer of a tool while no call is counted. `Counted`:
  the answers are as many as the count; the other half of `EvidenceAccounted` is
  part of `EvidenceInv`. `ProtocolInv` says where in a turn the run is: in a turn
  one assistant message is partly answered and `pending` is the rest of its calls
  (`OpenTurn`), every other one has all its answers.

### 5.1 RcaTask

`PipelineInv` is `TypeOK`, `NoTaskLost`, and three parts that make them inductive:
`RunOK` relates the step a thread
is at to its task, its `incident_id` and the stored result; `RowOK` relates that
step to the row it works on: the row's task and status, and how often each
channel has received it; `Apart` says that no two threads have the same row.
A step of one thread changes at most its own row and its own message. That is
stated once, as a frame condition, from which the parts for the other threads
and rows follow; each action's lemma then has to look at one thread and one row.
From the invariant follow

* `TypeCorrect`, `RunsStayApart` (`OneRunPerIncident`), `NothingIsLost`
  (`NoTaskLost`), for any number of tasks, threads, crashes and redeliveries;
* `WorkerKeepsLedger` (`LedgerHolds`): initial states map to initial states, and
  each step opens, completes, announces or marks one incident, or stutters;
* `SuccessIsComplete`: completeness of an incident, once reached, is kept, which
  is read off the ledger, and a stored success was preceded by it.

### 5.2 OMAuth

`AuthInv` is `TypeOK`, `LockNotAbandoned`, and `CallOK` for each thread: an open
client has a header, every attempt of a request is refused at most once, and a
login returns a token newer than the header it will replace. Mutual exclusion is
not part of it. It does not hold: two threads can both see the lock free. Nor is
it needed: a flag that is set has a thread in the section, because a thread that
leaves it clears the flag or finds it clear. From the invariant follow
`TypeCorrect`, `RequestsCarryTokens`, `LockHasHolder`, and `RefreshRenews` under
the assumption that `OM_JWT_TOKEN` is not blank, without which `om_auth_blank`
refutes it.

### 5.3 Lineage

`SearchInv` is the invariant of a breadth-first search. `Layered`: the queue is in
order of level, holds at most the level being expanded and the next, and nothing
farther is reached. `Explained`: each reached node has a neighbour one level
nearer. `Closed`: of a node that has left the queue, every neighbour but the
pending ones is reached and not too far. `Closed` needs `Layered`: a neighbour
that was reached before is near enough only because nothing lies beyond the next
level. With an empty queue the last two are `LevelsShortest`, so
`LevelsAreShortest` holds for every graph, order of edges and depth.
`LookupInv` says of the candidates tried so far that none exists, and of the one
found that the root is its table's id; `TableIsFound` follows.
`AnswerIsExact` compares the answer with `Within`, which knows nothing of the
search: the nodes at most k edges from the table. That a recursive function meets
its equation is proved by hand (`Recursion`, `WithinRecursion`: were there a
number up to which no function meets it, there would be a least one).
`LevelsAreDistances` then shows that the nodes of level k or less are `Within[k]`,
for every k up to the depth: `Explained` gives one inclusion and `Closed` the
other. `ResultInv` says that the answer is read off the levels.

### 5.4 IncidentViews

* `PageInv`: what the page has read is empty or, once the row is complete, the
  row's children; children do not change after. `PagesAreWhole` follows.
* `ListInv`: an incident that was there at first, has a `triggered_at` of its own
  and is not shown yet has at least as many rows above it (`Above`) as the next
  page skips. Insertions only add to `Above`, so nothing slips back; a page that
  passes the offset beyond it has listed it. `BrowsingIsComplete` follows, by
  counting, for any page size.
* `WaitInv`: nothing that was complete at first was triggered after the baseline
  (`NotAfter`), nor after some incident that was not, once one has been seen in
  progress. A later answer that is complete is then one of those, or newer than
  all of them, or it ties. `WaitsPassOnlyOld` and `WaitsEndWithNew` follow.
* `GraphsFlow` needs no invariant: the graph fits together for every pair of lists
  a page may have read, the torn ones included.

### 5.5 DemoSeed

`CallOK`: while nothing failed, the created and existing entries counted are
those before `pos`, and each of them is in OpenMetadata, save edges of a faulty
call. Every step is one of few kinds, `Same`, `Settle` or `GiveUp`, within the
frame of one call (`SeedStep`), and each function's lemma says of which kind it
is; preservation is proved of the kinds. What another call adds to `seeded` keeps
a call's part, because nothing is removed. `TypeCorrect` and `SuccessIsSeeded`
follow for every plan.

`OverlapIsHarmless` and `ReseedingIsQuiet` assume more of the plan
(`PlanOrderAssumption`): what an entry needs comes earlier in it, entries of the
same item are of the same kind, and each entity is a job of its own.
`seed_demo_data` is written so: its steps go from services over databases and
tables to edges and tests, test definitions and suites occur in the jobs of
several test cases but each time through the same function, and each
`_ensure_entity` call is a job. The proof follows from `OverlapInv`. `PlaceOK`:
if no request of a call failed and OpenMetadata has its built-in definitions, all
entries before `pos` are there. Then the needs of the entry at `pos` are met, so
no creation is refused for want of them, and a conflict means that another call
has just made the entry. `QuietOK`: while everything was there when a call began
and none of its requests failed, it has not come to make anything and has counted
nothing but existing entries. Without the order a creation could be refused for a
need that comes later, and both would be false. The steps of a call whose request
did not fail are again of few kinds (`Healthy`).

### 5.6 Only model-checked

Liveness: `Terminates`, `TasksSettle`, `RequestEnds`, `CallEnds`, `CallAnswered`.
Their fairness rests on `ENABLED`, which TLAPS cannot reason about. Of three of
them the safety half is proved. `LoopsAdvance` (`AgentLoop`), `CallsAdvance`
(`Lineage`) and `CallsAdvance` (`DemoSeed`) say that every step moves down a
lexicographic order:

* of a run: iterations left, phase, then pending calls, or retries and attempts;
* of a lineage call: phase, then names left, refreshes left and whether the token
  is awaited, or unreached nodes, queue and pending neighbours;
* of one of the demo calls, with the others where they were: script, then polls
  left, or entries left and whether the entry has been looked up.

`TypeOK` bounds the parts, the nodes taken to be finitely many; that a descent in
such an order cannot go on for ever is the step TLAPS does not make here. Nothing
of the kind holds of `RcaTask`, where a crash starts a task again, nor of
`OMAuth`, where tasks follow one another. A descent says nothing of a step that is
not fair, so a call may still wait for the lock for ever.

Every invariant and every action property the passing runs check is a theorem.

## 6. Plan

Left, in this order:

1. The tool logs that are lost with a failed run: rows pending in the session as
   state of `RcaTask`, next to the agent's step.
2. The cached answer about the incidents API against an OpenMetadata that is
   upgraded while the worker runs.
3. Repeated webhooks for one event, once a document says what should become of
   them.
4. The normalisers of quality, pipeline and ownership responses, and the
   candidates of a test case FQN, as operators against reference definitions.
5. The safety half of `TasksSettle` between crashes and redeliveries, as was done
   for `Terminates`, `CallEnds` and `CallAnswered`.

## 7. Not modelled

Prompt and report wording, message layout, metrics, logging, HTML and charts,
labels and positions in a graph: no property here is about them. Responses about
quality, pipelines and owners are normalised without state (section 6). Which
texts parse as a report: the loop is checked for both outcomes. Migrations, settings, models and deployment files are
declarations; what matters of them is in constants and states of the modules.
PostgreSQL, Redis, OpenMetadata, Slack, the model's API and asyncio are modelled
only through what the code sees of them.
