---------------------------- MODULE RcaTaskProofs ----------------------------
(***************************************************************************)
(* Proofs about RcaTask: its types, that runs never share an incident,     *)
(* that no task is lost, that success means a complete incident, and that  *)
(* it implements IncidentLedger.                                           *)
(***************************************************************************)
EXTENDS RcaTask, SequenceTheorems, TLAPS

(***************************************************************************)
(* Facts about the two tables, free of the pipeline.                       *)
(***************************************************************************)
\* The commits of worker/persistence.py keep the rows typed and in place.
LEMMA RowUpdates ==
  ASSUME NEW rows \in Seq(Ledger!Row), NEW i \in DOMAIN rows
  PROVE  /\ [rows EXCEPT ![i].status = "COMPLETE"] \in Seq(Ledger!Row)
         /\ Len([rows EXCEPT ![i].status = "COMPLETE"]) = Len(rows)
         /\ \A ch \in Ledger!Channels :
              /\ [rows EXCEPT ![i].announced[ch] = TRUE] \in Seq(Ledger!Row)
              /\ Len([rows EXCEPT ![i].announced[ch] = TRUE]) = Len(rows)
<1>1. rows[i] \in Ledger!Row  OBVIOUS
<1>2. [rows[i] EXCEPT !.status = "COMPLETE"] \in Ledger!Row
  BY <1>1 DEF Ledger!Row
<1>3. ASSUME NEW ch \in Ledger!Channels
      PROVE  [rows[i] EXCEPT !.announced[ch] = TRUE] \in Ledger!Row
  BY <1>1 DEF Ledger!Row
<1>4. /\ [rows EXCEPT ![i].status = "COMPLETE"] \in Seq(Ledger!Row)
      /\ Len([rows EXCEPT ![i].status = "COMPLETE"]) = Len(rows)
  BY <1>2, ExceptSeq
<1>5. ASSUME NEW ch \in Ledger!Channels
      PROVE  /\ [rows EXCEPT ![i].announced[ch] = TRUE] \in Seq(Ledger!Row)
             /\ Len([rows EXCEPT ![i].announced[ch] = TRUE]) = Len(rows)
  <2> DEFINE marked == [rows[i] EXCEPT !.announced[ch] = TRUE]
  <2>1. marked \in Ledger!Row  BY <1>3
  <2> HIDE DEF marked
  <2>2. /\ [rows EXCEPT ![i] = marked] \in Seq(Ledger!Row)
        /\ Len([rows EXCEPT ![i] = marked]) = Len(rows)
    BY <2>1, ExceptSeq
  <2>3. QED  BY <2>2 DEF marked
<1>6. QED  BY <1>4, <1>5

LEMMA PostUpdates ==
  ASSUME NEW posts \in Seq([Ledger!Channels -> Nat]), NEW i \in DOMAIN posts,
         NEW ch \in Ledger!Channels
  PROVE  /\ [posts EXCEPT ![i][ch] = @ + 1] \in Seq([Ledger!Channels -> Nat])
         /\ Len([posts EXCEPT ![i][ch] = @ + 1]) = Len(posts)
<1>1. [posts[i] EXCEPT ![ch] = @ + 1] \in [Ledger!Channels -> Nat]  OBVIOUS
<1>2. QED  BY <1>1

LEMMA NewRows ==
  ASSUME NEW rows \in Seq(Ledger!Row), NEW posts \in Seq([Ledger!Channels -> Nat]),
         NEW t \in Tasks
  PROVE  /\ Append(rows, Ledger!NewRow(t)) \in Seq(Ledger!Row)
         /\ Append(posts, Ledger!NothingPosted) \in Seq([Ledger!Channels -> Nat])
         /\ Append(rows, Ledger!NewRow(t)) # rows
<1>1. Ledger!NewRow(t) \in Ledger!Row  BY DEF Ledger!NewRow, Ledger!Row
<1>2. Ledger!NothingPosted \in [Ledger!Channels -> Nat]  BY DEF Ledger!NothingPosted
<1>3. Len(Append(rows, Ledger!NewRow(t))) = Len(rows) + 1  BY <1>1
<1>4. QED  BY <1>1, <1>2, <1>3

-----------------------------------------------------------------------------
(***************************************************************************)
(* The inductive invariant.  What a thread knows of its task and its row   *)
(* at each step of _run, and that no other thread touches that row.        *)
(***************************************************************************)
Opened   == {"agent", "complete", "slack", "slackFlag", "om", "omId", "success"}
Finished == {"slack", "slackFlag", "om", "omId", "success"}

RunOK(w) ==
  /\ task[w] = NoTask <=> pc[w] = "idle"
  /\ pc[w] \in {"idle", "create"} => inc[w] = 0
  /\ pc[w] \in Opened => inc[w] # 0
  /\ pc[w] = "ack" => result[task[w]] # "PENDING"

RowOK(w) == inc[w] # 0 =>
  /\ inc[w] \in DOMAIN incidents /\ incidents[inc[w]].task = task[w]
  /\ pc[w] \in {"agent", "complete"} => incidents[inc[w]].status = "PROCESSING"
  /\ pc[w] \in Finished => incidents[inc[w]].status = "COMPLETE"
  /\ pc[w] \in {"agent", "complete", "slack"} => posted[inc[w]]["slack"] = 0
  /\ pc[w] = "slackFlag" => posted[inc[w]]["slack"] = 1
  /\ pc[w] \in {"agent", "complete", "slack", "slackFlag", "om"} => posted[inc[w]]["om"] = 0
  /\ pc[w] = "omId" => posted[inc[w]]["om"] = 1

Apart == \A v, w \in Threads : inc[w] # 0 /\ inc[v] = inc[w] => v = w

PipelineInv ==
  /\ TypeOK
  /\ \A w \in Threads : RunOK(w) /\ RowOK(w)
  /\ Apart
  /\ NoTaskLost

\* What any step of thread w leaves alone: the other threads, every row but
\* its own, and outcomes once stored.
StepOf(w) ==
  /\ \A v \in Threads \ {w} : pc'[v] = pc[v] /\ task'[v] = task[v] /\ inc'[v] = inc[v]
  /\ inc'[w] \in {inc[w], 0, Len(incidents) + 1}
  /\ \A i \in (DOMAIN incidents) \ {inc[w]} :
       i \in DOMAIN incidents' /\ incidents'[i] = incidents[i] /\ posted'[i] = posted[i]
  /\ \A t \in Tasks : result[t] # "PENDING" => result'[t] # "PENDING"
  /\ \A t \in Tasks : broker'[t] = "acked" => broker[t] = "acked" \/ result[t] # "PENDING"

\* A step of one thread that keeps the types and its own run keeps them all.
LEMMA OneThreadSteps ==
  ASSUME PipelineInv, NEW w \in Threads, StepOf(w), TypeOK', RunOK(w)', RowOK(w)'
  PROVE  PipelineInv'
<1>1. ASSUME NEW v \in Threads \ {w}  PROVE RunOK(v)'
  <2>1. RunOK(v) /\ task[v] \in Tasks \cup {NoTask}  BY DEF PipelineInv, TypeOK
  <2>2. pc'[v] = pc[v] /\ task'[v] = task[v] /\ inc'[v] = inc[v]  BY DEF StepOf
  <2>3. task[v] \in Tasks /\ result[task[v]] # "PENDING" => result'[task[v]] # "PENDING"
    BY DEF StepOf
  <2>4. QED  BY <2>1, <2>2, <2>3 DEF RunOK
<1>2. ASSUME NEW v \in Threads \ {w}  PROVE RowOK(v)'
  <2>1. pc'[v] = pc[v] /\ task'[v] = task[v] /\ inc'[v] = inc[v]  BY DEF StepOf
  <2>2. RowOK(v) /\ (inc[v] # 0 => inc[v] # inc[w])  BY DEF PipelineInv, Apart
  <2>3. inc[v] # 0 => /\ inc[v] \in DOMAIN incidents'
                      /\ incidents'[inc[v]] = incidents[inc[v]]
                      /\ posted'[inc[v]] = posted[inc[v]]
    BY <2>2 DEF StepOf, RowOK
  <2>4. QED  BY <2>1, <2>2, <2>3 DEF RowOK
<1>3. Apart'
  <2>1. \A v \in Threads : inc[v] # 0 => inc[v] \in 1..Len(incidents)
    BY DEF PipelineInv, RowOK, TypeOK
  <2>2. Len(incidents) \in Nat  BY DEF PipelineInv, TypeOK
  <2>3. ASSUME NEW v \in Threads \ {w}  PROVE inc'[w] # 0 => inc'[v] # inc'[w]
    BY <2>1, <2>2 DEF StepOf, PipelineInv, Apart
  <2>4. \A u, v \in Threads \ {w} : inc'[u] = inc[u] /\ inc'[v] = inc[v]  BY DEF StepOf
  <2>5. QED  BY <2>3, <2>4 DEF PipelineInv, Apart
<1>4. NoTaskLost'  BY DEF StepOf, PipelineInv, NoTaskLost
<1>5. QED  BY <1>1, <1>2, <1>3, <1>4 DEF PipelineInv

-----------------------------------------------------------------------------
(***************************************************************************)
(* One lemma per action of a thread: it keeps the types and its own run,   *)
(* leaves the others alone, and is a step of the ledger or none.           *)
(***************************************************************************)
Keeps(w) ==
  /\ TypeOK' /\ StepOf(w) /\ RunOK(w)' /\ RowOK(w)'
  /\ [Ledger!Next]_(Ledger!vars)

LEMMA TakeKeeps ==
  ASSUME PipelineInv, NEW w \in Threads, NEW t \in Tasks, Take(w, t)
  PROVE  Keeps(w)
<1>1. TypeOK /\ inc[w] = 0  BY DEF PipelineInv, RunOK, Take, At
<1>2. TypeOK'  BY <1>1 DEF TypeOK, Take, At, Steps
<1>3. StepOf(w)  BY <1>1, ThreadAssumption DEF TypeOK, Take, At, StepOf
<1>4. RunOK(w)' /\ RowOK(w)'
  BY <1>1, TaskAssumption DEF TypeOK, Take, At, RunOK, RowOK, Opened
<1>5. QED  BY <1>2, <1>3, <1>4 DEF Keeps, Take, Ledger!vars

LEMMA CreateIncidentKeeps ==
  ASSUME PipelineInv, NEW w \in Threads, CreateIncident(w)
  PROVE  Keeps(w)
<1> DEFINE rows  == Append(incidents, Ledger!NewRow(task[w]))
           posts == Append(posted, Ledger!NothingPosted)
<1>1. TypeOK /\ inc[w] = 0 /\ pc[w] = "create" /\ task[w] \in Tasks
  BY DEF PipelineInv, RunOK, TypeOK, CreateIncident, Commit, At
<1>2. /\ incidents \in Seq(Ledger!Row) /\ posted \in Seq([Ledger!Channels -> Nat])
      /\ Len(posted) = Len(incidents)
  BY <1>1 DEF TypeOK
<1>3. /\ rows \in Seq(Ledger!Row) /\ posts \in Seq([Ledger!Channels -> Nat]) /\ rows # incidents
      /\ Len(rows) = Len(incidents) + 1 /\ Len(posts) = Len(incidents) + 1
      /\ rows[Len(incidents) + 1] = Ledger!NewRow(task[w])
      /\ posts[Len(incidents) + 1] = Ledger!NothingPosted
      /\ \A i \in DOMAIN incidents : rows[i] = incidents[i] /\ posts[i] = posted[i]
  <2>1. rows \in Seq(Ledger!Row) /\ posts \in Seq([Ledger!Channels -> Nat]) /\ rows # incidents
    BY <1>1, <1>2, NewRows
  <2>2. /\ Ledger!NewRow(task[w]) \in Ledger!Row
        /\ Ledger!NothingPosted \in [Ledger!Channels -> Nat]
    BY <1>1 DEF Ledger!NewRow, Ledger!Row, Ledger!NothingPosted
  <2>3. /\ Len(rows) = Len(incidents) + 1
        /\ rows[Len(incidents) + 1] = Ledger!NewRow(task[w])
        /\ \A i \in 1..Len(incidents) : rows[i] = incidents[i]
    BY <1>2, <2>2, AppendProperties
  <2>4. /\ Len(posts) = Len(posted) + 1
        /\ posts[Len(posted) + 1] = Ledger!NothingPosted
        /\ \A i \in 1..Len(posted) : posts[i] = posted[i]
    BY <1>2, <2>2, AppendProperties
  <2>5. DOMAIN incidents = 1..Len(incidents)  BY <1>2
  <2>6. QED  BY <1>2, <2>1, <2>3, <2>4, <2>5
<1>4. \/ /\ pc' = [pc EXCEPT ![w] = "agent"] /\ incidents' = rows /\ posted' = posts
         /\ inc' = [inc EXCEPT ![w] = Len(incidents) + 1]
      \/ /\ pc' = [pc EXCEPT ![w] = "failure"] /\ incidents' = rows /\ posted' = posts
         /\ inc' = inc
      \/ /\ pc' = [pc EXCEPT ![w] = "failure"] /\ incidents' = incidents /\ posted' = posted
         /\ inc' = inc
  BY <1>1, <1>3 DEF CreateIncident, Commit, At, TypeOK
<1>5. UNCHANGED queueVars  BY DEF CreateIncident
<1> HIDE DEF rows, posts
<1>6. TypeOK'
  <2> pc \in [Threads -> Steps] /\ inc \in [Threads -> Nat]  BY <1>1 DEF TypeOK
  <2> "agent" \in Steps /\ "failure" \in Steps /\ Len(incidents) + 1 \in Nat
    BY <1>2 DEF Steps
  <2>1. pc' \in [Threads -> Steps] /\ inc' \in [Threads -> Nat]  BY <1>4
  <2>2. /\ incidents' \in Seq(Ledger!Row) /\ posted' \in Seq([Ledger!Channels -> Nat])
        /\ Len(posted') = Len(incidents')
    BY <1>2, <1>3, <1>4
  <2>3. QED  BY <1>1, <1>5, <2>1, <2>2 DEF TypeOK, queueVars
<1>7. StepOf(w)  BY <1>1, <1>2, <1>3, <1>4, <1>5 DEF StepOf, queueVars, TypeOK
<1>8. RunOK(w)'
  BY <1>1, <1>2, <1>4, <1>5 DEF PipelineInv, TypeOK, RunOK, queueVars, Opened
<1>9. RowOK(w)'
  BY <1>1, <1>2, <1>3, <1>4, <1>5
     DEF TypeOK, RowOK, queueVars, Finished, Ledger!NewRow, Ledger!NothingPosted, Ledger!Channels
<1>10. [Ledger!Next]_(Ledger!vars)
  BY <1>1, <1>4 DEF rows, posts, Ledger!Next, Ledger!Open, Ledger!vars
<1>11. QED  BY <1>6, <1>7, <1>8, <1>9, <1>10 DEF Keeps

LEMMA RunAgentKeeps ==
  ASSUME PipelineInv, NEW w \in Threads, RunAgent(w)
  PROVE  Keeps(w)
<1>1. TypeOK /\ RunOK(w) /\ RowOK(w)  BY DEF PipelineInv
<1>2. TypeOK'  BY <1>1 DEF TypeOK, RunAgent, At, queueVars, Steps
<1>3. StepOf(w)  BY <1>1 DEF TypeOK, RunAgent, At, queueVars, StepOf
<1>4. RunOK(w)'  BY <1>1 DEF TypeOK, RunAgent, At, queueVars, RunOK, Opened
<1>5. RowOK(w)'  BY <1>1 DEF TypeOK, RunAgent, At, queueVars, RowOK, Finished
<1>6. QED  BY <1>2, <1>3, <1>4, <1>5 DEF Keeps, RunAgent, Ledger!vars

\* What a commit that updates the row of thread w has to show.
LEMMA CommitKeeps ==
  ASSUME PipelineInv, NEW w \in Threads, NEW from \in Opened, NEW to \in Opened \cup {"failure"},
         NEW rows \in Seq(Ledger!Row), Len(rows) = Len(incidents),
         \A i \in (DOMAIN incidents) \ {inc[w]} : rows[i] = incidents[i],
         Commit(w, from, to, rows), UNCHANGED <<queueVars, inc, posted>>
  PROVE  TypeOK' /\ StepOf(w) /\ RunOK(w)'
<1>1. TypeOK /\ RunOK(w) /\ incidents \in Seq(Ledger!Row)  BY DEF PipelineInv, TypeOK
<1>2. /\ pc[w] = from
      /\ pc' = [pc EXCEPT ![w] = to] \/ pc' = [pc EXCEPT ![w] = "failure"]
      /\ incidents' = rows \/ incidents' = incidents
  BY DEF Commit, At
<1>3. TypeOK'
  <2>1. to \in Steps /\ "failure" \in Steps  BY DEF Steps, Opened
  <2>2. pc' \in [Threads -> Steps]  BY <1>1, <1>2, <2>1 DEF TypeOK
  <2>3. incidents' \in Seq(Ledger!Row) /\ Len(incidents') = Len(incidents)  BY <1>1, <1>2
  <2>4. QED  BY <1>1, <2>2, <2>3 DEF TypeOK, queueVars
<1>4. StepOf(w)
  <2>1. \A i \in (DOMAIN incidents) \ {inc[w]} :
          i \in DOMAIN incidents' /\ incidents'[i] = incidents[i] /\ posted'[i] = posted[i]
    BY <1>1, <1>2
  <2>2. QED  BY <1>1, <1>2, <2>1 DEF TypeOK, StepOf, queueVars
<1>5. RunOK(w)'  BY <1>1, <1>2 DEF TypeOK, RunOK, queueVars, Opened
<1>6. QED  BY <1>3, <1>4, <1>5

\* The row of a thread that has one.
LEMMA OwnRow ==
  ASSUME PipelineInv, NEW w \in Threads, pc[w] \in Opened
  PROVE  /\ inc[w] # 0 /\ inc[w] \in DOMAIN incidents /\ inc[w] \in DOMAIN posted
         /\ incidents \in Seq(Ledger!Row) /\ posted \in Seq([Ledger!Channels -> Nat])
         /\ incidents[inc[w]] \in Ledger!Row /\ posted[inc[w]] \in [Ledger!Channels -> Nat]
<1>1. inc[w] # 0 /\ inc[w] \in DOMAIN incidents  BY DEF PipelineInv, RunOK, RowOK
<1>2. /\ incidents \in Seq(Ledger!Row) /\ posted \in Seq([Ledger!Channels -> Nat])
      /\ Len(posted) = Len(incidents)
  BY DEF PipelineInv, TypeOK
<1>3. QED  BY <1>1, <1>2

LEMMA CompleteIncidentKeeps ==
  ASSUME PipelineInv, NEW w \in Threads, CompleteIncident(w)
  PROVE  Keeps(w)
<1> DEFINE rows == [incidents EXCEPT ![inc[w]].status = "COMPLETE"]
<1>1. pc[w] = "complete" /\ RowOK(w) /\ pc \in [Threads -> Steps]
  BY DEF PipelineInv, TypeOK, CompleteIncident, Commit, At
<1>2. /\ inc[w] # 0 /\ inc[w] \in DOMAIN incidents
      /\ incidents \in Seq(Ledger!Row) /\ incidents[inc[w]] \in Ledger!Row
  BY <1>1, OwnRow DEF Opened
<1>3. rows \in Seq(Ledger!Row) /\ Len(rows) = Len(incidents)  BY <1>2, RowUpdates
<1>4. /\ \A i \in (DOMAIN incidents) \ {inc[w]} : rows[i] = incidents[i]
      /\ rows[inc[w]].status = "COMPLETE" /\ rows[inc[w]].task = incidents[inc[w]].task
  BY <1>2 DEF Ledger!Row
<1>5. DOMAIN rows = DOMAIN incidents  BY <1>2
<1>6. Commit(w, "complete", "slack", rows) /\ UNCHANGED <<queueVars, inc, posted>>
  BY DEF CompleteIncident
<1>7. [Ledger!Next]_(Ledger!vars)
  BY <1>1, <1>2, <1>6
     DEF RowOK, Commit, Ledger!Next, Ledger!Complete, Ledger!vars
<1> HIDE DEF rows
<1>8. TypeOK' /\ StepOf(w) /\ RunOK(w)'  BY <1>3, <1>4, <1>6, CommitKeeps DEF Opened
<1>9. RowOK(w)'
  BY <1>1, <1>2, <1>4, <1>5, <1>6 DEF RowOK, Commit, At, queueVars, Finished
<1>10. QED  BY <1>7, <1>8, <1>9 DEF Keeps

LEMMA SetSlackNotifiedKeeps ==
  ASSUME PipelineInv, NEW w \in Threads, SetSlackNotified(w)
  PROVE  Keeps(w)
<1> DEFINE rows == [incidents EXCEPT ![inc[w]].announced["slack"] = TRUE]
<1>1. pc[w] = "slackFlag" /\ RowOK(w) /\ pc \in [Threads -> Steps]
  BY DEF PipelineInv, TypeOK, SetSlackNotified, Commit, At
<1>2. /\ inc[w] # 0 /\ inc[w] \in DOMAIN incidents
      /\ incidents \in Seq(Ledger!Row) /\ incidents[inc[w]] \in Ledger!Row
  BY <1>1, OwnRow DEF Opened
<1>3. rows \in Seq(Ledger!Row) /\ Len(rows) = Len(incidents)
  BY <1>2, RowUpdates DEF Ledger!Channels
<1>4. /\ \A i \in (DOMAIN incidents) \ {inc[w]} : rows[i] = incidents[i]
      /\ rows[inc[w]].status = incidents[inc[w]].status
      /\ rows[inc[w]].task = incidents[inc[w]].task
  BY <1>2 DEF Ledger!Row
<1>5. DOMAIN rows = DOMAIN incidents  BY <1>2
<1>6. Commit(w, "slackFlag", "om", rows) /\ UNCHANGED <<queueVars, inc, posted>>
  BY DEF SetSlackNotified
<1>7. [Ledger!Next]_(Ledger!vars)
  BY <1>1, <1>2, <1>6
     DEF RowOK, Commit, Ledger!Next, Ledger!Mark, Ledger!Channels, Ledger!vars
<1> HIDE DEF rows
<1>8. TypeOK' /\ StepOf(w) /\ RunOK(w)'  BY <1>3, <1>4, <1>6, CommitKeeps DEF Opened
<1>9. RowOK(w)'
  BY <1>1, <1>2, <1>4, <1>5, <1>6 DEF RowOK, Commit, At, queueVars, Finished
<1>10. QED  BY <1>7, <1>8, <1>9 DEF Keeps

LEMMA SetOmIncidentIdKeeps ==
  ASSUME PipelineInv, NEW w \in Threads, SetOmIncidentId(w)
  PROVE  Keeps(w)
<1> DEFINE rows == [incidents EXCEPT ![inc[w]].announced["om"] = TRUE]
<1>1. pc[w] = "omId" /\ RowOK(w) /\ pc \in [Threads -> Steps]
  BY DEF PipelineInv, TypeOK, SetOmIncidentId, Commit, At
<1>2. /\ inc[w] # 0 /\ inc[w] \in DOMAIN incidents
      /\ incidents \in Seq(Ledger!Row) /\ incidents[inc[w]] \in Ledger!Row
  BY <1>1, OwnRow DEF Opened
<1>3. rows \in Seq(Ledger!Row) /\ Len(rows) = Len(incidents)
  BY <1>2, RowUpdates DEF Ledger!Channels
<1>4. /\ \A i \in (DOMAIN incidents) \ {inc[w]} : rows[i] = incidents[i]
      /\ rows[inc[w]].status = incidents[inc[w]].status
      /\ rows[inc[w]].task = incidents[inc[w]].task
  BY <1>2 DEF Ledger!Row
<1>5. DOMAIN rows = DOMAIN incidents  BY <1>2
<1>6. Commit(w, "omId", "success", rows) /\ UNCHANGED <<queueVars, inc, posted>>
  BY DEF SetOmIncidentId
<1>7. [Ledger!Next]_(Ledger!vars)
  BY <1>1, <1>2, <1>6
     DEF RowOK, Commit, Ledger!Next, Ledger!Mark, Ledger!Channels, Ledger!vars
<1> HIDE DEF rows
<1>8. TypeOK' /\ StepOf(w) /\ RunOK(w)'  BY <1>3, <1>4, <1>6, CommitKeeps DEF Opened
<1>9. RowOK(w)'
  BY <1>1, <1>2, <1>4, <1>5, <1>6 DEF RowOK, Commit, At, queueVars, Finished
<1>10. QED  BY <1>7, <1>8, <1>9 DEF Keeps

\* What a post about the row of thread w has to show.
LEMMA PostKeeps ==
  ASSUME PipelineInv, NEW w \in Threads, pc[w] \in Opened,
         NEW to \in Opened, pc' = [pc EXCEPT ![w] = to],
         NEW ch \in Ledger!Channels,
         posted' \in {posted, [posted EXCEPT ![inc[w]][ch] = @ + 1]},
         UNCHANGED <<queueVars, inc, incidents>>
  PROVE  TypeOK' /\ StepOf(w) /\ RunOK(w)'
<1>1. TypeOK /\ RunOK(w)  BY DEF PipelineInv
<1>2. /\ inc[w] # 0 /\ inc[w] \in DOMAIN posted /\ inc[w] \in DOMAIN incidents
      /\ posted \in Seq([Ledger!Channels -> Nat]) /\ incidents \in Seq(Ledger!Row)
  BY OwnRow
<1>3. posted' \in Seq([Ledger!Channels -> Nat]) /\ Len(posted') = Len(posted)
  <2>1. CASE posted' = posted  BY <1>2, <2>1
  <2>2. CASE posted' = [posted EXCEPT ![inc[w]][ch] = @ + 1]  BY <1>2, <2>2, PostUpdates
  <2>3. QED  BY <2>1, <2>2
<1>4. TypeOK'
  <2>1. to \in Steps  BY DEF Steps, Opened
  <2>2. pc' \in [Threads -> Steps]  BY <1>1, <2>1 DEF TypeOK
  <2>3. QED  BY <1>1, <1>3, <2>2 DEF TypeOK, queueVars
<1>5. StepOf(w)
  <2>1. DOMAIN posted = DOMAIN incidents  BY <1>1 DEF TypeOK
  <2>2. \A i \in (DOMAIN incidents) \ {inc[w]} : posted'[i] = posted[i]  BY <1>2, <2>1
  <2>3. QED  BY <1>1, <1>2, <2>2 DEF TypeOK, StepOf, queueVars
<1>6. RunOK(w)'  BY <1>1, <1>2 DEF TypeOK, RunOK, queueVars, Opened
<1>7. QED  BY <1>4, <1>5, <1>6

LEMMA NotifySlackKeeps ==
  ASSUME PipelineInv, NEW w \in Threads, NotifySlack(w)
  PROVE  Keeps(w)
<1>1. pc[w] = "slack" /\ RowOK(w) /\ pc \in [Threads -> Steps]
  BY DEF PipelineInv, TypeOK, NotifySlack, Post, At
<1>2. /\ inc[w] # 0 /\ inc[w] \in DOMAIN posted /\ inc[w] \in DOMAIN incidents
      /\ posted \in Seq([Ledger!Channels -> Nat])
      /\ posted[inc[w]] \in [Ledger!Channels -> Nat]
  BY <1>1, OwnRow DEF Opened
<1> DEFINE posts == [posted EXCEPT ![inc[w]]["slack"] = @ + 1]
<1>3. /\ posts[inc[w]]["slack"] = 1 /\ posts[inc[w]]["om"] = posted[inc[w]]["om"]
      /\ posts = [posted EXCEPT ![inc[w]]["slack"] = 1]
  <2>1. posted[inc[w]]["slack"] = 0  BY <1>1, <1>2 DEF RowOK
  <2>2. posts = [posted EXCEPT ![inc[w]]["slack"] = 1]  BY <2>1
  <2>3. QED  BY <1>2, <2>2 DEF Ledger!Channels
<1>4. \/ pc' = [pc EXCEPT ![w] = "slackFlag"] /\ posted' = posts
      \/ pc' = [pc EXCEPT ![w] = "om"] /\ posted' \in {posted, posts}
  BY DEF NotifySlack, Post, At
<1>5. UNCHANGED <<queueVars, inc, incidents>>  BY DEF NotifySlack
<1>6. TypeOK' /\ StepOf(w) /\ RunOK(w)'
  <2>1. CASE pc' = [pc EXCEPT ![w] = "slackFlag"]
    BY <1>1, <1>4, <1>5, <2>1, PostKeeps DEF Opened, Ledger!Channels
  <2>2. CASE pc' = [pc EXCEPT ![w] = "om"]
    BY <1>1, <1>4, <1>5, <2>2, PostKeeps DEF Opened, Ledger!Channels
  <2>3. QED  BY <1>4, <2>1, <2>2
<1>7. [Ledger!Next]_(Ledger!vars)
  BY <1>1, <1>2, <1>3, <1>4, <1>5
     DEF RowOK, Finished, Ledger!Next, Ledger!Announce, Ledger!Channels, Ledger!vars
<1> HIDE DEF posts
<1>8. RowOK(w)'
  BY <1>1, <1>2, <1>3, <1>4, <1>5 DEF RowOK, queueVars, Finished
<1>9. QED  BY <1>6, <1>7, <1>8 DEF Keeps

LEMMA CreateOmIncidentKeeps ==
  ASSUME PipelineInv, NEW w \in Threads, CreateOmIncident(w)
  PROVE  Keeps(w)
<1>1. pc[w] = "om" /\ RowOK(w) /\ pc \in [Threads -> Steps]
  BY DEF PipelineInv, TypeOK, CreateOmIncident, Post, At
<1>2. /\ inc[w] # 0 /\ inc[w] \in DOMAIN posted /\ inc[w] \in DOMAIN incidents
      /\ posted \in Seq([Ledger!Channels -> Nat])
      /\ posted[inc[w]] \in [Ledger!Channels -> Nat]
  BY <1>1, OwnRow DEF Opened
<1> DEFINE posts == [posted EXCEPT ![inc[w]]["om"] = @ + 1]
<1>3. posts[inc[w]]["om"] = 1 /\ posts = [posted EXCEPT ![inc[w]]["om"] = 1]
  <2>1. posted[inc[w]]["om"] = 0  BY <1>1, <1>2 DEF RowOK
  <2>2. posts = [posted EXCEPT ![inc[w]]["om"] = 1]  BY <2>1
  <2>3. QED  BY <1>2, <2>2 DEF Ledger!Channels
<1>4. \/ pc' = [pc EXCEPT ![w] = "omId"] /\ posted' = posts
      \/ pc' = [pc EXCEPT ![w] = "success"] /\ posted' \in {posted, posts}
  BY DEF CreateOmIncident, Post, At
<1>5. UNCHANGED <<queueVars, inc, incidents>>  BY DEF CreateOmIncident
<1>6. TypeOK' /\ StepOf(w) /\ RunOK(w)'
  <2>1. CASE pc' = [pc EXCEPT ![w] = "omId"]
    BY <1>1, <1>4, <1>5, <2>1, PostKeeps DEF Opened, Ledger!Channels
  <2>2. CASE pc' = [pc EXCEPT ![w] = "success"]
    BY <1>1, <1>4, <1>5, <2>2, PostKeeps DEF Opened, Ledger!Channels
  <2>3. QED  BY <1>4, <2>1, <2>2
<1>7. [Ledger!Next]_(Ledger!vars)
  BY <1>1, <1>2, <1>3, <1>4, <1>5
     DEF RowOK, Finished, Ledger!Next, Ledger!Announce, Ledger!Channels, Ledger!vars
<1> HIDE DEF posts
<1>8. RowOK(w)'
  BY <1>1, <1>2, <1>3, <1>4, <1>5 DEF RowOK, queueVars, Finished
<1>9. QED  BY <1>6, <1>7, <1>8 DEF Keeps

LEMMA StoreResultKeeps ==
  ASSUME PipelineInv, NEW w \in Threads, StoreResult(w)
  PROVE  Keeps(w)
<1>1. TypeOK /\ RunOK(w) /\ RowOK(w)  BY DEF PipelineInv
<1>2. pc[w] \in {"success", "failure"} /\ task[w] \in Tasks
  BY <1>1 DEF StoreResult, At, RunOK, TypeOK
<1>3. /\ pc' = [pc EXCEPT ![w] = "ack"]
      /\ \E r \in {"SUCCESS", "FAILURE"} : result' = [result EXCEPT ![task[w]] = r]
  BY <1>1, <1>2 DEF StoreResult, At, TypeOK
<1>4. UNCHANGED <<broker, task, inc, incidents, posted, crashes, earlyRestores>>
  BY DEF StoreResult
<1>5. TypeOK'  BY <1>1, <1>2, <1>3, <1>4 DEF TypeOK, Steps
<1>6. StepOf(w)  BY <1>1, <1>2, <1>3, <1>4 DEF TypeOK, StepOf
<1>7. RunOK(w)'  BY <1>1, <1>2, <1>3, <1>4 DEF TypeOK, RunOK, Opened
<1>8. RowOK(w)'  BY <1>1, <1>2, <1>3, <1>4 DEF TypeOK, RowOK, Finished
<1>9. QED  BY <1>4, <1>5, <1>6, <1>7, <1>8 DEF Keeps, Ledger!vars

LEMMA AckKeeps ==
  ASSUME PipelineInv, NEW w \in Threads, Ack(w)
  PROVE  Keeps(w)
<1>1. TypeOK /\ RunOK(w)  BY DEF PipelineInv
<1>2. task[w] \in Tasks /\ result[task[w]] # "PENDING"
  BY <1>1 DEF Ack, At, RunOK, TypeOK
<1>3. TypeOK'  BY <1>1, <1>2 DEF TypeOK, Ack, At, Steps
<1>4. StepOf(w)  BY <1>1, <1>2 DEF TypeOK, StepOf, Ack, At
<1>5. RunOK(w)' /\ RowOK(w)'  BY <1>1 DEF TypeOK, RunOK, RowOK, Opened, Ack, At
<1>6. QED  BY <1>3, <1>4, <1>5 DEF Keeps, Ack, Ledger!vars

-----------------------------------------------------------------------------
(***************************************************************************)
(* Every step keeps the invariant.  A crash and the broker's redeliveries  *)
(* touch no row.                                                           *)
(***************************************************************************)
LEMMA ThreadStep ==
  ASSUME PipelineInv, NEW w \in Threads, Run(w) \/ \E t \in Tasks : Take(w, t)
  PROVE  Keeps(w)
BY TakeKeeps, CreateIncidentKeeps, RunAgentKeeps, CompleteIncidentKeeps, NotifySlackKeeps,
   SetSlackNotifiedKeeps, CreateOmIncidentKeeps, SetOmIncidentIdKeeps, StoreResultKeeps, AckKeeps
   DEF Run

LEMMA BrokerStep ==
  ASSUME PipelineInv, NEW t \in Tasks, Webhook(t) \/ RestoreOrphan(t) \/ RestoreEarly(t)
  PROVE  PipelineInv' /\ UNCHANGED <<incidents, posted, result>>
<1>1. /\ broker' = [broker EXCEPT ![t] = "queued"]
      /\ earlyRestores' \in {earlyRestores, earlyRestores + 1}
      /\ earlyRestores' = earlyRestores \/ earlyRestores < MaxEarlyRestores
      /\ UNCHANGED <<result, pc, task, inc, incidents, posted, crashes>>
  BY DEF Webhook, RestoreOrphan, RestoreEarly
<1>2. TypeOK'
  <2>1. TypeOK /\ MaxEarlyRestores \in Nat  BY BoundsAssumption DEF PipelineInv
  <2>2. earlyRestores' \in 0..MaxEarlyRestores  BY <1>1, <2>1 DEF TypeOK
  <2>3. broker' \in [Tasks -> {"absent", "queued", "acked"} \cup Threads]
    BY <1>1, <2>1 DEF TypeOK
  <2>4. QED  BY <1>1, <2>1, <2>2, <2>3 DEF TypeOK
<1>3. \A w \in Threads : RunOK(w)' /\ RowOK(w)'  BY <1>1 DEF PipelineInv, RunOK, RowOK
<1>4. Apart'  BY <1>1 DEF PipelineInv, Apart
<1>5. NoTaskLost'  BY <1>1 DEF PipelineInv, TypeOK, NoTaskLost
<1>6. QED  BY <1>1, <1>2, <1>3, <1>4, <1>5 DEF PipelineInv

LEMMA CrashStep ==
  ASSUME PipelineInv, Crash
  PROVE  PipelineInv' /\ UNCHANGED <<incidents, posted, result>>
<1>1. TypeOK'  BY BoundsAssumption DEF PipelineInv, TypeOK, Crash, Steps
<1>2. \A w \in Threads : RunOK(w)' /\ RowOK(w)'
  BY DEF PipelineInv, TypeOK, Crash, RunOK, RowOK, Opened
<1>3. Apart'  BY DEF Crash, Apart
<1>4. NoTaskLost'  BY DEF PipelineInv, Crash, NoTaskLost
<1>5. QED  BY <1>1, <1>2, <1>3, <1>4 DEF PipelineInv, Crash

LEMMA PipelineInit == Init => PipelineInv
<1> SUFFICES ASSUME Init  PROVE PipelineInv  OBVIOUS
<1>1. TypeOK  BY BoundsAssumption DEF Init, TypeOK, Steps
<1>2. \A w \in Threads : RunOK(w) /\ RowOK(w)  BY DEF Init, RunOK, RowOK, Opened
<1>3. Apart /\ NoTaskLost  BY DEF Init, Apart, NoTaskLost
<1>4. QED  BY <1>1, <1>2, <1>3 DEF PipelineInv

LEMMA PipelineNext == PipelineInv /\ [Next]_vars => PipelineInv' /\ [Ledger!Next]_(Ledger!vars)
<1> SUFFICES ASSUME PipelineInv, [Next]_vars
             PROVE  PipelineInv' /\ [Ledger!Next]_(Ledger!vars)
  OBVIOUS
<1>1. ASSUME NEW w \in Threads, Run(w) \/ \E t \in Tasks : Take(w, t)
      PROVE  PipelineInv' /\ [Ledger!Next]_(Ledger!vars)
  BY <1>1, ThreadStep, OneThreadSteps DEF Keeps
<1>2. ASSUME NEW t \in Tasks, Webhook(t) \/ RestoreOrphan(t) \/ RestoreEarly(t)
      PROVE  PipelineInv' /\ [Ledger!Next]_(Ledger!vars)
  BY <1>2, BrokerStep DEF Ledger!vars
<1>3. CASE Crash  BY <1>3, CrashStep DEF Ledger!vars
<1>4. CASE UNCHANGED vars
  BY <1>4 DEF vars, PipelineInv, TypeOK, RunOK, RowOK, Apart, NoTaskLost, Ledger!vars
<1> HIDE DEF PipelineInv
<1>5. QED  BY <1>1, <1>2, <1>3, <1>4 DEF Next

LEMMA PipelineInvariant == Spec => []PipelineInv
BY PipelineInit, PipelineNext, PTL DEF Spec

\* The pipeline's state keeps its types: in particular posts and rows stay in
\* step, and crashes and early redeliveries within their bounds.
THEOREM TypeCorrect == Spec => []TypeOK
<1>1. PipelineInv => TypeOK  BY DEF PipelineInv
<1>2. QED  BY <1>1, PipelineInvariant, PTL

\* No two runs ever work on one incident, for any number of tasks, threads,
\* crashes and redeliveries.
THEOREM RunsStayApart == Spec => []OneRunPerIncident
<1>1. PipelineInv => OneRunPerIncident
  BY DEF PipelineInv, RowOK, Apart, OneRunPerIncident
<1>2. QED  BY <1>1, PipelineInvariant, PTL

\* A message is forgotten only after its task has run to an outcome.
THEOREM NothingIsLost == Spec => []NoTaskLost
<1>1. PipelineInv => NoTaskLost  BY DEF PipelineInv
<1>2. QED  BY <1>1, PipelineInvariant, PTL

\* The worker implements IncidentLedger.
THEOREM WorkerKeepsLedger == Spec => LedgerHolds
<1>1. Init => Ledger!Init  BY DEF Init, Ledger!Init
<1>2. QED  BY <1>1, PipelineInvariant, PipelineNext, PTL DEF Spec, LedgerHolds, Ledger!Spec

-----------------------------------------------------------------------------
(***************************************************************************)
(* Success means a complete incident.  That a complete incident stays one  *)
(* is a fact about the ledger.                                             *)
(***************************************************************************)
\* A step of the ledger keeps every row's task and every completion.
LEMMA CompleteStays ==
  ASSUME TypeOK, TypeOK', [Ledger!Next]_(Ledger!vars),
         NEW i \in DOMAIN incidents, incidents[i].status = "COMPLETE"
  PROVE  /\ i \in DOMAIN incidents'
         /\ incidents'[i].task = incidents[i].task
         /\ incidents'[i].status = "COMPLETE"
<1>1. incidents \in Seq(Ledger!Row) /\ i \in 1..Len(incidents)  BY DEF TypeOK
<1>2. CASE UNCHANGED incidents  BY <1>2
<1>3. ASSUME NEW t \in Tasks, Ledger!Open(t)
      PROVE  i \in DOMAIN incidents' /\ incidents'[i] = incidents[i]
  <2>1. Ledger!NewRow(t) \in Ledger!Row  BY DEF Ledger!NewRow, Ledger!Row
  <2>2. QED  BY <1>1, <1>3, <2>1, AppendProperties DEF Ledger!Open
<1>4. ASSUME NEW j \in DOMAIN incidents,
             Ledger!Complete(j) \/ \E ch \in Ledger!Channels : Ledger!Mark(j, ch)
      PROVE  /\ i \in DOMAIN incidents'
             /\ incidents'[i].task = incidents[i].task
             /\ incidents'[i].status = "COMPLETE"
  <2>1. incidents[j] \in Ledger!Row  BY <1>1
  <2>2. QED  BY <1>1, <1>4, <2>1 DEF Ledger!Complete, Ledger!Mark, Ledger!Row
<1>5. QED
  BY <1>2, <1>3, <1>4 DEF Ledger!Next, Ledger!vars, Ledger!Announce

LEMMA SuccessNext ==
  PipelineInv /\ SuccessMeansComplete /\ [Next]_vars => SuccessMeansComplete'
<1> SUFFICES ASSUME PipelineInv, SuccessMeansComplete, [Next]_vars,
                    NEW t \in Tasks, result'[t] = "SUCCESS"
             PROVE  \E i \in DOMAIN incidents' :
                      incidents'[i].task = t /\ incidents'[i].status = "COMPLETE"
  BY DEF SuccessMeansComplete
<1>1. /\ TypeOK /\ TypeOK' /\ [Ledger!Next]_(Ledger!vars)  BY PipelineNext DEF PipelineInv
<1>2. \E i \in DOMAIN incidents : incidents[i].task = t /\ incidents[i].status = "COMPLETE"
  <2>1. CASE result[t] = "SUCCESS"  BY <2>1 DEF SuccessMeansComplete
  <2>2. CASE result[t] # "SUCCESS"
    <3>1. PICK w \in Threads : StoreResult(w)
      BY <2>2 DEF Next, vars, Webhook, RestoreOrphan, RestoreEarly, Take, Crash, Run,
              CreateIncident, RunAgent, CompleteIncident, NotifySlack, SetSlackNotified,
              CreateOmIncident, SetOmIncidentId, Ack, queueVars
    <3>2. pc[w] = "success" /\ task[w] = t
      BY <1>1, <2>2, <3>1 DEF StoreResult, At, TypeOK
    <3>3. QED  BY <3>2 DEF PipelineInv, RunOK, RowOK, Opened, Finished
  <2>3. QED  BY <2>1, <2>2
<1>3. QED  BY <1>1, <1>2, CompleteStays

\* A task reported successful has left a complete incident.
THEOREM SuccessIsComplete == Spec => []SuccessMeansComplete
<1>1. Init => SuccessMeansComplete  BY DEF Init, SuccessMeansComplete
<1>2. SuccessMeansComplete /\ UNCHANGED vars => SuccessMeansComplete'
  BY DEF vars, SuccessMeansComplete
<1>3. QED  BY <1>1, <1>2, SuccessNext, PipelineInvariant, PTL DEF Spec
=============================================================================
