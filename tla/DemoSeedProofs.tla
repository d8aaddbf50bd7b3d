---------------------------- MODULE DemoSeedProofs ----------------------------
(***************************************************************************)
(* Proofs about DemoSeed: for any plan, any number of overlapping calls    *)
(* and any failures, a seeding without a counted failure has seen to all.  *)
(***************************************************************************)
EXTENDS DemoSeed, WellFoundedInduction, TLAPS

Steps == {"idle", "wait", "look", "make", "trigger", "success", "failed"}

Total(c) == summary[c].created + summary[c].existing

\* The entry is there, or its refusal was taken for a conflict.
Seen(c, i) == Plan[i].item \in seeded \/ (Plan[i].kind = "edge" /\ c \in faulty)

\* What a call's seeding has counted accounts for the entries behind it; it has
\* left none of them out unless it has counted a failure.
CallOK(c) ==
  /\ Total(c) + summary[c].failed <= pos[c] - 1
  /\ summary[c].failed = 0 => /\ Total(c) = pos[c] - 1
                              /\ \A i \in 1..(pos[c] - 1) : Seen(c, i)
  /\ pc[c] \in {"trigger", "success"} => pos[c] = Done /\ summary[c].failed = 0

Counters == [{"created", "existing", "failed"} -> Nat]

StateOK ==
  /\ seeded \subseteq Items /\ queued \in Nat
  /\ pc \in [Callers -> Steps]
  /\ polls \in [Callers -> 0..MaxPolls]
  /\ pos \in [Callers -> 1..Done]
  /\ summary \in [Callers -> Counters]
  /\ faulty \subseteq Callers
  /\ whole \in [Callers -> BOOLEAN]

SeedInv == StateOK /\ \A c \in Callers : CallOK(c)

\* What a step of a seeding may change, and the three ways in which it changes
\* how far the seeding is.
Frame(c) ==
  /\ seeded \subseteq seeded' /\ seeded' \subseteq Items
  /\ faulty \subseteq faulty' /\ faulty' \subseteq Callers
  /\ UNCHANGED <<queued, polls, whole>>
  /\ \E to \in {"look", "make"} : pc' = [pc EXCEPT ![c] = to]

Same(c)   == UNCHANGED <<pos, summary>>
Settle(c) ==
  /\ \E counter \in {"created", "existing"} : Count(c, counter)
  /\ pos' = [pos EXCEPT ![c] = @ + 1]
  /\ Entry(c).item \in seeded' \/ (Entry(c).kind = "edge" /\ c \in faulty')
GiveUp(c) ==
  /\ Count(c, "failed")
  /\ \E next \in 1..Done : next > pos[c] /\ pos' = [pos EXCEPT ![c] = next]

SeedStep(c) == Frame(c) /\ (Same(c) \/ Settle(c) \/ GiveUp(c))

-----------------------------------------------------------------------------
LEMMA PlanTyped ==
  /\ Len(Plan) \in Nat /\ DOMAIN Plan = 1..Len(Plan) /\ Done = Len(Plan) + 1
  /\ \A i \in 1..Len(Plan) : Plan[i].item \in Items
BY PlanAssumption DEF Done, Items

LEMMA Least ==
  ASSUME NEW S \in SUBSET Nat, S # {}
  PROVE  \E x \in S : \A y \in S : x <= y
<1> DEFINE R == OpToRel(<, Nat)
<1>1. IsWellFoundedOn(R, Nat)  BY NatLessThanWellFounded
<1>2. ASSUME NEW x \in Nat, NEW y \in Nat, <<y, x>> \notin R PROVE x <= y
  BY <1>2 DEF OpToRel
<1> HIDE DEF R
<1>3. PICK x \in S : \A y \in S : ~(<<y, x>> \in R)  BY <1>1, WFMin
<1>4. \A y \in S : x <= y  BY <1>2, <1>3
<1>5. QED  BY <1>4

LEMMA Ahead ==
  ASSUME NEW i \in 1..Len(Plan)
  PROVE  /\ NextJob(i) \in 1..Done /\ NextJob(i) > i
         /\ NextStep(i) \in 1..Done /\ NextStep(i) > i
<1>1. ASSUME NEW S \in SUBSET {j \in DOMAIN Plan : j > i}, S # {}
      PROVE  (CHOOSE j \in S : \A k \in S : j <= k) \in S
  <2>1. S \subseteq Nat  BY <1>1, PlanTyped
  <2>2. \E j \in S : \A k \in S : j <= k  BY <1>1, <2>1, Least
  <2>3. QED  BY <2>2
<1>2. Done \in 1..Done /\ Done > i  BY PlanTyped
<1>3. \A j \in DOMAIN Plan : j > i => j \in 1..Done  BY PlanTyped
<1>4. NextJob(i) \in 1..Done /\ NextJob(i) > i
  <2> DEFINE later == {j \in DOMAIN Plan : j > i /\ Plan[j].job # Plan[i].job}
  <2>1. CASE later = {}  BY <1>2, <2>1 DEF NextJob
  <2>2. CASE later # {}
    <3>1. NextJob(i) \in later  BY <1>1, <2>2 DEF NextJob
    <3>2. QED  BY <1>3, <3>1
  <2>3. QED  BY <2>1, <2>2
<1>5. NextStep(i) \in 1..Done /\ NextStep(i) > i
  <2> DEFINE later == {j \in DOMAIN Plan : j > i /\ Plan[j].step # Plan[i].step}
  <2>1. CASE later = {}  BY <1>2, <2>1 DEF NextStep
  <2>2. CASE later # {}
    <3>1. NextStep(i) \in later  BY <1>1, <2>2 DEF NextStep
    <3>2. QED  BY <1>3, <3>1
  <2>3. QED  BY <2>1, <2>2
<1>6. QED  BY <1>4, <1>5

-----------------------------------------------------------------------------
\* Each part of an ensure function is a step of the seeding.
LEMMA SettledStep ==
  ASSUME StateOK, NEW c \in Callers, pos[c] < Done,
         NEW from, NEW counter \in {"created", "existing"}, Settled(c, from, counter),
         seeded \subseteq seeded', seeded' \subseteq Items,
         faulty \subseteq faulty', faulty' \subseteq Callers,
         Entry(c).item \in seeded' \/ (Entry(c).kind = "edge" /\ c \in faulty')
  PROVE  SeedStep(c)
<1>1. Frame(c)  BY DEF Settled, Goto, Frame
<1>2. Settle(c)  BY DEF Settled, Settle
<1>3. QED  BY <1>1, <1>2 DEF SeedStep

LEMMA FailedStep ==
  ASSUME StateOK, NEW c \in Callers, pos[c] < Done,
         NEW from, Failed(c, from) \/ Aborted(c, from),
         seeded \subseteq seeded', seeded' \subseteq Items,
         faulty \subseteq faulty', faulty' \subseteq Callers
  PROVE  SeedStep(c)
<1>1. Frame(c)  BY DEF Failed, Aborted, Goto, Frame
<1>2. pos[c] \in 1..Len(Plan)  BY PlanTyped DEF StateOK
<1>3. GiveUp(c)
  <2>1. CASE Failed(c, from)  BY <1>2, <2>1, Ahead DEF Failed, GiveUp
  <2>2. CASE Aborted(c, from)  BY <1>2, <2>2, Ahead DEF Aborted, GiveUp
  <2>3. QED  BY <2>1, <2>2
<1>4. QED  BY <1>1, <1>3 DEF SeedStep

LEMMA FoundStep ==
  ASSUME StateOK, NEW c \in Callers, pos[c] < Done, Found(c)
  PROVE  SeedStep(c)
BY SettledStep DEF Found, StateOK

LEMMA NotFoundStep ==
  ASSUME StateOK, NEW c \in Callers, NotFound(c)
  PROVE  SeedStep(c)
BY DEF NotFound, Goto, scriptVars, SeedStep, Frame, Same, StateOK

LEMMA LookupFailsStep ==
  ASSUME StateOK, NEW c \in Callers, pos[c] < Done, LookupFails(c)
  PROVE  SeedStep(c)
BY FailedStep DEF LookupFails, Fault, StateOK

LEMMA CreateStep ==
  ASSUME StateOK, NEW c \in Callers, pos[c] < Done, Create(c)
  PROVE  SeedStep(c)
<1>1. pos[c] \in 1..Len(Plan)  BY PlanTyped DEF StateOK
<1>2. Entry(c).item \in Items  BY <1>1, PlanTyped DEF Entry
<1>3. CASE /\ seeded' = seeded \cup {Entry(c).item}
           /\ Settled(c, "make", "created") /\ UNCHANGED faulty
  BY <1>2, <1>3, SettledStep DEF StateOK
<1>4. CASE /\ Failed(c, "make") \/ Aborted(c, "make")
           /\ UNCHANGED faulty \/ Fault(c)
           /\ UNCHANGED seeded \/ seeded' = seeded \cup {Entry(c).item}
  BY <1>2, <1>4, FailedStep DEF StateOK, Fault
<1>5. QED  BY <1>3, <1>4 DEF Create

LEMMA ConflictStep ==
  ASSUME StateOK, NEW c \in Callers, pos[c] < Done,
         Updated(c) \/ ConflictExists(c) \/ ConflictFails(c)
  PROVE  SeedStep(c)
<1>1. CASE Updated(c)  BY <1>1, SettledStep DEF Updated, Conflict, StateOK
<1>2. CASE ConflictExists(c)  BY <1>2, SettledStep DEF ConflictExists, Conflict, StateOK
<1>3. CASE ConflictFails(c)  BY <1>3, FailedStep DEF ConflictFails, Conflict, StateOK
<1>4. QED  BY <1>1, <1>2, <1>3

LEMMA BadRequestStep ==
  ASSUME StateOK, NEW c \in Callers, pos[c] < Done, Entry(c).kind = "edge", BadRequest(c)
  PROVE  SeedStep(c)
BY SettledStep DEF BadRequest, Fault, StateOK

LEMMA AfterEndsStep ==
  ASSUME StateOK, NEW c \in Callers, pos[c] < Done, AfterEnds(c)
  PROVE  SeedStep(c)
<1>1. CASE EndMissing(c)  BY <1>1, FailedStep DEF EndMissing, StateOK
<1>2. QED  BY <1>1, FoundStep, LookupFailsStep, NotFoundStep DEF AfterEnds

LEMMA EnsureStep ==
  ASSUME StateOK, NEW c \in Callers, Ensure(c)
  PROVE  SeedStep(c)
<1>1. pos[c] < Done
  BY DEF Ensure, EnsureEntity, EnsurePipeline, EnsureEdge, EnsureStatus, EnsureBuiltin,
         EnsureDefinition, EnsureSuite, EnsureTestCase, Of
<1>2. ASSUME LookUp(c) PROVE SeedStep(c)
  BY <1>1, <1>2, FoundStep, NotFoundStep, LookupFailsStep DEF LookUp
<1>3. CASE EnsureBuiltin(c)
  <2>1. CASE Found(c) \/ LookupFails(c)  BY <1>1, <2>1, FoundStep, LookupFailsStep
  <2>2. CASE Failed(c, "look") /\ UNCHANGED <<seeded, faulty>>
    BY <1>1, <2>2, FailedStep DEF StateOK
  <2>3. QED  BY <1>3, <2>1, <2>2 DEF EnsureBuiltin
<1>4. CASE EnsureEdge(c) \/ EnsureStatus(c)
  BY <1>1, <1>4, AfterEndsStep, CreateStep, ConflictStep, BadRequestStep
  DEF EnsureEdge, EnsureStatus, Of
<1>5. CASE EnsureEntity(c) \/ EnsurePipeline(c) \/ EnsureDefinition(c) \/ EnsureSuite(c)
           \/ EnsureTestCase(c)
  BY <1>1, <1>2, <1>5, CreateStep, ConflictStep
  DEF EnsureEntity, EnsurePipeline, EnsureDefinition, EnsureSuite, EnsureTestCase
<1>6. QED  BY <1>3, <1>4, <1>5 DEF Ensure

-----------------------------------------------------------------------------
LEMMA SeedInvInit == Init => SeedInv
<1> SUFFICES ASSUME Init PROVE SeedInv  OBVIOUS
<1>1. StateOK
  BY PlanTyped, BoundsAssumption DEF Init, StateOK, Steps, Counters, Items
<1>2. \A c \in Callers : CallOK(c)  BY PlanTyped DEF Init, CallOK, Total
<1>3. QED  BY <1>1, <1>2 DEF SeedInv

LEMMA StateKept ==
  ASSUME StateOK, NEW c \in Callers, pos[c] < Done, SeedStep(c)
  PROVE  StateOK'
<1>1. /\ seeded' \subseteq Items /\ queued' \in Nat /\ polls' \in [Callers -> 0..MaxPolls]
      /\ faulty' \subseteq Callers /\ whole' \in [Callers -> BOOLEAN]
  BY DEF StateOK, SeedStep, Frame
<1>2. pc' \in [Callers -> Steps]  BY DEF StateOK, SeedStep, Frame, Steps
<1>3. pos' \in [Callers -> 1..Done]
  <2>1. CASE Same(c)  BY <2>1 DEF Same, StateOK
  <2>2. CASE Settle(c)
    <3>1. pos[c] + 1 \in 1..Done  BY PlanTyped DEF StateOK
    <3>2. QED  BY <2>2, <3>1 DEF Settle, StateOK
  <2>3. CASE GiveUp(c)  BY <2>3 DEF GiveUp, StateOK
  <2>4. QED  BY <2>1, <2>2, <2>3 DEF SeedStep
<1>4. summary' \in [Callers -> Counters]
  <2>1. CASE Same(c)  BY <2>1 DEF Same, StateOK
  <2>2. ASSUME NEW counter \in {"created", "existing", "failed"}, Count(c, counter)
        PROVE  summary' \in [Callers -> Counters]
    <3>1. summary[c] \in Counters  BY DEF StateOK
    <3>2. [summary[c] EXCEPT ![counter] = @ + 1] \in Counters  BY <3>1 DEF Counters
    <3>3. QED  BY <2>2, <3>2 DEF Count, StateOK
  <2>3. QED  BY <2>1, <2>2 DEF SeedStep, Settle, GiveUp
<1>5. QED  BY <1>1, <1>2, <1>3, <1>4 DEF StateOK

\* A step of one call's seeding keeps what is said of it, and of the others:
\* OpenMetadata only gains entries.
LEMMA CallKept ==
  ASSUME SeedInv, NEW c \in Callers, pos[c] < Done, SeedStep(c), NEW d \in Callers
  PROVE  CallOK(d)'
<1>1. /\ pos[d] \in 1..Done /\ pos[c] \in 1..Len(Plan) /\ CallOK(d) /\ CallOK(c)
      /\ summary[c] \in Counters /\ summary[d] \in Counters /\ StateOK
  BY PlanTyped DEF SeedInv, StateOK
<1>2. \A i : Seen(d, i) => Seen(d, i)'  BY DEF SeedStep, Frame, Seen
<1>3. pc'[d] = pc[d] \/ pc'[d] \in {"look", "make"}
  BY <1>1 DEF SeedStep, Frame, StateOK
<1>4. CASE pos'[d] = pos[d] /\ summary'[d] = summary[d]
  BY <1>1, <1>2, <1>3, <1>4, PlanTyped DEF CallOK, Total, Seen
<1>5. CASE d = c /\ Settle(c)
  <2>1. PICK counter \in {"created", "existing"} : Count(c, counter)  BY <1>5 DEF Settle
  <2>2. /\ Total(c)' = Total(c) + 1 /\ summary'[c].failed = summary[c].failed
        /\ Total(c) \in Nat /\ summary[c].failed \in Nat
    <3>1. summary'[c] = [summary[c] EXCEPT ![counter] = @ + 1]
      BY <1>1, <2>1 DEF Count, StateOK
    <3>2. /\ summary[c].created \in Nat /\ summary[c].existing \in Nat
          /\ summary[c].failed \in Nat /\ DOMAIN summary[c] = {"created", "existing", "failed"}
      BY <1>1 DEF Counters
    <3>3. /\ summary'[c].failed = summary[c].failed
          /\ summary'[c].created =
               IF counter = "created" THEN summary[c].created + 1 ELSE summary[c].created
          /\ summary'[c].existing =
               IF counter = "existing" THEN summary[c].existing + 1 ELSE summary[c].existing
      BY <3>1, <3>2
    <3>4. Total(c)' = summary'[c].created + summary'[c].existing  BY DEF Total
    <3>5. QED  BY <3>2, <3>3, <3>4 DEF Total
  <2>3. pos'[c] = pos[c] + 1  BY <1>1, <1>5 DEF Settle, StateOK
  <2>4. pc'[c] \notin {"trigger", "success"}  BY <1>1 DEF SeedStep, Frame, StateOK
  <2>5. ASSUME summary'[c].failed = 0, NEW i \in 1..(pos'[c] - 1)
        PROVE  Seen(c, i)'
    <3>1. CASE i = pos[c]
      <4>1. Entry(c) = Plan[i]  BY <3>1 DEF Entry
      <4>2. Plan[i].item \in seeded' \/ (Plan[i].kind = "edge" /\ c \in faulty')
        BY <1>5, <4>1 DEF Settle
      <4>3. QED  BY <4>2 DEF Seen
    <3>2. CASE i # pos[c]
      <4>1. i \in 1..(pos[c] - 1)  BY <1>1, <2>3, <3>2
      <4>2. QED  BY <1>1, <1>2, <1>5, <2>2, <2>5, <4>1 DEF CallOK
    <3>3. QED  BY <3>1, <3>2
  <2>6. /\ Total(c)' + summary'[c].failed <= pos'[c] - 1
        /\ summary'[c].failed = 0 => Total(c)' = pos'[c] - 1
    <3>1. /\ Total(c) + summary[c].failed <= pos[c] - 1
          /\ summary[c].failed = 0 => Total(c) = pos[c] - 1
      BY <1>1 DEF CallOK
    <3>2. pos[c] \in Nat  BY <1>1
    <3>3. QED  BY <2>2, <2>3, <3>1, <3>2
  <2>7. QED  BY <1>5, <2>4, <2>5, <2>6 DEF CallOK
<1>6. CASE d = c /\ GiveUp(c)
  <2>1. /\ Total(c)' = Total(c) /\ summary'[c].failed = summary[c].failed + 1
        /\ Total(c) \in Nat /\ summary[c].failed \in Nat
    BY <1>1, <1>6 DEF GiveUp, Count, Total, StateOK, Counters
  <2>2. pos'[c] > pos[c] /\ pos'[c] \in 1..Done  BY <1>1, <1>6 DEF GiveUp, StateOK
  <2>3. pc'[c] \notin {"trigger", "success"}  BY <1>1 DEF SeedStep, Frame, StateOK
  <2>4. Total(c)' + summary'[c].failed <= pos'[c] - 1
    <3>1. Total(c) + summary[c].failed <= pos[c] - 1  BY <1>1 DEF CallOK
    <3>2. pos[c] \in Nat /\ pos'[c] \in Nat  BY <1>1, <2>2, PlanTyped
    <3>3. QED  BY <2>1, <2>2, <3>1, <3>2
  <2>5. summary'[c].failed # 0  BY <2>1
  <2>6. QED  BY <1>6, <2>3, <2>4, <2>5 DEF CallOK
<1>7. d # c => pos'[d] = pos[d] /\ summary'[d] = summary[d]
  BY <1>1 DEF SeedStep, Same, Settle, GiveUp, Count, StateOK
<1>8. Same(c) => pos'[d] = pos[d] /\ summary'[d] = summary[d]  BY DEF Same
<1>9. QED  BY <1>4, <1>5, <1>6, <1>7, <1>8 DEF SeedStep

\* The steps before and after a seeding.
LEMMA OtherStep ==
  ASSUME SeedInv, NEW c \in Callers, Start(c) \/ Poll(c) \/ ExitSeed(c) \/ Trigger(c)
  PROVE  SeedInv'
<1>1. /\ UNCHANGED <<seeded, pos, summary, faulty>> /\ StateOK
      /\ \A d \in Callers : CallOK(d)
  BY DEF SeedInv, Start, Poll, ExitSeed, Trigger, scriptVars
<1>2. polls' \in [Callers -> 0..MaxPolls] /\ whole' \in [Callers -> BOOLEAN]
  <2>1. CASE Poll(c)
    <3>1. \/ polls' = [polls EXCEPT ![c] = 0]
          \/ polls' = [polls EXCEPT ![c] = IF @ < MaxPolls THEN @ + 1 ELSE @]
      BY <2>1 DEF Poll
    <3>2. polls[c] \in 0..MaxPolls  BY <1>1 DEF StateOK
    <3>3. /\ 0 \in 0..MaxPolls
          /\ (IF polls[c] < MaxPolls THEN polls[c] + 1 ELSE polls[c]) \in 0..MaxPolls
      BY <3>2, BoundsAssumption
    <3>4. polls' \in [Callers -> 0..MaxPolls]  BY <1>1, <3>1, <3>3 DEF StateOK
    <3>5. whole' \in [Callers -> BOOLEAN]
      <4>1. whole' = whole \/ whole' = [whole EXCEPT ![c] = Items \subseteq seeded]
        BY <2>1 DEF Poll
      <4>2. QED  BY <1>1, <4>1 DEF StateOK
    <3>6. QED  BY <3>4, <3>5
  <2>2. CASE UNCHANGED <<polls, whole>>  BY <1>1, <2>2 DEF StateOK
  <2>3. QED  BY <2>1, <2>2 DEF Start, ExitSeed, Trigger, scriptVars
<1>3. queued' \in Nat
  <2>1. queued' = queued \/ queued' = queued + 1
    BY DEF Start, Poll, ExitSeed, Trigger
  <2>2. QED  BY <1>1, <2>1 DEF StateOK
<1>4. PICK to \in Steps :
        /\ pc' = [pc EXCEPT ![c] = to]
        /\ to = "trigger" => pos[c] = Done /\ ~(summary[c].failed > 0)
        /\ to = "success" => pc[c] = "trigger"
  <2>1. CASE Start(c)  BY <2>1 DEF Start, Goto, Steps
  <2>2. CASE Poll(c)  BY <2>2 DEF Poll, Goto, Steps
  <2>3. CASE ExitSeed(c)  BY <2>3 DEF ExitSeed, Goto, Steps
  <2>4. CASE Trigger(c)  BY <2>4 DEF Trigger, Goto, Steps
  <2>5. QED  BY <2>1, <2>2, <2>3, <2>4
<1>5. pc' \in [Callers -> Steps]  BY <1>1, <1>4 DEF StateOK
<1>6. StateOK'  BY <1>1, <1>2, <1>3, <1>5 DEF StateOK
<1>7. ASSUME NEW d \in Callers PROVE CallOK(d)'
  <2>1. summary[d].failed \in Nat  BY <1>1 DEF StateOK, Counters
  <2>2. pc'[d] \in {"trigger", "success"} => pos[d] = Done /\ summary[d].failed = 0
    <3>1. CASE d # c  BY <1>1, <1>4, <3>1 DEF StateOK, CallOK
    <3>2. CASE d = c
      <4>1. pc'[c] = to  BY <1>1, <1>4 DEF StateOK
      <4>2. to = "success" => pos[c] = Done /\ summary[c].failed = 0
        BY <1>1, <1>4 DEF CallOK
      <4>3. to = "trigger" => pos[c] = Done /\ summary[c].failed = 0
        BY <1>4, <2>1, <3>2
      <4>4. QED  BY <3>2, <4>1, <4>2, <4>3
    <3>3. QED  BY <3>1, <3>2
  <2>3. QED  BY <1>1, <2>2 DEF CallOK, Total, Seen
<1>8. QED  BY <1>6, <1>7 DEF SeedInv

LEMMA SeedInvStep == SeedInv /\ [Next]_vars => SeedInv'
<1> SUFFICES ASSUME SeedInv, [Next]_vars PROVE SeedInv'  OBVIOUS
<1>1. CASE UNCHANGED vars
  BY <1>1 DEF vars, scriptVars, SeedInv, StateOK, CallOK, Total, Seen
<1>2. ASSUME NEW c \in Callers, Ensure(c) PROVE SeedInv'
  <2>1. SeedStep(c) /\ StateOK  BY <1>2, EnsureStep DEF SeedInv
  <2>2. pos[c] < Done
    BY <1>2 DEF Ensure, EnsureEntity, EnsurePipeline, EnsureEdge, EnsureStatus,
                EnsureBuiltin, EnsureDefinition, EnsureSuite, EnsureTestCase, Of
  <2>3. QED  BY <2>1, <2>2, StateKept, CallKept DEF SeedInv
<1>3. QED  BY <1>1, <1>2, OtherStep DEF Next, Proceed

THEOREM Inductive == Spec => []SeedInv
BY SeedInvInit, SeedInvStep, PTL DEF Spec

-----------------------------------------------------------------------------
\* For any plan, callers and failures, the calls' state keeps its types, and a
\* seeding counts no entry twice (scripts/seed_demo.py:955-973).
THEOREM TypeCorrect == Spec => []TypeOK
<1>1. SeedInv => TypeOK
  <2> SUFFICES ASSUME SeedInv PROVE TypeOK  OBVIOUS
  <2>1. StateOK  BY DEF SeedInv
  <2>2. ASSUME NEW c \in Callers, NEW k \in {"created", "existing", "failed"}
        PROVE  summary[c][k] \in 0..Len(Plan)
    <3>1. summary[c] \in Counters /\ pos[c] \in 1..Done  BY <2>1 DEF StateOK
    <3>2. summary[c].created + summary[c].existing + summary[c].failed <= pos[c] - 1
      BY DEF SeedInv, CallOK, Total
    <3>3. /\ summary[c].created \in Nat /\ summary[c].existing \in Nat
          /\ summary[c].failed \in Nat
      BY <3>1 DEF Counters
    <3>4. pos[c] - 1 \in 0..Len(Plan)  BY <3>1, PlanTyped
    <3>5. /\ summary[c].created \in 0..Len(Plan) /\ summary[c].existing \in 0..Len(Plan)
          /\ summary[c].failed \in 0..Len(Plan)
      <4>1. \A a, b, d, m, n \in Nat :
              a + b + d <= m /\ m <= n => a \in 0..n /\ b \in 0..n /\ d \in 0..n
        OBVIOUS
      <4>2. Len(Plan) \in Nat /\ pos[c] - 1 \in Nat /\ pos[c] - 1 <= Len(Plan)
        BY <3>4, PlanTyped
      <4>3. QED  BY <3>2, <3>3, <4>1, <4>2
    <3>6. QED  BY <3>5
  <2>3. summary \in [Callers -> [{"created", "existing", "failed"} -> 0..Len(Plan)]]
    BY <2>1, <2>2 DEF StateOK, Counters
  <2>4. QED  BY <2>1, <2>3 DEF StateOK, TypeOK, Steps
<1>2. QED  BY <1>1, Inductive, PTL

\* However many seedings overlap and whatever requests fail, a call that answers
\* with success has seen to every entry, and OpenMetadata has them all, but for
\* edges it refused (scripts/seed_demo.py:955-980).
THEOREM SuccessIsSeeded == Spec => []SuccessMeansSeeded
<1>1. SeedInv => SuccessMeansSeeded
  <2> SUFFICES ASSUME SeedInv, NEW c \in Callers, pc[c] \in {"trigger", "success"}
               PROVE  (\A i \in DOMAIN Plan : Seen(c, i)) /\ Total(c) = Len(Plan)
    BY DEF SuccessMeansSeeded, Total, Seen
  <2>1. Total(c) = Done - 1 /\ \A i \in 1..(Done - 1) : Seen(c, i)
    BY DEF SeedInv, CallOK
  <2>2. QED  BY <2>1, PlanTyped
<1>2. QED  BY <1>1, Inductive, PTL

-----------------------------------------------------------------------------
(***************************************************************************)
(* Seedings that meet no failing request.  One loses an entry only for     *)
(* want of what the entry needs, or of a definition OpenMetadata should    *)
(* have brought along; in a plan whose needs come first that is never the  *)
(* case when the definitions are there.  One that found everything there   *)
(* at its start only looks.                                                *)
(***************************************************************************)
Builtins == {Plan[i].item : i \in {j \in DOMAIN Plan : Plan[j].kind = "builtin"}}

\* What is behind a call's seeding is in OpenMetadata.
PlaceOK(c) ==
  c \notin faulty /\ Builtins \subseteq seeded =>
    \A i \in 1..(pos[c] - 1) : Plan[i].item \in seeded

QuietOK(c) ==
  /\ whole[c] => Items \subseteq seeded
  /\ pc[c] \in {"idle", "wait"} => /\ ~whole[c]
                                   /\ summary[c].created = 0 /\ summary[c].failed = 0
  /\ whole[c] /\ c \notin faulty => /\ pc[c] # "make"
                                    /\ summary[c].created = 0 /\ summary[c].failed = 0

OverlapInv == \A c \in Callers : PlaceOK(c) /\ QuietOK(c)

\* The steps of a seeding whose request did not fail.
Unmet(c) ==
  /\ \E from \in {"look", "make"} : Failed(c, from)
  /\ \/ ~(Needs[Entry(c).item] \subseteq seeded)
     \/ Entry(c).kind = "builtin" /\ Entry(c).item \notin seeded

Healthy(c) ==
  \/ NotFound(c)
  \/ Settled(c, "look", "existing") /\ Entry(c).item \in seeded
  \/ /\ \E counter \in {"created", "existing"} : Settled(c, "make", counter)
     /\ Entry(c).item \in seeded'
  \/ Unmet(c)
  \/ Failed(c, "make") /\ Entry(c).kind = "entity" /\ Entry(c).item \in seeded

\* Only what is no builtin definition is ever created.
Gains(c) ==
  \/ UNCHANGED seeded
  \/ seeded' = seeded \cup {Entry(c).item} /\ Entry(c).kind # "builtin"

LEMMA LookUpHealthy ==
  ASSUME NEW c \in Callers, LookUp(c)
  PROVE  (c \notin faulty' => Healthy(c)) /\ UNCHANGED seeded
  BY DEF LookUp, Found, NotFound, LookupFails, Fault, Healthy

LEMMA CreateHealthy ==
  ASSUME NEW c \in Callers, Create(c)
  PROVE  /\ c \notin faulty' => Healthy(c)
         /\ UNCHANGED seeded \/ seeded' = seeded \cup {Entry(c).item}
  BY DEF Create, Fault, Healthy, Unmet

LEMMA ConflictHealthy ==
  ASSUME NEW c \in Callers,
         \/ Updated(c) \/ ConflictExists(c)
         \/ ConflictFails(c) /\ Entry(c).kind = "entity"
  PROVE  (c \notin faulty' => Healthy(c)) /\ UNCHANGED seeded
  BY DEF Updated, ConflictExists, ConflictFails, Conflict, Healthy

LEMMA EdgeHealthy ==
  ASSUME NEW c \in Callers, AfterEnds(c) \/ BadRequest(c)
  PROVE  (c \notin faulty' => Healthy(c)) /\ UNCHANGED seeded
  BY DEF AfterEnds, BadRequest, Found, NotFound, LookupFails, EndMissing, Fault, Healthy,
         Unmet

LEMMA EnsureHealthy ==
  ASSUME NEW c \in Callers, Ensure(c)
  PROVE  (c \notin faulty' => Healthy(c)) /\ Gains(c)
<1> USE DEF Of
<1>1. CASE EnsureBuiltin(c)
  BY <1>1 DEF EnsureBuiltin, Found, LookupFails, Fault, Healthy, Unmet, Gains
<1>2. CASE EnsureEdge(c) \/ EnsureStatus(c)
  BY <1>2, CreateHealthy, ConflictHealthy, EdgeHealthy DEF EnsureEdge, EnsureStatus, Gains
<1>3. CASE EnsureEntity(c) \/ EnsurePipeline(c)
  BY <1>3, LookUpHealthy, CreateHealthy, ConflictHealthy
     DEF EnsureEntity, EnsurePipeline, Gains
<1>4. CASE EnsureDefinition(c) \/ EnsureSuite(c) \/ EnsureTestCase(c)
  BY <1>4, LookUpHealthy, CreateHealthy, ConflictHealthy
     DEF EnsureDefinition, EnsureSuite, EnsureTestCase, Gains
<1>5. QED  BY <1>1, <1>2, <1>3, <1>4 DEF Ensure

\* A failing _ensure_entity takes no other entry with it.
LEMMA EntityAlone ==
  ASSUME NEW i \in 1..Len(Plan), Plan[i].kind = "entity"
  PROVE  NextJob(i) = i + 1
<1> DEFINE later == {j \in DOMAIN Plan : j > i /\ Plan[j].job # Plan[i].job}
<1>1. /\ \A j \in DOMAIN Plan : j > i => j \in later
      /\ DOMAIN Plan = 1..Len(Plan) /\ Len(Plan) \in Nat
  BY PlanTyped, PlanOrderAssumption
<1>2. CASE i = Len(Plan)
  <2>1. later = {}  BY <1>1, <1>2
  <2>2. QED  BY <1>2, <2>1 DEF NextJob, Done
<1>3. CASE i # Len(Plan)
  <2>0. i + 1 \in DOMAIN Plan /\ i + 1 > i
    <3>1. DOMAIN Plan = 1..Len(Plan) /\ Len(Plan) \in Nat  BY <1>1
    <3>2. QED  BY <1>3, <3>1
  <2>1. i + 1 \in later /\ \A k \in later : i + 1 <= k /\ k \in Nat
    <3>1. i + 1 \in later  BY <1>1, <2>0
    <3>2. \A k \in later : k > i /\ k \in Nat  BY <1>1
    <3>3. QED  BY <3>1, <3>2
  <2>2. \A j \in later : (\A k \in later : j <= k) => j = i + 1  BY <2>1
  <2>3. (CHOOSE j \in later : \A k \in later : j <= k) = i + 1  BY <2>1, <2>2
  <2>4. QED  BY <2>1, <2>3 DEF NextJob
<1>4. QED  BY <1>2, <1>3

LEMMA PlaceKept ==
  ASSUME SeedInv, OverlapInv, NEW c \in Callers, Ensure(c), NEW d \in Callers
  PROVE  PlaceOK(d)'
<1> SUFFICES ASSUME d \notin faulty', Builtins \subseteq seeded', NEW i \in 1..(pos'[d] - 1)
             PROVE  Plan[i].item \in seeded'
  BY DEF PlaceOK, Builtins
<1>1. /\ StateOK /\ pos[c] \in 1..Len(Plan) /\ DOMAIN Plan = 1..Len(Plan) /\ Len(Plan) \in Nat
      /\ pos[d] \in 1..Done
  BY PlanTyped DEF SeedInv, StateOK, Ensure, EnsureEntity, EnsurePipeline, EnsureEdge,
     EnsureStatus, EnsureBuiltin, EnsureDefinition, EnsureSuite, EnsureTestCase, Of
<1>2. SeedStep(c)  BY <1>1, EnsureStep
<1>3. seeded \subseteq seeded' /\ d \notin faulty  BY <1>2 DEF SeedStep, Frame
<1>4. Builtins \subseteq seeded
  <2>1. \A j \in DOMAIN Plan : Plan[j].kind = "builtin" => Plan[j].item # Entry(c).item
                                                          \/ Entry(c).kind = "builtin"
    BY <1>1, PlanOrderAssumption DEF Entry
  <2>2. QED  BY <2>1, EnsureHealthy DEF Gains, Builtins
<1>5. \A j \in 1..(pos[d] - 1) : Plan[j].item \in seeded
  BY <1>3, <1>4 DEF OverlapInv, PlaceOK
<1>6. CASE pos'[d] = pos[d]
  BY <1>3, <1>5, <1>6
<1>7. CASE d = c /\ pos'[c] = pos[c] + 1 /\ Entry(c).item \in seeded'
  <2>1. i = pos[c] \/ i \in 1..(pos[c] - 1)  BY <1>1, <1>7
  <2>2. QED  BY <1>3, <1>5, <1>7, <2>1 DEF Entry
<1>8. d # c => pos'[d] = pos[d]
  BY <1>1, <1>2 DEF SeedStep, Same, Settle, GiveUp, StateOK
<1>9. ASSUME d = c PROVE \/ pos'[c] = pos[c]
                         \/ pos'[c] = pos[c] + 1 /\ Entry(c).item \in seeded'
  <2>1. Healthy(c)  BY <1>9, EnsureHealthy
  <2>2. ~Unmet(c)
    <3>1. Entry(c).kind = "builtin" => Entry(c).item \in seeded
      BY <1>1, <1>4 DEF Entry, Builtins
    <3>2. \A item \in Needs[Entry(c).item] : \E j \in 1..(pos[c] - 1) : Plan[j].item = item
      BY <1>1, PlanOrderAssumption DEF Entry
    <3>3. Needs[Entry(c).item] \subseteq seeded  BY <1>5, <1>9, <3>2
    <3>4. QED  BY <3>1, <3>3 DEF Unmet
  <2>3. CASE NotFound(c)  BY <2>3 DEF NotFound, scriptVars
  <2>4. CASE \E from, counter : Settled(c, from, counter) /\ Entry(c).item \in seeded'
    BY <1>1, <2>4 DEF Settled, StateOK
  <2>5. CASE Failed(c, "make") /\ Entry(c).kind = "entity" /\ Entry(c).item \in seeded
    BY <1>1, <1>3, <2>5, EntityAlone DEF Failed, StateOK, Entry
  <2>6. QED  BY <1>3, <2>1, <2>2, <2>3, <2>4, <2>5 DEF Healthy
<1>10. QED  BY <1>6, <1>7, <1>8, <1>9

LEMMA QuietKept ==
  ASSUME SeedInv, OverlapInv, NEW c \in Callers, Ensure(c), NEW d \in Callers
  PROVE  QuietOK(d)'
<1>1. /\ StateOK /\ pos[c] \in 1..Len(Plan) /\ DOMAIN Plan = 1..Len(Plan) /\ Len(Plan) \in Nat
      /\ QuietOK(d) /\ pc[c] \in {"look", "make"}
  <2>1. StateOK /\ pos[c] < Done /\ pos[c] \in 1..Done
    BY DEF SeedInv, StateOK, Ensure, EnsureEntity, EnsurePipeline, EnsureEdge,
       EnsureStatus, EnsureBuiltin, EnsureDefinition, EnsureSuite, EnsureTestCase, Of
  <2>2. pc[c] \in {"look", "make"}
    BY DEF Ensure, EnsureEntity, EnsurePipeline, EnsureEdge,
       EnsureStatus, EnsureBuiltin, EnsureDefinition, EnsureSuite, EnsureTestCase, LookUp,
       AfterEnds, Found, NotFound, LookupFails, EndMissing, Create, Updated, ConflictExists,
       ConflictFails, BadRequest, Settled, Failed, Aborted, Goto
  <2>3. QED  BY <2>1, <2>2, PlanTyped DEF OverlapInv
<1>2. SeedStep(c)  BY <1>1, PlanTyped, EnsureStep
<1>3. /\ seeded \subseteq seeded' /\ UNCHANGED whole /\ faulty \subseteq faulty'
      /\ \E to \in {"look", "make"} : pc' = [pc EXCEPT ![c] = to]
  BY <1>2 DEF SeedStep, Frame
<1>4. CASE d # c
  <2>1. pc'[d] = pc[d] /\ summary'[d] = summary[d]
    BY <1>1, <1>2, <1>3, <1>4 DEF SeedStep, Same, Settle, GiveUp, Count, StateOK
  <2>2. QED  BY <1>1, <1>3, <2>1 DEF QuietOK, Items
<1>5. CASE d = c
  <2>1. pc'[c] \in {"look", "make"}  BY <1>1, <1>3 DEF StateOK
  <2>2. SUFFICES ASSUME whole[c], c \notin faulty'
                 PROVE  pc'[c] # "make" /\ summary'[c].created = 0 /\ summary'[c].failed = 0
    BY <1>1, <1>3, <1>5, <2>1 DEF QuietOK, Items
  <2>3. /\ Items \subseteq seeded /\ pc[c] # "make"
        /\ summary[c].created = 0 /\ summary[c].failed = 0
    BY <1>1, <1>3, <1>5, <2>2 DEF QuietOK
  <2>4. Entry(c).item \in seeded  BY <1>1, <2>3, PlanTyped DEF Entry
  <2>5. Needs[Entry(c).item] \subseteq seeded
    <3>1. \A item \in Needs[Entry(c).item] : \E j \in 1..(pos[c] - 1) : Plan[j].item = item
      BY <1>1, PlanOrderAssumption DEF Entry
    <3>2. \A j \in 1..(pos[c] - 1) : Plan[j].item \in Items  BY <1>1, PlanTyped
    <3>3. QED  BY <2>3, <3>1, <3>2
  <2>6. Settled(c, "look", "existing")
    <3>1. Healthy(c)  BY <2>2, EnsureHealthy
    <3>2. QED  BY <2>3, <2>4, <2>5, <3>1 DEF Healthy, Unmet, NotFound, Settled, Failed, Goto
  <2>7. pc'[c] = "look"  BY <1>1, <2>6 DEF Settled, Goto, StateOK
  <2>8. summary'[c] = [summary[c] EXCEPT !["existing"] = @ + 1]
    BY <1>1, <2>6 DEF Settled, Count, StateOK
  <2>9. DOMAIN summary[c] = {"created", "existing", "failed"}
    BY <1>1 DEF StateOK, Counters
  <2>10. QED  BY <2>3, <2>7, <2>8, <2>9
<1>6. QED  BY <1>4, <1>5

LEMMA OverlapStep == SeedInv /\ OverlapInv /\ [Next]_vars => OverlapInv'
<1> SUFFICES ASSUME SeedInv, OverlapInv, [Next]_vars, NEW d \in Callers
             PROVE  PlaceOK(d)' /\ QuietOK(d)'
  BY DEF OverlapInv
<1>1. CASE UNCHANGED vars
  BY <1>1 DEF vars, scriptVars, OverlapInv, PlaceOK, QuietOK, Builtins, Items
<1>2. ASSUME NEW c \in Callers, Ensure(c) PROVE PlaceOK(d)' /\ QuietOK(d)'
  BY <1>2, PlaceKept, QuietKept
<1>3. ASSUME NEW c \in Callers, Start(c) \/ Poll(c) \/ ExitSeed(c) \/ Trigger(c)
      PROVE  PlaceOK(d)' /\ QuietOK(d)'
  <2>1. /\ UNCHANGED <<seeded, pos, summary, faulty>> /\ StateOK /\ PlaceOK(d) /\ QuietOK(d)
    BY <1>3 DEF SeedInv, OverlapInv, Start, Poll, ExitSeed, Trigger, scriptVars
  <2>2. PlaceOK(d)'  BY <2>1 DEF PlaceOK, Builtins
  <2>3. \/ pc'[d] = pc[d] /\ whole'[d] = whole[d]
        \/ pc[d] = "idle" /\ pc'[d] = "wait" /\ whole'[d] = whole[d]
        \/ /\ pc[d] = "wait" /\ pc'[d] \in {"look", "wait", "failed"}
           /\ whole'[d] = whole[d] \/ whole'[d] = (Items \subseteq seeded)
           /\ pc'[d] # "look" => whole'[d] = whole[d]
        \/ pc'[d] \in {"trigger", "success", "failed"} /\ whole'[d] = whole[d]
    <3>1. CASE Start(c)  BY <2>1, <3>1 DEF Start, Goto, scriptVars, StateOK
    <3>2. CASE Poll(c)  BY <2>1, <3>2 DEF Poll, Goto, StateOK
    <3>3. CASE ExitSeed(c)  BY <2>1, <3>3 DEF ExitSeed, Goto, scriptVars, StateOK
    <3>4. CASE Trigger(c)  BY <2>1, <3>4 DEF Trigger, Goto, scriptVars, StateOK
    <3>5. QED  BY <1>3, <3>1, <3>2, <3>3, <3>4
  <2>4. /\ whole[d] => Items \subseteq seeded
        /\ pc[d] \in {"idle", "wait"} => /\ ~whole[d]
                                         /\ summary[d].created = 0 /\ summary[d].failed = 0
        /\ whole[d] /\ d \notin faulty => /\ pc[d] # "make"
                                          /\ summary[d].created = 0 /\ summary[d].failed = 0
    BY <2>1 DEF QuietOK
  <2>5. QuietOK(d)'
    <3>1. CASE pc[d] \in {"idle", "wait"}
      <4>1. summary'[d].created = 0 /\ summary'[d].failed = 0  BY <2>1, <2>4, <3>1
      <4>2. whole'[d] => Items \subseteq seeded  BY <2>3, <2>4
      <4>3. /\ pc'[d] # "make"
            /\ pc'[d] \in {"idle", "wait"} => ~whole'[d]
        BY <2>3, <2>4, <3>1
      <4>4. QED  BY <2>1, <4>1, <4>2, <4>3 DEF QuietOK, Items
    <3>2. CASE pc[d] \notin {"idle", "wait"}
      <4>1. /\ whole'[d] = whole[d] /\ pc'[d] \notin {"idle", "wait"}
            /\ pc'[d] = "make" => pc[d] = "make"
        BY <2>3, <3>2
      <4>2. QED  BY <2>1, <2>4, <4>1 DEF QuietOK, Items
    <3>3. QED  BY <3>1, <3>2
  <2>6. QED  BY <2>2, <2>5
<1>4. QED  BY <1>1, <1>2, <1>3 DEF Next, Proceed

LEMMA OverlapInvariant == Spec => []OverlapInv
<1>1. Init => OverlapInv
  BY DEF Init, OverlapInv, PlaceOK, QuietOK
<1>2. QED  BY <1>1, OverlapStep, Inductive, PTL DEF Spec

\* However many seedings overlap, one that met no failing request leaves
\* everything in place (scripts/seed_demo.py:305-316, 463-466, 522-525).
THEOREM OverlapIsHarmless == Spec => []OverlapLosesNothing
<1>1. SeedInv /\ OverlapInv => OverlapLosesNothing
  <2> SUFFICES ASSUME SeedInv, OverlapInv, NEW c \in Callers, pos[c] = Done, c \notin faulty,
                      \A i \in DOMAIN Plan : Plan[i].kind = "builtin" => Plan[i].item \in seeded
               PROVE  Items \subseteq seeded
    BY DEF OverlapLosesNothing
  <2>1. \A i \in 1..(Done - 1) : Plan[i].item \in seeded
    BY DEF OverlapInv, PlaceOK, Builtins
  <2>2. QED  BY <2>1, PlanTyped DEF Items
<1>2. QED  BY <1>1, Inductive, OverlapInvariant, PTL

\* However many calls seed again what is there, none creates anything and none
\* fails, unless a request does (scripts/seed_demo.py:288-325).
THEOREM ReseedingIsQuiet == Spec => []ReseedIsQuiet
<1>1. OverlapInv => ReseedIsQuiet  BY DEF OverlapInv, QuietOK, ReseedIsQuiet
<1>2. QED  BY <1>1, OverlapInvariant, PTL

-----------------------------------------------------------------------------
\* A step of a seeding goes past its entry, unless it found that it has to make it.
LEMMA EnsureMoves ==
  ASSUME NEW c \in Callers, Ensure(c)
  PROVE  \/ NotFound(c)
         \/ \E from \in {"look", "make"} :
              \/ \E counter \in {"created", "existing"} : Settled(c, from, counter)
              \/ Failed(c, from) \/ Aborted(c, from)
<1> DEFINE Past == \E from \in {"look", "make"} :
              \/ \E counter \in {"created", "existing"} : Settled(c, from, counter)
              \/ Failed(c, from) \/ Aborted(c, from)
<1>1. ASSUME LookUp(c) \/ AfterEnds(c)  PROVE NotFound(c) \/ Past
  BY <1>1 DEF LookUp, AfterEnds, Found, LookupFails, EndMissing
<1>2. ASSUME Create(c)  PROVE Past  BY <1>2 DEF Create
<1>3. ASSUME Updated(c) \/ ConflictExists(c) \/ ConflictFails(c) \/ BadRequest(c)  PROVE Past
  BY <1>3 DEF Updated, ConflictExists, ConflictFails, BadRequest
<1>4. ASSUME EnsureBuiltin(c)  PROVE Past
  BY <1>4 DEF EnsureBuiltin, Found, LookupFails
<1> HIDE DEF Past
<1>5. QED
  <2>1. NotFound(c) \/ Past
    BY <1>1, <1>2, <1>3, <1>4
    DEF Ensure, EnsureEntity, EnsurePipeline, EnsureEdge, EnsureStatus, EnsureDefinition,
        EnsureSuite, EnsureTestCase
  <2>2. QED  BY <2>1 DEF Past

LEMMA EnsureAdvances ==
  ASSUME StateOK, NEW c \in Callers, Ensure(c)
  PROVE  /\ Advances(c)
         /\ \A d \in Callers \ {c} : pc'[d] = pc[d] /\ pos'[d] = pos[d] /\ polls'[d] = polls[d]
<1>1. /\ pc \in [Callers -> Steps] /\ pos \in [Callers -> 1..Done]
      /\ polls \in [Callers -> 0..MaxPolls]
  BY DEF StateOK
<1>2. pos[c] < Done
  BY DEF Ensure, EnsureEntity, EnsurePipeline, EnsureEdge, EnsureStatus, EnsureBuiltin,
         EnsureDefinition, EnsureSuite, EnsureTestCase, Of
<1>3. pos[c] \in 1..Len(Plan) /\ pos[c] \in Int  BY <1>1, <1>2, PlanTyped
<1>4. ASSUME NEW from \in {"look", "make"}, NEW next \in Int, next > pos[c],
             Goto(c, from, "look"), pos' = [pos EXCEPT ![c] = next], UNCHANGED polls
      PROVE  /\ Advances(c)
             /\ \A d \in Callers \ {c} : pc'[d] = pc[d] /\ pos'[d] = pos[d] /\ polls'[d] = polls[d]
  <2>1. pos'[c] = next /\ pc'[c] = "look" /\ pc[c] \in {"look", "make"}
    BY <1>1, <1>4 DEF Goto
  <2>2. Advances(c)  BY <1>4, <2>1 DEF Advances
  <2>3. QED  BY <1>1, <1>4, <2>2 DEF Goto
<1>5. CASE NotFound(c)
  <2>1. pc[c] = "look" /\ pc' = [pc EXCEPT ![c] = "make"] /\ UNCHANGED <<pos, polls>>
    BY <1>5 DEF NotFound, Goto, scriptVars
  <2>2. pc'[c] = "make" /\ pos'[c] = pos[c]  BY <1>1, <2>1
  <2>3. Advances(c)  BY <2>1, <2>2 DEF Advances
  <2>4. QED  BY <1>1, <2>1, <2>3
<1>6. ASSUME NEW from \in {"look", "make"}, NEW counter, Settled(c, from, counter)
      PROVE  /\ Advances(c)
             /\ \A d \in Callers \ {c} : pc'[d] = pc[d] /\ pos'[d] = pos[d] /\ polls'[d] = polls[d]
  <2>1. pos[c] + 1 \in Int /\ pos[c] + 1 > pos[c]  BY <1>3
  <2>2. QED  BY <1>4, <1>6, <2>1 DEF Settled
<1>7. ASSUME NEW from \in {"look", "make"}, Failed(c, from) \/ Aborted(c, from)
      PROVE  /\ Advances(c)
             /\ \A d \in Callers \ {c} : pc'[d] = pc[d] /\ pos'[d] = pos[d] /\ polls'[d] = polls[d]
  <2>1. /\ NextJob(pos[c]) \in Int /\ NextJob(pos[c]) > pos[c]
        /\ NextStep(pos[c]) \in Int /\ NextStep(pos[c]) > pos[c]
    BY <1>3, PlanTyped, Ahead
  <2>2. QED  BY <1>4, <1>7, <2>1 DEF Failed, Aborted
<1>8. QED  BY <1>5, <1>6, <1>7, EnsureMoves

\* For any plan, callers and failures, no step of a call is one it could take
\* for ever (scripts/seed_demo.py:955-973, app/routers/dashboard.py:131-160).
THEOREM CallsAdvance == Spec => SomeCallAdvances
<1>1. ASSUME SeedInv, Next
      PROVE  \E c \in Callers :
               /\ Advances(c)
               /\ \A d \in Callers \ {c} : pc'[d] = pc[d] /\ pos'[d] = pos[d] /\ polls'[d] = polls[d]
  <2>1. /\ StateOK /\ pc \in [Callers -> Steps] /\ pos \in [Callers -> 1..Done]
        /\ polls \in [Callers -> 0..MaxPolls] /\ MaxPolls \in Nat
    BY <1>1, BoundsAssumption DEF SeedInv, StateOK
  <2>2. PICK c \in Callers : Start(c) \/ Proceed(c)  BY <1>1 DEF Next
  <2>3. CASE Ensure(c)  BY <2>1, <2>3, EnsureAdvances
  <2>4. ASSUME NEW from, NEW to, Goto(c, from, to)
        PROVE  pc[c] = from /\ pc'[c] = to /\ \A d \in Callers \ {c} : pc'[d] = pc[d]
    BY <2>1, <2>4 DEF Goto
  <2>5. CASE Start(c)
    <3>1. Goto(c, "idle", "wait") /\ UNCHANGED <<pos, polls>>  BY <2>5 DEF Start, scriptVars
    <3>2. QED  BY <2>4, <3>1 DEF Advances
  <2>6. CASE Poll(c)
    <3>1. UNCHANGED pos /\ \A d \in Callers \ {c} : polls'[d] = polls[d]
      BY <2>1, <2>6 DEF Poll
    <3>2. CASE Goto(c, "wait", "look")  BY <2>4, <3>1, <3>2 DEF Advances
    <3>3. CASE Goto(c, "wait", "failed")  BY <2>4, <3>1, <3>3 DEF Advances
    <3>4. CASE Goto(c, "wait", "wait")
      <4>1. pc[c] = "wait" /\ pc'[c] = "wait"  BY <2>4, <3>4
      <4>2. polls[c] < MaxPolls /\ polls'[c] = polls[c] + 1
        BY <2>1, <2>6, <4>1 DEF Poll, Goto
      <4>3. polls'[c] > polls[c]  BY <2>1, <4>2
      <4>4. QED  BY <2>4, <3>1, <3>4, <4>1, <4>3 DEF Advances
    <3>5. QED  BY <2>6, <3>2, <3>3, <3>4 DEF Poll
  <2>7. CASE ExitSeed(c)
    <3>1. (Goto(c, "look", "failed") \/ Goto(c, "look", "trigger")) /\ UNCHANGED <<pos, polls>>
      BY <2>7 DEF ExitSeed, scriptVars
    <3>2. QED  BY <2>4, <3>1 DEF Advances
  <2>8. CASE Trigger(c)
    <3>1. (Goto(c, "trigger", "success") \/ Goto(c, "trigger", "failed")) /\ UNCHANGED <<pos, polls>>
      BY <2>8 DEF Trigger, scriptVars
    <3>2. QED  BY <2>4, <3>1 DEF Advances
  <2>9. QED  BY <2>2, <2>3, <2>5, <2>6, <2>7, <2>8 DEF Proceed
<1>2. QED  BY <1>1, Inductive, PTL DEF Spec, SomeCallAdvances
=============================================================================
