------------------------- MODULE IncidentViewsProofs -------------------------
(***************************************************************************)
(* Proofs about IncidentViews: what a page, a walk through the list and a  *)
(* wait may claim, for any number of incidents, reports and polls.         *)
(***************************************************************************)
EXTENDS IncidentViews, FiniteSetTheorems, TLAPS

Views == [incident : Incidents \cup {None}, status : Statuses,
          timeline : Seq(Entities), blast : Seq(Entities)]

PlaceOK ==
  /\ reader = "page" => pc \in {"idle", "timeline", "blast", "rendered", "notFound"}
  /\ reader = "list" => pc \in {"idle", "listed"}
  /\ reader = "wait" => pc \in {"idle", "done", "timeout"}
  /\ reader # "wait" => answer = NoAnswer

StateOK == TypeOK /\ view \in Views /\ PlaceOK

\* Child rows exist only of complete incidents, and then for good.  So what the
\* page has read of one is what is there, once it knows the incident complete.
PageInv ==
  /\ \A i \in Incidents : status[i] # "COMPLETE" => children[i] = NoChildren
  /\ pc \in {"timeline", "blast", "rendered"} =>
       /\ view.incident \in Incidents
       /\ view.status = "COMPLETE" => status[view.incident] = "COMPLETE"
  /\ pc \in {"blast", "rendered"} =>
       /\ view.status = "COMPLETE" => view.timeline = children[view.incident].timeline
       /\ view.timeline # <<>> => status[view.incident] = "COMPLETE"
  /\ PageIsWhole

Above(i) == {j \in Present : triggered[j] > triggered[i]}

\* An incident that has not been listed yet has not moved before the offset.
ListInv ==
  reader = "list" =>
    /\ page >= 1 /\ before \subseteq Present
    /\ \A i \in before : Alone(i) /\ i \notin shown =>
         pc = "idle" /\ (page > 1 => Cardinality(Above(i)) >= Offset(page))

\* No incident of before was triggered after the baseline, nor after the
\* incident that was seen unfinished.
NotAfter(S, j) == \A i \in S : triggered[i] <= triggered[j]

WaitInv ==
  reader = "wait" =>
    /\ before \subseteq Complete
    /\ baseline = None => before = {} /\ ~seenNonComplete /\ answer = NoAnswer
    /\ baseline # None => baseline \in Present /\ NotAfter(before, baseline)
    /\ baseline # None /\ ~seenNonComplete => baseline \in before
    /\ seenNonComplete => \E j \in Present \ before : NotAfter(before, j)
    /\ pc \in {"idle", "timeout"} /\ answer.status = "COMPLETE" => answer.incident \in before
    /\ WaitEndsWithNew

Inv == StateOK /\ PageInv /\ ListInv /\ WaitInv

-----------------------------------------------------------------------------
LEMMA EmptySeq == <<>> \in Seq(Entities)
OBVIOUS

LEMMA InvInit == Init => Inv
<1> SUFFICES ASSUME Init PROVE Inv  OBVIOUS
<1> USE DEF Init, NoView, NoAnswer
<1>1. TypeOK
  <2>1. /\ status \in [Incidents -> Statuses] /\ triggered \in [Incidents -> Times]
        /\ children \in [Incidents -> Reports \cup {NoChildren}]
    BY DEF Statuses
  <2>2. /\ view.incident \in Incidents \cup {None} /\ view.status \in Statuses
        /\ answer \in [incident : Incidents \cup {None}, status : Statuses]
    BY DEF Statuses
  <2>3. page \in Nat /\ polls \in 0..MaxPolls  BY SizesAssumption
  <2>4. seenNonComplete \in BOOLEAN  OBVIOUS
  <2>5. QED  BY <2>1, <2>2, <2>3, <2>4 DEF TypeOK
<1>2. view \in Views  BY EmptySeq DEF Views, Statuses
<1>3. PlaceOK  BY DEF PlaceOK
<1>4. PageInv  BY DEF PageInv, PageIsWhole
<1>5. ListInv  BY DEF ListInv
<1>6. WaitInv  BY DEF WaitInv, WaitEndsWithNew
<1>7. QED  BY <1>1, <1>2, <1>3, <1>4, <1>5, <1>6 DEF Inv, StateOK

\* The worker's steps only add to what is present and complete.
Grows ==
  /\ Present \subseteq Present' /\ Complete \subseteq Complete'
  /\ Present' \subseteq Incidents
  /\ UNCHANGED <<triggered, reader, readers>>

LEMMA WorkerGrows ==
  ASSUME StateOK, NEW i \in Incidents,
         Open(i) \/ (\E report \in Reports : Finish(i, report))
  PROVE  Grows
BY DEF StateOK, TypeOK, Open, Finish, Grows, Present, Complete

LEMMA AloneShrinks ==
  ASSUME Grows, NEW i, Alone(i)'
  PROVE  Alone(i)
BY DEF Grows, Alone

LEMMA ListKept == ASSUME StateOK, ListInv, Grows PROVE ListInv'
<1> SUFFICES ASSUME reader = "list" PROVE ListInv'
  BY DEF ListInv, Grows
<1>1. page' >= 1 /\ before' \subseteq Present'  BY DEF ListInv, Grows, readers
<1>2. ASSUME NEW i \in before', Alone(i)', i \notin shown'
      PROVE  pc' = "idle" /\ (page' > 1 => Cardinality(Above(i)') >= Offset(page'))
  <2>1. /\ pc = "idle" /\ (page > 1 => Cardinality(Above(i)) >= Offset(page))
        /\ pc' = pc /\ page' = page
    BY <1>2, AloneShrinks DEF ListInv, Grows, readers
  <2>2. Above(i) \subseteq Above(i)' /\ Above(i)' \subseteq Incidents
    BY DEF Above, Grows
  <2>3. IsFiniteSet(Above(i)')  BY <2>2, FiniteAssumption, FS_Subset
  <2>4. /\ Cardinality(Above(i)) <= Cardinality(Above(i)')
        /\ Cardinality(Above(i)) \in Nat /\ Cardinality(Above(i)') \in Nat
    BY <2>2, <2>3, FS_Subset, FS_CardinalityType
  <2>5. Offset(page) \in Int /\ page \in Nat
    BY SizesAssumption DEF Offset, StateOK, TypeOK
  <2>6. QED  BY <2>1, <2>4, <2>5
<1>3. QED  BY <1>1, <1>2 DEF ListInv

LEMMA WaitKept == ASSUME WaitInv, Grows PROVE WaitInv'
<1> SUFFICES ASSUME reader = "wait" PROVE WaitInv'
  BY DEF WaitInv, Grows
<1>1. WaitEndsWithNew'
  BY AloneShrinks DEF WaitInv, WaitEndsWithNew, Grows, readers
<1>2. \A S, j : NotAfter(S, j) => NotAfter(S, j)'  BY DEF NotAfter, Grows
<1>3. QED  BY <1>1, <1>2 DEF WaitInv, Grows, readers, NotAfter

LEMMA OpenStep == ASSUME Inv, NEW i \in Incidents, Open(i) PROVE Inv'
<1>1. StateOK'
  BY DEF Inv, StateOK, TypeOK, PlaceOK, Open, readers, Statuses
<1>2. PageInv'
  BY DEF Inv, PageInv, PageIsWhole, StateOK, TypeOK, Open, readers
<1>3. Grows  BY WorkerGrows DEF Inv
<1>4. QED  BY <1>1, <1>2, <1>3, ListKept, WaitKept DEF Inv

LEMMA FinishStep ==
  ASSUME Inv, NEW i \in Incidents, NEW report \in Reports, Finish(i, report)
  PROVE  Inv'
<1>1. StateOK'
  BY DEF Inv, StateOK, TypeOK, PlaceOK, Finish, readers, Statuses
<1>2. PageInv'
  <2>1. /\ status \in [Incidents -> Statuses] /\ status[i] = "PROCESSING"
        /\ status' = [status EXCEPT ![i] = "COMPLETE"]
        /\ children' = [children EXCEPT ![i] = report] /\ UNCHANGED readers
        /\ DOMAIN children = Incidents
    BY DEF Inv, StateOK, TypeOK, Finish
  <2>2. \A j \in Incidents : status[j] = "COMPLETE" => j # i /\ status'[j] = "COMPLETE"
                                                       /\ children'[j] = children[j]
    BY <2>1
  <2>3. \A j \in Incidents : status'[j] # "COMPLETE" => children'[j] = NoChildren
    BY <2>1 DEF Inv, PageInv
  <2>4. QED  BY <2>1, <2>2, <2>3 DEF Inv, PageInv, PageIsWhole, readers
<1>3. Grows  BY WorkerGrows DEF Inv
<1>4. QED  BY <1>1, <1>2, <1>3, ListKept, WaitKept DEF Inv

-----------------------------------------------------------------------------
\* The page.
LEMMA PageStep ==
  ASSUME Inv, GetTimeline \/ GetBlastRadius \/ (\E i \in Incidents : GetIncident(i))
  PROVE  Inv'
<1>0. reader = "page" /\ UNCHANGED <<rows, reader, page, shown>> /\ NoWait /\ UNCHANGED before
  BY DEF GetTimeline, GetBlastRadius, GetIncident, Reads, NoList
<1>1. ListInv' /\ WaitInv'  BY <1>0 DEF ListInv, WaitInv
<1>2. CASE \E i \in Incidents : GetIncident(i)
  <2>1. PICK i \in Incidents : GetIncident(i)  BY <1>2
  <2>2. view' = [incident |-> i, status |-> status[i], timeline |-> <<>>, blast |-> <<>>]
    BY <2>1 DEF GetIncident, NoView
  <2>3. StateOK'
    <3>1. view' \in Views  BY <2>2, EmptySeq DEF Views, Inv, StateOK, TypeOK
    <3>2. TypeOK'
      BY <1>0, <2>1, <3>1 DEF Inv, StateOK, TypeOK, GetIncident, Reads, NoWait, rows, Views
    <3>3. PlaceOK'
      BY <1>0, <2>1 DEF Inv, StateOK, PlaceOK, GetIncident, Reads, NoWait
    <3>4. QED  BY <3>1, <3>2, <3>3 DEF StateOK
  <2>4. PageInv'
    BY <1>0, <2>1, <2>2 DEF Inv, PageInv, PageIsWhole, GetIncident, Reads, rows
  <2>5. QED  BY <1>1, <2>3, <2>4 DEF Inv
<1>3. CASE GetTimeline \/ GetBlastRadius
  <2>1. /\ pc \in {"timeline", "blast"} /\ view \in Views /\ view.incident \in Incidents
        /\ pc' = IF pc = "timeline" THEN "blast" ELSE "rendered"
        /\ children[view.incident] \in Reports \cup {NoChildren}
    BY <1>3 DEF Inv, StateOK, TypeOK, PageInv, GetTimeline, GetBlastRadius, Reads
  <2>2. /\ children[view.incident].timeline \in Seq(Entities)
        /\ children[view.incident].blast \in Seq(Entities)
    <3>1. CASE children[view.incident] = NoChildren  BY <3>1, EmptySeq DEF NoChildren
    <3>2. CASE children[view.incident] \in Reports
      <4>1. children[view.incident] \in [timeline : Seq(Entities), blast : Seq(Entities)]
        BY <3>2, ReportsAssumption
      <4>2. QED  BY <4>1
    <3>3. QED  BY <2>1, <3>1, <3>2
  <2>3. /\ view'.incident = view.incident /\ view'.status = view.status
        /\ view' \in Views
        /\ pc = "timeline" => view'.timeline = children[view.incident].timeline
        /\ pc = "blast" => /\ view'.timeline = view.timeline
                           /\ view'.blast = children[view.incident].blast
    BY <1>3, <2>1, <2>2 DEF Views, GetTimeline, GetBlastRadius, Reads
  <2>4. StateOK'
    <3>1. TypeOK'
      BY <1>0, <2>1, <2>3 DEF Inv, StateOK, TypeOK, NoWait, rows, Views
    <3>2. PlaceOK'  BY <1>0, <2>1 DEF Inv, StateOK, PlaceOK, NoWait
    <3>3. QED  BY <2>3, <3>1, <3>2 DEF StateOK
  <2>5. NoChildren.timeline = <<>>  BY DEF NoChildren
  <2>6. PageInv'
    BY <1>0, <2>1, <2>3, <2>5 DEF Inv, PageInv, PageIsWhole, rows
  <2>7. QED  BY <1>1, <2>4, <2>6 DEF Inv
<1>4. QED  BY <1>2, <1>3

-----------------------------------------------------------------------------
\* The list.
LEMMA OffsetNext ==
  ASSUME NEW p \in Nat, p >= 1
  PROVE  Offset(p) \in Nat /\ Offset(p + 1) = Offset(p) + PageSize
<1>1. PageSize \in Nat  BY SizesAssumption
<1>2. \A a, s \in Nat : a * s \in Nat /\ (a + 1) * s = a * s + s  OBVIOUS
<1>3. (p - 1) \in Nat /\ (p - 1) + 1 = p  OBVIOUS
<1>4. Offset(p) = (p - 1) * PageSize
  <2>1. 0 * PageSize = 0  BY <1>1
  <2>2. CASE p > 1  BY <2>2 DEF Offset
  <2>3. CASE p = 1  BY <2>1, <2>3 DEF Offset
  <2>4. QED  BY <2>2, <2>3
<1>5. Offset(p + 1) = p * PageSize  BY DEF Offset
<1>6. QED  BY <1>1, <1>2, <1>3, <1>4, <1>5

\* An incident with a triggered_at of its own that neither this page nor one
\* before it shows has the page's offset and the whole page above it.
LEMMA NotListed ==
  ASSUME Inv, NEW skipped \in SUBSET Incidents, NEW listed \in SUBSET Incidents,
         ListPage(skipped, listed),
         NEW i \in Present, Alone(i), i \notin listed,
         page > 1 => Cardinality(Above(i)) >= Offset(page)
  PROVE  /\ Cardinality(listed) = PageSize
         /\ Cardinality(Above(i)) >= Offset(page) + PageSize
<1>1. /\ skipped \subseteq Present /\ listed \subseteq Present /\ skipped \cap listed = {}
      /\ Cardinality(skipped) = AtMost(Offset(page), Present)
      /\ Cardinality(listed) = AtMost(PageSize, Present \ skipped)
      /\ Precede(skipped, Present \ skipped)
      /\ Precede(listed, Present \ (skipped \cup listed))
      /\ Present \subseteq Incidents /\ page \in Nat /\ page >= 1
      /\ \A j \in Present : triggered[j] \in Nat
  BY TimesAssumption DEF ListPage, Reads, Inv, StateOK, TypeOK, ListInv, Present
<1>2. Offset(page) \in Nat /\ PageSize \in Nat \ {0}
  BY <1>1, OffsetNext, SizesAssumption
<1>3. IsFiniteSet(Present) /\ IsFiniteSet(Present \ skipped) /\ IsFiniteSet(skipped)
      /\ IsFiniteSet(listed) /\ IsFiniteSet(Above(i)) /\ IsFiniteSet(Above(i) \cup {i})
  <2>1. Above(i) \cup {i} \subseteq Incidents  BY <1>1 DEF Above
  <2>2. \A S \in SUBSET Incidents : IsFiniteSet(S)  BY FiniteAssumption, FS_Subset
  <2>3. QED  BY <1>1, <2>1, <2>2
<1>4. /\ Cardinality(Present) \in Nat /\ Cardinality(Present \ skipped) \in Nat
      /\ Cardinality(skipped) \in Nat /\ Cardinality(listed) \in Nat
      /\ Cardinality(Above(i)) \in Nat
  BY <1>3, FS_CardinalityType
<1>5. ASSUME NEW j \in Present, j # i, triggered[j] >= triggered[i] PROVE j \in Above(i)
  BY <1>1, <1>5 DEF Alone, Above
<1>6. i \notin skipped
  <2> SUFFICES ASSUME i \in skipped PROVE FALSE  OBVIOUS
  <2>1. ASSUME NEW j \in Above(i) PROVE j \in skipped /\ j # i
    BY <1>1, <2>1 DEF Above, Precede
  <2>2. Above(i) \in SUBSET (skipped \ {i})  BY <2>1
  <2>3. Cardinality(skipped \ {i}) = Cardinality(skipped) - 1 /\ IsFiniteSet(skipped \ {i})
    BY <1>3, FS_RemoveElement
  <2>4. Cardinality(Above(i)) <= Cardinality(skipped) - 1
    BY <2>2, <2>3, FS_Subset
  <2>5. Cardinality(skipped) <= Offset(page)  BY <1>1, <1>2, <1>4 DEF AtMost
  <2>6. CASE page > 1  BY <1>2, <1>4, <2>4, <2>5, <2>6
  <2>7. CASE page = 1
    <3>1. Offset(page) = 0  BY <2>7, SizesAssumption DEF Offset
    <3>2. QED  BY <1>4, <2>4, <2>5, <3>1
  <2>8. QED  BY <1>1, <2>6, <2>7
<1>7. skipped \cup listed \subseteq Above(i)
  BY <1>1, <1>5, <1>6 DEF Precede
<1>8. Cardinality(skipped \cup listed) = Cardinality(skipped) + Cardinality(listed)
  <2>1. Cardinality(skipped \cap listed) = 0  BY <1>1, FS_EmptySet
  <2>2. Cardinality(skipped \cup listed) =
          Cardinality(skipped) + Cardinality(listed) - Cardinality(skipped \cap listed)
    BY <1>3, FS_Union
  <2>3. QED  BY <1>4, <2>1, <2>2
<1>9. Cardinality(listed) = PageSize
  <2> SUFFICES ASSUME Cardinality(listed) # PageSize PROVE FALSE  OBVIOUS
  <2>1. Cardinality(listed) = Cardinality(Present \ skipped)
    BY <1>1, <1>2, <1>4 DEF AtMost
  <2>2. listed \in SUBSET (Present \ skipped)  BY <1>1
  <2>3. listed = Present \ skipped  BY <1>3, <2>1, <2>2, FS_Subset
  <2>4. QED  BY <1>6, <2>3
<1>10. Cardinality(skipped) = Offset(page)
  <2> SUFFICES ASSUME Cardinality(skipped) # Offset(page) PROVE FALSE  OBVIOUS
  <2>1. Cardinality(skipped) = Cardinality(Present)  BY <1>1, <1>2, <1>4 DEF AtMost
  <2>2. skipped = Present  BY <1>1, <1>3, <2>1, FS_Subset
  <2>3. QED  BY <1>6, <2>2
<1>11. Cardinality(skipped \cup listed) <= Cardinality(Above(i))
  BY <1>3, <1>7, FS_Subset
<1>12. QED  BY <1>2, <1>4, <1>8, <1>9, <1>10, <1>11

LEMMA ListStep ==
  ASSUME Inv, NEW skipped \in SUBSET Incidents, NEW listed \in SUBSET Incidents,
         ListPage(skipped, listed)
  PROVE  Inv'
<1>1. /\ reader = "list" /\ pc = "idle" /\ UNCHANGED <<rows, reader, view>> /\ NoWait
      /\ pc' = IF Cardinality(listed) < PageSize THEN "listed" ELSE "idle"
      /\ page' = page + 1 /\ shown' = shown \cup listed
      /\ before' = IF page = 1 THEN Present ELSE before
      /\ page \in Nat /\ page >= 1 /\ before \subseteq Present
      /\ Present \subseteq Incidents
  BY DEF Inv, StateOK, TypeOK, ListInv, ListPage, Browse, Reads, NoPage, Present
<1>2. StateOK'
  BY <1>1 DEF Inv, StateOK, TypeOK, PlaceOK, rows, NoWait
<1>3. PageInv'  BY <1>1 DEF Inv, PageInv, PageIsWhole, rows
<1>4. Present' = Present /\ UNCHANGED triggered  BY <1>1 DEF Present, rows
<1>5. ASSUME NEW i \in before', Alone(i)', i \notin shown'
      PROVE  pc' = "idle" /\ (page' > 1 => Cardinality(Above(i)') >= Offset(page'))
  <2>1. Alone(i) /\ Above(i)' = Above(i)  BY <1>4, <1>5 DEF Alone, Above
  <2>2. i \in Present /\ i \notin listed  BY <1>1, <1>5
  <2>3. page > 1 => Cardinality(Above(i)) >= Offset(page)
    BY <1>1, <1>5, <2>1 DEF Inv, ListInv
  <2>4. Cardinality(listed) = PageSize /\ Cardinality(Above(i)) >= Offset(page) + PageSize
    BY <2>1, <2>2, <2>3, NotListed
  <2>5. QED  BY <1>1, <2>1, <2>4, OffsetNext, SizesAssumption
<1>6. ListInv'  BY <1>1, <1>4, <1>5 DEF ListInv
<1>7. WaitInv'  BY <1>1 DEF WaitInv
<1>8. QED  BY <1>2, <1>3, <1>6, <1>7 DEF Inv

-----------------------------------------------------------------------------
\* The wait.
LEMMA PollStep == ASSUME Inv, NEW i \in Incidents, Poll(i) PROVE Inv'
<1>1. /\ reader = "wait" /\ pc = "idle" /\ UNCHANGED <<rows, reader, view, page, shown>>
      /\ polls < MaxPolls /\ i \in Latest /\ polls' = polls + 1
      /\ pc' = IF status[i] = "COMPLETE" /\ ~Old(i) THEN "done" ELSE "idle"
      /\ baseline' = IF baseline = None THEN i ELSE baseline
      /\ seenNonComplete' = (seenNonComplete \/ status[i] # "COMPLETE")
      /\ answer' = [incident |-> i, status |-> status[i]]
      /\ before' = IF baseline = None THEN Complete ELSE before
  BY DEF Poll, Got, Reads, NoPage, NoList
<1>2. StateOK'
  <2>1. polls' \in 0..MaxPolls  BY <1>1, SizesAssumption DEF Inv, StateOK, TypeOK
  <2>2. answer' \in [incident : Incidents \cup {None}, status : Statuses]
    BY <1>1 DEF Inv, StateOK, TypeOK
  <2>3. seenNonComplete' \in BOOLEAN  BY <1>1
  <2>4. before' \subseteq Incidents  BY <1>1 DEF Inv, StateOK, TypeOK, Complete
  <2>5. TypeOK'
    BY <1>1, <2>1, <2>2, <2>3, <2>4 DEF Inv, StateOK, TypeOK, rows
  <2>6. PlaceOK'  BY <1>1 DEF PlaceOK
  <2>7. QED  BY <1>1, <2>5, <2>6 DEF Inv, StateOK
<1>3. PageInv'  BY <1>1 DEF Inv, PageInv, PageIsWhole, rows
<1>4. ListInv'  BY <1>1 DEF ListInv
<1>5. WaitInv'
  <2>1. /\ Present' = Present /\ Complete' = Complete /\ UNCHANGED <<triggered, status>>
        /\ \A j : Alone(j)' = Alone(j)
        /\ Complete \subseteq Present /\ i \in Present /\ NotAfter(Present, i)
        /\ \A j \in Present : triggered[j] \in Nat
        /\ i # None /\ baseline' # None
        /\ status[i] # "COMPLETE" <=> i \notin Complete
    BY <1>1, TimesAssumption, NoneAssumption
    DEF Present, Complete, Alone, rows, Latest, NotAfter, Inv, StateOK, TypeOK
  <2>2. before' \subseteq Complete /\ NotAfter(before', i)
    BY <1>1, <2>1 DEF Inv, WaitInv, NotAfter
  <2>3. baseline' \in Present /\ NotAfter(before', baseline')
    BY <1>1, <2>1, <2>2 DEF Inv, WaitInv
  <2>4. ~seenNonComplete' => baseline' \in before'
    BY <1>1, <2>1 DEF Inv, WaitInv
  <2>5. seenNonComplete' => \E j \in Present \ before' : NotAfter(before', j)
    <3>1. CASE seenNonComplete  BY <1>1, <3>1 DEF Inv, WaitInv
    <3>2. CASE status[i] # "COMPLETE"  BY <2>1, <2>2, <3>2
    <3>3. QED  BY <1>1, <3>1, <3>2
  <2>6. pc' = "idle" /\ status[i] = "COMPLETE" => i \in before'
    BY <1>1, <2>1, <2>4 DEF Old, Inv, WaitInv
  <2>7. ASSUME pc' = "done", i \in before', Alone(i) PROVE FALSE
    <3>1. baseline # None /\ before' = before /\ i \in before
      BY <1>1, <2>7 DEF Old, Inv, WaitInv
    <3>2. ASSUME NEW j \in Present, j # i, NotAfter(before, j) PROVE FALSE
      <4>1. triggered[i] <= triggered[j] /\ triggered[j] <= triggered[i]
        BY <2>1, <3>1, <3>2 DEF NotAfter
      <4>2. QED  BY <2>1, <2>7, <3>2, <4>1 DEF Alone
    <3>3. CASE seenNonComplete  BY <3>1, <3>2, <3>3, <1>1 DEF Inv, WaitInv
    <3>4. CASE ~seenNonComplete  BY <1>1, <3>1, <3>2, <3>4, <2>7 DEF Old, Inv, WaitInv
    <3>5. QED  BY <3>3, <3>4
  <2>8. WaitEndsWithNew'  BY <1>1, <2>1, <2>7 DEF WaitEndsWithNew
  <2>9. QED  BY <1>1, <2>1, <2>2, <2>3, <2>4, <2>5, <2>6, <2>8 DEF WaitInv, NotAfter
<1>6. QED  BY <1>2, <1>3, <1>4, <1>5 DEF Inv

LEMMA QuietStep == ASSUME Inv, PollUnanswered \/ Deadline PROVE Inv'
<1>1. /\ reader = "wait" /\ pc = "idle" /\ pc' \in {"idle", "timeout"}
      /\ UNCHANGED <<rows, reader, view, page, shown, baseline, seenNonComplete, answer, before>>
      /\ polls' = polls \/ (polls < MaxPolls /\ polls' = polls + 1)
  BY DEF PollUnanswered, Deadline, Reads, NoPage, NoList, NoWait
<1>2. StateOK'
  <2>1. polls' \in 0..MaxPolls  BY <1>1, SizesAssumption DEF Inv, StateOK, TypeOK
  <2>2. TypeOK'  BY <1>1, <2>1 DEF Inv, StateOK, TypeOK, rows
  <2>3. PlaceOK'  BY <1>1 DEF Inv, StateOK, PlaceOK
  <2>4. QED  BY <1>1, <2>2, <2>3 DEF Inv, StateOK
<1>3. PageInv'  BY <1>1 DEF Inv, PageInv, PageIsWhole, rows
<1>4. ListInv'  BY <1>1 DEF ListInv
<1>5. WaitInv'
  BY <1>1 DEF Inv, WaitInv, WaitEndsWithNew, Alone, NotAfter, Present, Complete, rows
<1>6. QED  BY <1>2, <1>3, <1>4, <1>5 DEF Inv

-----------------------------------------------------------------------------
LEMMA InvStep == Inv /\ [Next]_vars => Inv'
<1> SUFFICES ASSUME Inv, [Next]_vars PROVE Inv'  OBVIOUS
<1>1. CASE UNCHANGED vars
  BY <1>1 DEF vars, rows, readers, Inv, StateOK, TypeOK, PlaceOK, PageInv, PageIsWhole,
     ListInv, WaitInv, WaitEndsWithNew, Alone, Above, NotAfter, Present, Complete
<1>2. CASE Next
  BY <1>2, OpenStep, FinishStep, PageStep, ListStep, PollStep, QuietStep DEF Next
<1>3. QED  BY <1>1, <1>2

THEOREM Inductive == Spec => []Inv
BY InvInit, InvStep, PTL DEF Spec

\* The rows and the readers keep their types.
THEOREM TypeCorrect == Spec => []TypeOK
<1>1. Inv => TypeOK  BY DEF Inv, StateOK
<1>2. QED  BY <1>1, Inductive, PTL

\* However the worker's commits fall between the detail page's statements, the
\* page claims no more than it shows (app/services/incident_store.py:47-55).
THEOREM PagesAreWhole == Spec => []PageIsWhole
<1>1. Inv => PageIsWhole  BY DEF Inv, PageInv
<1>2. QED  BY <1>1, Inductive, PTL

\* For any lists of events and consumers, with the table or one entity in both,
\* the graph flows one way (app/services/graph_builder.py:114-132).
THEOREM GraphsFlow == Spec => []GraphFlows
<1>1. GraphFlows
  <2> DEFINE up   == Upstream(view)
             down == Mentioned(view.blast)
             kind == Nodes(view)
  <2>1. Root \notin up /\ up \cap down = {}  BY DEF Upstream
  <2>2. /\ DOMAIN kind = {Root} \cup up \cup down
        /\ kind[Root] = "root"
        /\ \A e \in up : kind[e] = "upstream"
        /\ \A e \in down \ {Root} : kind[e] = "downstream"
    BY <2>1 DEF Nodes
  <2>3. \A edge \in Edges(view) :
          \/ edge[1] \in up /\ edge[2] = Root
          \/ edge[1] = Root /\ edge[2] \in down
    BY DEF Edges
  <2>4. \A e : /\ <<e, Root>> \in Edges(view) <=> e \in up \/ (e = Root /\ Root \in down)
               /\ <<Root, e>> \in Edges(view) <=> e \in down \/ (e = Root /\ Root \in up)
    BY DEF Edges
  <2> HIDE DEF up, down, kind
  <2>5. ASSUME NEW edge \in Edges(view)
        PROVE  /\ {edge[1], edge[2]} \subseteq DOMAIN kind
               /\ edge[2] = Root => kind[edge[1]] \in {"upstream", "root"}
               /\ edge[1] = Root => kind[edge[2]] \in {"downstream", "root"}
    <3>1. CASE edge[1] \in up /\ edge[2] = Root  BY <2>1, <2>2, <3>1
    <3>2. CASE edge[1] = Root /\ edge[2] \in down  BY <2>2, <3>2
    <3>3. QED  BY <2>3, <3>1, <3>2
  <2>6. ASSUME NEW e \in DOMAIN kind \ {Root}
        PROVE  <<e, Root>> \in Edges(view) <=> <<Root, e>> \notin Edges(view)
    BY <2>1, <2>2, <2>4
  <2>7. QED  BY <2>5, <2>6 DEF GraphFlows, kind
<1>2. QED  BY <1>1, PTL

\* For any page size, number of incidents and insertions between the pages, a
\* walk through the list misses no incident with a triggered_at of its own
\* (app/services/incident_store.py:7-17).
THEOREM BrowsingIsComplete == Spec => []BrowsingMissesNone
<1>1. Inv => BrowsingMissesNone
  BY DEF Inv, StateOK, PlaceOK, TypeOK, ListInv, BrowsingMissesNone
<1>2. QED  BY <1>1, Inductive, PTL

\* A wait passes over nothing but what was complete at its first answer, and
\* ends with nothing that was, unless two incidents share their triggered_at
\* (scripts/wait_for_incident.py:27-52).
THEOREM WaitsPassOnlyOld == Spec => []WaitPassesOnlyOld
<1>1. Inv => WaitPassesOnlyOld
  BY DEF Inv, StateOK, PlaceOK, TypeOK, WaitInv, WaitPassesOnlyOld, NoAnswer
<1>2. QED  BY <1>1, Inductive, PTL

THEOREM WaitsEndWithNew == Spec => []WaitEndsWithNew
<1>1. Inv => WaitEndsWithNew
  BY DEF Inv, StateOK, PlaceOK, TypeOK, WaitInv, WaitEndsWithNew
<1>2. QED  BY <1>1, Inductive, PTL
=============================================================================
