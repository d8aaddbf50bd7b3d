---------------------------- MODULE LineageProofs ----------------------------
(***************************************************************************)
(* Proofs about Lineage: on every graph, in whatever order its edges come, *)
(* the search leaves every node at its shortest distance, and the answer   *)
(* lists the nodes within the depth and no others.                         *)
(***************************************************************************)
EXTENDS Lineage, WellFoundedInduction, TLAPS

Queued == {queue[i] : i \in DOMAIN queue}

Before == pc \in {"lookup", "fetch", "absent", "withoutId", "unusable", "error"}

\* Before the search nothing is reached.
Untouched ==
  /\ levels = [n \in Nodes |-> 0] /\ queue = <<>> /\ pending = {} /\ current = NoId

\* The search works on what it has reached, from the table.
OnGraph ==
  /\ root \in Nodes /\ levels[root] = 0
  /\ \A i \in DOMAIN queue : queue[i] \in Visited
  /\ current = NoId => queue = <<root>> /\ Visited = {root} /\ pending = {}
  /\ current # NoId => current \in Visited
  /\ pending # {} => current # NoId /\ pending \subseteq Neighbours(current) /\ levels[current] < depth

\* The queue holds at most two levels, in order: that of the node expanded, and
\* the next; nothing farther is reached.
Layered ==
  /\ \A i, j \in DOMAIN queue : i <= j => levels[queue[i]] <= levels[queue[j]]
  /\ current # NoId =>
       /\ \A i \in DOMAIN queue : levels[queue[i]] >= levels[current]
       /\ \A n \in Visited : levels[n] <= levels[current] + 1

Explained ==
  \A n \in Visited \ {root} : \E m \in Visited : n \in Neighbours(m) /\ levels[n] = levels[m] + 1

\* Of a node that has left the queue every neighbour has been looked at, save
\* the pending ones.
Closed ==
  \A m \in Visited \ Queued : levels[m] < depth =>
    \A n \in Neighbours(m) : (m = current => n \notin pending) =>
      n \in Visited /\ levels[n] <= levels[m] + 1

SearchInv ==
  /\ TypeOK
  /\ Before => Untouched
  /\ pc = "fetch" => root \in Nodes
  /\ pc \in {"search", "answered"} => OnGraph /\ Layered /\ Explained /\ Closed
  /\ pc = "answered" => queue = <<>> /\ pending = {}

-----------------------------------------------------------------------------
LEMMA CandidatesTyped ==
  ASSUME NEW fqn \in Names
  PROVE  Len(Candidates(fqn)) \in 1..2 /\ DOMAIN Candidates(fqn) = 1..Len(Candidates(fqn))
<1>1. ASSUME NEW other, Candidates(fqn) = <<fqn>> \o <<other>>
      PROVE  Len(Candidates(fqn)) = 2 /\ DOMAIN Candidates(fqn) = 1..2
  <2>1. <<fqn>> \in Seq({fqn, other}) /\ <<other>> \in Seq({fqn, other})  OBVIOUS
  <2>2. QED  BY <1>1, <2>1
<1>2. CASE Len(fqn) = 3
  <2>1. Candidates(fqn) = <<fqn>> \o << <<fqn[1], fqn[2], "default", fqn[3]>> >>
    BY <1>2 DEF Candidates
  <2>2. QED  BY <1>1, <2>1
<1>3. CASE Len(fqn) # 3 /\ Len(fqn) = 4 /\ fqn[3] = "default"
  <2>1. Candidates(fqn) = <<fqn>> \o << <<fqn[1], fqn[2], fqn[4]>> >>  BY <1>3 DEF Candidates
  <2>2. QED  BY <1>1, <2>1
<1>4. CASE Len(fqn) # 3 /\ ~(Len(fqn) = 4 /\ fqn[3] = "default")
  <2>1. Candidates(fqn) = <<fqn>> \o <<>>  BY <1>4 DEF Candidates
  <2>2. <<fqn>> \in Seq({fqn}) /\ <<>> \in Seq({fqn})  OBVIOUS
  <2>3. QED  BY <2>1, <2>2
<1>5. QED  BY <1>2, <1>3, <1>4

LEMMA DepthInRange == ASSUME NEW requested \in Requested  PROVE CappedDepth(requested) \in 1..MaxDepth
<1>1. Normalized(requested) \in Int  BY DepthAssumption DEF Normalized
<1>2. MaxDepth \in Nat \ {0}  BY DepthAssumption
<1>3. QED  BY <1>1, <1>2 DEF CappedDepth

LEMMA SearchInit == Init => SearchInv
<1> SUFFICES ASSUME Init  PROVE SearchInv  OBVIOUS
<1>1. candidate \in 1..Len(Candidates(name))
  <2>1. candidate = 1 /\ name \in Names  BY DEF Init
  <2>2. Len(Candidates(name)) \in 1..2  BY <2>1, CandidatesTyped
  <2>3. QED  BY <2>1, <2>2
<1>2. depth \in 1..MaxDepth  BY DepthInRange DEF Init
<1>3. levels \in [Nodes -> 0..depth]  BY <1>2 DEF Init
<1>4. queue \in Seq(Nodes)  BY DEF Init
<1>5. TypeOK  BY <1>1, <1>2, <1>3, <1>4 DEF Init, TypeOK, Attempts
<1>6. Untouched  BY DEF Init, Untouched
<1>7. pc = "lookup"  BY DEF Init
<1>8. QED  BY <1>5, <1>6, <1>7 DEF SearchInv

\* A step that leaves the search alone.
LEMMA ElsewhereKeeps ==
  ASSUME SearchInv, UNCHANGED searchVars, TypeOK', Before, Before',
         pc' = "fetch" => root' \in Nodes
  PROVE  SearchInv'
BY DEF SearchInv, Before, Untouched, searchVars

LEMMA TokenKeeps == ASSUME SearchInv, GetToken \/ Refused  PROVE SearchInv'
<1>1. TypeOK /\ UNCHANGED <<name, candidate, direction, depth, root, searchVars>>
  BY DEF SearchInv, GetToken, Refused
<1>2. /\ pc \in {"lookup", "fetch"} /\ pc' \in {pc, "error"}
      /\ token' = "awaited" => pc' = pc
      /\ token' \in {"held", "awaited"} /\ refreshes' \in 0..Attempts
  BY <1>1 DEF TypeOK, GetToken, Refused, Attempts
<1>3. TypeOK'  BY <1>1, <1>2 DEF TypeOK, searchVars, Outcomes
<1>4. pc' = "fetch" => root' \in Nodes  BY <1>1, <1>2 DEF SearchInv
<1>5. QED  BY <1>1, <1>2, <1>3, <1>4, ElsewhereKeeps DEF Before

LEMMA LookupKeeps == ASSUME SearchInv, Lookup \/ RequestFails  PROVE SearchInv'
<1>1. /\ TypeOK /\ DOMAIN Candidates(name) = 1..Len(Candidates(name))
      /\ Len(Candidates(name)) \in 1..2
  BY CandidatesTyped DEF SearchInv, TypeOK
<1>2. UNCHANGED <<name, direction, depth, searchVars>> /\ token' = "held"
  BY DEF Lookup, RequestFails, tokenVars
<1>3. refreshes' \in 0..Attempts
  <2>1. refreshes \in 0..3  BY <1>1 DEF TypeOK, Attempts
  <2>2. refreshes' \in {0, refreshes}  BY DEF Lookup, RequestFails, tokenVars
  <2>3. QED  BY <2>1, <2>2 DEF Attempts
<1>4. pc \in {"lookup", "fetch"} /\ pc' \in {"lookup", "fetch", "absent", "withoutId", "error"}
  BY DEF Lookup, RequestFails
<1>5. root' \in Nodes \cup {NoId} /\ (pc' = "fetch" => root' \in Nodes)
  <2>1. root \in Nodes \cup {NoId}  BY <1>1 DEF TypeOK
  <2>2. Found(candidate) => TableId(candidate) \in Nodes \cup {NoId}  BY NodeAssumption DEF Found, TableId
  <2>3. CASE Lookup  BY <2>1, <2>2, <2>3 DEF Lookup
  <2>4. CASE RequestFails  BY <2>1, <2>4 DEF RequestFails
  <2>5. QED  BY <2>3, <2>4
<1>6. candidate' \in 1..Len(Candidates(name))
  <2>1. candidate \in 1..Len(Candidates(name)) /\ Len(Candidates(name)) \in Nat  BY <1>1 DEF TypeOK
  <2>2. \/ candidate' = candidate
        \/ candidate < Len(Candidates(name)) /\ candidate' = candidate + 1
    BY DEF Lookup, RequestFails
  <2>3. QED  BY <2>1, <2>2
<1>7. TypeOK'  BY <1>1, <1>2, <1>3, <1>4, <1>5, <1>6 DEF TypeOK, searchVars, Outcomes
<1>8. QED  BY <1>2, <1>4, <1>5, <1>7, ElsewhereKeeps DEF Before

LEMMA FetchKeeps == ASSUME SearchInv, Fetch  PROVE SearchInv'
<1>1. TypeOK /\ root \in Nodes /\ Untouched  BY DEF SearchInv, Fetch, Before
<1>2. /\ UNCHANGED <<name, candidate, direction, depth, root, levels, current, pending>>
      /\ token' = "held" /\ refreshes' = 0 /\ 0 \in 0..Attempts
  BY DEF Fetch, Attempts
<1>3. CASE pc' = "unusable" /\ UNCHANGED queue
  <2>1. TypeOK'  BY <1>1, <1>2, <1>3 DEF TypeOK, Outcomes
  <2>2. Before /\ Before'  BY <1>3 DEF Fetch, Before
  <2>3. QED  BY <1>2, <1>3, <2>1, <2>2, ElsewhereKeeps DEF searchVars
<1>4. CASE pc' = "search" /\ queue' = <<root>>
  <2>1. TypeOK'
    <3>1. queue' \in Seq(Nodes)  BY <1>1, <1>4
    <3>2. QED  BY <1>1, <1>2, <1>4, <3>1 DEF TypeOK
  <2>2. Visited' = {root} /\ levels'[root] = 0  BY <1>1, <1>2 DEF Visited, Untouched
  <2>3. queue'[1] = root /\ DOMAIN queue' = {1} /\ Queued' = {root}  BY <1>4 DEF Queued
  <2>4. OnGraph'  BY <1>1, <1>2, <1>4, <2>2, <2>3 DEF OnGraph, Untouched
  <2>5. Layered'  BY <1>1, <1>2, <2>2, <2>3 DEF Layered, Untouched
  <2>6. Explained' /\ Closed'  BY <1>2, <2>2, <2>3 DEF Explained, Closed
  <2>7. QED  BY <1>4, <2>1, <2>4, <2>5, <2>6 DEF SearchInv, Before
<1>5. QED  BY <1>3, <1>4 DEF Fetch

LEMMA ExpandKeeps == ASSUME SearchInv, Expand  PROVE SearchInv'
<1>1. TypeOK /\ OnGraph /\ Layered /\ Explained /\ Closed /\ pc = "search" /\ pending = {} /\ queue # <<>>
  BY DEF SearchInv, Expand
<1>2. /\ current' = queue[1] /\ queue' = Tail(queue)
      /\ pending' = IF levels[current'] >= depth THEN {} ELSE Neighbours(current')
      /\ UNCHANGED <<pc, name, candidate, tokenVars, direction, depth, root, response, levels>>
  BY DEF Expand
<1>3. /\ queue \in Seq(Nodes) /\ 1 \in DOMAIN queue /\ queue' \in Seq(Nodes)
      /\ \A i \in DOMAIN queue' : i + 1 \in DOMAIN queue /\ queue'[i] = queue[i + 1]
      /\ \A i \in DOMAIN queue : i # 1 => i - 1 \in DOMAIN queue' /\ queue'[i - 1] = queue[i]
      /\ DOMAIN queue \subseteq Nat /\ DOMAIN queue' \subseteq Nat
  <2>1. queue \in Seq(Nodes) /\ queue # <<>>  BY <1>1 DEF TypeOK, tokenVars
  <2>2. Len(queue) \in Nat \ {0} /\ DOMAIN queue = 1..Len(queue)  BY <2>1
  <2>3. /\ queue' \in Seq(Nodes) /\ Len(queue') = Len(queue) - 1
        /\ DOMAIN queue' = 1..Len(queue')
        /\ \A i \in 1..(Len(queue) - 1) : queue'[i] = queue[i + 1]
    BY <1>2, <2>1
  <2>4. ASSUME NEW i \in DOMAIN queue'  PROVE i + 1 \in DOMAIN queue /\ queue'[i] = queue[i + 1]
    BY <2>2, <2>3
  <2>5. ASSUME NEW i \in DOMAIN queue, i # 1
        PROVE  i - 1 \in DOMAIN queue' /\ queue'[i - 1] = queue[i]
    BY <2>2, <2>3, <2>5
  <2>6. QED  BY <2>1, <2>2, <2>3, <2>4, <2>5
<1>4. current' \in Visited /\ current' \in Nodes /\ current' # NoId
  BY <1>1, <1>2, <1>3, NodeAssumption DEF OnGraph
<1>5. /\ levels \in [Nodes -> 0..depth] /\ depth \in 1..MaxDepth /\ MaxDepth \in Nat
      /\ Visited \subseteq Nodes /\ Visited' = Visited
  BY <1>1, <1>2, DepthAssumption DEF TypeOK, OnGraph, Visited
<1>6. \A n \in Nodes : Neighbours(n)' = Neighbours(n) /\ Neighbours(n) \subseteq Nodes
  BY <1>2 DEF Neighbours, edges, EdgeList
<1>7. TypeOK'
  <2>1. pending' \subseteq Nodes  BY <1>2, <1>4, <1>6
  <2>2. QED  BY <1>1, <1>2, <1>3, <1>4, <2>1 DEF TypeOK, tokenVars
<1>8. OnGraph'
  <2>1. \A i \in DOMAIN queue' : queue'[i] \in Visited  BY <1>1, <1>3 DEF OnGraph
  <2>2. pending' # {} => pending' \subseteq Neighbours(current)' /\ levels[current'] < depth
    <3>1. levels[current'] \in Int /\ depth \in Int  BY <1>4, <1>5
    <3>2. pending' # {} => pending' = Neighbours(current)' /\ ~(levels[current'] >= depth)
      BY <1>2 DEF Neighbours, edges, EdgeList
    <3>3. QED  BY <3>1, <3>2
  <2>3. root \in Nodes /\ levels[root] = 0  BY <1>1 DEF OnGraph
  <2>4. QED  BY <1>2, <1>4, <1>5, <2>1, <2>2, <2>3 DEF OnGraph
<1>9. Layered'
  <2>1. \A i, j \in DOMAIN queue : i <= j => levels[queue[i]] <= levels[queue[j]]  BY <1>1 DEF Layered
  <2>2. \A i, j \in DOMAIN queue' : i <= j => levels[queue'[i]] <= levels[queue'[j]]
    <3>1. SUFFICES ASSUME NEW i \in DOMAIN queue', NEW j \in DOMAIN queue', i <= j
                   PROVE  levels[queue'[i]] <= levels[queue'[j]]
      OBVIOUS
    <3>2. i + 1 <= j + 1  BY <1>3, <3>1
    <3>3. levels[queue[i + 1]] <= levels[queue[j + 1]]  BY <1>3, <2>1, <3>2
    <3>4. QED  BY <1>3, <3>3
  <2>3. \A i \in DOMAIN queue' : levels[queue'[i]] >= levels[current']
    <3>1. \A i \in DOMAIN queue : 1 <= i  BY <1>3
    <3>2. \A i \in DOMAIN queue : levels[queue[1]] <= levels[queue[i]]  BY <1>3, <2>1, <3>1
    <3>3. \A i \in DOMAIN queue' : levels[queue[1]] <= levels[queue'[i]]  BY <1>3, <3>2
    <3>4. \A i \in DOMAIN queue' : levels[queue'[i]] \in Int  BY <1>3, <1>5
    <3>5. QED  BY <1>2, <1>4, <1>5, <3>3, <3>4
  <2>4. \A n \in Visited : levels[n] <= levels[current'] + 1
    <3>1. CASE current = NoId
      <4>1. Visited = {root} /\ levels[root] = 0  BY <1>1, <3>1 DEF OnGraph
      <4>2. QED  BY <1>4, <1>5, <4>1
    <3>2. CASE current # NoId
      <4>1. levels[queue[1]] >= levels[current]  BY <1>1, <1>3, <3>2 DEF Layered
      <4>2. current \in Nodes  BY <1>1, <1>5, <3>2 DEF OnGraph
      <4>3. \A n \in Visited : levels[n] <= levels[current] + 1  BY <1>1, <3>2 DEF Layered
      <4>4. QED  BY <1>2, <1>4, <1>5, <4>1, <4>2, <4>3
    <3>3. QED  BY <3>1, <3>2
  <2>5. QED  BY <1>2, <1>5, <2>2, <2>3, <2>4 DEF Layered
<1>10. Explained'  BY <1>1, <1>2, <1>5, <1>6 DEF Explained
<1>11. Closed'
  <2>1. SUFFICES ASSUME NEW m \in Visited, m \notin Queued', levels[m] < depth,
                        NEW n \in Neighbours(m), m = current' => n \notin pending'
                 PROVE  n \in Visited /\ levels[n] <= levels[m] + 1
    BY <1>2, <1>5, <1>6 DEF Closed
  <2>2. CASE m = current'
    <3>1. pending' = Neighbours(m)
      <4>1. levels[m] \in Int /\ depth \in Int  BY <1>5
      <4>2. QED  BY <1>2, <2>1, <2>2, <4>1
    <3>2. QED  BY <2>1, <2>2, <3>1
  <2>3. CASE m # current'
    <3>1. ASSUME NEW i \in DOMAIN queue  PROVE queue[i] # m
      <4>1. CASE i = 1  BY <1>2, <2>3, <4>1
      <4>2. CASE i # 1  BY <1>3, <2>1, <4>2 DEF Queued
      <4>3. QED  BY <4>1, <4>2
    <3>2. m \notin Queued  BY <3>1 DEF Queued
    <3>3. QED  BY <1>1, <2>1, <3>2 DEF Closed
  <2>4. QED  BY <2>2, <2>3
<1>12. QED  BY <1>1, <1>2, <1>7, <1>8, <1>9, <1>10, <1>11 DEF SearchInv, Before

LEMMA LookKeeps == ASSUME SearchInv, NEW n \in Nodes, Look(n)  PROVE SearchInv'
<1>1. TypeOK /\ OnGraph /\ Layered /\ Explained /\ Closed /\ pc = "search" /\ n \in pending
  BY DEF SearchInv, Look
<1>2. /\ pending' = pending \ {n}
      /\ UNCHANGED <<pc, name, candidate, tokenVars, direction, depth, root, response, current, result>>
  BY DEF Look
<1>3. /\ levels \in [Nodes -> 0..depth] /\ depth \in 1..MaxDepth /\ MaxDepth \in Nat
      /\ Visited \subseteq Nodes /\ queue \in Seq(Nodes) /\ pending \subseteq Nodes
  BY <1>1, DepthAssumption DEF TypeOK, OnGraph, Visited
<1>4. /\ current # NoId /\ current \in Visited /\ current \in Nodes
      /\ n \in Neighbours(current) /\ levels[current] < depth
  BY <1>1, <1>3 DEF OnGraph
<1>5. \A m \in Nodes : Neighbours(m)' = Neighbours(m) /\ Neighbours(m) \subseteq Nodes
  BY <1>2 DEF Neighbours, edges, EdgeList
<1>6. pending' # {} => pending' \subseteq Neighbours(current)' /\ levels[current] < depth
  BY <1>1, <1>2, <1>4, <1>5 DEF OnGraph
<1>7. \A m \in Visited : levels[m] <= levels[current] + 1  BY <1>1, <1>4 DEF Layered
<1>8. CASE n \in Visited /\ UNCHANGED <<levels, queue>>
  <2>1. Visited' = Visited /\ Queued' = Queued  BY <1>2, <1>8 DEF Visited, Queued
  <2>2. TypeOK'  BY <1>1, <1>2, <1>8 DEF TypeOK, tokenVars
  <2>3. OnGraph'  BY <1>1, <1>2, <1>4, <1>6, <1>8, <2>1 DEF OnGraph
  <2>4. Layered'  BY <1>1, <1>2, <1>8, <2>1 DEF Layered
  <2>5. Explained'  BY <1>1, <1>2, <1>3, <1>5, <1>8, <2>1 DEF Explained
  <2>6. Closed'
    <3>1. SUFFICES ASSUME NEW m \in Visited, m \notin Queued, levels[m] < depth,
                          NEW k \in Neighbours(m), m = current => k \notin pending \ {n}
                   PROVE  k \in Visited /\ levels[k] <= levels[m] + 1
      BY <1>2, <1>3, <1>5, <1>8, <2>1 DEF Closed
    <3>2. CASE m = current /\ k = n  BY <1>7, <1>8, <3>2
    <3>3. CASE ~(m = current /\ k = n)  BY <1>1, <3>1, <3>3 DEF Closed
    <3>4. QED  BY <3>2, <3>3
  <2>7. QED  BY <1>1, <1>2, <2>2, <2>3, <2>4, <2>5, <2>6 DEF SearchInv, Before
<1>9. CASE /\ n \notin Visited
           /\ levels' = [levels EXCEPT ![n] = levels[current] + 1]
           /\ queue' = Append(queue, n)
  <2>1. /\ levels[current] \in 0..depth /\ levels[current] + 1 \in 1..depth
    BY <1>3, <1>4
  <2>2. /\ levels' \in [Nodes -> 0..depth] /\ levels'[n] = levels[current] + 1
        /\ \A m \in Nodes \ {n} : levels'[m] = levels[m]
        /\ levels'[n] # 0
    BY <1>3, <1>9, <2>1
  <2>3. Visited' = Visited \cup {n}
    <3>1. root' = root  BY <1>2
    <3>2. \A m \in Nodes : levels'[m] # 0 <=> m = n \/ levels[m] # 0  BY <2>2
    <3>3. QED  BY <3>1, <3>2 DEF Visited
  <2>4. /\ queue' \in Seq(Nodes) /\ DOMAIN queue' = DOMAIN queue \cup {Len(queue) + 1}
        /\ \A i \in DOMAIN queue : queue'[i] = queue[i] /\ i <= Len(queue) /\ queue[i] \in Nodes
        /\ queue'[Len(queue) + 1] = n /\ Len(queue) \in Nat /\ DOMAIN queue \subseteq Nat
    BY <1>3, <1>9
  <2>5. \A i \in DOMAIN queue : queue[i] \in Visited /\ queue[i] # n
    BY <1>1, <1>9 DEF OnGraph
  <2>6. Queued' = Queued \cup {n}  BY <2>4 DEF Queued
  <2>7. TypeOK'  BY <1>1, <1>2, <1>3, <2>2, <2>4 DEF TypeOK, tokenVars
  <2>8. n # current /\ n # root /\ levels'[current] = levels[current] /\ levels'[root] = levels[root]
    <3>1. root \in Nodes /\ root \in Visited  BY <1>1 DEF OnGraph, Visited
    <3>2. QED  BY <1>4, <1>9, <2>2, <3>1
  <2>9. OnGraph'
    <3>1. \A i \in DOMAIN queue' : queue'[i] \in Visited'  BY <2>3, <2>4, <2>5
    <3>2. root \in Nodes /\ levels'[root] = 0  BY <1>1, <2>8 DEF OnGraph
    <3>3. QED  BY <1>2, <1>4, <1>6, <2>3, <2>8, <3>1, <3>2 DEF OnGraph
  <2>10. \A m \in Visited : levels'[m] = levels[m] /\ levels[m] \in Int  BY <1>3, <1>9, <2>2
  <2>11. Layered'
    <3>1. \A i \in DOMAIN queue : /\ levels'[queue'[i]] = levels[queue[i]] /\ levels[queue[i]] \in Int
                                  /\ levels[queue[i]] >= levels[current]
                                  /\ levels[queue[i]] <= levels[current] + 1
      BY <1>1, <1>4, <1>7, <2>4, <2>5, <2>10 DEF Layered
    <3>2. ASSUME NEW i \in DOMAIN queue', NEW j \in DOMAIN queue', i <= j
          PROVE  levels'[queue'[i]] <= levels'[queue'[j]]
      <4>1. CASE j = Len(queue) + 1 /\ i # j  BY <2>2, <2>4, <3>1, <4>1
      <4>2. CASE j = Len(queue) + 1 /\ i = j  BY <2>1, <2>2, <2>4, <4>2
      <4>3. CASE j # Len(queue) + 1
        <5>1. i \in DOMAIN queue /\ j \in DOMAIN queue  BY <2>4, <3>2, <4>3
        <5>2. levels[queue[i]] <= levels[queue[j]]  BY <1>1, <3>2, <5>1 DEF Layered
        <5>3. QED  BY <3>1, <5>1, <5>2
      <4>4. QED  BY <4>1, <4>2, <4>3
    <3>3. \A i \in DOMAIN queue' : levels'[queue'[i]] >= levels'[current]
      BY <2>1, <2>2, <2>4, <2>8, <3>1
    <3>4. \A m \in Visited' : levels'[m] <= levels'[current] + 1
      BY <1>7, <2>1, <2>2, <2>3, <2>8, <2>10
    <3>5. QED  BY <1>2, <3>2, <3>3, <3>4 DEF Layered
  <2>12. Explained'
    <3>1. SUFFICES ASSUME NEW k \in Visited' \ {root}
                   PROVE \E m \in Visited' : k \in Neighbours(m) /\ levels'[k] = levels'[m] + 1
      BY <1>2, <1>3, <1>5, <2>3 DEF Explained
    <3>2. CASE k = n  BY <1>4, <2>2, <2>3, <2>8, <3>2
    <3>3. CASE k # n
      <4>1. k \in Visited \ {root}  BY <2>3, <3>1, <3>3
      <4>2. PICK m \in Visited : k \in Neighbours(m) /\ levels[k] = levels[m] + 1
        BY <1>1, <4>1 DEF Explained
      <4>3. QED  BY <2>3, <2>10, <4>1, <4>2
    <3>4. QED  BY <3>2, <3>3
  <2>13. Closed'
    <3>1. SUFFICES ASSUME NEW m \in Visited, m \notin Queued, m # n, levels[m] < depth,
                          NEW k \in Neighbours(m), m = current => k \notin pending \ {n}
                   PROVE  k \in Visited' /\ levels'[k] <= levels'[m] + 1
      BY <1>2, <1>3, <1>5, <2>3, <2>6, <2>10 DEF Closed
    <3>2. CASE m = current /\ k = n  BY <2>1, <2>2, <2>3, <2>8, <3>2
    <3>3. CASE ~(m = current /\ k = n)
      <4>1. k \in Visited /\ levels[k] <= levels[m] + 1  BY <1>1, <3>1, <3>3 DEF Closed
      <4>2. QED  BY <2>3, <2>10, <4>1
    <3>4. QED  BY <3>2, <3>3
  <2>14. QED  BY <1>1, <1>2, <2>7, <2>9, <2>11, <2>12, <2>13 DEF SearchInv, Before
<1>10. QED  BY <1>8, <1>9 DEF Look

LEMMA ReportKeeps == ASSUME SearchInv, Report  PROVE SearchInv'
<1>1. /\ TypeOK /\ OnGraph /\ Layered /\ Explained /\ Closed
      /\ pc = "search" /\ queue = <<>> /\ pending = {}
  BY DEF SearchInv, Report
<1>2. /\ UNCHANGED <<name, candidate, tokenVars, direction, depth, root, response, searchVars>> /\ pc' = "answered"
  BY DEF Report
<1>3. Visited' = Visited /\ Queued' = Queued /\ \A n : Neighbours(n)' = Neighbours(n)
  BY <1>2 DEF Visited, Queued, Neighbours, edges, EdgeList, searchVars
<1>4. TypeOK'
  <2>1. token # "awaited" /\ pc' \in Outcomes  BY <1>1, <1>2 DEF TypeOK, Outcomes
  <2>2. QED  BY <1>1, <1>2, <2>1 DEF TypeOK, tokenVars, searchVars
<1>5. OnGraph'  BY <1>1, <1>2, <1>3 DEF OnGraph, searchVars
<1>6. Layered'  BY <1>1, <1>2, <1>3 DEF Layered, searchVars
<1>7. Explained' /\ Closed'  BY <1>1, <1>2, <1>3 DEF Explained, Closed, searchVars
<1>8. QED  BY <1>1, <1>2, <1>4, <1>5, <1>6, <1>7 DEF SearchInv, Before, searchVars

LEMMA StutterKeeps == ASSUME SearchInv, UNCHANGED vars  PROVE SearchInv'
<1>1. Visited' = Visited /\ Queued' = Queued /\ \A n : Neighbours(n)' = Neighbours(n)
  BY DEF Visited, Queued, Neighbours, edges, EdgeList, vars, searchVars
<1>2. TypeOK' = TypeOK /\ Untouched' = Untouched /\ OnGraph' = OnGraph /\ Layered' = Layered
  BY <1>1 DEF TypeOK, Untouched, OnGraph, Layered, vars, tokenVars, searchVars
<1>3. Explained' = Explained /\ Closed' = Closed
  BY <1>1 DEF Explained, Closed, vars, searchVars
<1>4. QED  BY <1>2, <1>3 DEF SearchInv, Before, vars, searchVars

LEMMA SearchIsInvariant == Spec => []SearchInv
<1>1. SearchInv /\ [Next]_vars => SearchInv'
  <2>1. SUFFICES ASSUME SearchInv, [Next]_vars  PROVE SearchInv'  OBVIOUS
  <2>2. CASE Lookup \/ RequestFails  BY <2>1, <2>2, LookupKeeps
  <2>3. CASE GetToken \/ Refused  BY <2>1, <2>3, TokenKeeps
  <2>4. CASE Fetch  BY <2>1, <2>4, FetchKeeps
  <2>5. CASE Expand  BY <2>1, <2>5, ExpandKeeps
  <2>6. ASSUME NEW n \in Nodes, Look(n)  PROVE SearchInv'  BY <2>1, <2>6, LookKeeps
  <2>7. CASE Report  BY <2>1, <2>7, ReportKeeps
  <2>8. CASE UNCHANGED vars  BY <2>1, <2>8, StutterKeeps
  <2>9. QED  BY <2>1, <2>2, <2>3, <2>4, <2>5, <2>6, <2>7, <2>8 DEF Next, Proceed
<1>2. QED  BY <1>1, SearchInit, PTL DEF Spec

-----------------------------------------------------------------------------
\* A call keeps its types, and its levels the depth it was given
\* (om_client/lineage.py:120).
THEOREM TypeCorrect == Spec => []TypeOK
<1>1. SearchInv => TypeOK  BY DEF SearchInv
<1>2. QED  BY <1>1, SearchIsInvariant, PTL

\* On every finite or infinite graph, with cycles and shared ancestors, the
\* levels a search ends with are shortest distances (om_client/lineage.py:31-66).
THEOREM LevelsAreShortest == Spec => []LevelsShortest
<1>1. SearchInv => LevelsShortest
  <2>1. SUFFICES ASSUME SearchInv, pc = "answered"
                 PROVE  /\ \A n \in Visited \ {root} :
                             \E m \in Visited : n \in Neighbours(m) /\ levels[n] = levels[m] + 1
                        /\ \A m \in Visited : levels[m] < depth =>
                             \A n \in Neighbours(m) : n \in Visited /\ levels[n] <= levels[m] + 1
    BY DEF LevelsShortest
  <2>2. Explained /\ Closed /\ pending = {} /\ Queued = {}  BY <2>1 DEF SearchInv, Queued
  <2>3. QED  BY <2>2 DEF Explained, Closed
<1>2. QED  BY <1>1, SearchIsInvariant, PTL

\* The lookup stops at the first name that exists.
LookupInv ==
  /\ pc # "error" => \A c \in 1..(candidate - 1) : ~Found(c)
  /\ pc = "absent" => \A c \in DOMAIN Candidates(name) : ~Found(c)
  /\ pc \in {"withoutId", "fetch", "search", "unusable", "answered"} =>
       /\ candidate \in DOMAIN Candidates(name) /\ Found(candidate) /\ root = TableId(candidate)
       /\ pc = "withoutId" <=> root = NoId

\* Only the lookup moves to another name or finds a table.
LEMMA LookedUp ==
  ASSUME LookupInv, UNCHANGED <<name, candidate, root>>,
         \/ pc' \in {pc, "error"}
         \/ pc \in {"fetch", "search"} /\ pc' \in {"search", "unusable", "answered"}
  PROVE  LookupInv'
<1>1. \A c : Found(c)' = Found(c) /\ TableId(c)' = TableId(c)  BY DEF Found, TableId
<1>2. QED  BY <1>1 DEF LookupInv

\* A table is absent only if neither of its names exists, and the first that
\* exists decides, with an id or without (om_client/lineage.py:123-128).
THEOREM TableIsFound == Spec => []TableFound
<1> DEFINE names == Candidates(name)
<1>1. Init => LookupInv  BY DEF Init, LookupInv
<1>2. SearchInv /\ LookupInv /\ [Next]_vars => LookupInv'
  <2>1. SUFFICES ASSUME SearchInv, LookupInv, [Next]_vars  PROVE LookupInv'  OBVIOUS
  <2>2. candidate \in 1..Len(names) /\ Len(names) \in Nat /\ DOMAIN names = 1..Len(names)
    BY <2>1, CandidatesTyped DEF SearchInv, TypeOK
  <2>3. CASE Lookup
    <3>1. /\ pc = "lookup" /\ names' = names
          /\ \A c : Found(c)' = Found(c) /\ TableId(c)' = TableId(c)
      BY <2>3 DEF Lookup, Found, TableId
    <3>2. CASE Found(candidate)
      <4>1. /\ candidate' = candidate /\ root' = TableId(candidate)
            /\ pc' = IF root' = NoId THEN "withoutId" ELSE "fetch"
        BY <2>3, <3>2 DEF Lookup
      <4>2. QED  BY <2>1, <2>2, <3>1, <3>2, <4>1 DEF LookupInv
    <3>3. CASE ~Found(candidate)
      <4>1. \A c \in 1..candidate : ~Found(c)
        <5>1. 1..candidate = 1..(candidate - 1) \cup {candidate}  BY <2>2
        <5>2. QED  BY <2>1, <3>1, <3>3, <5>1 DEF LookupInv
      <4>2. CASE pc' = pc /\ candidate' = candidate + 1
        <5>1. (candidate + 1) - 1 = candidate  BY <2>2
        <5>2. QED  BY <3>1, <4>1, <4>2, <5>1 DEF LookupInv
      <4>3. CASE pc' = "absent" /\ candidate' = candidate /\ candidate = Len(names)
        BY <2>1, <2>2, <3>1, <4>1, <4>3 DEF LookupInv
      <4>4. QED  BY <2>3, <3>3, <4>2, <4>3 DEF Lookup
    <3>4. QED  BY <3>2, <3>3
  <2>4. CASE ~Lookup
    <3>1. /\ UNCHANGED <<name, candidate, root>>
          /\ \/ pc' \in {pc, "error"}
             \/ pc \in {"fetch", "search"} /\ pc' \in {"search", "unusable", "answered"}
      BY <2>1, <2>4 DEF Next, Proceed, GetToken, Refused, RequestFails, Fetch, Expand, Look, Report, vars
    <3>2. QED  BY <2>1, <3>1, LookedUp
  <2>5. QED  BY <2>3, <2>4
<1>3. SearchInv /\ LookupInv => TableFound
  <2>1. SUFFICES ASSUME SearchInv, LookupInv  PROVE TableFound  OBVIOUS
  <2>2. DOMAIN names = 1..Len(names) /\ Len(names) \in 1..2 /\ candidate \in 1..Len(names)
    BY <2>1, CandidatesTyped DEF SearchInv, TypeOK
  <2>3. \A c \in DOMAIN names : pc # "error" /\ Found(c) => candidate <= c
    BY <2>1, <2>2 DEF LookupInv
  <2>4. QED  BY <2>1, <2>2, <2>3 DEF LookupInv, TableFound
<1>4. QED  BY <1>1, <1>2, <1>3, SearchIsInvariant, PTL DEF Spec

-----------------------------------------------------------------------------
\* The recursion of Within.
LEMMA LeastNumber ==
  ASSUME NEW S \in SUBSET Nat, S # {}
  PROVE  \E x \in S : \A y \in S : x <= y
<1> DEFINE R == OpToRel(<, Nat)
<1>1. IsWellFoundedOn(R, Nat)  BY NatLessThanWellFounded
<1>2. ASSUME NEW x \in Nat, NEW y \in Nat, <<y, x>> \notin R  PROVE x <= y
  BY <1>2 DEF OpToRel
<1> HIDE DEF R
<1>3. PICK x \in S : \A y \in S : ~(<<y, x>> \in R)  BY <1>1, WFMin
<1>4. \A y \in S : x <= y  BY <1>2, <1>3
<1>5. QED  BY <1>4

\* f starts with a value and takes a step from each number to the next.
Iterates(f, V, first, step, M) ==
  f \in [0..M -> V] /\ f[0] = first /\ \A k \in 1..M : f[k] = step[f[k - 1]]

\* A value and a step define a function on 0..M.
LEMMA Recursion ==
  ASSUME NEW V, NEW first \in V, NEW step \in [V -> V], NEW M \in Nat
  PROVE  \E f : Iterates(f, V, first, step, M)
<1> DEFINE Defined(m) == \E f : Iterates(f, V, first, step, m)
<1> USE DEF Iterates
<1>1. Defined(0)
  <2> DEFINE f == [k \in 0..0 |-> first]
  <2>1. f \in [0..0 -> V] /\ f[0] = first  OBVIOUS
  <2>2. \A k \in 1..0 : f[k] = step[f[k - 1]]  OBVIOUS
  <2>3. QED  BY <2>1, <2>2
<1>2. ASSUME NEW m \in Nat, m # 0, Defined(m - 1)  PROVE Defined(m)
  <2>1. PICK f : Iterates(f, V, first, step, m - 1)  BY <1>2
  <2> DEFINE g == [k \in 0..m |-> IF k = m THEN step[f[m - 1]] ELSE f[k]]
  <2>2. \A k \in 0..m : k # m => k \in 0..(m - 1)  OBVIOUS
  <2>3. m - 1 \in 0..(m - 1) /\ m - 1 \in 0..m /\ m - 1 # m /\ 0 \in 0..m  BY <1>2
  <2>4. step[f[m - 1]] \in V  BY <2>1, <2>3
  <2>5. g \in [0..m -> V]  BY <2>1, <2>2, <2>4
  <2>6. g[0] = first  BY <1>2, <2>1, <2>3
  <2>7. ASSUME NEW k \in 1..m  PROVE g[k] = step[g[k - 1]]
    <3>1. k \in 0..m /\ k - 1 \in 0..m /\ k - 1 # m /\ (k # m => k \in 1..(m - 1))  OBVIOUS
    <3>2. g[k - 1] = f[k - 1]  BY <3>1
    <3>3. CASE k = m  BY <3>1, <3>2, <3>3
    <3>4. CASE k # m
      <4>1. g[k] = f[k]  BY <3>1, <3>4
      <4>2. QED  BY <2>1, <3>1, <3>2, <3>4, <4>1
    <3>5. QED  BY <3>3, <3>4
  <2> HIDE DEF g
  <2>8. QED  BY <2>5, <2>6, <2>7
<1> HIDE DEF Defined, Iterates
<1>3. ASSUME NEW m \in Nat, ~Defined(m)  PROVE FALSE
  <2> DEFINE S == {k \in Nat : ~Defined(k)}
  <2>1. PICK x \in S : \A y \in S : x <= y  BY <1>3, LeastNumber
  <2>2. x \in Nat /\ x # 0 /\ ~Defined(x)  BY <1>1, <2>1
  <2>3. x - 1 \in Nat /\ ~(x <= x - 1)  BY <2>2
  <2>4. Defined(x - 1)  BY <2>1, <2>3
  <2>5. QED  BY <1>2, <2>2, <2>4
<1>4. QED  BY <1>3 DEF Defined

LEMMA WithinRecursion ==
  ASSUME root \in Nodes
  PROVE  /\ Within[0] = {root}
         /\ \A k \in 1..MaxDepth :
              Within[k] = Within[k - 1] \cup {n \in Nodes : \E m \in Within[k - 1] : n \in Neighbours(m)}
<1> DEFINE After(S) == S \cup {n \in Nodes : \E m \in S : n \in Neighbours(m)}
           step == [S \in SUBSET Nodes |-> After(S)]
           Satisfies(f) == f = [k \in 0..MaxDepth |->
             IF k = 0 THEN {root}
             ELSE f[k - 1] \cup
                  {n \in Nodes : \E m \in f[k - 1] :
                     IF direction = "upstream" THEN <<n, m>> \in edges ELSE <<m, n>> \in edges}]
<1>1. MaxDepth \in Nat  BY DepthAssumption
<1>2. step \in [SUBSET Nodes -> SUBSET Nodes] /\ {root} \in SUBSET Nodes  OBVIOUS
<1>3. PICK f \in [0..MaxDepth -> SUBSET Nodes] :
             f[0] = {root} /\ \A k \in 1..MaxDepth : f[k] = step[f[k - 1]]
  <2>1. PICK f : Iterates(f, SUBSET Nodes, {root}, step, MaxDepth)
    <3> HIDE DEF step
    <3>1. QED  BY <1>1, <1>2, Recursion
  <2>2. QED  BY <2>1 DEF Iterates
<1>4. \A S : After(S) = S \cup {n \in Nodes : \E m \in S :
               IF direction = "upstream" THEN <<n, m>> \in edges ELSE <<m, n>> \in edges}
  BY DEF Neighbours
<1>5. \A k \in 0..MaxDepth : k # 0 => k \in 1..MaxDepth /\ k - 1 \in 0..MaxDepth  BY <1>1
<1>6. Satisfies(f)
  <2>1. ASSUME NEW k \in 0..MaxDepth, k # 0  PROVE f[k] = After(f[k - 1])
    BY <1>3, <1>5, <2>1
  <2> HIDE DEF After
  <2>2. QED  BY <1>3, <1>4, <2>1
<1>7. Within = CHOOSE g : Satisfies(g)  BY DEF Within
<1> HIDE DEF Satisfies
<1>8. Satisfies(Within)  BY <1>6, <1>7
<1> USE DEF Satisfies
<1>9. 0 \in 0..MaxDepth  BY <1>1
<1>10. Within[0] = {root}  BY <1>8, <1>9
<1>11. ASSUME NEW k \in 1..MaxDepth  PROVE Within[k] = After(Within[k - 1])
  <2>1. k \in 0..MaxDepth /\ k # 0  OBVIOUS
  <2>2. Within[k] = Within[k - 1] \cup {n \in Nodes : \E m \in Within[k - 1] :
                 IF direction = "upstream" THEN <<n, m>> \in edges ELSE <<m, n>> \in edges}
    BY <1>8, <2>1
  <2> HIDE DEF After
  <2>3. QED  BY <1>4, <2>2
<1>12. QED  BY <1>10, <1>11

\* When the search has ended, the nodes up to a level are those within as many edges.
LEMMA LevelsAreDistances ==
  ASSUME SearchInv, pc = "answered", NEW k \in 0..depth
  PROVE  Within[k] = {n \in Visited : levels[n] <= k}
<1> DEFINE Upto(i) == {n \in Visited : levels[n] <= i}
<1>1. TypeOK /\ OnGraph /\ Explained /\ Closed /\ pending = {} /\ Queued = {}
  BY DEF SearchInv, Queued
<1>2. /\ root \in Nodes /\ levels[root] = 0 /\ root \in Visited /\ Visited \subseteq Nodes
      /\ levels \in [Nodes -> 0..depth] /\ depth \in 1..MaxDepth /\ MaxDepth \in Nat
      /\ \A n \in Visited : levels[n] \in Nat
  BY <1>1, DepthAssumption DEF TypeOK, OnGraph, Visited
<1>3. Within[0] = Upto(0)
  <2>1. \A n \in Visited : levels[n] <= 0 <=> n = root  BY <1>2 DEF Visited
  <2>2. QED  BY <1>2, <2>1, WithinRecursion
<1>4. ASSUME NEW i \in 1..depth, Within[i - 1] = Upto(i - 1)  PROVE Within[i] = Upto(i)
  <2>1. i \in 1..MaxDepth /\ i \in Nat /\ i - 1 \in Nat /\ i - 1 < depth /\ i - 1 < i  BY <1>2
  <2>2. Within[i] = Upto(i - 1) \cup {n \in Nodes : \E m \in Upto(i - 1) : n \in Neighbours(m)}
    BY <1>2, <1>4, <2>1, WithinRecursion
  <2>3. ASSUME NEW m \in Upto(i - 1), NEW n \in Neighbours(m)  PROVE n \in Upto(i)
    <3>1. m \in Visited /\ levels[m] \in Nat /\ levels[m] <= i - 1  BY <1>2
    <3>2. levels[m] < depth /\ levels[m] + 1 <= i  BY <1>2, <2>1, <3>1
    <3>3. n \in Visited /\ levels[n] <= levels[m] + 1  BY <1>1, <3>1, <3>2 DEF Closed
    <3>4. QED  BY <1>2, <2>1, <3>1, <3>2, <3>3
  <2>4. Upto(i - 1) \subseteq Upto(i)  BY <1>2, <2>1
  <2>5. ASSUME NEW n \in Upto(i), n \notin Upto(i - 1)
        PROVE  n \in Nodes /\ \E m \in Upto(i - 1) : n \in Neighbours(m)
    <3>1. n \in Visited /\ n \in Nodes /\ levels[n] = i  BY <1>2, <2>1, <2>5
    <3>2. n # root  BY <1>2, <3>1
    <3>3. PICK m \in Visited : n \in Neighbours(m) /\ levels[n] = levels[m] + 1
      BY <1>1, <3>1, <3>2 DEF Explained
    <3>4. levels[m] <= i - 1  BY <1>2, <3>1, <3>3
    <3>5. QED  BY <3>1, <3>3, <3>4
  <2> HIDE DEF Upto
  <2>6. QED  BY <2>2, <2>3, <2>4, <2>5
<1> HIDE DEF Upto
<1>5. ASSUME Within[k] # Upto(k)  PROVE FALSE
  <2> DEFINE S == {i \in 0..depth : Within[i] # Upto(i)}
  <2>1. S \in SUBSET Nat /\ S # {}  BY <1>5
  <2>2. PICK x \in S : \A y \in S : x <= y  BY <2>1, LeastNumber
  <2>3. x \in 0..depth /\ x # 0 /\ Within[x] # Upto(x)  BY <1>3, <2>2
  <2>4. x \in 1..depth /\ x - 1 \in 0..depth /\ ~(x <= x - 1)  BY <1>2, <2>3
  <2>5. Within[x - 1] = Upto(x - 1)  BY <2>2, <2>4
  <2>6. QED  BY <1>4, <2>3, <2>4, <2>5
<1>6. QED  BY <1>5 DEF Upto

\* The answer is what was reached.
ResultInv ==
  pc = "answered" =>
    result = {[node |-> n, level |-> levels[n]] : n \in response.nodes \cap (Visited \ {root})}

LEMMA ResultKept == ResultInv /\ [Next]_vars => ResultInv'
<1> SUFFICES ASSUME ResultInv, [Next]_vars, pc' = "answered"
             PROVE  result' = {[node |-> n, level |-> levels[n]] : n \in response.nodes \cap (Visited \ {root})}'
  BY DEF ResultInv
<1>1. CASE Report  BY <1>1 DEF Report, searchVars, Visited
<1>2. CASE ~Report
  <2>1. UNCHANGED vars
    BY <1>2 DEF Next, Proceed, GetToken, Refused, Lookup, RequestFails, Fetch, Expand, Look
  <2>2. QED  BY <2>1 DEF ResultInv, vars, searchVars, Visited
<1>3. QED  BY <1>1, <1>2

\* On every graph, for every depth and order of edges, the answer lists exactly
\* the described nodes within the depth of the table, each at its distance from
\* it (om_client/lineage.py:69-115).
THEOREM AnswerIsExact == Spec => []AnswerExact
<1>1. SearchInv /\ ResultInv => AnswerExact
  <2>1. SUFFICES ASSUME SearchInv, ResultInv, pc = "answered"
        PROVE  result = {[node |-> n, level |-> k] : n \in response.nodes, k \in 1..depth} \cap
               UNION {{[node |-> n, level |-> k] : n \in Within[k] \ Within[k - 1]} : k \in 1..depth}
    BY DEF AnswerExact
  <2> DEFINE Described == {[node |-> n, level |-> k] : n \in response.nodes, k \in 1..depth}
             Nearest(k) == {[node |-> n, level |-> k] : n \in Within[k] \ Within[k - 1]}
  <2>2. result = {[node |-> n, level |-> levels[n]] : n \in response.nodes \cap (Visited \ {root})}
    BY <2>1 DEF ResultInv
  <2>3. /\ levels[root] = 0 /\ levels \in [Nodes -> 0..depth] /\ depth \in Nat
        /\ \A n \in Visited \ {root} : levels[n] \in 1..depth
        /\ \A n \in Visited : levels[n] \in 0..depth
    BY <2>1, DepthAssumption DEF SearchInv, TypeOK, OnGraph, Visited
  <2>4. ASSUME NEW k \in 1..depth, NEW n
        PROVE  n \in Within[k] \ Within[k - 1] <=> n \in Visited \ {root} /\ levels[n] = k
    <3>1. k \in 0..depth /\ k - 1 \in 0..depth  BY <2>3
    <3>2. /\ Within[k] = {m \in Visited : levels[m] <= k}
          /\ Within[k - 1] = {m \in Visited : levels[m] <= k - 1}
      BY <2>1, <3>1, LevelsAreDistances
    <3>3. ASSUME n \in Visited  PROVE levels[n] <= k /\ ~(levels[n] <= k - 1) <=> levels[n] = k
      BY <2>3, <3>3
    <3>4. levels[root] # k  BY <2>3
    <3>5. QED  BY <3>2, <3>3, <3>4
  <2>5. ASSUME NEW r \in result  PROVE r \in Described /\ \E k \in 1..depth : r \in Nearest(k)
    <3>1. PICK n \in response.nodes \cap (Visited \ {root}) : r = [node |-> n, level |-> levels[n]]
      BY <2>2
    <3>2. levels[n] \in 1..depth  BY <2>3, <3>1
    <3>3. n \in Within[levels[n]] \ Within[levels[n] - 1]  BY <2>4, <3>1, <3>2
    <3>4. QED  BY <3>1, <3>2, <3>3
  <2>6. ASSUME NEW r \in Described, NEW k \in 1..depth, r \in Nearest(k)  PROVE r \in result
    <3>1. PICK n \in Within[k] \ Within[k - 1] : r = [node |-> n, level |-> k]  BY <2>6
    <3>2. n \in Visited \ {root} /\ levels[n] = k  BY <2>4, <3>1
    <3>3. PICK m \in response.nodes, i \in 1..depth : r = [node |-> m, level |-> i]  OBVIOUS
    <3>4. n = m  BY <3>1, <3>3
    <3>5. QED  BY <2>2, <3>1, <3>2, <3>3, <3>4
  <2> HIDE DEF Described, Nearest
  <2>7. result = Described \cap UNION {Nearest(k) : k \in 1..depth}  BY <2>5, <2>6
  <2>8. QED  BY <2>7 DEF Described, Nearest
<1>2. Init => ResultInv  BY DEF Init, ResultInv
<1>3. QED  BY <1>1, <1>2, ResultKept, SearchIsInvariant, PTL DEF Spec

-----------------------------------------------------------------------------
\* With finitely many nodes no call can go on for ever: each step leaves a phase,
\* a name or an attempt behind, reaches a node, takes one off the queue, or looks
\* at a neighbour (om_client/lineage.py:55-64, 123-128).
THEOREM CallsAdvance == Spec => CallAdvances
<1>1. ASSUME SearchInv, Next
      PROVE  \/ pc = "lookup" /\ pc' \in {"fetch", "absent", "withoutId", "error"}
             \/ pc = "lookup" /\ pc' = "lookup" /\ candidate' > candidate
             \/ pc = "fetch" /\ pc' \in {"search", "unusable", "error"}
             \/ pc \in {"lookup", "fetch"} /\ pc' = pc /\ candidate' = candidate /\ RequestAdvances
             \/ pc = "search" /\ pc' = "answered"
             \/ pc = "search" /\ pc' = "search" /\ SearchAdvances
  <2>1. CASE Lookup \/ RequestFails \/ Fetch \/ Report
    <3>1. candidate \in Nat  BY <1>1, CandidatesTyped DEF SearchInv, TypeOK
    <3>2. candidate + 1 > candidate  BY <3>1
    <3>3. QED  BY <2>1, <3>2 DEF Lookup, RequestFails, Fetch, Report
  <2>2. CASE GetToken \/ Refused
    <3>1. refreshes \in Int  BY <1>1 DEF SearchInv, TypeOK
    <3>2. refreshes + 1 > refreshes  BY <3>1
    <3>3. QED  BY <2>2, <3>2 DEF GetToken, Refused, RequestAdvances
  <2>3. CASE Expand
    <3>1. pc = "search" /\ pc' = "search" /\ queue' = Tail(queue) /\ queue # <<>>
          /\ UNCHANGED <<root, levels>>
      BY <2>3 DEF Expand
    <3>2. queue \in Seq(Nodes)  BY <1>1 DEF SearchInv, TypeOK
    <3>3. Len(queue') < Len(queue)  BY <3>1, <3>2
    <3>4. Unreached' = Unreached  BY <3>1 DEF Unreached, Visited
    <3>5. QED  BY <3>1, <3>3, <3>4 DEF SearchAdvances
  <2>4. ASSUME NEW n \in Nodes, Look(n)  PROVE pc = "search" /\ pc' = "search" /\ SearchAdvances
    <3>1. pc = "search" /\ pc' = "search" /\ root' = root
          /\ n \in pending /\ pending' = pending \ {n}
      BY <2>4 DEF Look
    <3>2. CASE n \in Visited /\ UNCHANGED <<levels, queue>>
      <4>1. Unreached' = Unreached  BY <3>1, <3>2 DEF Unreached, Visited
      <4>2. QED  BY <3>1, <3>2, <4>1 DEF SearchAdvances
    <3>3. CASE n \notin Visited /\ levels' = [levels EXCEPT ![n] = levels[current] + 1]
      <4>1. levels \in [Nodes -> 0..depth] /\ current \in Nodes /\ depth \in Nat
        BY <1>1, <3>1, DepthAssumption DEF SearchInv, OnGraph, TypeOK, Visited
      <4>2. levels'[n] # 0 /\ \A m \in Nodes \ {n} : levels'[m] = levels[m]
        BY <3>3, <4>1
      <4>3. Unreached' = Unreached \ {n} /\ n \in Unreached
        BY <3>1, <3>3, <4>2 DEF Unreached, Visited
      <4>4. QED  BY <3>1, <4>3 DEF SearchAdvances
    <3>4. QED  BY <2>4, <3>2, <3>3 DEF Look
  <2>5. QED  BY <1>1, <2>1, <2>2, <2>3, <2>4 DEF Next, Proceed
<1>2. QED  BY <1>1, SearchIsInvariant, PTL DEF Spec, CallAdvances
=============================================================================
