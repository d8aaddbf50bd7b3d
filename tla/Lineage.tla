------------------------------- MODULE Lineage -------------------------------
(***************************************************************************)
(* One call of get_upstream_lineage or calculate_blast_radius: a client is *)
(* opened, the table is looked up under the names it may have, its lineage *)
(* is fetched, and a breadth-first search gives every related node the     *)
(* level the report shows (om_client/lineage.py, agent/tools/lineage.py).  *)
(* The client's token may have to be waited for (om_client/client.py).     *)
(***************************************************************************)
EXTENDS Integers, Sequences

CONSTANTS
  Nodes,        \* ids of the entities in lineage responses
  NoId,         \* the id of a table, or of an edge's end, that has none
  Names,        \* the names asked for, as sequences of their parts
  Catalog,      \* OpenMetadata's tables: the id of each name, or NoId
  Requested,    \* depth arguments: integers, and NotANumber
  NotANumber,
  MaxDepth,     \* settings.om_max_lineage_depth
  Responses,    \* lineage responses: nodes, edges and the direction's edges
  NoList        \* a field of a response that holds no list

ASSUME NodeAssumption  ==
  NoId \notin Nodes /\ \A name \in DOMAIN Catalog : Catalog[name] \in Nodes \cup {NoId}
ASSUME DepthAssumption == MaxDepth \in Nat \ {0} /\ Requested \subseteq Int \cup {NotANumber}

VARIABLES
  pc,          \* "lookup", "fetch", "search", and the call's outcome
  name,        \* table_fqn
  candidate,   \* the candidate to look up next
  token,       \* "awaited" while the lock of the login is, else "held"
  refreshes,   \* refreshes of the token in the current request
  direction,
  depth,       \* capped_depth
  root,        \* id of the table
  response,    \* OpenMetadata's answer to the lineage request, once there
  levels,      \* level of each node reached, 0 for the root and for the rest
  queue,       \* nodes still to expand
  current,     \* the node whose neighbours are looked at
  pending,     \* those of its neighbours not looked at yet
  result

tokenVars  == <<token, refreshes>>
searchVars == <<levels, queue, current, pending>>
vars == <<pc, name, candidate, tokenVars, direction, depth, root, response, searchVars, result>>

Directions == {"upstream", "downstream"}

\* get_table_fqn_candidates: a name with and without the default schema.
Candidates(fqn) ==
  <<fqn>> \o
    IF Len(fqn) = 3 THEN << <<fqn[1], fqn[2], "default", fqn[3]>> >>
    ELSE IF Len(fqn) = 4 /\ fqn[3] = "default" THEN << <<fqn[1], fqn[2], fqn[4]>> >>
    ELSE <<>>

\* A request is tried so often; each attempt refreshes the token on a 401.
Attempts == 3

\* int(depth), else 3.
Normalized(requested) == IF requested = NotANumber THEN 3 ELSE requested

\* Mutant: only the upper end is capped.
CappedDepthAbove(requested) ==
  IF Normalized(requested) > MaxDepth THEN MaxDepth ELSE Normalized(requested)

CappedDepth(requested) ==
  CASE Normalized(requested) < 1        -> 1
    [] Normalized(requested) > MaxDepth -> MaxDepth
    [] OTHER                            -> Normalized(requested)

\* The edges of the response; one with an end missing is skipped.
EdgeList == IF response.edges # NoList THEN response.edges ELSE response.directional
edges    == EdgeList \cap (Nodes \X Nodes)

\* Mutant: the flow of data is followed whatever the direction.
NeighboursDownstream(node) == {n \in Nodes : <<node, n>> \in edges}

Neighbours(node) ==
  {n \in Nodes : (IF direction = "upstream" THEN <<n, node>> ELSE <<node, n>>) \in edges}

NoResponse == [nodes |-> NoList, edges |-> NoList, directional |-> NoList]

Visited == {root} \cup {n \in Nodes : levels[n] # 0}

\* The client is being opened, with the cached token or after a login.
Init ==
  /\ pc = "lookup"
  /\ name \in Names /\ candidate = 1
  /\ token \in {"held", "awaited"} /\ refreshes = 0
  /\ direction \in Directions
  /\ depth \in {CappedDepth(requested) : requested \in Requested}
  /\ root = NoId /\ response = NoResponse
  /\ levels = [n \in Nodes |-> 0] /\ queue = <<>> /\ current = NoId /\ pending = {}
  /\ result = {}

-----------------------------------------------------------------------------
\* The lock is got and the login made under it.  If that fails, so does the
\* attempt, which is repeated, or the call.  The lock has no timeout.
GetToken ==
  /\ pc \in {"lookup", "fetch"} /\ token = "awaited"
  /\ token' = "held" /\ pc' \in {pc, "error"}
  /\ UNCHANGED <<name, candidate, refreshes, direction, depth, root, response, searchVars, result>>

\* A request is refused with a 401.
Refused ==
  /\ pc \in {"lookup", "fetch"} /\ token = "held" /\ refreshes < Attempts
  /\ token' = "awaited" /\ refreshes' = refreshes + 1
  /\ UNCHANGED <<pc, name, candidate, direction, depth, root, response, searchVars, result>>

\* A request that fails for good fails the call; the tool returns the error.
RequestFails ==
  /\ pc \in {"lookup", "fetch"} /\ token = "held" /\ pc' = "error"
  /\ UNCHANGED <<name, candidate, tokenVars, direction, depth, root, response, searchVars, result>>

Found(c)   == Candidates(name)[c] \in DOMAIN Catalog
TableId(c) == Catalog[Candidates(name)[c]]

\* Mutant: the lookup goes on after a hit, and the last answer counts.
LookupWithoutBreak ==
  LET last == candidate = Len(Candidates(name)) IN
  /\ pc = "lookup" /\ token = "held" /\ refreshes' = 0
  /\ root' = IF Found(candidate) THEN TableId(candidate) ELSE NoId
  /\ candidate' = IF last THEN candidate ELSE candidate + 1
  /\ pc' = IF ~last THEN "lookup" ELSE IF ~Found(candidate) THEN "absent"
            ELSE IF root' = NoId THEN "withoutId" ELSE "fetch"
  /\ UNCHANGED <<name, token, direction, depth, response, searchVars, result>>

\* A table ends the lookup, even one without an id, of which no lineage is asked.
Lookup ==
  /\ pc = "lookup" /\ token = "held" /\ refreshes' = 0
  /\ \/ /\ Found(candidate) /\ root' = TableId(candidate)
        /\ pc' = IF root' = NoId THEN "withoutId" ELSE "fetch"
        /\ UNCHANGED candidate
     \/ /\ ~Found(candidate) /\ candidate < Len(Candidates(name))
        /\ candidate' = candidate + 1
        /\ UNCHANGED <<pc, root>>
     \/ /\ ~Found(candidate) /\ candidate = Len(Candidates(name))
        /\ pc' = "absent"
        /\ UNCHANGED <<candidate, root>>
  /\ UNCHANGED <<name, token, direction, depth, response, searchVars, result>>

\* A response without the lists gives no nodes.
Fetch ==
  /\ pc = "fetch" /\ token = "held" /\ refreshes' = 0
  /\ response' \in Responses
  /\ IF NoList \in {response.nodes, EdgeList}'
       THEN pc' = "unusable" /\ UNCHANGED queue
       ELSE pc' = "search" /\ queue' = <<root>>
  /\ UNCHANGED <<name, candidate, token, direction, depth, root, levels, current, pending, result>>

\* Mutant: the newest node is expanded first.
ExpandNewest ==
  /\ pc = "search" /\ pending = {} /\ queue # <<>>
  /\ current' = queue[Len(queue)] /\ queue' = SubSeq(queue, 1, Len(queue) - 1)
  /\ pending' = IF levels[current'] >= depth THEN {} ELSE Neighbours(current')
  /\ UNCHANGED <<pc, name, candidate, tokenVars, direction, depth, root, response, levels, result>>

\* Mutant: the node is read off the queue but stays in it.
ExpandPeeking ==
  /\ pc = "search" /\ pending = {} /\ queue # <<>>
  /\ current' = Head(queue)
  /\ pending' = IF levels[current'] >= depth THEN {} ELSE Neighbours(current')
  /\ UNCHANGED <<pc, name, candidate, tokenVars, direction, depth, root, response, levels, queue, result>>

Expand ==
  /\ pc = "search" /\ pending = {} /\ queue # <<>>
  /\ current' = Head(queue) /\ queue' = Tail(queue)
  /\ pending' = IF levels[current'] >= depth THEN {} ELSE Neighbours(current')
  /\ UNCHANGED <<pc, name, candidate, tokenVars, direction, depth, root, response, levels, result>>

\* The neighbours come in the order of the response, which is any.
Look(n) ==
  /\ pc = "search" /\ n \in pending
  /\ pending' = pending \ {n}
  /\ \/ n \in Visited /\ UNCHANGED <<levels, queue>>
     \/ /\ n \notin Visited
        /\ levels' = [levels EXCEPT ![n] = levels[current] + 1]
        /\ queue' = Append(queue, n)
  /\ UNCHANGED <<pc, name, candidate, tokenVars, direction, depth, root, response, current, result>>

\* Nodes of the edges that the response does not describe are left out.
Report ==
  /\ pc = "search" /\ pending = {} /\ queue = <<>>
  /\ result' = {[node |-> n, level |-> levels[n]] : n \in response.nodes \cap (Visited \ {root})}
  /\ pc' = "answered"
  /\ UNCHANGED <<name, candidate, tokenVars, direction, depth, root, response, searchVars>>

\* Requests end, the client's attempts having a timeout each; the rest is
\* computation.
Proceed ==
  \/ Refused \/ RequestFails \/ Lookup \/ Fetch
  \/ Expand \/ (\E n \in Nodes : Look(n)) \/ Report

Next == GetToken \/ Proceed

Spec == Init /\ [][Next]_vars

\* The wait for the lock has no timeout, and GetToken is not fair.
FairSpec == Spec /\ WF_vars(Proceed)

-----------------------------------------------------------------------------
Outcomes == {"absent", "withoutId", "unusable", "answered", "error"}

\* The types of a call's state: the depth asked for is within 1 and the
\* maximum, no level exceeds it (om_client/lineage.py:120), and no request is
\* refreshed more often than it is tried (om_client/client.py:152).
TypeOK ==
  /\ pc \in {"lookup", "fetch", "search"} \cup Outcomes
  /\ name \in Names /\ candidate \in 1..Len(Candidates(name))
  /\ token \in {"held", "awaited"} /\ refreshes \in 0..Attempts
  /\ token = "awaited" => pc \in {"lookup", "fetch"}
  /\ direction \in Directions /\ depth \in 1..MaxDepth
  /\ root \in Nodes \cup {NoId} /\ current \in Nodes \cup {NoId}
  /\ levels \in [Nodes -> 0..depth]
  /\ queue \in Seq(Nodes)
  /\ pending \subseteq Nodes

\* A table is reported absent only if none of its names exists.  Otherwise the
\* first that exists decides: the lineage is that of its table, and nothing is
\* answered if that table has no id, whatever the other name is of
\* (om_client/lineage.py:123-128).
TableFound ==
  LET hits == {c \in DOMAIN Candidates(name) : Found(c)} IN
  /\ pc = "absent" => hits = {}
  /\ pc \in {"withoutId", "fetch", "search", "unusable", "answered"} =>
       /\ \E c \in hits : root = TableId(c) /\ \A other \in hits : c <= other
       /\ pc = "withoutId" <=> root = NoId

\* When the search ends, every level is explained by a neighbour one level
\* nearer, and no neighbour within the depth is missed or placed too far: the
\* levels are shortest distances (om_client/lineage.py:31-66).
LevelsShortest ==
  pc = "answered" =>
    /\ \A n \in Visited \ {root} :
         \E m \in Visited : n \in Neighbours(m) /\ levels[n] = levels[m] + 1
    /\ \A m \in Visited : levels[m] < depth =>
         \A n \in Neighbours(m) : n \in Visited /\ levels[n] <= levels[m] + 1

\* The reference: the nodes at most k edges against or along the flow of data
\* from the table.
Within[k \in 0..MaxDepth] ==
  IF k = 0 THEN {root}
  ELSE Within[k - 1] \cup
       {n \in Nodes : \E m \in Within[k - 1] :
          IF direction = "upstream" THEN <<n, m>> \in edges ELSE <<m, n>> \in edges}

\* The answer lists exactly the described nodes within the depth, each at its
\* distance from the table, whatever cycles, shared ancestors and orders of
\* edges the response has (om_client/lineage.py:69-115).
AnswerExact ==
  pc = "answered" =>
    result = {[node |-> n, level |-> k] : n \in response.nodes, k \in 1..depth} \cap
             UNION {{[node |-> n, level |-> k] : n \in Within[k] \ Within[k - 1]} : k \in 1..depth}

Unreached == Nodes \ Visited

\* Within a request: its token is refused once more, or is got.
RequestAdvances ==
  \/ refreshes' > refreshes
  \/ refreshes' = refreshes /\ token = "awaited" /\ token' = "held"

\* Within the search: a new node is reached, or with the same nodes reached one
\* leaves the queue, or with the same queue a neighbour less is to be looked at.
SearchAdvances ==
  \/ Unreached' \subseteq Unreached /\ Unreached' # Unreached
  \/ Unreached' = Unreached /\ Len(queue') < Len(queue)
  \/ Unreached' = Unreached /\ queue' = queue
     /\ pending' \subseteq pending /\ pending' # pending

\* Each step of a call brings it nearer to its end, on cyclic lineage and under
\* repeated 401s too: to another phase, to the next name, or nearer to the end
\* of the request or of the search (om_client/lineage.py:55-64, 123-128).
CallAdvances ==
  [][\/ pc = "lookup" /\ pc' \in {"fetch", "absent", "withoutId", "error"}
     \/ pc = "lookup" /\ pc' = "lookup" /\ candidate' > candidate
     \/ pc = "fetch" /\ pc' \in {"search", "unusable", "error"}
     \/ pc \in {"lookup", "fetch"} /\ pc' = pc /\ candidate' = candidate /\ RequestAdvances
     \/ pc = "search" /\ pc' = "answered"
     \/ pc = "search" /\ pc' = "search" /\ SearchAdvances]_vars

\* Every call ends, on cyclic lineage too, unless it waits for the lock of the
\* login for ever (om_client/client.py:92, 144).
CallEnds == <>(pc \in Outcomes) \/ <>[](token = "awaited")
=============================================================================
