---------------------------- MODULE ContentGraph -----------------------------
(* The local graph of the content: nodes, typed edges of which those of           *)
(* provenance must not form a cycle, edges the user suppressed, and generations.   *)
(* A session rebuilds a candidate graph in batches, checkpoints after every batch  *)
(* and may be cancelled, fail and be resumed; the candidate then replaces the      *)
(* active graph.                                                                  *)
EXTENDS Nothing, Naturals, FiniteSets

CONSTANTS
  Nodes,        \* the nodes
  EdgeIds,      \* the ids of edges, chosen by whoever makes them
  RebuildItems, \* the number of items a rebuild goes through
  BatchSize,    \* how many of them make a batch
  MaxNodes, MaxEdges,  \* the limits of the graph
  MaxRuns,      \* bounds the runs of the session
  MaxEdits      \* bounds the edits of the graphs

VARIABLES
  graph,      \* the active graph and the candidate
  rebuild,    \* the checkpoint of the rebuild, and the run
  processed,  \* the items that were processed
  edits, runs

graphVars == <<graph, rebuild, processed, edits, runs>>

States == {"ready", "rebuilding", "disabled"}
Edges == [from : Nodes, to : Nodes, provenance : BOOLEAN]

\* No edge is no edge, and a rebuild goes on by batches of at least one item.
GraphAssumption == None \notin Edges /\ RebuildItems \in Nat /\ BatchSize \in Nat \ {0}

Empty == [state |-> "ready", nodes |-> {}, edges |-> [e \in EdgeIds |-> None], suppressed |-> {}]

Stored(g) == {e \in EdgeIds : g.edges[e] # None}

\* A set of nodes that no edge of provenance leads out of, whether it is suppressed or
\* not.
Closed(g, nodes) ==
  \A e \in Stored(g) : g.edges[e].provenance /\ g.edges[e].from \in nodes => g.edges[e].to \in nodes

\* The nodes that the search finds from one: those in whatever is closed around it.
Reached(g, n) ==
  {m \in Nodes : \A nodes \in SUBSET Nodes : n \in nodes /\ Closed(g, nodes) => m \in nodes}

EditGraph(which, g) ==
  /\ edits < MaxEdits /\ edits' = edits + 1
  /\ graph' = [graph EXCEPT ![which] = g] /\ UNCHANGED <<rebuild, processed, runs>>

-----------------------------------------------------------------------------
(* The graph (service.ts).                                                    *)

\* The nodes are stored, unless there would be too many of them.
UpsertNodes(which, nodes) ==
  LET g == graph[which] IN
  /\ g.state = "ready" /\ Cardinality(g.nodes \cup nodes) <= MaxNodes
  /\ EditGraph(which, [g EXCEPT !.nodes = @ \cup nodes])

SlipHasPath(g, from, to) == from \in Reached(g, to)

HasPath(g, from, to) == to \in Reached(g, from)

\* An edge needs its nodes and a place, and closes no cycle of provenance; one that is
\* stored under the same id is replaced.
UpsertEdge(which, e, edge) ==
  LET g == graph[which] IN
  /\ g.state = "ready" /\ edge.from # edge.to /\ {edge.from, edge.to} \subseteq g.nodes
  /\ e \in Stored(g) \/ Cardinality(Stored(g)) < MaxEdges
  /\ edge.provenance => ~HasPath(g, edge.to, edge.from)
  /\ EditGraph(which, [g EXCEPT !.edges[e] = edge])

SuppressEdge(e) ==
  /\ e \in Stored(graph.active)
  /\ EditGraph("active", [graph.active EXCEPT !.suppressed = @ \cup {e}])

MarkRebuilding == EditGraph("active", [graph.active EXCEPT !.state = "rebuilding"])

\* The candidate is copied; what was suppressed is not.
ReplaceGeneration ==
  /\ graph.candidate.state = "ready"
  /\ EditGraph("active", [graph.candidate EXCEPT !.suppressed = {}])

DisableGraph == EditGraph("active", [Empty EXCEPT !.state = "disabled"])

-----------------------------------------------------------------------------
(* The session that rebuilds it (rebuild.ts).                                 *)

KeepsGraphs(s) == rebuild' = s /\ UNCHANGED <<graph, edits, runs>>

\* A session starts at the cursor of the checkpoint it is given.
Run ==
  /\ runs < MaxRuns /\ runs' = runs + 1
  /\ rebuild.state \in {"pending", "cancelled", "failed"}
  /\ rebuild' = [rebuild EXCEPT !.state = "running", !.at = rebuild.cursor, !.aborted = FALSE]
  /\ UNCHANGED <<graph, processed, edits>>

BatchEnd(s) == IF s.cursor + BatchSize <= RebuildItems THEN s.cursor + BatchSize ELSE RebuildItems

\* The items of the batch are processed one after the other.
ProcessItem ==
  /\ rebuild.state = "running" /\ rebuild.at < BatchEnd(rebuild)
  /\ rebuild.at = rebuild.cursor => ~rebuild.aborted
  /\ processed' = processed \cup {rebuild.at}
  /\ KeepsGraphs([rebuild EXCEPT !.at = @ + 1])

\* The cursor moves when the batch is done.
Checkpoint ==
  /\ rebuild.state = "running" /\ rebuild.cursor < RebuildItems /\ rebuild.at = BatchEnd(rebuild)
  /\ KeepsGraphs([rebuild EXCEPT !.cursor = BatchEnd(rebuild)]) /\ UNCHANGED processed

Completed ==
  /\ rebuild.state = "running" /\ rebuild.cursor = RebuildItems
  /\ KeepsGraphs([rebuild EXCEPT !.state = "completed"]) /\ UNCHANGED processed

Cancel ==
  /\ rebuild.state = "running" /\ ~rebuild.aborted
  /\ KeepsGraphs([rebuild EXCEPT !.aborted = TRUE]) /\ UNCHANGED processed

\* What is kept when a run stops short: the cursor stays where the last batch ended.
Checkpointed(s, state) == [s EXCEPT !.state = state]

\* A run stops before a batch when it is aborted, and at an item that cannot be
\* processed.
StopsShort ==
  /\ rebuild.state = "running" /\ rebuild.at < BatchEnd(rebuild)
  /\ KeepsGraphs(Checkpointed(rebuild, IF rebuild.aborted THEN "cancelled" ELSE "failed"))
  /\ UNCHANGED processed

GraphInit ==
  /\ graph = [active |-> Empty, candidate |-> Empty]
  /\ rebuild = [state |-> "pending", cursor |-> 0, at |-> 0, aborted |-> FALSE]
  /\ processed = {} /\ edits = 0 /\ runs = 0

EditNext ==
  \/ \E which \in {"active", "candidate"} :
       \/ \E nodes \in SUBSET Nodes : UpsertNodes(which, nodes)
       \/ \E e \in EdgeIds, edge \in Edges : UpsertEdge(which, e, edge)
  \/ \E e \in EdgeIds : SuppressEdge(e)
  \/ MarkRebuilding \/ ReplaceGeneration \/ DisableGraph

SessionNext == Run \/ ProcessItem \/ Checkpoint \/ Completed \/ Cancel \/ StopsShort

GraphNext == EditNext \/ SessionNext

GraphSpec == GraphInit /\ [][GraphNext]_graphVars

-----------------------------------------------------------------------------
\* Graphs and session are well formed.
GraphTypeOK ==
  /\ \A which \in {"active", "candidate"} :
       /\ graph[which].state \in States /\ graph[which].nodes \subseteq Nodes
       /\ \A e \in EdgeIds : graph[which].edges[e] \in Edges \cup {None}
  /\ rebuild.cursor \in 0 .. RebuildItems /\ rebuild.at \in 0 .. RebuildItems

\* No content derives from itself, over however many edges, although edges are replaced
\* and whole graphs are (the check of service.ts:95 sees only one edge at a time).
ProvenanceAcyclic ==
  \A which \in {"active", "candidate"} : \A e \in Stored(graph[which]) :
    LET edge == graph[which].edges[e]
    IN  edge.provenance => edge.from \notin Reached(graph[which], edge.to)

\* A rebuild that is reported as complete went through every item, however often it was
\* cancelled or failed in between (rebuild.ts:52).
CompletedIsComplete == rebuild.state = "completed" => processed = 0 .. RebuildItems - 1

=============================================================================
