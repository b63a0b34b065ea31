----------------------------- MODULE JsonPipeline -----------------------------
(***************************************************************************)
(* Loading a pipeline from JSON (design/parse_json.py): insert_forks puts  *)
(* an AutoFork behind every edge that several consumers share, one edge    *)
(* per step, and make_pipeline then creates the stages, postponing those   *)
(* whose inputs are not there yet, in whatever order the file lists them.  *)
(*                                                                         *)
(* An edge is <<kind, n, i>>, output i of node n: kind is "node", "fork"   *)
(* or, for a channel of the graph's input, "input".  The nodes of a file   *)
(* are named by their position in it.  A consumer, as in consumer_map, is  *)
(* <<kind, n, i>> as well: input i of node n, or edge i of graph output n. *)
(* Positions in a list start at 1 here and at 0 in the code.  What         *)
(* Stage.__init__ and set_outputs refuse is left to ThreadCrossings.       *)
(***************************************************************************)
EXTENDS Integers, Sequences, SequencesExt, FiniteSets

CONSTANT
  Graphs  \* the graphs considered: [input_name, channels, nodes, outputs];
          \* a node is [thread, input, outs], an output a sequence of edges

FileEdges == {"node", "input"} \X Nat \X Nat

ASSUME JsonAssumption ==
  \A g \in Graphs :
    /\ g.channels \in Nat /\ g.outputs \in Seq(Seq(FileEdges))
    /\ g.nodes \in Seq([thread : Nat, input : Seq(FileEdges), outs : Nat])

VARIABLES
  graph,    \* the graph in the file
  nodes,    \* new_graph.nodes
  outputs,  \* new_graph.outputs
  keys,     \* the keys of consumer_map that are still to be looked at
  forks,    \* autofork_idx
  waiting,  \* waiting_nodes
  count,    \* waiting_count
  timer,    \* waiting_timer
  edge_map, \* the edges that exist so far
  phase     \* "forking", "loading", "loaded", "refused" or "crashed"

forkVars == <<nodes, outputs, keys, forks>>
loadVars == <<waiting, count, timer, edge_map>>
vars == <<graph, forkVars, loadVars, phase>>

-----------------------------------------------------------------------------
(* consumer_map *)

NodeInputs(list) ==
  UNION {{<<"node", i, j>> : j \in DOMAIN list[i].input} : i \in DOMAIN list}
OutputEdges(outs) ==
  UNION {{<<"graph_output", i, j>> : j \in DOMAIN outs[i]} : i \in DOMAIN outs}

\* The edge that a consumer has in the file.
InFile(c) == IF c[1] = "node" THEN graph.nodes[c[2]].input[c[3]] ELSE graph.outputs[c[2]][c[3]]

FileConsumers == NodeInputs(graph.nodes) \cup OutputEdges(graph.outputs)
Consumers(key) == {c \in FileConsumers : InFile(c) = key}

\* Their order: nodes as they are in the file, then outputs.
Before(c, d) ==
  \/ c[1] = "node" /\ d[1] # "node"
  \/ c[1] = d[1] /\ c[2] < d[2]
  \/ c[1] = d[1] /\ c[2] = d[2] /\ c[3] < d[3]

\* The key of consumer_map whose turn it is, with its first consumer: keys are
\* in the order in which they are first used.
IsNext(key, first) ==
  /\ key \in keys /\ first \in Consumers(key)
  /\ \A d \in FileConsumers : InFile(d) \in keys => ~Before(d, first)

Init ==
  /\ graph \in Graphs
  /\ nodes = [i \in DOMAIN graph.nodes |->
                [name |-> <<"node", i>>, thread |-> graph.nodes[i].thread,
                 input |-> graph.nodes[i].input, outs |-> graph.nodes[i].outs]]
  /\ outputs = graph.outputs
  /\ keys = {InFile(c) : c \in FileConsumers}
  /\ forks = 0
  /\ waiting = <<>>
  /\ count = 0
  /\ timer = 0
  /\ edge_map = {}
  /\ phase = "forking"

-----------------------------------------------------------------------------
(* Faulty variants of definitions below, one mistake each, used by none.     *)

\* The consumers' positions are not shifted by the forks before them.
RewiredUnshifted(list, key) ==
  [i \in 1 .. Len(list) |->
     [list[i] EXCEPT !.input = [j \in DOMAIN @ |->
        IF <<"node", i, j>> \in Consumers(key)
        THEN <<"fork", forks, Cardinality({d \in Consumers(key) : Before(d, <<"node", i, j>>)})>>
        ELSE @[j]]]]

\* Every consumer is given the first output of the fork.
ForkOutputFirst(key, c) == 0

\* The timer goes on when a stage has been created in the meantime.
PostponeNoReset ==
  /\ phase = "loading" /\ waiting # <<>>
  /\ ~(ToSet(nodes[Head(waiting)].input) \subseteq edge_map)
  /\ timer' = timer + 1
  /\ IF timer + 1 > Len(waiting)
     THEN phase' = "refused" /\ UNCHANGED waiting
     ELSE waiting' = Append(Tail(waiting), Head(waiting)) /\ UNCHANGED phase
  /\ UNCHANGED <<graph, forkVars, count, edge_map>>

\* The timer starts again with every node that is postponed.
PostponeForever ==
  /\ phase = "loading" /\ waiting # <<>>
  /\ ~(ToSet(nodes[Head(waiting)].input) \subseteq edge_map)
  /\ timer' = 0
  /\ waiting' = Append(Tail(waiting), Head(waiting))
  /\ UNCHANGED <<graph, forkVars, count, edge_map, phase>>

-----------------------------------------------------------------------------
(* insert_forks *)

Shared(key) == Cardinality(Consumers(key)) > 1

SkipKey ==
  /\ phase = "forking"
  /\ \E key \in keys, first \in FileConsumers :
       IsNext(key, first) /\ ~Shared(key) /\ keys' = keys \ {key}
  /\ UNCHANGED <<graph, nodes, outputs, forks, loadVars, phase>>

\* The output of the fork that a consumer of key gets: its place among them.
ForkOutput(key, c) == Cardinality({d \in Consumers(key) : Before(d, c)})

\* The consumers of key in a list of nodes with forks + 1 AutoForks inserted.
RewiredNodes(list, key) ==
  LET was(i, j) == <<"node", i - (forks + 1), j>>
  IN  [i \in 1 .. Len(list) |->
         [list[i] EXCEPT !.input = [j \in DOMAIN @ |->
            IF was(i, j) \in Consumers(key) THEN <<"fork", forks, ForkOutput(key, was(i, j))>>
            ELSE @[j]]]]

RewiredOutputs(key) ==
  [i \in DOMAIN outputs |-> [j \in DOMAIN outputs[i] |->
     IF <<"graph_output", i, j>> \in Consumers(key)
     THEN <<"fork", forks, ForkOutput(key, <<"graph_output", i, j>>)>>
     ELSE outputs[i][j]]]

\* Where the fork goes: the position of the first consumer, which for an
\* output is its position among the outputs; at most to the end of the list.
ForkPosition(first) ==
  IF first[2] + forks > Len(nodes) THEN Len(nodes) + 1 ELSE first[2] + forks

\* Whose thread the fork runs on: for an edge of the input called "inputs" the
\* node at the fork's position, for others the node at the position that the
\* producer has in the file; 0 when there is no such node.
ThreadNode(key, first) ==
  CASE key[1] = "node" /\ key[2] \in DOMAIN graph.nodes -> key[2]
    [] /\ key[1] = "input" /\ graph.input_name = "inputs"
       /\ ForkPosition(first) \in DOMAIN nodes -> ForkPosition(first)
    [] OTHER -> 0

NewFork(key, first) ==
  [name |-> <<"fork", forks>>, thread |-> nodes[ThreadNode(key, first)].thread,
   input |-> <<key>>, outs |-> Cardinality(Consumers(key))]

InsertFork ==
  /\ phase = "forking"
  /\ \E key \in keys, first \in FileConsumers :
       /\ IsNext(key, first) /\ Shared(key) /\ ThreadNode(key, first) # 0
       /\ nodes' = RewiredNodes(InsertAt(nodes, ForkPosition(first), NewFork(key, first)), key)
       /\ outputs' = RewiredOutputs(key)
       /\ keys' = keys \ {key}
  /\ forks' = forks + 1
  /\ UNCHANGED <<graph, loadVars, phase>>

\* KeyError or IndexError.
ForkCrash ==
  /\ phase = "forking"
  /\ \E key \in keys, first \in FileConsumers :
       IsNext(key, first) /\ Shared(key) /\ ThreadNode(key, first) = 0
  /\ phase' = "crashed"
  /\ UNCHANGED <<graph, forkVars, loadVars>>

-----------------------------------------------------------------------------
(* make_pipeline *)

InputEdges == {<<"input", 0, i>> : i \in 0 .. graph.channels - 1}
Outs(name, n) == {<<name[1], name[2], i>> : i \in 0 .. n - 1}

StartLoading ==
  /\ phase = "forking" /\ keys = {}
  /\ phase' = "loading"
  /\ waiting' = [i \in 1 .. Len(nodes) |-> i]
  /\ count' = Len(nodes)
  /\ timer' = 0
  /\ edge_map' = InputEdges
  /\ UNCHANGED <<graph, forkVars>>

Ready(n) == ToSet(nodes[n].input) \subseteq edge_map

\* All inputs are there: the stage is created.
CreateStage ==
  /\ phase = "loading" /\ waiting # <<>>
  /\ Ready(Head(waiting))
  /\ edge_map' = edge_map \cup Outs(nodes[Head(waiting)].name, nodes[Head(waiting)].outs)
  /\ waiting' = Tail(waiting)
  /\ UNCHANGED <<graph, forkVars, count, timer, phase>>

\* Some input is not: the node goes to the end of the queue, or is refused
\* when too many have been postponed since the last stage was created.
Postpone ==
  /\ phase = "loading" /\ waiting # <<>>
  /\ ~Ready(Head(waiting))
  /\ IF Len(waiting) < count
     THEN count' = Len(waiting) /\ timer' = 0
     ELSE timer' = timer + 1 /\ UNCHANGED count
  /\ IF timer' > count'
     THEN phase' = "refused" /\ UNCHANGED waiting
     ELSE waiting' = Append(Tail(waiting), Head(waiting)) /\ UNCHANGED phase
  /\ UNCHANGED <<graph, forkVars, edge_map>>

\* The pipeline outputs are looked up.
Finish ==
  /\ phase = "loading" /\ waiting = <<>>
  /\ phase' = IF \A i \in DOMAIN outputs : ToSet(outputs[i]) \subseteq edge_map
              THEN "loaded" ELSE "crashed"
  /\ UNCHANGED <<graph, forkVars, loadVars>>

Next ==
  \/ SkipKey \/ InsertFork \/ ForkCrash
  \/ StartLoading \/ CreateStage \/ Postpone \/ Finish

Spec == Init /\ [][Next]_vars
FairSpec == Spec /\ WF_vars(Next)

-----------------------------------------------------------------------------
(* Properties *)

\* The edge that a consumer of the list with forks has.
Carried(c) == IF c[1] = "node" THEN nodes[c[2]].input[c[3]] ELSE outputs[c[2]][c[3]]

\* The edge of the file's graph that an edge carries.
Origin(e) ==
  IF e[1] = "fork"
  THEN (CHOOSE n \in ToSet(nodes) : n.name = <<"fork", e[2]>>).input[1]
  ELSE e

\* The counters stay within the lists they count; every fork is in the list.
TypeOK ==
  /\ phase \in {"forking", "loading", "loaded", "refused", "crashed"}
  /\ Len(nodes) = Len(graph.nodes) + forks
  /\ \A k \in 0 .. forks - 1 : \E n \in ToSet(nodes) : n.name = <<"fork", k>>
  /\ ToSet(waiting) \subseteq DOMAIN nodes
  /\ \A i, j \in DOMAIN waiting : waiting[i] = waiting[j] => i = j
  /\ count \in 0 .. Len(nodes)
  /\ timer \in 0 .. count + 1

\* Once the forks are in, every edge has at most one consumer: dest_index of
\* an edge can be set only once.
OneConsumer ==
  phase \notin {"forking", "crashed"} =>
    \A c, d \in NodeInputs(nodes) \cup OutputEdges(outputs) : Carried(c) = Carried(d) => c = d

\* Whatever forks have been inserted, every input of every node and every
\* output carries the edge it has in the file.
SameSources ==
  /\ \A i \in DOMAIN graph.nodes : \E n \in ToSet(nodes) :
       /\ n.name = <<"node", i>>
       /\ [j \in DOMAIN n.input |-> Origin(n.input[j])] = graph.nodes[i].input
  /\ [i \in DOMAIN outputs |-> [j \in DOMAIN outputs[i] |-> Origin(outputs[i][j])]]
       = graph.outputs

\* The edges there are when the nodes of D are missing; a group of nodes that
\* wait for one another, or for an edge that nothing makes.
Available(D) ==
  InputEdges \cup UNION {Outs(<<"node", i>>, graph.nodes[i].outs) : i \in DOMAIN graph.nodes \ D}
StuckGroup(D) == \A i \in D : ~(ToSet(graph.nodes[i].input) \subseteq Available(D))

\* A graph is refused only when it has nodes that wait for one another or uses an
\* edge that does not exist, and never loaded with such a node left out or such
\* an edge in use.
RefusedIffCyclic ==
  LET complete == /\ \A D \in SUBSET DOMAIN graph.nodes : StuckGroup(D) => D = {}
                  /\ \A i \in DOMAIN graph.outputs : ToSet(graph.outputs[i]) \subseteq Available({})
  IN  /\ phase = "refused" => ~complete
      /\ phase = "loaded" => complete

\* Loading ends: the queue of postponed nodes does not go round for ever.
LoadingEnds == <>(phase \in {"loaded", "refused", "crashed"})

\* "Otherwise, put the fork on the producer thread."
ForkOnProducerThread ==
  \A n \in ToSet(nodes) : n.name[1] = "fork" =>
    \A p \in ToSet(nodes) :
      p.name = <<n.input[1][1], n.input[1][2]>> => n.thread = p.thread
=============================================================================
