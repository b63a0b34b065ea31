--------------------------- MODULE PipelineDesign ---------------------------
(***************************************************************************)
(* A finished pipeline design and what the code generator derives from it: *)
(* which edges leave and enter each thread, grouped by the other end, in   *)
(* the order in which the generated code uses them.                        *)
(*                                                                         *)
(* A design is a record:                                                   *)
(*   inputs   the number of pipeline inputs                                *)
(*   stages   the stages in the order of their creation, each a record     *)
(*            [thread, inputs (a sequence of edges), outs (a number)]      *)
(*   outputs  the sequence of edges given to set_outputs                   *)
(* An edge is <<s, i>>, output i of stage s; stage 0 stands for the        *)
(* pipeline inputs.  Only stages that carry audio are listed: the pipeline *)
(* stage and the dsp_thread stages have no edges.                          *)
(***************************************************************************)
EXTENDS Integers, Sequences, SequencesExt, FiniteSets

PipelineIn == -1
PipelineOut == -2
Nowhere == -3  \* where a dead edge leads

StageIds(d) == 1 .. Len(d.stages)
ThreadIds(d) == {d.stages[s].thread : s \in StageIds(d)}

\* Graph.edges lists the pipeline inputs, then the outputs of every stage as
\* CompositeStage.stage adds them.
OutsOf(d, s) == IF s = 0 THEN d.inputs ELSE d.stages[s].outs
Edges(d) == UNION {{s} \X (1 .. OutsOf(d, s)) : s \in 0 .. Len(d.stages)}
Earlier(e, f) == e[1] < f[1] \/ (e[1] = f[1] /\ e[2] < f[2])

\* The members of a finite set S in the order R, a set of pairs.
InOrder(S, R) ==
  [i \in 1 .. Cardinality(S) |->
     CHOOSE x \in S : Cardinality({y \in S : <<y, x>> \in R}) = i - 1]
EdgesInOrder(S) == InOrder(S, {p \in S \X S : Earlier(p[1], p[2])})
ThreadsInOrder(S) == InOrder(S, {p \in S \X S : p[1] < p[2]})

SourceThread(d, e) == IF e[1] = 0 THEN PipelineIn ELSE d.stages[e[1]].thread

\* An edge has one destination: dest_index may be set only once.
DestThread(d, e) ==
  IF \E s \in StageIds(d) : e \in ToSet(d.stages[s].inputs)
  THEN d.stages[CHOOSE s \in StageIds(d) : e \in ToSet(d.stages[s].inputs)].thread
  ELSE IF e \in ToSet(d.outputs) THEN PipelineOut ELSE Nowhere

-----------------------------------------------------------------------------
(* _filter_edges_by_thread *)

\* The edges of one entry of a thread's input or output dictionary.
EdgesBetween(d, a, b) ==
  EdgesInOrder({e \in Edges(d) : SourceThread(d, e) = a /\ DestThread(d, e) = b})

\* The keys of all_output_edges: where thread t sends, in the order of the
\* first edge to each.
Dests(d, t) ==
  LET to == {DestThread(d, e) : e \in {f \in Edges(d) : SourceThread(d, f) = t}} \ {t, Nowhere}
      first(b) == EdgesBetween(d, t, b)[1]
  IN  InOrder(to, {p \in to \X to : Earlier(first(p[1]), first(p[2]))})

\* The keys of in_edges: where thread t reads from.
Sources(d, t) == {SourceThread(d, e) : e \in {f \in Edges(d) : DestThread(d, f) = t}} \ {t}

\* The generator numbers the FIFOs and the output channels by their threads.
InputThreads(d) == ThreadsInOrder({t \in ThreadIds(d) : PipelineIn \in Sources(d, t)})

\* output_mux: the edges adsp_pipeline_sink receives, in order, each with
\* the thread that sends it.
OutputMux(d) ==
  LET leaving == {e \in Edges(d) : e[1] # 0 /\ DestThread(d, e) = PipelineOut}
      cfgs == {[thread |-> SourceThread(d, e), edge |-> e] : e \in leaving}
  IN  InOrder(cfgs, {p \in cfgs \X cfgs :
                       \/ p[1].thread < p[2].thread
                       \/ p[1].thread = p[2].thread /\ Earlier(p[1].edge, p[2].edge)})

-----------------------------------------------------------------------------
(* What calls of Pipeline.stage and set_outputs make: every edge is used by   *)
(* one later stage, or is an output, or leads nowhere.  Left out are designs *)
(* with an input for an output, which no thread sends, and with a thread that*)
(* sends nothing.                                                            *)

IsDesign(d) ==
  /\ d.inputs \in Nat /\ d.outputs # <<>>
  /\ d.stages \in Seq([thread : Nat, inputs : Seq(Nat \X Nat), outs : Nat])
  /\ \A s \in StageIds(d) :
       LET ins == d.stages[s].inputs
       IN  /\ ins # <<>> /\ \A e \in ToSet(ins) : e \in Edges(d) /\ e[1] < s
           /\ \A r \in StageIds(d) \ {s} : ToSet(ins) \cap ToSet(d.stages[r].inputs) = {}
           /\ ToSet(ins) \cap ToSet(d.outputs) = {}
  /\ d.outputs \in Seq(Edges(d)) /\ \A e \in ToSet(d.outputs) : e[1] # 0
  /\ \A t \in ThreadIds(d) :
       \E e \in Edges(d) : SourceThread(d, e) = t /\ DestThread(d, e) \notin {t, Nowhere}

-----------------------------------------------------------------------------
(* What the design classes accept; see ThreadCrossings. *)

\* The crossings of every stage's outputs, those of its first input and the
\* stage's own thread.
StageCrossings(d) ==
  LET c[s \in 0 .. Len(d.stages)] ==
        IF s = 0 THEN {}
        ELSE c[d.stages[s].inputs[1][1]] \cup {d.stages[s].thread}
  IN  c

SameSize(sets) == \A x, y \in sets : Cardinality(x) = Cardinality(y)

\* Neither Stage.__init__ nor set_outputs raises RuntimeError.
Accepted(d) ==
  LET c == StageCrossings(d)
  IN  /\ \A s \in StageIds(d) :
           SameSize({c[e[1]] \cup {d.stages[s].thread} : e \in ToSet(d.stages[s].inputs)})
      /\ SameSize({c[e[1]] : e \in ToSet(d.outputs)})

\* The assertion of _generate_dsp_threads holds for every thread.
Generatable(d) ==
  \A t \in ThreadIds(d) : PipelineIn \in Sources(d, t) => Sources(d, t) = {PipelineIn}

\* How many threads the outputs cross.
OutputCrossings(d) == Cardinality(StageCrossings(d)[d.outputs[1][1]])

-----------------------------------------------------------------------------
\* generate_dsp_main: what the generated source holds of the design.
Generated(d) ==
  [threads |-> ThreadIds(d),
   dests   |-> [t \in ThreadIds(d) |-> Dests(d, t)],
   sources |-> [t \in ThreadIds(d) |-> Sources(d, t)],
   link    |-> [a \in ThreadIds(d) |->
                  [b \in ThreadIds(d) \cup {PipelineOut} |-> EdgesBetween(d, a, b)]],
   edges   |-> [t \in ThreadIds(d) |->
                  {e \in Edges(d) : SourceThread(d, e) = t \/ DestThread(d, e) = t}],
   process |-> [t \in ThreadIds(d) |->
                  [s \in {r \in StageIds(d) : d.stages[r].thread = t} |->
                     ToSet(d.stages[s].inputs)]],
   inputs  |-> InputThreads(d),
   mux     |-> OutputMux(d)]

\* No thread of a design reads from two.
OneSource(d) == \A t \in ThreadIds(d) : \E a \in Sources(d, t) : Sources(d, t) = {a}

\* Of two stages the one made first is not on the later thread, as when no
\* stage is placed with thread=.
MadeInOrder(d) ==
  \A s, r \in StageIds(d) : s < r => d.stages[s].thread <= d.stages[r].thread

-----------------------------------------------------------------------------
(* The order of the sends in one frame *)

\* What the threads send for one frame: <<t, j>> is what thread t sends to its
\* j-th destination.
HandOvers(p) == UNION {{t} \X (1 .. Len(p.dests[t])) : t \in p.threads}

\* Hand-over x waits for y: the same thread sends y first, or y comes from the
\* thread that x goes to, or the sink receives another thread's y first.
Awaits(p, x, y) ==
  LET to(z) == p.dests[z[1]][z[2]]
  IN  \/ y[1] = x[1] /\ y[2] < x[2]
      \/ y[1] = to(x)
      \/ /\ to(x) = PipelineOut /\ to(y) = PipelineOut /\ y[1] # x[1]
         /\ \E i, l \in DOMAIN p.mux : i < l /\ p.mux[i].thread = y[1] /\ p.mux[l].thread = x[1]

\* No set of hand-overs wait for each other.
NoCircularWait(p) ==
  \A S \in SUBSET HandOvers(p) : S # {} => \E x \in S : \A y \in S : ~Awaits(p, x, y)
=============================================================================
