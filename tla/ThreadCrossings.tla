--------------------------- MODULE ThreadCrossings ---------------------------
(***************************************************************************)
(* The design of a pipeline in Python: Pipeline.stage, next_thread and     *)
(* set_outputs.  An audio path is delayed by one frame in every thread it  *)
(* enters, so all the paths that meet must enter as many.  The design      *)
(* classes count that with a list of thread ids on every edge (crossings)  *)
(* that a stage passes on from its FIRST input only, and refuse a stage or *)
(* an output list whose edges disagree in the number of distinct ids.      *)
(*                                                                         *)
(* An edge is known here by its kind: its crossings, the thread its source *)
(* stage is on, and, for the properties only, the delays of all paths that *)
(* lead to it.  Kinds are not used up: a Fork stage on that thread gives   *)
(* as many edges of a kind as a design needs.                              *)
(***************************************************************************)
EXTENDS Integers, FiniteSets

CONSTANTS
  MaxThread,  \* bound: threads are numbered 0 .. MaxThread
  Placement   \* may the caller pass thread= to Pipeline.stage?

ASSUME MaxThreadAssumption == MaxThread \in Nat
ASSUME PlacementAssumption == Placement \in BOOLEAN

VARIABLES
  current,  \* Pipeline._current_thread, the last thread created
  edges,    \* the kinds of the edges of the design
  links,    \* <<a, b>>: thread b has an input from thread a (or from NoThread)
  outputs   \* the kinds accepted by set_outputs, {} before that

designVars == <<current, edges, links, outputs>>

ThreadNumbers == 0 .. MaxThread
NoThread == -1

\* An edge: crossings is the set of the list's members, since every use of
\* the list takes set(...) of it.
EdgeKinds == [crossings: SUBSET ThreadNumbers,
              thread: ThreadNumbers \cup {NoThread},
              delays: SUBSET Nat]

PipelineInput == [crossings |-> {}, thread |-> NoThread, delays |-> {0}]

\* Pipeline.__init__ creates the input edges and the first thread.
DesignInit ==
  /\ current = 0
  /\ edges = {PipelineInput}
  /\ links = {}
  /\ outputs = {}

-----------------------------------------------------------------------------
(* Faulty variants of the operators below, one mistake each, used by none. *)

\* SameCrossings that compares only two of the edges.
SameCrossingsOfSome(es) ==
  \E d, e \in es : Cardinality(d.crossings) = Cardinality(e.crossings)

\* Entered that does not count the thread of the new stage.
EnteredAfterwards(e, t) == e

\* Stage that may go to an earlier thread although none was named.
StageAnywhere(t, inputs) ==
  /\ outputs = {}
  /\ t <= current
  /\ LET arriving == {[e EXCEPT !.crossings = @ \cup {t}] : e \in inputs}
     IN  /\ \A d, e \in arriving : Cardinality(d.crossings) = Cardinality(e.crossings)
         /\ \E first \in arriving :
              edges' = edges \cup
                {[crossings |-> first.crossings, thread |-> t,
                  delays |-> UNION {{n + (IF e.thread = t THEN 0 ELSE 1) : n \in e.delays}
                                      : e \in arriving}]}
         /\ links' = links \cup {<<e.thread, t>> : e \in {d \in inputs : d.thread # t}}
  /\ UNCHANGED <<current, outputs>>

-----------------------------------------------------------------------------
\* The test of Stage.__init__ and set_outputs.
SameCrossings(es) ==
  \A d, e \in es : Cardinality(d.crossings) = Cardinality(e.crossings)

\* Thread.stage appends its id to the crossings of every input.
Entered(e, t) == [e EXCEPT !.crossings = @ \cup {t}]

\* Stage.create_outputs: the crossings of the first input, on the stage's
\* thread.  A path gains a frame where it enters the thread.
CreateOutput(first, inputs, t) ==
  [crossings |-> first.crossings, thread |-> t,
   delays |-> UNION {{n + (IF e.thread = t THEN 0 ELSE 1) : n \in e.delays} : e \in inputs}]

\* Pipeline.next_thread, and the threads make_pipeline creates beforehand.
NextThread ==
  /\ outputs = {}
  /\ current < MaxThread
  /\ current' = current + 1
  /\ UNCHANGED <<edges, links, outputs>>

\* Pipeline.stage on thread t; inputs that disagree raise RuntimeError and
\* end the design.
Stage(t, inputs) ==
  /\ outputs = {}
  /\ t = current \/ (Placement /\ t <= current)
  /\ LET arriving == {Entered(e, t) : e \in inputs}
     IN  /\ SameCrossings(arriving)
         /\ \E first \in arriving :
              edges' = edges \cup {CreateOutput(first, arriving, t)}
         /\ links' = links \cup {<<e.thread, t>> : e \in {d \in inputs : d.thread # t}}
  /\ UNCHANGED <<current, outputs>>

\* Pipeline.set_outputs, which takes edges that left a stage.
SetOutputs(es) ==
  /\ outputs = {}
  /\ SameCrossings(es)
  /\ outputs' = es
  /\ UNCHANGED <<current, edges, links>>

\* Bound: the inputs of a stage are of at most two kinds, and so are the
\* outputs of the pipeline; any disagreement is one between two of them.
SomeEdges == {{d, e} : d, e \in edges}
StageEdges == {e \in edges : e.thread # NoThread}

DesignNext ==
  \/ NextThread
  \/ \E t \in ThreadNumbers : \E inputs \in SomeEdges : Stage(t, inputs)
  \/ \E d, e \in StageEdges : SetOutputs({d, e})

DesignSpec == DesignInit /\ [][DesignNext]_designVars

-----------------------------------------------------------------------------
DesignTypeOK ==
  /\ current \in ThreadNumbers
  /\ edges \subseteq EdgeKinds
  /\ links \subseteq (ThreadNumbers \cup {NoThread}) \X ThreadNumbers
  /\ outputs \subseteq edges

\* All paths from a pipeline input to an edge, whichever inputs of the
\* stages they pass, are delayed by as many frames as the edge has crossed
\* threads by its first-input path (stage.py: "to avoid a latency mismatch").
LatencyAgrees == \A e \in edges : e.delays = {Cardinality(e.crossings)}

\* All paths to all outputs of an accepted design have one delay.
OutputsAligned ==
  \A d, e \in outputs : \A m \in d.delays, n \in e.delays : m = n

\* No thread waits, through its inputs, for itself (stage.py: "thread
\* blocking"): in every group of threads one has no input from the group.
NoThreadCycle ==
  \A group \in (SUBSET ThreadNumbers) \ {{}} :
    \E t \in group : \A s \in group : <<s, t>> \notin links
=============================================================================
