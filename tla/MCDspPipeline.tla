---------------------------- MODULE MCDspPipeline ----------------------------
(* Designs for DspPipeline, written as a user of Pipeline would. *)
EXTENDS DspPipeline

InputEdge(i) == <<0, i>>
StageOn(t, inputs, outs) == [thread |-> t, inputs |-> inputs, outs |-> outs]

\* Two channels that part after the first thread and leave from two threads.
\* The stage of thread 2 is made before the stage on its other branch.
Parting ==
  [inputs |-> 2,
   stages |-> <<StageOn(0, <<InputEdge(1)>>, 1),
                StageOn(0, <<InputEdge(2)>>, 1),
                StageOn(1, <<<<1, 1>>>>, 1),
                StageOn(2, <<<<2, 1>>>>, 1)>>,
   outputs |-> <<<<3, 1>>, <<4, 1>>>>]

\* A fork in thread 1 feeds the last two threads; thread 2 also needs thread 0,
\* which may be ahead while thread 1 waits for the sink to empty thread 3.
Forking ==
  [inputs |-> 2,
   stages |-> <<StageOn(0, <<InputEdge(1)>>, 1),
                StageOn(1, <<InputEdge(2)>>, 2),
                StageOn(2, <<<<1, 1>>, <<2, 2>>>>, 1),
                StageOn(3, <<<<2, 1>>>>, 1)>>,
   outputs |-> <<<<3, 1>>, <<4, 1>>>>]

\* A design without thread=: channel 1 leaves from thread 2 after threads 0
\* and 1, channel 2 from thread 3 after threads 0 and 2.  The stage of thread
\* 2 that feeds thread 3 was made first.
Late ==
  [inputs |-> 2,
   stages |-> <<StageOn(0, <<InputEdge(1)>>, 1),
                StageOn(0, <<InputEdge(2)>>, 1),
                StageOn(1, <<<<1, 1>>>>, 1),
                StageOn(2, <<<<2, 1>>>>, 1),
                StageOn(2, <<<<3, 1>>>>, 1),
                StageOn(3, <<<<4, 1>>>>, 1)>>,
   outputs |-> <<<<5, 1>>, <<6, 1>>>>]

-----------------------------------------------------------------------------
\* All designs of n stages made with next_thread alone: every stage is on the
\* newest thread or begins the next one, and takes one or two edges that are
\* still free.
FreeEdges(ins, stages) ==
  ({InputEdge(i) : i \in 1 .. ins} \cup
   UNION {{<<s, i>> : i \in 1 .. stages[s].outs} : s \in DOMAIN stages})
  \ UNION {ToSet(stages[s].inputs) : s \in DOMAIN stages}

StageLists(ins, outs, n) ==
  LET lists[k \in 0 .. n] ==
        IF k = 0 THEN {<<>>}
        ELSE UNION {
          LET free == FreeEdges(ins, list)
              newest == IF list = <<>> THEN {0} ELSE {Last(list).thread, Last(list).thread + 1}
              inputs == {<<e>> : e \in free} \cup
                        {<<f[1], f[2]>> : f \in {g \in free \X free : g[1] # g[2]}}
          IN  {Append(list, StageOn(t, i, o)) : t \in newest, i \in inputs, o \in outs}
            : list \in lists[k - 1]}
  IN  lists[n]

\* Every edge that is left is an output of the pipeline.
Finished(ins, list) ==
  [inputs |-> ins, stages |-> list,
   outputs |-> SetToSortSeq(FreeEdges(ins, list),
                 LAMBDA a, b : a[1] < b[1] \/ (a[1] = b[1] /\ a[2] < b[2]))]

Complete(d) == \A i \in 1 .. Len(d.outputs) : d.outputs[i][1] # 0

DesignsOf(ins, outs, n) ==
  {d \in {Finished(ins, list) : list \in StageLists(ins, outs, n)} :
     Complete(d) /\ Accepted(d) /\ Generatable(d)}

\* Which of two channels is the first one makes no difference.
Canonical(d) == d.inputs = 2 => d.stages[1].inputs[1] = InputEdge(1)

\* The designs of up to four stages with one output each on two inputs, and
\* of up to three stages that may fork on one input.
SmallDesigns ==
  {d \in UNION {DesignsOf(2, {1}, n) : n \in 1 .. 4} \cup UNION {DesignsOf(1, {1, 2}, n) : n \in 1 .. 3} :
     Canonical(d)}

-----------------------------------------------------------------------------
Setup(d, order, onTime, quickReads, commanded) ==
  [design |-> d, order |-> order, on_time |-> onTime, quick_reads |-> quickReads,
   commanded |-> commanded]

\* Source and sink called from two threads: every small design, and Forking,
\* when the DSP threads keep the frame period; and at any speed those in which no thread
\* has two sources, one stage smaller.
TwoAppThreads ==
  {Setup(d, "separate", TRUE, TRUE, {}) : d \in SmallDesigns \cup {Forking}} \cup
  {Setup(d, "separate", FALSE, FALSE, {}) :
     d \in {e \in SmallDesigns : OneSource(e) /\ Len(e.stages) <= e.inputs + 1}}

\* Source and sink called from one thread: on time, source first; and one
\* design at any speed with commands, sink first.
OneAppThread ==
  {Setup(d, "source_first", TRUE, TRUE, {}) :
     d \in {e \in SmallDesigns : e.inputs = 2 \/ Len(e.stages) <= 2}} \cup
  {Setup(Parting, "sink_first", FALSE, FALSE, {0, 2})}

PipelineSetups == TwoAppThreads \cup OneAppThread

LateSetup == {Setup(Late, "separate", TRUE, TRUE, {})}

\* All setups on time are in the reach of the theorems on time, Late is not.
ASSUME OnTimeIsInTime == \A s \in PipelineSetups : s.on_time => InTime(s)
ASSUME LateWaitsInCircle == ~NoCircularWait(Generated(Late))
=============================================================================
