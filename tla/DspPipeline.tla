----------------------------- MODULE DspPipeline -----------------------------
(***************************************************************************)
(* A generated pipeline at run time: the DSP threads that pipeline.py      *)
(* writes for a design, and the application that passes frames in and out  *)
(* with adsp_pipeline_source and adsp_pipeline_sink.                       *)
(*                                                                         *)
(* Every thread repeats: send its outputs, destination by destination;     *)
(* wait in a select for as many reads as it has sources, doing control     *)
(* when nothing is ready; do control if that has not happened; process.    *)
(* The first round sends the zeros the edge arrays start with.             *)
(*                                                                         *)
(* A frame is the number of the source call it came from; 0 stands for     *)
(* those zeros.  A stage whose inputs are of different frames yields       *)
(* Mixed.  The channels of lib_xcore are external: a transaction completes *)
(* for both sides at once, or blocks.  An input FIFO is the one-frame slot *)
(* that AdspFifo implements.                                               *)
(***************************************************************************)
EXTENDS PipelineDesign

CONSTANTS
  Setups,     \* the designs and circumstances considered, records
              \*   design      as PipelineDesign describes
              \*   order       "separate", "sink_first" or "source_first": does the
              \*               app call source and sink from two threads or one?
              \*   on_time     every thread finishes a frame within the frame period
              \*   quick_reads receiving a frame, in a thread or in the sink call, is
              \*               quicker than processing one
              \*   commanded   the threads that get control commands
  NumFrames   \* bound: source calls are numbered 1 .. NumFrames, then again

ASSUME SetupsAssumption ==
  \A s \in Setups :
    /\ IsDesign(s.design) /\ Accepted(s.design) /\ Generatable(s.design)
    /\ s.order \in {"separate", "sink_first", "source_first"}
    /\ s.on_time \in BOOLEAN /\ s.quick_reads \in BOOLEAN
    /\ s.commanded \subseteq ThreadIds(s.design)
ASSUME NumFramesAssumption == NumFrames \in Nat \ {0}

Threads == UNION {ThreadIds(s.design) : s \in Setups}
Commanded == UNION {s.commanded : s \in Setups}

VARIABLES
  setup,        \* the member of Setups that is running
  program,      \* the source generated for its design
  delay,        \* the threads that the outputs cross
  pc,           \* per thread: "out", "select", "take" or "process"
  dest,         \* per thread: which of its destinations it sends to
  sent,         \* per thread: the edges it has sent to that destination
  from,         \* per thread: the source whose edges it is receiving
  received,     \* per thread: the edges it has received from that source
  read_count,   \* per thread: the reads that are left
  control_done, \* per thread: has it done control in this round?
  edge,         \* per thread: the frame in each of its edge arrays
  pending,      \* per thread: a command waits in a stage of it
  fifo,         \* per thread that has one: the frame in its input FIFO
  frame,        \* the frame of the next source call
  done,         \* FIFOs filled by the current source call, -1 between calls
  data,         \* what the current or last sink call has received
  reading,      \* is a sink call in progress?
  due,          \* the frame that sink call should deliver
  calls         \* what the app still calls in this period

design == <<setup, program, delay>>
threadVars == <<pc, dest, sent, from, received, read_count, control_done, edge, pending>>
sourceVars == <<frame, done>>
sinkVars == <<data, reading, due>>
vars == <<design, threadVars, fifo, sourceVars, sinkVars, calls>>

Empty == -1
Mixed == -1
Frames == 0 .. NumFrames
NextFrame(n) == IF n = NumFrames THEN 1 ELSE n + 1

Coupled == setup.on_time \/ setup.order # "separate"

-----------------------------------------------------------------------------
(* Faulty variants of definitions below, one mistake each, used by none. *)

\* Reloaded that counts one source less where there are several.
ReloadedLess(t) ==
  IF sent[t] + 1 = Len(program.link[t][program.dests[t][dest[t]]])
     /\ dest[t] = Len(program.dests[t])
  THEN [read_count EXCEPT ![t] = 1]
  ELSE read_count

\* AfterCase that tests read_count before it is decremented.
AfterCaseLate(u) == IF read_count[u] = 0 THEN "process" ELSE "select"

\* Process that relies on the default case for control.
ProcessNoControl(t) ==
  /\ pc[t] = "process"
  /\ pending' = pending
  /\ control_done' = [control_done EXCEPT ![t] = FALSE]
  /\ edge' = [edge EXCEPT ![t] =
       LET stages == program.process[t]
       IN  [e \in program.edges[t] |->
              IF e[1] \in DOMAIN stages THEN edge[t][CHOOSE i \in stages[e[1]] : TRUE]
              ELSE edge[t][e]]]
  /\ pc' = [pc EXCEPT ![t] = "out"]
  /\ UNCHANGED <<design, dest, sent, from, received, read_count, fifo, sourceVars, sinkVars, calls>>

\* Source that does not wait for the FIFOs.
SourceUnchecked ==
  /\ done >= 0
  /\ fifo' = [fifo EXCEPT ![program.inputs[done + 1]] = frame]
  /\ IF done + 1 < Len(program.inputs)
     THEN done' = done + 1 /\ UNCHANGED frame
     ELSE done' = -1 /\ frame' = NextFrame(frame)
  /\ UNCHANGED <<design, threadVars, sinkVars, calls>>

\* adsp_..._pipeline_init, and the start of the threads.
Init ==
  /\ setup \in Setups
  /\ program = Generated(setup.design)
  /\ delay = OutputCrossings(setup.design)
  /\ pc = [t \in program.threads |-> "out"]
  /\ dest = [t \in program.threads |-> 1]
  /\ sent = [t \in program.threads |-> 0]
  /\ from = [t \in program.threads |-> PipelineIn]
  /\ received = [t \in program.threads |-> 0]
  /\ read_count = [t \in program.threads |-> 0]
  /\ control_done = [t \in program.threads |-> FALSE]
  /\ edge = [t \in program.threads |-> [e \in program.edges[t] |-> 0]]
  /\ pending = [t \in program.threads |-> FALSE]
  /\ fifo = [t \in ToSet(program.inputs) |-> Empty]
  /\ frame = 1
  /\ done = -1
  /\ data = <<>>
  /\ reading = FALSE
  /\ due = 0 - delay
  /\ calls = {"sink", "source"}

-----------------------------------------------------------------------------
(* Threads *)

\* Thread t is blocked sending to b.
Sending(t, b) == pc[t] = "out" /\ program.dests[t][dest[t]] = b

\* The edge t is sending.
Outgoing(t) == program.link[t][program.dests[t][dest[t]]][sent[t] + 1]

\* Thread t would receive from a: it is at the select, or in the middle of
\* the case of a.
Receiving(t, a) ==
  \/ pc[t] = "select" /\ a \in program.sources[t]
  \/ pc[t] = "take" /\ a = from[t]

\* A source of t that its select would find ready.
SourceReady(t, a) ==
  IF a = PipelineIn THEN fifo[t] # Empty ELSE Sending(a, t)

\* The sink call in progress waits for the edge t is sending.
SinkReady(t) ==
  /\ reading
  /\ program.mux[Len(data) + 1].thread = t
  /\ Sending(t, PipelineOut)

\* Some frame can be received right now, by a DSP thread or by the sink.
ReadPossible ==
  \E t \in program.threads :
    SinkReady(t) \/ \E a \in program.sources[t] : Receiving(t, a) /\ SourceReady(t, a)

\* The pipeline has come to rest: nothing moves until the app makes a call.
Quiet == ~ReadPossible /\ \A t \in program.threads : pc[t] # "process"

\* After the last edge to a destination comes the next destination, after the
\* last destination the select, with read_count set; this is the sender's half
\* of a transaction.  newPc is the receiver's new pc, when the receiver is a
\* thread.
SendNext(t, newPc) ==
  LET lastEdge == sent[t] + 1 = Len(program.link[t][program.dests[t][dest[t]]])
      lastDest == dest[t] = Len(program.dests[t])
  IN  /\ sent' = [sent EXCEPT ![t] = IF lastEdge THEN 0 ELSE @ + 1]
      /\ dest' = [dest EXCEPT ![t] = IF ~lastEdge THEN @ ELSE IF lastDest THEN 1 ELSE @ + 1]
      /\ pc' = IF lastEdge /\ lastDest THEN [newPc EXCEPT ![t] = "select"] ELSE newPc

Reloaded(t) ==
  IF sent[t] + 1 = Len(program.link[t][program.dests[t][dest[t]]]) /\ dest[t] = Len(program.dests[t])
  THEN [read_count EXCEPT ![t] = Cardinality(program.sources[t])]
  ELSE read_count

\* What u's read_count case does when the last edge has come: break out of
\* the select, or continue.
AfterCase(u) == IF read_count[u] = 1 THEN "process" ELSE "select"

\* chan_out_buf_word in thread t meets chan_in_buf_word in the case of thread
\* u.  The case receives all edges of that source before the select is left or
\* entered again.
Transfer(t, u) ==
  /\ Sending(t, u)
  /\ Receiving(u, t)
  /\ LET n == IF pc[u] = "take" THEN received[u] + 1 ELSE 1
         last == n = Len(program.link[t][u])
     IN  /\ edge' = [edge EXCEPT ![u][Outgoing(t)] = edge[t][Outgoing(t)]]
         /\ received' = [received EXCEPT ![u] = IF last THEN 0 ELSE n]
         /\ from' = [from EXCEPT ![u] = IF last THEN PipelineIn ELSE t]
         /\ read_count' = [Reloaded(t) EXCEPT ![u] = IF last THEN @ - 1 ELSE @]
         /\ SendNext(t, [pc EXCEPT ![u] = IF last THEN AfterCase(u) ELSE "take"])
  /\ UNCHANGED <<design, control_done, pending, fifo, sourceVars, sinkVars, calls>>

\* The select case of the input FIFO: adsp_fifo_read_start, a read for every
\* edge, adsp_fifo_read_done.
TakeInput(t) ==
  /\ pc[t] = "select"
  /\ PipelineIn \in program.sources[t]
  /\ fifo[t] # Empty
  /\ edge' = [edge EXCEPT ![t] =
       [e \in program.edges[t] |-> IF e[1] = 0 THEN fifo[t] ELSE edge[t][e]]]
  /\ fifo' = [fifo EXCEPT ![t] = Empty]
  /\ read_count' = [read_count EXCEPT ![t] = @ - 1]
  /\ pc' = [pc EXCEPT ![t] = AfterCase(t)]
  /\ UNCHANGED <<design, dest, sent, from, received, control_done, pending, sourceVars, sinkVars, calls>>

\* The default case, do_control, when no source is ready.  Repeating it with
\* nothing pending changes nothing.
DoControl(t) ==
  /\ pc[t] = "select"
  /\ \A a \in program.sources[t] : ~SourceReady(t, a)
  /\ pending[t] \/ ~control_done[t]
  /\ pending' = [pending EXCEPT ![t] = FALSE]
  /\ control_done' = [control_done EXCEPT ![t] = TRUE]
  /\ UNCHANGED <<design, pc, dest, sent, from, received, read_count, edge, fifo, sourceVars, sinkVars, calls>>

\* What a stage makes of the frames of its inputs.
Together(frames) == IF Cardinality(frames) = 1 THEN CHOOSE n \in frames : TRUE ELSE Mixed

\* The stages of thread t in order, each writing its output edges from what
\* its input edges hold by then.
Processed(t) ==
  LET stages == program.process[t]
      out[s \in DOMAIN stages] ==
        Together({IF i[1] \in DOMAIN stages THEN out[i[1]] ELSE edge[t][i] : i \in stages[s]})
  IN  [e \in program.edges[t] |-> IF e[1] \in DOMAIN stages THEN out[e[1]] ELSE edge[t][e]]

\* Control, if the round has not done it, and the process functions.
Process(t) ==
  /\ pc[t] = "process"
  /\ setup.quick_reads => ~ReadPossible
  /\ pending' = [pending EXCEPT ![t] = @ /\ control_done[t]]
  /\ control_done' = [control_done EXCEPT ![t] = FALSE]
  /\ edge' = [edge EXCEPT ![t] = Processed(t)]
  /\ pc' = [pc EXCEPT ![t] = "out"]
  /\ UNCHANGED <<design, dest, sent, from, received, read_count, fifo, sourceVars, sinkVars, calls>>

-----------------------------------------------------------------------------
(* The application *)

\* adsp_pipeline_sink is called.
CallSink ==
  /\ ~reading
  /\ Coupled => "sink" \in calls
  /\ setup.order = "source_first" => "source" \notin calls /\ done = -1
  /\ reading' = TRUE
  /\ data' = <<>>
  /\ due' = IF due < 0 THEN due + 1 ELSE NextFrame(due)
  /\ calls' = IF Coupled THEN calls \ {"sink"} ELSE calls
  /\ UNCHANGED <<design, threadVars, fifo, sourceVars>>

\* chan_in_buf_word in sink: the channel ends in the order of output_mux.
Sink(t) ==
  /\ SinkReady(t)
  /\ data' = Append(data, edge[t][Outgoing(t)])
  /\ reading' = (Len(data) + 1 < Len(program.mux))
  /\ read_count' = Reloaded(t)
  /\ SendNext(t, pc)
  /\ UNCHANGED <<design, from, received, control_done, edge, pending, fifo, sourceVars, due, calls>>

\* adsp_pipeline_source is called.
CallSource ==
  /\ done = -1
  /\ Coupled => "source" \in calls
  /\ setup.order = "sink_first" => "sink" \notin calls /\ ~reading
  /\ done' = 0
  /\ calls' = IF Coupled THEN calls \ {"source"} ELSE calls
  /\ UNCHANGED <<design, threadVars, fifo, frame, sinkVars>>

\* adsp_fifo_write_done of the next FIFO.  All FIFOs have been waited for by
\* write_start and written before the first one is done.
Source ==
  /\ done >= 0
  /\ done = 0 => \A t \in DOMAIN fifo : fifo[t] = Empty
  /\ fifo' = [fifo EXCEPT ![program.inputs[done + 1]] = frame]
  /\ IF done + 1 < Len(program.inputs)
     THEN done' = done + 1 /\ UNCHANGED frame
     ELSE done' = -1 /\ frame' = NextFrame(frame)
  /\ UNCHANGED <<design, threadVars, sinkVars, calls>>

\* The next frame period of an application that paces its calls.
NextPeriod ==
  /\ Coupled
  /\ calls = {} /\ done = -1 /\ ~reading
  /\ setup.on_time => Quiet
  /\ calls' = {"sink", "source"}
  /\ UNCHANGED <<design, threadVars, fifo, sourceVars, sinkVars>>

\* A control thread leaves a command with a stage of thread t.
Command(t) ==
  /\ ~pending[t]
  /\ pending' = [pending EXCEPT ![t] = TRUE]
  /\ UNCHANGED <<design, pc, dest, sent, from, received, read_count, control_done, edge,
                 fifo, sourceVars, sinkVars, calls>>

\* Anything thread t can do by itself or as the sender of a transaction.
ThreadStep(t) ==
  /\ t \in program.threads
  /\ \/ \E u \in program.threads : Transfer(t, u)
     \/ TakeInput(t) \/ DoControl(t) \/ Process(t) \/ Sink(t)

Next ==
  \/ \E t, u \in program.threads : Transfer(t, u)
  \/ \E t \in program.threads : TakeInput(t)
  \/ \E t \in program.threads : DoControl(t)
  \/ \E t \in program.threads : Process(t)
  \/ CallSink
  \/ \E t \in program.threads : Sink(t)
  \/ CallSource
  \/ Source
  \/ NextPeriod
  \/ \E t \in setup.commanded : Command(t)

Spec == Init /\ [][Next]_vars

\* The threads run, a call of the application that can go on goes on, and the
\* application never stops making calls.
FairSpec ==
  /\ Spec
  /\ \A t \in Threads : WF_vars(ThreadStep(t))
  /\ WF_vars(Source)
  /\ WF_vars(CallSink) /\ WF_vars(CallSource) /\ WF_vars(NextPeriod)

-----------------------------------------------------------------------------
TypeOK ==
  /\ pc \in [program.threads -> {"out", "select", "take", "process"}]
  /\ \A t \in program.threads :
       /\ dest[t] \in 1 .. Len(program.dests[t])
       /\ sent[t] \in 0 .. Len(program.link[t][program.dests[t][dest[t]]]) - 1
       /\ from[t] \in program.sources[t] \cup {PipelineIn}
       /\ received[t] < Cardinality(program.edges[t])
       /\ read_count[t] \in 0 .. Cardinality(program.sources[t])
       /\ edge[t] \in [program.edges[t] -> Frames \cup {Mixed}]
  /\ control_done \in [program.threads -> BOOLEAN]
  /\ pending \in [program.threads -> BOOLEAN]
  /\ fifo \in [ToSet(program.inputs) -> Frames \cup {Empty}]
  /\ frame \in Frames \ {0}
  /\ done \in -1 .. Len(program.inputs) - 1
  /\ Len(data) <= Len(program.mux)
  /\ reading => Len(data) < Len(program.mux)
  /\ due \in -delay .. NumFrames
  /\ calls \subseteq {"sink", "source"}

\* No stage ever processes inputs of different frames.
StageInputsAligned == \A t \in program.threads : \A e \in program.edges[t] : edge[t][e] # Mixed

\* Every sink call delivers, on every channel, the frame that went in as many
\* calls earlier as the outputs cross threads; zeros before the first.
LatencyIsCrossings ==
  \A i \in 1 .. Len(data) : data[i] = IF due < 0 THEN 0 ELSE due

\* In setup s all threads keep the frame period, and the hand-overs of a frame
\* can be made in some order.
InTime(s) ==
  s.on_time /\ s.quick_reads /\ MadeInOrder(s.design) /\ NoCircularWait(Generated(s.design))

\* A source or sink call returns, as long as the app goes on making both.
AppCallsReturn == (reading ~> ~reading) /\ (done >= 0 ~> done = -1)

\* A command is carried out, whatever the audio does.
ControlServed ==
  \A t \in Commanded : (t \in setup.commanded /\ pending[t]) ~> (t \in setup.commanded => ~pending[t])
=============================================================================
