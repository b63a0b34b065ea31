---------------------------- MODULE PipelineProofs ----------------------------
(***************************************************************************)
(* The design of a pipeline, and the pipeline at run time.                 *)
(*                                                                         *)
(* The design, for any number of threads: as long as no stage is placed    *)
(* with thread=, an edge's crossings count the delay of every path that    *)
(* leads to it, and the threads of an accepted design form no cycle.  The  *)
(* check compares numbers of threads and a stage passes on the crossings   *)
(* of one input.  That is enough because the threads of a path ascend: the *)
(* newest thread is among an edge's crossings exactly when the edge comes  *)
(* from it, so the set grows by one where the delay does.                  *)
(*                                                                         *)
(* The generator, for every design: both ends of a link list the same      *)
(* edges in one order, the sink receives the outputs of a thread together, *)
(* and where every thread reads from one other, the crossings count the    *)
(* threads of every path.                                                  *)
(*                                                                         *)
(* The generated threads, for any design in which every thread reads from  *)
(* one other: whatever the speed of threads and application, what a thread *)
(* holds is a matter of how often it has been round, of its depth and of   *)
(* nothing else.                                                           *)
(*                                                                         *)
(* And for any design made in the order of its threads, if they keep the   *)
(* frame period and the hand-overs of a frame do not wait for each other   *)
(* in a circle: a thread processes only when all have sent, so that of any *)
(* two threads neither is a frame ahead of the other, and nothing that one *)
(* has sent is lost among what another still receives.                     *)
(***************************************************************************)
EXTENDS ThreadCrossings, DspPipeline, FiniteSetTheorems, SequenceTheorems,
        WellFoundedInduction, TLAPS

-----------------------------------------------------------------------------
(* The design *)

\* An edge of a design built on threads 0 .. n: its crossings ascend to the
\* thread it comes from, and count its delay.
EdgeInv(e, n) ==
  /\ e \in EdgeKinds
  /\ e.crossings \subseteq 0 .. n
  /\ e.thread \in e.crossings \/ (e.thread = NoThread /\ e.crossings = {})
  /\ \A t \in e.crossings : t <= e.thread
  /\ e.delays = {Cardinality(e.crossings)}

EdgesInv == \A e \in edges : EdgeInv(e, current)
LinksAscend == \A l \in links : l[1] < l[2]
OutputsAgree == SameCrossings(outputs)

DesignInv == DesignTypeOK /\ EdgesInv /\ LinksAscend /\ OutputsAgree

-----------------------------------------------------------------------------
\* A set of threads is finite, and so is what one more thread makes of it.
LEMMA CrossingsFinite ==
  ASSUME NEW n \in Nat, NEW c \in SUBSET (0 .. n)
  PROVE  /\ IsFiniteSet(c)
         /\ Cardinality(c) \in Nat
  <1>1. IsFiniteSet(0 .. n)  BY FS_Interval
  <1> QED  BY <1>1, FS_Subset, FS_CardinalityType

\* An edge that enters the newest thread has one crossing more exactly when
\* it comes from another thread.
LEMMA EnteredCounts ==
  ASSUME NEW n \in Nat, NEW e, EdgeInv(e, n)
  PROVE  Cardinality(e.crossings \cup {n}) =
           Cardinality(e.crossings) + (IF e.thread = n THEN 0 ELSE 1)
  <1>1. IsFiniteSet(e.crossings)  BY CrossingsFinite DEF EdgeInv
  <1>2. n \in e.crossings <=> e.thread = n
    BY DEF EdgeInv, NoThread
  <1>3. Cardinality(e.crossings) \in Nat  BY CrossingsFinite DEF EdgeInv
  <1>4. Cardinality(e.crossings \cup {n}) =
          IF n \in e.crossings THEN Cardinality(e.crossings) ELSE Cardinality(e.crossings) + 1
    BY <1>1, FS_AddElement
  <1> QED  BY <1>2, <1>3, <1>4

\* What the newest thread makes of an edge: its delays and the frame gained
\* on entry are counted by the crossings that include the thread.
LEMMA EnteredCorrect ==
  ASSUME NEW n \in ThreadNumbers, NEW e, EdgeInv(e, n), NEW a, a = Entered(e, n)
  PROVE  /\ a.crossings \in SUBSET (0 .. n)
         /\ n \in a.crossings
         /\ Cardinality(a.crossings) \in Nat
         /\ {d + (IF a.thread = n THEN 0 ELSE 1) : d \in a.delays} =
              {Cardinality(a.crossings)}
  <1>1. n \in Nat  BY MaxThreadAssumption DEF ThreadNumbers
  <1>2. a.crossings = e.crossings \cup {n} /\ a.thread = e.thread /\ a.delays = e.delays
    BY DEF Entered, EdgeInv, EdgeKinds
  <1>3. a.crossings \in SUBSET (0 .. n)
    <2>1. e.crossings \subseteq 0 .. n  BY DEF EdgeInv
    <2> QED  BY <1>1, <1>2, <2>1
  <1>4. Cardinality(a.crossings) \in Nat
    BY <1>1, <1>3, CrossingsFinite
  <1>5. Cardinality(a.crossings) = Cardinality(e.crossings) + (IF a.thread = n THEN 0 ELSE 1)
    BY <1>1, <1>2, EnteredCounts
  <1>6. a.delays = {Cardinality(e.crossings)}
    BY <1>2 DEF EdgeInv
  <1>7. {d + (IF a.thread = n THEN 0 ELSE 1) : d \in a.delays} = {Cardinality(a.crossings)}
    BY <1>5, <1>6
  <1> QED  BY <1>2, <1>3, <1>4, <1>7

\* A stage on the newest thread makes an edge that the invariant admits,
\* whichever and however many inputs it has, and whichever comes first.
LEMMA CreateOutputCorrect ==
  ASSUME NEW n \in ThreadNumbers,
         NEW inputs, \A e \in inputs : EdgeInv(e, n),
         NEW arriving, arriving = {Entered(e, n) : e \in inputs},
         SameCrossings(arriving),
         NEW first \in arriving,
         NEW out, out = CreateOutput(first, arriving, n)
  PROVE  EdgeInv(out, n)
  <1> DEFINE Gained(e) == {d + (IF e.thread = n THEN 0 ELSE 1) : d \in e.delays}
  <1>1. n \in Nat  BY MaxThreadAssumption DEF ThreadNumbers
  <1>2. \A a \in arriving : /\ a.crossings \in SUBSET (0 .. n)
                            /\ n \in a.crossings
                            /\ Cardinality(a.crossings) \in Nat
                            /\ Gained(a) = {Cardinality(a.crossings)}
    <2> SUFFICES ASSUME NEW a \in arriving
                 PROVE  /\ a.crossings \in SUBSET (0 .. n)
                        /\ n \in a.crossings
                        /\ Cardinality(a.crossings) \in Nat
                        /\ Gained(a) = {Cardinality(a.crossings)}
      OBVIOUS
    <2>1. PICK e \in inputs : a = Entered(e, n)  OBVIOUS
    <2>2. EdgeInv(e, n)  OBVIOUS
    <2> QED  BY <2>1, <2>2, EnteredCorrect
  <1>3. \A a \in arriving : Cardinality(a.crossings) = Cardinality(first.crossings)
    BY DEF SameCrossings
  <1>4. out = [crossings |-> first.crossings, thread |-> n,
               delays |-> UNION {Gained(e) : e \in arriving}]
    BY DEF CreateOutput
  <1> HIDE DEF Gained
  <1>5. UNION {Gained(e) : e \in arriving} = {Cardinality(first.crossings)}
    BY <1>2, <1>3
  <1>6. /\ out.crossings = first.crossings
        /\ out.thread = n
        /\ out.delays = {Cardinality(out.crossings)}
    BY <1>4, <1>5
  <1>7. out.crossings \in SUBSET (0 .. n) /\ n \in out.crossings
    BY <1>2, <1>6
  <1>8. out.crossings \in SUBSET ThreadNumbers
    <2>1. 0 .. n \subseteq ThreadNumbers  BY MaxThreadAssumption DEF ThreadNumbers
    <2> QED  BY <1>7, <2>1
  <1>9. out \in EdgeKinds
    BY <1>2, <1>4, <1>5, <1>6, <1>8 DEF EdgeKinds
  <1>10. \A t \in out.crossings : t <= out.thread
    BY <1>1, <1>6, <1>7
  <1> QED  BY <1>6, <1>7, <1>9, <1>10 DEF EdgeInv

-----------------------------------------------------------------------------
\* The invariant holds initially.
LEMMA DesignInitInv == DesignInit => DesignInv
  <1> SUFFICES ASSUME DesignInit PROVE DesignInv
    OBVIOUS
  <1>1. PipelineInput \in EdgeKinds
    BY DEF PipelineInput, EdgeKinds
  <1>2. DesignTypeOK
    BY <1>1, MaxThreadAssumption DEF DesignInit, DesignTypeOK, ThreadNumbers
  <1>3. EdgesInv
    BY <1>1, FS_EmptySet DEF DesignInit, EdgesInv, EdgeInv, PipelineInput
  <1> QED  BY <1>2, <1>3 DEF DesignInv, DesignInit, LinksAscend, OutputsAgree, SameCrossings

\* Without placement, a stage with any set of inputs keeps the invariant.
LEMMA StageInv ==
  ASSUME ~Placement, DesignInv,
         NEW t \in ThreadNumbers, NEW inputs \in SUBSET edges, Stage(t, inputs)
  PROVE  DesignInv'
  <1> USE DEF DesignInv
  <1>1. t = current  BY DEF Stage
  <1>2. \A e \in inputs : EdgeInv(e, t)
    BY <1>1 DEF EdgesInv
  <1> DEFINE arriving == {Entered(e, t) : e \in inputs}
  <1>3. PICK first \in arriving : edges' = edges \cup {CreateOutput(first, arriving, t)}
    BY DEF Stage
  <1>4. SameCrossings(arriving)
    BY DEF Stage
  <1>5. EdgeInv(CreateOutput(first, arriving, t), t)
    BY <1>2, <1>4, CreateOutputCorrect
  <1>6. current' = current /\ outputs' = outputs
    BY DEF Stage
  <1>7. EdgesInv'
    BY <1>1, <1>3, <1>5, <1>6 DEF EdgesInv
  <1>8. \A l \in links' : /\ l \in (ThreadNumbers \cup {NoThread}) \X ThreadNumbers
                          /\ l[1] < l[2]
    <2> SUFFICES ASSUME NEW e \in inputs, e.thread # t
                 PROVE  /\ <<e.thread, t>> \in (ThreadNumbers \cup {NoThread}) \X ThreadNumbers
                        /\ e.thread < t
      BY DEF Stage, DesignTypeOK, LinksAscend
    <2>1. EdgeInv(e, t)  BY <1>2
    <2> QED  BY <2>1, MaxThreadAssumption DEF EdgeInv, EdgeKinds, NoThread, ThreadNumbers
  <1>9. DesignTypeOK'
    BY <1>3, <1>5, <1>6, <1>8 DEF DesignTypeOK, EdgeInv
  <1> QED  BY <1>6, <1>7, <1>8, <1>9 DEF LinksAscend, OutputsAgree

\* Without placement, every step keeps the invariant.
LEMMA DesignNextInv == ~Placement /\ DesignInv /\ [DesignNext]_designVars => DesignInv'
  <1> SUFFICES ASSUME ~Placement, DesignInv, [DesignNext]_designVars PROVE DesignInv'
    OBVIOUS
  <1>1. CASE NextThread
    <2>1. current' \in ThreadNumbers /\ current' = current + 1 /\ current \in Nat
      BY <1>1, MaxThreadAssumption DEF NextThread, DesignInv, DesignTypeOK, ThreadNumbers
    <2>2. \A e \in edges : EdgeInv(e, current')
      BY <2>1 DEF DesignInv, EdgesInv, EdgeInv
    <2> QED  BY <1>1, <2>1, <2>2 DEF NextThread, DesignInv, DesignTypeOK, EdgesInv, LinksAscend, OutputsAgree
  <1>2. ASSUME NEW t \in ThreadNumbers, NEW inputs \in SomeEdges, Stage(t, inputs)
        PROVE  DesignInv'
    <2>1. inputs \in SUBSET edges  BY DEF SomeEdges
    <2> QED  BY <1>2, <2>1, StageInv
  <1>3. ASSUME NEW d \in StageEdges, NEW e \in StageEdges, SetOutputs({d, e})
        PROVE  DesignInv'
    <2>1. {d, e} \subseteq edges  BY DEF StageEdges
    <2> QED  BY <1>3, <2>1 DEF SetOutputs, DesignInv, DesignTypeOK, EdgesInv, LinksAscend, OutputsAgree
  <1>4. CASE UNCHANGED designVars
    BY <1>4 DEF designVars, DesignInv, DesignTypeOK, EdgesInv, LinksAscend, OutputsAgree
  <1> QED  BY <1>1, <1>2, <1>3, <1>4 DEF DesignNext

\* The invariant implies the properties that the runs check.
LEMMA InvLatency == DesignInv => LatencyAgrees /\ OutputsAligned
  <1> SUFFICES ASSUME DesignInv PROVE LatencyAgrees /\ OutputsAligned
    OBVIOUS
  <1>1. LatencyAgrees  BY DEF DesignInv, EdgesInv, EdgeInv, LatencyAgrees
  <1>2. OutputsAligned
    <2> SUFFICES ASSUME NEW d \in outputs, NEW e \in outputs,
                        NEW m \in d.delays, NEW n \in e.delays
                 PROVE  m = n
      BY DEF OutputsAligned
    <2>1. d.delays = {Cardinality(d.crossings)} /\ e.delays = {Cardinality(e.crossings)}
      BY <1>1 DEF DesignInv, DesignTypeOK, LatencyAgrees
    <2>2. Cardinality(d.crossings) = Cardinality(e.crossings)
      BY DEF DesignInv, OutputsAgree, SameCrossings
    <2> QED  BY <2>1, <2>2
  <1> QED  BY <1>1, <1>2
\* Links that ascend form no cycle: the least thread of a group has no
\* input from the group.
LEMMA InvNoCycle == DesignInv => NoThreadCycle
  <1> SUFFICES ASSUME DesignInv, NEW group \in SUBSET ThreadNumbers, group # {}
               PROVE  \E t \in group : \A s \in group : <<s, t>> \notin links
    BY DEF NoThreadCycle
  <1> DEFINE LessThan == OpToRel(<, Nat)
  <1>1. group \subseteq Nat  BY MaxThreadAssumption DEF ThreadNumbers
  <1>2. IsWellFoundedOn(LessThan, Nat)  BY NatLessThanWellFounded
  <1>3. \A x, y \in Nat : x < y => <<x, y>> \in LessThan  BY DEF OpToRel
  <1> HIDE DEF LessThan
  <1>4. PICK t \in group : \A s \in group : <<s, t>> \notin LessThan
    BY <1>1, <1>2, WFMin
  <1>5. \A s \in group : <<s, t>> \notin links
    <2> SUFFICES ASSUME NEW s \in group, <<s, t>> \in links PROVE FALSE
      OBVIOUS
    <2>1. s < t  BY DEF DesignInv, LinksAscend
    <2> QED  BY <1>1, <1>3, <1>4, <2>1
  <1> QED  BY <1>5

\* Types are kept in any design, with or without thread=: no call gives an edge a
\* thread or a crossing that the design does not have.
THEOREM TypeCorrect == DesignSpec => []DesignTypeOK
  <1>1. DesignInit => DesignTypeOK
    BY MaxThreadAssumption DEF DesignInit, DesignTypeOK, ThreadNumbers, PipelineInput, EdgeKinds
  <1>2. DesignTypeOK /\ [DesignNext]_designVars => DesignTypeOK'
    <2> SUFFICES ASSUME DesignTypeOK, [DesignNext]_designVars PROVE DesignTypeOK'
      OBVIOUS
    <2>1. CASE NextThread
      BY <2>1, MaxThreadAssumption DEF NextThread, DesignTypeOK, ThreadNumbers
    <2>2. ASSUME NEW t \in ThreadNumbers, NEW inputs \in SomeEdges, Stage(t, inputs)
          PROVE  DesignTypeOK'
      <3> DEFINE arriving == {Entered(e, t) : e \in inputs}
                 Gained(e) == {d + (IF e.thread = t THEN 0 ELSE 1) : d \in e.delays}
      <3>1. inputs \subseteq EdgeKinds
        BY DEF SomeEdges, DesignTypeOK
      <3>2. \A a \in arriving : a \in EdgeKinds
        BY <3>1 DEF Entered, EdgeKinds
      <3>3. PICK first \in arriving : edges' = edges \cup {CreateOutput(first, arriving, t)}
        BY <2>2 DEF Stage
      <3> HIDE DEF arriving
      <3>4. \A a \in arriving : Gained(a) \in SUBSET Nat
        BY <3>2 DEF EdgeKinds
      <3>5. CreateOutput(first, arriving, t) =
              [crossings |-> first.crossings, thread |-> t,
               delays |-> UNION {Gained(a) : a \in arriving}]
        BY DEF CreateOutput
      <3> HIDE DEF Gained
      <3>6. CreateOutput(first, arriving, t) \in EdgeKinds
        BY <3>2, <3>4, <3>5 DEF EdgeKinds
      <3>7. links' \subseteq (ThreadNumbers \cup {NoThread}) \X ThreadNumbers
        BY <2>2, <3>1 DEF Stage, DesignTypeOK, EdgeKinds
      <3> QED  BY <2>2, <3>3, <3>6, <3>7 DEF Stage, DesignTypeOK
    <2>3. ASSUME NEW d \in StageEdges, NEW e \in StageEdges, SetOutputs({d, e})
          PROVE  DesignTypeOK'
      BY <2>3 DEF StageEdges, SetOutputs, DesignTypeOK
    <2>4. CASE UNCHANGED designVars
      BY <2>4 DEF designVars, DesignTypeOK
    <2> QED  BY <2>1, <2>2, <2>3, <2>4 DEF DesignNext
  <1> QED  BY <1>1, <1>2, PTL DEF DesignSpec

\* In any design built with next_thread alone, on any number of threads, the
\* crossings that Stage.__init__ and set_outputs compare are the delays of every
\* path that leads to an edge.
THEOREM LatencyCorrect == ~Placement => (DesignSpec => []LatencyAgrees)
  <1> SUFFICES ASSUME ~Placement PROVE DesignSpec => []LatencyAgrees
    OBVIOUS
  <1>1. DesignInv /\ [DesignNext]_designVars => DesignInv'  BY DesignNextInv
  <1> QED  BY <1>1, DesignInitInv, InvLatency, PTL DEF DesignSpec

\* In any such design that set_outputs accepts, all the paths to all the outputs
\* are equally late.
THEOREM OutputsCorrect == ~Placement => (DesignSpec => []OutputsAligned)
  <1> SUFFICES ASSUME ~Placement PROVE DesignSpec => []OutputsAligned
    OBVIOUS
  <1>1. DesignInv /\ [DesignNext]_designVars => DesignInv'  BY DesignNextInv
  <1> QED  BY <1>1, DesignInitInv, InvLatency, PTL DEF DesignSpec

\* In any such design no thread waits, through its inputs, for itself.
THEOREM NoCycle == ~Placement => (DesignSpec => []NoThreadCycle)
  <1> SUFFICES ASSUME ~Placement PROVE DesignSpec => []NoThreadCycle
    OBVIOUS
  <1>1. DesignInv /\ [DesignNext]_designVars => DesignInv'  BY DesignNextInv
  <1> QED  BY <1>1, DesignInitInv, InvNoCycle, PTL DEF DesignSpec

-----------------------------------------------------------------------------
(* The pipeline at run time: frames *)

\* The frame that the n-th source call brings; 0 stands for what the edge
\* arrays held before.
Fr(n) == IF n <= 0 THEN 0 ELSE ((n - 1) % NumFrames) + 1

\* The remainder of the next number is the next remainder, or zero.
LEMMA ModNext ==
  ASSUME NEW m \in Nat, NEW d \in Nat \ {0}
  PROVE  /\ m % d \in 0 .. d - 1
         /\ (m + 1) % d = IF m % d = d - 1 THEN 0 ELSE (m % d) + 1
<1> DEFINE q == m \div d
           r == m % d
           s == (m + 1) \div d
           u == (m + 1) % d
<1>1. r \in 0 .. d - 1 /\ q \in Int /\ m = d * q + r
  OBVIOUS
<1>2. u \in 0 .. d - 1 /\ s \in Int /\ m + 1 = d * s + u
  OBVIOUS
<1> HIDE DEF q, r, s, u
<1>3. d * (s - q) = r + 1 - u
  BY <1>1, <1>2
<1>4. s - q = 0 \/ s - q = 1
  <2>1. CASE s - q >= 2
    <3>1. d * (s - q) = d * (s - q - 2) + 2 * d /\ d * (s - q - 2) >= 0
      BY <2>1, <1>1, <1>2
    <3> QED BY <3>1, <1>1, <1>2, <1>3
  <2>2. CASE s - q < 0
    <3>1. d * (s - q) = - d * (q - s - 1) - d /\ d * (q - s - 1) >= 0
      BY <2>2, <1>1, <1>2
    <3> QED BY <3>1, <1>1, <1>2, <1>3
  <2> QED BY <2>1, <2>2, <1>1, <1>2
<1>5. u = IF r = d - 1 THEN 0 ELSE r + 1
  <2>1. CASE s - q = 0
    BY <2>1, <1>1, <1>2, <1>3
  <2>2. CASE s - q = 1
    BY <2>2, <1>1, <1>2, <1>3
  <2> QED BY <1>4, <2>1, <2>2
<1> QED BY <1>1, <1>5 DEF r, u

\* Calls are numbered by frames, in turn.
LEMMA FrNext ==
  ASSUME NEW n \in Int
  PROVE  /\ Fr(n) \in Frames
         /\ n <= 0 => Fr(n) = 0
         /\ n > 0 => Fr(n) # 0
         /\ n >= 0 => NextFrame(Fr(n)) = Fr(n + 1)
<1>1. CASE n <= 0
  <2>1. Fr(n) = 0
    BY <1>1 DEF Fr
  <2>2. n = 0 => Fr(n + 1) = 1
    BY NumFramesAssumption, ModNext DEF Fr
  <2> QED BY <1>1, <2>1, <2>2, NumFramesAssumption DEF Frames, NextFrame
<1>2. CASE n > 0
  <2> DEFINE m == n - 1
  <2>1. m \in Nat /\ n = m + 1
    BY <1>2
  <2>2. Fr(n) = (m % NumFrames) + 1 /\ Fr(n + 1) = ((m + 1) % NumFrames) + 1
    BY <1>2, <2>1 DEF Fr
  <2>3. /\ m % NumFrames \in 0 .. NumFrames - 1
        /\ (m + 1) % NumFrames = IF m % NumFrames = NumFrames - 1 THEN 0 ELSE (m % NumFrames) + 1
    BY <2>1, NumFramesAssumption, ModNext
  <2> DEFINE r == m % NumFrames
             u == (m + 1) % NumFrames
  <2> HIDE DEF m, r, u
  <2> QED BY <1>2, <2>1, <2>2, <2>3, NumFramesAssumption DEF Frames, NextFrame, r, u
<1> QED BY <1>1, <1>2

-----------------------------------------------------------------------------
(* Finite sets in order *)

\* What is known of a sequence that is not empty.
LEMMA SeqFacts ==
  ASSUME NEW S, NEW s \in Seq(S), s # <<>>
  PROVE  /\ Len(s) \in Nat \ {0}
         /\ DOMAIN s = 1 .. Len(s)
         /\ \A i \in 1 .. Len(s) : s[i] \in S
  BY EmptySeq, LenProperties

\* A strict order of all members of S, and what comes before x in it.
OrderOf(S, R) ==
  /\ \A x \in S : <<x, x>> \notin R
  /\ \A x, y \in S : x # y => <<x, y>> \in R \/ <<y, x>> \in R
  /\ \A x, y, z \in S : <<x, y>> \in R /\ <<y, z>> \in R => <<x, z>> \in R
Below(S, R, x) == {y \in S : <<y, x>> \in R}

\* q lists the members of S in the order R, each once.
Lists(q, S, R) ==
  /\ q \in Seq(S)
  /\ Len(q) = Cardinality(S) /\ Len(q) \in Nat /\ DOMAIN q = 1 .. Len(q)
  /\ \A i, j \in 1 .. Len(q) : i < j => <<q[i], q[j]>> \in R
  /\ \A i, j \in 1 .. Len(q) : q[i] = q[j] => i = j
  /\ \A x \in S : \E i \in 1 .. Len(q) : q[i] = x
  /\ \A i \in 1 .. Len(q) : i = Cardinality(Below(S, R, q[i])) + 1

\* In a strict order a later member has more before it.
LEMMA BelowCounts ==
  ASSUME NEW S, IsFiniteSet(S), NEW R, OrderOf(S, R)
  PROVE  /\ \A x \in S : /\ IsFiniteSet(Below(S, R, x))
                         /\ Cardinality(Below(S, R, x)) \in 0 .. Cardinality(S) - 1
         /\ \A x, y \in S :
              <<x, y>> \in R => Cardinality(Below(S, R, x)) < Cardinality(Below(S, R, y))
<1> DEFINE n == Cardinality(S)
<1>1. n \in Nat
  BY FS_CardinalityType
<1>2. ASSUME NEW x \in S
      PROVE  IsFiniteSet(Below(S, R, x)) /\ Cardinality(Below(S, R, x)) \in 0 .. n - 1
  <2>1. Below(S, R, x) \in SUBSET (S \ {x})
    BY DEF OrderOf, Below
  <2>2. IsFiniteSet(S \ {x}) /\ Cardinality(S \ {x}) = n - 1
    BY FS_RemoveElement
  <2>3. IsFiniteSet(Below(S, R, x)) /\ Cardinality(Below(S, R, x)) <= n - 1
    BY <2>1, <2>2, FS_Subset
  <2> QED BY <1>1, <2>2, <2>3, FS_CardinalityType
<1>3. ASSUME NEW x \in S, NEW y \in S, <<x, y>> \in R
      PROVE  Cardinality(Below(S, R, x)) < Cardinality(Below(S, R, y))
  <2>1. Below(S, R, x) \cup {x} \in SUBSET Below(S, R, y) /\ x \notin Below(S, R, x)
    BY <1>3 DEF OrderOf, Below
  <2>2. Cardinality(Below(S, R, x) \cup {x}) = Cardinality(Below(S, R, x)) + 1
    BY <1>2, <2>1, FS_AddElement
  <2>3. Cardinality(Below(S, R, x) \cup {x}) <= Cardinality(Below(S, R, y))
    BY <1>2, <2>1, FS_Subset
  <2>4. Cardinality(Below(S, R, x)) \in Int /\ Cardinality(Below(S, R, y)) \in Int
    BY <1>1, <1>2
  <2> QED BY <2>2, <2>3, <2>4
<1> QED BY <1>2, <1>3

\* InOrder lists a finite set.
LEMMA InOrderLists ==
  ASSUME NEW S, IsFiniteSet(S), NEW R, OrderOf(S, R)
  PROVE  Lists(InOrder(S, R), S, R)
<1> DEFINE n == Cardinality(S)
           rank == [x \in S |-> Cardinality(Below(S, R, x))]
           q == InOrder(S, R)
<1>1. n \in Nat
  BY FS_CardinalityType
<1>2. rank \in [S -> 0 .. n - 1] /\ \A x \in S : rank[x] = Cardinality(Below(S, R, x))
  BY BelowCounts
<1>3. \A x \in S : rank[x] \in Int
  BY <1>1, <1>2
<1>4. q = [i \in 1 .. n |-> CHOOSE x \in S : Cardinality(Below(S, R, x)) = i - 1]
  BY DEF InOrder, Below
<1> HIDE DEF rank, q
<1>5. \A x, y \in S : rank[x] = rank[y] => x = y
  <2> SUFFICES ASSUME NEW x \in S, NEW y \in S, rank[x] = rank[y], x # y PROVE FALSE
    OBVIOUS
  <2>1. <<x, y>> \in R \/ <<y, x>> \in R
    BY DEF OrderOf
  <2>2. rank[x] < rank[y] \/ rank[y] < rank[x]
    BY <1>2, <2>1, BelowCounts
  <2> QED BY <1>3, <2>2
<1>6. \A i \in 0 .. n - 1 : \E x \in S : rank[x] = i
  <2>1. IsFiniteSet(0 .. n - 1) /\ Cardinality(0 .. n - 1) = n
    BY <1>1, FS_Interval
  <2>2. rank \in Injection(S, 0 .. n - 1)
    BY <1>2, <1>5 DEF Injection, IsInjective
  <2>3. rank \in Surjection(S, 0 .. n - 1)
    BY <2>1, <2>2, FS_Injection
  <2> QED BY <2>3 DEF Surjection
<1>7. ASSUME NEW i \in 1 .. n
      PROVE  q[i] \in S /\ Cardinality(Below(S, R, q[i])) = i - 1
  <2>1. PICK x \in S : rank[x] = i - 1
    BY <1>1, <1>6
  <2>2. \E y \in S : Cardinality(Below(S, R, y)) = i - 1
    BY <1>2, <2>1
  <2> QED BY <1>4, <2>2
<1>8. q \in Seq(S) /\ Len(q) = n /\ DOMAIN q = 1 .. n
  <2>1. q \in [1 .. n -> S]
    BY <1>4, <1>7
  <2> QED BY <1>1, <2>1
<1>9. \A i, j \in 1 .. n : q[i] = q[j] => i = j
  BY <1>1, <1>7
<1>10. ASSUME NEW x \in S PROVE \E i \in 1 .. n : q[i] = x
  <2>1. rank[x] + 1 \in 1 .. n /\ rank[x] \in Int
    BY <1>1, <1>2
  <2>2. q[rank[x] + 1] \in S /\ rank[q[rank[x] + 1]] = rank[x]
    BY <1>2, <1>7, <2>1
  <2> QED BY <1>5, <2>1, <2>2
<1>11. ASSUME NEW i \in 1 .. n, NEW j \in 1 .. n, i < j
       PROVE  <<q[i], q[j]>> \in R
  <2>1. q[i] # q[j] /\ i \in Int /\ j \in Int
    BY <1>1, <1>9, <1>11
  <2>2. <<q[i], q[j]>> \in R \/ <<q[j], q[i]>> \in R
    BY <1>7, <2>1 DEF OrderOf
  <2>3. <<q[j], q[i]>> \in R => j - 1 < i - 1
    BY <1>7, BelowCounts
  <2> QED BY <1>11, <2>1, <2>2, <2>3
<1>12. \A i \in 1 .. n : i = Cardinality(Below(S, R, q[i])) + 1
  BY <1>1, <1>7
<1> QED BY <1>1, <1>7, <1>8, <1>9, <1>10, <1>11, <1>12 DEF Lists, q

\* The image of a finite set.
LEMMA ImageFinite ==
  ASSUME NEW S, IsFiniteSet(S), NEW f, DOMAIN f = S
  PROVE  IsFiniteSet({f[x] : x \in S})
<1>1. [x \in S |-> f[x]] \in Surjection(S, {f[x] : x \in S})
  BY DEF Surjection
<1> QED BY <1>1, FS_Surjection

\* Members that all come after L and before the others stand together.
LEMMA BlockOfList ==
  ASSUME NEW S, IsFiniteSet(S), NEW R, OrderOf(S, R), NEW q, Lists(q, S, R),
         NEW L \in SUBSET S, NEW B \in SUBSET S, L \cap B = {}, B # {},
         \A x \in L : \A y \in S \ L : <<x, y>> \in R,
         \A x \in B : \A y \in S \ (L \cup B) : <<x, y>> \in R
  PROVE  LET f == Cardinality(L) + 1
         IN  /\ f \in DOMAIN q /\ f + Cardinality(B) - 1 \in DOMAIN q
             /\ \A i \in DOMAIN q : q[i] \in B <=> i \in f .. f + Cardinality(B) - 1
<1> DEFINE l == Cardinality(L)
           b == Cardinality(B)
           n == Cardinality(S)
<1>1. IsFiniteSet(L) /\ IsFiniteSet(B) /\ l \in Nat /\ b \in Nat /\ n \in Nat
  BY FS_Subset, FS_CardinalityType
<1>2. IsFiniteSet(L \cup B) /\ Cardinality(L \cup B) = l + b
  <2>1. IsFiniteSet(L \cup B) /\ Cardinality(L \cup B) = l + b - Cardinality(L \cap B)
    BY <1>1, FS_Union
  <2>2. Cardinality(L \cap B) = 0
    BY FS_EmptySet
  <2> HIDE DEF l, b
  <2> QED BY <1>1, <2>1, <2>2
<1>3. l + b <= n
  BY <1>2, FS_Subset
<1>4. b # 0
  BY <1>1, FS_EmptySet
<1>5. /\ q \in Seq(S) /\ Len(q) = n /\ DOMAIN q = 1 .. n
      /\ \A i \in 1 .. n : i = Cardinality(Below(S, R, q[i])) + 1
  BY DEF Lists
<1>6. ASSUME NEW x \in S
      PROVE  /\ IsFiniteSet(Below(S, R, x)) /\ Cardinality(Below(S, R, x)) \in Nat
             /\ x \in L => Cardinality(Below(S, R, x)) < l
             /\ x \in B => Cardinality(Below(S, R, x)) \in l .. l + b - 1
             /\ x \notin L \cup B => Cardinality(Below(S, R, x)) >= l + b
  <2> DEFINE W == Below(S, R, x)
  <2>1. IsFiniteSet(W) /\ Cardinality(W) \in Nat
    BY BelowCounts, FS_CardinalityType
  <2>2. x \notin W /\ \A y \in S : y \in W <=> <<y, x>> \in R
    BY DEF OrderOf, Below
  <2>3. W \subseteq S /\ \A y \in W : <<x, y>> \notin R
    BY DEF OrderOf, Below
  <2> HIDE DEF W
  <2>4. x \in L => Cardinality(W) < l
    <3> SUFFICES ASSUME x \in L PROVE Cardinality(W) < l
      OBVIOUS
    <3>1. W \in SUBSET (L \ {x})
      BY <2>2, <2>3
    <3>2. IsFiniteSet(L \ {x}) /\ Cardinality(L \ {x}) = l - 1
      BY <1>1, FS_RemoveElement
    <3>3. Cardinality(W) <= l - 1
      BY <3>1, <3>2, FS_Subset
    <3> QED BY <1>1, <2>1, <3>3
  <2>5. x \in B => Cardinality(W) \in l .. l + b - 1
    <3> SUFFICES ASSUME x \in B PROVE Cardinality(W) \in l .. l + b - 1
      OBVIOUS
    <3>1. L \in SUBSET W
      BY <2>2
    <3>2. W \in SUBSET ((L \cup B) \ {x})
      BY <2>2, <2>3
    <3>3. IsFiniteSet((L \cup B) \ {x})
          /\ Cardinality((L \cup B) \ {x}) = Cardinality(L \cup B) - 1
      BY <1>2, FS_RemoveElement
    <3>4. l <= Cardinality(W)
      BY <2>1, <3>1, FS_Subset
    <3>5. Cardinality(W) <= Cardinality((L \cup B) \ {x})
      BY <3>2, <3>3, FS_Subset
    <3> HIDE DEF l, b
    <3> QED BY <1>1, <1>2, <2>1, <3>3, <3>4, <3>5
  <2>6. x \notin L \cup B => Cardinality(W) >= l + b
    <3> SUFFICES ASSUME x \notin L \cup B PROVE Cardinality(W) >= l + b
      OBVIOUS
    <3>1. L \cup B \in SUBSET W
      BY <2>2
    <3>2. l + b <= Cardinality(W)
      BY <1>2, <2>1, <3>1, FS_Subset
    <3> QED BY <1>1, <2>1, <3>2
  <2> QED BY <2>1, <2>4, <2>5, <2>6 DEF W
<1>7. ASSUME NEW i \in 1 .. n
      PROVE  q[i] \in B <=> i \in l + 1 .. l + b
  <2>1. q[i] \in S /\ i = Cardinality(Below(S, R, q[i])) + 1
    BY <1>5, ElementOfSeq
  <2> DEFINE k == Cardinality(Below(S, R, q[i]))
  <2>2. /\ k \in Nat
        /\ q[i] \in L => k < l
        /\ q[i] \in B => k \in l .. l + b - 1
        /\ q[i] \notin L \cup B => k >= l + b
    BY <1>6, <2>1
  <2> HIDE DEF k
  <2>3. i = k + 1
    BY <2>1 DEF k
  <2> QED BY <1>1, <2>2, <2>3
<1> HIDE DEF l, b, n
<1>8. l + 1 \in 1 .. n /\ l + 1 + b - 1 \in 1 .. n /\ l + 1 + b - 1 = l + b
  BY <1>1, <1>3, <1>4
<1> QED BY <1>5, <1>7, <1>8 DEF l, b

\* A set of numbers has a least one.
LEMMA LeastOf ==
  ASSUME NEW T \in SUBSET Nat, T # {}
  PROVE  \E x \in T : \A y \in T : x <= y
<1> DEFINE LessThan == OpToRel(<, Nat)
<1>1. \A x, y \in Nat : <<x, y>> \in LessThan <=> x < y
  BY DEF OpToRel
<1>2. IsWellFoundedOn(LessThan, Nat)
  BY NatLessThanWellFounded
<1> HIDE DEF LessThan
<1>3. PICK x \in T : \A y \in T : ~ (<<y, x>> \in LessThan)
  BY <1>2, WFMin
<1>4. \A y \in T : y \in Nat /\ x \in Nat /\ ~ (y < x)
  BY <1>1, <1>3
<1>5. \A y \in T : x <= y
  BY <1>4
<1> QED BY <1>5

-----------------------------------------------------------------------------
(* What the generated source of every design agrees on *)

\* The edges that a stage of thread t writes, and those that it receives.
Own(p, t) == {e \in p.edges[t] : e[1] \in DOMAIN p.process[t]}
Incoming(p, t) == p.edges[t] \ Own(p, t)

\* The threads that a thread's audio has entered, itself included.
Depth(d, t) == Cardinality(StageCrossings(d)[CHOOSE s \in StageIds(d) : d.stages[s].thread = t])

\* Both ends of a link list the same edges, and no edge twice.
LinksAgree(p) ==
  \A t \in p.threads :
    /\ t \in Nat
    /\ p.dests[t] \in Seq(p.threads \cup {PipelineOut})
    /\ p.dests[t] # <<>> /\ IsInjective(p.dests[t])
    /\ \A b \in ToSet(p.dests[t]) :
         /\ b = PipelineOut \/ (b # t /\ t \in p.sources[b])
         /\ p.link[t][b] \in Seq(Own(p, t))
         /\ p.link[t][b] # <<>> /\ IsInjective(p.link[t][b])
    /\ \A a \in p.sources[t] :
         IF a = PipelineIn THEN \A e \in Incoming(p, t) : p.sources[t] = {a} => e[1] = 0
         ELSE /\ a \in p.threads /\ t \in ToSet(p.dests[a])
              /\ ToSet(p.link[a][t]) \subseteq Incoming(p, t)
              /\ p.sources[t] = {a} => ToSet(p.link[a][t]) = Incoming(p, t)

\* A stage comes after those of its thread that it has its inputs from.
StagesInOrder(p) ==
  \A t \in p.threads :
    /\ DOMAIN p.process[t] \subseteq Nat \ {0}
    /\ \A s \in DOMAIN p.process[t] :
         /\ p.process[t][s] # {} /\ p.process[t][s] \subseteq p.edges[t]
         /\ \A i \in p.process[t][s] : i[1] \in DOMAIN p.process[t] => i[1] < s

\* Every thread that reads the pipeline's inputs has one FIFO, and the sink
\* receives the outputs of a thread together, in the order they are sent in.
EndsAgree(p) ==
  /\ p.inputs \in Seq(p.threads) /\ p.inputs # <<>> /\ IsInjective(p.inputs)
  /\ ToSet(p.inputs) = {t \in p.threads : PipelineIn \in p.sources[t]}
  /\ Len(p.mux) \in Nat \ {0} /\ DOMAIN p.mux = 1 .. Len(p.mux)
  /\ \A i \in DOMAIN p.mux : p.mux[i].thread \in p.threads /\ PipelineOut \in ToSet(p.dests[p.mux[i].thread])
  /\ \A t \in p.threads :
       PipelineOut \in ToSet(p.dests[t]) =>
         \E f \in DOMAIN p.mux :
           /\ f + Len(p.link[t][PipelineOut]) - 1 \in DOMAIN p.mux
           /\ \A i \in DOMAIN p.mux :
                p.mux[i].thread = t <=> i \in f .. f + Len(p.link[t][PipelineOut]) - 1

\* In a design of threads with one source each, the crossings count them.
DepthsCount(d) ==
  LET p == Generated(d)
  IN  /\ \A t \in p.threads : Depth(d, t) \in Nat
      /\ OutputCrossings(d) \in Nat
      /\ \A t \in p.threads : \A a \in p.sources[t] :
           Depth(d, t) = IF a = PipelineIn THEN 1 ELSE Depth(d, a) + 1
      /\ \A i \in DOMAIN p.mux : Depth(d, p.mux[i].thread) = OutputCrossings(d)

WellGenerated(d) ==
  LET p == Generated(d)
  IN  LinksAgree(p) /\ StagesInOrder(p) /\ EndsAgree(p) /\ (OneSource(d) => DepthsCount(d))

\* The edges of a design: the s-th stage's outputs, those of stage 0 the
\* pipeline's inputs.
LEMMA EdgeFacts ==
  ASSUME NEW d, IsDesign(d)
  PROVE  /\ Len(d.stages) \in Nat \ {0}
         /\ \A e \in Edges(d) : /\ e = <<e[1], e[2]>> /\ e[1] \in 0 .. Len(d.stages) /\ e[2] \in Nat
                                /\ SourceThread(d, e) \in Nat \cup {PipelineIn}
                                /\ SourceThread(d, e) = PipelineIn <=> e[1] = 0
                                /\ e[1] # 0 => /\ e[1] \in StageIds(d)
                                               /\ SourceThread(d, e) = d.stages[e[1]].thread
                                               /\ SourceThread(d, e) \in ThreadIds(d)
         /\ IsFiniteSet(Edges(d))
         /\ \A s \in StageIds(d) : d.stages[s].thread \in Nat
<1> DEFINE N == Len(d.stages)
           outs == [s \in 0 .. N |-> {s} \X (1 .. OutsOf(d, s))]
<1>1. /\ d.inputs \in Nat
      /\ d.stages \in Seq([thread : Nat, inputs : Seq(Nat \X Nat), outs : Nat])
      /\ d.outputs \in Seq(Edges(d)) /\ d.outputs # <<>>
      /\ \A e \in ToSet(d.outputs) : e[1] # 0
  BY DEF IsDesign
<1>2. N \in Nat /\ \A s \in 1 .. N : d.stages[s] \in [thread : Nat, inputs : Seq(Nat \X Nat), outs : Nat]
  BY <1>1, LenProperties, ElementOfSeq
<1>3. \A s \in 0 .. N : OutsOf(d, s) \in Nat
  BY <1>1, <1>2 DEF OutsOf
<1>4. \A s \in StageIds(d) : d.stages[s].thread \in Nat
  BY <1>2 DEF StageIds
<1>5. ASSUME NEW e \in Edges(d)
      PROVE  e = <<e[1], e[2]>> /\ e[1] \in 0 .. N /\ e[2] \in Nat
  BY <1>3 DEF Edges
<1>6. N # 0
  <2>1. 1 \in DOMAIN d.outputs /\ d.outputs[1] \in ToSet(d.outputs) /\ d.outputs[1] \in Edges(d)
    BY <1>1, SeqFacts DEF ToSet
  <2> QED BY <1>1, <1>5, <2>1
<1>7. IsFiniteSet(Edges(d))
  <2>1. IsFiniteSet(0 .. N)
    BY <1>2, FS_Interval
  <2>2. outs \in Surjection(0 .. N, {{s} \X (1 .. OutsOf(d, s)) : s \in 0 .. N})
    BY DEF Surjection
  <2>3. IsFiniteSet({{s} \X (1 .. OutsOf(d, s)) : s \in 0 .. N})
    BY <2>1, <2>2, FS_Surjection
  <2>4. ASSUME NEW s \in 0 .. N PROVE IsFiniteSet({s} \X (1 .. OutsOf(d, s)))
    <3>1. IsFiniteSet({s})
      BY FS_Singleton
    <3>2. OutsOf(d, s) \in Int /\ 1 \in Int
      BY <1>3
    <3>3. IsFiniteSet(1 .. OutsOf(d, s))
      BY <3>2, FS_Interval
    <3> QED BY <3>1, <3>3, FS_Product
  <2>5. \A T \in {{s} \X (1 .. OutsOf(d, s)) : s \in 0 .. N} : IsFiniteSet(T)
    BY <2>4
  <2> QED BY <2>3, <2>5, FS_UNION DEF Edges
<1>8. ASSUME NEW e \in Edges(d)
      PROVE  /\ SourceThread(d, e) \in Nat \cup {PipelineIn}
             /\ SourceThread(d, e) = PipelineIn <=> e[1] = 0
             /\ e[1] # 0 => /\ e[1] \in StageIds(d)
                            /\ SourceThread(d, e) = d.stages[e[1]].thread
                            /\ SourceThread(d, e) \in ThreadIds(d)
  <2>1. e[1] \in 0 .. N
    BY <1>5
  <2>2. e[1] # 0 => e[1] \in StageIds(d)
    BY <1>2, <2>1 DEF StageIds
  <2> QED BY <1>4, <2>2 DEF SourceThread, PipelineIn, ThreadIds
<1> QED BY <1>2, <1>4, <1>5, <1>6, <1>7, <1>8

\* Where an edge leads.
LEMMA DestFacts ==
  ASSUME NEW d, IsDesign(d), NEW e \in Edges(d)
  PROVE  /\ \A s \in StageIds(d) : e \in ToSet(d.stages[s].inputs) =>
              DestThread(d, e) = d.stages[s].thread /\ e[1] < s
         /\ e \in ToSet(d.outputs) => DestThread(d, e) = PipelineOut
         /\ DestThread(d, e) = PipelineOut => e \in ToSet(d.outputs)
         /\ DestThread(d, e) \in ThreadIds(d) \cup {PipelineOut, Nowhere}
         /\ DestThread(d, e) \in ThreadIds(d) =>
              \E s \in StageIds(d) : e \in ToSet(d.stages[s].inputs) /\ d.stages[s].thread = DestThread(d, e)
<1> DEFINE takes(s) == e \in ToSet(d.stages[s].inputs)
<1>1. \A s \in StageIds(d) : takes(s) => e[1] < s /\ e \notin ToSet(d.outputs)
  BY DEF IsDesign
<1>2. \A s, r \in StageIds(d) : takes(s) /\ takes(r) => s = r
  BY DEF IsDesign
<1>3. \A s \in StageIds(d) : d.stages[s].thread \in Nat /\ d.stages[s].thread \in ThreadIds(d)
  BY EdgeFacts DEF ThreadIds
<1>4. ThreadIds(d) \subseteq Nat
  BY EdgeFacts DEF ThreadIds
<1>5. CASE \E s \in StageIds(d) : takes(s)
  <2>1. PICK s \in StageIds(d) : takes(s)
    BY <1>5
  <2>2. (CHOOSE r \in StageIds(d) : takes(r)) = s
    BY <1>2, <2>1
  <2>3. DestThread(d, e) = d.stages[s].thread
    BY <2>1, <2>2 DEF DestThread
  <2> QED BY <1>1, <1>2, <1>3, <2>1, <2>3 DEF PipelineOut
<1>6. CASE ~ \E s \in StageIds(d) : takes(s)
  <2>1. DestThread(d, e) = IF e \in ToSet(d.outputs) THEN PipelineOut ELSE Nowhere
    BY <1>6 DEF DestThread
  <2> QED BY <1>4, <1>6, <2>1 DEF PipelineOut, Nowhere
<1> QED BY <1>5, <1>6

\* The order of Graph.edges is one.
LEMMA EdgesListed ==
  ASSUME NEW d, IsDesign(d), NEW S \in SUBSET Edges(d)
  PROVE  /\ IsFiniteSet(S)
         /\ Lists(EdgesInOrder(S), S, {p \in S \X S : Earlier(p[1], p[2])})
<1> DEFINE R == {p \in S \X S : Earlier(p[1], p[2])}
<1>1. IsFiniteSet(S)
  BY EdgeFacts, FS_Subset
<1>2. \A x \in S : x = <<x[1], x[2]>> /\ x[1] \in Int /\ x[2] \in Int
  BY EdgeFacts
<1>3. \A x, y \in S : <<x, y>> \in R <=> Earlier(x, y)
  OBVIOUS
<1> HIDE DEF R
<1>4. OrderOf(S, R)
  <2>1. \A x \in S : <<x, x>> \notin R
    BY <1>2, <1>3 DEF Earlier
  <2>2. \A x, y \in S : x # y => <<x, y>> \in R \/ <<y, x>> \in R
    BY <1>2, <1>3 DEF Earlier
  <2>3. \A x, y, z \in S : <<x, y>> \in R /\ <<y, z>> \in R => <<x, z>> \in R
    BY <1>2, <1>3 DEF Earlier
  <2> QED BY <2>1, <2>2, <2>3 DEF OrderOf
<1>5. EdgesInOrder(S) = InOrder(S, R)
  BY DEF EdgesInOrder, R
<1> QED BY <1>1, <1>4, <1>5, InOrderLists DEF R

\* The edges that thread a passes to b.
Between(d, a, b) == {e \in Edges(d) : SourceThread(d, e) = a /\ DestThread(d, e) = b}

LEMMA BetweenFacts ==
  ASSUME NEW d, IsDesign(d), NEW a, NEW b
  PROVE  /\ EdgesBetween(d, a, b) \in Seq(Between(d, a, b))
         /\ IsInjective(EdgesBetween(d, a, b))
         /\ ToSet(EdgesBetween(d, a, b)) = Between(d, a, b)
         /\ IsFiniteSet(Between(d, a, b))
         /\ Len(EdgesBetween(d, a, b)) = Cardinality(Between(d, a, b))
         /\ Between(d, a, b) # {} =>
              EdgesBetween(d, a, b) # <<>> /\ EdgesBetween(d, a, b)[1] \in Between(d, a, b)
<1> DEFINE S == Between(d, a, b)
           R == {p \in S \X S : Earlier(p[1], p[2])}
           q == EdgesBetween(d, a, b)
<1>1. S \in SUBSET Edges(d)
  BY DEF Between
<1>2. IsFiniteSet(S) /\ Lists(EdgesInOrder(S), S, R)
  BY <1>1, EdgesListed
<1>3. q = EdgesInOrder(S)
  BY DEF EdgesBetween, Between
<1> HIDE DEF S, q, R
<1>4. /\ q \in Seq(S) /\ DOMAIN q = 1 .. Len(q) /\ Len(q) \in Nat /\ Len(q) = Cardinality(S)
      /\ \A i, j \in 1 .. Len(q) : q[i] = q[j] => i = j
      /\ \A x \in S : \E i \in 1 .. Len(q) : q[i] = x
  BY <1>2, <1>3 DEF Lists
<1>5. \A i \in 1 .. Len(q) : q[i] \in S
  BY <1>4, ElementOfSeq
<1>6. IsInjective(q)
  BY <1>4 DEF IsInjective
<1>7. ToSet(q) = S
  BY <1>4, <1>5 DEF ToSet
<1>8. S # {} => q # <<>> /\ q[1] \in S
  <2>1. S # {} => \E i \in 1 .. Len(q) : TRUE
    BY <1>4
  <2>2. S # {} => Len(q) # 0 /\ 1 \in 1 .. Len(q)
    BY <1>4, <2>1
  <2> QED BY <2>2, <1>5, EmptySeq
<1> QED BY <1>2, <1>4, <1>6, <1>7, <1>8 DEF S, q

\* Where a thread sends, in the order of the first edge to each.
Leads(d, t) == {DestThread(d, e) : e \in {f \in Edges(d) : SourceThread(d, f) = t}} \ {t, Nowhere}

LEMMA DestsFacts ==
  ASSUME NEW d, IsDesign(d), NEW t \in ThreadIds(d)
  PROVE  /\ Leads(d, t) \subseteq ThreadIds(d) \cup {PipelineOut} /\ Leads(d, t) # {}
         /\ Dests(d, t) \in Seq(ThreadIds(d) \cup {PipelineOut})
         /\ Dests(d, t) # <<>> /\ IsInjective(Dests(d, t))
         /\ ToSet(Dests(d, t)) = Leads(d, t)
<1> DEFINE out == {f \in Edges(d) : SourceThread(d, f) = t}
           leads == [e \in out |-> DestThread(d, e)]
           to == {DestThread(d, e) : e \in out} \ {t, Nowhere}
           first(b) == EdgesBetween(d, t, b)[1]
           R == {p \in to \X to : Earlier(first(p[1]), first(p[2]))}
           q == Dests(d, t)
<1>1. IsFiniteSet(to)
  <2>1. IsFiniteSet(out)
    BY EdgeFacts, FS_Subset
  <2>2. IsFiniteSet({leads[e] : e \in out})
    BY <2>1, ImageFinite
  <2>3. to \in SUBSET {leads[e] : e \in out}
    OBVIOUS
  <2> QED BY <2>2, <2>3, FS_Subset
<1>2. to # {}
  <2>1. PICK e \in Edges(d) : SourceThread(d, e) = t /\ DestThread(d, e) \notin {t, Nowhere}
    BY DEF IsDesign
  <2> QED BY <2>1
<1>3. \A b \in to : first(b) \in Edges(d) /\ DestThread(d, first(b)) = b
  <2> SUFFICES ASSUME NEW b \in to PROVE first(b) \in Edges(d) /\ DestThread(d, first(b)) = b
    OBVIOUS
  <2>1. Between(d, t, b) # {}
    BY DEF Between
  <2>2. first(b) \in Between(d, t, b)
    BY <2>1, BetweenFacts
  <2> QED BY <2>2 DEF Between
<1>4. to \subseteq ThreadIds(d) \cup {PipelineOut}
  BY DestFacts
<1>5. OrderOf(to, R)
  <2> HIDE DEF to, first
  <2>1. \A b \in to : first(b) = <<first(b)[1], first(b)[2]>> /\ first(b)[1] \in Int /\ first(b)[2] \in Int
    BY <1>3, EdgeFacts
  <2>2. \A b, c \in to : b # c => first(b) # first(c)
    BY <1>3
  <2>3. \A b, c \in to : <<b, c>> \in R <=> Earlier(first(b), first(c))
    OBVIOUS
  <2> HIDE DEF R
  <2>4. \A b \in to : <<b, b>> \notin R
    BY <2>1, <2>3 DEF Earlier
  <2>5. \A b, c \in to : b # c => <<b, c>> \in R \/ <<c, b>> \in R
    BY <2>1, <2>2, <2>3 DEF Earlier
  <2>6. \A b, c, x \in to : <<b, c>> \in R /\ <<c, x>> \in R => <<b, x>> \in R
    BY <2>1, <2>3 DEF Earlier
  <2> QED BY <2>4, <2>5, <2>6 DEF OrderOf
<1>6. q = InOrder(to, R)
  BY DEF Dests
<1> HIDE DEF to, R, q
<1>7. Lists(q, to, R)
  BY <1>1, <1>5, <1>6, InOrderLists
<1>8. /\ q \in Seq(to) /\ DOMAIN q = 1 .. Len(q) /\ Len(q) \in Nat
      /\ \A i, j \in 1 .. Len(q) : q[i] = q[j] => i = j
      /\ \A x \in to : \E i \in 1 .. Len(q) : q[i] = x
  BY <1>7 DEF Lists
<1>9. \A i \in 1 .. Len(q) : q[i] \in to
  BY <1>8, ElementOfSeq
<1>10. ToSet(q) = to /\ IsInjective(q) /\ q # <<>>
  <2>1. ToSet(q) = to
    BY <1>8, <1>9 DEF ToSet
  <2>2. IsInjective(q)
    BY <1>8 DEF IsInjective
  <2>3. q # <<>>
    BY <1>2, <2>1 DEF ToSet
  <2> QED BY <2>1, <2>2, <2>3
<1>11. q \in Seq(ThreadIds(d) \cup {PipelineOut})
  BY <1>4, <1>8
<1>12. to = Leads(d, t)
  BY DEF to, Leads
<1> QED BY <1>2, <1>4, <1>10, <1>11, <1>12 DEF q

\* The record that the generator makes, field by field.
LEMMA GeneratedFields ==
  ASSUME NEW d
  PROVE  LET p == Generated(d)
         IN  /\ p.threads = ThreadIds(d)
             /\ \A t \in ThreadIds(d) :
                  /\ p.dests[t] = Dests(d, t) /\ p.sources[t] = Sources(d, t)
                  /\ \A b \in ThreadIds(d) \cup {PipelineOut} : p.link[t][b] = EdgesBetween(d, t, b)
                  /\ p.edges[t] = {e \in Edges(d) : SourceThread(d, e) = t \/ DestThread(d, e) = t}
                  /\ DOMAIN p.process[t] = {r \in StageIds(d) : d.stages[r].thread = t}
                  /\ \A s \in DOMAIN p.process[t] : p.process[t][s] = ToSet(d.stages[s].inputs)
             /\ p.inputs = InputThreads(d) /\ p.mux = OutputMux(d)
  BY DEF Generated

\* The edges of a thread, by which end of them is in it.
LEMMA OwnFacts ==
  ASSUME NEW d, IsDesign(d), NEW t \in ThreadIds(d)
  PROVE  /\ Own(Generated(d), t) = {e \in Edges(d) : SourceThread(d, e) = t}
         /\ Incoming(Generated(d), t) =
              {e \in Edges(d) : DestThread(d, e) = t /\ SourceThread(d, e) # t}
<1> DEFINE p == Generated(d)
<1>1. /\ p.edges[t] = {e \in Edges(d) : SourceThread(d, e) = t \/ DestThread(d, e) = t}
      /\ DOMAIN p.process[t] = {r \in StageIds(d) : d.stages[r].thread = t}
  BY GeneratedFields
<1> HIDE DEF p
<1>2. t \in Nat
  BY EdgeFacts DEF ThreadIds
<1>3. \A e \in Edges(d) : e[1] \in DOMAIN p.process[t] <=> SourceThread(d, e) = t
  <2> TAKE e \in Edges(d)
  <2>1. CASE e[1] = 0
    BY <1>1, <1>2, <2>1 DEF StageIds, SourceThread, PipelineIn
  <2>2. CASE e[1] # 0
    BY <1>1, <2>2, EdgeFacts
  <2> QED BY <2>1, <2>2
<1>4. Own(p, t) = {e \in Edges(d) : SourceThread(d, e) = t}
  BY <1>1, <1>3 DEF Own
<1> QED BY <1>1, <1>4 DEF Incoming, p

\* Both ends of every link agree.
LEMMA LinksGenerated ==
  ASSUME NEW d, IsDesign(d)
  PROVE  LinksAgree(Generated(d))
<1> DEFINE p == Generated(d)
<1>0. /\ p.threads = ThreadIds(d)
      /\ \A t \in ThreadIds(d) : p.dests[t] = Dests(d, t) /\ p.sources[t] = Sources(d, t)
  BY GeneratedFields
<1> SUFFICES ASSUME NEW t \in ThreadIds(d)
             PROVE  /\ t \in Nat
                    /\ p.dests[t] \in Seq(ThreadIds(d) \cup {PipelineOut})
                    /\ p.dests[t] # <<>> /\ IsInjective(p.dests[t])
                    /\ \A b \in ToSet(p.dests[t]) :
                         /\ b = PipelineOut \/ (b # t /\ t \in p.sources[b])
                         /\ p.link[t][b] \in Seq(Own(p, t))
                         /\ p.link[t][b] # <<>> /\ IsInjective(p.link[t][b])
                    /\ \A a \in p.sources[t] :
                         IF a = PipelineIn
                         THEN \A e \in Incoming(p, t) : p.sources[t] = {a} => e[1] = 0
                         ELSE /\ a \in ThreadIds(d) /\ t \in ToSet(p.dests[a])
                              /\ ToSet(p.link[a][t]) \subseteq Incoming(p, t)
                              /\ p.sources[t] = {a} => ToSet(p.link[a][t]) = Incoming(p, t)
  <2> HIDE DEF p
  <2>1. LinksAgree(p)
    BY <1>0 DEF LinksAgree
  <2> QED BY <2>1 DEF p
<1> HIDE DEF p
<1>1. ThreadIds(d) \subseteq Nat
  BY EdgeFacts DEF ThreadIds
<1>2. \A u \in ThreadIds(d) :
        /\ Dests(d, u) \in Seq(ThreadIds(d) \cup {PipelineOut})
        /\ Dests(d, u) # <<>> /\ IsInjective(Dests(d, u))
        /\ ToSet(Dests(d, u)) =
             {DestThread(d, e) : e \in {f \in Edges(d) : SourceThread(d, f) = u}} \ {u, Nowhere}
  BY DestsFacts DEF Leads
<1>3. Own(p, t) = {e \in Edges(d) : SourceThread(d, e) = t}
      /\ Incoming(p, t) = {e \in Edges(d) : DestThread(d, e) = t /\ SourceThread(d, e) # t}
  BY OwnFacts DEF p
<1>4. ASSUME NEW b \in ToSet(Dests(d, t))
      PROVE  /\ b = PipelineOut \/ (b # t /\ t \in p.sources[b])
             /\ p.link[t][b] \in Seq(Own(p, t))
             /\ p.link[t][b] # <<>> /\ IsInjective(p.link[t][b])
  <2>1. PICK e \in Edges(d) : SourceThread(d, e) = t /\ DestThread(d, e) = b /\ b \notin {t, Nowhere}
    BY <1>2
  <2>2. b \in ThreadIds(d) \cup {PipelineOut}
    BY <2>1, DestFacts
  <2>3. b # PipelineOut => t \in p.sources[b]
    <3>1. t \in Sources(d, b)
      BY <2>1 DEF Sources
    <3>2. b # PipelineOut => p.sources[b] = Sources(d, b)
      BY <2>2, GeneratedFields DEF p
    <3> QED BY <3>1, <3>2
  <2>4. p.link[t][b] = EdgesBetween(d, t, b)
    BY <2>2, GeneratedFields DEF p
  <2>5. Between(d, t, b) # {} /\ Between(d, t, b) \subseteq Own(p, t)
    BY <1>3, <2>1 DEF Between
  <2>6. EdgesBetween(d, t, b) \in Seq(Between(d, t, b))
        /\ EdgesBetween(d, t, b) # <<>> /\ IsInjective(EdgesBetween(d, t, b))
    BY <2>5, BetweenFacts
  <2>7. EdgesBetween(d, t, b) \in Seq(Own(p, t))
    BY <2>5, <2>6
  <2> QED BY <2>1, <2>3, <2>4, <2>6, <2>7
<1>5. ASSUME NEW a \in Sources(d, t)
      PROVE  IF a = PipelineIn
             THEN \A e \in Incoming(p, t) : Sources(d, t) = {a} => e[1] = 0
             ELSE /\ a \in ThreadIds(d) /\ t \in ToSet(Dests(d, a))
                  /\ ToSet(p.link[a][t]) \subseteq Incoming(p, t)
                  /\ Sources(d, t) = {a} => ToSet(p.link[a][t]) = Incoming(p, t)
  <2>1. PICK e \in Edges(d) : SourceThread(d, e) = a /\ DestThread(d, e) = t /\ a # t
    BY DEF Sources
  <2>2. \A f \in Incoming(p, t) : Sources(d, t) = {a} => SourceThread(d, f) = a
    BY <1>3 DEF Sources
  <2>3. CASE a = PipelineIn
    <3>1. \A f \in Incoming(p, t) : SourceThread(d, f) = PipelineIn => f[1] = 0
      BY <1>3, EdgeFacts
    <3> QED BY <2>2, <2>3, <3>1
  <2>4. CASE a # PipelineIn
    <3>1. a \in ThreadIds(d)
      BY <2>1, <2>4, EdgeFacts
    <3>2. t \notin {a, Nowhere}
      BY <1>1, <2>1 DEF Nowhere
    <3>3. t \in ToSet(Dests(d, a))
      BY <1>2, <2>1, <3>1, <3>2
    <3>4. ToSet(p.link[a][t]) = Between(d, a, t)
      BY <3>1, GeneratedFields, BetweenFacts DEF p
    <3>5. Between(d, a, t) \subseteq Incoming(p, t)
      BY <1>3, <2>1 DEF Between
    <3>6. Sources(d, t) = {a} => Incoming(p, t) \subseteq Between(d, a, t)
      BY <1>3, <2>2 DEF Between
    <3> QED BY <2>4, <3>1, <3>3, <3>4, <3>5, <3>6
  <2> QED BY <2>3, <2>4
<1> QED BY <1>0, <1>1, <1>2, <1>4, <1>5

\* A stage takes its inputs from earlier stages of its thread, or from outside.
LEMMA StagesGenerated ==
  ASSUME NEW d, IsDesign(d)
  PROVE  StagesInOrder(Generated(d))
<1> DEFINE p == Generated(d)
<1> SUFFICES ASSUME NEW t \in ThreadIds(d)
             PROVE  /\ DOMAIN p.process[t] \subseteq Nat \ {0}
                    /\ \A s \in DOMAIN p.process[t] :
                         /\ p.process[t][s] # {} /\ p.process[t][s] \subseteq p.edges[t]
                         /\ \A i \in p.process[t][s] : i[1] \in DOMAIN p.process[t] => i[1] < s
  BY GeneratedFields DEF StagesInOrder
<1>1. /\ DOMAIN p.process[t] = {r \in StageIds(d) : d.stages[r].thread = t}
      /\ p.edges[t] = {e \in Edges(d) : SourceThread(d, e) = t \/ DestThread(d, e) = t}
      /\ \A s \in DOMAIN p.process[t] : p.process[t][s] = ToSet(d.stages[s].inputs)
  BY GeneratedFields
<1> HIDE DEF p
<1>2. \A s \in StageIds(d) :
        /\ d.stages[s].inputs # <<>>
        /\ \A e \in ToSet(d.stages[s].inputs) : e \in Edges(d) /\ e[1] < s
  BY DEF IsDesign
<1>3. StageIds(d) \subseteq Nat \ {0}
  BY EdgeFacts DEF StageIds
<1>4. ASSUME NEW s \in DOMAIN p.process[t]
      PROVE  p.process[t][s] # {} /\ p.process[t][s] \subseteq p.edges[t]
  <2>1. s \in StageIds(d) /\ d.stages[s].thread = t
    BY <1>1
  <2>2. ToSet(d.stages[s].inputs) # {}
    <3>1. d.stages[s] \in [thread : Nat, inputs : Seq(Nat \X Nat), outs : Nat]
      BY <2>1, EdgeFacts, ElementOfSeq DEF IsDesign, StageIds
    <3>2. 1 \in DOMAIN d.stages[s].inputs
      BY <1>2, <2>1, <3>1, SeqFacts
    <3> QED BY <3>2 DEF ToSet
  <2>3. \A e \in ToSet(d.stages[s].inputs) : e \in Edges(d) /\ DestThread(d, e) = t
    BY <1>2, <2>1, DestFacts
  <2> QED BY <1>1, <2>2, <2>3
<1> QED BY <1>1, <1>2, <1>3, <1>4

\* The threads of a design.
LEMMA ThreadFacts ==
  ASSUME NEW d, IsDesign(d)
  PROVE  IsFiniteSet(ThreadIds(d)) /\ ThreadIds(d) \subseteq Nat
<1>1. IsFiniteSet(StageIds(d))
  <2>1. Len(d.stages) \in Int /\ 1 \in Int
    BY EdgeFacts
  <2> QED BY <2>1, FS_Interval DEF StageIds
<1>2. IsFiniteSet({[r \in StageIds(d) |-> d.stages[r].thread][s] : s \in StageIds(d)})
  BY <1>1, ImageFinite
<1>3. ThreadIds(d) = {[r \in StageIds(d) |-> d.stages[r].thread][s] : s \in StageIds(d)}
  BY DEF ThreadIds
<1>4. ThreadIds(d) \subseteq Nat
  BY EdgeFacts DEF ThreadIds
<1> QED BY <1>2, <1>3, <1>4

\* The threads that read the pipeline's inputs; the first stage's is one.
LEMMA InputsFacts ==
  ASSUME NEW d, IsDesign(d)
  PROVE  LET p == InputThreads(d)
         IN  /\ p \in Seq(ThreadIds(d)) /\ p # <<>> /\ IsInjective(p)
             /\ ToSet(p) = {t \in ThreadIds(d) : PipelineIn \in Sources(d, t)}
<1> DEFINE S == {t \in ThreadIds(d) : PipelineIn \in Sources(d, t)}
           R == {p \in S \X S : p[1] < p[2]}
           q == InputThreads(d)
<1>1. IsFiniteSet(S) /\ S \subseteq Nat
  BY ThreadFacts, FS_Subset
<1>2. S # {}
  <2>1. 1 \in StageIds(d) /\ d.stages[1].thread \in ThreadIds(d)
    BY EdgeFacts DEF StageIds, ThreadIds
  <2>2. d.stages[1] \in [thread : Nat, inputs : Seq(Nat \X Nat), outs : Nat]
    BY <2>1, EdgeFacts, ElementOfSeq DEF IsDesign, StageIds
  <2>3. d.stages[1].inputs # <<>> /\ \A e \in ToSet(d.stages[1].inputs) : e \in Edges(d) /\ e[1] < 1
    BY <2>1 DEF IsDesign
  <2>4. 1 \in DOMAIN d.stages[1].inputs
    BY <2>2, <2>3, SeqFacts
  <2>5. PICK e \in ToSet(d.stages[1].inputs) : TRUE
    BY <2>4 DEF ToSet
  <2>6. e \in Edges(d) /\ e[1] = 0
    BY <2>3, EdgeFacts
  <2>7. DestThread(d, e) = d.stages[1].thread /\ SourceThread(d, e) = PipelineIn
    BY <2>1, <2>5, <2>6, DestFacts, EdgeFacts
  <2>8. PipelineIn # d.stages[1].thread
    BY <2>1, ThreadFacts DEF PipelineIn
  <2>9. PipelineIn \in Sources(d, d.stages[1].thread)
    BY <2>6, <2>7, <2>8 DEF Sources
  <2> QED BY <2>1, <2>9
<1>3. q = InOrder(S, R)
  BY DEF InputThreads, ThreadsInOrder
<1>4. \A x, y \in S : <<x, y>> \in R <=> x < y
  OBVIOUS
<1> HIDE DEF S, R, q
<1>5. OrderOf(S, R)
  BY <1>1, <1>4 DEF OrderOf
<1>6. Lists(q, S, R)
  BY <1>1, <1>3, <1>5, InOrderLists
<1>7. /\ q \in Seq(S) /\ DOMAIN q = 1 .. Len(q)
      /\ \A i, j \in 1 .. Len(q) : q[i] = q[j] => i = j
      /\ \A x \in S : \E i \in 1 .. Len(q) : q[i] = x
  BY <1>6 DEF Lists
<1>8. ToSet(q) = S
  BY <1>7, ElementOfSeq DEF ToSet
<1>9. q # <<>>
  BY <1>2, <1>8 DEF ToSet
<1>10. IsInjective(q)
  BY <1>7 DEF IsInjective
<1>11. q \in Seq(ThreadIds(d))
  BY <1>7 DEF S
<1> QED BY <1>8, <1>9, <1>10, <1>11 DEF S, q

\* What the sink receives: every entry is sent by a thread that leads out, and
\* those of one thread stand together.
LEMMA MuxFacts ==
  ASSUME NEW d, IsDesign(d)
  PROVE  LET m == OutputMux(d)
         IN  /\ Len(m) \in Nat \ {0} /\ DOMAIN m = 1 .. Len(m)
             /\ \A i \in DOMAIN m : /\ m[i].thread \in ThreadIds(d)
                                    /\ PipelineOut \in ToSet(Dests(d, m[i].thread))
                                    /\ m[i].edge \in ToSet(d.outputs)
                                    /\ m[i].edge \in Edges(d) /\ m[i].edge[1] # 0
                                    /\ SourceThread(d, m[i].edge) = m[i].thread
             /\ \A t \in ThreadIds(d) :
                  PipelineOut \in ToSet(Dests(d, t)) =>
                    \E f \in DOMAIN m :
                      /\ f + Len(EdgesBetween(d, t, PipelineOut)) - 1 \in DOMAIN m
                      /\ \A i \in DOMAIN m :
                           m[i].thread = t <=> i \in f .. f + Len(EdgesBetween(d, t, PipelineOut)) - 1
<1> DEFINE leaving == {e \in Edges(d) : e[1] # 0 /\ DestThread(d, e) = PipelineOut}
           cfg(e) == [thread |-> SourceThread(d, e), edge |-> e]
           S == {cfg(e) : e \in leaving}
           R == {p \in S \X S : \/ p[1].thread < p[2].thread
                                \/ p[1].thread = p[2].thread /\ Earlier(p[1].edge, p[2].edge)}
           m == OutputMux(d)
<1>1. IsFiniteSet(S)
  <2>1. IsFiniteSet(leaving)
    BY EdgeFacts, FS_Subset
  <2>2. IsFiniteSet({[x \in leaving |-> cfg(x)][e] : e \in leaving})
    BY <2>1, ImageFinite
  <2>3. S = {[x \in leaving |-> cfg(x)][e] : e \in leaving}
    OBVIOUS
  <2> QED BY <2>2, <2>3
<1>2. \A c \in S : /\ c.edge \in leaving /\ c = cfg(c.edge)
                   /\ c.thread = SourceThread(d, c.edge)
  OBVIOUS
<1>3. \A e \in leaving : cfg(e) \in S /\ cfg(e).edge = e /\ cfg(e).thread = SourceThread(d, e)
  OBVIOUS
<1>4. m = InOrder(S, R)
  BY DEF OutputMux
<1>5. \A x, y \in S :
        <<x, y>> \in R <=> (x.thread < y.thread \/ (x.thread = y.thread /\ Earlier(x.edge, y.edge)))
  OBVIOUS
<1>6. \A e \in leaving : /\ e \in Edges(d) /\ e[1] # 0 /\ DestThread(d, e) = PipelineOut
                         /\ SourceThread(d, e) \in ThreadIds(d) /\ SourceThread(d, e) \in Nat
                         /\ e = <<e[1], e[2]>> /\ e[1] \in Int /\ e[2] \in Int
  BY EdgeFacts, ThreadFacts
<1>7. \A e \in Edges(d) : e[1] # 0 /\ DestThread(d, e) = PipelineOut => e \in leaving
  OBVIOUS
<1> HIDE DEF leaving, S, R, m, cfg
<1>8. \A x, y \in S : x.edge = y.edge => x = y
  BY <1>2
<1>9. \A x \in S : x.thread \in Int /\ x.edge = <<x.edge[1], x.edge[2]>>
                   /\ x.edge[1] \in Int /\ x.edge[2] \in Int
  BY <1>2, <1>6
<1>10. OrderOf(S, R)
  <2>1. \A x \in S : <<x, x>> \notin R
    BY <1>5, <1>9 DEF Earlier
  <2>2. \A x, y \in S : x # y => <<x, y>> \in R \/ <<y, x>> \in R
    <3> TAKE x, y \in S
    <3>1. x # y => x.edge[1] # y.edge[1] \/ x.edge[2] # y.edge[2]
      BY <1>8, <1>9
    <3> QED BY <1>5, <1>9, <3>1 DEF Earlier
  <2>3. \A x, y, z \in S : <<x, y>> \in R /\ <<y, z>> \in R => <<x, z>> \in R
    BY <1>5, <1>9 DEF Earlier
  <2> QED BY <2>1, <2>2, <2>3 DEF OrderOf
<1>11. Lists(m, S, R)
  BY <1>1, <1>4, <1>10, InOrderLists
<1>12. /\ m \in Seq(S) /\ Len(m) = Cardinality(S) /\ Len(m) \in Nat /\ DOMAIN m = 1 .. Len(m)
       /\ \A x \in S : \E i \in 1 .. Len(m) : m[i] = x
  BY <1>11 DEF Lists
<1>13. \A i \in 1 .. Len(m) : m[i] \in S
  BY <1>12, ElementOfSeq
<1>14. Len(m) # 0
  <2>1. 1 \in DOMAIN d.outputs
    BY SeqFacts DEF IsDesign
  <2>2. PICK e \in ToSet(d.outputs) : TRUE
    BY <2>1 DEF ToSet
  <2>3. e \in Edges(d)
    BY <2>1, <2>2, SeqFacts DEF IsDesign, ToSet
  <2>4. e[1] # 0 /\ DestThread(d, e) = PipelineOut
    BY <2>2, <2>3, DestFacts DEF IsDesign
  <2>5. cfg(e) \in S
    BY <1>3, <1>7, <2>3, <2>4
  <2>6. \E i \in 1 .. Len(m) : TRUE
    BY <1>12, <2>5
  <2> QED BY <1>12, <2>6
<1>15. ASSUME NEW i \in 1 .. Len(m)
       PROVE  /\ m[i].thread \in ThreadIds(d)
              /\ PipelineOut \in ToSet(Dests(d, m[i].thread))
              /\ m[i].edge \in ToSet(d.outputs)
              /\ m[i].edge \in Edges(d) /\ m[i].edge[1] # 0
              /\ SourceThread(d, m[i].edge) = m[i].thread
  <2> DEFINE e == m[i].edge
             t == m[i].thread
  <2>1. e \in leaving /\ t = SourceThread(d, e)
    BY <1>2, <1>13
  <2>2. /\ e \in Edges(d) /\ e[1] # 0 /\ DestThread(d, e) = PipelineOut /\ t \in ThreadIds(d) /\ t \in Nat
    BY <1>6, <2>1
  <2>3. e \in ToSet(d.outputs)
    BY <2>2, DestFacts
  <2>4. PipelineOut \notin {t, Nowhere}
    BY <2>2 DEF PipelineOut, Nowhere
  <2>5. PipelineOut \in Leads(d, t)
    BY <2>1, <2>2, <2>4 DEF Leads
  <2> QED BY <2>1, <2>2, <2>3, <2>5, DestsFacts
<1>16. ASSUME NEW t \in ThreadIds(d), PipelineOut \in ToSet(Dests(d, t))
       PROVE  \E f \in 1 .. Len(m) :
                /\ f + Len(EdgesBetween(d, t, PipelineOut)) - 1 \in 1 .. Len(m)
                /\ \A i \in 1 .. Len(m) :
                     m[i].thread = t <=> i \in f .. f + Len(EdgesBetween(d, t, PipelineOut)) - 1
  <2> DEFINE L == {c \in S : c.thread < t}
             B == {c \in S : c.thread = t}
             E == Between(d, t, PipelineOut)
             edgeOf == [c \in B |-> c.edge]
  <2>1. t \in Int /\ t # PipelineIn
    BY ThreadFacts DEF PipelineIn
  <2>2. \A c \in B : c.edge \in E
    BY <1>2, <1>6 DEF Between
  <2>3. \A e \in E : \E c \in B : c.edge = e
    <3> TAKE e \in E
    <3>1. e \in Edges(d) /\ SourceThread(d, e) = t /\ DestThread(d, e) = PipelineOut
      BY DEF Between
    <3>2. e[1] # 0
      BY <2>1, <3>1, EdgeFacts
    <3>3. cfg(e) \in S /\ cfg(e).edge = e /\ cfg(e).thread = t
      BY <1>3, <1>7, <3>1, <3>2
    <3> QED BY <3>3
  <2>4. edgeOf \in Bijection(B, E)
    <3> HIDE DEF B, E
    <3>1. edgeOf \in [B -> E]
      BY <2>2
    <3>2. B \subseteq S
      BY DEF B
    <3>3. \A x, y \in B : edgeOf[x] = edgeOf[y] => x = y
      BY <1>8, <3>2
    <3>4. \A e \in E : \E c \in B : edgeOf[c] = e
      BY <2>3
    <3> QED BY <3>1, <3>3, <3>4 DEF Bijection, Injection, Surjection, IsInjective
  <2>5. Cardinality(B) = Cardinality(E)
    <3>1. IsFiniteSet(B)
      BY <1>1, FS_Subset
    <3> QED BY <2>4, <3>1, FS_Bijection DEF ExistsBijection
  <2>6. Cardinality(B) = Len(EdgesBetween(d, t, PipelineOut))
    BY <2>5, BetweenFacts
  <2>7. B # {}
    <3>1. PipelineOut \in Leads(d, t)
      BY <1>16, DestsFacts
    <3>2. PICK e \in E : TRUE
      BY <3>1 DEF Leads, Between
    <3> QED BY <2>3, <3>2
  <2>8. L \in SUBSET S /\ B \in SUBSET S
        /\ \A x \in S : (x \in L <=> x.thread < t) /\ (x \in B <=> x.thread = t)
    OBVIOUS
  <2>9. \A x, y \in S : x.thread < y.thread => <<x, y>> \in R
    BY <1>5
  <2>10. \A x \in S : x.thread \in Int
    BY <1>9
  <2> HIDE DEF L, B, E
  <2>11. /\ L \cap B = {}
         /\ \A x \in L : \A y \in S \ L : <<x, y>> \in R
         /\ \A x \in B : \A y \in S \ (L \cup B) : <<x, y>> \in R
    BY <2>1, <2>8, <2>9, <2>10
  <2>12. /\ Cardinality(L) + 1 \in DOMAIN m /\ Cardinality(L) + 1 + Cardinality(B) - 1 \in DOMAIN m
         /\ \A i \in DOMAIN m :
              m[i] \in B <=> i \in Cardinality(L) + 1 .. Cardinality(L) + 1 + Cardinality(B) - 1
    BY <1>1, <1>10, <1>11, <2>7, <2>8, <2>11, BlockOfList
  <2> DEFINE f == Cardinality(L) + 1
  <2>13. f \in 1 .. Len(m) /\ f + Len(EdgesBetween(d, t, PipelineOut)) - 1 \in 1 .. Len(m)
    BY <1>12, <2>6, <2>12
  <2>14. \A i \in 1 .. Len(m) :
           m[i].thread = t <=> i \in f .. f + Len(EdgesBetween(d, t, PipelineOut)) - 1
    BY <1>12, <1>13, <2>6, <2>8, <2>12
  <2> HIDE DEF f
  <2> QED BY <2>13, <2>14
<1> QED BY <1>12, <1>14, <1>15, <1>16 DEF m

\* The pipeline's ends are wired.
LEMMA EndsGenerated ==
  ASSUME NEW d, IsDesign(d)
  PROVE  EndsAgree(Generated(d))
<1> DEFINE p == Generated(d)
<1>1. /\ p.threads = ThreadIds(d) /\ p.inputs = InputThreads(d) /\ p.mux = OutputMux(d)
      /\ \A t \in ThreadIds(d) :
           /\ p.dests[t] = Dests(d, t) /\ p.sources[t] = Sources(d, t)
           /\ p.link[t][PipelineOut] = EdgesBetween(d, t, PipelineOut)
  BY GeneratedFields
<1> HIDE DEF p
<1>2. /\ p.inputs \in Seq(p.threads) /\ p.inputs # <<>> /\ IsInjective(p.inputs)
      /\ ToSet(p.inputs) = {t \in p.threads : PipelineIn \in p.sources[t]}
  BY <1>1, InputsFacts
<1>3. /\ Len(p.mux) \in Nat \ {0} /\ DOMAIN p.mux = 1 .. Len(p.mux)
      /\ \A i \in DOMAIN p.mux : /\ p.mux[i].thread \in p.threads
                                 /\ PipelineOut \in ToSet(p.dests[p.mux[i].thread])
  BY <1>1, MuxFacts
<1>4. ASSUME NEW t \in p.threads, PipelineOut \in ToSet(p.dests[t])
      PROVE  \E f \in DOMAIN p.mux :
               /\ f + Len(p.link[t][PipelineOut]) - 1 \in DOMAIN p.mux
               /\ \A i \in DOMAIN p.mux :
                    p.mux[i].thread = t <=> i \in f .. f + Len(p.link[t][PipelineOut]) - 1
  <2> DEFINE m == OutputMux(d)
             k == Len(EdgesBetween(d, t, PipelineOut))
  <2>1. PICK f \in DOMAIN m :
          f + k - 1 \in DOMAIN m /\ \A i \in DOMAIN m : m[i].thread = t <=> i \in f .. f + k - 1
    BY <1>1, <1>4, MuxFacts
  <2>2. p.mux = m /\ Len(p.link[t][PipelineOut]) = k
    BY <1>1, <1>4
  <2> HIDE DEF m, k
  <2> QED BY <2>1, <2>2
<1>5. EndsAgree(p)
  BY <1>2, <1>3, <1>4 DEF EndsAgree
<1> QED BY <1>5 DEF p

-----------------------------------------------------------------------------
(* How many threads a thread's audio has entered *)

\* The crossings of stage s, given those of the earlier stages.
Crossed(d, c, s) == IF s = 0 THEN {} ELSE c[d.stages[s].inputs[1][1]] \cup {d.stages[s].thread}

\* A stage has a first input, from an earlier stage or the pipeline's inputs.
LEMMA FirstInput ==
  ASSUME NEW d, IsDesign(d), NEW s \in StageIds(d)
  PROVE  /\ d.stages[s].inputs[1] \in ToSet(d.stages[s].inputs)
         /\ d.stages[s].inputs[1] \in Edges(d)
         /\ d.stages[s].inputs[1][1] \in 0 .. s - 1
         /\ s \in Nat \ {0}
<1>1. d.stages[s] \in [thread : Nat, inputs : Seq(Nat \X Nat), outs : Nat]
  BY EdgeFacts, ElementOfSeq DEF IsDesign, StageIds
<1>2. d.stages[s].inputs # <<>> /\ \A e \in ToSet(d.stages[s].inputs) : e \in Edges(d) /\ e[1] < s
  BY DEF IsDesign
<1>3. d.stages[s].inputs[1] \in ToSet(d.stages[s].inputs)
  BY <1>1, <1>2, SeqFacts DEF ToSet
<1>4. s \in Nat \ {0}
  BY EdgeFacts DEF StageIds
<1>5. d.stages[s].inputs[1][1] \in 0 .. Len(d.stages) /\ Len(d.stages) \in Nat
  BY <1>2, <1>3, EdgeFacts
<1>6. d.stages[s].inputs[1][1] < s
  BY <1>2, <1>3
<1> QED BY <1>2, <1>3, <1>4, <1>5, <1>6

\* StageCrossings is the function that its equation describes.
LEMMA CrossingsDefined ==
  ASSUME NEW d, IsDesign(d)
  PROVE  StageCrossings(d) =
           [s \in 0 .. Len(d.stages) |-> Crossed(d, StageCrossings(d), s)]
<1> DEFINE N == Len(d.stages)
           first(s) == d.stages[s].inputs[1][1]
           T(s) == d.stages[s].thread
           good == {n \in 0 .. N : \E g : g = [s \in 0 .. n |-> Crossed(d, g, s)]}
<1>1. N \in Nat
  BY EdgeFacts
<1>2. \A s \in 1 .. N : first(s) \in 0 .. s - 1
  BY FirstInput DEF StageIds
<1>3. 0 \in good
  <2> DEFINE g == [s \in 0 .. 0 |-> {}]
  <2>1. \A s \in 0 .. 0 : Crossed(d, g, s) = {}
    BY DEF Crossed
  <2>2. g = [s \in 0 .. 0 |-> Crossed(d, g, s)]
    BY <2>1
  <2> HIDE DEF g
  <2> QED BY <1>1, <2>2
<1>4. ASSUME NEW n \in 0 .. N, n \in good, n # N
      PROVE  n + 1 \in good
  <2>1. PICK g : g = [s \in 0 .. n |-> Crossed(d, g, s)]
    BY <1>4
  <2> DEFINE h == [s \in 0 .. n + 1 |-> Crossed(d, g, s)]
  <2>2. \A s \in 0 .. n + 1 : s # 0 => first(s) \in 0 .. n
    BY <1>1, <1>2, <1>4
  <2>3. \A s \in 0 .. n : h[s] = g[s]
    BY <1>1, <2>1
  <2>4. \A s \in 0 .. n + 1 : Crossed(d, h, s) = Crossed(d, g, s)
    <3> HIDE DEF h
    <3> QED BY <2>2, <2>3 DEF Crossed
  <2>5. h = [s \in 0 .. n + 1 |-> Crossed(d, h, s)]
    BY <2>4
  <2>6. n + 1 \in 0 .. N
    BY <1>1, <1>4
  <2> HIDE DEF h
  <2> QED BY <2>5, <2>6
<1>5. N \in good
  <2> DEFINE bad == {n \in 0 .. N : n \notin good}
  <2> SUFFICES ASSUME N \notin good PROVE FALSE
    OBVIOUS
  <2> HIDE DEF good
  <2>1. bad \in SUBSET Nat /\ bad # {}
    BY <1>1
  <2>2. PICK n \in bad : \A m \in bad : n <= m
    BY <2>1, LeastOf
  <2>3. n # 0 /\ n - 1 \in 0 .. N /\ n - 1 \in good /\ n - 1 # N /\ (n - 1) + 1 = n
    BY <1>1, <1>3, <2>2
  <2> QED BY <1>4, <2>2, <2>3
<1>6. PICK g : g = [s \in 0 .. N |-> Crossed(d, g, s)]
  BY <1>5
<1>7. StageCrossings(d) = CHOOSE c : c = [s \in 0 .. N |-> Crossed(d, c, s)]
  BY DEF StageCrossings, Crossed
<1> QED BY <1>6, <1>7

\* T gives the threads of stages 0 .. N, prev the stages that their first inputs
\* come from, c their crossings.  A thread's inputs come from one other thread.
ChainOf(N, T, prev, c) ==
  /\ N \in Nat /\ c[0] = {}
  /\ \A s \in 1 .. N : /\ prev[s] \in 0 .. s - 1 /\ T[s] # T[0]
                       /\ c[s] = c[prev[s]] \cup {T[s]}
  /\ \A s, r \in 1 .. N : T[s] = T[r] /\ T[prev[s]] # T[s] /\ T[prev[r]] # T[r]
                            => T[prev[s]] = T[prev[r]]

\* The stages of a thread have the same crossings, and the thread's first stage
\* adds the thread to those of its input.
LEMMA ChainCrossings ==
  ASSUME NEW N, NEW T, NEW prev, NEW c, ChainOf(N, T, prev, c)
  PROVE  /\ \A s \in 0 .. N : IsFiniteSet(c[s]) /\ \A t \in c[s] : \E r \in 1 .. s : T[r] = t
         /\ \A s \in 1 .. N : \E r \in 1 .. N :
              T[r] = T[s] /\ T[prev[r]] # T[r] /\ T[r] \notin c[prev[r]]
         /\ \A s, r \in 0 .. N : T[s] = T[r] => c[s] = c[r]
<1>1. /\ N \in Nat /\ c[0] = {}
      /\ \A s \in 1 .. N : prev[s] \in 0 .. s - 1 /\ T[s] # T[0] /\ c[s] = c[prev[s]] \cup {T[s]}
      /\ \A s, r \in 1 .. N : T[s] = T[r] /\ T[prev[s]] # T[s] /\ T[prev[r]] # T[r]
                                => T[prev[s]] = T[prev[r]]
  BY DEF ChainOf
<1>2. \A s \in 0 .. N : IsFiniteSet(c[s]) /\ \A t \in c[s] : \E r \in 1 .. s : T[r] = t
  <2> DEFINE ok(s) == IsFiniteSet(c[s]) /\ \A t \in c[s] : \E r \in 1 .. s : T[r] = t
             bad == {s \in 0 .. N : ~ ok(s)}
  <2> SUFFICES ASSUME bad # {} PROVE FALSE
    OBVIOUS
  <2>1. PICK s \in bad : \A r \in bad : s <= r
    <3>1. bad \in SUBSET Nat
      BY <1>1
    <3> HIDE DEF bad
    <3> QED BY <3>1, LeastOf
  <2>2. ok(0)
    BY <1>1, FS_EmptySet
  <2>3. s \in 1 .. N
    <3>1. s \in 0 .. N /\ ~ ok(s)
      BY <2>1
    <3>2. s # 0
      BY <2>2, <3>1
    <3> QED BY <1>1, <3>1, <3>2
  <2> DEFINE f == prev[s]
  <2>4. f \in 0 .. s - 1 /\ c[s] = c[f] \cup {T[s]} /\ f \in 0 .. N
    BY <1>1, <2>3
  <2>5. ok(f)
    BY <1>1, <2>1, <2>3, <2>4
  <2>6. IsFiniteSet(c[s])
    BY <2>4, <2>5, FS_AddElement
  <2>7. ASSUME NEW t \in c[s] PROVE \E r \in 1 .. s : T[r] = t
    <3>1. CASE t = T[s]
      BY <2>3, <3>1
    <3>2. CASE t \in c[f]
      <4>1. PICK r \in 1 .. f : T[r] = t
        BY <2>5, <3>2
      <4>2. r \in 1 .. s
        BY <2>3, <2>4, <4>1
      <4> QED BY <4>1, <4>2
    <3> QED BY <2>4, <3>1, <3>2
  <2> QED BY <2>1, <2>6, <2>7
<1>3. ASSUME NEW s \in 1 .. N
      PROVE  \E r \in 1 .. N : /\ T[r] = T[s] /\ T[prev[r]] # T[r] /\ T[r] \notin c[prev[r]]
                               /\ r <= s
  <2> DEFINE same == {r \in 1 .. N : T[r] = T[s]}
  <2>1. PICK r \in same : \A q \in same : r <= q
    <3>1. same \in SUBSET Nat /\ same # {}
      BY <1>1
    <3> HIDE DEF same
    <3> QED BY <3>1, LeastOf
  <2>2. r \in 1 .. N /\ T[r] = T[s] /\ r <= s /\ \A q \in 1 .. N : T[q] = T[s] => r <= q
    BY <2>1
  <2> DEFINE f == prev[r]
  <2>3. f \in 0 .. r - 1 /\ f \in 0 .. N
    BY <1>1, <2>2
  <2>4. T[f] # T[r]
    <3>1. CASE f = 0
      BY <1>1, <2>2, <3>1
    <3>2. CASE f # 0
      BY <2>2, <2>3, <3>2
    <3> QED BY <3>1, <3>2
  <2>5. T[r] \notin c[f]
    <3> SUFFICES ASSUME T[r] \in c[f] PROVE FALSE
      OBVIOUS
    <3>1. PICK q \in 1 .. f : T[q] = T[r]
      BY <1>2, <2>3
    <3>2. q \in 1 .. N /\ q < r /\ q \in Int /\ r \in Int
      BY <1>1, <2>2, <2>3, <3>1
    <3>3. T[q] = T[s]
      BY <2>2, <3>1
    <3>4. r <= q
      BY <2>2, <3>2, <3>3
    <3> QED BY <3>2, <3>4
  <2> QED BY <2>2, <2>4, <2>5
<1>4. \A s, r \in 0 .. N : T[s] = T[r] => c[s] = c[r]
  <2> DEFINE ok(s) == \A r \in 0 .. s : T[s] = T[r] => c[s] = c[r]
             bad == {s \in 0 .. N : ~ ok(s)}
  <2>1. bad = {}
    <3> SUFFICES ASSUME bad # {} PROVE FALSE
      OBVIOUS
    <3>1. PICK s \in bad : \A r \in bad : s <= r
      <4>1. bad \in SUBSET Nat
        BY <1>1
      <4> HIDE DEF bad
      <4> QED BY <4>1, LeastOf
    <3>2. \A q \in 0 .. s - 1 : ok(q)
      BY <1>1, <3>1
    <3>3. \A q, r \in 0 .. s - 1 : T[q] = T[r] => c[q] = c[r]
      <4> TAKE q, r \in 0 .. s - 1
      <4>1. CASE r <= q
        <5>1. r \in 0 .. q
          BY <1>1, <3>1, <4>1
        <5> QED BY <3>2, <5>1
      <4>2. CASE q <= r
        <5>1. q \in 0 .. r
          BY <1>1, <3>1, <4>2
        <5> QED BY <3>2, <5>1
      <4> QED BY <1>1, <3>1, <4>1, <4>2
    <3>4. PICK r \in 0 .. s : T[s] = T[r] /\ c[s] # c[r]
      BY <3>1
    <3>5. s \in 1 .. N /\ r \in 1 .. s - 1
      <4>1. s \in 0 .. N /\ r # s
        BY <3>1, <3>4
      <4>2. s # 0
        BY <1>1, <3>4, <4>1
      <4>3. r # 0
        BY <1>1, <3>4, <4>1, <4>2
      <4> QED BY <1>1, <3>4, <4>1, <4>2, <4>3
    <3> DEFINE f == prev[s]
    <3>6. f \in 0 .. s - 1 /\ c[s] = c[f] \cup {T[s]}
      BY <1>1, <3>5
    <3>7. CASE T[f] = T[s]
      <4>1. c[f] = c[r]
        BY <3>3, <3>4, <3>5, <3>6, <3>7
      <4>2. T[s] \in c[r]
        <5>1. r \in 1 .. N
          BY <1>1, <3>5
        <5>2. c[r] = c[prev[r]] \cup {T[r]}
          BY <1>1, <5>1
        <5> QED BY <3>4, <5>2
      <4> QED BY <3>4, <3>6, <4>1, <4>2
    <3>8. CASE T[f] # T[s]
      <4>1. r \in 1 .. N
        BY <1>1, <3>5
      <4>2. PICK q \in 1 .. N : T[q] = T[r] /\ T[prev[q]] # T[q] /\ q <= r
        BY <1>3, <4>1
      <4>3. prev[q] \in 0 .. q - 1 /\ c[q] = c[prev[q]] \cup {T[q]} /\ T[prev[q]] = T[f]
        BY <1>1, <3>4, <3>5, <3>8, <4>2
      <4>4. q \in 0 .. s - 1 /\ prev[q] \in 0 .. s - 1 /\ r \in 0 .. s - 1
        BY <1>1, <3>5, <4>2, <4>3
      <4>5. c[q] = c[r] /\ c[prev[q]] = c[f]
        BY <3>3, <3>6, <4>2, <4>3, <4>4
      <4> QED BY <3>4, <3>6, <4>2, <4>3, <4>5
    <3> QED BY <3>7, <3>8
  <2>2. \A s \in 0 .. N : ok(s)
    BY <2>1
  <2> HIDE DEF bad
  <2> TAKE s, r \in 0 .. N
  <2>3. CASE r <= s
    <3>1. r \in 0 .. s
      BY <1>1, <2>3
    <3> QED BY <2>2, <3>1
  <2>4. CASE s <= r
    <3>1. s \in 0 .. r
      BY <1>1, <2>4
    <3> QED BY <2>2, <3>1
  <2> QED BY <1>1, <2>3, <2>4
<1> QED BY <1>2, <1>3, <1>4

\* The thread that stage s is in, the pipeline's inputs being a stage too, and
\* the stage that its first input comes from.
ThreadOf(d) == [s \in 0 .. Len(d.stages) |-> IF s = 0 THEN PipelineIn ELSE d.stages[s].thread]
FirstFrom(d) == [s \in 1 .. Len(d.stages) |-> d.stages[s].inputs[1][1]]

\* A stage's first input comes from its own thread or from a source of it.
LEMMA FirstSource ==
  ASSUME NEW d, IsDesign(d), NEW s \in StageIds(d)
  PROVE  LET f == FirstFrom(d)[s]
             T == ThreadOf(d)
         IN  T[f] # T[s] => T[f] \in Sources(d, T[s])
<1> DEFINE e == d.stages[s].inputs[1]
           f == FirstFrom(d)[s]
           T == ThreadOf(d)
<1>1. s \in 1 .. Len(d.stages) /\ Len(d.stages) \in Nat /\ s # 0
  BY EdgeFacts DEF StageIds
<1>2. e \in ToSet(d.stages[s].inputs) /\ e \in Edges(d) /\ e[1] \in 0 .. s - 1
  BY FirstInput
<1>3. f = e[1] /\ f \in 0 .. Len(d.stages)
  BY <1>1, <1>2 DEF FirstFrom
<1>4. T[s] = d.stages[s].thread
  BY <1>1 DEF ThreadOf
<1>5. T[f] = SourceThread(d, e)
  BY <1>3 DEF ThreadOf, SourceThread
<1>6. DestThread(d, e) = T[s]
  BY <1>2, <1>4, DestFacts
<1> HIDE DEF T, f, e
<1> QED BY <1>2, <1>5, <1>6 DEF Sources, f, T

\* With one source to each thread the crossings of a thread's stages agree.
LEMMA DesignChain ==
  ASSUME NEW d, IsDesign(d), OneSource(d)
  PROVE  ChainOf(Len(d.stages), ThreadOf(d), FirstFrom(d), StageCrossings(d))
<1> DEFINE N == Len(d.stages)
           T == ThreadOf(d)
           prev == FirstFrom(d)
           c == StageCrossings(d)
<1>1. N \in Nat /\ StageIds(d) = 1 .. N
  BY EdgeFacts DEF StageIds
<1>2. c = [s \in 0 .. N |-> Crossed(d, c, s)]
  BY CrossingsDefined
<1>3. T[0] = PipelineIn /\ \A s \in 1 .. N : T[s] = d.stages[s].thread /\ T[s] \in ThreadIds(d)
  BY <1>1 DEF ThreadOf, ThreadIds
<1>4. \A s \in 1 .. N : prev[s] = d.stages[s].inputs[1][1]
  BY DEF FirstFrom
<1> HIDE DEF N, T, prev, c
<1>5. c[0] = {}
  BY <1>1, <1>2 DEF Crossed
<1>6. \A s \in 1 .. N : c[s] = c[prev[s]] \cup {T[s]}
  <2> TAKE s \in 1 .. N
  <2>1. s \in 0 .. N /\ s # 0
    BY <1>1
  <2>2. c[s] = Crossed(d, c, s)
    BY <1>2, <2>1
  <2> QED BY <1>3, <1>4, <2>1, <2>2 DEF Crossed
<1>7. \A s \in 1 .. N : prev[s] \in 0 .. s - 1
  BY <1>1, <1>4, FirstInput
<1>8. \A s \in 1 .. N : T[s] # T[0]
  BY <1>3, ThreadFacts DEF PipelineIn
<1>9. ASSUME NEW s \in 1 .. N, NEW r \in 1 .. N,
             T[s] = T[r], T[prev[s]] # T[s], T[prev[r]] # T[r]
      PROVE  T[prev[s]] = T[prev[r]]
  <2>1. T[prev[s]] \in Sources(d, T[s]) /\ T[prev[r]] \in Sources(d, T[s])
    BY <1>1, <1>9, FirstSource DEF T, prev
  <2>2. \E a : Sources(d, T[s]) = {a}
    BY <1>3 DEF OneSource
  <2> QED BY <2>1, <2>2
<1> QED BY <1>1, <1>5, <1>6, <1>7, <1>8, <1>9 DEF ChainOf, N, T, prev, c

\* The crossings count the threads that a thread's audio has entered.
LEMMA DepthsGenerated ==
  ASSUME NEW d, IsDesign(d), Accepted(d), OneSource(d)
  PROVE  DepthsCount(d)
<1> DEFINE p == Generated(d)
           N == Len(d.stages)
           T == ThreadOf(d)
           prev == FirstFrom(d)
           c == StageCrossings(d)
<1>1. N \in Nat \ {0} /\ StageIds(d) = 1 .. N
  BY EdgeFacts DEF StageIds
<1>2. ChainOf(N, T, prev, c)
  BY DesignChain
<1>3. /\ \A s \in 0 .. N : IsFiniteSet(c[s])
      /\ \A s \in 1 .. N : \E r \in 1 .. N :
           T[r] = T[s] /\ T[prev[r]] # T[r] /\ T[r] \notin c[prev[r]]
      /\ \A s, r \in 0 .. N : T[s] = T[r] => c[s] = c[r]
  <2> HIDE DEF N, T, prev, c
  <2> QED BY <1>2, ChainCrossings
<1>4. /\ T[0] = PipelineIn /\ c[0] = {}
      /\ \A s \in 1 .. N : /\ T[s] = d.stages[s].thread /\ T[s] \in ThreadIds(d)
                           /\ T[s] # PipelineIn
                           /\ prev[s] \in 0 .. N /\ c[s] = c[prev[s]] \cup {T[s]}
  <2>1. T[0] = PipelineIn /\ \A s \in 1 .. N : T[s] = d.stages[s].thread /\ T[s] \in ThreadIds(d)
    BY <1>1 DEF ThreadOf, ThreadIds
  <2>2. c[0] = {} /\ \A s \in 1 .. N : /\ T[s] # T[0] /\ c[s] = c[prev[s]] \cup {T[s]}
                                       /\ prev[s] \in 0 .. s - 1
    BY <1>2 DEF ChainOf
  <2> HIDE DEF T, prev, c
  <2> QED BY <1>1, <2>1, <2>2
<1>5. \A t \in ThreadIds(d) : p.sources[t] = Sources(d, t)
      /\ \E a : Sources(d, t) = {a}
  BY GeneratedFields DEF OneSource
<1>6. ASSUME NEW t \in ThreadIds(d), NEW s \in 1 .. N, T[s] = t
      PROVE  Depth(d, t) = Cardinality(c[s])
  <2> DEFINE x == CHOOSE r \in StageIds(d) : d.stages[r].thread = t
  <2>1. x \in 1 .. N /\ d.stages[x].thread = t
    BY <1>1, <1>4, <1>6
  <2>2. T[x] = T[s]
    BY <1>4, <1>6, <2>1
  <2>3. c[x] = c[s]
    <3>1. x \in 0 .. N /\ s \in 0 .. N
      BY <1>1, <2>1
    <3> HIDE DEF x, c, T, N
    <3> QED BY <1>3, <2>2, <3>1
  <2> QED BY <2>3 DEF Depth
<1>7. \A t \in ThreadIds(d) : \E s \in 1 .. N : T[s] = t
  BY <1>1, <1>4 DEF ThreadIds
<1>8. ASSUME NEW t \in ThreadIds(d)
      PROVE  Depth(d, t) \in Nat
  <2>1. PICK s \in 1 .. N : T[s] = t
    BY <1>7
  <2>2. IsFiniteSet(c[s])
    BY <1>1, <1>3
  <2> QED BY <1>6, <2>1, <2>2, FS_CardinalityType
<1>9. \A e \in ToSet(d.outputs) : e \in Edges(d) /\ e[1] \in 1 .. N
  <2>1. \A e \in ToSet(d.outputs) : e \in Edges(d) /\ e[1] # 0
    BY SeqFacts DEF IsDesign, ToSet
  <2> QED BY <1>1, <2>1, EdgeFacts
<1>10. d.outputs[1] \in ToSet(d.outputs)
  BY SeqFacts DEF IsDesign, ToSet
<1>11. OutputCrossings(d) = Cardinality(c[d.outputs[1][1]])
  BY DEF OutputCrossings
<1>12. OutputCrossings(d) \in Nat
  <2>1. IsFiniteSet(c[d.outputs[1][1]])
    BY <1>1, <1>3, <1>9, <1>10
  <2> QED BY <1>11, <2>1, FS_CardinalityType
<1>13. ASSUME NEW t \in ThreadIds(d), NEW a \in p.sources[t]
       PROVE  Depth(d, t) = IF a = PipelineIn THEN 1 ELSE Depth(d, a) + 1
  <2>1. PICK s \in 1 .. N : T[s] = t
    BY <1>7
  <2>2. PICK r \in 1 .. N : T[r] = t /\ T[prev[r]] # t /\ t \notin c[prev[r]]
    BY <1>3, <2>1
  <2> DEFINE f == prev[r]
  <2>3. f \in 0 .. N /\ c[r] = c[f] \cup {t}
    BY <1>4, <2>2
  <2>4. T[f] = a
    <3>1. T[f] \in Sources(d, t)
      BY <1>1, <2>2, FirstSource
    <3> QED BY <1>5, <3>1
  <2>5. IsFiniteSet(c[f]) /\ Cardinality(c[r]) = Cardinality(c[f]) + 1
    <3>1. IsFiniteSet(c[f]) /\ t \notin c[f]
      BY <1>3, <2>2, <2>3
    <3> HIDE DEF f, c
    <3> QED BY <2>3, <3>1, FS_AddElement
  <2>6. Depth(d, t) = Cardinality(c[f]) + 1
    BY <1>6, <2>2, <2>5
  <2>7. CASE a = PipelineIn
    <3>1. f = 0
      BY <1>1, <1>4, <2>3, <2>4, <2>7
    <3>2. Cardinality(c[f]) = 0
      BY <1>4, <3>1, FS_EmptySet
    <3> QED BY <2>6, <2>7, <3>2
  <2>8. CASE a # PipelineIn
    <3>1. f \in 1 .. N /\ a \in ThreadIds(d)
      BY <1>1, <1>4, <2>3, <2>4, <2>8
    <3>2. Depth(d, a) = Cardinality(c[f])
      BY <1>6, <2>4, <3>1
    <3> QED BY <2>6, <2>8, <3>2
  <2> QED BY <2>7, <2>8
<1>14. ASSUME NEW i \in DOMAIN p.mux
       PROVE  Depth(d, p.mux[i].thread) = OutputCrossings(d)
  <2> DEFINE e == p.mux[i].edge
             t == p.mux[i].thread
  <2>1. t \in ThreadIds(d) /\ e \in ToSet(d.outputs) /\ e \in Edges(d) /\ e[1] # 0 /\ SourceThread(d, e) = t
    BY GeneratedFields, MuxFacts
  <2>2. e[1] \in 1 .. N
    BY <1>9, <2>1
  <2>3. T[e[1]] = t
    BY <1>4, <2>1, <2>2 DEF SourceThread
  <2>4. Depth(d, t) = Cardinality(c[e[1]])
    BY <1>6, <2>1, <2>2, <2>3
  <2>5. SameSize({c[x[1]] : x \in ToSet(d.outputs)})
    BY DEF Accepted
  <2>6. Cardinality(c[e[1]]) = Cardinality(c[d.outputs[1][1]])
    BY <1>10, <2>1, <2>5 DEF SameSize
  <2> QED BY <1>11, <2>4, <2>6
<1>15. p.threads = ThreadIds(d)
  BY GeneratedFields
<1> HIDE DEF p
<1> QED BY <1>8, <1>12, <1>13, <1>14, <1>15 DEF DepthsCount, p

\* Whatever the calls make of a design, its generated source is wired as the
\* threads rely on: both ends of every link list the same edges in one order, a
\* stage comes after those it reads from, the sink receives a thread's outputs
\* together, and the crossings that __init__ and set_outputs compare count the
\* threads of every path.
THEOREM DesignWellGenerated ==
  ASSUME NEW d, IsDesign(d), Accepted(d)
  PROVE  WellGenerated(d)
<1> DEFINE p == Generated(d)
<1>1. LinksAgree(p) /\ StagesInOrder(p) /\ EndsAgree(p)
  BY LinksGenerated, StagesGenerated, EndsGenerated
<1>2. OneSource(d) => DepthsCount(d)
  BY DepthsGenerated
<1> QED BY <1>1, <1>2 DEF WellGenerated

-----------------------------------------------------------------------------
(* The program *)

\* The source of thread t, and the threads its audio has entered.
Src(t) == CHOOSE a \in program.sources[t] : TRUE
D(t) == Depth(setup.design, t)

\* What the generated source of any design relies on.
Linked ==
  /\ LinksAgree(program) /\ StagesInOrder(program) /\ EndsAgree(program)
  /\ delay \in Nat

\* And what that of a design of one-source threads does.
Wired ==
  /\ Linked
  /\ \A t \in program.threads :
       /\ program.sources[t] = {Src(t)}
       /\ D(t) \in Nat
       /\ D(t) = IF Src(t) = PipelineIn THEN 1 ELSE D(Src(t)) + 1
  /\ \A i \in DOMAIN program.mux : D(program.mux[i].thread) = delay

\* The program is the one that was generated for the design.
ProgramInv ==
  /\ setup \in Setups
  /\ program = Generated(setup.design)
  /\ delay = OutputCrossings(setup.design)

\* The generator's work on a design of one-source threads.
LEMMA ProgramWired ==
  ASSUME ProgramInv, OneSource(setup.design)
  PROVE  Linked /\ Wired
<1> DEFINE d == setup.design
           p == Generated(d)
<1>1. WellGenerated(d)
  BY SetupsAssumption, DesignWellGenerated DEF ProgramInv
<1>2. p.threads = ThreadIds(d) /\ \A t \in ThreadIds(d) : p.sources[t] = Sources(d, t)
  BY DEF Generated
<1>3. program = p /\ delay = OutputCrossings(d)
  BY DEF ProgramInv
<1>4. LinksAgree(p) /\ StagesInOrder(p) /\ EndsAgree(p) /\ DepthsCount(d)
  BY <1>1 DEF WellGenerated
<1>5. \A t \in p.threads : program.sources[t] = {Src(t)}
  <2> TAKE t \in p.threads
  <2>1. PICK a : program.sources[t] = {a}
    BY <1>2, <1>3 DEF OneSource
  <2>2. Src(t) \in program.sources[t]
    BY <2>1 DEF Src
  <2> QED BY <2>1, <2>2
<1>6. /\ \A t \in p.threads : D(t) \in Nat
      /\ OutputCrossings(d) \in Nat
      /\ \A t \in p.threads : \A a \in p.sources[t] :
           D(t) = IF a = PipelineIn THEN 1 ELSE D(a) + 1
      /\ \A i \in DOMAIN p.mux : D(p.mux[i].thread) = OutputCrossings(d)
  BY <1>4 DEF DepthsCount, D
<1> HIDE DEF p, d
<1>7. \A t \in program.threads : Src(t) \in program.sources[t]
  BY <1>3, <1>5
<1> QED BY <1>3, <1>4, <1>5, <1>6, <1>7 DEF Wired, Linked

-----------------------------------------------------------------------------
(* The links, edge by edge *)

\* What a thread sends.
LEMMA Outgoings ==
  ASSUME Linked, NEW t \in program.threads
  PROVE  /\ t \in Nat
         /\ Len(program.dests[t]) \in Nat \ {0}
         /\ \A i, j \in 1 .. Len(program.dests[t]) :
              program.dests[t][i] = program.dests[t][j] => i = j
         /\ \A j \in 1 .. Len(program.dests[t]) : \A b : b = program.dests[t][j] =>
              /\ b = PipelineOut \/ (b \in program.threads /\ b # t /\ t \in program.sources[b])
              /\ Len(program.link[t][b]) \in Nat \ {0}
              /\ \A i \in 1 .. Len(program.link[t][b]) :
                   program.link[t][b][i] \in Own(program, t)
              /\ \A i, l \in 1 .. Len(program.link[t][b]) :
                   program.link[t][b][i] = program.link[t][b][l] => i = l
<1> DEFINE ds == program.dests[t]
<1>1. /\ t \in Nat
      /\ ds \in Seq(program.threads \cup {PipelineOut})
      /\ ds # <<>> /\ IsInjective(ds)
      /\ \A b \in ToSet(ds) :
           /\ b = PipelineOut \/ (b # t /\ t \in program.sources[b])
           /\ program.link[t][b] \in Seq(Own(program, t))
           /\ program.link[t][b] # <<>> /\ IsInjective(program.link[t][b])
  BY DEF Linked, LinksAgree
<1> HIDE DEF ds
<1>2. Len(ds) \in Nat \ {0} /\ DOMAIN ds = 1 .. Len(ds)
  BY <1>1, SeqFacts
<1>3. \A i, j \in 1 .. Len(ds) : ds[i] = ds[j] => i = j
  BY <1>1, <1>2 DEF IsInjective
<1>4. ASSUME NEW j \in 1 .. Len(ds), NEW b, b = ds[j]
      PROVE  /\ b = PipelineOut \/ (b \in program.threads /\ b # t /\ t \in program.sources[b])
             /\ Len(program.link[t][b]) \in Nat \ {0}
             /\ \A i \in 1 .. Len(program.link[t][b]) :
                  program.link[t][b][i] \in Own(program, t)
             /\ \A i, l \in 1 .. Len(program.link[t][b]) :
                  program.link[t][b][i] = program.link[t][b][l] => i = l
  <2> DEFINE k == program.link[t][b]
  <2>1. b \in ToSet(ds)
    BY <1>2, <1>4 DEF ToSet
  <2>2. k \in Seq(Own(program, t)) /\ k # <<>> /\ IsInjective(k)
    BY <1>1, <2>1
  <2>3. b = PipelineOut \/ (b \in program.threads /\ b # t /\ t \in program.sources[b])
    <3>1. b \in program.threads \cup {PipelineOut}
      BY <1>1, <1>2, <1>4
    <3> QED BY <1>1, <2>1, <3>1
  <2> HIDE DEF k
  <2>4. Len(k) \in Nat \ {0} /\ DOMAIN k = 1 .. Len(k) /\ \A i \in 1 .. Len(k) : k[i] \in Own(program, t)
    BY <2>2, SeqFacts
  <2>5. \A i, l \in 1 .. Len(k) : k[i] = k[l] => i = l
    BY <2>2, <2>4 DEF IsInjective
  <2> QED BY <2>3, <2>4, <2>5 DEF k
<1> QED BY <1>1, <1>2, <1>3, <1>4 DEF ds

\* What Wired says of what thread t receives.
LEMMA Incomings ==
  ASSUME Linked, Wired, NEW t \in program.threads
  PROVE  /\ program.sources[t] = {Src(t)}
         /\ D(t) \in Nat \ {0}
         /\ Src(t) = PipelineIn => D(t) = 1 /\ \A e \in Incoming(program, t) : e[1] = 0
         /\ Src(t) # PipelineIn =>
              /\ Src(t) \in program.threads /\ Src(t) # t /\ D(t) = D(Src(t)) + 1
              /\ \E j \in 1 .. Len(program.dests[Src(t)]) : program.dests[Src(t)][j] = t
              /\ \A i \in 1 .. Len(program.link[Src(t)][t]) :
                   program.link[Src(t)][t][i] \in Incoming(program, t)
              /\ \A e \in Incoming(program, t) :
                   \E i \in 1 .. Len(program.link[Src(t)][t]) : program.link[Src(t)][t][i] = e
<1> DEFINE a == Src(t)
<1>1. /\ program.sources[t] = {a}
      /\ IF a = PipelineIn THEN \A e \in Incoming(program, t) : e[1] = 0
         ELSE /\ a \in program.threads /\ t \in ToSet(program.dests[a])
              /\ ToSet(program.link[a][t]) = Incoming(program, t)
  <2>1. program.sources[t] = {a}
    BY DEF Wired, Linked
  <2>2. \A x \in program.sources[t] :
          IF x = PipelineIn THEN \A e \in Incoming(program, t) : program.sources[t] = {x} => e[1] = 0
          ELSE /\ x \in program.threads /\ t \in ToSet(program.dests[x])
               /\ program.sources[t] = {x} => ToSet(program.link[x][t]) = Incoming(program, t)
    <3>1. LinksAgree(program)
      BY DEF Wired, Linked
    <3> QED BY <3>1 DEF LinksAgree
  <2> HIDE DEF a
  <2> QED BY <2>1, <2>2
<1>2. /\ D(t) \in Nat
      /\ D(t) = IF a = PipelineIn THEN 1 ELSE D(a) + 1
      /\ a # PipelineIn => D(a) \in Nat
  BY <1>1 DEF Wired, Linked
<1>3. ASSUME a # PipelineIn
      PROVE  /\ a # t
             /\ \E j \in 1 .. Len(program.dests[a]) : program.dests[a][j] = t
             /\ \A i \in 1 .. Len(program.link[a][t]) :
                   program.link[a][t][i] \in Incoming(program, t)
             /\ \A e \in Incoming(program, t) :
                   \E i \in 1 .. Len(program.link[a][t]) : program.link[a][t][i] = e
  <2> DEFINE k == program.link[a][t]
             ds == program.dests[a]
  <2>0. a \in program.threads /\ t \in ToSet(ds) /\ ToSet(k) = Incoming(program, t)
    BY <1>1, <1>3
  <2>1. ds \in Seq(program.threads \cup {PipelineOut}) /\ k \in Seq(Own(program, a))
    BY <2>0 DEF Wired, Linked, LinksAgree
  <2> HIDE DEF k, ds
  <2>2. DOMAIN k = 1 .. Len(k) /\ DOMAIN ds = 1 .. Len(ds)
    BY <2>1
  <2>3. PICK j \in 1 .. Len(ds) : ds[j] = t
    BY <2>0, <2>2 DEF ToSet
  <2>4. a # t
    BY <1>2, <1>3
  <2>5. /\ \A i \in 1 .. Len(k) : k[i] \in Incoming(program, t)
        /\ \A e \in Incoming(program, t) : \E i \in 1 .. Len(k) : k[i] = e
    BY <2>0, <2>2 DEF ToSet
  <2> QED BY <2>3, <2>4, <2>5 DEF ds, k
<1> QED BY <1>1, <1>2, <1>3

\* What the sink receives from thread t.
LEMMA Outputs ==
  ASSUME Linked, NEW t \in program.threads, NEW j \in 1 .. Len(program.dests[t]),
         program.dests[t][j] = PipelineOut
  PROVE  /\ Wired => D(t) = delay
         /\ \E f \in 1 .. Len(program.mux) :
              /\ f + Len(program.link[t][PipelineOut]) - 1 \in 1 .. Len(program.mux)
              /\ \A i \in 1 .. Len(program.mux) :
                   program.mux[i].thread = t <=> i \in f .. f + Len(program.link[t][PipelineOut]) - 1
<1> DEFINE L == Len(program.link[t][PipelineOut])
<1>1. DOMAIN program.mux = 1 .. Len(program.mux)
  BY DEF Linked, EndsAgree
<1>2. PipelineOut \in ToSet(program.dests[t])
  <2>1. program.dests[t] \in Seq(program.threads \cup {PipelineOut})
    BY DEF Linked, LinksAgree
  <2>2. j \in DOMAIN program.dests[t]
    BY <2>1
  <2> QED BY <2>2 DEF ToSet
<1>3. PICK f \in DOMAIN program.mux :
           /\ f + L - 1 \in DOMAIN program.mux
           /\ \A i \in DOMAIN program.mux : program.mux[i].thread = t <=> i \in f .. f + L - 1
  BY <1>2 DEF Linked, EndsAgree
<1>4. L \in Nat \ {0} /\ Len(program.mux) \in Nat
  <2>1. \A b : b = program.dests[t][j] => Len(program.link[t][b]) \in Nat \ {0}
    BY Outgoings
  <2> QED BY <2>1 DEF Linked, EndsAgree
<1> HIDE DEF L
<1>5. program.mux[f].thread = t
  <2>1. f \in 1 .. Len(program.mux) /\ f \in f .. f + L - 1
    BY <1>1, <1>3, <1>4
  <2> QED BY <1>1, <1>3, <2>1
<1>6. Wired => D(t) = delay
  BY <1>3, <1>5 DEF Wired
<1> QED BY <1>1, <1>3, <1>6 DEF L

\* The threads that have an input FIFO.
LEMMA InputIsSource ==
  ASSUME Linked
  PROVE  /\ Len(program.inputs) \in Nat \ {0}
         /\ \A i \in 1 .. Len(program.inputs) :
              /\ program.inputs[i] \in program.threads
              /\ program.inputs[i] \in ToSet(program.inputs)
              /\ PipelineIn \in program.sources[program.inputs[i]]
         /\ \A i, j \in 1 .. Len(program.inputs) :
              program.inputs[i] = program.inputs[j] => i = j
         /\ \A t \in program.threads :
              PipelineIn \in program.sources[t] => \E i \in 1 .. Len(program.inputs) : program.inputs[i] = t
<1> DEFINE ins == program.inputs
<1>1. /\ ins \in Seq(program.threads) /\ ins # <<>> /\ IsInjective(ins)
      /\ ToSet(ins) = {t \in program.threads : PipelineIn \in program.sources[t]}
  BY DEF Linked, EndsAgree
<1> HIDE DEF ins
<1>2. Len(ins) \in Nat \ {0} /\ DOMAIN ins = 1 .. Len(ins)
  BY <1>1, SeqFacts
<1>4. ASSUME NEW i \in 1 .. Len(ins)
      PROVE  ins[i] \in program.threads /\ ins[i] \in ToSet(ins) /\ PipelineIn \in program.sources[ins[i]]
  <2>1. ins[i] \in ToSet(ins)
    BY <1>2 DEF ToSet
  <2> QED BY <2>1, <1>1
<1>5. \A i, j \in 1 .. Len(ins) : ins[i] = ins[j] => i = j
  BY <1>1, <1>2 DEF IsInjective
<1>6. ASSUME NEW t \in program.threads, PipelineIn \in program.sources[t]
      PROVE  \E i \in 1 .. Len(ins) : ins[i] = t
  <2>1. t \in ToSet(ins)
    BY <1>1, <1>6
  <2> QED BY <2>1, <1>2 DEF ToSet
<1> QED BY <1>2, <1>4, <1>5, <1>6 DEF ins

-----------------------------------------------------------------------------
(* The invariant: r[t] counts what thread t has processed, c the source calls  *)
(* that have filled all FIFOs, k the sink calls.                             *)

\* The batches that thread t has received, and those that it has sent to its
\* j-th destination.
Got(r, t) == r[t] + (IF pc[t] = "process" THEN 1 ELSE 0)
Put(r, t, j) == r[t] + (IF pc[t] = "out" /\ dest[t] <= j THEN 0 ELSE 1)

\* How many edges thread t sends to b in a batch.
LinkLen(t, b) == Len(program.link[t][b])

\* A thread's place in its round.
PlaceInv(t) ==
  /\ pc[t] \in {"out", "select", "take", "process"}
  /\ dest[t] \in 1 .. Len(program.dests[t])
  /\ sent[t] \in 0 .. LinkLen(t, program.dests[t][dest[t]]) - 1
  /\ pc[t] # "out" => dest[t] = 1 /\ sent[t] = 0

\* A thread by itself: its place, the frame of what it has made, and the next
\* one's when it has received all.
NodeInv(r, t) ==
  /\ PlaceInv(t)
  /\ read_count[t] = IF pc[t] \in {"select", "take"} THEN 1 ELSE 0
  /\ edge[t] \in [program.edges[t] -> Frames]
  /\ \A e \in Own(program, t) : edge[t][e] = Fr(r[t] - D(t) + 1)
  /\ pc[t] = "process" => \A e \in Incoming(program, t) : edge[t][e] = Fr(r[t] - D(t) + 2)

\* A thread and the one that it receives from: as many batches have been sent
\* as received, and of the one under way both have counted the same edges.
LinkInv(r, t) ==
  IF Src(t) = PipelineIn THEN pc[t] # "take"
  ELSE /\ \A j \in 1 .. Len(program.dests[Src(t)]) :
            program.dests[Src(t)][j] = t => Put(r, Src(t), j) = Got(r, t)
       /\ Sending(Src(t), t) /\ sent[Src(t)] > 0 => pc[t] = "take"
       /\ pc[t] = "take" =>
            /\ Sending(Src(t), t)
            /\ from[t] = Src(t)
            /\ sent[Src(t)] > 0 /\ received[t] = sent[Src(t)]
            /\ \A i \in 1 .. sent[Src(t)] :
                 edge[t][program.link[Src(t)][t][i]] = Fr(r[t] - D(t) + 2)

\* The input FIFOs: a frame that was written and not read is in the slot.
FifoInv(r, c, i) ==
  LET t == program.inputs[i]
  IN  /\ Got(r, t) + (IF fifo[t] = Empty THEN 0 ELSE 1) = c + (IF i <= done THEN 1 ELSE 0)
      /\ fifo[t] # Empty => fifo[t] = Fr(Got(r, t) + 1)
      /\ done > 0 /\ done < i => fifo[t] = Empty

\* The source: the frame it writes, the FIFOs that the call has filled.
SourceInv(r, c) ==
  /\ c \in Nat
  /\ frame = Fr(c + 1)
  /\ done \in -1 .. Len(program.inputs) - 1
  /\ DOMAIN fifo = ToSet(program.inputs)
  /\ \A i \in 1 .. Len(program.inputs) : FifoInv(r, c, i)

\* The place in the sink's order of the first edge that thread t sends it.
First(t) ==
  CHOOSE f \in 1 .. Len(program.mux) :
    /\ f + LinkLen(t, PipelineOut) - 1 \in 1 .. Len(program.mux)
    /\ \A i \in 1 .. Len(program.mux) :
         program.mux[i].thread = t <=> i \in f .. f + LinkLen(t, PipelineOut) - 1
Past(t) == First(t) + LinkLen(t, PipelineOut) - 1

\* A thread and the sink.
OutInv(r, k, t) ==
  \A j \in 1 .. Len(program.dests[t]) :
    program.dests[t][j] = PipelineOut =>
      /\ Put(r, t, j) = IF reading /\ Len(data) < Past(t) THEN k - 1 ELSE k
      /\ reading /\ First(t) <= Len(data) /\ Len(data) < Past(t) => Sending(t, PipelineOut)
      /\ Sending(t, PipelineOut) =>
           sent[t] = IF reading /\ First(t) <= Len(data) /\ Len(data) < Past(t)
                     THEN Len(data) - First(t) + 1 ELSE 0

\* The sink: whatever the last call received is of one frame.
SinkInv(k) ==
  /\ k \in Nat
  /\ data \in Seq(Frames)
  /\ Len(data) <= Len(program.mux)
  /\ reading => Len(data) < Len(program.mux)
  /\ due = IF k <= delay THEN k - delay ELSE Fr(k - delay)
  /\ \A i \in 1 .. Len(data) : data[i] = Fr(k - delay)

\* Every thread has its variables.
Arrays ==
  /\ DOMAIN pc = program.threads /\ DOMAIN dest = program.threads
  /\ DOMAIN sent = program.threads /\ DOMAIN from = program.threads
  /\ DOMAIN received = program.threads /\ DOMAIN read_count = program.threads
  /\ DOMAIN edge = program.threads

\* All threads, the FIFOs and the sink.
PipeInv(r, c, k) ==
  /\ Arrays
  /\ r \in [program.threads -> Nat]
  /\ \A t \in program.threads : NodeInv(r, t) /\ LinkInv(r, t) /\ OutInv(r, k, t)
  /\ SourceInv(r, c)
  /\ SinkInv(k)

IInv ==
  /\ ProgramInv
  /\ OneSource(setup.design) => \E r, c, k : PipeInv(r, c, k)

-----------------------------------------------------------------------------
\* The design does not change.
LEMMA SameDesign ==
  ASSUME UNCHANGED design
  PROVE  /\ setup' = setup /\ program' = program /\ delay' = delay
         /\ ProgramInv => ProgramInv'
         /\ \A t : Src(t)' = Src(t) /\ D(t)' = D(t) /\ First(t)' = First(t) /\ Past(t)' = Past(t)
         /\ \A t, b : LinkLen(t, b)' = LinkLen(t, b)
<1>1. setup' = setup /\ program' = program /\ delay' = delay
  BY DEF design
<1>2. ProgramInv => ProgramInv'
  BY <1>1 DEF ProgramInv
<1>3. \A t : Src(t)' = Src(t)
  BY <1>1 DEF Src
<1>4. \A t : D(t)' = D(t)
  BY <1>1 DEF D
<1>5. \A t, b : LinkLen(t, b)' = LinkLen(t, b)
  BY <1>1 DEF LinkLen
<1>6. \A t : First(t)' = First(t)
  BY <1>1 DEF First, LinkLen
<1>7. \A t : Past(t)' = Past(t)
  BY <1>5, <1>6 DEF Past
<1> QED BY <1>1, <1>2, <1>3, <1>4, <1>5, <1>6, <1>7

\* The places of a thread's edges among the outputs.
LEMMA Places ==
  ASSUME Linked, NEW t \in program.threads, NEW j \in 1 .. Len(program.dests[t]),
         program.dests[t][j] = PipelineOut
  PROVE  /\ First(t) \in 1 .. Len(program.mux)
         /\ Past(t) \in 1 .. Len(program.mux)
         /\ Past(t) = First(t) + LinkLen(t, PipelineOut) - 1
         /\ \A i \in 1 .. Len(program.mux) :
              program.mux[i].thread = t <=> First(t) <= i /\ i <= Past(t)
         /\ Wired => D(t) = delay
         /\ LinkLen(t, PipelineOut) \in Nat \ {0}
<1> DEFINE Q(f) == /\ f + LinkLen(t, PipelineOut) - 1 \in 1 .. Len(program.mux)
                   /\ \A i \in 1 .. Len(program.mux) :
                        program.mux[i].thread = t <=> i \in f .. f + LinkLen(t, PipelineOut) - 1
<1>1. (Wired => D(t) = delay) /\ \E f \in 1 .. Len(program.mux) : Q(f)
  BY Outputs DEF LinkLen
<1>2. First(t) = CHOOSE f \in 1 .. Len(program.mux) : Q(f)
  BY DEF First
<1> HIDE DEF Q
<1>3. First(t) \in 1 .. Len(program.mux) /\ Q(First(t))
  BY <1>1, <1>2
<1>4. LinkLen(t, PipelineOut) \in Nat \ {0} /\ Len(program.mux) \in Nat
  <2>1. \A b : b = program.dests[t][j] => Len(program.link[t][b]) \in Nat \ {0}
    BY Outgoings
  <2> QED BY <2>1 DEF Linked, EndsAgree, LinkLen
<1>5. \A i \in 1 .. Len(program.mux) :
              program.mux[i].thread = t <=> First(t) <= i /\ i <= Past(t)
  BY <1>3, <1>4 DEF Q, Past
<1> QED BY <1>1, <1>3, <1>4, <1>5 DEF Q, Past

\* How the threads and the application start.
LEMMA InitPlaces ==
  ASSUME Init, Linked, NEW r, r = [t \in program.threads |-> 0]
  PROVE  /\ Arrays /\ r \in [program.threads -> Nat]
         /\ \A t \in program.threads :
              /\ PlaceInv(t) /\ OutInv(r, 0, t) /\ r[t] = 0
              /\ pc[t] = "out" /\ dest[t] = 1 /\ sent[t] = 0 /\ read_count[t] = 0
              /\ edge[t] = [e \in program.edges[t] |-> 0]
         /\ SourceInv(r, 0) /\ SinkInv(0)
<1>1. Arrays /\ r \in [program.threads -> Nat]
  BY DEF Init, Arrays
<1>2. Fr(0) = 0 /\ Fr(1) = 1
  <2>1. Fr(0) = 0 /\ NextFrame(Fr(0)) = Fr(0 + 1)
    BY FrNext
  <2> QED BY <2>1, NumFramesAssumption DEF NextFrame
<1>3. \A t \in program.threads :
         /\ r[t] = 0
         /\ pc[t] = "out" /\ dest[t] = 1 /\ sent[t] = 0 /\ read_count[t] = 0
         /\ edge[t] = [e \in program.edges[t] |-> 0]
  BY DEF Init
<1>4. ASSUME NEW t \in program.threads
      PROVE  PlaceInv(t) /\ OutInv(r, 0, t)
  <2>1. 1 \in 1 .. Len(program.dests[t]) /\ 0 \in 0 .. LinkLen(t, program.dests[t][1]) - 1
    <3>1. Len(program.dests[t]) \in Nat \ {0}
      BY Outgoings
    <3>2. \A b : b = program.dests[t][1] => LinkLen(t, b) \in Nat \ {0}
      BY <3>1, Outgoings DEF LinkLen
    <3> QED BY <3>1, <3>2
  <2>2. \A j \in 1 .. Len(program.dests[t]) : Put(r, t, j) = 0
    <3>1. r[t] = 0 /\ pc[t] = "out" /\ dest[t] = 1
      BY <1>3
    <3>2. \A j \in 1 .. Len(program.dests[t]) : 1 <= j
      BY <2>1
    <3> QED BY <3>1, <3>2 DEF Put
  <2>3. ~reading
    BY DEF Init
  <2> QED BY <2>1, <2>2, <2>3, <1>3 DEF PlaceInv, OutInv
<1>5. SourceInv(r, 0)
  <2>1. Len(program.inputs) \in Nat \ {0}
    BY InputIsSource
  <2>2. frame = 1 /\ done = -1 /\ fifo = [t \in ToSet(program.inputs) |-> Empty]
    BY DEF Init
  <2>3. ASSUME NEW i \in 1 .. Len(program.inputs)
        PROVE  FifoInv(r, 0, i)
    <3>1. program.inputs[i] \in program.threads /\ program.inputs[i] \in ToSet(program.inputs)
      BY InputIsSource
    <3>2. Got(r, program.inputs[i]) = 0
      <4>1. \A t \in program.threads : r[t] = 0 /\ pc[t] = "out"
        BY <1>3
      <4> QED BY <3>1, <4>1 DEF Got
    <3>3. fifo[program.inputs[i]] = Empty
      BY <2>2, <3>1
    <3> QED BY <2>1, <2>2, <3>2, <3>3 DEF FifoInv
  <2> QED BY <1>2, <2>1, <2>2, <2>3 DEF SourceInv
<1>6. SinkInv(0)
  <2>1. data = <<>> /\ reading = FALSE /\ due = 0 - delay
    BY DEF Init
  <2>2. Len(program.mux) \in Nat /\ Len(program.mux) > 0 /\ delay \in Nat
    BY DEF Linked, EndsAgree
  <2> QED BY <2>1, <2>2 DEF SinkInv
<1> QED BY <1>1, <1>3, <1>4, <1>5, <1>6

\* The invariant holds when the threads start.
LEMMA InitInv == Init => IInv
<1> SUFFICES ASSUME Init PROVE IInv
  OBVIOUS
<1>1. ProgramInv
  BY DEF Init, ProgramInv
<1>2. ASSUME OneSource(setup.design)
      PROVE  \E r, c, k : PipeInv(r, c, k)
  <2>1. Linked /\ Wired
    BY <1>1, <1>2, ProgramWired
  <2>2. PICK r : r = [t \in program.threads |-> 0]
    OBVIOUS
  <2>3. /\ Arrays /\ r \in [program.threads -> Nat]
        /\ \A t \in program.threads :
             /\ PlaceInv(t) /\ OutInv(r, 0, t) /\ r[t] = 0
             /\ pc[t] = "out" /\ dest[t] = 1 /\ sent[t] = 0 /\ read_count[t] = 0
             /\ edge[t] = [e \in program.edges[t] |-> 0]
        /\ SourceInv(r, 0) /\ SinkInv(0)
    BY <2>1, <2>2, InitPlaces
  <2>4. ASSUME NEW t \in program.threads
        PROVE  NodeInv(r, t) /\ LinkInv(r, t)
    <3>0. r[t] = 0 /\ pc[t] = "out"
      BY <2>3
    <3>1. Fr(r[t] - D(t) + 1) = 0
      <4>1. D(t) \in Nat \ {0}
        BY <2>1, Incomings
      <4>2. r[t] - D(t) + 1 \in Int /\ r[t] - D(t) + 1 <= 0
        BY <3>0, <4>1
      <4> QED BY <4>2, FrNext
    <3>2. NodeInv(r, t)
      <4>1. \A e \in Own(program, t) : e \in program.edges[t]
        BY DEF Own
      <4>2. 0 \in Frames
        BY NumFramesAssumption DEF Frames
      <4>3. edge[t] = [e \in program.edges[t] |-> 0]
        BY <2>3
      <4>4. edge[t] \in [program.edges[t] -> Frames] /\ \A e \in Own(program, t) : edge[t][e] = 0
        BY <4>1, <4>2, <4>3
      <4> QED BY <2>3, <3>1, <4>4 DEF NodeInv
    <3>3. LinkInv(r, t)
      <4>1. Got(r, t) = 0
        BY <3>0 DEF Got
      <4>2. ASSUME Src(t) # PipelineIn
            PROVE  /\ sent[Src(t)] = 0
                   /\ \A j \in 1 .. Len(program.dests[Src(t)]) : Put(r, Src(t), j) = 0
        <5>1. Src(t) \in program.threads
          BY <2>1, <4>2, Incomings
        <5>2. Len(program.dests[Src(t)]) \in Nat
          BY <2>1, <5>1, Outgoings
        <5>3. sent[Src(t)] = 0 /\ r[Src(t)] = 0 /\ pc[Src(t)] = "out" /\ dest[Src(t)] = 1
          BY <5>1, <2>3
        <5>4. \A j \in 1 .. Len(program.dests[Src(t)]) : 1 <= j
          BY <5>2
        <5> QED BY <5>3, <5>4 DEF Put
      <4>3. pc[t] = "out"
        BY <2>3
      <4> QED BY <4>1, <4>2, <4>3 DEF LinkInv
    <3> QED BY <3>2, <3>3
  <2>5. PipeInv(r, 0, 0)
    BY <2>3, <2>4 DEF PipeInv
  <2> QED BY <2>5
<1> QED BY <1>1, <1>2 DEF IInv

\* The FIFOs, in a step that leaves them and what their threads have got alone.
LEMMA FifosSame ==
  ASSUME Linked, UNCHANGED design, UNCHANGED <<fifo, frame, done>>,
         NEW r, NEW s, NEW c, SourceInv(r, c),
         \A x \in program.threads : PipelineIn \in program.sources[x] => Got(s, x)' = Got(r, x)
  PROVE  SourceInv(s, c)'
<1>1. program' = program
  BY SameDesign
<1>2. ASSUME NEW i \in 1 .. Len(program.inputs)
      PROVE  FifoInv(s, c, i)'
  <2>0. PICK x : x = program.inputs[i]
    OBVIOUS
  <2>1. FifoInv(r, c, i)
    BY DEF SourceInv
  <2>2. Got(s, x)' = Got(r, x)
    BY <2>0, InputIsSource
  <2> QED BY <2>0, <2>1, <2>2, <1>1 DEF FifoInv
<1> QED BY <1>1, <1>2 DEF SourceInv

\* A thread and the sink, in a step that is not the sink's.
LEMMA OutsSame ==
  ASSUME UNCHANGED design, data' = data, reading' = reading,
         NEW r, NEW s, NEW k, NEW x, OutInv(r, k, x),
         \A j \in 1 .. Len(program.dests[x]) :
           program.dests[x][j] = PipelineOut => Put(s, x, j)' = Put(r, x, j),
         \/ (Sending(x, PipelineOut)' <=> Sending(x, PipelineOut)) /\ sent'[x] = sent[x]
         \/ ~Sending(x, PipelineOut) /\ (Sending(x, PipelineOut)' => sent'[x] = 0)
  PROVE  OutInv(s, k, x)'
<1>1. /\ program' = program /\ First(x)' = First(x) /\ Past(x)' = Past(x)
  BY SameDesign
<1> QED BY <1>1 DEF OutInv

-----------------------------------------------------------------------------
(* A transaction, the sender's half *)

\* After an edge, thread t sends the next one; after the last of a batch, one
\* batch more has gone to that destination and nothing else has changed.
LEMMA SendStep ==
  ASSUME Linked, UNCHANGED design, Arrays,
         NEW r \in [program.threads -> Nat],
         NEW t \in program.threads, PlaceInv(t), pc[t] = "out",
         NEW newPc, DOMAIN newPc = program.threads, newPc[t] = "out",
         \A y \in program.threads : newPc[y] # pc[y] => newPc[y] # "out" /\ pc[y] # "out",
         SendNext(t, newPc),
         NEW b, b = program.dests[t][dest[t]],
         NEW last, last = (sent[t] + 1 = LinkLen(t, b))
  PROVE  /\ DOMAIN pc' = program.threads /\ DOMAIN dest' = program.threads
         /\ DOMAIN sent' = program.threads
         /\ \A y \in program.threads \ {t} :
              /\ pc'[y] = newPc[y] /\ dest'[y] = dest[y] /\ sent'[y] = sent[y]
              /\ \A j \in Nat : Put(r, y, j)' = Put(r, y, j)
              /\ \A x : Sending(y, x)' <=> Sending(y, x)
         /\ pc'[t] \in {"out", "select"}
         /\ dest'[t] \in 1 .. Len(program.dests[t])
         /\ sent'[t] \in 0 .. LinkLen(t, program.dests[t][dest'[t]]) - 1
         /\ pc'[t] = "select" => dest'[t] = 1 /\ sent'[t] = 0
         /\ pc'[t] = "select" <=> (last /\ dest[t] = Len(program.dests[t]))
         /\ last => sent'[t] = 0
         /\ ~last => pc'[t] = "out" /\ dest'[t] = dest[t] /\ sent'[t] = sent[t] + 1
         /\ Put(r, t, dest[t]) = r[t]
         /\ \A j \in 1 .. Len(program.dests[t]) :
              Put(r, t, j)' = IF j = dest[t] /\ last THEN Put(r, t, j) + 1 ELSE Put(r, t, j)
<1>1. /\ sent' = [sent EXCEPT ![t] = IF last THEN 0 ELSE @ + 1]
      /\ dest' = [dest EXCEPT ![t] =
           IF ~last THEN @ ELSE IF dest[t] = Len(program.dests[t]) THEN 1 ELSE @ + 1]
      /\ pc' = IF last /\ dest[t] = Len(program.dests[t]) THEN [newPc EXCEPT ![t] = "select"] ELSE newPc
  BY DEF SendNext, LinkLen
<1>2. /\ sent'[t] = IF last THEN 0 ELSE sent[t] + 1
      /\ dest'[t] = IF ~last THEN dest[t] ELSE IF dest[t] = Len(program.dests[t]) THEN 1 ELSE dest[t] + 1
      /\ pc'[t] = IF last /\ dest[t] = Len(program.dests[t]) THEN "select" ELSE "out"
      /\ DOMAIN pc' = program.threads /\ DOMAIN dest' = program.threads
      /\ DOMAIN sent' = program.threads
  BY <1>1 DEF Arrays
<1>3. \A y \in program.threads \ {t} : pc'[y] = newPc[y] /\ dest'[y] = dest[y] /\ sent'[y] = sent[y]
  BY <1>1 DEF Arrays
<1>4. /\ Len(program.dests[t]) \in Nat \ {0}
      /\ \A j \in 1 .. Len(program.dests[t]) : LinkLen(t, program.dests[t][j]) \in Nat \ {0}
  <2>1. Len(program.dests[t]) \in Nat \ {0}
    BY Outgoings
  <2>2. ASSUME NEW j \in 1 .. Len(program.dests[t])
        PROVE  LinkLen(t, program.dests[t][j]) \in Nat \ {0}
    <3>1. \A y : y = program.dests[t][j] => Len(program.link[t][y]) \in Nat \ {0}
      BY Outgoings
    <3> QED BY <3>1 DEF LinkLen
  <2> QED BY <2>1, <2>2
<1>5. dest[t] \in 1 .. Len(program.dests[t]) /\ sent[t] \in 0 .. LinkLen(t, b) - 1
  BY DEF PlaceInv
<1>6. dest'[t] \in 1 .. Len(program.dests[t])
  BY <1>2, <1>4, <1>5
<1>7. sent'[t] \in 0 .. LinkLen(t, program.dests[t][dest'[t]]) - 1
  <2>1. CASE last
    <3>1. sent'[t] = 0 /\ LinkLen(t, program.dests[t][dest'[t]]) \in Nat \ {0}
      BY <2>1, <1>2, <1>4, <1>6
    <3> QED BY <3>1
  <2>2. CASE ~last
    <3>1. dest'[t] = dest[t] /\ sent'[t] = sent[t] + 1 /\ sent[t] + 1 # LinkLen(t, b)
      BY <2>2, <1>2
    <3>2. LinkLen(t, b) \in Nat
      BY <1>4, <1>5
    <3> QED BY <3>1, <3>2, <1>5
  <2> QED BY <2>1, <2>2
<1>8. \A y \in program.threads \ {t} : /\ \A j \in Nat : Put(r, y, j)' = Put(r, y, j)
                                       /\ \A x : Sending(y, x)' <=> Sending(y, x)
  <2> TAKE y \in program.threads \ {t}
  <2>1. pc'[y] = "out" <=> pc[y] = "out"
    BY <1>3
  <2>2. program' = program /\ dest'[y] = dest[y]
    BY <1>3, SameDesign
  <2> QED BY <2>1, <2>2 DEF Put, Sending
<1>9. Put(r, t, dest[t]) = r[t]
  BY <1>5 DEF Put
<1>10. \A j \in 1 .. Len(program.dests[t]) :
         Put(r, t, j)' = IF j = dest[t] /\ last THEN Put(r, t, j) + 1 ELSE Put(r, t, j)
  BY <1>2, <1>4, <1>5 DEF Put
<1> QED BY <1>2, <1>3, <1>6, <1>7, <1>8, <1>9, <1>10

\* What that is to the sink, when the batch goes to another thread.
LEMMA OutsAfterSend ==
  ASSUME Linked, UNCHANGED design, data' = data, reading' = reading,
         NEW r, NEW k, NEW t \in program.threads, pc[t] = "out",
         program.dests[t][dest[t]] # PipelineOut, NEW last,
         \A y \in program.threads \ {t} :
           /\ sent'[y] = sent[y]
           /\ \A j \in Nat : Put(r, y, j)' = Put(r, y, j)
           /\ \A z : Sending(y, z)' <=> Sending(y, z),
         last => sent'[t] = 0,
         ~last => dest'[t] = dest[t],
         \A j \in 1 .. Len(program.dests[t]) :
           Put(r, t, j)' = IF j = dest[t] /\ last THEN Put(r, t, j) + 1 ELSE Put(r, t, j),
         NEW x \in program.threads, OutInv(r, k, x)
  PROVE  OutInv(r, k, x)'
<1>1. program' = program
  BY SameDesign
<1>2. CASE x = t
  <2>1. ~Sending(t, PipelineOut)
    BY DEF Sending
  <2>2. Sending(t, PipelineOut)' => last
    BY <1>1 DEF Sending
  <2>3. \A j \in 1 .. Len(program.dests[t]) :
          program.dests[t][j] = PipelineOut => Put(r, t, j)' = Put(r, t, j)
    OBVIOUS
  <2> QED BY <1>2, <2>1, <2>2, <2>3, OutsSame
<1>3. CASE x # t
  <2>1. Len(program.dests[x]) \in Nat
    BY Outgoings
  <2>2. \A j \in 1 .. Len(program.dests[x]) : Put(r, x, j)' = Put(r, x, j)
    BY <1>3, <2>1
  <2>3. sent'[x] = sent[x] /\ (Sending(x, PipelineOut)' <=> Sending(x, PipelineOut))
    BY <1>3
  <2> QED BY <2>2, <2>3, OutsSame
<1> QED BY <1>2, <1>3

\* The round of reads of a thread with one source is one read.
LEMMA ReloadedOnce ==
  ASSUME Linked, Wired, NEW t \in program.threads, Arrays
  PROVE  /\ DOMAIN Reloaded(t) = program.threads
         /\ \A y \in program.threads \ {t} : Reloaded(t)[y] = read_count[y]
         /\ Reloaded(t)[t] =
              IF /\ sent[t] + 1 = LinkLen(t, program.dests[t][dest[t]])
                 /\ dest[t] = Len(program.dests[t])
              THEN 1 ELSE read_count[t]
<1>1. Cardinality(program.sources[t]) = 1
  <2>1. program.sources[t] = {Src(t)}
    BY Incomings
  <2> QED BY <2>1, FS_Singleton
<1> QED BY <1>1 DEF Reloaded, LinkLen, Arrays

-----------------------------------------------------------------------------
(* Threads *)

\* What a thread receives is one frame, the one after what it last made.
LEMMA TransferInv ==
  ASSUME Linked, Wired, NEW r, NEW c, NEW k, PipeInv(r, c, k),
         NEW t \in program.threads, NEW u \in program.threads, Transfer(t, u)
  PROVE  PipeInv(r, c, k)'
<1> DEFINE n == sent[t] + 1
           L == LinkLen(t, u)
           last == n = L
           e0 == program.link[t][u][n]
           v == Fr(r[u] - D(u) + 2)
\* What is known before the step.
<1>1. /\ Arrays /\ r \in [program.threads -> Nat]
      /\ \A x \in program.threads : NodeInv(r, x) /\ LinkInv(r, x) /\ OutInv(r, k, x)
      /\ SourceInv(r, c) /\ SinkInv(k)
  BY DEF PipeInv
<1>2. UNCHANGED design /\ UNCHANGED <<fifo, frame, done, data, reading, due>>
  BY DEF Transfer, sourceVars, sinkVars
<1>3. pc[t] = "out" /\ program.dests[t][dest[t]] = u /\ dest[t] \in 1 .. Len(program.dests[t])
  BY <1>1 DEF Transfer, Sending, NodeInv, PlaceInv
<1>4. u # t /\ Src(u) = t /\ L \in Nat \ {0} /\ u # PipelineOut /\ t # PipelineIn
  <2>1. t \in Nat /\ u \in Nat
    BY Outgoings
  <2>2. u # PipelineOut /\ t # PipelineIn
    BY <2>1 DEF PipelineOut, PipelineIn
  <2>3. ASSUME NEW j \in 1 .. Len(program.dests[t]), u = program.dests[t][j]
        PROVE  /\ u = PipelineOut \/ (u # t /\ t \in program.sources[u])
               /\ Len(program.link[t][u]) \in Nat \ {0}
    BY <2>3, Outgoings
  <2>4. program.sources[u] = {Src(u)}
    BY Incomings
  <2> QED BY <1>3, <2>2, <2>3, <2>4 DEF LinkLen
<1>5. Sending(t, u)
  BY DEF Transfer
<1>6. /\ pc[u] \in {"select", "take"}
      /\ pc[u] = "take" <=> sent[t] > 0
      /\ sent[t] \in 0 .. L - 1
      /\ pc[u] = "take" => received[u] = sent[t]
      /\ \A i \in 1 .. sent[t] : edge[u][program.link[t][u][i]] = v
  <2>1. pc[u] \in {"select", "take"}
    BY DEF Transfer, Receiving
  <2>2. sent[t] \in 0 .. L - 1
    BY <1>1, <1>3 DEF NodeInv, PlaceInv
  <2>3. LinkInv(r, u)
    BY <1>1
  <2> QED BY <2>1, <2>2, <2>3, <1>4, <1>5 DEF LinkInv
<1>7. /\ n \in 1 .. L
      /\ e0 \in Own(program, t) /\ e0 \in Incoming(program, u) /\ Outgoing(t) = e0
  <2>1. n \in 1 .. L
    BY <1>4, <1>6
  <2>2. e0 \in Own(program, t)
    <3>1. ASSUME NEW j \in 1 .. Len(program.dests[t]), u = program.dests[t][j]
          PROVE  \A i \in 1 .. Len(program.link[t][u]) : program.link[t][u][i] \in Own(program, t)
      BY <3>1, Outgoings
    <3> QED BY <1>3, <2>1, <3>1 DEF LinkLen
  <2>3. e0 \in Incoming(program, u)
    BY <2>1, <1>4, Incomings DEF LinkLen
  <2> QED BY <2>1, <2>2, <2>3, <1>3 DEF Outgoing
<1>8. Put(r, t, dest[t]) = r[u] /\ Got(r, u) = r[u] /\ r[u] \in Nat
  <2>1. LinkInv(r, u)
    BY <1>1
  <2>2. Put(r, t, dest[t]) = Got(r, u)
    BY <2>1, <1>3, <1>4 DEF LinkInv
  <2> QED BY <2>2, <1>1, <1>6 DEF Got
<1>9. edge[t][e0] = v
  <2>1. edge[t][e0] = Fr(r[t] - D(t) + 1)
    BY <1>1, <1>7 DEF NodeInv, PlaceInv
  <2>2. r[t] = r[u]
    BY <1>1, <1>3, <1>8 DEF Put
  <2>3. D(u) = D(t) + 1 /\ D(t) \in Nat
    BY <1>4, Incomings
  <2>4. r[t] - D(t) + 1 = r[u] - D(u) + 2
    BY <2>2, <2>3, <1>8
  <2> QED BY <2>1, <2>4
\* What the step does.
<1> DEFINE newPc == [pc EXCEPT ![u] = IF last THEN "process" ELSE "take"]
<1>10. /\ edge' = [edge EXCEPT ![u][e0] = v]
       /\ received' = [received EXCEPT ![u] = IF last THEN 0 ELSE n]
       /\ from' = [from EXCEPT ![u] = IF last THEN PipelineIn ELSE t]
       /\ read_count' = [Reloaded(t) EXCEPT ![u] = IF last THEN @ - 1 ELSE @]
       /\ SendNext(t, newPc)
  <2>1. (IF pc[u] = "take" THEN received[u] + 1 ELSE 1) = n
    BY <1>6
  <2>2. AfterCase(u) = "process"
    BY <1>1, <1>6 DEF NodeInv, PlaceInv, AfterCase
  <2> HIDE DEF n, e0, v
  <2> QED BY <2>1, <2>2, <1>7, <1>9 DEF Transfer, LinkLen
<1>11. /\ DOMAIN newPc = program.threads /\ newPc[t] = "out"
       /\ newPc[u] = IF last THEN "process" ELSE "take"
       /\ \A y \in program.threads \ {u} : newPc[y] = pc[y]
       /\ \A y \in program.threads : newPc[y] # pc[y] => newPc[y] # "out" /\ pc[y] # "out"
  BY <1>1, <1>3, <1>4, <1>6 DEF Arrays
<1> HIDE DEF newPc
<1>12. /\ DOMAIN pc' = program.threads /\ DOMAIN dest' = program.threads
       /\ DOMAIN sent' = program.threads
       /\ \A y \in program.threads \ {t} :
            /\ pc'[y] = newPc[y] /\ dest'[y] = dest[y] /\ sent'[y] = sent[y]
            /\ \A j \in Nat : Put(r, y, j)' = Put(r, y, j)
            /\ \A x : Sending(y, x)' <=> Sending(y, x)
       /\ pc'[t] \in {"out", "select"}
       /\ dest'[t] \in 1 .. Len(program.dests[t])
       /\ sent'[t] \in 0 .. LinkLen(t, program.dests[t][dest'[t]]) - 1
       /\ pc'[t] = "select" => dest'[t] = 1 /\ sent'[t] = 0
       /\ pc'[t] = "select" <=> (last /\ dest[t] = Len(program.dests[t]))
       /\ last => sent'[t] = 0
       /\ ~last => pc'[t] = "out" /\ dest'[t] = dest[t] /\ sent'[t] = n
       /\ \A j \in 1 .. Len(program.dests[t]) :
            Put(r, t, j)' = IF j = dest[t] /\ last THEN Put(r, t, j) + 1 ELSE Put(r, t, j)
  <2>1. PlaceInv(t)
    BY <1>1 DEF NodeInv
  <2>2. last = (sent[t] + 1 = LinkLen(t, u))
    OBVIOUS
  <2>3. SendNext(t, newPc)
    BY <1>10
  <2>4. n = sent[t] + 1
    OBVIOUS
  <2>5. /\ Linked /\ Arrays /\ r \in [program.threads -> Nat] /\ UNCHANGED design
        /\ pc[t] = "out" /\ u = program.dests[t][dest[t]]
    BY <1>1, <1>2, <1>3
  <2>6. /\ DOMAIN newPc = program.threads /\ newPc[t] = "out"
        /\ \A y \in program.threads : newPc[y] # pc[y] => newPc[y] # "out" /\ pc[y] # "out"
    BY <1>11
  <2> HIDE DEF last, n
  <2> QED BY <2>1, <2>2, <2>3, <2>4, <2>5, <2>6, SendStep
<1>13. pc'[u] = IF last THEN "process" ELSE "take"
  BY <1>4, <1>11, <1>12
<1>14. /\ DOMAIN edge' = program.threads /\ DOMAIN received' = program.threads
       /\ DOMAIN from' = program.threads /\ DOMAIN read_count' = program.threads
       /\ edge'[u] = [edge[u] EXCEPT ![e0] = v]
       /\ received'[u] = IF last THEN 0 ELSE n
       /\ from'[u] = IF last THEN PipelineIn ELSE t
       /\ read_count'[u] = IF last THEN 0 ELSE 1
       /\ read_count'[t] = IF last /\ dest[t] = Len(program.dests[t]) THEN 1 ELSE 0
       /\ \A y \in program.threads \ {u} :
            edge'[y] = edge[y] /\ received'[y] = received[y] /\ from'[y] = from[y]
       /\ \A y \in program.threads \ {t, u} : read_count'[y] = read_count[y]
  <2>1. read_count[u] = 1 /\ read_count[t] = 0
    BY <1>1, <1>3, <1>6 DEF NodeInv, PlaceInv
  <2>2. /\ DOMAIN Reloaded(t) = program.threads
        /\ \A y \in program.threads \ {t} : Reloaded(t)[y] = read_count[y]
        /\ Reloaded(t)[t] = IF last /\ dest[t] = Len(program.dests[t]) THEN 1 ELSE 0
    BY <2>1, <1>1, <1>3, ReloadedOnce
  <2> HIDE DEF n, e0, v, last
  <2>3. /\ DOMAIN read_count' = program.threads
        /\ read_count'[u] = IF last THEN 0 ELSE 1
        /\ read_count'[t] = IF last /\ dest[t] = Len(program.dests[t]) THEN 1 ELSE 0
        /\ \A y \in program.threads \ {t, u} : read_count'[y] = read_count[y]
    BY <2>1, <2>2, <1>4, <1>10
  <2>4. /\ DOMAIN edge' = program.threads /\ edge'[u] = [edge[u] EXCEPT ![e0] = v]
        /\ \A y \in program.threads \ {u} : edge'[y] = edge[y]
    BY <1>1, <1>10 DEF Arrays
  <2>5. /\ DOMAIN received' = program.threads /\ DOMAIN from' = program.threads
        /\ received'[u] = IF last THEN 0 ELSE n
        /\ from'[u] = IF last THEN PipelineIn ELSE t
        /\ \A y \in program.threads \ {u} : received'[y] = received[y] /\ from'[y] = from[y]
    BY <1>1, <1>10 DEF Arrays
  <2> QED BY <2>3, <2>4, <2>5
\* Nothing else reads or writes the edges.
<1>15. /\ program' = program /\ setup' = setup /\ delay' = delay
       /\ \A x : Src(x)' = Src(x) /\ D(x)' = D(x) /\ First(x)' = First(x) /\ Past(x)' = Past(x)
       /\ \A x, b : LinkLen(x, b)' = LinkLen(x, b)
  BY <1>2, SameDesign
<1> HIDE DEF last, n, L, e0, v
<1>16. \A x \in program.threads :
         Got(r, x)' = IF x = u /\ last THEN Got(r, x) + 1 ELSE Got(r, x)
  <2> TAKE x \in program.threads
  <2>1. CASE x = u
    BY <2>1, <1>6, <1>8, <1>13 DEF Got
  <2>2. CASE x = t
    BY <2>2, <1>3, <1>4, <1>12 DEF Got
  <2>3. CASE x # u /\ x # t
    <3>1. pc'[x] = pc[x]
      BY <2>3, <1>11, <1>12
    <3> QED BY <2>3, <3>1 DEF Got
  <2> QED BY <2>1, <2>2, <2>3
<1>17. ASSUME NEW x \in program.threads
       PROVE  NodeInv(r, x)'
  <2>1. NodeInv(r, x)
    BY <1>1
  <2>2. CASE x = t
    <3>1. edge'[t] = edge[t] /\ pc'[t] \in {"out", "select"}
      BY <1>4, <1>12, <1>14
    <3> QED BY <2>1, <2>2, <3>1, <1>3, <1>12, <1>14, <1>15 DEF NodeInv, PlaceInv, Own
  <2>3. CASE x = u
    <3>1. /\ v \in Frames /\ e0 \in program.edges[u] /\ e0 \notin Own(program, u)
      <4>1. r[u] - D(u) + 2 \in Int
        BY <1>8, Incomings
      <4>2. v \in Frames
        BY <4>1, FrNext DEF v
      <4> QED BY <4>2, <1>7 DEF Incoming
    <3>2. edge[u] \in [program.edges[u] -> Frames]
      BY <2>1, <2>3 DEF NodeInv, PlaceInv
    <3>3. edge'[u] \in [program.edges[u] -> Frames]
      BY <3>1, <3>2, <1>14
    <3>4. \A e \in Own(program, u) : edge'[u][e] = Fr(r[u] - D(u) + 1)
      <4>1. \A e \in Own(program, u) : e \in program.edges[u] /\ edge[u][e] = Fr(r[u] - D(u) + 1)
        BY <2>1, <2>3 DEF NodeInv, PlaceInv, Own
      <4> QED BY <4>1, <3>1, <3>2, <1>14
    <3>5. ASSUME last
          PROVE  \A e \in Incoming(program, u) : edge'[u][e] = v
      <4> TAKE e \in Incoming(program, u)
      <4>1. PICK i \in 1 .. L : program.link[t][u][i] = e
        BY <1>4, Incomings DEF LinkLen, L
      <4>2. i \in 1 .. sent[t] \/ i = n
        BY <3>5, <1>4, <1>6 DEF last, n
      <4>3. e \in program.edges[u]
        BY DEF Incoming
      <4>4. CASE i \in 1 .. sent[t]
        <5>1. edge[u][e] = v
          BY <4>1, <4>4, <1>6
        <5> QED BY <5>1, <4>3, <3>2, <1>14
      <4>5. CASE i = n
        BY <4>1, <4>3, <4>5, <3>2, <1>14 DEF e0
      <4> QED BY <4>2, <4>4, <4>5
    <3>6. dest'[u] = 1 /\ sent'[u] = 0 /\ dest'[u] \in 1 .. Len(program.dests[u])
          /\ sent'[u] \in 0 .. LinkLen(u, program.dests[u][dest'[u]]) - 1
      BY <2>1, <2>3, <1>4, <1>6, <1>12 DEF NodeInv, PlaceInv
    <3> QED BY <2>3, <3>3, <3>4, <3>5, <3>6, <1>13, <1>14, <1>15 DEF NodeInv, PlaceInv, Own, Incoming, v
  <2>4. CASE x # t /\ x # u
    <3>1. /\ pc'[x] = pc[x] /\ dest'[x] = dest[x] /\ sent'[x] = sent[x]
          /\ edge'[x] = edge[x] /\ read_count'[x] = read_count[x]
      BY <2>4, <1>11, <1>12, <1>14
    <3> QED BY <2>1, <3>1, <1>15 DEF NodeInv, PlaceInv, Own, Incoming
  <2> QED BY <2>2, <2>3, <2>4
<1>18. ASSUME NEW x \in program.threads
       PROVE  LinkInv(r, x)'
  <2>0. PICK a : a = Src(x)
    OBVIOUS
  <2>1. LinkInv(r, x)
    BY <1>1
  <2>2. CASE a = PipelineIn
    <3>1. pc[x] # "take" /\ x # u
      BY <2>0, <2>1, <2>2, <1>4 DEF LinkInv
    <3>2. pc'[x] # "take"
      BY <3>1, <1>11, <1>12
    <3> QED BY <2>0, <2>2, <3>2, <1>15 DEF LinkInv
  <2>3. CASE x = u
    <3>1. \A j \in 1 .. Len(program.dests[t]) : program.dests[t][j] = u => j = dest[t]
      BY <1>3, Outgoings
    <3>2. \A j \in 1 .. Len(program.dests[t]) :
            program.dests[t][j] = u => Put(r, t, j)' = Got(r, u)'
      BY <3>1, <1>8, <1>12, <1>16
    <3>3. Sending(t, u)' /\ sent'[t] > 0 => ~last
      BY <1>12
    <3>4. ~last => /\ Sending(t, u)' /\ sent'[t] = n
      BY <1>3, <1>12, <1>15 DEF Sending
    <3>5. ~last => \A i \in 1 .. n : edge'[u][program.link[t][u][i]] = v
      <4> SUFFICES ASSUME NEW i \in 1 .. n
                   PROVE  edge'[u][program.link[t][u][i]] = v
        OBVIOUS
      <4>1. edge[u] \in [program.edges[u] -> Frames]
        BY <1>1 DEF NodeInv, PlaceInv
      <4>2. program.link[t][u][i] \in program.edges[u]
        <5>1. i \in 1 .. Len(program.link[t][u])
          BY <1>4, <1>7 DEF L, LinkLen
        <5>2. program.link[t][u][i] \in Incoming(program, u)
          BY <5>1, <1>4, Incomings
        <5> QED BY <5>2 DEF Incoming
      <4>3. CASE i \in 1 .. sent[t]
        <5>1. edge[u][program.link[t][u][i]] = v
          BY <4>3, <1>6
        <5> QED BY <5>1, <4>1, <4>2, <1>14
      <4>4. CASE i = n
        BY <4>1, <4>2, <4>4, <1>14 DEF e0
      <4> QED BY <4>3, <4>4, <1>6 DEF n
    <3>6. n > 0 /\ n \in Int
      BY <1>4, <1>7
    <3> QED BY <2>3, <3>2, <3>3, <3>4, <3>5, <3>6, <1>4, <1>13, <1>14, <1>15 DEF LinkInv, v
  <2>4. CASE a # PipelineIn /\ x # u
    <3>1. a \in program.threads /\ a # x
      BY <2>0, <2>4, Incomings
    <3>2. edge'[x] = edge[x] /\ from'[x] = from[x] /\ received'[x] = received[x]
      BY <2>4, <1>14
    <3>3. pc'[x] = "take" <=> pc[x] = "take"
      BY <2>4, <1>3, <1>11, <1>12
    <3>4. Got(r, x)' = Got(r, x)
      BY <2>4, <1>16
    <3>5. CASE a = t
      <4>1. \A j \in 1 .. Len(program.dests[t]) : program.dests[t][j] = x => j # dest[t]
        BY <1>3, <2>4
      <4>2. \A j \in 1 .. Len(program.dests[t]) :
              program.dests[t][j] = x => Put(r, t, j)' = Got(r, x)'
        BY <2>0, <2>1, <2>4, <3>4, <3>5, <4>1, <1>12 DEF LinkInv
      <4>3. ~(Sending(t, x)' /\ sent'[t] > 0)
        <5> SUFFICES ASSUME Sending(t, x)', sent'[t] > 0 PROVE FALSE
          OBVIOUS
        <5>1. ~last
          BY <1>12
        <5>2. dest'[t] = dest[t]
          BY <5>1, <1>12
        <5> QED BY <5>2, <1>3, <1>15, <2>4 DEF Sending
      <4>4. pc[x] # "take"
        <5>1. ~Sending(t, x)
          BY <1>3, <2>4 DEF Sending
        <5> QED BY <5>1, <2>0, <2>1, <2>4, <3>5 DEF LinkInv
      <4> QED BY <2>0, <2>4, <3>3, <3>5, <4>2, <4>3, <4>4, <1>15 DEF LinkInv
    <3>6. CASE a # t
      <4>1. /\ \A j \in Nat : Put(r, a, j)' = Put(r, a, j)
            /\ sent'[a] = sent[a] /\ (Sending(a, x)' <=> Sending(a, x))
        BY <3>1, <3>6, <1>12
      <4>2. Len(program.dests[a]) \in Nat
        BY <3>1, Outgoings
      <4>3. \A j \in 1 .. Len(program.dests[a]) : Put(r, a, j)' = Put(r, a, j)
        BY <4>1, <4>2
      <4> QED BY <2>0, <2>1, <2>4, <3>2, <3>3, <3>4, <4>1, <4>3, <1>15 DEF LinkInv
    <3> QED BY <3>5, <3>6
  <2> QED BY <2>2, <2>3, <2>4
<1>19. ASSUME NEW x \in program.threads
       PROVE  OutInv(r, k, x)'
  <2>1. OutInv(r, k, x)
    BY <1>1
  <2>2. data' = data /\ reading' = reading
    BY <1>2
  <2> QED BY <2>1, <2>2, <1>2, <1>3, <1>4, <1>12, OutsAfterSend
<1>20. SourceInv(r, c)'
  <2>1. \A x \in program.threads : PipelineIn \in program.sources[x] => Got(r, x)' = Got(r, x)
    <3> SUFFICES ASSUME NEW x \in program.threads, PipelineIn \in program.sources[x]
                 PROVE  Got(r, x)' = Got(r, x)
      OBVIOUS
    <3>1. Src(x) = PipelineIn
      BY Incomings
    <3> QED BY <3>1, <1>4, <1>16
  <2> QED BY <2>1, <1>1, <1>2, FifosSame
<1>21. SinkInv(k)'
  BY <1>1, <1>2, <1>15 DEF SinkInv
<1>22. Arrays'
  BY <1>12, <1>14, <1>15 DEF Arrays
<1> QED BY <1>1, <1>15, <1>17, <1>18, <1>19, <1>20, <1>21, <1>22 DEF PipeInv

\* A step of thread t alone, outside its sends, leaves what it has sent and what
\* others have received of it as they were.
LEMMA LocalStep ==
  ASSUME Linked, Wired, NEW r, NEW c, NEW k, PipeInv(r, c, k),
         NEW s \in [program.threads -> Nat],
         NEW t \in program.threads,
         UNCHANGED <<design, dest, sent, from, received, data, reading, due>>,
         \A x \in program.threads \ {t} :
           s[x] = r[x] /\ pc'[x] = pc[x] /\ edge'[x] = edge[x] /\ read_count'[x] = read_count[x],
         pc[t] \in {"select", "process"}, pc'[t] # "take",
         s[t] + (IF pc'[t] = "out" THEN 0 ELSE 1) = r[t] + 1,
         Src(t) = PipelineIn \/ Got(s, t)' = Got(r, t)
  PROVE  /\ \A x \in program.threads \ {t} : NodeInv(s, x)' /\ Got(s, x)' = Got(r, x)
         /\ \A x \in program.threads : LinkInv(s, x)' /\ OutInv(s, k, x)'
<1>1. /\ r \in [program.threads -> Nat]
      /\ \A x \in program.threads : NodeInv(r, x) /\ LinkInv(r, x) /\ OutInv(r, k, x)
  BY DEF PipeInv
<1>2. /\ program' = program /\ setup' = setup /\ delay' = delay
      /\ \A x : Src(x)' = Src(x) /\ D(x)' = D(x) /\ First(x)' = First(x) /\ Past(x)' = Past(x)
      /\ \A x, b : LinkLen(x, b)' = LinkLen(x, b)
  BY SameDesign
<1>3. dest[t] = 1 /\ sent[t] = 0
  BY <1>1 DEF NodeInv, PlaceInv
<1>4. ASSUME NEW x \in program.threads \ {t}
      PROVE  NodeInv(s, x)' /\ Got(s, x)' = Got(r, x)
  <2>1. NodeInv(r, x)
    BY <1>1
  <2>2. s[x] = r[x] /\ pc'[x] = pc[x] /\ dest'[x] = dest[x] /\ sent'[x] = sent[x]
        /\ edge'[x] = edge[x] /\ read_count'[x] = read_count[x]
    OBVIOUS
  <2>3. NodeInv(s, x)'
    BY <2>1, <2>2, <1>2 DEF NodeInv, PlaceInv, Own, Incoming
  <2> QED BY <2>2, <2>3 DEF Got
<1>5. ASSUME NEW x \in program.threads, NEW j \in 1 .. Len(program.dests[x])
      PROVE  Put(s, x, j)' = Put(r, x, j)
  <2>1. CASE x = t
    <3>1. s[t] \in Nat /\ r[t] \in Nat /\ 1 <= j
      BY <1>1
    <3> QED BY <2>1, <3>1, <1>3 DEF Put
  <2>2. CASE x # t
    <3>1. s[x] = r[x] /\ pc'[x] = pc[x] /\ dest'[x] = dest[x]
      BY <2>2
    <3> QED BY <3>1 DEF Put
  <2> QED BY <2>1, <2>2
<1>6. /\ \A x \in program.threads \ {t} : \A b : Sending(x, b)' <=> Sending(x, b)
      /\ \A b : ~Sending(t, b)
  BY <1>2 DEF Sending
<1>7. ASSUME NEW x \in program.threads
      PROVE  LinkInv(s, x)'
  <2>0. PICK a : a = Src(x)
    OBVIOUS
  <2>1. LinkInv(r, x)
    BY <1>1
  <2>2. pc'[x] = "take" <=> pc[x] = "take"
    OBVIOUS
  <2>3. CASE a = PipelineIn
    BY <2>0, <2>1, <2>2, <2>3, <1>2 DEF LinkInv
  <2>4. CASE a # PipelineIn
    <3>1. a \in program.threads /\ a # x
      BY <2>0, <2>4, Incomings
    <3>2. Got(s, x)' = Got(r, x)
      BY <2>0, <2>4, <1>4
    <3>3. \A j \in 1 .. Len(program.dests[a]) : Put(s, a, j)' = Put(r, a, j)
      BY <3>1, <1>5
    <3>4. Sending(a, x)' /\ sent'[a] > 0 => Sending(a, x) /\ sent[a] > 0
      <4>1. sent'[a] = sent[a] /\ (a = t => sent[a] = 0)
        BY <1>3
      <4> QED BY <3>1, <4>1, <1>6
    <3>5. pc[x] = "take" =>
            /\ Sending(a, x)' /\ edge'[x] = edge[x] /\ s[x] = r[x]
      <4>1. pc[x] = "take" => Sending(a, x) /\ a # t /\ x # t
        BY <2>0, <2>1, <2>4, <1>6 DEF LinkInv
      <4> QED BY <3>1, <4>1, <1>6
    <3>6. sent' = sent /\ from' = from /\ received' = received
      OBVIOUS
    <3> QED BY <2>0, <2>1, <2>2, <2>4, <3>2, <3>3, <3>4, <3>5, <3>6, <1>2 DEF LinkInv
  <2> QED BY <2>3, <2>4
<1>8. ASSUME NEW x \in program.threads
      PROVE  OutInv(s, k, x)'
  <2>1. OutInv(r, k, x)
    BY <1>1
  <2>2. \A j \in 1 .. Len(program.dests[x]) : Put(s, x, j)' = Put(r, x, j)
    BY <1>5
  <2>3. /\ x # t => (Sending(x, PipelineOut)' <=> Sending(x, PipelineOut))
        /\ x = t => ~Sending(x, PipelineOut) /\ sent[x] = 0
        /\ sent' = sent
    BY <1>3, <1>6
  <2> QED BY <2>1, <2>2, <2>3, OutsSame
<1> QED BY <1>4, <1>7, <1>8

\* The FIFOs, when a thread takes the frame in its own.
LEMMA FifoTaken ==
  ASSUME Linked, NEW r, NEW c, SourceInv(r, c),
         NEW t \in program.threads, TakeInput(t), Got(r, t) \in Int, Got(r, t)' = Got(r, t) + 1,
         \A x \in program.threads \ {t} : Got(r, x)' = Got(r, x)
  PROVE  fifo[t] = Fr(Got(r, t) + 1) /\ fifo[t] \in Frames /\ SourceInv(r, c)'
<1>1. /\ UNCHANGED design /\ frame' = frame /\ done' = done
      /\ fifo[t] # Empty /\ fifo' = [fifo EXCEPT ![t] = Empty]
  BY DEF TakeInput, sourceVars
<1>2. program' = program
  BY <1>1, SameDesign
<1>3. PICK i0 \in 1 .. Len(program.inputs) : program.inputs[i0] = t
  BY InputIsSource DEF TakeInput
<1>4. fifo[t] = Fr(Got(r, t) + 1)
  <2>1. FifoInv(r, c, i0)
    BY DEF SourceInv
  <2> QED BY <2>1, <1>1, <1>3 DEF FifoInv
<1>5. ASSUME NEW i \in 1 .. Len(program.inputs)
      PROVE  FifoInv(r, c, i)'
  <2>0. PICK x : x = program.inputs[i]
    OBVIOUS
  <2>1. FifoInv(r, c, i) /\ c \in Nat
    BY DEF SourceInv
  <2>2. x \in program.threads /\ x \in DOMAIN fifo
    BY <2>0, InputIsSource DEF SourceInv
  <2>3. CASE x = t
    <3>1. fifo'[x] = Empty /\ fifo[x] # Empty
      BY <2>2, <2>3, <1>1
    <3>2. Got(r, x) \in Int /\ Got(r, x)' = Got(r, x) + 1
      BY <2>3
    <3> QED BY <2>0, <2>1, <3>1, <3>2, <1>1, <1>2 DEF FifoInv
  <2>4. CASE x # t
    <3>1. fifo'[x] = fifo[x] /\ Got(r, x)' = Got(r, x)
      BY <2>2, <2>4, <1>1
    <3> QED BY <2>0, <2>1, <3>1, <1>1, <1>2 DEF FifoInv
  <2> QED BY <2>3, <2>4
<1>6. SourceInv(r, c)'
  BY <1>1, <1>2, <1>5 DEF SourceInv
<1>7. fifo[t] \in Frames
  BY <1>4, FrNext
<1> QED BY <1>4, <1>6, <1>7

\* The frame in the FIFO is the one that its thread is to make next.
LEMMA TakeInputInv ==
  ASSUME Linked, Wired, NEW r, NEW c, NEW k, PipeInv(r, c, k),
         NEW t \in program.threads, TakeInput(t)
  PROVE  PipeInv(r, c, k)'
<1>1. /\ Arrays /\ r \in [program.threads -> Nat]
      /\ NodeInv(r, t)
      /\ SourceInv(r, c) /\ SinkInv(k)
  BY DEF PipeInv
<1>2. /\ UNCHANGED <<design, dest, sent, from, received, data, reading, due>>
      /\ frame' = frame /\ done' = done
  BY DEF TakeInput, sourceVars, sinkVars
<1>3. /\ program' = program /\ setup' = setup /\ delay' = delay
      /\ \A x : Src(x)' = Src(x) /\ D(x)' = D(x) /\ First(x)' = First(x) /\ Past(x)' = Past(x)
      /\ \A x, b : LinkLen(x, b)' = LinkLen(x, b)
  BY <1>2, SameDesign
<1>4. Src(t) = PipelineIn /\ D(t) = 1 /\ \A e \in Incoming(program, t) : e[1] = 0
  <2>1. Src(t) = PipelineIn
    BY Incomings DEF TakeInput
  <2> QED BY <2>1, Incomings
<1>6. pc[t] = "select" /\ read_count[t] = 1 /\ AfterCase(t) = "process" /\ fifo[t] # Empty
  BY <1>1 DEF TakeInput, NodeInv, PlaceInv, AfterCase
<1>7. r[t] \in Nat /\ Got(r, t) = r[t]
  BY <1>1, <1>6 DEF Got
<1>10. /\ DOMAIN pc' = program.threads /\ DOMAIN read_count' = program.threads
       /\ DOMAIN edge' = program.threads
       /\ pc'[t] = "process" /\ read_count'[t] = 0
       /\ edge'[t] = [e \in program.edges[t] |-> IF e[1] = 0 THEN fifo[t] ELSE edge[t][e]]
       /\ \A x \in program.threads \ {t} :
            pc'[x] = pc[x] /\ edge'[x] = edge[x] /\ read_count'[x] = read_count[x]
       /\ fifo' = [fifo EXCEPT ![t] = Empty]
  BY <1>1, <1>6 DEF TakeInput, Arrays
<1>11. /\ \A x \in program.threads \ {t} : NodeInv(r, x)' /\ Got(r, x)' = Got(r, x)
       /\ \A x \in program.threads : LinkInv(r, x)' /\ OutInv(r, k, x)'
  <2>1. r[t] + (IF pc'[t] = "out" THEN 0 ELSE 1) = r[t] + 1
    BY <1>10
  <2> QED BY <2>1, <1>1, <1>2, <1>4, <1>6, <1>10, LocalStep
<1>9. fifo[t] = Fr(r[t] + 1) /\ fifo[t] \in Frames /\ SourceInv(r, c)'
  <2>1. Got(r, t)' = Got(r, t) + 1
    BY <1>7, <1>10 DEF Got
  <2> QED BY <2>1, <1>1, <1>7, <1>11, FifoTaken
<1>12. NodeInv(r, t)'
  <2>1. \A e \in Own(program, t) : e[1] # 0 /\ e \in program.edges[t]
    BY DEF Own, Wired, Linked, StagesInOrder
  <2>2. edge[t] \in [program.edges[t] -> Frames]
        /\ \A e \in Own(program, t) : edge[t][e] = Fr(r[t] - D(t) + 1)
    BY <1>1 DEF NodeInv, PlaceInv
  <2>3. edge'[t] \in [program.edges[t] -> Frames]
    BY <2>2, <1>9, <1>10
  <2>4. \A e \in Own(program, t) : edge'[t][e] = Fr(r[t] - D(t) + 1)
    BY <2>1, <2>2, <1>10
  <2>5. \A e \in Incoming(program, t) : edge'[t][e] = Fr(r[t] - D(t) + 2)
    <3>1. r[t] - D(t) + 2 = r[t] + 1
      BY <1>4, <1>7
    <3>2. \A e \in Incoming(program, t) : e[1] = 0 /\ e \in program.edges[t]
      BY <1>4 DEF Incoming
    <3> QED BY <3>1, <3>2, <1>9, <1>10
  <2>6. /\ dest'[t] = 1 /\ sent'[t] = 0 /\ dest'[t] \in 1 .. Len(program.dests[t])
        /\ sent'[t] \in 0 .. LinkLen(t, program.dests[t][dest'[t]]) - 1
    BY <1>1, <1>2, <1>6 DEF NodeInv, PlaceInv
  <2> QED BY <2>3, <2>4, <2>5, <2>6, <1>3, <1>10 DEF NodeInv, PlaceInv, Own, Incoming
<1>15. SinkInv(k)' /\ Arrays'
  BY <1>1, <1>2, <1>3, <1>10 DEF SinkInv, Arrays
<1> QED BY <1>1, <1>3, <1>9, <1>11, <1>12, <1>15 DEF PipeInv

\* Stages whose inputs are of one frame each make that frame, however they are
\* connected.
LEMMA ProcessedBy ==
  ASSUME Linked, NEW t \in program.threads, NEW g,
         \A s \in DOMAIN program.process[t] : \A i \in program.process[t][s] :
           g[s] = IF i[1] \in DOMAIN program.process[t] THEN g[i[1]] ELSE edge[t][i]
  PROVE  Processed(t) =
           [e \in program.edges[t] |-> IF e \in Own(program, t) THEN g[e[1]] ELSE edge[t][e]]
<1> DEFINE stages == program.process[t]
           In(f, s) == {IF i[1] \in DOMAIN stages THEN f[i[1]] ELSE edge[t][i] : i \in stages[s]}
           Q(f) == f = [s \in DOMAIN stages |-> Together(In(f, s))]
           out == CHOOSE f : Q(f)
           all == [s \in DOMAIN stages |-> g[s]]
<1>1. /\ DOMAIN stages \subseteq Nat
      /\ \A s \in DOMAIN stages :
           /\ stages[s] # {} /\ stages[s] \subseteq program.edges[t]
           /\ \A i \in stages[s] : i[1] \in DOMAIN stages => i[1] < s
  BY DEF Linked, StagesInOrder
<1>2. Processed(t) = [e \in program.edges[t] |-> IF e[1] \in DOMAIN stages THEN out[e[1]] ELSE edge[t][e]]
  BY DEF Processed
<1>3. \A e \in program.edges[t] : e[1] \in DOMAIN stages <=> e \in Own(program, t)
  BY DEF Own
<1>4. \A s \in DOMAIN stages : \A i \in stages[s] :
        g[s] = IF i[1] \in DOMAIN stages THEN g[i[1]] ELSE edge[t][i]
  OBVIOUS
<1> HIDE DEF stages
<1>5. ASSUME NEW f, NEW s \in DOMAIN stages,
             \A i \in stages[s] : i[1] \in DOMAIN stages => f[i[1]] = g[i[1]]
      PROVE  Together(In(f, s)) = g[s]
  <2>1. In(f, s) = {g[s]}
    BY <1>1, <1>4, <1>5
  <2>2. Cardinality({g[s]}) = 1
    BY FS_Singleton
  <2> QED BY <2>1, <2>2 DEF Together
<1>6. Q(all)
  <2>1. \A s \in DOMAIN stages : Together(In(all, s)) = g[s]
    <3>1. \A s \in DOMAIN stages : all[s] = g[s]
      OBVIOUS
    <3> HIDE DEF all, In
    <3> QED BY <1>5, <3>1
  <2> HIDE DEF In
  <2> QED BY <2>1
<1> HIDE DEF In, all
<1>7. Q(out)
  <2> HIDE DEF Q
  <2> QED BY <1>6
<1> HIDE DEF out
<1>8. \A s \in DOMAIN stages : out[s] = g[s]
  <2> DEFINE Bad == {s \in DOMAIN stages : out[s] # g[s]}
  <2>1. SUFFICES ASSUME Bad # {} PROVE FALSE
    OBVIOUS
  <2>2. Bad \in SUBSET Nat
    BY <1>1
  <2>3. PICK s \in Bad : \A x \in Bad : s <= x
    BY <2>1, <2>2, LeastOf
  <2>4. \A i \in stages[s] : i[1] \in DOMAIN stages => out[i[1]] = g[i[1]]
    <3> SUFFICES ASSUME NEW i \in stages[s], i[1] \in DOMAIN stages, out[i[1]] # g[i[1]] PROVE FALSE
      OBVIOUS
    <3>1. i[1] \in Bad /\ i[1] < s
      BY <1>1
    <3> QED BY <2>2, <2>3, <3>1
  <2>5. Together(In(out, s)) = g[s]
    BY <1>5, <2>4
  <2> QED BY <1>7, <2>3, <2>5
<1> QED BY <1>2, <1>3, <1>8

LEMMA ProcessedIs ==
  ASSUME Linked, NEW t \in program.threads, NEW v,
         \A e \in Incoming(program, t) : edge[t][e] = v
  PROVE  Processed(t) = [e \in program.edges[t] |-> IF e \in Own(program, t) THEN v ELSE edge[t][e]]
<1> DEFINE stages == program.process[t]
<1>1. PICK g : g = [s \in DOMAIN stages |-> v]
  OBVIOUS
<1>2. \A s \in DOMAIN stages : \A i \in stages[s] :
        g[s] = IF i[1] \in DOMAIN stages THEN g[i[1]] ELSE edge[t][i]
  <2>1. \A s \in DOMAIN stages : stages[s] \subseteq program.edges[t]
    BY DEF Linked, StagesInOrder
  <2>2. \A i \in program.edges[t] : i[1] \notin DOMAIN stages => edge[t][i] = v
    BY DEF Incoming, Own
  <2> QED BY <1>1, <2>1, <2>2
<1>3. \A e \in Own(program, t) : g[e[1]] = v
  BY <1>1 DEF Own
<1>4. Processed(t) =
        [e \in program.edges[t] |-> IF e \in Own(program, t) THEN g[e[1]] ELSE edge[t][e]]
  BY <1>2, ProcessedBy
<1> QED BY <1>3, <1>4

\* A thread that has all its inputs makes the next frame, whole.
LEMMA ProcessInv ==
  ASSUME Linked, Wired, NEW r, NEW c, NEW k, PipeInv(r, c, k),
         NEW t \in program.threads, Process(t)
  PROVE  \E s : PipeInv(s, c, k)'
<1> DEFINE v == Fr(r[t] - D(t) + 2)
<1>1. /\ Arrays /\ r \in [program.threads -> Nat]
      /\ NodeInv(r, t)
      /\ SourceInv(r, c) /\ SinkInv(k)
  BY DEF PipeInv
<1>2. /\ UNCHANGED <<design, dest, sent, from, received, data, reading, due>>
      /\ frame' = frame /\ done' = done /\ fifo' = fifo /\ read_count' = read_count
  BY DEF Process, sourceVars, sinkVars
<1>3. /\ program' = program /\ setup' = setup /\ delay' = delay
      /\ \A x : Src(x)' = Src(x) /\ D(x)' = D(x) /\ First(x)' = First(x) /\ Past(x)' = Past(x)
      /\ \A x, b : LinkLen(x, b)' = LinkLen(x, b)
  BY <1>2, SameDesign
<1>4. PICK s : s = [r EXCEPT ![t] = r[t] + 1]
  OBVIOUS
<1>5. s \in [program.threads -> Nat] /\ s[t] = r[t] + 1 /\ \A x \in program.threads \ {t} : s[x] = r[x]
  BY <1>1, <1>4
<1>6. pc[t] = "process" /\ D(t) \in Nat /\ r[t] \in Nat
  BY <1>1, Incomings DEF Process
<1>7. /\ DOMAIN pc' = program.threads /\ DOMAIN edge' = program.threads
      /\ pc'[t] = "out" /\ edge'[t] = Processed(t)
      /\ \A x \in program.threads \ {t} : pc'[x] = pc[x] /\ edge'[x] = edge[x]
  BY <1>1 DEF Process, Arrays
<1>8. Got(s, t)' = Got(r, t)
  BY <1>5, <1>6, <1>7 DEF Got
<1>9. /\ \A x \in program.threads \ {t} : NodeInv(s, x)' /\ Got(s, x)' = Got(r, x)
      /\ \A x \in program.threads : LinkInv(s, x)' /\ OutInv(s, k, x)'
  <2>1. s[t] + (IF pc'[t] = "out" THEN 0 ELSE 1) = r[t] + 1
    BY <1>5, <1>6, <1>7
  <2>2. \A x \in program.threads \ {t} :
          s[x] = r[x] /\ pc'[x] = pc[x] /\ edge'[x] = edge[x] /\ read_count'[x] = read_count[x]
    BY <1>2, <1>5, <1>7
  <2>3. pc[t] \in {"select", "process"} /\ pc'[t] # "take"
    BY <1>6, <1>7
  <2> QED BY <2>1, <2>2, <2>3, <1>2, <1>5, <1>8, LocalStep
<1>10. NodeInv(s, t)'
  <2>1. \A e \in Incoming(program, t) : edge[t][e] = v
    BY <1>1, <1>6 DEF NodeInv, PlaceInv
  <2>2. edge[t] \in [program.edges[t] -> Frames] /\ v \in Frames
    <3>1. r[t] - D(t) + 2 \in Int
      BY <1>6
    <3> QED BY <1>1, <3>1, FrNext DEF NodeInv, PlaceInv
  <2>3. v = Fr(s[t] - D(t) + 1)
    <3>1. s[t] - D(t) + 1 = r[t] - D(t) + 2
      BY <1>5, <1>6
    <3> QED BY <3>1
  <2> HIDE DEF v
  <2>4. edge'[t] = [e \in program.edges[t] |-> IF e \in Own(program, t) THEN v ELSE edge[t][e]]
    BY <2>1, <1>7, ProcessedIs
  <2>5. edge'[t] \in [program.edges[t] -> Frames]
    BY <2>2, <2>4
  <2>6. \A e \in Own(program, t) : edge'[t][e] = Fr(s[t] - D(t) + 1)
    BY <2>3, <2>4 DEF Own
  <2>7. /\ dest'[t] = dest[t] /\ sent'[t] = sent[t] /\ read_count'[t] = read_count[t]
        /\ dest[t] \in 1 .. Len(program.dests[t])
        /\ sent[t] \in 0 .. LinkLen(t, program.dests[t][dest[t]]) - 1
        /\ read_count[t] = 0
    BY <1>1, <1>2, <1>6 DEF NodeInv, PlaceInv
  <2> QED BY <2>5, <2>6, <2>7, <1>3, <1>7 DEF NodeInv, PlaceInv, Own
<1>11. SourceInv(s, c)'
  <2>1. \A x \in program.threads : Got(s, x)' = Got(r, x)
    BY <1>8, <1>9
  <2> QED BY <2>1, <1>1, <1>2, FifosSame
<1>12. SinkInv(k)' /\ Arrays'
  BY <1>1, <1>2, <1>3, <1>7 DEF SinkInv, Arrays
<1>13. PipeInv(s, c, k)'
  BY <1>3, <1>5, <1>9, <1>10, <1>11, <1>12 DEF PipeInv
<1> QED BY <1>13

-----------------------------------------------------------------------------
(* The application *)

\* A step that touches neither audio nor the calls in progress.
LEMMA QuietInv ==
  ASSUME NEW r, NEW c, NEW k, PipeInv(r, c, k),
         UNCHANGED <<design, pc, dest, sent, from, received, read_count, edge,
                     fifo, sourceVars, sinkVars>>
  PROVE  PipeInv(r, c, k)'
<1>1. /\ program' = program /\ setup' = setup /\ delay' = delay
      /\ \A x : Src(x)' = Src(x) /\ D(x)' = D(x) /\ First(x)' = First(x) /\ Past(x)' = Past(x)
      /\ \A x, b : LinkLen(x, b)' = LinkLen(x, b)
  BY SameDesign
<1>2. /\ pc' = pc /\ dest' = dest /\ sent' = sent /\ from' = from /\ received' = received
      /\ read_count' = read_count /\ edge' = edge /\ fifo' = fifo /\ frame' = frame
      /\ done' = done /\ data' = data /\ reading' = reading /\ due' = due
  BY DEF sourceVars, sinkVars
<1>3. ASSUME NEW x \in program.threads
      PROVE  NodeInv(r, x)' /\ LinkInv(r, x)' /\ OutInv(r, k, x)'
  <2>1. NodeInv(r, x) /\ LinkInv(r, x) /\ OutInv(r, k, x)
    BY DEF PipeInv
  <2>2. NodeInv(r, x)'
    BY <2>1, <1>1, <1>2 DEF NodeInv, PlaceInv, Own, Incoming
  <2>3. LinkInv(r, x)'
    BY <2>1, <1>1, <1>2 DEF LinkInv, Put, Got, Sending
  <2>4. OutInv(r, k, x)'
    BY <2>1, <1>1, <1>2 DEF OutInv, Put, Sending
  <2> QED BY <2>2, <2>3, <2>4
<1>4. SourceInv(r, c)'
  BY <1>1, <1>2 DEF PipeInv, SourceInv, FifoInv, Got
<1>5. SinkInv(k)' /\ Arrays'
  BY <1>1, <1>2 DEF PipeInv, SinkInv, Arrays
<1> QED BY <1>1, <1>3, <1>4, <1>5 DEF PipeInv

\* A step of the app that moves no thread.
LEMMA ThreadsStill ==
  ASSUME UNCHANGED <<design, threadVars>>
  PROVE  /\ pc' = pc /\ dest' = dest /\ sent' = sent /\ from' = from /\ received' = received
         /\ read_count' = read_count /\ edge' = edge
         /\ \A r, x : Got(r, x)' = Got(r, x)
         /\ \A r, x, j : Put(r, x, j)' = Put(r, x, j)
         /\ \A x, b : (Sending(x, b)' <=> Sending(x, b))
<1>1. program' = program
  BY SameDesign
<1>2. /\ pc' = pc /\ dest' = dest /\ sent' = sent /\ from' = from /\ received' = received
      /\ read_count' = read_count /\ edge' = edge
  BY DEF threadVars
<1> QED BY <1>1, <1>2 DEF Got, Put, Sending

\* The FIFOs of one source call are filled with one frame, in turn.
LEMMA FifoFilled ==
  ASSUME Linked, NEW r \in [program.threads -> Nat], NEW c, SourceInv(r, c), Source
  PROVE  \E n : /\ n = IF done + 1 < Len(program.inputs) THEN c ELSE c + 1
                /\ SourceInv(r, n)'
<1> DEFINE i0 == done + 1
           x0 == program.inputs[i0]
           lastFifo == ~(done + 1 < Len(program.inputs))
<1>2. UNCHANGED <<design, threadVars>>
  BY DEF Source
<1>3. \A x : Got(r, x)' = Got(r, x)
  BY <1>2, ThreadsStill
<1>4. program' = program
  BY <1>2, SameDesign
<1>5. /\ Len(program.inputs) \in Nat \ {0}
      /\ done \in 0 .. Len(program.inputs) - 1
      /\ i0 \in 1 .. Len(program.inputs)
      /\ c \in Nat /\ frame = Fr(c + 1) /\ DOMAIN fifo = ToSet(program.inputs)
  BY InputIsSource DEF Source, SourceInv
<1>6. /\ fifo' = [fifo EXCEPT ![x0] = frame]
      /\ done' = IF lastFifo THEN -1 ELSE done + 1
      /\ frame' = IF lastFifo THEN NextFrame(frame) ELSE frame
  BY DEF Source
<1>7. PICK n : n = IF lastFifo THEN c + 1 ELSE c
  OBVIOUS
<1>8. n \in Nat /\ frame' = Fr(n + 1)
  <2>1. NextFrame(Fr(c + 1)) = Fr((c + 1) + 1)
    BY <1>5, FrNext
  <2> QED BY <2>1, <1>5, <1>6, <1>7
<1>9. frame \in Frames /\ frame # Empty
  <2>1. Fr(c + 1) \in Frames
    BY <1>5, FrNext
  <2> QED BY <2>1, <1>5, NumFramesAssumption DEF Frames, Empty
<1>10. \A i \in 1 .. Len(program.inputs) : done < i => fifo[program.inputs[i]] = Empty
  <2> SUFFICES ASSUME NEW i \in 1 .. Len(program.inputs), done < i
               PROVE  fifo[program.inputs[i]] = Empty
    OBVIOUS
  <2>1. FifoInv(r, c, i)
    BY DEF SourceInv
  <2>2. program.inputs[i] \in DOMAIN fifo
    BY <1>5, InputIsSource
  <2>3. CASE done = 0
    BY <2>2, <2>3 DEF Source
  <2>4. CASE done > 0
    BY <2>1, <2>4 DEF FifoInv
  <2> QED BY <2>3, <2>4, <1>5
<1>11. ASSUME NEW i \in 1 .. Len(program.inputs)
       PROVE  FifoInv(r, n, i)'
  <2>0. PICK x : x = program.inputs[i]
    OBVIOUS
  <2>1. FifoInv(r, c, i)
    BY DEF SourceInv
  <2>2. x \in DOMAIN fifo /\ (x = x0 <=> i = i0) /\ Got(r, x)' = Got(r, x) /\ Got(r, x) \in Nat
    <3>1. x \in program.threads
      BY <2>0, InputIsSource
    <3>2. Got(r, x) \in Nat
      BY <3>1 DEF Got
    <3> QED BY <2>0, <3>1, <3>2, <1>3, <1>5, InputIsSource
  <2> HIDE DEF x0
  <2>3. CASE i = i0
    <3>1. fifo[x] = Empty
      BY <2>0, <2>3, <1>5, <1>10
    <3>2. Got(r, x) = c
      BY <2>0, <2>1, <2>3, <3>1, <2>2, <1>5 DEF FifoInv
    <3>3. fifo'[x] = Fr(Got(r, x) + 1) /\ fifo'[x] # Empty
      BY <2>2, <2>3, <3>2, <1>5, <1>6, <1>9
    <3>4. done' >= 0 => i <= done' /\ n = c /\ ~(done' < i)
      BY <2>3, <1>5, <1>6, <1>7
    <3>5. ~(done' >= 0) => n = c + 1 /\ done' = -1
      BY <1>5, <1>6, <1>7
    <3>6. done' \in Int /\ i \in Nat
      BY <1>5, <1>6
    <3>7. Got(r, x)' + (IF fifo'[x] = Empty THEN 0 ELSE 1) = n + (IF i <= done' THEN 1 ELSE 0)
      BY <2>2, <3>2, <3>3, <3>4, <3>5, <3>6, <1>5
    <3>8. ~(done' > 0 /\ done' < i)
      BY <3>4, <3>5, <3>6
    <3> QED BY <2>0, <2>2, <3>3, <3>7, <3>8, <1>4 DEF FifoInv
  <2>4. CASE i # i0
    <3>1. fifo'[x] = fifo[x]
      BY <2>2, <2>4, <1>6
    <3>2. Got(r, x) + (IF fifo[x] = Empty THEN 0 ELSE 1) = c + (IF i <= done THEN 1 ELSE 0)
          /\ (fifo[x] # Empty => fifo[x] = Fr(Got(r, x) + 1))
      BY <2>0, <2>1 DEF FifoInv
    <3>3. c + (IF i <= done THEN 1 ELSE 0) = n + (IF i <= done' THEN 1 ELSE 0)
      <4>1. i \in Nat /\ i <= Len(program.inputs)
        BY <1>5
      <4>2. CASE lastFifo
        <5>1. done + 1 = Len(program.inputs) /\ done' = -1 /\ n = c + 1 /\ i <= done /\ ~(i <= -1)
          BY <2>4, <4>1, <4>2, <1>5, <1>6, <1>7
        <5> QED BY <5>1, <1>5
      <4>3. CASE ~lastFifo
        <5>1. done' = done + 1 /\ n = c /\ (i <= done <=> i <= done + 1)
          BY <2>4, <4>1, <4>3, <1>5, <1>6, <1>7
        <5> QED BY <5>1, <1>5
      <4> QED BY <4>2, <4>3
    <3>4. done' > 0 /\ done' < i => fifo[x] = Empty
      <4>1. done' > 0 => done < done'
        BY <1>5, <1>6
      <4>2. done' \in Int /\ i \in Nat /\ done \in Int
        BY <1>5, <1>6
      <4> QED BY <2>0, <4>1, <4>2, <1>10
    <3> QED BY <2>0, <2>2, <3>1, <3>2, <3>3, <3>4, <1>4 DEF FifoInv
  <2> QED BY <2>3, <2>4
<1>12. SourceInv(r, n)'
  <2>1. done' \in -1 .. Len(program.inputs) - 1
    BY <1>5, <1>6
  <2>2. DOMAIN fifo' = ToSet(program.inputs)
    BY <1>5, <1>6
  <2> QED BY <2>1, <2>2, <1>4, <1>8, <1>11 DEF SourceInv
<1> QED BY <1>7, <1>12

\* What the invariant says of the threads, then.
LEMMA ThreadsSame ==
  ASSUME NEW r, NEW c, NEW k, PipeInv(r, c, k), UNCHANGED <<design, threadVars>>
  PROVE  /\ Arrays' /\ r \in [program'.threads -> Nat]
         /\ \A x \in program.threads : NodeInv(r, x)' /\ LinkInv(r, x)'
         /\ data' = data /\ reading' = reading => \A x \in program.threads : OutInv(r, k, x)'
<1>1. /\ program' = program /\ setup' = setup /\ delay' = delay
      /\ \A x : Src(x)' = Src(x) /\ D(x)' = D(x)
      /\ \A x, b : LinkLen(x, b)' = LinkLen(x, b)
  BY SameDesign
<1>2. /\ pc' = pc /\ dest' = dest /\ sent' = sent /\ from' = from /\ received' = received
      /\ read_count' = read_count /\ edge' = edge
      /\ \A x : Got(r, x)' = Got(r, x)
      /\ \A x, j : Put(r, x, j)' = Put(r, x, j)
      /\ \A x, b : (Sending(x, b)' <=> Sending(x, b))
  BY ThreadsStill
<1>3. ASSUME NEW x \in program.threads
      PROVE  /\ NodeInv(r, x)' /\ LinkInv(r, x)'
             /\ data' = data /\ reading' = reading => OutInv(r, k, x)'
  <2>1. NodeInv(r, x) /\ LinkInv(r, x) /\ OutInv(r, k, x)
    BY DEF PipeInv
  <2>2. NodeInv(r, x)'
    BY <2>1, <1>1, <1>2 DEF NodeInv, PlaceInv, Own, Incoming
  <2>3. LinkInv(r, x)'
    BY <2>1, <1>1, <1>2 DEF LinkInv
  <2>4. data' = data /\ reading' = reading => OutInv(r, k, x)'
    BY <2>1, <1>2, OutsSame
  <2> QED BY <2>2, <2>3, <2>4
<1>4. Arrays'
  BY <1>1, <1>2 DEF PipeInv, Arrays
<1> QED BY <1>1, <1>3, <1>4 DEF PipeInv

\* A source call fills the FIFOs.
LEMMA SourceStepInv ==
  ASSUME Linked, Wired, NEW r, NEW c, NEW k, PipeInv(r, c, k), Source
  PROVE  \E n : PipeInv(r, n, k)'
<1>1. SourceInv(r, c) /\ SinkInv(k) /\ r \in [program.threads -> Nat]
      /\ \A x \in program.threads : OutInv(r, k, x)
  BY DEF PipeInv
<1>2. UNCHANGED <<design, threadVars>> /\ data' = data /\ reading' = reading /\ due' = due
  BY DEF Source, sinkVars
<1>3. /\ Arrays' /\ r \in [program'.threads -> Nat]
      /\ \A x \in program.threads : NodeInv(r, x)' /\ LinkInv(r, x)' /\ OutInv(r, k, x)'
  BY <1>2, ThreadsSame
<1>4. PICK n : SourceInv(r, n)'
  BY <1>1, FifoFilled
<1>5. program' = program /\ delay' = delay
  BY <1>2, SameDesign
<1>6. SinkInv(k)'
  BY <1>1, <1>2, <1>5 DEF SinkInv
<1>7. PipeInv(r, n, k)'
  BY <1>3, <1>4, <1>5, <1>6 DEF PipeInv
<1> QED BY <1>7

\* A source call begins with no FIFO filled.
LEMMA SourceCalled ==
  ASSUME Linked, NEW r, NEW c, SourceInv(r, c), CallSource
  PROVE  SourceInv(r, c)'
<1>1. UNCHANGED <<design, threadVars>> /\ fifo' = fifo /\ frame' = frame /\ done = -1 /\ done' = 0
  BY DEF CallSource
<1>2. program' = program /\ \A x : Got(r, x)' = Got(r, x)
  BY <1>1, SameDesign, ThreadsStill
<1>3. ASSUME NEW i \in 1 .. Len(program.inputs)
      PROVE  FifoInv(r, c, i)'
  <2>1. FifoInv(r, c, i)
    BY DEF SourceInv
  <2>2. ~(i <= -1) /\ ~(i <= 0)
    OBVIOUS
  <2> QED BY <2>1, <2>2, <1>1, <1>2 DEF FifoInv
<1>4. 0 \in -1 .. Len(program.inputs) - 1
  BY InputIsSource
<1> QED BY <1>1, <1>2, <1>3, <1>4 DEF SourceInv

LEMMA CallSourceInv ==
  ASSUME Linked, Wired, NEW r, NEW c, NEW k, PipeInv(r, c, k), CallSource
  PROVE  PipeInv(r, c, k)'
<1>1. SourceInv(r, c) /\ SinkInv(k)
  BY DEF PipeInv
<1>2. UNCHANGED <<design, threadVars>> /\ data' = data /\ reading' = reading /\ due' = due
  BY DEF CallSource, sinkVars
<1>3. /\ Arrays' /\ r \in [program'.threads -> Nat]
      /\ \A x \in program.threads : NodeInv(r, x)' /\ LinkInv(r, x)' /\ OutInv(r, k, x)'
  BY <1>2, ThreadsSame
<1>4. SourceInv(r, c)'
  BY <1>1, SourceCalled
<1>5. program' = program /\ delay' = delay
  BY <1>2, SameDesign
<1>6. SinkInv(k)'
  BY <1>1, <1>2, <1>5 DEF SinkInv
<1> QED BY <1>3, <1>4, <1>5, <1>6 DEF PipeInv

\* A sink call begins with every batch of the call before received.
LEMMA SinkCalled ==
  ASSUME Linked, NEW r, NEW k, SinkInv(k), \A x \in program.threads : OutInv(r, k, x), CallSink
  PROVE  (\A x \in program.threads : OutInv(r, k + 1, x)') /\ SinkInv(k + 1)'
<1>2. /\ UNCHANGED <<design, threadVars>>
      /\ ~reading /\ reading' = TRUE /\ data' = <<>>
      /\ due' = IF due < 0 THEN due + 1 ELSE NextFrame(due)
  BY DEF CallSink
<1>3. /\ \A x, j : Put(r, x, j)' = Put(r, x, j)
      /\ \A x, b : (Sending(x, b)' <=> Sending(x, b))
      /\ sent' = sent
  BY <1>2, ThreadsStill
<1>4. /\ program' = program /\ delay' = delay
      /\ \A x : First(x)' = First(x) /\ Past(x)' = Past(x)
  BY <1>2, SameDesign
<1>5. Len(<<>>) = 0 /\ k \in Nat /\ delay \in Nat /\ Len(program.mux) \in Nat \ {0}
  BY DEF SinkInv, Linked, EndsAgree
<1>7. ASSUME NEW x \in program.threads
      PROVE  OutInv(r, k + 1, x)'
  <2>1. OutInv(r, k, x)
    OBVIOUS
  <2>2. ASSUME NEW j \in 1 .. Len(program.dests[x]), program.dests[x][j] = PipelineOut
        PROVE  /\ Put(r, x, j) = k /\ (Sending(x, PipelineOut) => sent[x] = 0)
               /\ First(x) > 0 /\ Past(x) > 0 /\ First(x) \in Int /\ Past(x) \in Int
    <3>1. First(x) \in 1 .. Len(program.mux) /\ Past(x) \in 1 .. Len(program.mux)
      BY <2>2, Places
    <3> QED BY <2>1, <2>2, <3>1, <1>2, <1>5 DEF OutInv
  <2>3. reading' /\ Len(data') = 0
    BY <1>2, <1>5
  <2>4. (k + 1) - 1 = k
    BY <1>5
  <2> QED BY <2>2, <2>3, <2>4, <1>3, <1>4 DEF OutInv
<1>8. SinkInv(k + 1)'
  <2>1. due = IF k <= delay THEN k - delay ELSE Fr(k - delay)
    BY DEF SinkInv
  <2>2. due' = IF k + 1 <= delay THEN (k + 1) - delay ELSE Fr((k + 1) - delay)
    <3>1. CASE k < delay
      BY <3>1, <2>1, <1>2, <1>5
    <3>2. CASE k >= delay
      <4>1. k - delay \in Int /\ k - delay >= 0 /\ (k - delay) + 1 = (k + 1) - delay
        BY <3>2, <1>5
      <4>2. due = Fr(k - delay)
        <5>1. Fr(0) = 0
          BY FrNext
        <5> QED BY <5>1, <2>1, <3>2, <1>5
      <4>3. Fr(k - delay) \in Frames /\ NextFrame(Fr(k - delay)) = Fr((k - delay) + 1)
        BY <4>1, FrNext
      <4>4. ~(due < 0)
        BY <4>2, <4>3, NumFramesAssumption DEF Frames
      <4> QED BY <3>2, <4>1, <4>2, <4>3, <4>4, <1>2, <1>5
    <3> QED BY <3>1, <3>2, <1>5
  <2>3. data' \in Seq(Frames) /\ Len(data') = 0
    BY <1>2, <1>5
  <2> QED BY <2>2, <2>3, <1>4, <1>5 DEF SinkInv
<1> QED BY <1>7, <1>8

LEMMA CallSinkInv ==
  ASSUME Linked, Wired, NEW r, NEW c, NEW k, PipeInv(r, c, k), CallSink
  PROVE  PipeInv(r, c, k + 1)'
<1>1. SourceInv(r, c) /\ SinkInv(k) /\ \A x \in program.threads : OutInv(r, k, x)
  BY DEF PipeInv
<1>2. UNCHANGED <<design, threadVars>> /\ UNCHANGED <<fifo, frame, done>>
  BY DEF CallSink, sourceVars
<1>3. /\ Arrays' /\ r \in [program'.threads -> Nat]
      /\ \A x \in program.threads : NodeInv(r, x)' /\ LinkInv(r, x)'
  BY <1>2, ThreadsSame
<1>4. program' = program
  BY <1>2, SameDesign
<1>5. SourceInv(r, c)'
  <2>1. \A x : Got(r, x)' = Got(r, x)
    BY <1>2, ThreadsStill
  <2> QED BY <2>1, <1>1, <1>2, FifosSame
<1>6. (\A x \in program.threads : OutInv(r, k + 1, x)') /\ SinkInv(k + 1)'
  BY <1>1, SinkCalled
<1> QED BY <1>3, <1>4, <1>5, <1>6 DEF PipeInv

\* A thread that the sink receives from is where the sink is in its order, and
\* has not sent the batch of this call.
LEMMA SinkReaches ==
  ASSUME Linked, NEW r \in [program.threads -> Nat], NEW k,
         NEW t \in program.threads, PlaceInv(t), OutInv(r, k, t), SinkInv(k), SinkReady(t)
  PROVE  /\ pc[t] = "out" /\ program.dests[t][dest[t]] = PipelineOut
         /\ dest[t] \in 1 .. Len(program.dests[t])
         /\ First(t) \in 1 .. Len(program.mux) /\ Past(t) \in 1 .. Len(program.mux)
         /\ First(t) <= Len(data) + 1 /\ Len(data) + 1 <= Past(t)
         /\ sent[t] = Len(data) + 1 - First(t)
         /\ sent[t] + 1 = LinkLen(t, PipelineOut) <=> Len(data) + 1 = Past(t)
         /\ Put(r, t, dest[t]) = k - 1 /\ r[t] = k - 1
         /\ sent[t] + 1 \in 1 .. LinkLen(t, PipelineOut)
         /\ Outgoing(t) = program.link[t][PipelineOut][sent[t] + 1]
         /\ Outgoing(t) \in Own(program, t)
<1> DEFINE L == LinkLen(t, PipelineOut)
           i0 == Len(data) + 1
<1>2. reading /\ program.mux[i0].thread = t /\ Sending(t, PipelineOut)
  BY DEF SinkReady
<1>3. pc[t] = "out" /\ program.dests[t][dest[t]] = PipelineOut /\ dest[t] \in 1 .. Len(program.dests[t])
  BY <1>2 DEF Sending, PlaceInv
<1>5. /\ Len(data) \in Nat /\ Len(program.mux) \in Nat /\ Len(data) < Len(program.mux)
      /\ i0 \in 1 .. Len(program.mux) /\ k \in Nat
  BY <1>2 DEF SinkInv, Linked, EndsAgree
<1>6. /\ First(t) \in 1 .. Len(program.mux) /\ Past(t) \in 1 .. Len(program.mux)
      /\ Past(t) = First(t) + L - 1 /\ First(t) <= i0 /\ i0 <= Past(t)
      /\ L \in Nat
  <2>1. /\ First(t) \in 1 .. Len(program.mux) /\ Past(t) \in 1 .. Len(program.mux)
        /\ Past(t) = First(t) + L - 1
        /\ \A i \in 1 .. Len(program.mux) :
              program.mux[i].thread = t <=> First(t) <= i /\ i <= Past(t)
        /\ L \in Nat \ {0}
    BY <1>3, Places
  <2> HIDE DEF L, i0
  <2> QED BY <2>1, <1>2, <1>5
<1>7. /\ sent[t] = i0 - First(t) /\ (sent[t] + 1 = L <=> i0 = Past(t))
      /\ Put(r, t, dest[t]) = k - 1 /\ r[t] = k - 1
  <2>1. /\ Put(r, t, dest[t]) = IF reading /\ Len(data) < Past(t) THEN k - 1 ELSE k
        /\ sent[t] = IF reading /\ First(t) <= Len(data) /\ Len(data) < Past(t)
                     THEN Len(data) - First(t) + 1 ELSE 0
    BY <1>2, <1>3 DEF OutInv
  <2>2. sent[t] = i0 - First(t)
    BY <2>1, <1>2, <1>5, <1>6
  <2>3. Put(r, t, dest[t]) = k - 1
    BY <2>1, <1>2, <1>5, <1>6
  <2>4. r[t] = k - 1
    BY <2>3, <1>3 DEF Put
  <2> QED BY <2>2, <2>3, <2>4, <1>5, <1>6
<1>8. sent[t] + 1 \in 1 .. L
  BY <1>5, <1>6, <1>7
<1>9. Outgoing(t) = program.link[t][PipelineOut][sent[t] + 1] /\ Outgoing(t) \in Own(program, t)
  <2>1. ASSUME NEW j \in 1 .. Len(program.dests[t]), PipelineOut = program.dests[t][j]
        PROVE  \A i \in 1 .. L : program.link[t][PipelineOut][i] \in Own(program, t)
    BY <2>1, Outgoings DEF LinkLen
  <2> HIDE DEF L
  <2> QED BY <2>1, <1>3, <1>8 DEF Outgoing
<1> QED BY <1>3, <1>6, <1>7, <1>8, <1>9

\* A step of the sink, to the sink and to what is sent.
LEMMA SinkTakes ==
  ASSUME Linked, Arrays, NEW r \in [program.threads -> Nat], NEW k,
         NEW t \in program.threads, Sink(t),
         \A x \in program.threads : PlaceInv(x) /\ OutInv(r, k, x),
         SinkInv(k), edge[t][Outgoing(t)] = Fr(k - delay),
         NEW last, last = (sent[t] + 1 = LinkLen(t, PipelineOut))
  PROVE  /\ DOMAIN pc' = program.threads /\ DOMAIN dest' = program.threads
         /\ DOMAIN sent' = program.threads
         /\ \A y \in program.threads \ {t} :
              /\ pc'[y] = pc[y] /\ dest'[y] = dest[y] /\ sent'[y] = sent[y]
              /\ \A j \in Nat : Put(r, y, j)' = Put(r, y, j)
              /\ \A x : Sending(y, x)' <=> Sending(y, x)
         /\ pc'[t] \in {"out", "select"}
         /\ dest'[t] \in 1 .. Len(program.dests[t])
         /\ sent'[t] \in 0 .. LinkLen(t, program.dests[t][dest'[t]]) - 1
         /\ pc'[t] = "select" => dest'[t] = 1 /\ sent'[t] = 0
         /\ pc'[t] = "select" <=> (last /\ dest[t] = Len(program.dests[t]))
         /\ last => sent'[t] = 0
         /\ ~last => pc'[t] = "out" /\ dest'[t] = dest[t] /\ sent'[t] = sent[t] + 1
         /\ \A j \in 1 .. Len(program.dests[t]) :
              Put(r, t, j)' = IF j = dest[t] /\ last THEN Put(r, t, j) + 1 ELSE Put(r, t, j)
         /\ \A x \in program.threads : OutInv(r, k, x)' /\ Got(r, x)' = Got(r, x)
         /\ SinkInv(k)'
<1> DEFINE i0 == Len(data) + 1
<1>1. /\ Arrays /\ r \in [program.threads -> Nat]
      /\ \A x \in program.threads : OutInv(r, k, x)
      /\ SinkInv(k)
  OBVIOUS
<1>2. /\ UNCHANGED design /\ due' = due
      /\ data' = Append(data, edge[t][Outgoing(t)])
      /\ reading' <=> i0 < Len(program.mux)
      /\ SendNext(t, pc)
      /\ reading /\ program.mux[i0].thread = t /\ SinkReady(t)
  BY DEF Sink, SinkReady
<1>4. /\ program' = program /\ delay' = delay
      /\ \A x : First(x)' = First(x) /\ Past(x)' = Past(x)
  BY <1>2, SameDesign
<1>5. /\ Len(data) \in Nat /\ Len(program.mux) \in Nat /\ Len(data) < Len(program.mux)
      /\ i0 \in 1 .. Len(program.mux)
      /\ k \in Nat /\ data \in Seq(Frames)
  BY <1>2 DEF SinkInv, Linked, EndsAgree
<1>6. /\ pc[t] = "out" /\ program.dests[t][dest[t]] = PipelineOut /\ dest[t] \in 1 .. Len(program.dests[t])
      /\ First(t) \in 1 .. Len(program.mux) /\ Past(t) \in 1 .. Len(program.mux)
      /\ First(t) <= i0 /\ i0 <= Past(t)
  BY <1>2, SinkReaches
<1>3. pc[t] = "out" /\ program.dests[t][dest[t]] = PipelineOut /\ dest[t] \in 1 .. Len(program.dests[t])
  BY <1>6
<1>7. sent[t] = i0 - First(t) /\ (last <=> i0 = Past(t)) /\ Put(r, t, dest[t]) = k - 1
  <2>1. /\ sent[t] = i0 - First(t) /\ Put(r, t, dest[t]) = k - 1
        /\ sent[t] + 1 = LinkLen(t, PipelineOut) <=> i0 = Past(t)
    <3>1. SinkReady(t) /\ PlaceInv(t) /\ OutInv(r, k, t) /\ SinkInv(k)
      BY <1>2
    <3> QED BY <3>1, SinkReaches
  <2> QED BY <2>1
<1>8. edge[t][Outgoing(t)] = Fr(k - delay) /\ edge[t][Outgoing(t)] \in Frames
  <2>1. k - delay \in Int
    BY <1>5 DEF Linked
  <2> QED BY <2>1, FrNext
<1>9. /\ DOMAIN pc' = program.threads /\ DOMAIN dest' = program.threads
      /\ DOMAIN sent' = program.threads
      /\ \A y \in program.threads \ {t} :
            /\ pc'[y] = pc[y] /\ dest'[y] = dest[y] /\ sent'[y] = sent[y]
            /\ \A j \in Nat : Put(r, y, j)' = Put(r, y, j)
            /\ \A x : Sending(y, x)' <=> Sending(y, x)
      /\ pc'[t] \in {"out", "select"}
      /\ dest'[t] \in 1 .. Len(program.dests[t])
      /\ sent'[t] \in 0 .. LinkLen(t, program.dests[t][dest'[t]]) - 1
      /\ pc'[t] = "select" => dest'[t] = 1 /\ sent'[t] = 0
      /\ pc'[t] = "select" <=> (last /\ dest[t] = Len(program.dests[t]))
      /\ last => sent'[t] = 0
      /\ ~last => pc'[t] = "out" /\ dest'[t] = dest[t] /\ sent'[t] = sent[t] + 1
      /\ \A j \in 1 .. Len(program.dests[t]) :
            Put(r, t, j)' = IF j = dest[t] /\ last THEN Put(r, t, j) + 1 ELSE Put(r, t, j)
  <2>1. PlaceInv(t) /\ DOMAIN pc = program.threads
    BY <1>1 DEF Arrays
  <2>2. last = (sent[t] + 1 = LinkLen(t, PipelineOut))
    OBVIOUS
  <2>3. SendNext(t, pc) /\ UNCHANGED design
    BY <1>2
  <2>4. Arrays /\ r \in [program.threads -> Nat]
    BY <1>1
  <2>5. \A y \in program.threads : pc[y] # pc[y] => pc[y] # "out" /\ pc[y] # "out"
    OBVIOUS
  <2> QED BY <2>1, <2>2, <2>3, <2>4, <2>5, <1>3, SendStep
<1>11. \A x \in program.threads : Got(r, x)' = Got(r, x)
  <2> TAKE x \in program.threads
  <2>1. pc'[x] = "process" <=> pc[x] = "process"
    BY <1>3, <1>9
  <2> QED BY <2>1 DEF Got
<1>14. Len(data') = i0
  BY <1>2, <1>5
<1>15. ASSUME NEW x \in program.threads
       PROVE  OutInv(r, k, x)'
  <2>1. OutInv(r, k, x)
    BY <1>1
  <2>2. CASE x = t
    <3> SUFFICES ASSUME NEW j \in 1 .. Len(program.dests[t]), program.dests[t][j] = PipelineOut
                 PROVE  /\ Put(r, t, j)' = IF reading' /\ i0 < Past(t) THEN k - 1 ELSE k
                        /\ reading' /\ First(t) <= i0 /\ i0 < Past(t) => Sending(t, PipelineOut)'
                        /\ Sending(t, PipelineOut)' =>
                             sent'[t] = IF reading' /\ First(t) <= i0 /\ i0 < Past(t)
                                        THEN i0 - First(t) + 1 ELSE 0
      BY <2>2, <1>4, <1>14 DEF OutInv
    <3>1. j = dest[t]
      BY <1>3, Outgoings
    <3>2. CASE last
      <4>1. i0 = Past(t) /\ sent'[t] = 0 /\ Put(r, t, j)' = (k - 1) + 1
        BY <3>1, <3>2, <1>7, <1>9
      <4> QED BY <4>1, <1>5, <1>6
    <3>3. CASE ~last
      <4>1. i0 < Past(t) /\ i0 < Len(program.mux)
        <5>1. i0 # Past(t)
          BY <3>3, <1>7
        <5> HIDE DEF i0
        <5> QED BY <5>1, <1>5, <1>6
      <4>2. Put(r, t, j)' = k - 1 /\ sent'[t] = i0 - First(t) + 1
        BY <3>1, <3>3, <1>7, <1>9
      <4>3. Sending(t, PipelineOut)'
        BY <3>3, <1>3, <1>4, <1>9 DEF Sending
      <4> QED BY <4>1, <4>2, <4>3, <1>2, <1>6
    <3> QED BY <3>2, <3>3
  <2>3. CASE x # t
    <3> SUFFICES ASSUME NEW j \in 1 .. Len(program.dests[x]), program.dests[x][j] = PipelineOut
                 PROVE  /\ Put(r, x, j)' = IF reading' /\ i0 < Past(x) THEN k - 1 ELSE k
                        /\ reading' /\ First(x) <= i0 /\ i0 < Past(x) => Sending(x, PipelineOut)'
                        /\ Sending(x, PipelineOut)' =>
                             sent'[x] = IF reading' /\ First(x) <= i0 /\ i0 < Past(x)
                                        THEN i0 - First(x) + 1 ELSE 0
      BY <1>4, <1>14 DEF OutInv
    <3>1. j \in Nat
      <4>1. Len(program.dests[x]) \in Nat
        BY Outgoings
      <4> QED BY <4>1
    <3>2. /\ First(x) \in 1 .. Len(program.mux) /\ Past(x) \in 1 .. Len(program.mux)
          /\ First(x) <= Past(x)
          /\ ~(First(x) <= i0 /\ i0 <= Past(x))
      <4>1. /\ First(x) \in 1 .. Len(program.mux) /\ Past(x) \in 1 .. Len(program.mux)
            /\ Past(x) = First(x) + LinkLen(x, PipelineOut) - 1
            /\ \A i \in 1 .. Len(program.mux) :
                 program.mux[i].thread = x <=> First(x) <= i /\ i <= Past(x)
            /\ LinkLen(x, PipelineOut) \in Nat \ {0}
        BY Places
      <4> HIDE DEF i0
      <4>2. ~(First(x) <= i0 /\ i0 <= Past(x))
        BY <4>1, <2>3, <1>2, <1>5
      <4> QED BY <4>1, <4>2
    <3>3. /\ Put(r, x, j) = IF Len(data) < Past(x) THEN k - 1 ELSE k
          /\ Sending(x, PipelineOut) =>
               sent[x] = IF First(x) <= Len(data) /\ Len(data) < Past(x)
                         THEN Len(data) - First(x) + 1 ELSE 0
      BY <2>1, <1>2 DEF OutInv
    <3>4. ~(First(x) <= Len(data) /\ Len(data) < Past(x)) /\ ~(First(x) <= i0 /\ i0 < Past(x))
      BY <3>2, <1>5
    <3>5. (reading' /\ i0 < Past(x)) <=> Len(data) < Past(x)
      BY <3>2, <1>2, <1>5
    <3>6. Put(r, x, j)' = Put(r, x, j) /\ sent'[x] = sent[x]
          /\ (Sending(x, PipelineOut)' <=> Sending(x, PipelineOut))
      BY <2>3, <3>1, <1>9
    <3> QED BY <3>3, <3>4, <3>5, <3>6
  <2> QED BY <2>2, <2>3
<1>17. SinkInv(k)'
  <2> DEFINE w == edge[t][Outgoing(t)]
  <2>1. data' = Append(data, w) /\ w = Fr(k - delay) /\ w \in Frames
    BY <1>2, <1>8
  <2> HIDE DEF w
  <2>2. data' \in Seq(Frames) /\ \A i \in 1 .. Len(data') : data'[i] = Fr(k - delay)
    <3>1. \A i \in 1 .. Len(data) : data[i] = Fr(k - delay)
      BY <1>1 DEF SinkInv
    <3> QED BY <2>1, <3>1, <1>5
  <2>3. Len(data') <= Len(program.mux) /\ (reading' => Len(data') < Len(program.mux))
    BY <1>2, <1>5, <1>14
  <2> QED BY <2>2, <2>3, <1>1, <1>2, <1>4 DEF SinkInv
<1> QED BY <1>9, <1>11, <1>15, <1>17

\* What the sink receives is the frame that came in as many calls earlier as the
\* outputs cross threads.
LEMMA SinkStepInv ==
  ASSUME Linked, Wired, NEW r, NEW c, NEW k, PipeInv(r, c, k),
         NEW t \in program.threads, Sink(t)
  PROVE  PipeInv(r, c, k)'
<1>1. /\ Arrays /\ r \in [program.threads -> Nat]
      /\ \A x \in program.threads : NodeInv(r, x) /\ LinkInv(r, x) /\ OutInv(r, k, x)
      /\ \A x \in program.threads : PlaceInv(x)
      /\ SourceInv(r, c) /\ SinkInv(k)
  BY DEF PipeInv, NodeInv
<1>2. /\ UNCHANGED design
      /\ UNCHANGED <<from, received, edge, fifo, frame, done>>
      /\ read_count' = Reloaded(t) /\ SinkReady(t)
  BY DEF Sink, sourceVars
<1>3. /\ pc[t] = "out" /\ program.dests[t][dest[t]] = PipelineOut /\ dest[t] \in 1 .. Len(program.dests[t])
      /\ r[t] = k - 1 /\ Outgoing(t) \in Own(program, t)
  BY <1>1, <1>2, SinkReaches
<1>4. /\ program' = program /\ setup' = setup /\ delay' = delay
      /\ \A x : Src(x)' = Src(x) /\ D(x)' = D(x)
      /\ \A x, b : LinkLen(x, b)' = LinkLen(x, b)
  BY <1>2, SameDesign
<1>5. edge[t][Outgoing(t)] = Fr(k - delay)
  <2>1. edge[t][Outgoing(t)] = Fr(r[t] - D(t) + 1)
    BY <1>1, <1>3 DEF NodeInv
  <2>2. D(t) = delay /\ delay \in Nat /\ k \in Nat
    BY <1>1, <1>3, Places DEF SinkInv, Linked
  <2>3. r[t] - D(t) + 1 = k - delay
    BY <2>2, <1>3
  <2> QED BY <2>1, <2>3
<1>6. PICK last : last = (sent[t] + 1 = LinkLen(t, PipelineOut))
  OBVIOUS
<1>9. /\ DOMAIN pc' = program.threads /\ DOMAIN dest' = program.threads
      /\ DOMAIN sent' = program.threads
      /\ \A y \in program.threads \ {t} :
            /\ pc'[y] = pc[y] /\ dest'[y] = dest[y] /\ sent'[y] = sent[y]
            /\ \A j \in Nat : Put(r, y, j)' = Put(r, y, j)
            /\ \A x : Sending(y, x)' <=> Sending(y, x)
      /\ pc'[t] \in {"out", "select"}
      /\ dest'[t] \in 1 .. Len(program.dests[t])
      /\ sent'[t] \in 0 .. LinkLen(t, program.dests[t][dest'[t]]) - 1
      /\ pc'[t] = "select" => dest'[t] = 1 /\ sent'[t] = 0
      /\ pc'[t] = "select" <=> (last /\ dest[t] = Len(program.dests[t]))
      /\ last => sent'[t] = 0
      /\ ~last => pc'[t] = "out" /\ dest'[t] = dest[t] /\ sent'[t] = sent[t] + 1
      /\ \A j \in 1 .. Len(program.dests[t]) :
            Put(r, t, j)' = IF j = dest[t] /\ last THEN Put(r, t, j) + 1 ELSE Put(r, t, j)
      /\ \A x \in program.threads : OutInv(r, k, x)' /\ Got(r, x)' = Got(r, x)
      /\ SinkInv(k)'
  BY <1>1, <1>5, <1>6, SinkTakes
<1>10. /\ DOMAIN read_count' = program.threads
       /\ read_count'[t] = IF last /\ dest[t] = Len(program.dests[t]) THEN 1 ELSE 0
       /\ \A y \in program.threads \ {t} : read_count'[y] = read_count[y]
  <2>1. read_count[t] = 0
    BY <1>1, <1>3 DEF NodeInv
  <2>2. /\ DOMAIN Reloaded(t) = program.threads
        /\ \A y \in program.threads \ {t} : Reloaded(t)[y] = read_count[y]
        /\ Reloaded(t)[t] = IF last /\ dest[t] = Len(program.dests[t]) THEN 1 ELSE 0
    BY <2>1, <1>1, <1>3, <1>6, ReloadedOnce
  <2> QED BY <2>2, <1>2
<1>12. ASSUME NEW x \in program.threads
       PROVE  NodeInv(r, x)'
  <2>1. NodeInv(r, x)
    BY <1>1
  <2>2. CASE x = t
    BY <2>1, <2>2, <1>2, <1>3, <1>4, <1>9, <1>10 DEF NodeInv, PlaceInv, Own
  <2>3. CASE x # t
    <3>1. /\ pc'[x] = pc[x] /\ dest'[x] = dest[x] /\ sent'[x] = sent[x]
          /\ edge'[x] = edge[x] /\ read_count'[x] = read_count[x]
      BY <2>3, <1>2, <1>9, <1>10
    <3> QED BY <2>1, <3>1, <1>4 DEF NodeInv, PlaceInv, Own, Incoming
  <2> QED BY <2>2, <2>3
<1>13. ASSUME NEW x \in program.threads
       PROVE  LinkInv(r, x)'
  <2>0. PICK a : a = Src(x)
    OBVIOUS
  <2>1. LinkInv(r, x)
    BY <1>1
  <2>2. edge'[x] = edge[x] /\ from'[x] = from[x] /\ received'[x] = received[x]
    BY <1>2
  <2>3. pc'[x] = "take" <=> pc[x] = "take"
    BY <1>3, <1>9
  <2>4. x # PipelineOut
    BY Outgoings DEF PipelineOut
  <2>5. CASE a = PipelineIn
    BY <2>0, <2>1, <2>3, <2>5, <1>4 DEF LinkInv
  <2>6. CASE a # PipelineIn
    <3>1. a \in program.threads /\ a # x
      BY <2>0, <2>6, Incomings
    <3>2. Got(r, x)' = Got(r, x)
      BY <1>9
    <3>3. CASE a = t
      <4>1. \A j \in 1 .. Len(program.dests[t]) : program.dests[t][j] = x => j # dest[t]
        BY <1>3, <2>4
      <4>2. \A j \in 1 .. Len(program.dests[t]) :
              program.dests[t][j] = x => Put(r, t, j)' = Got(r, x)'
        BY <2>0, <2>1, <2>6, <3>2, <3>3, <4>1, <1>9 DEF LinkInv
      <4>3. ~(Sending(t, x)' /\ sent'[t] > 0)
        <5> SUFFICES ASSUME Sending(t, x)', sent'[t] > 0 PROVE FALSE
          OBVIOUS
        <5>1. ~last
          BY <1>9
        <5>2. dest'[t] = dest[t]
          BY <5>1, <1>9
        <5> QED BY <5>2, <1>3, <1>4, <2>4 DEF Sending
      <4>4. pc[x] # "take"
        <5>1. ~Sending(t, x)
          BY <1>3, <2>4 DEF Sending
        <5> QED BY <5>1, <2>0, <2>1, <2>6, <3>3 DEF LinkInv
      <4> QED BY <2>0, <2>3, <2>6, <3>3, <4>2, <4>3, <4>4, <1>4 DEF LinkInv
    <3>4. CASE a # t
      <4>1. /\ \A j \in Nat : Put(r, a, j)' = Put(r, a, j)
            /\ sent'[a] = sent[a] /\ (Sending(a, x)' <=> Sending(a, x))
        BY <3>1, <3>4, <1>9
      <4>2. Len(program.dests[a]) \in Nat
        BY <3>1, Outgoings
      <4>3. \A j \in 1 .. Len(program.dests[a]) : Put(r, a, j)' = Put(r, a, j)
        BY <4>1, <4>2
      <4> QED BY <2>0, <2>1, <2>2, <2>3, <2>6, <3>2, <4>1, <4>3, <1>4 DEF LinkInv
    <3> QED BY <3>3, <3>4
  <2> QED BY <2>5, <2>6
<1>16. SourceInv(r, c)'
  BY <1>1, <1>2, <1>9, FifosSame
<1>18. Arrays'
  BY <1>1, <1>2, <1>4, <1>9, <1>10 DEF Arrays
<1> QED BY <1>1, <1>4, <1>9, <1>12, <1>13, <1>16, <1>18 DEF PipeInv

-----------------------------------------------------------------------------
(* The theorems *)

\* Every step keeps the invariant.
LEMMA NextInv == IInv /\ [Next]_vars => IInv'
<1> SUFFICES ASSUME IInv, [Next]_vars PROVE IInv'
  OBVIOUS
<1>1. UNCHANGED design
  BY DEF Next, vars, Transfer, TakeInput, DoControl, Process, CallSink, Sink, CallSource, Source,
         NextPeriod, Command
<1>2. ProgramInv' /\ setup' = setup
  BY <1>1, SameDesign DEF IInv
<1>3. ASSUME OneSource(setup.design)
      PROVE  (\E r, c, k : PipeInv(r, c, k))'
  <2>1. PICK r, c, k : PipeInv(r, c, k)
    BY <1>3 DEF IInv
  <2>2. Linked /\ Wired
    BY <1>3, ProgramWired DEF IInv
  <2>3. ASSUME NEW t \in program.threads, NEW u \in program.threads, Transfer(t, u)
        PROVE  PipeInv(r, c, k)'
    BY <2>1, <2>2, <2>3, TransferInv
  <2>4. ASSUME NEW t \in program.threads, TakeInput(t)
        PROVE  PipeInv(r, c, k)'
    BY <2>1, <2>2, <2>4, TakeInputInv
  <2>5. ASSUME NEW t \in program.threads, DoControl(t)
        PROVE  PipeInv(r, c, k)'
    BY <2>1, <2>5, QuietInv DEF DoControl
  <2>6. ASSUME NEW t \in program.threads, Process(t)
        PROVE  \E s : PipeInv(s, c, k)'
    BY <2>1, <2>2, <2>6, ProcessInv
  <2>7. ASSUME CallSink
        PROVE  PipeInv(r, c, k + 1)'
    BY <2>1, <2>2, <2>7, CallSinkInv
  <2>8. ASSUME NEW t \in program.threads, Sink(t)
        PROVE  PipeInv(r, c, k)'
    BY <2>1, <2>2, <2>8, SinkStepInv
  <2>9. ASSUME CallSource
        PROVE  PipeInv(r, c, k)'
    BY <2>1, <2>2, <2>9, CallSourceInv
  <2>10. ASSUME Source
         PROVE  \E n : PipeInv(r, n, k)'
    BY <2>1, <2>2, <2>10, SourceStepInv
  <2>11. ASSUME NextPeriod
         PROVE  PipeInv(r, c, k)'
    BY <2>1, <2>11, QuietInv DEF NextPeriod, threadVars
  <2>12. ASSUME NEW t \in setup.commanded, Command(t)
         PROVE  PipeInv(r, c, k)'
    BY <2>1, <2>12, QuietInv DEF Command
  <2>13. CASE UNCHANGED vars
    BY <2>1, <2>13, QuietInv DEF vars, threadVars
  <2> HIDE DEF PipeInv
  <2> QED BY <2>3, <2>4, <2>5, <2>6, <2>7, <2>8, <2>9, <2>10, <2>11, <2>12, <2>13 DEF Next
<1> QED BY <1>2, <1>3 DEF IInv

\* In a design of threads with one source each, however many threads and however
\* fast they and the application are, no stage ever processes inputs of two frames.
THEOREM AlignmentCorrect == Spec => [](OneSource(setup.design) => StageInputsAligned)
<1>1. IInv => (OneSource(setup.design) => StageInputsAligned)
  <2> SUFFICES ASSUME IInv, OneSource(setup.design) PROVE StageInputsAligned
    OBVIOUS
  <2>1. PICK r, c, k : PipeInv(r, c, k)
    BY DEF IInv
  <2>2. \A t \in program.threads : edge[t] \in [program.edges[t] -> Frames]
    BY <2>1 DEF PipeInv, NodeInv, PlaceInv
  <2> QED BY <2>2, NumFramesAssumption DEF StageInputsAligned, Frames, Mixed
<1> QED BY <1>1, InitInv, NextInv, PTL DEF Spec

\* What a sink call delivers while SinkInv holds.
LEMMA SinkDelivers ==
  ASSUME NEW k, SinkInv(k), delay \in Nat
  PROVE  LatencyIsCrossings
<1> SUFFICES ASSUME NEW i \in 1 .. Len(data)
             PROVE  data[i] = IF due < 0 THEN 0 ELSE due
  BY DEF LatencyIsCrossings
<1>1. /\ k \in Nat
      /\ due = IF k <= delay THEN k - delay ELSE Fr(k - delay)
      /\ data[i] = Fr(k - delay)
  BY DEF SinkInv
<1>2. Fr(k - delay) \in Frames /\ (k - delay <= 0 => Fr(k - delay) = 0)
  BY <1>1, FrNext
<1> QED BY <1>1, <1>2, NumFramesAssumption DEF Frames

\* In such a design every sink call delivers, on every channel, the frame that went
\* in as many calls earlier as the outputs cross threads, and zeros before that.
THEOREM DeliveryCorrect == Spec => [](OneSource(setup.design) => LatencyIsCrossings)
<1>1. IInv => (OneSource(setup.design) => LatencyIsCrossings)
  <2> SUFFICES ASSUME IInv, OneSource(setup.design) PROVE LatencyIsCrossings
    OBVIOUS
  <2>1. PICK r, c, k : PipeInv(r, c, k)
    BY DEF IInv
  <2>2. delay \in Nat
    BY ProgramWired DEF IInv, Linked
  <2> QED BY <2>1, <2>2, SinkDelivers DEF PipeInv
<1> QED BY <1>1, InitInv, NextInv, PTL DEF Spec

-----------------------------------------------------------------------------
(* Designs whose threads may have several sources *)

\* The threads that the outputs of stage s have crossed.
Deep(d, s) == Cardinality(StageCrossings(d)[s])

\* Every edge that comes to a thread from outside comes over one of its links.
SourcesAgree(d) ==
  LET p == Generated(d)
  IN  \A t \in p.threads :
        /\ IsFiniteSet(p.sources[t]) /\ p.sources[t] # {}
        /\ PipelineIn \in p.sources[t] => p.sources[t] = {PipelineIn}
        /\ \A a \in p.sources[t] \ {PipelineIn} :
             /\ a \in p.threads /\ a # t /\ t \in ToSet(p.dests[a])
             /\ p.link[a][t] \in Seq(Incoming(p, t))
             /\ \A e \in ToSet(p.link[a][t]) : SourceThread(d, e) = a
        /\ \A e \in Incoming(p, t) :
             /\ SourceThread(d, e) \in p.sources[t]
             /\ SourceThread(d, e) = PipelineIn <=> e[1] = 0
             /\ SourceThread(d, e) # PipelineIn => e \in ToSet(p.link[SourceThread(d, e)][t])

\* A stage's outputs have crossed a thread more than those of its inputs that
\* come from outside its thread, and no more than the others; those that leave
\* have crossed as many as the design says.
LayersAgree(d) ==
  LET p == Generated(d)
  IN  /\ Deep(d, 0) = 0 /\ \A s \in 1 .. Len(d.stages) : Deep(d, s) \in Nat \ {0}
      /\ \A t \in p.threads : \A s \in DOMAIN p.process[t] : \A e \in p.process[t][s] :
           Deep(d, s) = IF e[1] \in DOMAIN p.process[t] THEN Deep(d, e[1]) ELSE Deep(d, e[1]) + 1
      /\ \A t \in p.threads : \A e \in ToSet(p.link[t][PipelineOut]) :
           Deep(d, e[1]) = OutputCrossings(d)
      /\ \A t \in p.threads : \A e \in p.edges[t] : e[1] \in 0 .. Len(d.stages)

\* A thread's first stage has its inputs from outside.
LEMMA SomeSource ==
  ASSUME NEW d, IsDesign(d), NEW t \in ThreadIds(d)
  PROVE  Sources(d, t) # {}
<1> DEFINE mine == {s \in StageIds(d) : d.stages[s].thread = t}
<1>1. mine \in SUBSET Nat /\ mine # {}
  BY EdgeFacts DEF StageIds, ThreadIds
<1>2. PICK s \in mine : \A r \in mine : s <= r
  BY <1>1, LeastOf
<1>3. PICK e : e = d.stages[s].inputs[1]
  OBVIOUS
<1>4. e \in ToSet(d.stages[s].inputs) /\ e \in Edges(d) /\ e[1] \in 0 .. s - 1 /\ s \in Nat
  BY <1>2, <1>3, FirstInput
<1>5. DestThread(d, e) = t
  BY <1>2, <1>4, DestFacts
<1>6. SourceThread(d, e) # t
  <2> SUFFICES ASSUME SourceThread(d, e) = t PROVE FALSE
    OBVIOUS
  <2>1. t \in Nat
    BY ThreadFacts
  <2>2. e[1] # 0
    BY <1>4, <2>1, EdgeFacts DEF PipelineIn
  <2>3. e[1] \in mine
    BY <1>4, <2>2, EdgeFacts
  <2> QED BY <1>2, <1>4, <2>3
<1> QED BY <1>4, <1>5, <1>6 DEF Sources

LEMMA SourcesGenerated ==
  ASSUME NEW d, IsDesign(d), Generatable(d)
  PROVE  SourcesAgree(d)
<1> DEFINE p == Generated(d)
<1>1. p.threads = ThreadIds(d) /\ \A t \in ThreadIds(d) : p.sources[t] = Sources(d, t)
  BY GeneratedFields
<1>2. ASSUME NEW t \in ThreadIds(d)
      PROVE  IsFiniteSet(Sources(d, t)) /\ Sources(d, t) # {}
  <2>1. IsFiniteSet({f \in Edges(d) : DestThread(d, f) = t})
    BY EdgeFacts, FS_Subset
  <2> DEFINE F == {f \in Edges(d) : DestThread(d, f) = t}
             g == [f \in F |-> SourceThread(d, f)]
  <2>2. IsFiniteSet({g[f] : f \in F})
    BY <2>1, ImageFinite
  <2>3. Sources(d, t) \subseteq {g[f] : f \in F}
    BY DEF Sources
  <2> QED BY <2>2, <2>3, FS_Subset, SomeSource
<1>3. \A t \in ThreadIds(d) : PipelineIn \in Sources(d, t) => Sources(d, t) = {PipelineIn}
  BY DEF Generatable
<1>4. ASSUME NEW t \in ThreadIds(d), NEW a \in Sources(d, t) \ {PipelineIn}
      PROVE  /\ a \in ThreadIds(d) /\ a # t /\ t \in ToSet(p.dests[a])
             /\ p.link[a][t] = EdgesBetween(d, a, t)
             /\ p.link[a][t] \in Seq(Incoming(p, t))
             /\ \A e \in ToSet(p.link[a][t]) : SourceThread(d, e) = a
  <2>1. PICK e \in Edges(d) : SourceThread(d, e) = a /\ DestThread(d, e) = t /\ a # t
    BY DEF Sources
  <2>2. a \in ThreadIds(d)
    BY <2>1, EdgeFacts
  <2>3. t \in ToSet(p.dests[a])
    <3>1. LinksAgree(p)
      BY LinksGenerated
    <3> HIDE DEF p
    <3>2. a \in p.sources[t]
      BY <1>1
    <3> QED BY <1>1, <3>1, <3>2 DEF LinksAgree
  <2>4. p.link[a][t] = EdgesBetween(d, a, t)
    BY <2>2, GeneratedFields
  <2>5. Between(d, a, t) \subseteq Incoming(p, t)
    BY <2>1, OwnFacts DEF Between
  <2>6. /\ EdgesBetween(d, a, t) \in Seq(Between(d, a, t))
        /\ ToSet(EdgesBetween(d, a, t)) = Between(d, a, t)
    BY BetweenFacts
  <2>7. \A x \in Between(d, a, t) : SourceThread(d, x) = a
    BY DEF Between
  <2> HIDE DEF p
  <2> QED BY <2>1, <2>2, <2>3, <2>4, <2>5, <2>6, <2>7
<1>5. ASSUME NEW t \in ThreadIds(d), NEW e \in Incoming(p, t)
      PROVE  /\ SourceThread(d, e) \in Sources(d, t)
             /\ SourceThread(d, e) = PipelineIn <=> e[1] = 0
             /\ SourceThread(d, e) # PipelineIn => e \in ToSet(p.link[SourceThread(d, e)][t])
  <2>1. e \in Edges(d) /\ DestThread(d, e) = t /\ SourceThread(d, e) # t
    BY OwnFacts
  <2>2. SourceThread(d, e) \in Sources(d, t)
    BY <2>1 DEF Sources
  <2>3. SourceThread(d, e) = PipelineIn <=> e[1] = 0
    BY <2>1, EdgeFacts
  <2>4. e \in Between(d, SourceThread(d, e), t)
    BY <2>1 DEF Between
  <2> HIDE DEF p
  <2> QED BY <1>4, <2>2, <2>3, <2>4, BetweenFacts
<1> HIDE DEF p
<1> QED BY <1>1, <1>2, <1>3, <1>4, <1>5 DEF SourcesAgree, p

\* The threads crossed by a stage's outputs come before its own, which is among
\* them.
LEMMA CrossingsAscend ==
  ASSUME NEW d, IsDesign(d), MadeInOrder(d)
  PROVE  \A s \in 0 .. Len(d.stages) :
           /\ IsFiniteSet(StageCrossings(d)[s])
           /\ StageCrossings(d)[s] \subseteq Nat
           /\ s = 0 => StageCrossings(d)[s] = {}
           /\ s # 0 => /\ StageCrossings(d)[s] =
                            StageCrossings(d)[d.stages[s].inputs[1][1]] \cup {d.stages[s].thread}
                       /\ d.stages[s].thread \in StageCrossings(d)[s]
                       /\ \A t \in StageCrossings(d)[s] : t <= d.stages[s].thread
<1> DEFINE N == Len(d.stages)
           c == StageCrossings(d)
           T(s) == d.stages[s].thread
           f(s) == d.stages[s].inputs[1][1]
           Good(s) == /\ IsFiniteSet(c[s]) /\ c[s] \subseteq Nat
                      /\ s = 0 => c[s] = {}
                      /\ s # 0 => /\ c[s] = c[f(s)] \cup {T(s)} /\ T(s) \in c[s]
                                  /\ \A t \in c[s] : t <= T(s)
           bad == {s \in 0 .. N : ~Good(s)}
<1>1. N \in Nat /\ StageIds(d) = 1 .. N /\ \A s \in 1 .. N : T(s) \in Nat
  BY EdgeFacts DEF StageIds
<1>2. c[0] = {} /\ \A s \in 1 .. N : c[s] = c[f(s)] \cup {T(s)}
  BY <1>1, CrossingsDefined DEF Crossed
<1>3. \A s \in 1 .. N : f(s) \in 0 .. s - 1
  BY <1>1, FirstInput
<1>4. \A s, r \in 1 .. N : s < r => T(s) <= T(r)
  BY <1>1 DEF MadeInOrder
<1> HIDE DEF N, c, T, f
<1>5. Good(0)
  BY <1>2, FS_EmptySet
<1>6. ASSUME NEW s \in 1 .. N, Good(f(s))
      PROVE  Good(s)
  <2>1. c[s] = c[f(s)] \cup {T(s)} /\ T(s) \in Nat
    BY <1>1, <1>2
  <2>2. IsFiniteSet(c[s])
    BY <1>6, <2>1, FS_AddElement
  <2>3. ASSUME NEW t \in c[s] PROVE t <= T(s)
    <3>1. CASE t = T(s)
      BY <3>1, <2>1
    <3>2. CASE t \in c[f(s)]
      <4>1. f(s) # 0 /\ t <= T(f(s)) /\ t \in Nat
        BY <1>6, <3>2
      <4>2. f(s) \in 1 .. N /\ f(s) < s
        <5>1. f(s) \in 0 .. s - 1
          BY <1>3
        <5> QED BY <1>1, <4>1, <5>1
      <4>3. T(f(s)) <= T(s) /\ T(f(s)) \in Nat
        BY <1>1, <1>4, <4>2
      <4> QED BY <2>1, <4>1, <4>3
    <3> QED BY <2>1, <2>3, <3>1, <3>2
  <2> QED BY <1>6, <2>1, <2>2, <2>3
<1> HIDE DEF Good
<1>7. bad = {}
  <2> SUFFICES ASSUME bad # {} PROVE FALSE
    OBVIOUS
  <2>0. bad \in SUBSET Nat
    BY <1>1
  <2>1. PICK s \in bad : \A r \in bad : s <= r
    BY <2>0, LeastOf
  <2>2. s \in 1 .. N
    BY <1>1, <1>5, <2>1
  <2>3. f(s) \in 0 .. N /\ f(s) < s
    BY <1>1, <1>3, <2>2
  <2>4. Good(f(s))
    BY <1>1, <2>1, <2>2, <2>3
  <2> QED BY <1>6, <2>1, <2>2, <2>4
<1>8. \A s \in 0 .. N : Good(s)
  BY <1>7
<1> QED BY <1>8 DEF Good, c, N, T, f

LEMMA LayersGenerated ==
  ASSUME NEW d, IsDesign(d), Accepted(d), MadeInOrder(d)
  PROVE  LayersAgree(d)
<1> DEFINE p == Generated(d)
           N == Len(d.stages)
           c == StageCrossings(d)
           T(s) == d.stages[s].thread
<1>1. N \in Nat \ {0} /\ StageIds(d) = 1 .. N
  BY EdgeFacts DEF StageIds
<1>2. \A s \in 0 .. N :
        /\ IsFiniteSet(c[s]) /\ c[s] \subseteq Nat
        /\ s = 0 => c[s] = {}
        /\ s # 0 => T(s) \in c[s] /\ \A t \in c[s] : t <= T(s)
  BY CrossingsAscend
<1>3. \A s \in 1 .. N : Deep(d, s) \in Nat \ {0}
  <2> TAKE s \in 1 .. N
  <2>1. IsFiniteSet(c[s]) /\ c[s] # {}
    BY <1>1, <1>2
  <2> QED BY <2>1, FS_CardinalityType, FS_EmptySet DEF Deep
<1>4. Deep(d, 0) = 0
  BY <1>1, <1>2, FS_EmptySet DEF Deep
<1>5. /\ p.threads = ThreadIds(d)
      /\ \A t \in ThreadIds(d) :
           /\ DOMAIN p.process[t] = {r \in StageIds(d) : T(r) = t}
           /\ \A s \in DOMAIN p.process[t] : p.process[t][s] = ToSet(d.stages[s].inputs)
           /\ p.link[t][PipelineOut] = EdgesBetween(d, t, PipelineOut)
           /\ p.edges[t] \subseteq Edges(d)
  BY GeneratedFields
<1> HIDE DEF p
<1>6. ASSUME NEW s \in 1 .. N, NEW e \in ToSet(d.stages[s].inputs)
      PROVE  /\ e[1] \in 0 .. s - 1 /\ e \in Edges(d)
             /\ Deep(d, s) = IF e[1] # 0 /\ T(e[1]) = T(s) THEN Deep(d, e[1]) ELSE Deep(d, e[1]) + 1
  <2>1. e \in Edges(d) /\ e[1] < s /\ e[1] \in 0 .. N
    BY <1>1, EdgeFacts DEF IsDesign
  <2>2. Cardinality(c[s]) = Cardinality(c[e[1]] \cup {T(s)})
    <3>1. c[s] = c[d.stages[s].inputs[1][1]] \cup {T(s)} /\ d.stages[s].inputs[1] \in ToSet(d.stages[s].inputs)
      BY <1>1, CrossingsAscend, FirstInput
    <3>2. SameSize({c[x[1]] \cup {T(s)} : x \in ToSet(d.stages[s].inputs)})
      BY <1>1 DEF Accepted
    <3> QED BY <3>1, <3>2 DEF SameSize
  <2>3. IsFiniteSet(c[e[1]]) /\ T(s) \in Nat
    BY <1>1, <1>2, <2>1, EdgeFacts
  <2>4. CASE e[1] # 0 /\ T(e[1]) = T(s)
    <3>1. c[e[1]] \cup {T(s)} = c[e[1]]
      BY <1>2, <2>1, <2>4
    <3>2. Deep(d, s) = Deep(d, e[1])
      BY <2>2, <3>1 DEF Deep
    <3> HIDE DEF T
    <3> QED BY <2>1, <2>4, <3>2
  <2>5. CASE ~(e[1] # 0 /\ T(e[1]) = T(s))
    <3>1. T(s) \notin c[e[1]]
      <4>1. CASE e[1] = 0
        BY <1>2, <2>1, <4>1
      <4>2. CASE e[1] # 0
        <5>1. e[1] \in 1 .. N /\ T(e[1]) # T(s) /\ T(e[1]) \in Nat
          BY <1>1, <2>1, <2>5, <4>2, EdgeFacts
        <5>2. T(e[1]) <= T(s)
          BY <1>1, <2>1, <5>1 DEF MadeInOrder
        <5>3. \A t \in c[e[1]] : t <= T(e[1])
          BY <1>2, <2>1, <4>2
        <5> HIDE DEF T
        <5> QED BY <2>3, <5>1, <5>2, <5>3
      <4> QED BY <4>1, <4>2
    <3>2. Cardinality(c[e[1]] \cup {T(s)}) = Cardinality(c[e[1]]) + 1
      BY <2>3, <3>1, FS_AddElement
    <3> QED BY <2>1, <2>2, <2>5, <3>2 DEF Deep
  <2> QED BY <2>1, <2>4, <2>5
<1>7. ASSUME NEW t \in ThreadIds(d), NEW s \in DOMAIN p.process[t], NEW e \in p.process[t][s]
      PROVE  Deep(d, s) = IF e[1] \in DOMAIN p.process[t] THEN Deep(d, e[1]) ELSE Deep(d, e[1]) + 1
  <2>1. s \in 1 .. N /\ T(s) = t /\ e \in ToSet(d.stages[s].inputs)
    BY <1>1, <1>5
  <2>2. e[1] \in DOMAIN p.process[t] <=> e[1] # 0 /\ T(e[1]) = T(s)
    <3>1. e[1] \in 0 .. s - 1
      BY <1>6, <2>1
    <3>2. e[1] # 0 => e[1] \in StageIds(d)
      BY <1>1, <2>1, <3>1
    <3>3. 0 \notin StageIds(d)
      BY <1>1
    <3> HIDE DEF T
    <3> QED BY <1>5, <2>1, <3>2, <3>3
  <2> QED BY <1>6, <2>1, <2>2
<1>8. ASSUME NEW t \in ThreadIds(d), NEW e \in ToSet(p.link[t][PipelineOut])
      PROVE  Deep(d, e[1]) = OutputCrossings(d)
  <2>1. e \in Between(d, t, PipelineOut)
    BY <1>5, BetweenFacts
  <2>2. e \in ToSet(d.outputs)
    BY <2>1, DestFacts DEF Between
  <2>3. d.outputs[1] \in ToSet(d.outputs)
    BY SeqFacts DEF IsDesign, ToSet
  <2>4. SameSize({c[x[1]] : x \in ToSet(d.outputs)})
    BY DEF Accepted
  <2>5. Cardinality(c[e[1]]) = Cardinality(c[d.outputs[1][1]])
    BY <2>2, <2>3, <2>4 DEF SameSize
  <2> QED BY <2>5 DEF Deep, OutputCrossings
<1>9. \A t \in ThreadIds(d) : \A e \in p.edges[t] : e[1] \in 0 .. N
  BY <1>5, EdgeFacts
<1> QED BY <1>3, <1>4, <1>5, <1>7, <1>8, <1>9 DEF LayersAgree, p

-----------------------------------------------------------------------------
(* The program of such a design, on time *)

\* The threads that edge e has crossed, and the one that it comes from.
H(e) == Deep(setup.design, e[1])
From(e) == SourceThread(setup.design, e)

\* What a program whose threads may have several sources relies on.
Layered ==
  /\ Linked
  /\ SourcesAgree(setup.design) /\ LayersAgree(setup.design)
  /\ program = Generated(setup.design) /\ delay = OutputCrossings(setup.design)

LEMMA ProgramLayered ==
  ASSUME ProgramInv, InTime(setup)
  PROVE  Layered /\ setup.quick_reads /\ NoCircularWait(program)
<1> DEFINE d == setup.design
           p == Generated(d)
<1>1. IsDesign(d) /\ Accepted(d) /\ Generatable(d)
  BY SetupsAssumption DEF ProgramInv
<1>2. WellGenerated(d)
  BY <1>1, DesignWellGenerated
<1>3. program = p /\ delay = OutputCrossings(d)
  BY DEF ProgramInv
<1>4. MadeInOrder(d) /\ NoCircularWait(p) /\ setup.quick_reads
  BY DEF InTime
<1> HIDE DEF d, p
<1>5. SourcesAgree(d) /\ LayersAgree(d)
  BY <1>1, <1>4, SourcesGenerated, LayersGenerated
<1>6. LinksAgree(p) /\ StagesInOrder(p) /\ EndsAgree(p)
  BY <1>2 DEF WellGenerated, p
<1>7. OutputCrossings(d) \in Nat
  <2>1. Len(d.stages) \in Nat /\ IsFiniteSet(StageCrossings(d)[d.outputs[1][1]])
    <3>1. d.outputs[1] \in Edges(d)
      BY <1>1, SeqFacts DEF IsDesign
    <3>2. d.outputs[1][1] \in 0 .. Len(d.stages)
      BY <1>1, <3>1, EdgeFacts
    <3> QED BY <1>1, <1>4, <3>2, EdgeFacts, CrossingsAscend
  <2> QED BY <2>1, FS_CardinalityType DEF OutputCrossings
<1> QED BY <1>3, <1>4, <1>5, <1>6, <1>7 DEF Layered, Linked, d, p

\* What thread t receives, and from where.
LEMMA Feeds ==
  ASSUME Layered, NEW t \in program.threads
  PROVE  /\ IsFiniteSet(program.sources[t]) /\ program.sources[t] # {}
         /\ PipelineIn \in program.sources[t] =>
              /\ program.sources[t] = {PipelineIn}
              /\ \A e \in Incoming(program, t) : e[1] = 0 /\ H(e) = 0 /\ From(e) = PipelineIn
         /\ \A a \in program.sources[t] \ {PipelineIn} :
              /\ a \in program.threads /\ a # t
              /\ \E j \in 1 .. Len(program.dests[a]) : program.dests[a][j] = t
              /\ \A i \in 1 .. LinkLen(a, t) :
                   program.link[a][t][i] \in Incoming(program, t) /\ From(program.link[a][t][i]) = a
         /\ \A e \in Incoming(program, t) :
              /\ From(e) \in program.sources[t]
              /\ From(e) # PipelineIn =>
                   \E i \in 1 .. LinkLen(From(e), t) : program.link[From(e)][t][i] = e
<1>1. /\ IsFiniteSet(program.sources[t]) /\ program.sources[t] # {}
      /\ PipelineIn \in program.sources[t] => program.sources[t] = {PipelineIn}
      /\ \A a \in program.sources[t] \ {PipelineIn} :
           /\ a \in program.threads /\ a # t /\ t \in ToSet(program.dests[a])
           /\ program.link[a][t] \in Seq(Incoming(program, t))
           /\ \A e \in ToSet(program.link[a][t]) : From(e) = a
      /\ \A e \in Incoming(program, t) :
           /\ From(e) \in program.sources[t]
           /\ From(e) = PipelineIn <=> e[1] = 0
           /\ From(e) # PipelineIn => e \in ToSet(program.link[From(e)][t])
  BY DEF Layered, SourcesAgree, From
<1>2. Deep(setup.design, 0) = 0
  BY DEF Layered, LayersAgree
<1>3. ASSUME PipelineIn \in program.sources[t], NEW e \in Incoming(program, t)
      PROVE  e[1] = 0 /\ H(e) = 0 /\ From(e) = PipelineIn
  BY <1>1, <1>2, <1>3 DEF H
<1>4. ASSUME NEW a \in program.sources[t] \ {PipelineIn}
      PROVE  /\ a \in program.threads /\ a # t
             /\ \E j \in 1 .. Len(program.dests[a]) : program.dests[a][j] = t
             /\ \A i \in 1 .. LinkLen(a, t) :
                   program.link[a][t][i] \in Incoming(program, t) /\ From(program.link[a][t][i]) = a
             /\ \A e \in ToSet(program.link[a][t]) : \E i \in 1 .. LinkLen(a, t) : program.link[a][t][i] = e
  <2> DEFINE k == program.link[a][t]
             ds == program.dests[a]
  <2>1. a \in program.threads /\ a # t /\ t \in ToSet(ds) /\ k \in Seq(Incoming(program, t))
        /\ \A e \in ToSet(k) : From(e) = a
    BY <1>1
  <2>2. ds \in Seq(program.threads \cup {PipelineOut})
    BY <2>1 DEF Layered, Linked, LinksAgree
  <2> HIDE DEF k, ds
  <2>3. DOMAIN k = 1 .. Len(k) /\ DOMAIN ds = 1 .. Len(ds)
    BY <2>1, <2>2
  <2>4. \E j \in 1 .. Len(ds) : ds[j] = t
    BY <2>1, <2>3 DEF ToSet
  <2>5. \A i \in 1 .. Len(k) : k[i] \in Incoming(program, t) /\ From(k[i]) = a
    BY <2>1, <2>3 DEF ToSet
  <2>6. \A e \in ToSet(k) : \E i \in 1 .. Len(k) : k[i] = e
    BY <2>3 DEF ToSet
  <2> QED BY <2>1, <2>4, <2>5, <2>6 DEF ds, k, LinkLen
<1>5. ASSUME NEW e \in Incoming(program, t)
      PROVE  /\ From(e) \in program.sources[t]
             /\ From(e) # PipelineIn =>
                   \E i \in 1 .. LinkLen(From(e), t) : program.link[From(e)][t][i] = e
  <2>1. PICK a : a = From(e)
    OBVIOUS
  <2>2. a \in program.sources[t] /\ (a # PipelineIn => e \in ToSet(program.link[a][t]))
    BY <1>1, <2>1
  <2> QED BY <1>4, <2>1, <2>2
<1> QED BY <1>1, <1>3, <1>4, <1>5

\* How far the edges of thread t have come.
LEMMA Layers ==
  ASSUME Layered, NEW t \in program.threads
  PROVE  /\ \A e \in program.edges[t] : H(e) \in Nat
         /\ \A e \in Own(program, t) : H(e) # 0 /\ e[1] # 0 /\ e \in program.edges[t]
         /\ \A s \in DOMAIN program.process[t] : \A e \in program.process[t][s] :
              /\ e \in program.edges[t]
              /\ Deep(setup.design, s) =
                   IF e[1] \in DOMAIN program.process[t] THEN H(e) ELSE H(e) + 1
         /\ \A j \in 1 .. Len(program.dests[t]) : program.dests[t][j] = PipelineOut =>
              \A i \in 1 .. LinkLen(t, PipelineOut) : H(program.link[t][PipelineOut][i]) = delay
<1>1. /\ Deep(setup.design, 0) = 0
      /\ \A s \in 1 .. Len(setup.design.stages) : Deep(setup.design, s) \in Nat \ {0}
      /\ \A e \in program.edges[t] : e[1] \in 0 .. Len(setup.design.stages)
      /\ \A s \in DOMAIN program.process[t] : \A e \in program.process[t][s] :
           Deep(setup.design, s) = IF e[1] \in DOMAIN program.process[t] THEN H(e) ELSE H(e) + 1
      /\ \A e \in ToSet(program.link[t][PipelineOut]) : H(e) = delay
  BY DEF Layered, LayersAgree, H
<1>2. Len(setup.design.stages) \in Nat
  <2>1. \A e \in program.edges[t] : e[1] \in 0 .. Len(setup.design.stages)
    BY <1>1
  <2> QED BY SetupsAssumption, EdgeFacts DEF Layered
<1>3. \A e \in program.edges[t] : H(e) \in Nat /\ (e[1] # 0 => H(e) # 0)
  BY <1>1, <1>2 DEF H
<1>4. \A e \in Own(program, t) : e[1] # 0 /\ e \in program.edges[t]
  BY DEF Own, Layered, Linked, StagesInOrder
<1>5. \A s \in DOMAIN program.process[t] : \A e \in program.process[t][s] : e \in program.edges[t]
  BY DEF Layered, Linked, StagesInOrder
<1>6. ASSUME NEW j \in 1 .. Len(program.dests[t]), program.dests[t][j] = PipelineOut,
             NEW i \in 1 .. LinkLen(t, PipelineOut)
      PROVE  H(program.link[t][PipelineOut][i]) = delay
  <2> DEFINE k == program.link[t][PipelineOut]
  <2>1. k \in Seq(Own(program, t))
    <3>1. PipelineOut \in ToSet(program.dests[t])
      <4>1. program.dests[t] \in Seq(program.threads \cup {PipelineOut})
        BY DEF Layered, Linked, LinksAgree
      <4> QED BY <1>6, <4>1 DEF ToSet
    <3> QED BY <3>1 DEF Layered, Linked, LinksAgree
  <2>2. i \in 1 .. Len(k) /\ \A e \in ToSet(k) : H(e) = delay
    BY <1>1, <1>6 DEF LinkLen
  <2> HIDE DEF k
  <2>3. k[i] \in ToSet(k)
    BY <2>1, <2>2 DEF ToSet
  <2> QED BY <2>2, <2>3 DEF k
<1> QED BY <1>1, <1>3, <1>4, <1>5, <1>6

-----------------------------------------------------------------------------
(* The invariant on time: r[t] counts what thread t has processed, k the sink *)
(* calls; in every frame period all threads catch up with k.                 *)

\* Thread a is in the middle of a batch for thread t.
Busy(a, t) == Sending(a, t) /\ sent[a] > 0

\* Has the k-th batch come to thread t from source a?
Came(r, k, a, t) ==
  IF a = PipelineIn THEN Got(r, t) = k
  ELSE \A j \in 1 .. Len(program.dests[a]) : program.dests[a][j] = t => Put(r, a, j) = k

\* The sources that thread t still waits for.
Waited(r, k, t) == {a \in program.sources[t] : ~Came(r, k, a, t)}

\* A thread by itself: its place, what it waits for, and the frames of what it
\* has made and of what has come.
TimedNode(r, k, t) ==
  /\ PlaceInv(t)
  /\ r[t] \in {k - 1, k}
  /\ r[t] = k => pc[t] = "out" /\ dest[t] = 1 /\ sent[t] = 0
  /\ edge[t] \in [program.edges[t] -> Frames]
  /\ \A e \in Own(program, t) : edge[t][e] = Fr(r[t] + 1 - H(e))
  /\ read_count[t] = IF pc[t] \in {"select", "take"} THEN Cardinality(Waited(r, k, t)) ELSE 0
  /\ pc[t] \in {"select", "take"} => Waited(r, k, t) # {}
  /\ pc[t] = "process" => Waited(r, k, t) = {}
  /\ pc[t] # "out" =>
       \A e \in Incoming(program, t) : From(e) \notin Waited(r, k, t) => edge[t][e] = Fr(k - H(e))

\* A thread and those that it receives from: nothing comes before it has sent
\* its own, and of the batch under way both have counted the same edges.
TimedLink(r, k, t) ==
  /\ r[t] # k /\ pc[t] = "out" => Waited(r, k, t) = program.sources[t]
  /\ \A a \in program.sources[t] \ {PipelineIn} : Busy(a, t) => pc[t] = "take" /\ from[t] = a
  /\ pc[t] = "take" =>
       /\ from[t] \in program.sources[t] \ {PipelineIn}
       /\ Busy(from[t], t) /\ received[t] = sent[from[t]]
       /\ \A i \in 1 .. sent[from[t]] :
            edge[t][program.link[from[t]][t][i]] = Fr(k - H(program.link[from[t]][t][i]))

\* No thread processes before all have sent, and none is behind when the app
\* is about to call sink.
TimedWave(r, k) ==
  /\ (\E t \in program.threads : r[t] = k) =>
       \A t \in program.threads : r[t] = k \/ pc[t] # "out"
  /\ "sink" \in calls => ~reading /\ \A t \in program.threads : r[t] = k
  /\ "source" \in calls => done = -1

\* The source calls that have filled all FIFOs: in every period as many as
\* there are sink calls.
Brought(k) ==
  k + (IF "sink" \in calls THEN 1 ELSE 0) - (IF "source" \in calls \/ done >= 0 THEN 1 ELSE 0)

TimedInv(r, c, k) ==
  /\ Arrays
  /\ r \in [program.threads -> Nat]
  /\ \A t \in program.threads : TimedNode(r, k, t) /\ TimedLink(r, k, t) /\ OutInv(r, k, t)
  /\ TimedWave(r, k)
  /\ SourceInv(r, c) /\ c = Brought(k)
  /\ SinkInv(k)

-----------------------------------------------------------------------------
\* The design does not change.
LEMMA SameLayers ==
  ASSUME UNCHANGED design
  PROVE  /\ \A e : H(e)' = H(e) /\ From(e)' = From(e)
         /\ \A r, k, t : (\A a \in program.sources[t] : Came(r, k, a, t)' <=> Came(r, k, a, t))
                           => Waited(r, k, t)' = Waited(r, k, t)
<1>1. setup' = setup /\ program' = program
  BY SameDesign
<1>2. \A e : H(e)' = H(e) /\ From(e)' = From(e)
  BY <1>1 DEF H, From
<1>3. \A r, k, t : (\A a \in program.sources[t] : Came(r, k, a, t)' <=> Came(r, k, a, t))
                     => Waited(r, k, t)' = Waited(r, k, t)
  BY <1>1 DEF Waited
<1> QED BY <1>2, <1>3

\* What thread x waits for does not change when its sources have sent it no
\* batch and it has taken nothing from its FIFO.
LEMMA WaitedSame ==
  ASSUME Layered, UNCHANGED design, NEW r, NEW s, NEW k, NEW x \in program.threads,
         PipelineIn \in program.sources[x] => Got(s, x)' = Got(r, x),
         \A a \in program.sources[x] \ {PipelineIn} :
           \A j \in 1 .. Len(program.dests[a]) :
             program.dests[a][j] = x => Put(s, a, j)' = Put(r, a, j)
  PROVE  Waited(s, k, x)' = Waited(r, k, x)
<1>1. program' = program
  BY SameDesign
<1>2. ASSUME NEW a \in program.sources[x]
      PROVE  Came(s, k, a, x)' <=> Came(r, k, a, x)
  <2>1. CASE a = PipelineIn
    BY <2>1 DEF Came
  <2>2. CASE a # PipelineIn
    BY <2>2, <1>1 DEF Came
  <2> QED BY <2>1, <2>2
<1> QED BY <1>1, <1>2 DEF Waited

\* A thread that a step does not touch.
LEMMA StandsBy ==
  ASSUME Layered, UNCHANGED design, NEW r, NEW s, NEW k, NEW x \in program.threads,
         TimedNode(r, k, x), TimedLink(r, k, x), s[x] = r[x],
         pc'[x] = pc[x], dest'[x] = dest[x], sent'[x] = sent[x], from'[x] = from[x],
         received'[x] = received[x], edge'[x] = edge[x], read_count'[x] = read_count[x],
         \A a \in program.sources[x] \ {PipelineIn} :
           /\ \A j \in 1 .. Len(program.dests[a]) :
                program.dests[a][j] = x => Put(s, a, j)' = Put(r, a, j)
           /\ Busy(a, x)' <=> Busy(a, x)
           /\ Busy(a, x) => sent'[a] = sent[a]
  PROVE  TimedNode(s, k, x)' /\ TimedLink(s, k, x)'
<1>1. /\ program' = program /\ \A b : LinkLen(x, b)' = LinkLen(x, b)
      /\ \A e : H(e)' = H(e) /\ From(e)' = From(e)
  BY SameDesign, SameLayers
<1>2. Got(s, x)' = Got(r, x)
  BY DEF Got
<1>3. Waited(s, k, x)' = Waited(r, k, x)
  BY <1>2, WaitedSame
<1>4. PlaceInv(x)'
  BY <1>1 DEF PlaceInv, TimedNode
<1>5. TimedNode(s, k, x)'
  BY <1>1, <1>3, <1>4 DEF TimedNode, Own, Incoming
<1>6. TimedLink(s, k, x)'
  <2>1. \A a \in program.sources[x] \ {PipelineIn} : Busy(a, x)' => pc'[x] = "take" /\ from'[x] = a
    BY DEF TimedLink
  <2>2. ASSUME pc[x] = "take"
        PROVE  /\ from[x] \in program.sources[x] \ {PipelineIn}
               /\ Busy(from[x], x)' /\ sent'[from[x]] = sent[from[x]]
               /\ received[x] = sent[from[x]]
               /\ \A i \in 1 .. sent[from[x]] :
                    edge[x][program.link[from[x]][x][i]] = Fr(k - H(program.link[from[x]][x][i]))
    BY <2>2 DEF TimedLink
  <2>3. r[x] # k /\ pc[x] = "out" => Waited(r, k, x) = program.sources[x]
    BY DEF TimedLink
  <2> QED BY <1>1, <1>3, <2>1, <2>2, <2>3 DEF TimedLink, Busy
<1> QED BY <1>5, <1>6

-----------------------------------------------------------------------------
(* At rest everything has been sent *)

\* A thread that sends to one at its select, or in the middle of a case, leaves
\* something to be received.
LEMMA ThreadReceives ==
  ASSUME Layered, NEW r, NEW k, k \in Nat, r \in [program.threads -> Nat],
         NEW t \in program.threads, NEW b \in program.threads,
         r[t] + 1 = k, Sending(t, b), dest[t] \in 1 .. Len(program.dests[t]),
         TimedNode(r, k, b), TimedLink(r, k, b), r[b] + 1 = k, pc[b] # "out"
  PROVE  ReadPossible
<1>1. program.dests[t][dest[t]] = b /\ pc[t] = "out"
  BY DEF Sending
<1>2. t \in program.sources[b] /\ t # PipelineIn
  <2>1. b # PipelineOut /\ t \in Nat
    <3>1. Linked
      BY DEF Layered
    <3>2. t \in Nat /\ b \in Nat
      BY <3>1, Outgoings
    <3> QED BY <3>2 DEF PipelineOut
  <2>2. \A x : x = program.dests[t][dest[t]] => x = PipelineOut \/ t \in program.sources[x]
    <3>1. Linked
      BY DEF Layered
    <3> QED BY <3>1, Outgoings
  <2> QED BY <1>1, <2>1, <2>2 DEF PipelineIn
<1>3. Put(r, t, dest[t]) # k
  BY <1>1 DEF Put
<1>4. t \in Waited(r, k, b)
  BY <1>1, <1>2, <1>3 DEF Waited, Came
<1>5. pc[b] \in {"select", "take"}
  BY <1>4 DEF TimedNode, PlaceInv
<1>6. CASE pc[b] = "select"
  BY <1>2, <1>6 DEF ReadPossible, Receiving, SourceReady
<1>7. CASE pc[b] = "take"
  <2>1. from[b] \in program.sources[b] \ {PipelineIn} /\ Sending(from[b], b)
    BY <1>7 DEF TimedLink, Busy
  <2> QED BY <1>7, <2>1 DEF ReadPossible, Receiving, SourceReady
<1> QED BY <1>5, <1>6, <1>7

\* When the sink still waits for a thread, that thread has not sent its batch.
LEMMA SinkAwaits ==
  ASSUME Layered, NEW r, NEW k, k \in Nat, r \in [program.threads -> Nat],
         NEW t \in program.threads, PlaceInv(t), r[t] \in {k - 1, k}, OutInv(r, k, t),
         NEW j \in 1 .. Len(program.dests[t]), program.dests[t][j] = PipelineOut
  PROVE  (reading /\ Len(data) < Past(t)) <=> (r[t] + 1 = k /\ pc[t] = "out" /\ dest[t] <= j)
<1>1. Put(r, t, j) = IF reading /\ Len(data) < Past(t) THEN k - 1 ELSE k
  BY DEF OutInv
<1>2. r[t] \in Nat
  OBVIOUS
<1>3. Put(r, t, j) = IF pc[t] = "out" /\ dest[t] <= j THEN r[t] ELSE r[t] + 1
  BY <1>2 DEF Put
<1>4. (r[t] = k \/ r[t] + 1 = k) /\ Put(r, t, j) # k + 1
  BY <1>1, <1>2
<1> QED BY <1>1, <1>2, <1>3, <1>4

\* The thread that the sink waits for.
LEMMA SinkTurn ==
  ASSUME Layered, NEW r, NEW k, SinkInv(k), r \in [program.threads -> Nat],
         \A x \in program.threads : PlaceInv(x) /\ r[x] \in {k - 1, k} /\ OutInv(r, k, x),
         reading
  PROVE  LET t == program.mux[Len(data) + 1].thread
         IN  /\ Len(data) + 1 \in 1 .. Len(program.mux)
             /\ t \in program.threads
             /\ r[t] + 1 = k /\ pc[t] = "out"
             /\ \E j \in 1 .. Len(program.dests[t]) : program.dests[t][j] = PipelineOut /\ dest[t] <= j
<1>0. PICK t : t = program.mux[Len(data) + 1].thread
  OBVIOUS
<1>1. k \in Nat /\ Len(data) \in Nat /\ Len(program.mux) \in Nat /\ Len(data) < Len(program.mux)
  BY DEF SinkInv, Layered, Linked, EndsAgree
<1>2. Len(data) + 1 \in 1 .. Len(program.mux)
  BY <1>1
<1>3. t \in program.threads /\ PipelineOut \in ToSet(program.dests[t])
  BY <1>0, <1>2 DEF Layered, Linked, EndsAgree
<1>4. PICK j \in 1 .. Len(program.dests[t]) : program.dests[t][j] = PipelineOut
  <2>1. program.dests[t] \in Seq(program.threads \cup {PipelineOut})
    BY <1>3 DEF Layered, Linked, LinksAgree
  <2> QED BY <1>3, <2>1 DEF ToSet
<1>5. Len(data) + 1 <= Past(t) /\ Past(t) \in Nat
  <2>1. Linked
    BY DEF Layered
  <2>2. /\ Past(t) \in 1 .. Len(program.mux)
        /\ \A i \in 1 .. Len(program.mux) :
             program.mux[i].thread = t <=> First(t) <= i /\ i <= Past(t)
    BY <1>3, <1>4, <2>1, Places
  <2> QED BY <1>0, <1>1, <1>2, <2>2
<1>6. r[t] + 1 = k /\ pc[t] = "out" /\ dest[t] <= j
  <2>1. PlaceInv(t) /\ r[t] \in {k - 1, k} /\ OutInv(r, k, t)
    BY <1>3
  <2>2. Len(data) < Past(t)
    BY <1>1, <1>5
  <2>3. (reading /\ Len(data) < Past(t)) <=> (r[t] + 1 = k /\ pc[t] = "out" /\ dest[t] <= j)
    BY <1>1, <1>3, <1>4, <2>1, SinkAwaits
  <2> QED BY <2>2, <2>3
<1> QED BY <1>0, <1>2, <1>3, <1>4, <1>6

\* While nothing can be received, every thread has sent all it has made.
LEMMA AllSent ==
  ASSUME Layered, NoCircularWait(program), NEW r, NEW c, NEW k, TimedInv(r, c, k), ~ReadPossible
  PROVE  \A t \in program.threads : r[t] = k \/ pc[t] # "out"
<1> DEFINE Left(y) == r[y[1]] + 1 = k /\ pc[y[1]] = "out" /\ dest[y[1]] <= y[2]
           S == {y \in HandOvers(program) : Left(y)}
<1>1. /\ r \in [program.threads -> Nat] /\ k \in Nat
      /\ \A x \in program.threads : TimedNode(r, k, x) /\ TimedLink(r, k, x) /\ OutInv(r, k, x)
      /\ \A x \in program.threads : PlaceInv(x) /\ r[x] \in {k - 1, k}
      /\ TimedWave(r, k) /\ SinkInv(k)
  BY DEF TimedInv, SinkInv, TimedNode
<1>2. \A x \in program.threads : r[x] \in Nat /\ (r[x] = k \/ r[x] + 1 = k)
  BY <1>1
<1>3. \A x \in program.threads : \A j \in 1 .. Len(program.dests[x]) : <<x, j>> \in HandOvers(program)
  BY DEF HandOvers
<1>4. \A x \in program.threads : \A j \in 1 .. Len(program.dests[x]) :
        r[x] + 1 = k /\ pc[x] = "out" /\ dest[x] <= j => <<x, j>> \in S
  BY <1>3
<1>5. \A x \in program.threads : dest[x] \in 1 .. Len(program.dests[x])
  BY <1>1 DEF PlaceInv
<1>6. \A x \in program.threads : r[x] + 1 = k /\ pc[x] = "out" => <<x, dest[x]>> \in S
  BY <1>4, <1>5
<1> SUFFICES ASSUME NEW t0 \in program.threads, ~(r[t0] = k \/ pc[t0] # "out") PROVE FALSE
  OBVIOUS
<1>7. <<t0, dest[t0]>> \in S
  BY <1>2, <1>6
<1>8. PICK y \in S : \A z \in S : ~Awaits(program, y, z)
  <2>1. S \in SUBSET HandOvers(program) /\ S # {}
    BY <1>7
  <2> HIDE DEF S
  <2> QED BY <2>1 DEF NoCircularWait
<1>9. PICK t \in program.threads : \E j \in 1 .. Len(program.dests[t]) : y = <<t, j>>
  BY <1>8 DEF HandOvers
<1>91. PICK j \in 1 .. Len(program.dests[t]) : y = <<t, j>>
  BY <1>9
<1>10. r[t] + 1 = k /\ pc[t] = "out" /\ dest[t] <= j
  BY <1>8, <1>91
<1> HIDE DEF S
<1> DEFINE b == program.dests[t][j]
<1>11. \A x \in program.threads : \A i \in 1 .. Len(program.dests[x]) :
         <<x, i>> \in S =>
           /\ ~(x = t /\ i < j) /\ x # b
           /\ ~ /\ b = PipelineOut /\ program.dests[x][i] = PipelineOut /\ x # t
                /\ \E n, l \in DOMAIN program.mux :
                     n < l /\ program.mux[n].thread = x /\ program.mux[l].thread = t
  <2> TAKE x \in program.threads
  <2> TAKE i \in 1 .. Len(program.dests[x])
  <2> SUFFICES ASSUME <<x, i>> \in S
               PROVE  /\ ~(x = t /\ i < j) /\ x # b
                      /\ ~ /\ b = PipelineOut /\ program.dests[x][i] = PipelineOut /\ x # t
                           /\ \E n, l \in DOMAIN program.mux :
                                n < l /\ program.mux[n].thread = x /\ program.mux[l].thread = t
    OBVIOUS
  <2>1. ~Awaits(program, <<t, j>>, <<x, i>>)
    BY <1>8, <1>91
  <2> QED BY <2>1 DEF Awaits
<1>12. dest[t] = j
  <2>1. <<t, dest[t]>> \in S /\ dest[t] \in 1 .. Len(program.dests[t])
    BY <1>5, <1>6, <1>10
  <2>2. ~(dest[t] < j)
    BY <1>11, <2>1
  <2>3. Len(program.dests[t]) \in Nat
    BY Outgoings DEF Layered
  <2> QED BY <1>10, <2>1, <2>2, <2>3
<1>13. Sending(t, b)
  BY <1>10, <1>12 DEF Sending
<1>14. CASE b = PipelineOut
  <2> DEFINE x == program.mux[Len(data) + 1].thread
  <2>1. reading /\ Len(data) < Past(t)
    BY <1>1, <1>10, <1>14, SinkAwaits
  <2>2. /\ Len(data) + 1 \in 1 .. Len(program.mux)
        /\ x \in program.threads
        /\ r[x] + 1 = k /\ pc[x] = "out"
        /\ \E i \in 1 .. Len(program.dests[x]) : program.dests[x][i] = PipelineOut /\ dest[x] <= i
    BY <1>1, <2>1, SinkTurn
  <2>3. PICK i \in 1 .. Len(program.dests[x]) : program.dests[x][i] = PipelineOut /\ dest[x] <= i
    BY <2>2
  <2>4. CASE x = t
    BY <1>13, <1>14, <2>1, <2>4 DEF ReadPossible, SinkReady
  <2>5. CASE x # t
    <3>1. /\ First(t) \in 1 .. Len(program.mux) /\ Past(t) \in 1 .. Len(program.mux)
          /\ First(t) <= Past(t)
          /\ \A n \in 1 .. Len(program.mux) :
               program.mux[n].thread = t <=> First(t) <= n /\ n <= Past(t)
      <4>1. Linked
        BY DEF Layered
      <4>2. /\ First(t) \in 1 .. Len(program.mux) /\ Past(t) \in 1 .. Len(program.mux)
            /\ Past(t) = First(t) + LinkLen(t, PipelineOut) - 1
            /\ LinkLen(t, PipelineOut) \in Nat \ {0}
            /\ \A n \in 1 .. Len(program.mux) :
                 program.mux[n].thread = t <=> First(t) <= n /\ n <= Past(t)
        BY <1>14, <4>1, Places
      <4> QED BY <4>2
    <3>2. program.mux[Past(t)].thread = t
      BY <3>1
    <3>3. DOMAIN program.mux = 1 .. Len(program.mux)
      BY DEF Layered, Linked, EndsAgree
    <3>4. Len(data) + 1 < Past(t)
      <4>1. Len(data) + 1 # Past(t)
        BY <2>5, <3>2
      <4>2. Len(data) \in Nat
        BY <1>1 DEF SinkInv
      <4> QED BY <2>1, <3>1, <4>1, <4>2
    <3>5. <<x, i>> \in S
      BY <1>4, <2>2, <2>3
    <3>6. \E n, l \in DOMAIN program.mux :
                     n < l /\ program.mux[n].thread = x /\ program.mux[l].thread = t
      BY <2>2, <3>1, <3>2, <3>3, <3>4
    <3> HIDE DEF x
    <3> QED BY <1>11, <1>14, <2>2, <2>3, <2>5, <3>5, <3>6
  <2> QED BY <2>4, <2>5
<1>15. CASE b # PipelineOut
  <2>1. b \in program.threads
    <3>1. Linked
      BY DEF Layered
    <3>2. \A z : z = program.dests[t][j] => z = PipelineOut \/ z \in program.threads
      BY <3>1, Outgoings
    <3> QED BY <1>15, <3>2
  <2>2. ~(r[b] + 1 = k /\ pc[b] = "out")
    <3>1. <<b, dest[b]>> \notin S
      BY <1>5, <1>11, <2>1
    <3> QED BY <1>6, <2>1, <3>1
  <2>3. r[b] # k
    <3> SUFFICES ASSUME r[b] = k PROVE FALSE
      OBVIOUS
    <3>1. r[t] = k \/ pc[t] # "out"
      BY <1>1, <2>1 DEF TimedWave
    <3> QED BY <1>2, <1>10, <3>1
  <2>4. r[b] + 1 = k /\ pc[b] # "out"
    BY <1>2, <2>1, <2>2, <2>3
  <2> HIDE DEF b
  <2> QED BY <1>1, <1>5, <1>10, <1>13, <2>1, <2>4, ThreadReceives
<1> QED BY <1>14, <1>15

\* On time no sink call stalls: while one is in progress some thread can go on.
LEMMA AtRest ==
  ASSUME Layered, NoCircularWait(program), NEW r, NEW c, NEW k, TimedInv(r, c, k), Quiet
  PROVE  /\ ~reading
         /\ "source" \notin calls /\ "sink" \notin calls /\ done = -1 =>
              \A t \in program.threads : r[t] = k
<1>1. /\ r \in [program.threads -> Nat] /\ k \in Nat
      /\ \A x \in program.threads : TimedNode(r, k, x) /\ TimedLink(r, k, x)
      /\ \A x \in program.threads : PlaceInv(x) /\ r[x] \in {k - 1, k} /\ OutInv(r, k, x)
      /\ SourceInv(r, c) /\ c = Brought(k) /\ SinkInv(k)
  BY DEF TimedInv, SinkInv, TimedNode
<1>2. ~ReadPossible /\ \A x \in program.threads : pc[x] # "process"
  BY DEF Quiet
<1>3. \A x \in program.threads : r[x] = k \/ pc[x] # "out"
  BY <1>2, AllSent
<1>4. \A x \in program.threads : ~(r[x] + 1 = k /\ pc[x] = "out")
  BY <1>1, <1>3
<1>5. ~reading
  BY <1>1, <1>4, SinkTurn
<1>6. ASSUME "source" \notin calls, "sink" \notin calls, done = -1,
             NEW t \in program.threads, r[t] # k
      PROVE  FALSE
  <2>1. r[t] + 1 = k /\ pc[t] \in {"select", "take"} /\ r[t] \in Nat
    BY <1>1, <1>2, <1>3, <1>6 DEF PlaceInv
  <2>2. pc[t] = "select"
    <3> SUFFICES ASSUME pc[t] = "take" PROVE FALSE
      BY <2>1
    <3>1. from[t] \in program.sources[t] \ {PipelineIn} /\ Sending(from[t], t)
      BY <1>1 DEF TimedLink, Busy
    <3> QED BY <1>2, <3>1 DEF ReadPossible, Receiving, SourceReady
  <2>3. \A a \in program.sources[t] : ~SourceReady(t, a)
    BY <1>2, <2>2 DEF ReadPossible, Receiving
  <2>4. PICK a \in program.sources[t] : ~Came(r, k, a, t)
    <3>1. Waited(r, k, t) # {}
      BY <1>1, <2>1 DEF TimedNode
    <3> QED BY <3>1 DEF Waited
  <2>5. CASE a = PipelineIn
    <3>1. Linked
      BY DEF Layered
    <3>2. PICK i \in 1 .. Len(program.inputs) : program.inputs[i] = t
      BY <2>5, <3>1, InputIsSource
    <3>3. fifo[t] = Empty
      BY <2>3, <2>5 DEF SourceReady
    <3>4. FifoInv(r, c, i)
      BY <1>1 DEF SourceInv
    <3>5. c = k
      BY <1>1, <1>6 DEF Brought
    <3>6. Got(r, t) = k
      <4>1. Got(r, t) + 0 = c + 0
        BY <1>6, <3>2, <3>3, <3>4 DEF FifoInv
      <4>2. Got(r, t) \in Nat
        BY <2>1 DEF Got
      <4> QED BY <1>1, <3>5, <4>1, <4>2
    <3> QED BY <2>4, <2>5, <3>6 DEF Came
  <2>6. CASE a # PipelineIn
    <3>1. PICK j \in 1 .. Len(program.dests[a]) : Put(r, a, j) # k
      BY <2>4, <2>6 DEF Came
    <3>2. a \in program.threads
      BY <2>6, Feeds
    <3>3. r[a] \in Nat /\ (r[a] = k \/ r[a] + 1 = k) /\ ~(r[a] + 1 = k /\ pc[a] = "out")
      BY <1>1, <1>4, <3>2
    <3>4. r[a] = k => pc[a] = "out" /\ dest[a] = 1
      BY <1>1, <3>2 DEF TimedNode
    <3>5. 1 <= j
      <4>1. Linked
        BY DEF Layered
      <4>2. Len(program.dests[a]) \in Nat
        BY <3>2, <4>1, Outgoings
      <4> QED BY <4>2
    <3>6. Put(r, a, j) = k
      BY <1>1, <3>3, <3>4, <3>5 DEF Put
    <3> QED BY <3>1, <3>6
  <2> QED BY <2>5, <2>6
<1> QED BY <1>5, <1>6

-----------------------------------------------------------------------------
(* A transaction on time *)

\* A round of reads is one from every source.
LEMMA ReloadedAll ==
  ASSUME NEW t \in program.threads, Arrays
  PROVE  /\ DOMAIN Reloaded(t) = program.threads
         /\ \A y \in program.threads \ {t} : Reloaded(t)[y] = read_count[y]
         /\ Reloaded(t)[t] =
              IF /\ sent[t] + 1 = LinkLen(t, program.dests[t][dest[t]])
                 /\ dest[t] = Len(program.dests[t])
              THEN Cardinality(program.sources[t]) ELSE read_count[t]
BY DEF Reloaded, LinkLen, Arrays

\* Thread t sends an edge of a batch, the last one or not.
Sends(r, t, last) ==
  /\ t \in program.threads /\ last \in BOOLEAN
  /\ pc[t] = "out" /\ dest[t] \in 1 .. Len(program.dests[t])
  /\ \A y \in program.threads \ {t} :
       /\ sent'[y] = sent[y]
       /\ \A j \in Nat : Put(r, y, j)' = Put(r, y, j)
       /\ \A z : Sending(y, z)' <=> Sending(y, z)
  /\ last => sent'[t] = 0
  /\ ~last => dest'[t] = dest[t]
  /\ \A j \in 1 .. Len(program.dests[t]) :
       Put(r, t, j)' = IF j = dest[t] /\ last THEN Put(r, t, j) + 1 ELSE Put(r, t, j)

\* A thread that thread t is not sending to, and one that it receives from.
Spared(t, x, a) ==
  /\ x \in program.threads /\ x # program.dests[t][dest[t]]
  /\ a \in program.sources[x] \ {PipelineIn}

\* To the threads that it is not sent to, a batch is nothing.
LEMMA OthersSent ==
  ASSUME Layered, UNCHANGED design, NEW r, NEW t, NEW last, Sends(r, t, last),
         NEW x, NEW a, Spared(t, x, a)
  PROVE  /\ \A j \in 1 .. Len(program.dests[a]) :
              program.dests[a][j] = x => Put(r, a, j)' = Put(r, a, j)
         /\ Busy(a, x)' <=> Busy(a, x)
         /\ Busy(a, x) => sent'[a] = sent[a]
<1> SUFFICES ASSUME t \in program.threads, pc[t] = "out", dest[t] \in 1 .. Len(program.dests[t]),
                    last \in BOOLEAN, x \in program.threads, x # program.dests[t][dest[t]],
                    a \in program.sources[x] \ {PipelineIn}
             PROVE  /\ \A j \in 1 .. Len(program.dests[a]) :
                         program.dests[a][j] = x => Put(r, a, j)' = Put(r, a, j)
                    /\ Busy(a, x)' <=> Busy(a, x)
                    /\ Busy(a, x) => sent'[a] = sent[a]
  BY DEF Sends, Spared
<1>1. /\ program' = program
      /\ \A y \in program.threads \ {t} :
           /\ sent'[y] = sent[y]
           /\ \A j \in Nat : Put(r, y, j)' = Put(r, y, j)
           /\ \A z : Sending(y, z)' <=> Sending(y, z)
      /\ last => sent'[t] = 0
      /\ ~last => dest'[t] = dest[t]
      /\ \A j \in 1 .. Len(program.dests[t]) :
           Put(r, t, j)' = IF j = dest[t] /\ last THEN Put(r, t, j) + 1 ELSE Put(r, t, j)
  BY SameDesign DEF Sends
<1>2. a \in program.threads
  BY Feeds
<1>3. CASE a = t
  <2>1. \A j \in 1 .. Len(program.dests[t]) :
          program.dests[t][j] = x => Put(r, t, j)' = Put(r, t, j)
    BY <1>1
  <2>2. ~Busy(t, x)
    BY DEF Busy, Sending
  <2>3. ~Busy(t, x)'
    <3>1. CASE last
      BY <3>1, <1>1 DEF Busy
    <3>2. CASE ~last
      BY <3>2, <1>1 DEF Busy, Sending
    <3> QED BY <3>1, <3>2
  <2> QED BY <1>3, <2>1, <2>2, <2>3
<1>4. CASE a # t
  <2>1. Len(program.dests[a]) \in Nat
    BY <1>2, Outgoings DEF Layered
  <2> QED BY <1>1, <1>2, <1>4, <2>1 DEF Busy
<1> QED BY <1>3, <1>4

\* The thread that sends: after its last batch it waits for all its sources.
LEMMA HasSent ==
  ASSUME Layered, UNCHANGED design, NEW r, NEW k, k \in Nat, r \in [program.threads -> Nat],
         NEW t \in program.threads, TimedNode(r, k, t), TimedLink(r, k, t),
         r[t] + 1 = k, pc[t] = "out",
         pc'[t] \in {"out", "select"}, dest'[t] \in 1 .. Len(program.dests[t]),
         sent'[t] \in 0 .. LinkLen(t, program.dests[t][dest'[t]]) - 1,
         pc'[t] = "select" => dest'[t] = 1 /\ sent'[t] = 0,
         edge'[t] = edge[t],
         read_count'[t] = IF pc'[t] = "select" THEN Cardinality(program.sources[t]) ELSE 0,
         \A a \in program.sources[t] \ {PipelineIn} :
           /\ \A j \in 1 .. Len(program.dests[a]) :
                program.dests[a][j] = t => Put(r, a, j)' = Put(r, a, j)
           /\ Busy(a, t)' <=> Busy(a, t)
  PROVE  TimedNode(r, k, t)' /\ TimedLink(r, k, t)'
<1>1. /\ program' = program /\ \A b : LinkLen(t, b)' = LinkLen(t, b)
      /\ \A e : H(e)' = H(e) /\ From(e)' = From(e)
  BY SameDesign, SameLayers
<1>2. Got(r, t)' = Got(r, t)
  BY DEF Got
<1>3. Waited(r, k, t)' = Waited(r, k, t)
  BY <1>2, WaitedSame
<1>4. r[t] \in Nat /\ r[t] # k
  OBVIOUS
<1>5. Waited(r, k, t) = program.sources[t]
  BY <1>4 DEF TimedLink
<1>6. program.sources[t] # {} /\ \A e \in Incoming(program, t) : From(e) \in program.sources[t]
  BY Feeds
<1>7. \A a \in program.sources[t] \ {PipelineIn} : ~Busy(a, t)'
  BY DEF TimedLink
<1>8. PlaceInv(t)'
  BY <1>1 DEF PlaceInv
<1>9. TimedNode(r, k, t)'
  BY <1>1, <1>3, <1>4, <1>5, <1>6, <1>8 DEF TimedNode, Own, Incoming
<1>10. TimedLink(r, k, t)'
  BY <1>1, <1>3, <1>5, <1>7 DEF TimedLink
<1> QED BY <1>9, <1>10

\* A function changed in one place.
LEMMA ChangedOnce ==
  ASSUME NEW S, NEW V, NEW f \in [S -> V], NEW x \in S, NEW v \in V, NEW g, g = [f EXCEPT ![x] = v]
  PROVE  g \in [S -> V] /\ g[x] = v /\ \A y \in S : y # x => g[y] = f[y]
OBVIOUS

\* What is known when thread u receives the n-th edge that thread t sends it.
Receipt(r, k, u, t, n, last, e0) ==
  /\ k \in Nat /\ r \in [program.threads -> Nat]
  /\ u \in program.threads /\ TimedNode(r, k, u)
  /\ r[u] + 1 = k /\ pc[u] \in {"select", "take"}
  /\ t \in program.sources[u] \ {PipelineIn} /\ n \in 1 .. LinkLen(t, u)
  /\ last \in BOOLEAN /\ (last <=> n = LinkLen(t, u))
  /\ e0 = program.link[t][u][n]
  /\ \A i \in 1 .. n - 1 : edge[u][program.link[t][u][i]] = Fr(k - H(program.link[t][u][i]))
  /\ edge'[u] = [edge[u] EXCEPT ![e0] = Fr(k - H(e0))]
  /\ received'[u] = IF last THEN 0 ELSE n
  /\ from'[u] = IF last THEN PipelineIn ELSE t
  /\ read_count'[u] = IF last THEN read_count[u] - 1 ELSE read_count[u]
  /\ pc'[u] = IF last THEN (IF read_count[u] = 1 THEN "process" ELSE "select") ELSE "take"
  /\ dest'[u] = dest[u] /\ sent'[u] = sent[u]
  /\ last => ~Busy(t, u)'
  /\ ~last => Sending(t, u)' /\ sent'[t] = n
  /\ t \in Waited(r, k, u)
  /\ Waited(r, k, u)' = IF last THEN Waited(r, k, u) \ {t} ELSE Waited(r, k, u)
  /\ \A a \in program.sources[u] \ {PipelineIn, t} : ~Busy(a, u)'

\* The thread that receives an edge: after the last of a batch it waits for one
\* source less, and processes when that was the last one.
LEMMA HasReceived ==
  ASSUME Layered, UNCHANGED design, NEW r, NEW k, NEW u, NEW t, NEW n, NEW last, NEW e0,
         Receipt(r, k, u, t, n, last, e0)
  PROVE  TimedNode(r, k, u)' /\ TimedLink(r, k, u)'
<1> SUFFICES ASSUME k \in Nat, r \in [program.threads -> Nat], u \in program.threads, r[u] + 1 = k,
                    t \in program.sources[u] \ {PipelineIn}, n \in 1 .. LinkLen(t, u),
                    last \in BOOLEAN, e0 = program.link[t][u][n]
             PROVE  TimedNode(r, k, u)' /\ TimedLink(r, k, u)'
  BY DEF Receipt
<1>node. TimedNode(r, k, u) /\ pc[u] \in {"select", "take"}
  BY DEF Receipt
<1>last. last <=> n = LinkLen(t, u)
  BY DEF Receipt
<1>batch. \A i \in 1 .. n - 1 : edge[u][program.link[t][u][i]] = Fr(k - H(program.link[t][u][i]))
  BY DEF Receipt
<1>edge. edge'[u] = [edge[u] EXCEPT ![e0] = Fr(k - H(e0))]
  BY DEF Receipt
<1>read. /\ received'[u] = IF last THEN 0 ELSE n
         /\ from'[u] = IF last THEN PipelineIn ELSE t
         /\ read_count'[u] = IF last THEN read_count[u] - 1 ELSE read_count[u]
         /\ pc'[u] = IF last THEN (IF read_count[u] = 1 THEN "process" ELSE "select") ELSE "take"
         /\ dest'[u] = dest[u] /\ sent'[u] = sent[u]
  BY DEF Receipt
<1>busy. /\ last => ~Busy(t, u)'
         /\ ~last => Sending(t, u)' /\ sent'[t] = n
         /\ \A a \in program.sources[u] \ {PipelineIn, t} : ~Busy(a, u)'
  BY DEF Receipt
<1>waited. /\ t \in Waited(r, k, u)
           /\ Waited(r, k, u)' = IF last THEN Waited(r, k, u) \ {t} ELSE Waited(r, k, u)
  BY DEF Receipt
<1> DEFINE W == Waited(r, k, u)
<1>1. /\ program' = program /\ \A b : LinkLen(u, b)' = LinkLen(u, b)
      /\ \A e : H(e)' = H(e) /\ From(e)' = From(e)
  BY SameDesign, SameLayers
<1>2. r[u] \in Nat /\ r[u] # k /\ LinkLen(t, u) \in Nat
  <2>1. r[u] \in Nat /\ r[u] # k
    OBVIOUS
  <2>2. PICK j \in 1 .. Len(program.dests[t]) : program.dests[t][j] = u
    BY Feeds
  <2>3. t \in program.threads /\ Linked
    BY Feeds DEF Layered
  <2>4. \A b : b = program.dests[t][j] => Len(program.link[t][b]) \in Nat \ {0}
    BY <2>3, Outgoings
  <2> QED BY <2>1, <2>2, <2>4 DEF LinkLen
<1>3. IsFiniteSet(W) /\ Cardinality(W) \in Nat /\ read_count[u] = Cardinality(W)
  <2>1. IsFiniteSet(program.sources[u]) /\ W \subseteq program.sources[u]
    BY Feeds DEF Waited
  <2>2. IsFiniteSet(W)
    BY <2>1, FS_Subset
  <2> QED BY <2>2, <1>node, FS_CardinalityType DEF TimedNode
<1>4. Cardinality(W \ {t}) = Cardinality(W) - 1 /\ IsFiniteSet(W \ {t})
  BY <1>3, <1>waited, FS_RemoveElement
<1>5. read_count[u] = 1 <=> W \ {t} = {}
  <2>1. CASE read_count[u] = 1
    <3>1. Cardinality(W \ {t}) = 0
      BY <1>3, <1>4, <2>1
    <3> QED BY <1>4, <2>1, <3>1, FS_EmptySet
  <2>2. CASE W \ {t} = {}
    <3>1. Cardinality(W \ {t}) = 0
      BY <2>2, FS_EmptySet
    <3>2. read_count[u] = Cardinality(W) /\ Cardinality(W \ {t}) = Cardinality(W) - 1 /\ Cardinality(W) \in Nat
      BY <1>3, <1>4
    <3> HIDE DEF W
    <3> QED BY <2>2, <3>1, <3>2
  <2> QED BY <2>1, <2>2
<1>6. /\ e0 \in Incoming(program, u) /\ From(e0) = t
      /\ e0 \in program.edges[u] /\ e0 \notin Own(program, u)
  <2>1. e0 \in Incoming(program, u) /\ From(e0) = t
    BY Feeds
  <2> QED BY <2>1 DEF Incoming
<1>7. /\ edge[u] \in [program.edges[u] -> Frames]
      /\ edge'[u] \in [program.edges[u] -> Frames]
      /\ edge'[u][e0] = Fr(k - H(e0))
      /\ \A e \in program.edges[u] : e # e0 => edge'[u][e] = edge[u][e]
  <2>1. edge[u] \in [program.edges[u] -> Frames]
    BY <1>node DEF TimedNode
  <2>2. Fr(k - H(e0)) \in Frames
    <3>1. H(e0) \in Nat
      BY <1>6, Layers
    <3>2. k - H(e0) \in Int
      BY <3>1
    <3> QED BY <3>2, FrNext
  <2>3. edge'[u] = [edge[u] EXCEPT ![e0] = Fr(k - H(e0))] /\ e0 \in program.edges[u]
    BY <1>6, <1>edge
  <2> QED BY <2>1, <2>2, <2>3, ChangedOnce
<1>8. \A i \in 1 .. n : edge'[u][program.link[t][u][i]] = Fr(k - H(program.link[t][u][i]))
  <2> TAKE i \in 1 .. n
  <2>1. i \in 1 .. LinkLen(t, u)
    BY <1>2
  <2>2. program.link[t][u][i] \in program.edges[u]
    BY <2>1, Feeds DEF Incoming
  <2>3. CASE i \in 1 .. n - 1
    <3>1. program.link[t][u][i] # e0 => edge'[u][program.link[t][u][i]] = edge[u][program.link[t][u][i]]
      BY <1>7, <2>2
    <3> QED BY <1>7, <1>batch, <2>3, <3>1
  <2>4. CASE i = n
    BY <1>7, <2>4
  <2> QED BY <1>2, <2>3, <2>4
<1>9. PlaceInv(u)'
  <2>1. PlaceInv(u)
    BY <1>node DEF TimedNode
  <2>2. pc'[u] \in {"process", "select", "take"}
    BY <1>read
  <2>3. dest[u] = 1 /\ sent[u] = 0
    BY <2>1, <1>node DEF PlaceInv
  <2> QED BY <1>1, <1>read, <2>1, <2>2, <2>3 DEF PlaceInv
<1>10. \A e \in Own(program, u) : edge'[u][e] = Fr(r[u] + 1 - H(e))
  <2>1. \A e \in Own(program, u) : e \in program.edges[u] /\ edge[u][e] = Fr(r[u] + 1 - H(e))
    BY <1>node DEF TimedNode, Own
  <2> QED BY <1>6, <1>7, <2>1
<1>11. \A e \in Incoming(program, u) : From(e) \notin Waited(r, k, u)' => edge'[u][e] = Fr(k - H(e))
  <2> SUFFICES ASSUME NEW e \in Incoming(program, u), From(e) \notin Waited(r, k, u)'
               PROVE  edge'[u][e] = Fr(k - H(e))
    OBVIOUS
  <2>1. CASE From(e) \notin W
    <3>1. e # e0 /\ e \in program.edges[u]
      BY <1>6, <1>waited, <2>1 DEF Incoming
    <3>2. edge[u][e] = Fr(k - H(e))
      BY <2>1, <1>node DEF TimedNode
    <3> QED BY <1>7, <3>1, <3>2
  <2>2. CASE From(e) \in W
    <3>1. last /\ From(e) = t
      BY <2>2, <1>waited
    <3>2. \E i \in 1 .. LinkLen(From(e), u) : program.link[From(e)][u][i] = e
      <4>1. From(e) # PipelineIn
        BY <3>1
      <4> QED BY <4>1, Feeds
    <3>3. PICK i \in 1 .. LinkLen(t, u) : program.link[t][u][i] = e
      BY <3>1, <3>2
    <3>4. i \in 1 .. n
      BY <1>last, <3>1, <3>3
    <3> QED BY <1>8, <3>3, <3>4
  <2> QED BY <2>1, <2>2
<1>12. read_count'[u] = IF pc'[u] \in {"select", "take"} THEN Cardinality(Waited(r, k, u)') ELSE 0
  <2>1. CASE last
    <3>1. Waited(r, k, u)' = W \ {t} /\ read_count'[u] = Cardinality(W) - 1
      BY <1>3, <1>read, <1>waited, <2>1
    <3>2. CASE read_count[u] = 1
      BY <1>3, <1>read, <2>1, <3>1, <3>2
    <3>3. CASE read_count[u] # 1
      BY <1>4, <1>read, <2>1, <3>1, <3>3
    <3> QED BY <3>2, <3>3
  <2>2. CASE ~last
    BY <1>3, <1>read, <1>waited, <2>2
  <2> QED BY <2>1, <2>2
<1>13. /\ pc'[u] \in {"select", "take"} => Waited(r, k, u)' # {}
       /\ pc'[u] = "process" => Waited(r, k, u)' = {}
  BY <1>5, <1>read, <1>waited
<1>14. TimedNode(r, k, u)'
  BY <1>1, <1>2, <1>node, <1>read, <1>7, <1>9, <1>10, <1>11, <1>12, <1>13 DEF TimedNode, Own, Incoming
<1>15. TimedLink(r, k, u)'
  <2>1. \A a \in program.sources[u] \ {PipelineIn} : Busy(a, u)' => pc'[u] = "take" /\ from'[u] = a
    BY <1>busy, <1>read
  <2>2. CASE last
    BY <1>1, <1>busy, <1>read, <2>1, <2>2 DEF TimedLink
  <2>3. CASE ~last
    <3>1. from'[u] = t /\ received'[u] = n /\ sent'[t] = n /\ pc'[u] = "take"
      BY <1>busy, <1>read, <2>3
    <3>2. Busy(t, u)'
      BY <1>busy, <2>3 DEF Busy
    <3> QED BY <1>1, <1>8, <1>busy, <2>1, <3>1, <3>2 DEF TimedLink
  <2> QED BY <2>2, <2>3
<1> QED BY <1>14, <1>15

\* What comes over a link is of the frame that its receiver is to make.
LEMMA TimedTransfer ==
  ASSUME Layered, NEW r, NEW c, NEW k, TimedInv(r, c, k),
         NEW t \in program.threads, NEW u \in program.threads, Transfer(t, u)
  PROVE  TimedInv(r, c, k)'
<1> DEFINE n == sent[t] + 1
           L == LinkLen(t, u)
           e0 == program.link[t][u][n]
           v == Fr(k - H(e0))
\* What is known before the step.
<1>1. /\ Linked /\ Arrays /\ r \in [program.threads -> Nat] /\ k \in Nat
      /\ \A x \in program.threads : TimedNode(r, k, x) /\ TimedLink(r, k, x) /\ OutInv(r, k, x)
      /\ \A x \in program.threads : PlaceInv(x) /\ r[x] \in {k - 1, k}
      /\ TimedWave(r, k) /\ SourceInv(r, c) /\ c = Brought(k) /\ SinkInv(k)
  BY DEF TimedInv, SinkInv, TimedNode, Layered
<1>2. /\ UNCHANGED design /\ UNCHANGED <<fifo, frame, done, data, reading, due, calls>>
      /\ Sending(t, u) /\ Receiving(u, t)
  BY DEF Transfer, sourceVars, sinkVars
<1>3. pc[t] = "out" /\ program.dests[t][dest[t]] = u /\ dest[t] \in 1 .. Len(program.dests[t])
  BY <1>1, <1>2 DEF Sending, PlaceInv
<1>4. /\ u # t /\ t \in program.sources[u] \ {PipelineIn} /\ u # PipelineOut
      /\ L \in Nat \ {0} /\ PipelineIn \notin program.sources[u]
      /\ \A i \in 1 .. L : program.link[t][u][i] \in Own(program, t)
  <2>1. t \in Nat /\ u \in Nat
    BY <1>1, Outgoings
  <2>2. u # PipelineOut /\ t # PipelineIn
    BY <2>1 DEF PipelineOut, PipelineIn
  <2>3. \A j \in 1 .. Len(program.dests[t]) : \A b : b = program.dests[t][j] =>
          /\ b = PipelineOut \/ (b # t /\ t \in program.sources[b])
          /\ Len(program.link[t][b]) \in Nat \ {0}
          /\ \A i \in 1 .. Len(program.link[t][b]) : program.link[t][b][i] \in Own(program, t)
    <3>1. t \in program.threads /\ Linked
      BY <1>1 DEF Layered
    <3> QED BY <3>1, Outgoings
  <2>4. /\ u # t /\ t \in program.sources[u] /\ L \in Nat \ {0}
        /\ \A i \in 1 .. L : program.link[t][u][i] \in Own(program, t)
    BY <1>3, <2>2, <2>3 DEF LinkLen
  <2>5. PipelineIn \in program.sources[u] => program.sources[u] = {PipelineIn}
    BY Feeds
  <2> QED BY <2>2, <2>4, <2>5
<1>5. pc[u] \in {"select", "take"} /\ r[u] + 1 = k /\ r[u] \in Nat
  <2>1. pc[u] \in {"select", "take"}
    BY <1>2 DEF Receiving
  <2>2. r[u] # k
    BY <1>1, <2>1 DEF TimedNode
  <2> QED BY <1>1, <2>1, <2>2
<1>6. r[t] + 1 = k /\ r[t] \in Nat
  <2> SUFFICES ASSUME r[t] = k PROVE FALSE
    BY <1>1
  <2>1. \A x \in program.threads : r[x] = k \/ pc[x] # "out"
    BY <1>1 DEF TimedWave
  <2>2. PICK a \in program.sources[u] : ~Came(r, k, a, u)
    <3>1. Waited(r, k, u) # {}
      BY <1>1, <1>5 DEF TimedNode
    <3> QED BY <3>1 DEF Waited
  <2>3. a # PipelineIn /\ a \in program.threads
    BY <1>4, <2>2, Feeds
  <2>4. PICK j \in 1 .. Len(program.dests[a]) : Put(r, a, j) # k
    BY <2>2, <2>3 DEF Came
  <2>5. r[a] \in Nat /\ (r[a] = k \/ r[a] + 1 = k) /\ (r[a] = k => dest[a] = 1 /\ pc[a] = "out")
    BY <1>1, <2>3 DEF TimedNode
  <2>6. 1 <= j
    <3>1. Len(program.dests[a]) \in Nat
      BY <1>1, <2>3, Outgoings
    <3> QED BY <3>1
  <2> QED BY <2>1, <2>3, <2>4, <2>5, <2>6 DEF Put
<1>7. /\ sent[t] \in 0 .. L - 1 /\ n \in 1 .. L
      /\ pc[u] = "take" => received[u] = sent[t]
      /\ pc[u] = "select" => sent[t] = 0
      /\ \A i \in 1 .. sent[t] : edge[u][program.link[t][u][i]] = Fr(k - H(program.link[t][u][i]))
      /\ \A a \in program.sources[u] \ {PipelineIn, t} : ~Busy(a, u)
  <2>1. sent[t] \in 0 .. L - 1
    BY <1>1, <1>3 DEF PlaceInv
  <2>2. TimedLink(r, k, u)
    BY <1>1
  <2>3. pc[u] = "take" => from[u] = t
    BY <1>2 DEF Receiving
  <2>4. Busy(t, u) <=> sent[t] > 0
    BY <1>2 DEF Busy
  <2> QED BY <1>4, <1>5, <2>1, <2>2, <2>3, <2>4 DEF TimedLink
<1>8. /\ e0 \in Own(program, t) /\ Outgoing(t) = e0 /\ edge[t][e0] = v
  <2>1. e0 \in Own(program, t) /\ Outgoing(t) = e0
    BY <1>3, <1>4, <1>7 DEF Outgoing
  <2>2. edge[t][e0] = Fr(r[t] + 1 - H(e0))
    BY <1>1, <2>1 DEF TimedNode
  <2> HIDE DEF e0
  <2>3. H(e0) \in Nat
    BY <2>1, Layers DEF Own
  <2>4. r[t] + 1 - H(e0) = k - H(e0)
    BY <1>1, <1>6, <2>3
  <2> QED BY <2>1, <2>2, <2>4
<1>9. t \in Waited(r, k, u)
  <2>1. Put(r, t, dest[t]) # k
    BY <1>3, <1>6 DEF Put
  <2> QED BY <1>3, <1>4, <2>1 DEF Waited, Came
\* What the step does.
<1>10. PICK last \in BOOLEAN : last <=> n = L
  OBVIOUS
<1> DEFINE newPc == [pc EXCEPT ![u] = IF last THEN AfterCase(u) ELSE "take"]
<1>11. /\ edge' = [edge EXCEPT ![u][e0] = v]
       /\ received' = [received EXCEPT ![u] = IF last THEN 0 ELSE n]
       /\ from' = [from EXCEPT ![u] = IF last THEN PipelineIn ELSE t]
       /\ read_count' = [Reloaded(t) EXCEPT ![u] = IF last THEN @ - 1 ELSE @]
       /\ SendNext(t, newPc)
  <2>1. (IF pc[u] = "take" THEN received[u] + 1 ELSE 1) = n
    BY <1>5, <1>7
  <2> HIDE DEF n, e0, v
  <2> QED BY <2>1, <1>8, <1>10 DEF Transfer, LinkLen, L
<1>12. /\ DOMAIN newPc = program.threads /\ newPc[t] = "out"
       /\ newPc[u] = IF last THEN AfterCase(u) ELSE "take"
       /\ AfterCase(u) = IF read_count[u] = 1 THEN "process" ELSE "select"
       /\ \A y \in program.threads \ {u} : newPc[y] = pc[y]
       /\ \A y \in program.threads : newPc[y] # pc[y] => newPc[y] # "out" /\ pc[y] # "out"
  <2>1. AfterCase(u) = IF read_count[u] = 1 THEN "process" ELSE "select"
    BY DEF AfterCase
  <2> QED BY <1>1, <1>3, <1>4, <1>5, <2>1 DEF Arrays
<1> HIDE DEF newPc
<1>13. /\ DOMAIN pc' = program.threads /\ DOMAIN dest' = program.threads
       /\ DOMAIN sent' = program.threads
       /\ \A y \in program.threads \ {t} :
            /\ pc'[y] = newPc[y] /\ dest'[y] = dest[y] /\ sent'[y] = sent[y]
            /\ \A j \in Nat : Put(r, y, j)' = Put(r, y, j)
            /\ \A x : Sending(y, x)' <=> Sending(y, x)
       /\ pc'[t] \in {"out", "select"}
       /\ dest'[t] \in 1 .. Len(program.dests[t])
       /\ sent'[t] \in 0 .. LinkLen(t, program.dests[t][dest'[t]]) - 1
       /\ pc'[t] = "select" => dest'[t] = 1 /\ sent'[t] = 0
       /\ pc'[t] = "select" <=> (last /\ dest[t] = Len(program.dests[t]))
       /\ last => sent'[t] = 0
       /\ ~last => pc'[t] = "out" /\ dest'[t] = dest[t] /\ sent'[t] = n
       /\ \A j \in 1 .. Len(program.dests[t]) :
            Put(r, t, j)' = IF j = dest[t] /\ last THEN Put(r, t, j) + 1 ELSE Put(r, t, j)
  <2>1. PlaceInv(t)
    BY <1>1
  <2>2. last = (sent[t] + 1 = LinkLen(t, u))
    BY <1>10
  <2>3. SendNext(t, newPc)
    BY <1>11
  <2>4. n = sent[t] + 1
    OBVIOUS
  <2>5. /\ Linked /\ Arrays /\ r \in [program.threads -> Nat] /\ UNCHANGED design
        /\ pc[t] = "out" /\ u = program.dests[t][dest[t]]
    BY <1>1, <1>2, <1>3
  <2>6. /\ DOMAIN newPc = program.threads /\ newPc[t] = "out"
        /\ \A y \in program.threads : newPc[y] # pc[y] => newPc[y] # "out" /\ pc[y] # "out"
    BY <1>12
  <2> HIDE DEF n
  <2> QED BY <2>1, <2>2, <2>3, <2>4, <2>5, <2>6, SendStep
<1>14. /\ DOMAIN edge' = program.threads /\ DOMAIN received' = program.threads
       /\ DOMAIN from' = program.threads /\ DOMAIN read_count' = program.threads
       /\ edge'[u] = [edge[u] EXCEPT ![e0] = v]
       /\ received'[u] = IF last THEN 0 ELSE n
       /\ from'[u] = IF last THEN PipelineIn ELSE t
       /\ read_count'[u] = IF last THEN read_count[u] - 1 ELSE read_count[u]
       /\ read_count'[t] = IF pc'[t] = "select" THEN Cardinality(program.sources[t]) ELSE 0
       /\ \A y \in program.threads \ {u} :
            edge'[y] = edge[y] /\ received'[y] = received[y] /\ from'[y] = from[y]
       /\ \A y \in program.threads \ {t, u} : read_count'[y] = read_count[y]
  <2>1. read_count[t] = 0
    BY <1>1, <1>3 DEF TimedNode
  <2>2. /\ DOMAIN Reloaded(t) = program.threads
        /\ \A y \in program.threads \ {t} : Reloaded(t)[y] = read_count[y]
        /\ Reloaded(t)[t] =
             IF last /\ dest[t] = Len(program.dests[t]) THEN Cardinality(program.sources[t]) ELSE 0
    BY <2>1, <1>1, <1>3, <1>10, ReloadedAll
  <2> HIDE DEF n, e0, v
  <2>3. /\ DOMAIN read_count' = program.threads
        /\ read_count'[u] = IF last THEN read_count[u] - 1 ELSE read_count[u]
        /\ read_count'[t] = IF pc'[t] = "select" THEN Cardinality(program.sources[t]) ELSE 0
        /\ \A y \in program.threads \ {t, u} : read_count'[y] = read_count[y]
    BY <2>2, <1>4, <1>11, <1>13
  <2>4. /\ DOMAIN edge' = program.threads /\ edge'[u] = [edge[u] EXCEPT ![e0] = v]
        /\ \A y \in program.threads \ {u} : edge'[y] = edge[y]
    BY <1>1, <1>11 DEF Arrays
  <2>5. /\ DOMAIN received' = program.threads /\ DOMAIN from' = program.threads
        /\ received'[u] = IF last THEN 0 ELSE n
        /\ from'[u] = IF last THEN PipelineIn ELSE t
        /\ \A y \in program.threads \ {u} : received'[y] = received[y] /\ from'[y] = from[y]
    BY <1>1, <1>11 DEF Arrays
  <2> QED BY <2>3, <2>4, <2>5
<1>15. pc'[u] = IF last THEN (IF read_count[u] = 1 THEN "process" ELSE "select") ELSE "take"
  BY <1>4, <1>12, <1>13
<1>16. /\ program' = program /\ setup' = setup /\ delay' = delay
       /\ \A x, b : LinkLen(x, b)' = LinkLen(x, b)
  BY <1>2, SameDesign
<1> HIDE DEF n, L, e0, v
\* Every thread after it.
<1>17. ASSUME NEW x \in program.threads, x # u, NEW a \in program.sources[x] \ {PipelineIn}
       PROVE  /\ \A j \in 1 .. Len(program.dests[a]) :
                   program.dests[a][j] = x => Put(r, a, j)' = Put(r, a, j)
              /\ Busy(a, x)' <=> Busy(a, x)
              /\ Busy(a, x) => sent'[a] = sent[a]
  <2>1. Sends(r, t, last)
    BY <1>3, <1>7, <1>13 DEF Sends
  <2>2. Spared(t, x, a)
    BY <1>3, <1>17 DEF Spared
  <2> QED BY <1>2, <2>1, <2>2, OthersSent
<1>18. ASSUME NEW x \in program.threads
       PROVE  TimedNode(r, k, x)' /\ TimedLink(r, k, x)'
  <2>1. TimedNode(r, k, x) /\ TimedLink(r, k, x)
    BY <1>1
  <2>2. CASE x = t
    <3>1. edge'[t] = edge[t]
      BY <1>4, <1>14
    <3>2. \A a \in program.sources[t] \ {PipelineIn} :
            /\ \A j \in 1 .. Len(program.dests[a]) :
                 program.dests[a][j] = t => Put(r, a, j)' = Put(r, a, j)
            /\ Busy(a, t)' <=> Busy(a, t)
      BY <1>4, <1>17
    <3>3. /\ pc'[t] \in {"out", "select"} /\ dest'[t] \in 1 .. Len(program.dests[t])
          /\ sent'[t] \in 0 .. LinkLen(t, program.dests[t][dest'[t]]) - 1
          /\ pc'[t] = "select" => dest'[t] = 1 /\ sent'[t] = 0
          /\ read_count'[t] = IF pc'[t] = "select" THEN Cardinality(program.sources[t]) ELSE 0
      BY <1>13, <1>14
    <3>4. UNCHANGED design /\ k \in Nat /\ r \in [program.threads -> Nat] /\ r[t] + 1 = k /\ pc[t] = "out"
          /\ TimedNode(r, k, t) /\ TimedLink(r, k, t)
      BY <1>1, <1>2, <1>3, <1>6
    <3>5. TimedNode(r, k, t)' /\ TimedLink(r, k, t)'
      BY <3>1, <3>2, <3>3, <3>4, HasSent
    <3> QED BY <2>2, <3>5
  <2>3. CASE x = u
    <3>1. \A i \in 1 .. n - 1 : edge[u][program.link[t][u][i]] = Fr(k - H(program.link[t][u][i]))
      BY <1>7 DEF n
    <3>2. \A a \in program.sources[u] \ {PipelineIn, t} :
            /\ a \in program.threads \ {t}
            /\ \A j \in 1 .. Len(program.dests[a]) : Put(r, a, j)' = Put(r, a, j)
            /\ Busy(a, u)' <=> Busy(a, u)
      <4> TAKE a \in program.sources[u] \ {PipelineIn, t}
      <4>1. a \in program.threads \ {t}
        BY Feeds
      <4>2. Len(program.dests[a]) \in Nat
        BY <1>1, <4>1, Outgoings
      <4> QED BY <4>1, <4>2, <1>13 DEF Busy
    <3>3. Waited(r, k, u)' = IF last THEN Waited(r, k, u) \ {t} ELSE Waited(r, k, u)
      <4>1. \A a \in program.sources[u] \ {t} : Came(r, k, a, u)' <=> Came(r, k, a, u)
        <5> TAKE a \in program.sources[u] \ {t}
        <5>1. a # PipelineIn
          BY <1>4
        <5> QED BY <5>1, <3>2, <1>16 DEF Came
      <4>2. Came(r, k, t, u)' <=> last
        <5>0. PICK j0 \in 1 .. Len(program.dests[t]) : j0 = dest[t]
          BY <1>3
        <5>1. \A j \in 1 .. Len(program.dests[t]) : program.dests[t][j] = u <=> j = j0
          BY <1>1, <1>3, <5>0, Outgoings
        <5>2. Put(r, t, j0) = r[t]
          BY <1>3, <1>6, <5>0 DEF Put
        <5>3. Put(r, t, j0)' = IF last THEN r[t] + 1 ELSE r[t]
          BY <1>13, <5>0, <5>2
        <5>4. Put(r, t, j0)' = k <=> last
          BY <1>6, <5>3
        <5>5. t # PipelineIn
          BY <1>4
        <5> QED BY <5>1, <5>4, <5>5, <1>16 DEF Came
      <4> QED BY <4>1, <4>2, <1>4, <1>9, <1>16 DEF Waited
    <3>4. \A a \in program.sources[u] \ {PipelineIn, t} : ~Busy(a, u)'
      BY <3>2, <1>7
    <3>5. last => ~Busy(t, u)'
      BY <1>13 DEF Busy
    <3>6. ~last => Sending(t, u)' /\ sent'[t] = n
      BY <1>3, <1>13, <1>16 DEF Sending
    <3>7. dest'[u] = dest[u] /\ sent'[u] = sent[u]
      BY <1>4, <1>13
    <3>8. edge'[u] = [edge[u] EXCEPT ![e0] = Fr(k - H(e0))] /\ e0 = program.link[t][u][n]
      BY <1>14 DEF e0, v
    <3>9. n \in 1 .. LinkLen(t, u) /\ (last <=> n = LinkLen(t, u))
      BY <1>7, <1>10 DEF L
    <3>10. UNCHANGED design /\ k \in Nat /\ r \in [program.threads -> Nat] /\ TimedNode(r, k, u)
           /\ r[u] + 1 = k /\ pc[u] \in {"select", "take"} /\ t \in program.sources[u] \ {PipelineIn}
           /\ t \in Waited(r, k, u)
      BY <1>1, <1>2, <1>4, <1>5, <1>9
    <3>11. /\ received'[u] = IF last THEN 0 ELSE n
           /\ from'[u] = IF last THEN PipelineIn ELSE t
           /\ read_count'[u] = IF last THEN read_count[u] - 1 ELSE read_count[u]
      BY <1>14
    <3>12. TimedNode(r, k, u)' /\ TimedLink(r, k, u)'
      <4>1. Receipt(r, k, u, t, n, last, e0)
        BY <3>1, <3>3, <3>4, <3>5, <3>6, <3>7, <3>8, <3>9, <3>10, <3>11, <1>15 DEF Receipt
      <4> QED BY <3>10, <4>1, HasReceived
    <3> QED BY <2>3, <3>12
  <2>4. CASE x # t /\ x # u
    <3>1. /\ pc'[x] = pc[x] /\ dest'[x] = dest[x] /\ sent'[x] = sent[x] /\ from'[x] = from[x]
          /\ received'[x] = received[x] /\ edge'[x] = edge[x] /\ read_count'[x] = read_count[x]
      BY <2>4, <1>12, <1>13, <1>14
    <3> QED BY <2>1, <2>4, <3>1, <1>2, <1>17, StandsBy
  <2> QED BY <2>2, <2>3, <2>4
<1>19. ASSUME NEW x \in program.threads
       PROVE  OutInv(r, k, x)'
  <2>1. OutInv(r, k, x)
    BY <1>1
  <2>2. data' = data /\ reading' = reading
    BY <1>2
  <2>3. program.dests[t][dest[t]] # PipelineOut
    BY <1>3, <1>4
  <2> QED BY <2>1, <2>2, <2>3, <1>1, <1>2, <1>3, <1>13, OutsAfterSend
<1>20. TimedWave(r, k)'
  <2>1. r[t] # k /\ calls' = calls /\ reading' = reading /\ done' = done
    BY <1>2, <1>6
  <2>2. \A x \in program.threads : r[x] # k
    BY <1>1, <1>3, <2>1 DEF TimedWave
  <2> QED BY <1>1, <1>16, <2>1, <2>2 DEF TimedWave
<1>21. SourceInv(r, c)'
  <2>1. \A x \in program.threads : PipelineIn \in program.sources[x] => Got(r, x)' = Got(r, x)
    <3> SUFFICES ASSUME NEW x \in program.threads, PipelineIn \in program.sources[x]
                 PROVE  Got(r, x)' = Got(r, x)
      OBVIOUS
    <3>1. x # u
      BY <1>4
    <3>2. pc'[x] = "process" <=> pc[x] = "process"
      BY <3>1, <1>3, <1>12, <1>13
    <3> QED BY <3>2 DEF Got
  <2> QED BY <2>1, <1>1, <1>2, FifosSame
<1>22. SinkInv(k)' /\ c = Brought(k)'
  BY <1>1, <1>2, <1>16 DEF SinkInv, Brought
<1>23. Arrays'
  BY <1>13, <1>14, <1>16 DEF Arrays
<1> QED BY <1>1, <1>16, <1>18, <1>19, <1>20, <1>21, <1>22, <1>23 DEF TimedInv

-----------------------------------------------------------------------------
(* A thread by itself, on time *)

AllTimed(r, k) == \A x \in program.threads : TimedNode(r, k, x) /\ TimedLink(r, k, x) /\ OutInv(r, k, x)

\* Only thread t moves.
OnlyMoves(r, s, t) ==
  \A x \in program.threads \ {t} :
    s[x] = r[x] /\ pc'[x] = pc[x] /\ edge'[x] = edge[x] /\ read_count'[x] = read_count[x]

\* A step of thread t alone, outside its sends, leaves the other threads and
\* the sink where they were.
LEMMA LocalTimed ==
  ASSUME Layered, UNCHANGED <<design, dest, sent, from, received, data, reading>>,
         NEW r \in [program.threads -> Nat], NEW s \in [program.threads -> Nat], NEW k,
         AllTimed(r, k),
         NEW t \in program.threads, pc[t] # "out", sent[t] = 0, dest[t] = 1,
         s[t] + (IF pc'[t] = "out" THEN 0 ELSE 1) = r[t] + 1,
         OnlyMoves(r, s, t)
  PROVE  /\ \A x \in program.threads \ {t} :
              TimedNode(s, k, x)' /\ TimedLink(s, k, x)' /\ Got(s, x)' = Got(r, x)
         /\ \A x \in program.threads :
              /\ OutInv(s, k, x)'
              /\ \A j \in 1 .. Len(program.dests[x]) : Put(s, x, j)' = Put(r, x, j)
              /\ \A b : Busy(x, b)' <=> Busy(x, b)
<1>1. /\ program' = program /\ dest' = dest /\ sent' = sent
      /\ \A x \in program.threads : TimedNode(r, k, x) /\ TimedLink(r, k, x) /\ OutInv(r, k, x)
      /\ \A x \in program.threads \ {t} :
           s[x] = r[x] /\ pc'[x] = pc[x] /\ edge'[x] = edge[x] /\ read_count'[x] = read_count[x]
  BY SameDesign DEF AllTimed, OnlyMoves
<1>2. ASSUME NEW x \in program.threads
      PROVE  \A j \in 1 .. Len(program.dests[x]) : Put(s, x, j)' = Put(r, x, j)
  <2>1. CASE x = t
    <3>1. Len(program.dests[t]) \in Nat
      BY Outgoings DEF Layered
    <3>2. \A j \in 1 .. Len(program.dests[t]) : 1 <= j
      BY <3>1
    <3>3. s[t] \in Nat /\ r[t] \in Nat
      OBVIOUS
    <3> QED BY <2>1, <3>2, <3>3, <1>1 DEF Put
  <2>2. CASE x # t
    BY <2>2, <1>1 DEF Put
  <2> QED BY <2>1, <2>2
<1>3. ASSUME NEW x \in program.threads
      PROVE  \A b : Busy(x, b)' <=> Busy(x, b)
  <2>1. CASE x = t
    BY <2>1, <1>1 DEF Busy
  <2>2. CASE x # t
    BY <2>2, <1>1 DEF Busy, Sending
  <2> QED BY <2>1, <2>2
<1>4. ASSUME NEW x \in program.threads
      PROVE  OutInv(s, k, x)'
  <2>1. OutInv(r, k, x) /\ \A j \in 1 .. Len(program.dests[x]) : Put(s, x, j)' = Put(r, x, j)
    BY <1>1, <1>2
  <2>2. CASE x = t
    <3>1. ~Sending(x, PipelineOut) /\ sent'[x] = 0
      BY <2>2, <1>1 DEF Sending
    <3> QED BY <2>1, <3>1, OutsSame
  <2>3. CASE x # t
    <3>1. (Sending(x, PipelineOut)' <=> Sending(x, PipelineOut)) /\ sent'[x] = sent[x]
      BY <2>3, <1>1 DEF Sending
    <3> QED BY <2>1, <3>1, OutsSame
  <2> QED BY <2>2, <2>3
<1>5. ASSUME NEW x \in program.threads \ {t}
      PROVE  TimedNode(s, k, x)' /\ TimedLink(s, k, x)' /\ Got(s, x)' = Got(r, x)
  <2>1. \A a \in program.sources[x] \ {PipelineIn} :
          /\ \A j \in 1 .. Len(program.dests[a]) :
               program.dests[a][j] = x => Put(s, a, j)' = Put(r, a, j)
          /\ Busy(a, x)' <=> Busy(a, x)
          /\ Busy(a, x) => sent'[a] = sent[a]
    <3> TAKE a \in program.sources[x] \ {PipelineIn}
    <3>1. a \in program.threads
      BY Feeds
    <3> QED BY <3>1, <1>1, <1>2, <1>3
  <2>2. /\ TimedNode(r, k, x) /\ TimedLink(r, k, x) /\ s[x] = r[x]
        /\ pc'[x] = pc[x] /\ dest'[x] = dest[x] /\ sent'[x] = sent[x] /\ from'[x] = from[x]
        /\ received'[x] = received[x] /\ edge'[x] = edge[x] /\ read_count'[x] = read_count[x]
    BY <1>1
  <2>3. TimedNode(s, k, x)' /\ TimedLink(s, k, x)'
    BY <2>1, <2>2, StandsBy
  <2> QED BY <2>2, <2>3 DEF Got
<1> QED BY <1>2, <1>3, <1>4, <1>5

\* A frame from a FIFO is the only thing that its thread waits for.
LEMMA TimedTakeInput ==
  ASSUME Layered, NEW r, NEW c, NEW k, TimedInv(r, c, k),
         NEW t \in program.threads, TakeInput(t)
  PROVE  TimedInv(r, c, k)'
<1>1. /\ Linked /\ Arrays /\ r \in [program.threads -> Nat] /\ k \in Nat
      /\ \A x \in program.threads : TimedNode(r, k, x) /\ TimedLink(r, k, x) /\ OutInv(r, k, x)
      /\ TimedNode(r, k, t) /\ TimedLink(r, k, t) /\ PlaceInv(t) /\ r[t] \in {k - 1, k}
      /\ TimedWave(r, k) /\ SourceInv(r, c) /\ c = Brought(k) /\ SinkInv(k)
  BY DEF TimedInv, SinkInv, TimedNode, Layered
<1>2. /\ UNCHANGED <<design, dest, sent, from, received, data, reading, due, calls>>
      /\ frame' = frame /\ done' = done
  BY DEF TakeInput, sourceVars, sinkVars
<1>3. /\ program' = program /\ setup' = setup /\ delay' = delay
      /\ \A x, b : LinkLen(x, b)' = LinkLen(x, b)
      /\ \A e : H(e)' = H(e) /\ From(e)' = From(e)
  BY <1>2, SameDesign, SameLayers
<1>4. /\ program.sources[t] = {PipelineIn}
      /\ \A e \in Incoming(program, t) : e[1] = 0 /\ H(e) = 0 /\ e \in program.edges[t]
  <2>1. PipelineIn \in program.sources[t]
    BY DEF TakeInput
  <2> QED BY <2>1, Feeds DEF Incoming
<1>5. /\ pc[t] = "select" /\ r[t] + 1 = k /\ r[t] \in Nat /\ Got(r, t) = r[t]
      /\ dest[t] = 1 /\ sent[t] = 0
  <2>1. pc[t] = "select"
    BY DEF TakeInput
  <2>2. r[t] # k
    BY <1>1, <2>1 DEF TimedNode
  <2>3. dest[t] = 1 /\ sent[t] = 0
    BY <1>1, <2>1 DEF PlaceInv
  <2>4. r[t] \in Nat /\ r[t] + 1 = k
    BY <1>1, <2>2
  <2> QED BY <2>1, <2>3, <2>4 DEF Got
<1>6. read_count[t] = 1
  <2>1. Waited(r, k, t) = {PipelineIn}
    <3>1. ~Came(r, k, PipelineIn, t)
      BY <1>1, <1>5 DEF Came
    <3> QED BY <1>4, <3>1 DEF Waited
  <2>2. Cardinality({PipelineIn}) = 1
    BY FS_Singleton
  <2> QED BY <2>1, <2>2, <1>1, <1>5 DEF TimedNode
<1>7. /\ DOMAIN pc' = program.threads /\ DOMAIN read_count' = program.threads
      /\ DOMAIN edge' = program.threads
      /\ pc'[t] = "process" /\ read_count'[t] = 0
      /\ edge'[t] = [e \in program.edges[t] |-> IF e[1] = 0 THEN fifo[t] ELSE edge[t][e]]
      /\ \A x \in program.threads \ {t} :
           pc'[x] = pc[x] /\ edge'[x] = edge[x] /\ read_count'[x] = read_count[x]
  <2>1. AfterCase(t) = "process"
    BY <1>6 DEF AfterCase
  <2> QED BY <2>1, <1>1, <1>6 DEF TakeInput, Arrays
<1>8. /\ \A x \in program.threads \ {t} :
           TimedNode(r, k, x)' /\ TimedLink(r, k, x)' /\ Got(r, x)' = Got(r, x)
      /\ \A x \in program.threads : OutInv(r, k, x)'
  <2>1. r[t] + (IF pc'[t] = "out" THEN 0 ELSE 1) = r[t] + 1
    BY <1>7
  <2>2. pc[t] # "out" /\ sent[t] = 0 /\ dest[t] = 1 /\ r \in [program.threads -> Nat]
    BY <1>1, <1>5
  <2>3. AllTimed(r, k) /\ OnlyMoves(r, r, t)
    BY <1>1, <1>7 DEF AllTimed, OnlyMoves
  <2>4. UNCHANGED <<design, dest, sent, from, received, data, reading>>
    BY <1>2
  <2> QED BY <2>1, <2>2, <2>3, <2>4, LocalTimed
<1>9. fifo[t] = Fr(k) /\ fifo[t] \in Frames /\ SourceInv(r, c)'
  <2>1. Got(r, t)' = Got(r, t) + 1
    BY <1>5, <1>7 DEF Got
  <2>2. Got(r, t) \in Int /\ Got(r, t) + 1 = k
    BY <1>5
  <2>3. fifo[t] = Fr(Got(r, t) + 1) /\ fifo[t] \in Frames /\ SourceInv(r, c)'
    BY <2>1, <2>2, <1>1, <1>8, FifoTaken
  <2> QED BY <2>2, <2>3
<1>10. Waited(r, k, t)' = {}
  <2>1. Came(r, k, PipelineIn, t)'
    BY <1>5, <1>7 DEF Came, Got
  <2> QED BY <2>1, <1>3, <1>4 DEF Waited
<1>11. TimedNode(r, k, t)'
  <2>1. \A e \in Own(program, t) : e[1] # 0 /\ e \in program.edges[t]
    BY Layers
  <2>2. /\ edge[t] \in [program.edges[t] -> Frames]
        /\ \A e \in Own(program, t) : edge[t][e] = Fr(r[t] + 1 - H(e))
    BY <1>1 DEF TimedNode
  <2>3. edge'[t] \in [program.edges[t] -> Frames]
    BY <2>2, <1>7, <1>9
  <2>4. \A e \in Own(program, t) : edge'[t][e] = Fr(r[t] + 1 - H(e))
    BY <2>1, <2>2, <1>7
  <2>5. \A e \in Incoming(program, t) : edge'[t][e] = Fr(k - H(e))
    <3>1. k - 0 = k
      BY <1>1
    <3>2. \A e \in Incoming(program, t) : edge'[t][e] = fifo[t]
      BY <1>4, <1>7
    <3> QED BY <3>1, <3>2, <1>4, <1>9
  <2>6. PlaceInv(t)'
    BY <1>1, <1>2, <1>3, <1>5, <1>7 DEF PlaceInv
  <2> QED BY <2>3, <2>4, <2>5, <2>6, <1>1, <1>3, <1>5, <1>7, <1>10 DEF TimedNode, Own, Incoming
<1>12. TimedLink(r, k, t)'
  BY <1>3, <1>4, <1>7 DEF TimedLink
<1>13. TimedWave(r, k)'
  <2>1. \A x \in program.threads : pc'[x] = "out" <=> pc[x] = "out"
    BY <1>5, <1>7
  <2> QED BY <2>1, <1>1, <1>2, <1>3 DEF TimedWave
<1>14. SinkInv(k)' /\ Arrays' /\ c = Brought(k)'
  BY <1>1, <1>2, <1>3, <1>7 DEF SinkInv, Arrays, Brought
<1> QED BY <1>1, <1>3, <1>8, <1>9, <1>11, <1>12, <1>13, <1>14 DEF TimedInv

\* Every stage has its inputs of one frame, though the thread has them of several
\* sources; and when a thread processes, all have sent.
LEMMA TimedProcess ==
  ASSUME Layered, setup.quick_reads, NoCircularWait(program),
         NEW r, NEW c, NEW k, TimedInv(r, c, k),
         NEW t \in program.threads, Process(t)
  PROVE  \E s : TimedInv(s, c, k)'
<1>1. /\ Linked /\ Arrays /\ r \in [program.threads -> Nat] /\ k \in Nat
      /\ \A x \in program.threads : TimedNode(r, k, x) /\ TimedLink(r, k, x) /\ OutInv(r, k, x)
      /\ TimedNode(r, k, t) /\ TimedLink(r, k, t) /\ PlaceInv(t) /\ r[t] \in {k - 1, k}
      /\ TimedWave(r, k) /\ SourceInv(r, c) /\ c = Brought(k) /\ SinkInv(k)
  BY DEF TimedInv, SinkInv, TimedNode, Layered
<1>2. /\ UNCHANGED <<design, dest, sent, from, received, data, reading, due, calls>>
      /\ frame' = frame /\ done' = done /\ fifo' = fifo /\ read_count' = read_count
  BY DEF Process, sourceVars, sinkVars
<1>3. /\ program' = program /\ setup' = setup /\ delay' = delay
      /\ \A x, b : LinkLen(x, b)' = LinkLen(x, b)
      /\ \A e : H(e)' = H(e) /\ From(e)' = From(e)
  BY <1>2, SameDesign, SameLayers
<1>4. /\ pc[t] = "process" /\ r[t] + 1 = k /\ r[t] \in Nat /\ dest[t] = 1 /\ sent[t] = 0
      /\ Waited(r, k, t) = {} /\ read_count[t] = 0
  <2>1. pc[t] = "process"
    BY DEF Process
  <2>2. r[t] # k /\ Waited(r, k, t) = {} /\ read_count[t] = 0
    BY <1>1, <2>1 DEF TimedNode
  <2>3. dest[t] = 1 /\ sent[t] = 0
    BY <1>1, <2>1 DEF PlaceInv
  <2> QED BY <2>1, <2>2, <2>3, <1>1
<1>5. PICK s : s = [r EXCEPT ![t] = k]
  OBVIOUS
<1>6. s \in [program.threads -> Nat] /\ s[t] = k /\ \A x \in program.threads \ {t} : s[x] = r[x]
  BY <1>1, <1>5
<1>7. /\ DOMAIN pc' = program.threads /\ DOMAIN edge' = program.threads
      /\ pc'[t] = "out" /\ edge'[t] = Processed(t)
      /\ \A x \in program.threads \ {t} : pc'[x] = pc[x] /\ edge'[x] = edge[x]
  BY <1>1 DEF Process, Arrays
<1>8. /\ \A x \in program.threads \ {t} :
           TimedNode(s, k, x)' /\ TimedLink(s, k, x)' /\ Got(s, x)' = Got(r, x)
      /\ \A x \in program.threads :
           /\ OutInv(s, k, x)'
           /\ \A j \in 1 .. Len(program.dests[x]) : Put(s, x, j)' = Put(r, x, j)
           /\ \A b : Busy(x, b)' <=> Busy(x, b)
  <2>1. s[t] + (IF pc'[t] = "out" THEN 0 ELSE 1) = r[t] + 1
    BY <1>1, <1>4, <1>6, <1>7
  <2>2. pc[t] # "out" /\ sent[t] = 0 /\ dest[t] = 1
        /\ r \in [program.threads -> Nat] /\ s \in [program.threads -> Nat]
    BY <1>1, <1>4, <1>6
  <2>3. AllTimed(r, k) /\ OnlyMoves(r, s, t)
    BY <1>1, <1>2, <1>6, <1>7 DEF AllTimed, OnlyMoves
  <2>4. UNCHANGED <<design, dest, sent, from, received, data, reading>>
    BY <1>2
  <2> QED BY <2>1, <2>2, <2>3, <2>4, LocalTimed
<1>9. Got(s, t)' = Got(r, t)
  BY <1>4, <1>6, <1>7 DEF Got
<1>10. Waited(s, k, t)' = {}
  <2>1. \A a \in program.sources[t] \ {PipelineIn} : a \in program.threads
    BY Feeds
  <2>2. UNCHANGED design
    BY <1>2
  <2>3. Waited(s, k, t)' = Waited(r, k, t)
    BY <2>1, <2>2, <1>8, <1>9, WaitedSame
  <2> QED BY <2>3, <1>4
<1>11. PICK g : g = [x \in DOMAIN program.process[t] |-> Fr(k + 1 - Deep(setup.design, x))]
  OBVIOUS
<1>12. Processed(t) =
         [e \in program.edges[t] |-> IF e \in Own(program, t) THEN g[e[1]] ELSE edge[t][e]]
  <2>1. ASSUME NEW x \in DOMAIN program.process[t], NEW i \in program.process[t][x]
        PROVE  g[x] = IF i[1] \in DOMAIN program.process[t] THEN g[i[1]] ELSE edge[t][i]
    <3>1. /\ i \in program.edges[t] /\ H(i) \in Nat
          /\ Deep(setup.design, x) = IF i[1] \in DOMAIN program.process[t] THEN H(i) ELSE H(i) + 1
      BY Layers
    <3>2. CASE i[1] \in DOMAIN program.process[t]
      BY <3>1, <3>2, <1>11 DEF H
    <3>3. CASE i[1] \notin DOMAIN program.process[t]
      <4>1. i \in Incoming(program, t)
        BY <3>1, <3>3 DEF Incoming, Own
      <4>2. edge[t][i] = Fr(k - H(i))
        BY <4>1, <1>1, <1>4 DEF TimedNode
      <4>3. k + 1 - Deep(setup.design, x) = k - H(i)
        BY <3>1, <3>3, <1>1
      <4> QED BY <3>3, <4>2, <4>3, <1>11
    <3> QED BY <3>2, <3>3
  <2> QED BY <2>1, <1>1, ProcessedBy
<1>13. \A e \in Own(program, t) : e \in program.edges[t] /\ g[e[1]] = Fr(k + 1 - H(e)) /\ Fr(k + 1 - H(e)) \in Frames
  <2> TAKE e \in Own(program, t)
  <2>1. e \in program.edges[t] /\ e[1] \in DOMAIN program.process[t]
    BY DEF Own
  <2>2. g[e[1]] = Fr(k + 1 - H(e))
    BY <2>1, <1>11 DEF H
  <2>3. k + 1 - H(e) \in Int
    <3>1. H(e) \in Nat
      BY <2>1, Layers
    <3> QED BY <3>1, <1>1
  <2> QED BY <2>1, <2>2, <2>3, FrNext
<1>14. /\ edge'[t] \in [program.edges[t] -> Frames]
       /\ \A e \in Own(program, t) : edge'[t][e] = Fr(k + 1 - H(e))
  <2>1. edge[t] \in [program.edges[t] -> Frames]
    BY <1>1 DEF TimedNode
  <2>2. edge'[t] = [e \in program.edges[t] |-> IF e \in Own(program, t) THEN g[e[1]] ELSE edge[t][e]]
    BY <1>7, <1>12
  <2> QED BY <2>1, <2>2, <1>13
<1>15. TimedNode(s, k, t)'
  <2>1. PlaceInv(t)'
    BY <1>1, <1>2, <1>3, <1>4, <1>7 DEF PlaceInv
  <2> QED BY <2>1, <1>2, <1>3, <1>4, <1>6, <1>7, <1>14 DEF TimedNode, Own
<1>16. TimedLink(s, k, t)'
  <2>1. \A a \in program.sources[t] \ {PipelineIn} : ~Busy(a, t)'
    <3> TAKE a \in program.sources[t] \ {PipelineIn}
    <3>1. a \in program.threads /\ ~Busy(a, t)
      BY <1>1, <1>4, Feeds DEF TimedLink
    <3> QED BY <3>1, <1>8
  <2> QED BY <2>1, <1>3, <1>6, <1>7 DEF TimedLink
<1>17. TimedWave(s, k)'
  <2>1. ~ReadPossible
    BY DEF Process
  <2>2. \A x \in program.threads : r[x] = k \/ pc[x] # "out"
    BY <2>1, AllSent
  <2>3. \A x \in program.threads : s[x] = k \/ pc'[x] # "out"
    BY <2>2, <1>6, <1>7
  <2>4. "sink" \notin calls
    BY <1>1, <1>4 DEF TimedWave
  <2> QED BY <2>3, <2>4, <1>1, <1>2, <1>3 DEF TimedWave
<1>18. SourceInv(s, c)'
  <2>1. \A x \in program.threads : Got(s, x)' = Got(r, x)
    BY <1>8, <1>9
  <2> QED BY <2>1, <1>1, <1>2, FifosSame
<1>19. SinkInv(k)' /\ Arrays' /\ c = Brought(k)'
  BY <1>1, <1>2, <1>3, <1>7 DEF SinkInv, Arrays, Brought
<1>20. TimedInv(s, c, k)'
  BY <1>3, <1>6, <1>8, <1>15, <1>16, <1>17, <1>18, <1>19 DEF TimedInv
<1> QED BY <1>20

-----------------------------------------------------------------------------
(* The application, on time *)

\* A step that moves no thread.
LEMMA TimedStill ==
  ASSUME Layered, NEW r \in [program.threads -> Nat], NEW k,
         \A x \in program.threads : TimedNode(r, k, x) /\ TimedLink(r, k, x) /\ OutInv(r, k, x),
         Arrays, UNCHANGED <<design, pc, dest, sent, from, received, read_count, edge>>
  PROVE  /\ Arrays' /\ \A x : Got(r, x)' = Got(r, x)
         /\ \A x \in program.threads : TimedNode(r, k, x)' /\ TimedLink(r, k, x)'
         /\ data' = data /\ reading' = reading => \A x \in program.threads : OutInv(r, k, x)'
<1>1. /\ UNCHANGED design /\ program' = program
      /\ pc' = pc /\ dest' = dest /\ sent' = sent /\ from' = from /\ received' = received
      /\ read_count' = read_count /\ edge' = edge
  BY SameDesign
<1>2. /\ \A x : Got(r, x)' = Got(r, x)
      /\ \A x, j : Put(r, x, j)' = Put(r, x, j)
      /\ \A x, b : Sending(x, b)' <=> Sending(x, b)
      /\ \A x, b : Busy(x, b)' <=> Busy(x, b)
  BY <1>1 DEF Got, Put, Sending, Busy
<1>3. ASSUME NEW x \in program.threads
      PROVE  /\ TimedNode(r, k, x)' /\ TimedLink(r, k, x)'
             /\ data' = data /\ reading' = reading => OutInv(r, k, x)'
  <2>1. TimedNode(r, k, x) /\ TimedLink(r, k, x) /\ OutInv(r, k, x)
    OBVIOUS
  <2>2. \A a \in program.sources[x] \ {PipelineIn} :
          /\ \A j \in 1 .. Len(program.dests[a]) :
               program.dests[a][j] = x => Put(r, a, j)' = Put(r, a, j)
          /\ Busy(a, x)' <=> Busy(a, x)
          /\ Busy(a, x) => sent'[a] = sent[a]
    BY <1>1, <1>2
  <2>3. TimedNode(r, k, x)' /\ TimedLink(r, k, x)'
    BY <2>1, <2>2, <1>1, StandsBy
  <2>4. data' = data /\ reading' = reading => OutInv(r, k, x)'
    BY <2>1, <1>1, <1>2, OutsSame
  <2> QED BY <2>3, <2>4
<1>4. Arrays'
  BY <1>1 DEF Arrays
<1> QED BY <1>2, <1>3, <1>4

\* A step that touches neither audio nor the calls.
LEMMA TimedQuiet ==
  ASSUME Layered, NEW r, NEW c, NEW k, TimedInv(r, c, k),
         UNCHANGED <<design, pc, dest, sent, from, received, read_count, edge,
                     fifo, sourceVars, sinkVars, calls>>
  PROVE  TimedInv(r, c, k)'
<1>1. /\ r \in [program.threads -> Nat] /\ Arrays
      /\ \A x \in program.threads : TimedNode(r, k, x) /\ TimedLink(r, k, x) /\ OutInv(r, k, x)
      /\ TimedWave(r, k) /\ SourceInv(r, c) /\ c = Brought(k) /\ SinkInv(k)
  BY DEF TimedInv
<1>2. /\ UNCHANGED <<design, pc, dest, sent, from, received, read_count, edge>>
      /\ pc' = pc /\ fifo' = fifo /\ frame' = frame /\ done' = done
      /\ data' = data /\ reading' = reading /\ due' = due /\ calls' = calls
  BY DEF sourceVars, sinkVars
<1>3. /\ Arrays' /\ \A x : Got(r, x)' = Got(r, x)
      /\ \A x \in program.threads : TimedNode(r, k, x)' /\ TimedLink(r, k, x)' /\ OutInv(r, k, x)'
  BY <1>1, <1>2, TimedStill
<1>4. program' = program /\ delay' = delay /\ UNCHANGED design /\ UNCHANGED <<fifo, frame, done>>
  BY <1>2, SameDesign
<1>5. SourceInv(r, c)'
  BY <1>1, <1>3, <1>4, FifosSame DEF Layered
<1>6. TimedWave(r, k)' /\ SinkInv(k)' /\ c = Brought(k)'
  BY <1>1, <1>2, <1>4 DEF TimedWave, SinkInv, Brought
<1> QED BY <1>1, <1>3, <1>4, <1>5, <1>6 DEF TimedInv

\* A sink call begins when all threads have made their frame, and asks them for
\* the next one.
LEMMA TimedCallSink ==
  ASSUME Layered, setup.on_time, NEW r, NEW c, NEW k, TimedInv(r, c, k), CallSink
  PROVE  TimedInv(r, c, k + 1)'
<1>1. /\ r \in [program.threads -> Nat] /\ Arrays /\ k \in Nat /\ Linked
      /\ \A x \in program.threads : TimedNode(r, k, x) /\ TimedLink(r, k, x) /\ OutInv(r, k, x)
      /\ TimedWave(r, k) /\ SourceInv(r, c) /\ c = Brought(k) /\ SinkInv(k)
  BY DEF TimedInv, SinkInv, Layered
<1>2. /\ UNCHANGED <<design, threadVars>> /\ UNCHANGED <<fifo, frame, done>> /\ done' = done
      /\ "sink" \in calls /\ calls' = calls \ {"sink"}
  BY DEF CallSink, sourceVars, Coupled
<1>3. /\ pc' = pc /\ dest' = dest /\ sent' = sent /\ from' = from /\ received' = received
      /\ read_count' = read_count /\ edge' = edge
      /\ \A x : Got(r, x)' = Got(r, x)
      /\ \A x, j : Put(r, x, j)' = Put(r, x, j)
      /\ UNCHANGED design
  BY <1>2, ThreadsStill
<1>4. /\ program' = program /\ delay' = delay
      /\ \A x, b : LinkLen(x, b)' = LinkLen(x, b)
      /\ \A e : H(e)' = H(e) /\ From(e)' = From(e)
  BY <1>3, SameDesign, SameLayers
<1>5. ~reading /\ \A x \in program.threads :
        r[x] = k /\ r[x] \in Nat /\ pc[x] = "out" /\ dest[x] = 1 /\ sent[x] = 0
  BY <1>1, <1>2 DEF TimedWave, TimedNode
<1>6. k \in Nat /\ k + 1 \in Nat /\ (k + 1) - 1 = k /\ k + 1 # k
  BY <1>1
<1>7. ASSUME NEW x \in program.threads
      PROVE  Waited(r, k + 1, x)' = program.sources[x]
  <2>1. \A a \in program.sources[x] : ~Came(r, k + 1, a, x)'
    <3> TAKE a \in program.sources[x]
    <3>1. CASE a = PipelineIn
      <4>1. Got(r, x)' = k
        BY <1>3, <1>5 DEF Got
      <4> QED BY <3>1, <4>1, <1>6 DEF Came
    <3>2. CASE a # PipelineIn
      <4>1. a \in program.threads /\ \E j \in 1 .. Len(program.dests[a]) : program.dests[a][j] = x
        BY <3>2, Feeds
      <4>2. PICK j \in 1 .. Len(program.dests[a]) : program.dests[a][j] = x
        BY <4>1
      <4>3. 1 <= j
        <5>1. Len(program.dests[a]) \in Nat
          BY <1>1, <4>1, Outgoings
        <5> QED BY <5>1
      <4>4. Put(r, a, j) = k
        BY <4>1, <4>3, <1>5 DEF Put
      <4>5. Put(r, a, j)' = k
        BY <4>4, <1>3
      <4> QED BY <3>2, <4>2, <4>5, <1>4, <1>6 DEF Came
    <3> QED BY <3>1, <3>2
  <2> QED BY <2>1, <1>4 DEF Waited
<1>8. ASSUME NEW x \in program.threads
      PROVE  TimedNode(r, k + 1, x)' /\ TimedLink(r, k + 1, x)'
  <2>1. TimedNode(r, k, x) /\ PlaceInv(x)
    BY <1>1 DEF TimedNode
  <2>2. PlaceInv(x)'
    BY <2>1, <1>3, <1>4 DEF PlaceInv
  <2>3. TimedNode(r, k + 1, x)'
    BY <2>1, <2>2, <1>3, <1>4, <1>5, <1>6 DEF TimedNode, Own
  <2>4. \A a \in program.sources[x] \ {PipelineIn} : ~Busy(a, x)'
    <3> TAKE a \in program.sources[x] \ {PipelineIn}
    <3>1. a \in program.threads
      BY Feeds
    <3> QED BY <3>1, <1>3, <1>5 DEF Busy
  <2>5. TimedLink(r, k + 1, x)'
    BY <2>4, <1>3, <1>4, <1>5, <1>7 DEF TimedLink
  <2> QED BY <2>3, <2>5
<1>9. (\A x \in program.threads : OutInv(r, k + 1, x)') /\ SinkInv(k + 1)'
  BY <1>1, SinkCalled
<1>10. SourceInv(r, c)'
  BY <1>1, <1>2, <1>3, FifosSame
<1>11. TimedWave(r, k + 1)'
  <2>1. \A x \in program.threads : r[x] # k + 1
    BY <1>5, <1>6
  <2>2. "sink" \notin calls' /\ ("source" \in calls' => done' = -1)
    BY <1>1, <1>2 DEF TimedWave
  <2> QED BY <2>1, <2>2, <1>4 DEF TimedWave
<1>12. c = Brought(k + 1)'
  <2>1. "sink" \notin calls' /\ ("source" \in calls' <=> "source" \in calls)
    BY <1>2
  <2>2. c = k + 1 - (IF "source" \in calls \/ done >= 0 THEN 1 ELSE 0)
    BY <1>1, <1>2 DEF Brought
  <2>3. Brought(k + 1)' = (k + 1) + 0 - (IF "source" \in calls \/ done >= 0 THEN 1 ELSE 0)
    BY <2>1, <1>2 DEF Brought
  <2> QED BY <2>2, <2>3, <1>1
<1>13. Arrays'
  BY <1>1, <1>3, <1>4 DEF Arrays
<1> QED BY <1>1, <1>4, <1>8, <1>9, <1>10, <1>11, <1>12, <1>13 DEF TimedInv

\* The source call of a period begins.
LEMMA TimedCallSource ==
  ASSUME Layered, setup.on_time, NEW r, NEW c, NEW k, TimedInv(r, c, k), CallSource
  PROVE  TimedInv(r, c, k)'
<1>1. /\ r \in [program.threads -> Nat] /\ Arrays /\ Linked /\ k \in Nat
      /\ \A x \in program.threads : TimedNode(r, k, x) /\ TimedLink(r, k, x) /\ OutInv(r, k, x)
      /\ TimedWave(r, k) /\ SourceInv(r, c) /\ c = Brought(k) /\ SinkInv(k)
  BY DEF TimedInv, Layered, SinkInv
<1>2. /\ UNCHANGED <<design, threadVars>>
      /\ data' = data /\ reading' = reading /\ due' = due /\ done = -1 /\ done' = 0
      /\ "source" \in calls /\ calls' = calls \ {"source"}
  BY DEF CallSource, sinkVars, Coupled
<1>3. UNCHANGED <<design, pc, dest, sent, from, received, read_count, edge>>
  BY <1>2 DEF threadVars
<1>4. /\ Arrays'
      /\ \A x \in program.threads : TimedNode(r, k, x)' /\ TimedLink(r, k, x)' /\ OutInv(r, k, x)'
  BY <1>1, <1>2, <1>3, TimedStill
<1>5. program' = program /\ delay' = delay
  BY <1>2, SameDesign
<1>6. SourceInv(r, c)'
  BY <1>1, SourceCalled
<1>7. /\ "source" \notin calls' /\ ("sink" \in calls' <=> "sink" \in calls) /\ done' >= 0
  BY <1>2
<1>8. TimedWave(r, k)'
  <2>1. pc' = pc
    BY <1>3
  <2> QED BY <2>1, <1>1, <1>2, <1>5, <1>7 DEF TimedWave
<1>9. SinkInv(k)' /\ c = Brought(k)'
  BY <1>1, <1>2, <1>5, <1>7 DEF SinkInv, Brought
<1> QED BY <1>1, <1>4, <1>5, <1>6, <1>8, <1>9 DEF TimedInv

\* With its last FIFO a source call has brought the frame of the period.
LEMMA TimedSource ==
  ASSUME Layered, NEW r, NEW c, NEW k, TimedInv(r, c, k), Source
  PROVE  \E n : TimedInv(r, n, k)'
<1>1. /\ r \in [program.threads -> Nat] /\ Arrays /\ Linked /\ k \in Nat
      /\ \A x \in program.threads : TimedNode(r, k, x) /\ TimedLink(r, k, x) /\ OutInv(r, k, x)
      /\ TimedWave(r, k) /\ SourceInv(r, c) /\ c = Brought(k) /\ SinkInv(k)
  BY DEF TimedInv, Layered, SinkInv
<1>2. /\ UNCHANGED <<design, threadVars>>
      /\ data' = data /\ reading' = reading /\ due' = due /\ calls' = calls
      /\ done >= 0
      /\ done' = IF done + 1 < Len(program.inputs) THEN done + 1 ELSE -1
  BY DEF Source, sinkVars
<1>3. UNCHANGED <<design, pc, dest, sent, from, received, read_count, edge>>
  BY <1>2 DEF threadVars
<1>4. /\ Arrays'
      /\ \A x \in program.threads : TimedNode(r, k, x)' /\ TimedLink(r, k, x)' /\ OutInv(r, k, x)'
  BY <1>1, <1>2, <1>3, TimedStill
<1>5. program' = program /\ delay' = delay
  BY <1>2, SameDesign
<1>6. PICK n : /\ n = IF done + 1 < Len(program.inputs) THEN c ELSE c + 1
               /\ SourceInv(r, n)'
  BY <1>1, FifoFilled
<1>7. "source" \notin calls /\ done \in Int
  <2>1. done \in Int
    BY <1>1, InputIsSource DEF SourceInv
  <2>2. done # -1
    BY <1>2, <2>1
  <2> QED BY <2>1, <2>2, <1>1 DEF TimedWave
<1>8. TimedWave(r, k)'
  <2>1. pc' = pc
    BY <1>3
  <2> QED BY <2>1, <1>1, <1>2, <1>5, <1>7 DEF TimedWave
<1>9. n = Brought(k)'
  <2>1. c = k + (IF "sink" \in calls THEN 1 ELSE 0) - 1
    BY <1>1, <1>2 DEF Brought
  <2>2. Brought(k)' = k + (IF "sink" \in calls THEN 1 ELSE 0) - (IF done' >= 0 THEN 1 ELSE 0)
    BY <1>2, <1>7 DEF Brought
  <2>3. CASE done + 1 < Len(program.inputs)
    <3>1. done' >= 0
      BY <2>3, <1>2, <1>7
    <3> QED BY <2>1, <2>2, <2>3, <3>1, <1>6
  <2>4. CASE ~(done + 1 < Len(program.inputs))
    <3>1. ~(done' >= 0) /\ n = c + 1
      BY <2>4, <1>2, <1>6
    <3> QED BY <2>1, <2>2, <3>1, <1>1
  <2> QED BY <2>3, <2>4
<1>10. SinkInv(k)'
  BY <1>1, <1>2, <1>5 DEF SinkInv
<1>11. TimedInv(r, n, k)'
  BY <1>1, <1>4, <1>5, <1>6, <1>8, <1>9, <1>10 DEF TimedInv
<1> QED BY <1>11

\* The next period begins when all threads have made their frame.
LEMMA TimedNextPeriod ==
  ASSUME Layered, setup.on_time, NoCircularWait(program),
         NEW r, NEW c, NEW k, TimedInv(r, c, k), NextPeriod
  PROVE  TimedInv(r, c, k)'
<1>1. /\ r \in [program.threads -> Nat] /\ Arrays /\ Linked /\ k \in Nat
      /\ \A x \in program.threads : TimedNode(r, k, x) /\ TimedLink(r, k, x) /\ OutInv(r, k, x)
      /\ TimedWave(r, k) /\ SourceInv(r, c) /\ c = Brought(k) /\ SinkInv(k)
  BY DEF TimedInv, Layered, SinkInv
<1>2. /\ UNCHANGED <<design, threadVars>> /\ UNCHANGED <<fifo, frame, done>>
      /\ data' = data /\ reading' = reading /\ due' = due /\ done' = done
      /\ calls = {} /\ done = -1 /\ ~reading /\ Quiet /\ calls' = {"sink", "source"}
  BY DEF NextPeriod, sinkVars, sourceVars
<1>3. UNCHANGED <<design, pc, dest, sent, from, received, read_count, edge>> /\ UNCHANGED design
  BY <1>2 DEF threadVars
<1>4. /\ Arrays' /\ \A x : Got(r, x)' = Got(r, x)
      /\ \A x \in program.threads : TimedNode(r, k, x)' /\ TimedLink(r, k, x)' /\ OutInv(r, k, x)'
  BY <1>1, <1>2, <1>3, TimedStill
<1>5. program' = program /\ delay' = delay
  BY <1>2, SameDesign
<1>6. \A x \in program.threads : r[x] = k
  BY <1>2, AtRest
<1>7. SourceInv(r, c)'
  BY <1>1, <1>2, <1>3, <1>4, FifosSame
<1>8. TimedWave(r, k)'
  BY <1>2, <1>5, <1>6 DEF TimedWave
<1>9. SinkInv(k)' /\ c = Brought(k)'
  <2>1. SinkInv(k)'
    BY <1>1, <1>2, <1>5 DEF SinkInv
  <2>2. k \in Nat /\ k + 0 - 0 = k /\ k + 1 - 1 = k
    BY <1>1
  <2>3. c = k + 0 - 0
    BY <1>1, <1>2 DEF Brought
  <2>4. Brought(k)' = k + 1 - 1
    BY <1>2 DEF Brought
  <2>5. c = Brought(k)'
    BY <2>2, <2>3, <2>4
  <2> QED BY <2>1, <2>5
<1> QED BY <1>1, <1>4, <1>5, <1>7, <1>8, <1>9 DEF TimedInv

\* What the sink receives is of the frame that went in as many calls earlier as
\* the outputs cross threads.
LEMMA TimedSink ==
  ASSUME Layered, NEW r, NEW c, NEW k, TimedInv(r, c, k),
         NEW t \in program.threads, Sink(t)
  PROVE  TimedInv(r, c, k)'
<1>1. /\ Linked /\ Arrays /\ r \in [program.threads -> Nat] /\ k \in Nat /\ delay \in Nat
      /\ \A x \in program.threads : TimedNode(r, k, x) /\ TimedLink(r, k, x) /\ OutInv(r, k, x)
      /\ \A x \in program.threads : PlaceInv(x) /\ r[x] \in {k - 1, k}
      /\ TimedWave(r, k) /\ SourceInv(r, c) /\ c = Brought(k) /\ SinkInv(k)
  BY DEF TimedInv, SinkInv, TimedNode, Layered, Linked
<1>2. /\ UNCHANGED design /\ UNCHANGED <<fifo, frame, done>>
      /\ from' = from /\ received' = received /\ edge' = edge /\ done' = done /\ calls' = calls
      /\ read_count' = Reloaded(t) /\ SinkReady(t) /\ reading
  BY DEF Sink, sourceVars, SinkReady
<1>3. /\ pc[t] = "out" /\ program.dests[t][dest[t]] = PipelineOut /\ dest[t] \in 1 .. Len(program.dests[t])
      /\ r[t] = k - 1 /\ Outgoing(t) \in Own(program, t)
      /\ Outgoing(t) = program.link[t][PipelineOut][sent[t] + 1]
      /\ sent[t] + 1 \in 1 .. LinkLen(t, PipelineOut)
  BY <1>1, <1>2, SinkReaches
<1>4. /\ program' = program /\ setup' = setup /\ delay' = delay
      /\ \A x, b : LinkLen(x, b)' = LinkLen(x, b)
  BY <1>2, SameDesign
<1>5. r[t] + 1 = k /\ r[t] \in Nat /\ r[t] # k
  BY <1>1, <1>3
<1>6. edge[t][Outgoing(t)] = Fr(k - delay)
  <2>1. edge[t][Outgoing(t)] = Fr(r[t] + 1 - H(Outgoing(t)))
    BY <1>1, <1>3 DEF TimedNode
  <2>2. H(Outgoing(t)) = delay
    <3>1. PICK j \in 1 .. Len(program.dests[t]) : j = dest[t]
      BY <1>3
    <3>2. \A i \in 1 .. LinkLen(t, PipelineOut) : H(program.link[t][PipelineOut][i]) = delay
      BY <3>1, <1>3, Layers
    <3> QED BY <3>2, <1>3
  <2>3. r[t] + 1 - delay = k - delay
    BY <1>1, <1>5
  <2> QED BY <2>1, <2>2, <2>3
<1>7. PICK last \in BOOLEAN : last = (sent[t] + 1 = LinkLen(t, PipelineOut))
  OBVIOUS
<1>8. /\ DOMAIN pc' = program.threads /\ DOMAIN dest' = program.threads
      /\ DOMAIN sent' = program.threads
      /\ \A y \in program.threads \ {t} :
            /\ pc'[y] = pc[y] /\ dest'[y] = dest[y] /\ sent'[y] = sent[y]
            /\ \A j \in Nat : Put(r, y, j)' = Put(r, y, j)
            /\ \A x : Sending(y, x)' <=> Sending(y, x)
      /\ pc'[t] \in {"out", "select"}
      /\ dest'[t] \in 1 .. Len(program.dests[t])
      /\ sent'[t] \in 0 .. LinkLen(t, program.dests[t][dest'[t]]) - 1
      /\ pc'[t] = "select" => dest'[t] = 1 /\ sent'[t] = 0
      /\ pc'[t] = "select" <=> (last /\ dest[t] = Len(program.dests[t]))
      /\ last => sent'[t] = 0
      /\ ~last => pc'[t] = "out" /\ dest'[t] = dest[t] /\ sent'[t] = sent[t] + 1
      /\ \A j \in 1 .. Len(program.dests[t]) :
            Put(r, t, j)' = IF j = dest[t] /\ last THEN Put(r, t, j) + 1 ELSE Put(r, t, j)
      /\ \A x \in program.threads : OutInv(r, k, x)' /\ Got(r, x)' = Got(r, x)
      /\ SinkInv(k)'
  BY <1>1, <1>6, <1>7, SinkTakes
<1>9. /\ DOMAIN read_count' = program.threads
      /\ read_count'[t] = IF pc'[t] = "select" THEN Cardinality(program.sources[t]) ELSE 0
      /\ \A y \in program.threads \ {t} : read_count'[y] = read_count[y]
  <2>1. read_count[t] = 0
    BY <1>1, <1>3 DEF TimedNode
  <2>2. /\ DOMAIN Reloaded(t) = program.threads
        /\ \A y \in program.threads \ {t} : Reloaded(t)[y] = read_count[y]
        /\ Reloaded(t)[t] =
             IF last /\ dest[t] = Len(program.dests[t]) THEN Cardinality(program.sources[t]) ELSE 0
    BY <2>1, <1>1, <1>3, <1>7, ReloadedAll
  <2> QED BY <2>2, <1>2, <1>8
<1>10. Sends(r, t, last)
  BY <1>3, <1>8 DEF Sends
<1>11. ASSUME NEW x \in program.threads, NEW a \in program.sources[x] \ {PipelineIn}
       PROVE  /\ \A j \in 1 .. Len(program.dests[a]) :
                   program.dests[a][j] = x => Put(r, a, j)' = Put(r, a, j)
              /\ Busy(a, x)' <=> Busy(a, x)
              /\ Busy(a, x) => sent'[a] = sent[a]
  <2>1. x # program.dests[t][dest[t]]
    <3>1. x \in Nat
      BY <1>1, Outgoings
    <3> QED BY <3>1, <1>3 DEF PipelineOut
  <2>2. Spared(t, x, a)
    BY <1>11, <2>1 DEF Spared
  <2> QED BY <1>2, <1>10, <2>2, OthersSent
<1>12. ASSUME NEW x \in program.threads
       PROVE  TimedNode(r, k, x)' /\ TimedLink(r, k, x)'
  <2>1. TimedNode(r, k, x) /\ TimedLink(r, k, x)
    BY <1>1
  <2>2. CASE x = t
    <3>1. /\ pc'[t] \in {"out", "select"} /\ dest'[t] \in 1 .. Len(program.dests[t])
          /\ sent'[t] \in 0 .. LinkLen(t, program.dests[t][dest'[t]]) - 1
          /\ pc'[t] = "select" => dest'[t] = 1 /\ sent'[t] = 0
          /\ read_count'[t] = IF pc'[t] = "select" THEN Cardinality(program.sources[t]) ELSE 0
          /\ edge'[t] = edge[t]
      BY <1>2, <1>8, <1>9
    <3>2. UNCHANGED design /\ k \in Nat /\ r \in [program.threads -> Nat] /\ r[t] + 1 = k /\ pc[t] = "out"
          /\ TimedNode(r, k, t) /\ TimedLink(r, k, t)
      BY <1>1, <1>2, <1>3, <1>5
    <3>3. \A a \in program.sources[t] \ {PipelineIn} :
            /\ \A j \in 1 .. Len(program.dests[a]) :
                 program.dests[a][j] = t => Put(r, a, j)' = Put(r, a, j)
            /\ Busy(a, t)' <=> Busy(a, t)
      BY <1>11
    <3>4. TimedNode(r, k, t)' /\ TimedLink(r, k, t)'
      BY <3>1, <3>2, <3>3, HasSent
    <3> QED BY <2>2, <3>4
  <2>3. CASE x # t
    <3>1. /\ pc'[x] = pc[x] /\ dest'[x] = dest[x] /\ sent'[x] = sent[x] /\ from'[x] = from[x]
          /\ received'[x] = received[x] /\ edge'[x] = edge[x] /\ read_count'[x] = read_count[x]
      BY <2>3, <1>2, <1>8, <1>9
    <3> QED BY <2>1, <3>1, <1>2, <1>11, StandsBy
  <2> QED BY <2>2, <2>3
<1>13. TimedWave(r, k)'
  <2>1. \A x \in program.threads : r[x] # k
    BY <1>1, <1>3, <1>5 DEF TimedWave
  <2>2. "sink" \notin calls
    BY <1>1, <1>2 DEF TimedWave
  <2> QED BY <2>1, <2>2, <1>1, <1>2, <1>4 DEF TimedWave
<1>14. SourceInv(r, c)'
  BY <1>1, <1>2, <1>8, FifosSame
<1>15. Arrays' /\ c = Brought(k)'
  BY <1>1, <1>2, <1>4, <1>8, <1>9 DEF Arrays, Brought
<1> QED BY <1>1, <1>4, <1>8, <1>12, <1>13, <1>14, <1>15 DEF TimedInv

-----------------------------------------------------------------------------
(* The theorems on time *)

TimedIInv ==
  /\ ProgramInv
  /\ InTime(setup) => \E r, c, k : TimedInv(r, c, k)

\* The invariant holds when the threads start.
LEMMA TimedInit == Init => TimedIInv
<1> SUFFICES ASSUME Init PROVE TimedIInv
  OBVIOUS
<1>1. ProgramInv
  BY DEF Init, ProgramInv
<1>2. ASSUME InTime(setup)
      PROVE  \E r, c, k : TimedInv(r, c, k)
  <2>1. Layered /\ Linked
    BY <1>1, <1>2, ProgramLayered DEF Layered
  <2>2. PICK r : r = [t \in program.threads |-> 0]
    OBVIOUS
  <2>3. /\ Arrays /\ r \in [program.threads -> Nat]
        /\ \A t \in program.threads :
             /\ PlaceInv(t) /\ OutInv(r, 0, t) /\ r[t] = 0
             /\ pc[t] = "out" /\ dest[t] = 1 /\ sent[t] = 0 /\ read_count[t] = 0
             /\ edge[t] = [e \in program.edges[t] |-> 0]
        /\ SourceInv(r, 0) /\ SinkInv(0)
    BY <2>1, <2>2, InitPlaces
  <2>4. ASSUME NEW t \in program.threads
        PROVE  TimedNode(r, 0, t) /\ TimedLink(r, 0, t)
    <3>0. /\ PlaceInv(t) /\ r[t] = 0 /\ pc[t] = "out" /\ dest[t] = 1 /\ sent[t] = 0
          /\ read_count[t] = 0 /\ edge[t] = [e \in program.edges[t] |-> 0]
      BY <2>3
    <3>1. \A e \in Own(program, t) : e \in program.edges[t] /\ Fr(r[t] + 1 - H(e)) = 0
      <4> TAKE e \in Own(program, t)
      <4>1. e \in program.edges[t] /\ H(e) \in Nat /\ H(e) # 0
        BY <2>1, Layers
      <4>2. r[t] + 1 - H(e) \in Int /\ r[t] + 1 - H(e) <= 0
        BY <3>0, <4>1
      <4> QED BY <4>1, <4>2, FrNext
    <3>2. 0 \in Frames
      BY NumFramesAssumption DEF Frames
    <3>3. TimedNode(r, 0, t)
      <4>1. \A e \in Own(program, t) : edge[t][e] = Fr(r[t] + 1 - H(e))
        BY <3>0, <3>1
      <4>2. edge[t] \in [program.edges[t] -> Frames]
        BY <3>0, <3>2
      <4> QED BY <3>0, <4>1, <4>2 DEF TimedNode
    <3>4. \A a \in program.sources[t] \ {PipelineIn} : ~Busy(a, t)
      <4> TAKE a \in program.sources[t] \ {PipelineIn}
      <4>1. a \in program.threads
        BY <2>1, Feeds
      <4>2. sent[a] = 0
        BY <2>3, <4>1
      <4> QED BY <4>2 DEF Busy
    <3>5. TimedLink(r, 0, t)
      BY <3>0, <3>4 DEF TimedLink
    <3> QED BY <3>3, <3>5
  <2>5. TimedWave(r, 0) /\ 0 = Brought(0)
    <3>1. calls = {"sink", "source"} /\ reading = FALSE /\ done = -1
      BY DEF Init
    <3>2. TimedWave(r, 0)
      BY <2>3, <3>1 DEF TimedWave
    <3>3. Brought(0) = 0 + 1 - 1
      BY <3>1 DEF Brought
    <3> QED BY <3>2, <3>3
  <2>6. TimedInv(r, 0, 0)
    BY <2>3, <2>4, <2>5 DEF TimedInv
  <2> QED BY <2>6
<1> QED BY <1>1, <1>2 DEF TimedIInv

\* Every step keeps the invariant.
LEMMA TimedNext == TimedIInv /\ [Next]_vars => TimedIInv'
<1> SUFFICES ASSUME TimedIInv, [Next]_vars PROVE TimedIInv'
  OBVIOUS
<1>1. UNCHANGED design
  BY DEF Next, vars, Transfer, TakeInput, DoControl, Process, CallSink, Sink, CallSource, Source,
         NextPeriod, Command
<1>2. ProgramInv' /\ setup' = setup
  BY <1>1, SameDesign DEF TimedIInv
<1>3. ASSUME InTime(setup)
      PROVE  (\E r, c, k : TimedInv(r, c, k))'
  <2>1. PICK r, c, k : TimedInv(r, c, k)
    BY <1>3 DEF TimedIInv
  <2>2. Layered /\ setup.quick_reads /\ NoCircularWait(program) /\ setup.on_time
    BY <1>3, ProgramLayered DEF TimedIInv, InTime
  <2>3. ASSUME NEW t \in program.threads, NEW u \in program.threads, Transfer(t, u)
        PROVE  TimedInv(r, c, k)'
    BY <2>1, <2>2, <2>3, TimedTransfer
  <2>4. ASSUME NEW t \in program.threads, TakeInput(t)
        PROVE  TimedInv(r, c, k)'
    BY <2>1, <2>2, <2>4, TimedTakeInput
  <2>5. ASSUME NEW t \in program.threads, DoControl(t)
        PROVE  TimedInv(r, c, k)'
    BY <2>1, <2>2, <2>5, TimedQuiet DEF DoControl
  <2>6. ASSUME NEW t \in program.threads, Process(t)
        PROVE  \E s : TimedInv(s, c, k)'
    BY <2>1, <2>2, <2>6, TimedProcess
  <2>7. ASSUME CallSink
        PROVE  TimedInv(r, c, k + 1)'
    BY <2>1, <2>2, <2>7, TimedCallSink
  <2>8. ASSUME NEW t \in program.threads, Sink(t)
        PROVE  TimedInv(r, c, k)'
    BY <2>1, <2>2, <2>8, TimedSink
  <2>9. ASSUME CallSource
        PROVE  TimedInv(r, c, k)'
    BY <2>1, <2>2, <2>9, TimedCallSource
  <2>10. ASSUME Source
         PROVE  \E n : TimedInv(r, n, k)'
    BY <2>1, <2>2, <2>10, TimedSource
  <2>11. ASSUME NextPeriod
         PROVE  TimedInv(r, c, k)'
    BY <2>1, <2>2, <2>11, TimedNextPeriod
  <2>12. ASSUME NEW t \in setup.commanded, Command(t)
         PROVE  TimedInv(r, c, k)'
    BY <2>1, <2>2, <2>12, TimedQuiet DEF Command
  <2>13. CASE UNCHANGED vars
    BY <2>1, <2>2, <2>13, TimedQuiet DEF vars, threadVars
  <2> HIDE DEF TimedInv
  <2> QED BY <2>3, <2>4, <2>5, <2>6, <2>7, <2>8, <2>9, <2>10, <2>11, <2>12, <2>13 DEF Next
<1>4. InTime(setup)' => InTime(setup)
  BY <1>2 DEF InTime
<1> QED BY <1>2, <1>3, <1>4 DEF TimedIInv

\* On time, whatever the threads receive from each other and in whatever order, no
\* stage ever processes inputs of two frames: the guarantee that reads are quicker
\* than processing and that hand-overs can be ordered is enough.
THEOREM AlignmentOnTime == Spec => [](InTime(setup) => StageInputsAligned)
<1>1. TimedIInv => (InTime(setup) => StageInputsAligned)
  <2> SUFFICES ASSUME TimedIInv, InTime(setup) PROVE StageInputsAligned
    OBVIOUS
  <2>1. PICK r, c, k : TimedInv(r, c, k)
    BY DEF TimedIInv
  <2>2. \A t \in program.threads : edge[t] \in [program.edges[t] -> Frames]
    BY <2>1 DEF TimedInv, TimedNode
  <2> QED BY <2>2, NumFramesAssumption DEF StageInputsAligned, Frames, Mixed
<1> QED BY <1>1, TimedInit, TimedNext, PTL DEF Spec

\* On time every sink call delivers, on every channel, the frame that went in as
\* many calls earlier as the outputs cross threads, and zeros before that.
THEOREM DeliveryOnTime == Spec => [](InTime(setup) => LatencyIsCrossings)
<1>1. TimedIInv => (InTime(setup) => LatencyIsCrossings)
  <2> SUFFICES ASSUME TimedIInv, InTime(setup) PROVE LatencyIsCrossings
    OBVIOUS
  <2>1. PICK r, c, k : TimedInv(r, c, k)
    BY DEF TimedIInv
  <2>2. delay \in Nat
    BY ProgramLayered DEF TimedIInv, Layered, Linked
  <2> QED BY <2>1, <2>2, SinkDelivers DEF TimedInv
<1> QED BY <1>1, TimedInit, TimedNext, PTL DEF Spec

\* On time the pipeline never comes to rest in the middle of a sink call, and a
\* source call never waits for an input FIFO: the hand-overs of a frame never
\* block one another in a circle.
THEOREM CallsNeverStuck ==
  Spec => [](InTime(setup) => /\ Quiet => ~reading
                              /\ done = 0 => \A t \in DOMAIN fifo : fifo[t] = Empty)
<1> DEFINE NotStuck == /\ Quiet => ~reading
                       /\ done = 0 => \A t \in DOMAIN fifo : fifo[t] = Empty
<1>1. TimedIInv => (InTime(setup) => NotStuck)
  <2> SUFFICES ASSUME TimedIInv, InTime(setup) PROVE NotStuck
    OBVIOUS
  <2>1. PICK r, c, k : TimedInv(r, c, k)
    BY DEF TimedIInv
  <2>2. Layered /\ Linked /\ NoCircularWait(program)
    BY ProgramLayered DEF TimedIInv, Layered
  <2>3. Quiet => ~reading
    BY <2>1, <2>2, AtRest
  <2>4. ASSUME done = 0, NEW t \in DOMAIN fifo, fifo[t] # Empty
        PROVE  FALSE
    <3>1. /\ SourceInv(r, c) /\ c = Brought(k) /\ k \in Nat /\ TimedWave(r, k)
          /\ r \in [program.threads -> Nat]
          /\ \A x \in program.threads : TimedNode(r, k, x)
      BY <2>1 DEF TimedInv, SinkInv
    <3>2. PICK i \in 1 .. Len(program.inputs) : program.inputs[i] = t
      <4>1. t \in ToSet(program.inputs) /\ program.inputs \in Seq(program.threads)
        BY <2>2, <3>1 DEF SourceInv, Linked, EndsAgree
      <4> QED BY <4>1 DEF ToSet
    <3>3. t \in program.threads /\ Len(program.inputs) \in Nat
      BY <2>2, <3>2, InputIsSource
    <3>4. TimedNode(r, k, t) /\ r[t] \in Nat /\ (r[t] = k \/ r[t] = k - 1)
      BY <3>1, <3>3 DEF TimedNode
    <3>5. FifoInv(r, c, i)
      BY <3>1 DEF SourceInv
    <3>6. Got(r, t) + 1 = c + 0
      <4>1. ~(i <= 0)
        BY <3>3
      <4> QED BY <2>4, <3>2, <3>5, <4>1 DEF FifoInv
    <3>7. Got(r, t) \in Nat /\ Got(r, t) >= r[t]
      BY <3>4 DEF Got
    <3>8. c = k + (IF "sink" \in calls THEN 1 ELSE 0) - 1
      BY <2>4, <3>1 DEF Brought
    <3>9. "sink" \in calls => r[t] = k
      BY <3>1, <3>3 DEF TimedWave
    <3>10. CASE "sink" \in calls
      <4>1. c = k
        BY <3>1, <3>8, <3>10
      <4> QED BY <3>1, <3>6, <3>7, <3>9, <3>10, <4>1
    <3>11. CASE "sink" \notin calls
      <4>1. c = k - 1
        BY <3>1, <3>8, <3>11
      <4> QED BY <3>1, <3>4, <3>6, <3>7, <4>1
    <3> QED BY <3>10, <3>11
  <2> QED BY <2>3, <2>4
<1> QED BY <1>1, TimedInit, TimedNext, PTL DEF Spec
=============================================================================
