------------------------- MODULE JsonPipelineProofs -------------------------
(***************************************************************************)
(* Loading a pipeline keeps its edges, for graphs of any size: every       *)
(* consumer keeps its source, every edge has one consumer, and a graph is  *)
(* refused exactly when it cannot be built.                                *)
(*                                                                         *)
(* insert_forks looks for a consumer at the position it has in the file    *)
(* plus the forks so far.  That finds it because keys come in the order of *)
(* their first consumer, which is where the fork goes (NextIsFirst): no    *)
(* fork has been put behind a consumer that is still to be looked at       *)
(* (PlaceInv).  So each consumer has its own edge until its turn comes,    *)
(* and then an output of the one fork of that edge which no other consumer *)
(* has (CarriesInv, ForkOutputs).                                          *)
(*                                                                         *)
(* make_pipeline: what is in edge_map comes from created stages, none of   *)
(* which belongs to a group that waits for itself (MadeInv); when the      *)
(* timer passes waiting_count the whole queue has been postponed since a   *)
(* stage was created (TimerInv), so what waits then waits for itself.      *)
(***************************************************************************)
EXTENDS JsonPipeline, FiniteSetTheorems, SequenceTheorems, TLAPS

Edges == {"node", "input", "fork"} \X Nat \X Nat
NodeRecords == [name : {"node", "fork"} \X Nat, thread : Nat, input : Seq(Edges), outs : Nat]

IsFork(p) == nodes[p].name[1] = "fork"
Keys == {InFile(c) : c \in FileConsumers}

\* Every node of the file is in the list, and every fork, once.
ListInv ==
  /\ graph \in Graphs /\ keys \subseteq Keys
  /\ nodes \in Seq(NodeRecords) /\ forks \in Nat /\ Len(nodes) = Len(graph.nodes) + forks
  /\ \A p \in DOMAIN nodes : \/ \E i \in DOMAIN graph.nodes : nodes[p].name = <<"node", i>>
                             \/ \E k \in 0 .. forks - 1 : nodes[p].name = <<"fork", k>>
  /\ \A p, q \in DOMAIN nodes : nodes[p].name = nodes[q].name => p = q
  /\ \A i \in DOMAIN graph.nodes : \E p \in DOMAIN nodes : nodes[p].name = <<"node", i>>
  /\ \A k \in 0 .. forks - 1 : \E p \in DOMAIN nodes : nodes[p].name = <<"fork", k>>

\* All forks were inserted before the consumers that are still to be looked at.
PlaceInv ==
  \A c \in FileConsumers : c[1] = "node" /\ InFile(c) \in keys =>
    \A i \in c[2] .. Len(graph.nodes) : nodes[i + forks].name = <<"node", i>>

\* A fork splits one shared edge, and no other does.
ForkInv ==
  /\ \A p \in DOMAIN nodes : IsFork(p) =>
       /\ DOMAIN nodes[p].input = {1} /\ nodes[p].input[1] \in Keys \ keys
       /\ Shared(nodes[p].input[1]) /\ nodes[p].outs = Cardinality(Consumers(nodes[p].input[1]))
  /\ \A p, q \in DOMAIN nodes : IsFork(p) /\ IsFork(q) /\ nodes[p].input[1] = nodes[q].input[1] => p = q

\* The edge that a consumer ought to have by now: its own, or one of a fork.
Serves(c, e) ==
  IF InFile(c) \in keys \/ ~Shared(InFile(c)) THEN e = InFile(c)
  ELSE \E p \in DOMAIN nodes :
         /\ IsFork(p) /\ nodes[p].input[1] = InFile(c)
         /\ e = <<"fork", nodes[p].name[2], ForkOutput(InFile(c), c)>>

CarriesInv ==
  /\ \A p \in DOMAIN nodes, i \in DOMAIN graph.nodes : nodes[p].name = <<"node", i>> =>
       /\ DOMAIN nodes[p].input = DOMAIN graph.nodes[i].input /\ nodes[p].outs = graph.nodes[i].outs
       /\ \A j \in DOMAIN nodes[p].input : Serves(<<"node", i, j>>, nodes[p].input[j])
  /\ DOMAIN outputs = DOMAIN graph.outputs
  /\ \A i \in DOMAIN outputs :
       /\ DOMAIN outputs[i] = DOMAIN graph.outputs[i]
       /\ \A j \in DOMAIN outputs[i] : Serves(<<"graph_output", i, j>>, outputs[i][j])

Created == DOMAIN nodes \ ToSet(waiting)

\* The queue has every node at most once, and the timer stays below what refuses.
QueueInv ==
  /\ waiting \in Seq(DOMAIN nodes)
  /\ \A j, k \in DOMAIN waiting : waiting[j] = waiting[k] => j = k
  /\ count \in 0 .. Len(nodes) /\ timer \in 0 .. count + 1
  /\ phase = "loading" => timer <= count

\* What has been made is what the created stages make, and was there for them.
MadeInv ==
  /\ keys = {}
  /\ edge_map = InputEdges \cup UNION {Outs(nodes[p].name, nodes[p].outs) : p \in Created}
  /\ \A p \in Created : Ready(p)
  /\ \A D \in SUBSET DOMAIN graph.nodes : StuckGroup(D) =>
       \A p \in DOMAIN nodes, i \in D : nodes[p].name = <<"node", i>> => p \notin Created

\* Those at the end of the queue have been postponed since anything was made.
TimerInv ==
  /\ Len(waiting) <= count
  /\ Len(waiting) = count => \A k \in DOMAIN waiting : k > Len(waiting) - timer => ~Ready(waiting[k])

LoadInv ==
  /\ phase \in {"loading", "loaded", "refused"} => MadeInv /\ TimerInv
  /\ phase = "loaded" => waiting = <<>> /\ \A i \in DOMAIN outputs : ToSet(outputs[i]) \subseteq edge_map
  /\ phase = "refused" => waiting # <<>> /\ \A k \in DOMAIN waiting : ~Ready(waiting[k])

ForkPartInv == ListInv /\ PlaceInv /\ ForkInv /\ CarriesInv
Phases == {"forking", "loading", "loaded", "refused", "crashed"}
IInv == ForkPartInv /\ phase \in Phases /\ QueueInv /\ LoadInv

-------------------------------------------------------------------------------
(* Consumers and their order.                                                  *)

FileTyped ==
  /\ graph.channels \in Nat /\ graph.outputs \in Seq(Seq(FileEdges))
  /\ graph.nodes \in Seq([thread : Nat, input : Seq(FileEdges), outs : Nat])

LEMMA FileIsTyped == graph \in Graphs => FileTyped
BY JsonAssumption DEF FileTyped

LEMMA FileParts ==
  ASSUME FileTyped
  PROVE  /\ Len(graph.nodes) \in Nat /\ DOMAIN graph.nodes = 1 .. Len(graph.nodes)
         /\ Len(graph.outputs) \in Nat /\ DOMAIN graph.outputs = 1 .. Len(graph.outputs)
         /\ \A i \in DOMAIN graph.nodes :
              LET n == graph.nodes[i]
              IN  /\ n.outs \in Nat /\ n.thread \in Nat /\ n.input \in Seq(FileEdges)
                  /\ Len(n.input) \in Nat /\ DOMAIN n.input = 1 .. Len(n.input)
                  /\ \A j \in DOMAIN n.input : n.input[j] \in FileEdges
         /\ \A i \in DOMAIN graph.outputs :
              LET o == graph.outputs[i]
              IN  /\ o \in Seq(FileEdges) /\ Len(o) \in Nat /\ DOMAIN o = 1 .. Len(o)
                  /\ \A j \in DOMAIN o : o[j] \in FileEdges
<1>1. /\ Len(graph.nodes) \in Nat /\ DOMAIN graph.nodes = 1 .. Len(graph.nodes)
      /\ \A i \in DOMAIN graph.nodes : graph.nodes[i] \in [thread : Nat, input : Seq(FileEdges), outs : Nat]
  <2> DEFINE T == [thread : Nat, input : Seq(FileEdges), outs : Nat]
  <2>1. graph.nodes \in Seq(T)
    BY DEF FileTyped
  <2> HIDE DEF T
  <2>2. /\ Len(graph.nodes) \in Nat /\ DOMAIN graph.nodes = 1 .. Len(graph.nodes)
        /\ \A i \in DOMAIN graph.nodes : graph.nodes[i] \in T
    BY <2>1
  <2> QED BY <2>2 DEF T
<1>2. /\ Len(graph.outputs) \in Nat /\ DOMAIN graph.outputs = 1 .. Len(graph.outputs)
      /\ \A i \in DOMAIN graph.outputs : graph.outputs[i] \in Seq(FileEdges)
  BY DEF FileTyped
<1>3. \A s \in Seq(FileEdges) : /\ Len(s) \in Nat /\ DOMAIN s = 1 .. Len(s)
                              /\ \A j \in DOMAIN s : s[j] \in FileEdges
  <2> HIDE DEF FileEdges
  <2> QED OBVIOUS
<1> HIDE DEF FileEdges
<1> QED BY <1>1, <1>2, <1>3

LEMMA ConsumerShape ==
  ASSUME FileTyped, NEW c \in FileConsumers
  PROVE  /\ c = <<c[1], c[2], c[3]>> /\ c[2] \in Nat /\ c[3] \in Nat /\ InFile(c) \in FileEdges
         /\ \/ /\ c[1] = "node" /\ c[2] \in DOMAIN graph.nodes
               /\ c[3] \in DOMAIN graph.nodes[c[2]].input
            \/ /\ c[1] = "graph_output" /\ c[2] \in DOMAIN graph.outputs
               /\ c[3] \in DOMAIN graph.outputs[c[2]]
<1>1. CASE c \in NodeInputs(graph.nodes)
  <2>1. PICK i \in DOMAIN graph.nodes : \E j \in DOMAIN graph.nodes[i].input : c = <<"node", i, j>>
    BY <1>1 DEF NodeInputs
  <2>2. PICK j \in DOMAIN graph.nodes[i].input : c = <<"node", i, j>>
    BY <2>1
  <2>4. i \in Nat /\ j \in Nat /\ graph.nodes[i].input[j] \in FileEdges
    BY <2>1, <2>2, FileParts
  <2> QED BY <2>1, <2>2, <2>4 DEF InFile
<1>2. CASE c \in OutputEdges(graph.outputs)
  <2>1. PICK i \in DOMAIN graph.outputs : \E j \in DOMAIN graph.outputs[i] : c = <<"graph_output", i, j>>
    BY <1>2 DEF OutputEdges
  <2>2. PICK j \in DOMAIN graph.outputs[i] : c = <<"graph_output", i, j>>
    BY <2>1
  <2>4. i \in Nat /\ j \in Nat /\ graph.outputs[i][j] \in FileEdges
    BY <2>1, <2>2, FileParts
  <2> QED BY <2>1, <2>2, <2>4 DEF InFile
<1> QED BY <1>1, <1>2 DEF FileConsumers

\* A family of finite sets, one for each element of a sequence, has a finite union.
LEMMA FiniteFamily ==
  ASSUME NEW n \in Nat, NEW f, DOMAIN f = 1 .. n, \A i \in 1 .. n : IsFiniteSet(f[i])
  PROVE  IsFiniteSet(UNION {f[i] : i \in 1 .. n})
<1> DEFINE S == {f[i] : i \in 1 .. n}
           g == [i \in 1 .. n |-> f[i]]
<1>1. g \in Surjection(1 .. n, S)
  BY DEF Surjection
<1>2. IsFiniteSet(1 .. n)
  <2>1. 1 \in Int /\ n \in Int
    OBVIOUS
  <2> HIDE DEF S, g
  <2> QED BY <2>1, FS_Interval, Zenon
<1>3. IsFiniteSet(S)
  BY <1>1, <1>2, FS_Surjection
<1>4. \A T \in S : IsFiniteSet(T)
  OBVIOUS
<1> QED BY <1>3, <1>4, FS_UNION

\* The places of a sequence, under a tag that tells it apart.
LEMMA FinitePlaces ==
  ASSUME NEW n \in Nat, NEW kind, NEW i
  PROVE  IsFiniteSet({<<kind, i, j>> : j \in 1 .. n})
<1> DEFINE T == {<<kind, i, j>> : j \in 1 .. n}
           g == [j \in 1 .. n |-> <<kind, i, j>>]
<1>1. g \in Surjection(1 .. n, T)
  BY DEF Surjection
<1>2. IsFiniteSet(1 .. n)
  BY FS_Interval
<1> QED BY <1>1, <1>2, FS_Surjection

LEMMA FiniteConsumers == FileTyped => IsFiniteSet(FileConsumers)
<1> SUFFICES ASSUME FileTyped PROVE IsFiniteSet(FileConsumers)
  OBVIOUS
<1>1. IsFiniteSet(NodeInputs(graph.nodes))
  <2> DEFINE n == Len(graph.nodes)
             f == [i \in 1 .. n |-> {<<"node", i, j>> : j \in DOMAIN graph.nodes[i].input}]
  <2>1. n \in Nat /\ DOMAIN graph.nodes = 1 .. n
    BY FileParts
  <2>2. \A i \in 1 .. n : Len(graph.nodes[i].input) \in Nat
                          /\ DOMAIN graph.nodes[i].input = 1 .. Len(graph.nodes[i].input)
    BY <2>1, FileParts
  <2>3. \A i \in 1 .. n : f[i] = {<<"node", i, j>> : j \in 1 .. Len(graph.nodes[i].input)}
    BY <2>2
  <2>4. \A i \in 1 .. n : IsFiniteSet(f[i])
    <3> SUFFICES ASSUME NEW i \in 1 .. n PROVE IsFiniteSet(f[i])
      OBVIOUS
    <3> DEFINE m == Len(graph.nodes[i].input)
    <3>1. m \in Nat /\ f[i] = {<<"node", i, j>> : j \in 1 .. m}
      BY <2>2, <2>3
    <3> HIDE DEF m, f, n
    <3>2. IsFiniteSet({<<"node", i, j>> : j \in 1 .. m})
      BY <3>1, FinitePlaces, Zenon
    <3> QED BY <3>1, <3>2
  <2>5. NodeInputs(graph.nodes) = UNION {f[i] : i \in 1 .. n}
    BY <2>1 DEF NodeInputs
  <2> HIDE DEF n
  <2>6. DOMAIN f = 1 .. n
    OBVIOUS
  <2> HIDE DEF f
  <2> QED BY <2>1, <2>4, <2>5, <2>6, FiniteFamily
<1>2. IsFiniteSet(OutputEdges(graph.outputs))
  <2> DEFINE n == Len(graph.outputs)
             f == [i \in 1 .. n |-> {<<"graph_output", i, j>> : j \in DOMAIN graph.outputs[i]}]
  <2>1. n \in Nat /\ DOMAIN graph.outputs = 1 .. n
    BY FileParts
  <2>2. \A i \in 1 .. n : Len(graph.outputs[i]) \in Nat
                          /\ DOMAIN graph.outputs[i] = 1 .. Len(graph.outputs[i])
    BY <2>1, FileParts
  <2>3. \A i \in 1 .. n : f[i] = {<<"graph_output", i, j>> : j \in 1 .. Len(graph.outputs[i])}
    BY <2>2
  <2>4. \A i \in 1 .. n : IsFiniteSet(f[i])
    <3> SUFFICES ASSUME NEW i \in 1 .. n PROVE IsFiniteSet(f[i])
      OBVIOUS
    <3> DEFINE m == Len(graph.outputs[i])
    <3>1. m \in Nat /\ f[i] = {<<"graph_output", i, j>> : j \in 1 .. m}
      BY <2>2, <2>3
    <3> HIDE DEF m, f, n
    <3>2. IsFiniteSet({<<"graph_output", i, j>> : j \in 1 .. m})
      BY <3>1, FinitePlaces, Zenon
    <3> QED BY <3>1, <3>2
  <2>5. OutputEdges(graph.outputs) = UNION {f[i] : i \in 1 .. n}
    BY <2>1 DEF OutputEdges
  <2> HIDE DEF n
  <2>6. DOMAIN f = 1 .. n
    OBVIOUS
  <2> HIDE DEF f
  <2> QED BY <2>1, <2>4, <2>5, <2>6, FiniteFamily
<1> QED BY <1>1, <1>2, FS_Union DEF FileConsumers

\* The order of consumers is a strict total order.
LEMMA BeforeOrders ==
  ASSUME FileTyped
  PROVE  /\ \A c \in FileConsumers : ~Before(c, c)
         /\ \A c, d \in FileConsumers : c # d => Before(c, d) \/ Before(d, c)
         /\ \A c, d, e \in FileConsumers : Before(c, d) /\ Before(d, e) => Before(c, e)
<1>1. \A c \in FileConsumers : ~Before(c, c)
  BY ConsumerShape DEF Before
<1>2. ASSUME NEW c \in FileConsumers, NEW d \in FileConsumers, c # d PROVE Before(c, d) \/ Before(d, c)
  <2>1. c = <<c[1], c[2], c[3]>> /\ d = <<d[1], d[2], d[3]>>
        /\ {c[2], c[3], d[2], d[3]} \subseteq Nat /\ {c[1], d[1]} \subseteq {"node", "graph_output"}
    BY ConsumerShape
  <2>2. c[1] # d[1] \/ c[2] # d[2] \/ c[3] # d[3]
    BY <1>2, <2>1
  <2> QED BY <2>1, <2>2 DEF Before
<1>3. ASSUME NEW c \in FileConsumers, NEW d \in FileConsumers, NEW e \in FileConsumers,
             Before(c, d), Before(d, e)
      PROVE  Before(c, e)
  <2>1. {c[2], c[3], d[2], d[3], e[2], e[3]} \subseteq Nat
        /\ {c[1], d[1], e[1]} \subseteq {"node", "graph_output"}
    BY ConsumerShape
  <2> QED BY <1>3, <2>1 DEF Before
<1> QED BY <1>1, <1>2, <1>3

\* Every consumer of a key gets an output of the fork of its own.
LEMMA ForkOutputs ==
  ASSUME FileTyped, NEW key
  PROVE  /\ Cardinality(Consumers(key)) \in Nat
         /\ \A c \in Consumers(key) : ForkOutput(key, c) \in 0 .. Cardinality(Consumers(key)) - 1
         /\ \A c, d \in Consumers(key) : ForkOutput(key, c) = ForkOutput(key, d) => c = d
<1> DEFINE S == Consumers(key)
           lower(c) == {d \in S : Before(d, c)}
<1>1. IsFiniteSet(S) /\ S \subseteq FileConsumers
  <2>1. S \in SUBSET FileConsumers
    BY DEF Consumers
  <2> QED BY <2>1, FiniteConsumers, FS_Subset
<1>2. Cardinality(S) \in Nat
  BY <1>1, FS_CardinalityType
<1>3. \A c \in S : IsFiniteSet(lower(c)) /\ Cardinality(lower(c)) \in Nat
  <2> SUFFICES ASSUME NEW c \in S PROVE IsFiniteSet(lower(c)) /\ Cardinality(lower(c)) \in Nat
    OBVIOUS
  <2>1. lower(c) \in SUBSET S
    OBVIOUS
  <2> QED BY <1>1, <2>1, FS_Subset, FS_CardinalityType
<1>4. \A T, U : IsFiniteSet(U) /\ T \subseteq U /\ T # U => Cardinality(T) < Cardinality(U)
  <2> SUFFICES ASSUME NEW T, NEW U, IsFiniteSet(U), T \subseteq U, T # U
               PROVE  Cardinality(T) < Cardinality(U)
    OBVIOUS
  <2>1. T \in SUBSET U
    OBVIOUS
  <2>2. /\ IsFiniteSet(T) /\ Cardinality(T) <= Cardinality(U)
        /\ Cardinality(U) # Cardinality(T)
    BY <2>1, FS_Subset
  <2>3. Cardinality(T) \in Nat /\ Cardinality(U) \in Nat
    BY <2>2, FS_CardinalityType
  <2> QED BY <2>2, <2>3
<1>5. \A c \in S : Cardinality(lower(c)) < Cardinality(S)
  <2> SUFFICES ASSUME NEW c \in S PROVE Cardinality(lower(c)) < Cardinality(S)
    OBVIOUS
  <2>1. c \notin lower(c)
    BY <1>1, BeforeOrders
  <2>2. lower(c) \subseteq S /\ lower(c) # S
    BY <2>1
  <2> HIDE DEF S, lower
  <2> QED BY <1>1, <1>4, <2>2
<1>6. \A c, d \in S : Before(c, d) => Cardinality(lower(c)) < Cardinality(lower(d))
  <2> SUFFICES ASSUME NEW c \in S, NEW d \in S, Before(c, d)
               PROVE  Cardinality(lower(c)) < Cardinality(lower(d))
    OBVIOUS
  <2>1. lower(c) \subseteq lower(d)
    BY <1>1, BeforeOrders
  <2>2. c \in lower(d) /\ c \notin lower(c)
    BY <1>1, BeforeOrders
  <2>3. IsFiniteSet(lower(d))
    BY <1>3
  <2> HIDE DEF S, lower
  <2> QED BY <1>4, <2>1, <2>2, <2>3
<1>7. \A c, d \in S : Cardinality(lower(c)) = Cardinality(lower(d)) => c = d
  <2> SUFFICES ASSUME NEW c \in S, NEW d \in S, Cardinality(lower(c)) = Cardinality(lower(d)), c # d
               PROVE  FALSE
    OBVIOUS
  <2>1. Before(c, d) \/ Before(d, c)
    BY <1>1, BeforeOrders
  <2>2. Cardinality(lower(c)) \in Nat /\ Cardinality(lower(d)) \in Nat
    BY <1>3
  <2>3. Before(c, d) => Cardinality(lower(c)) < Cardinality(lower(d))
    BY <1>6
  <2>4. Before(d, c) => Cardinality(lower(d)) < Cardinality(lower(c))
    BY <1>6
  <2> HIDE DEF lower
  <2> QED BY <2>1, <2>2, <2>3, <2>4
<1> QED
  <2>1. \A c : ForkOutput(key, c) = Cardinality(lower(c))
    BY DEF ForkOutput
  <2> HIDE DEF lower
  <2> QED BY <1>2, <1>3, <1>5, <1>7, <2>1

LEMMA Unshared ==
  ASSUME FileTyped, NEW key, ~Shared(key), NEW c \in Consumers(key), NEW d \in Consumers(key)
  PROVE  c = d
<1>1. ForkOutput(key, c) = ForkOutput(key, d)
  BY ForkOutputs DEF Shared
<1> QED BY <1>1, ForkOutputs

-------------------------------------------------------------------------------
(* A fork is inserted.                                                         *)

LEMMA InsertAtShape ==
  ASSUME NEW S, NEW s \in Seq(S), NEW i \in 1 .. Len(s) + 1, NEW e \in S
  PROVE  /\ InsertAt(s, i, e) \in Seq(S) /\ Len(InsertAt(s, i, e)) = Len(s) + 1
         /\ \A k \in 1 .. i - 1 : InsertAt(s, i, e)[k] = s[k]
         /\ InsertAt(s, i, e)[i] = e
         /\ \A k \in i .. Len(s) : InsertAt(s, i, e)[k + 1] = s[k]
<1> DEFINE a == SubSeq(s, 1, i - 1)
           b == SubSeq(s, i, Len(s))
<1>1. Len(s) \in Nat /\ i \in Nat /\ i >= 1 /\ i <= Len(s) + 1 /\ \A k \in 1 .. Len(s) : s[k] \in S
  OBVIOUS
<1>2. a \in Seq(S) /\ Len(a) = i - 1 /\ \A k \in 1 .. i - 1 : a[k] = s[k]
  <2>1. 1 \in Int /\ i - 1 \in Int /\ \A k \in 1 .. i - 1 : s[k] \in S
    BY <1>1
  <2>2. a \in Seq(S) /\ Len(a) = (IF 1 <= i - 1 THEN (i - 1) - 1 + 1 ELSE 0)
        /\ \A k \in 1 .. (i - 1) - 1 + 1 : a[k] = s[1 + k - 1]
    BY <2>1, SubSeqProperties
  <2> HIDE DEF a
  <2>3. Len(a) = i - 1
    BY <1>1, <2>2
  <2>4. \A k \in 1 .. i - 1 : k \in 1 .. (i - 1) - 1 + 1 /\ 1 + k - 1 = k
    BY <1>1
  <2> QED BY <2>2, <2>3, <2>4
<1>3. b \in Seq(S) /\ Len(b) = Len(s) - i + 1 /\ \A k \in 1 .. Len(s) - i + 1 : b[k] = s[i + k - 1]
  <2>1. i \in Int /\ Len(s) \in Int /\ \A k \in i .. Len(s) : s[k] \in S
    BY <1>1
  <2>2. b \in Seq(S) /\ Len(b) = (IF i <= Len(s) THEN Len(s) - i + 1 ELSE 0)
        /\ \A k \in 1 .. Len(s) - i + 1 : b[k] = s[i + k - 1]
    BY <2>1, SubSeqProperties
  <2> HIDE DEF b
  <2> QED BY <1>1, <2>2
<1>4. InsertAt(s, i, e) = (a \o <<e>>) \o b
  BY DEF InsertAt
<1> HIDE DEF a, b
<1>5. <<e>> \in Seq(S) /\ Len(<<e>>) = 1 /\ <<e>>[1] = e
  OBVIOUS
<1> DEFINE c == a \o <<e>>
<1>6. c \in Seq(S) /\ Len(c) = i /\ (\A k \in 1 .. i - 1 : c[k] = s[k]) /\ c[i] = e
  <2>1. c \in Seq(S) /\ Len(c) = Len(a) + 1
        /\ \A k \in 1 .. Len(a) + 1 : c[k] = IF k <= Len(a) THEN a[k] ELSE <<e>>[k - Len(a)]
    BY <1>2, <1>5, ConcatProperties
  <2> HIDE DEF c
  <2> QED BY <1>1, <1>2, <1>5, <2>1
<1> HIDE DEF c
<1> DEFINE d == c \o b
<1>7. d \in Seq(S) /\ Len(d) = Len(c) + Len(b)
      /\ \A k \in 1 .. Len(c) + Len(b) : d[k] = IF k <= Len(c) THEN c[k] ELSE b[k - Len(c)]
  BY <1>3, <1>6, ConcatProperties
<1>8. InsertAt(s, i, e) = d
  BY <1>4 DEF c
<1> HIDE DEF d
<1>9. Len(d) = Len(s) + 1 /\ (\A k \in 1 .. i - 1 : d[k] = s[k]) /\ d[i] = e
  BY <1>1, <1>3, <1>6, <1>7
<1>10. ASSUME NEW k \in i .. Len(s) PROVE d[k + 1] = s[k]
  <2>1. k + 1 \in 1 .. Len(c) + Len(b) /\ ~(k + 1 <= Len(c)) /\ (k + 1) - Len(c) \in 1 .. Len(s) - i + 1
        /\ i + ((k + 1) - Len(c)) - 1 = k
    BY <1>1, <1>3, <1>6
  <2> QED BY <1>3, <1>7, <2>1
<1> QED BY <1>7, <1>8, <1>9, <1>10

\* All consumers still to be looked at are at, or behind, the first of them.
LEMMA NextIsFirst ==
  ASSUME FileTyped, NEW key, NEW first, IsNext(key, first)
  PROVE  /\ \A c \in FileConsumers : InFile(c) \in keys /\ c[1] = "node" =>
              first[1] = "node" /\ first[2] <= c[2]
         /\ \A i, j : <<"node", i, j>> \in Consumers(key) => first[1] = "node" /\ first[2] <= i
<1>1. first \in FileConsumers /\ key \in keys
  BY DEF IsNext, Consumers
<1>2. ASSUME NEW c \in FileConsumers, InFile(c) \in keys, c[1] = "node"
      PROVE  first[1] = "node" /\ first[2] <= c[2]
  <2>1. ~Before(c, first)
    BY <1>2 DEF IsNext
  <2>2. c[2] \in Nat /\ first[2] \in Nat
    BY <1>1, ConsumerShape
  <2> QED BY <1>2, <2>1, <2>2 DEF Before
<1>3. \A i, j : <<"node", i, j>> \in Consumers(key) =>
        <<"node", i, j>> \in FileConsumers /\ InFile(<<"node", i, j>>) = key
  BY DEF Consumers
<1> QED BY <1>1, <1>2, <1>3

Inserting(key, first) ==
  /\ IsNext(key, first) /\ Shared(key) /\ ThreadNode(key, first) # 0
  /\ nodes' = RewiredNodes(InsertAt(nodes, ForkPosition(first), NewFork(key, first)), key)
  /\ outputs' = RewiredOutputs(key) /\ keys' = keys \ {key} /\ forks' = forks + 1
  /\ UNCHANGED <<graph, loadVars, phase>>

\* The list after a fork has been inserted.
InsertedAt(key, at) ==
  /\ nodes' \in Seq(NodeRecords) /\ Len(nodes') = Len(nodes) + 1
  /\ nodes'[at].name = <<"fork", forks>> /\ nodes'[at].input = <<key>>
  /\ nodes'[at].outs = Cardinality(Consumers(key))
  /\ \A q \in 1 .. at - 1 :
       nodes'[q].name = nodes[q].name /\ nodes'[q].outs = nodes[q].outs /\ nodes'[q].input = nodes[q].input
  /\ \A q \in at .. Len(nodes) :
       /\ nodes'[q + 1].name = nodes[q].name /\ nodes'[q + 1].outs = nodes[q].outs
       /\ DOMAIN nodes'[q + 1].input = DOMAIN nodes[q].input
       /\ \A j \in DOMAIN nodes[q].input :
            nodes'[q + 1].input[j] =
              IF <<"node", q - forks, j>> \in Consumers(key)
              THEN <<"fork", forks, ForkOutput(key, <<"node", q - forks, j>>)>>
              ELSE nodes[q].input[j]

LEMMA InsertedList ==
  ASSUME ListInv, FileTyped, NEW key, NEW first, Inserting(key, first)
  PROVE  LET at == ForkPosition(first)
         IN  /\ at \in 1 .. Len(nodes) + 1 /\ (first[1] = "node" => at = first[2] + forks)
             /\ InsertedAt(key, at)
<1> DEFINE at == ForkPosition(first)
           fork == NewFork(key, first)
           list == InsertAt(nodes, at, fork)
           was(i, j) == <<"node", i - (forks + 1), j>>
           rewired(i) == [j \in DOMAIN list[i].input |->
                            IF was(i, j) \in Consumers(key) THEN <<"fork", forks, ForkOutput(key, was(i, j))>>
                            ELSE list[i].input[j]]
<1>1. /\ first \in FileConsumers /\ key = InFile(first) /\ key \in FileEdges /\ first[2] \in Nat \ {0}
      /\ first[1] = "node" => first[2] <= Len(graph.nodes)
  <2>1. first \in FileConsumers /\ key = InFile(first)
    BY DEF Inserting, IsNext, Consumers
  <2> QED BY <2>1, ConsumerShape, FileParts
<1>2. /\ forks \in Nat /\ Len(nodes) \in Nat /\ Len(graph.nodes) \in Nat
      /\ Len(nodes) = Len(graph.nodes) + forks /\ DOMAIN nodes = 1 .. Len(nodes)
  BY FileParts DEF ListInv
<1>3. at \in 1 .. Len(nodes) + 1 /\ (first[1] = "node" => at = first[2] + forks)
  BY <1>1, <1>2 DEF ForkPosition
<1>4. fork \in NodeRecords /\ fork.name = <<"fork", forks>> /\ fork.input = <<key>>
      /\ fork.outs = Cardinality(Consumers(key))
  <2>1. ThreadNode(key, first) \in DOMAIN nodes
    BY <1>2, FileParts DEF Inserting, ThreadNode
  <2>2. nodes[ThreadNode(key, first)] \in NodeRecords
    <3> HIDE DEF NodeRecords
    <3> QED BY <2>1 DEF ListInv
  <2>3. nodes[ThreadNode(key, first)].thread \in Nat
    BY <2>2 DEF NodeRecords
  <2>4. Cardinality(Consumers(key)) \in Nat
    BY ForkOutputs
  <2>5. key \in Edges
    BY <1>1 DEF FileEdges, Edges
  <2>6. <<key>> \in Seq(Edges)
    <3> HIDE DEF Edges
    <3> QED BY <2>5
  <2> QED BY <1>2, <2>3, <2>4, <2>6 DEF NewFork, NodeRecords
<1> HIDE DEF at, fork
<1>5. /\ list \in Seq(NodeRecords) /\ Len(list) = Len(nodes) + 1
      /\ \A k \in 1 .. at - 1 : list[k] = nodes[k]
      /\ list[at] = fork
      /\ \A k \in at .. Len(nodes) : list[k + 1] = nodes[k]
  BY <1>3, <1>4, InsertAtShape DEF ListInv
<1>6. nodes' = [i \in 1 .. Len(list) |-> [list[i] EXCEPT !.input = rewired(i)]]
  BY DEF Inserting, RewiredNodes, at, fork
<1> HIDE DEF list
<1>7. \A i \in 1 .. Len(list) :
        /\ list[i] \in NodeRecords
        /\ Len(list[i].input) \in Nat /\ DOMAIN list[i].input = 1 .. Len(list[i].input)
        /\ list[i].input \in Seq(Edges)
        /\ \A j \in DOMAIN list[i].input : list[i].input[j] \in Edges
  <2> SUFFICES ASSUME NEW i \in 1 .. Len(list)
               PROVE  /\ list[i] \in NodeRecords
                      /\ Len(list[i].input) \in Nat /\ DOMAIN list[i].input = 1 .. Len(list[i].input)
                      /\ list[i].input \in Seq(Edges)
                      /\ \A j \in DOMAIN list[i].input : list[i].input[j] \in Edges
    OBVIOUS
  <2>1. list[i] \in NodeRecords
    <3> HIDE DEF NodeRecords
    <3> QED BY <1>5
  <2>2. list[i].input \in Seq(Edges)
    BY <2>1 DEF NodeRecords
  <2> HIDE DEF Edges
  <2> QED BY <2>1, <2>2
<1>8. \A i \in 1 .. Len(list) : rewired(i) \in Seq(Edges)
  <2> SUFFICES ASSUME NEW i \in 1 .. Len(list) PROVE rewired(i) \in Seq(Edges)
    OBVIOUS
  <2>1. \A j \in DOMAIN list[i].input : rewired(i)[j] \in Edges
    <3>1. \A c \in Consumers(key) : ForkOutput(key, c) \in Nat
      BY ForkOutputs
    <3>2. \A c \in Consumers(key) : <<"fork", forks, ForkOutput(key, c)>> \in Edges
      BY <1>2, <3>1 DEF Edges
    <3> QED BY <1>7, <3>2
  <2>2. rewired(i) \in [1 .. Len(list[i].input) -> Edges]
    BY <1>7, <2>1 DEF rewired
  <2>3. Seq(Edges) = UNION {[1 .. n -> Edges] : n \in Nat}
    BY SeqDef
  <2> HIDE DEF Edges, rewired
  <2> QED BY <1>7, <2>2, <2>3
<1> HIDE DEF rewired
<1>9. \A i \in 1 .. Len(list) :
        /\ nodes'[i] \in NodeRecords /\ nodes'[i].name = list[i].name /\ nodes'[i].outs = list[i].outs
        /\ nodes'[i].input = rewired(i)
  BY <1>6, <1>7, <1>8 DEF NodeRecords
<1>10. nodes' \in Seq(NodeRecords) /\ Len(nodes') = Len(nodes) + 1
  <2>0. DOMAIN nodes' = 1 .. Len(list) /\ nodes' = [i \in DOMAIN nodes' |-> nodes'[i]] /\ Len(list) \in Nat
    BY <1>2, <1>5, <1>6
  <2> HIDE DEF NodeRecords
  <2>1. nodes' \in [1 .. Len(list) -> NodeRecords] /\ Len(list) \in Nat
    BY <1>9, <2>0
  <2>2. nodes' \in Seq(NodeRecords)
    <3>1. Seq(NodeRecords) = UNION {[1 .. n -> NodeRecords] : n \in Nat}
      BY SeqDef
    <3> QED BY <2>1, <3>1
  <2>3. DOMAIN nodes' = 1 .. Len(list)
    BY <2>1
  <2>4. Len(nodes') \in Nat /\ DOMAIN nodes' = 1 .. Len(nodes')
    BY <2>2, LenProperties
  <2> QED BY <1>5, <2>1, <2>2, <2>3, <2>4
\* Consumers are behind the fork.
<1>11. \A i \in 1 .. at : \A j : was(i, j) \notin Consumers(key)
  <2> SUFFICES ASSUME NEW i \in 1 .. at, NEW j, was(i, j) \in Consumers(key) PROVE FALSE
    OBVIOUS
  <2>1. first[1] = "node" /\ first[2] <= i - (forks + 1)
    BY NextIsFirst DEF Inserting
  <2> QED BY <1>1, <1>2, <1>3, <2>1
<1>12. \A i \in 1 .. at : i \in 1 .. Len(list) /\ rewired(i) = list[i].input
  <2> SUFFICES ASSUME NEW i \in 1 .. at PROVE i \in 1 .. Len(list) /\ rewired(i) = list[i].input
    OBVIOUS
  <2>1. i \in 1 .. Len(list)
    BY <1>2, <1>3, <1>5
  <2>2. rewired(i) = [j \in DOMAIN list[i].input |-> list[i].input[j]]
    BY <1>11 DEF rewired
  <2>3. list[i].input \in [1 .. Len(list[i].input) -> Edges]
    BY <1>7, <2>1, LenProperties
  <2> QED BY <2>1, <2>2, <2>3
<1>13. nodes'[at].name = <<"fork", forks>> /\ nodes'[at].input = <<key>>
       /\ nodes'[at].outs = Cardinality(Consumers(key))
  BY <1>3, <1>4, <1>5, <1>9, <1>12
<1>14. \A q \in 1 .. at - 1 :
         nodes'[q].name = nodes[q].name /\ nodes'[q].outs = nodes[q].outs /\ nodes'[q].input = nodes[q].input
  <2>1. \A q \in 1 .. at - 1 : q \in 1 .. at
    BY <1>3
  <2> QED BY <1>5, <1>9, <1>12, <2>1
<1>15. ASSUME NEW q \in at .. Len(nodes)
       PROVE  /\ nodes'[q + 1].name = nodes[q].name /\ nodes'[q + 1].outs = nodes[q].outs
              /\ DOMAIN nodes'[q + 1].input = DOMAIN nodes[q].input
              /\ \A j \in DOMAIN nodes[q].input :
                   nodes'[q + 1].input[j] =
                     IF <<"node", q - forks, j>> \in Consumers(key)
                     THEN <<"fork", forks, ForkOutput(key, <<"node", q - forks, j>>)>>
                     ELSE nodes[q].input[j]
  <2>1. q + 1 \in 1 .. Len(list) /\ (q + 1) - (forks + 1) = q - forks
    BY <1>2, <1>3, <1>5
  <2>2. list[q + 1] = nodes[q]
    BY <1>5
  <2>3. nodes'[q + 1].input = rewired(q + 1) /\ nodes'[q + 1].name = nodes[q].name
        /\ nodes'[q + 1].outs = nodes[q].outs
    BY <1>9, <2>1, <2>2
  <2>4. \A j \in DOMAIN nodes[q].input : rewired(q + 1)[j] =
          IF <<"node", q - forks, j>> \in Consumers(key)
          THEN <<"fork", forks, ForkOutput(key, <<"node", q - forks, j>>)>> ELSE nodes[q].input[j]
    BY <2>1, <2>2 DEF rewired
  <2>5. DOMAIN rewired(q + 1) = DOMAIN nodes[q].input
    BY <2>2 DEF rewired
  <2> QED BY <2>3, <2>4, <2>5
<1> QED BY <1>3, <1>10, <1>13, <1>14, <1>15 DEF at, InsertedAt

\* What the graph in the file says stays.
LEMMA FileStays ==
  ASSUME UNCHANGED graph
  PROVE  /\ FileConsumers' = FileConsumers /\ Keys' = Keys /\ FileTyped' = FileTyped
         /\ \A c : InFile(c)' = InFile(c)
         /\ \A k : Consumers(k)' = Consumers(k) /\ Shared(k)' = Shared(k)
         /\ \A k, c : ForkOutput(k, c)' = ForkOutput(k, c)
<1>1. \A c : InFile(c)' = InFile(c)
  BY DEF InFile
<1>2. FileConsumers' = FileConsumers
  BY DEF FileConsumers
<1>3. \A k : Consumers(k)' = Consumers(k)
  BY <1>1, <1>2 DEF Consumers
<1>4. \A k : Shared(k)' = Shared(k)
  BY <1>3 DEF Shared
<1>5. \A k, c : ForkOutput(k, c)' = ForkOutput(k, c)
  BY <1>3 DEF ForkOutput
<1> QED BY <1>1, <1>2, <1>3, <1>4, <1>5 DEF Keys, FileTyped

\* Where a node goes when something is inserted at a position.
Moved(at, q) == IF q < at THEN q ELSE q + 1

\* Input j of the node at position q once the fork for key is in.
InputAfter(key, q, j) ==
  IF \E i \in DOMAIN graph.nodes : nodes[q].name = <<"node", i>> /\ <<"node", i, j>> \in Consumers(key)
  THEN <<"fork", forks, ForkOutput(key, <<"node", nodes[q].name[2], j>>)>>
  ELSE nodes[q].input[j]

\* Nodes and forks that were in the list are in it with what they had, but for the
\* consumers of the key.
AfterFork(key, at) ==
  /\ at \in DOMAIN nodes' /\ DOMAIN nodes' = 1 .. Len(nodes) + 1 /\ DOMAIN nodes = 1 .. Len(nodes)
  /\ nodes' \in Seq(NodeRecords) /\ Len(nodes') = Len(nodes) + 1
  /\ nodes'[at].name = <<"fork", forks>> /\ nodes'[at].input = <<key>>
  /\ nodes'[at].outs = Cardinality(Consumers(key))
  /\ \A p \in DOMAIN nodes' \ {at} : \E q \in DOMAIN nodes : p = Moved(at, q)
  /\ \A q \in DOMAIN nodes :
       /\ Moved(at, q) \in DOMAIN nodes' \ {at} /\ nodes'[Moved(at, q)].name = nodes[q].name
       /\ nodes'[Moved(at, q)].outs = nodes[q].outs
       /\ DOMAIN nodes'[Moved(at, q)].input = DOMAIN nodes[q].input
       /\ \A j \in DOMAIN nodes[q].input :
            nodes'[Moved(at, q)].input[j] = InputAfter(key, q, j)
  /\ \A c \in FileConsumers : InFile(c) \in keys /\ c[1] = "node" =>
       \A i \in c[2] .. Len(graph.nodes) :
         i + forks \in DOMAIN nodes /\ Moved(at, i + forks) = i + forks + 1

LEMMA InsertMoves ==
  ASSUME ForkPartInv, FileTyped, NEW key, NEW first, Inserting(key, first)
  PROVE  AfterFork(key, ForkPosition(first))
<1> DEFINE at == ForkPosition(first)
<1>1. /\ Len(nodes) \in Nat /\ DOMAIN nodes = 1 .. Len(nodes) /\ forks \in Nat
      /\ Len(graph.nodes) \in Nat /\ DOMAIN graph.nodes = 1 .. Len(graph.nodes)
      /\ Len(nodes) = Len(graph.nodes) + forks
  BY FileParts DEF ForkPartInv, ListInv
<1>2. at \in 1 .. Len(nodes) + 1 /\ (first[1] = "node" => at = first[2] + forks)
  BY InsertedList DEF ForkPartInv
<1>3. InsertedAt(key, at)
  BY InsertedList DEF ForkPartInv
<1>30. DOMAIN nodes' = 1 .. Len(nodes) + 1
  BY <1>3, LenProperties DEF InsertedAt
<1> HIDE DEF at
<1>4. first \in FileConsumers /\ InFile(first) = key /\ key \in keys /\ first[2] \in Nat \ {0}
  <2>1. first \in FileConsumers /\ InFile(first) = key /\ key \in keys
    BY DEF Inserting, IsNext, Consumers
  <2> QED BY <2>1, ConsumerShape, FileParts
\* Where the file's nodes are, from the first consumer on.
<1>5. first[1] = "node" => \A i \in first[2] .. Len(graph.nodes) : nodes[i + forks].name = <<"node", i>>
  BY <1>4 DEF ForkPartInv, PlaceInv
<1>6. ASSUME NEW q \in DOMAIN nodes, NEW i \in DOMAIN graph.nodes, nodes[q].name = <<"node", i>>,
             NEW j, <<"node", i, j>> \in Consumers(key)
      PROVE  q = i + forks /\ at <= q
  <2>1. first[1] = "node" /\ first[2] <= i
    BY <1>6, NextIsFirst DEF Inserting
  <2>2. nodes[i + forks].name = <<"node", i>> /\ i + forks \in DOMAIN nodes
    BY <1>1, <1>4, <1>5, <2>1
  <2>3. q = i + forks
    BY <1>6, <2>2 DEF ForkPartInv, ListInv
  <2> QED BY <1>1, <1>2, <1>4, <2>1, <2>3
<1>7. ASSUME NEW q \in at .. Len(nodes), NEW j, <<"node", q - forks, j>> \in Consumers(key)
      PROVE  q - forks \in DOMAIN graph.nodes /\ nodes[q].name = <<"node", q - forks>>
  <2>1. first[1] = "node" /\ first[2] <= q - forks
    BY <1>7, NextIsFirst DEF Inserting
  <2>2. q - forks \in first[2] .. Len(graph.nodes) /\ (q - forks) + forks = q
    <3>1. q \in Int /\ at <= q /\ q <= Len(nodes)
      BY <1>1, <1>2
    <3>2. at = first[2] + forks /\ first[2] \in Nat
      BY <1>2, <1>4, <2>1
    <3>3. first[2] <= q - forks /\ q - forks <= Len(graph.nodes) /\ q - forks \in Int /\ (q - forks) + forks = q
      BY <1>1, <3>1, <3>2
    <3> QED BY <3>3
  <2> QED BY <1>1, <1>4, <1>5, <2>1, <2>2
<1>8. \A p \in DOMAIN nodes' \ {at} : \E q \in DOMAIN nodes : p = Moved(at, q)
  <2> SUFFICES ASSUME NEW p \in DOMAIN nodes' \ {at} PROVE \E q \in DOMAIN nodes : p = Moved(at, q)
    OBVIOUS
  <2>1. CASE p < at
    BY <1>1, <1>2, <1>30, <2>1 DEF Moved
  <2>2. CASE p > at
    <3>1. p - 1 \in DOMAIN nodes /\ p = Moved(at, p - 1)
      BY <1>1, <1>2, <1>30, <2>2 DEF Moved
    <3> QED BY <3>1
  <2> QED BY <1>2, <1>30, <2>1, <2>2
<1>9. ASSUME NEW q \in DOMAIN nodes
      PROVE  /\ Moved(at, q) \in DOMAIN nodes' \ {at} /\ nodes'[Moved(at, q)].name = nodes[q].name
             /\ nodes'[Moved(at, q)].outs = nodes[q].outs
             /\ DOMAIN nodes'[Moved(at, q)].input = DOMAIN nodes[q].input
             /\ \A j \in DOMAIN nodes[q].input :
                  nodes'[Moved(at, q)].input[j] = InputAfter(key, q, j)
  <2>1. CASE q < at
    <3>1. q \in 1 .. at - 1 /\ Moved(at, q) = q
      BY <1>1, <1>2, <2>1 DEF Moved
    <3>2. \A j : ~\E i \in DOMAIN graph.nodes :
            nodes[q].name = <<"node", i>> /\ <<"node", i, j>> \in Consumers(key)
      <4> SUFFICES ASSUME NEW j, NEW i \in DOMAIN graph.nodes,
                          nodes[q].name = <<"node", i>>, <<"node", i, j>> \in Consumers(key)
                   PROVE  FALSE
        OBVIOUS
      <4>1. at <= q
        BY <1>6
      <4> QED BY <1>1, <1>2, <2>1, <4>1
    <3>3. /\ nodes'[q].name = nodes[q].name /\ nodes'[q].outs = nodes[q].outs
          /\ nodes'[q].input = nodes[q].input
      BY <1>3, <3>1 DEF InsertedAt
    <3>4. q \in DOMAIN nodes' \ {at}
      BY <1>1, <1>2, <1>30, <2>1
    <3> QED BY <3>1, <3>2, <3>3, <3>4 DEF InputAfter
  <2>2. CASE q >= at
    <3>1. q \in at .. Len(nodes) /\ Moved(at, q) = q + 1 /\ q + 1 \in DOMAIN nodes' \ {at}
      BY <1>1, <1>2, <1>30, <2>2 DEF Moved
    <3>2. \A j : <<"node", q - forks, j>> \in Consumers(key) =>
            q - forks \in DOMAIN graph.nodes /\ nodes[q].name = <<"node", q - forks>>
      BY <1>7, <3>1
    <3>3. \A j, i : i \in DOMAIN graph.nodes /\ nodes[q].name = <<"node", i>> /\ <<"node", i, j>> \in Consumers(key)
            => i = q - forks
      <4> SUFFICES ASSUME NEW j, NEW i \in DOMAIN graph.nodes,
                          nodes[q].name = <<"node", i>>, <<"node", i, j>> \in Consumers(key)
                   PROVE  i = q - forks
        OBVIOUS
      <4>1. q = i + forks
        BY <1>6
      <4> QED BY <1>1, <4>1
    <3>4. \A j : (\E i \in DOMAIN graph.nodes :
                    nodes[q].name = <<"node", i>> /\ <<"node", i, j>> \in Consumers(key))
                 <=> <<"node", q - forks, j>> \in Consumers(key)
      BY <3>2, <3>3
    <3>5. \A j : <<"node", q - forks, j>> \in Consumers(key) => nodes[q].name[2] = q - forks
      BY <3>2
    <3>6. /\ nodes'[q + 1].name = nodes[q].name /\ nodes'[q + 1].outs = nodes[q].outs
          /\ DOMAIN nodes'[q + 1].input = DOMAIN nodes[q].input
          /\ \A j \in DOMAIN nodes[q].input :
               nodes'[q + 1].input[j] =
                 IF <<"node", q - forks, j>> \in Consumers(key)
                 THEN <<"fork", forks, ForkOutput(key, <<"node", q - forks, j>>)>>
                 ELSE nodes[q].input[j]
      BY <1>3, <3>1 DEF InsertedAt
    <3>7. ASSUME NEW j \in DOMAIN nodes[q].input
          PROVE  nodes'[Moved(at, q)].input[j] = InputAfter(key, q, j)
      <4>1. CASE <<"node", q - forks, j>> \in Consumers(key)
        <5>1. nodes'[q + 1].input[j] = <<"fork", forks, ForkOutput(key, <<"node", q - forks, j>>)>>
          BY <3>6, <4>1
        <5>2. nodes[q].name[2] = q - forks
          BY <3>5, <4>1
        <5> QED BY <3>1, <3>4, <4>1, <5>1, <5>2, Zenon DEF InputAfter
      <4>2. CASE <<"node", q - forks, j>> \notin Consumers(key)
        <5>1. nodes'[q + 1].input[j] = nodes[q].input[j]
          BY <3>6, <4>2
        <5> QED BY <3>1, <3>4, <4>2, <5>1, Zenon DEF InputAfter
      <4> QED BY <4>1, <4>2
    <3>8. /\ Moved(at, q) \in DOMAIN nodes' \ {at} /\ nodes'[Moved(at, q)].name = nodes[q].name
          /\ nodes'[Moved(at, q)].outs = nodes[q].outs
          /\ DOMAIN nodes'[Moved(at, q)].input = DOMAIN nodes[q].input
      BY <3>1, <3>6, Zenon
    <3> QED BY <3>7, <3>8
  <2> QED BY <1>1, <1>2, <2>1, <2>2
<1>10. ASSUME NEW c \in FileConsumers, InFile(c) \in keys, c[1] = "node", NEW i \in c[2] .. Len(graph.nodes)
       PROVE  i + forks \in DOMAIN nodes /\ Moved(at, i + forks) = i + forks + 1
  <2>1. first[1] = "node" /\ first[2] <= c[2] /\ c[2] \in Nat
    BY <1>10, NextIsFirst, ConsumerShape DEF Inserting
  <2>2. at = first[2] + forks /\ first[2] \in Nat /\ i \in Nat /\ c[2] <= i /\ i <= Len(graph.nodes)
    BY <1>1, <1>2, <1>4, <2>1
  <2>3. 1 <= i + forks /\ i + forks <= Len(nodes) /\ at <= i + forks
    BY <1>1, <1>4, <2>1, <2>2
  <2>4. i + forks \in DOMAIN nodes
    BY <1>1, <2>2, <2>3
  <2> QED BY <1>1, <1>2, <2>2, <2>3, <2>4 DEF Moved
<1>11. nodes'[at].name = <<"fork", forks>> /\ nodes'[at].input = <<key>>
       /\ nodes'[at].outs = Cardinality(Consumers(key))
  BY <1>3 DEF InsertedAt
<1>12. at \in DOMAIN nodes'
  BY <1>1, <1>2, <1>30
<1>13. nodes' \in Seq(NodeRecords) /\ Len(nodes') = Len(nodes) + 1
  BY <1>3 DEF InsertedAt
<1>14. AfterFork(key, at)
  BY <1>1, <1>30, <1>8, <1>9, <1>10, <1>11, <1>12, <1>13 DEF AfterFork
<1> QED BY <1>14 DEF at

\* Serves in the next state, of a value.
ServesNext(c, e) ==
  IF InFile(c) \in keys' \/ ~Shared(InFile(c)) THEN e = InFile(c)
  ELSE \E p \in DOMAIN nodes' :
         /\ nodes'[p].name[1] = "fork" /\ nodes'[p].input[1] = InFile(c)
         /\ e = <<"fork", nodes'[p].name[2], ForkOutput(InFile(c), c)>>

LEMMA InsertForkKeeps ==
  ASSUME ForkPartInv, FileTyped, NEW key, NEW first, Inserting(key, first)
  PROVE  ForkPartInv'
<1>1. PICK at : AfterFork(key, at)
  BY InsertMoves
<1>2. UNCHANGED graph /\ keys' = keys \ {key} /\ forks' = forks + 1 /\ outputs' = RewiredOutputs(key)
      /\ key \in keys /\ key \in Keys /\ Shared(key)
  BY DEF Inserting, IsNext, ForkPartInv, ListInv
<1>3. /\ FileConsumers' = FileConsumers /\ Keys' = Keys /\ \A c : InFile(c)' = InFile(c)
      /\ \A k : Consumers(k)' = Consumers(k) /\ Shared(k)' = Shared(k)
      /\ \A k, c : ForkOutput(k, c)' = ForkOutput(k, c)
  BY <1>2, FileStays
\* The list after: the fork, and what was there.
<1>4. ASSUME NEW q \in DOMAIN nodes
      PROVE  nodes[q].name # <<"fork", forks>>
  BY FileParts DEF ForkPartInv, ListInv
<1>5. \A p \in DOMAIN nodes' : p = at \/ \E q \in DOMAIN nodes : p = Moved(at, q)
  BY <1>1 DEF AfterFork
<1>6. \A q \in DOMAIN nodes : Moved(at, q) \in DOMAIN nodes' /\ nodes'[Moved(at, q)].name = nodes[q].name
  BY <1>1 DEF AfterFork
<1>7. /\ at \in DOMAIN nodes' /\ nodes'[at].name = <<"fork", forks>> /\ nodes'[at].input = <<key>>
      /\ nodes'[at].outs = Cardinality(Consumers(key))
  BY <1>1 DEF AfterFork
<1>8. ListInv'
  <2>1. graph' \in Graphs /\ keys' \subseteq Keys'
    BY <1>2, <1>3 DEF ForkPartInv, ListInv
  <2>2. nodes' \in Seq(NodeRecords) /\ forks' \in Nat /\ Len(nodes') = Len(graph'.nodes) + forks'
    <3>1. nodes' \in Seq(NodeRecords) /\ Len(nodes') = Len(nodes) + 1
      BY <1>1 DEF AfterFork
    <3>2. forks \in Nat /\ Len(nodes) = Len(graph.nodes) + forks /\ Len(graph.nodes) \in Nat
      BY FileParts DEF ForkPartInv, ListInv
    <3>3. graph' = graph /\ forks' = forks + 1
      BY <1>2
    <3>4. forks' \in Nat /\ Len(nodes') = Len(graph.nodes) + forks'
      <4> DEFINE n == Len(nodes)
                 g == Len(graph.nodes)
                 m == Len(nodes')
      <4>1. m = n + 1 /\ n = g + forks /\ g \in Nat /\ forks \in Nat
        BY <3>1, <3>2, Zenon
      <4> HIDE DEF m, n, g
      <4>2. forks' \in Nat /\ m = g + forks'
        BY <3>3, <4>1
      <4> QED BY <4>2 DEF m, g
    <3> QED BY <3>1, <3>3, <3>4
  <2>3. ASSUME NEW p \in DOMAIN nodes'
        PROVE  \/ \E i \in DOMAIN graph.nodes : nodes'[p].name = <<"node", i>>
               \/ \E k \in 0 .. forks' - 1 : nodes'[p].name = <<"fork", k>>
    <3>1. forks \in Nat
      BY DEF ForkPartInv, ListInv
    <3>2. forks \in 0 .. forks' - 1 /\ \A k \in 0 .. forks - 1 : k \in 0 .. forks' - 1
      BY <1>2, <3>1
    <3>3. CASE p = at
      BY <1>7, <3>2, <3>3
    <3>4. ASSUME NEW q \in DOMAIN nodes, p = Moved(at, q) PROVE <2>3!2
      <4>1. \/ \E i \in DOMAIN graph.nodes : nodes[q].name = <<"node", i>>
            \/ \E k \in 0 .. forks - 1 : nodes[q].name = <<"fork", k>>
        BY DEF ForkPartInv, ListInv
      <4> QED BY <1>6, <3>2, <3>4, <4>1
    <3> QED BY <1>5, <3>3, <3>4
  <2>4. ASSUME NEW p \in DOMAIN nodes', NEW q \in DOMAIN nodes', nodes'[p].name = nodes'[q].name
        PROVE  p = q
    <3>1. \A a, b \in DOMAIN nodes : nodes[a].name = nodes[b].name => a = b
      BY DEF ForkPartInv, ListInv
    <3> QED BY <1>4, <1>5, <1>6, <1>7, <2>4, <3>1
  <2>5. \A i \in DOMAIN graph.nodes : \E p \in DOMAIN nodes' : nodes'[p].name = <<"node", i>>
    <3>1. \A i \in DOMAIN graph.nodes : \E p \in DOMAIN nodes : nodes[p].name = <<"node", i>>
      BY DEF ForkPartInv, ListInv
    <3> QED BY <1>6, <3>1
  <2>6. \A k \in 0 .. forks' - 1 : \E p \in DOMAIN nodes' : nodes'[p].name = <<"fork", k>>
    <3>1. \A k \in 0 .. forks - 1 : \E p \in DOMAIN nodes : nodes[p].name = <<"fork", k>>
      BY DEF ForkPartInv, ListInv
    <3>2. \A k \in 0 .. forks' - 1 : k = forks \/ k \in 0 .. forks - 1
      BY <1>2 DEF ForkPartInv, ListInv
    <3> QED BY <1>6, <1>7, <3>1, <3>2
  <2> QED BY <1>2, <2>1, <2>2, <2>3, <2>4, <2>5, <2>6 DEF ListInv
<1>9. PlaceInv'
  <2> SUFFICES ASSUME NEW c \in FileConsumers, c[1] = "node", InFile(c) \in keys',
                      NEW i \in c[2] .. Len(graph.nodes)
               PROVE  nodes'[i + forks'].name = <<"node", i>>
    BY <1>2, <1>3 DEF PlaceInv
  <2>1. InFile(c) \in keys
    BY <1>2
  <2>2. nodes[i + forks].name = <<"node", i>>
    BY <2>1 DEF ForkPartInv, PlaceInv
  <2>3. i + forks \in DOMAIN nodes /\ Moved(at, i + forks) = i + forks + 1
    BY <1>1, <2>1 DEF AfterFork
  <2>4. i + forks' = i + forks + 1
    <3>1. i \in Int /\ forks \in Int
      BY DEF ForkPartInv, ListInv
    <3> QED BY <1>2, <3>1
  <2> QED BY <1>6, <2>2, <2>3, <2>4
\* What a fork or a node that was there has.
<1>10. ASSUME NEW q \in DOMAIN nodes, IsFork(q)
       PROVE  /\ DOMAIN nodes'[Moved(at, q)].input = {1}
              /\ nodes'[Moved(at, q)].input[1] = nodes[q].input[1]
              /\ nodes'[Moved(at, q)].outs = nodes[q].outs
              /\ nodes'[Moved(at, q)].name[1] = "fork"
              /\ nodes[q].input[1] \in Keys \ keys /\ Shared(nodes[q].input[1])
              /\ nodes[q].outs = Cardinality(Consumers(nodes[q].input[1]))
  <2>1. /\ DOMAIN nodes[q].input = {1} /\ nodes[q].input[1] \in Keys \ keys /\ Shared(nodes[q].input[1])
        /\ nodes[q].outs = Cardinality(Consumers(nodes[q].input[1]))
    BY <1>10 DEF ForkPartInv, ForkInv
  <2>2. InputAfter(key, q, 1) = nodes[q].input[1]
    <3>1. \A i : nodes[q].name # <<"node", i>>
      BY <1>10 DEF IsFork
    <3> QED BY <3>1 DEF InputAfter
  <2>3. /\ DOMAIN nodes'[Moved(at, q)].input = DOMAIN nodes[q].input
        /\ nodes'[Moved(at, q)].outs = nodes[q].outs
        /\ \A j \in DOMAIN nodes[q].input : nodes'[Moved(at, q)].input[j] = InputAfter(key, q, j)
    BY <1>1 DEF AfterFork
  <2> QED BY <1>6, <1>10, <2>1, <2>2, <2>3 DEF IsFork
<1>11. \A q \in DOMAIN nodes : nodes'[Moved(at, q)].name[1] = "fork" => IsFork(q)
  BY <1>6 DEF IsFork
<1>12. ForkInv'
  <2>1. ASSUME NEW p \in DOMAIN nodes', IsFork(p)'
        PROVE  /\ DOMAIN nodes'[p].input = {1} /\ nodes'[p].input[1] \in Keys \ keys'
               /\ Shared(nodes'[p].input[1]) /\ nodes'[p].outs = Cardinality(Consumers(nodes'[p].input[1]))
    <3>1. CASE p = at
      <4>1. nodes'[p].input = <<key>> /\ key \in Keys \ keys' /\ Shared(key)
            /\ nodes'[p].outs = Cardinality(Consumers(key))
        BY <1>2, <1>7, <3>1
      <4> QED BY <4>1
    <3>2. ASSUME NEW q \in DOMAIN nodes, p = Moved(at, q) PROVE <2>1!3
      <4>1. IsFork(q)
        BY <1>11, <2>1, <3>2 DEF IsFork
      <4> QED BY <1>2, <1>10, <3>2, <4>1
    <3> QED BY <1>5, <3>1, <3>2
  <2>2. ASSUME NEW p \in DOMAIN nodes', NEW q \in DOMAIN nodes', IsFork(p)', IsFork(q)',
               nodes'[p].input[1] = nodes'[q].input[1]
        PROVE  p = q
    <3>1. nodes'[at].input[1] = key
      BY <1>7
    <3>2. \A a \in DOMAIN nodes : nodes'[Moved(at, a)].name[1] = "fork" =>
            /\ IsFork(a) /\ nodes'[Moved(at, a)].input[1] = nodes[a].input[1] /\ nodes[a].input[1] # key
      BY <1>2, <1>10, <1>11
    <3>3. \A a, b \in DOMAIN nodes : IsFork(a) /\ IsFork(b) /\ nodes[a].input[1] = nodes[b].input[1] => a = b
      BY DEF ForkPartInv, ForkInv
    <3>4. nodes'[p].name[1] = "fork" /\ nodes'[q].name[1] = "fork"
      BY <2>2 DEF IsFork
    <3>5. CASE p = at
      BY <1>5, <2>2, <3>1, <3>2, <3>4, <3>5
    <3>6. CASE q = at
      BY <1>5, <2>2, <3>1, <3>2, <3>4, <3>6
    <3>7. CASE p # at /\ q # at
      <4>1. PICK a \in DOMAIN nodes : p = Moved(at, a)
        BY <1>5, <3>7
      <4>2. PICK b \in DOMAIN nodes : q = Moved(at, b)
        BY <1>5, <3>7
      <4> QED BY <2>2, <3>2, <3>3, <3>4, <4>1, <4>2
    <3> QED BY <3>5, <3>6, <3>7
  <2>3. \A p \in DOMAIN nodes' : IsFork(p)' =>
            /\ DOMAIN nodes'[p].input = {1} /\ nodes'[p].input[1] \in Keys' \ keys'
            /\ Shared(nodes[p].input[1])' /\ nodes'[p].outs = Cardinality(Consumers(nodes[p].input[1])')
    BY <1>3, <2>1
  <2> QED BY <2>2, <2>3 DEF ForkInv
\* Consumers of other keys have what they had, those of this key an output of the fork.
<1>13. ASSUME NEW c, NEW e, Serves(c, e), InFile(c) # key PROVE ServesNext(c, e)
  <2>1. CASE InFile(c) \in keys \/ ~Shared(InFile(c))
    <3>1. InFile(c) \in keys' \/ ~Shared(InFile(c))
      BY <1>2, <1>13, <2>1
    <3>2. e = InFile(c)
      BY <1>13, <2>1 DEF Serves
    <3> QED BY <3>1, <3>2 DEF ServesNext
  <2>2. CASE InFile(c) \notin keys /\ Shared(InFile(c))
    <3>1. PICK q \in DOMAIN nodes :
            /\ IsFork(q) /\ nodes[q].input[1] = InFile(c)
            /\ e = <<"fork", nodes[q].name[2], ForkOutput(InFile(c), c)>>
      BY <1>13, <2>2 DEF Serves
    <3> DEFINE p == Moved(at, q)
    <3>2. p \in DOMAIN nodes' /\ nodes'[p].name = nodes[q].name /\ nodes'[p].input[1] = nodes[q].input[1]
      BY <1>6, <1>10, <3>1
    <3>3. nodes'[p].name[1] = "fork"
      BY <3>1, <3>2 DEF IsFork
    <3> HIDE DEF p
    <3>4. InFile(c) \notin keys'
      BY <1>2, <2>2
    <3> QED BY <2>2, <3>1, <3>2, <3>3, <3>4 DEF ServesNext
  <2> QED BY <2>1, <2>2
<1>14. ASSUME NEW c \in Consumers(key) PROVE ServesNext(c, <<"fork", forks, ForkOutput(key, c)>>)
  <2>1. InFile(c) = key
    BY DEF Consumers
  <2>2. key \notin keys' /\ Shared(key)
    BY <1>2
  <2>3. nodes'[at].name[1] = "fork" /\ nodes'[at].name[2] = forks /\ nodes'[at].input[1] = key
    BY <1>7
  <2> QED BY <1>7, <2>1, <2>2, <2>3 DEF ServesNext
<1>15. CarriesInv'
  <2>1. ASSUME NEW p \in DOMAIN nodes', NEW i \in DOMAIN graph.nodes, nodes'[p].name = <<"node", i>>
        PROVE  /\ DOMAIN nodes'[p].input = DOMAIN graph.nodes[i].input /\ nodes'[p].outs = graph.nodes[i].outs
               /\ \A j \in DOMAIN nodes'[p].input : ServesNext(<<"node", i, j>>, nodes'[p].input[j])
    <3>1. PICK q \in DOMAIN nodes : p = Moved(at, q)
      BY <1>5, <1>7, <2>1
    <3>2. nodes[q].name = <<"node", i>>
      BY <1>6, <2>1, <3>1
    <3>3. /\ DOMAIN nodes[q].input = DOMAIN graph.nodes[i].input /\ nodes[q].outs = graph.nodes[i].outs
          /\ \A j \in DOMAIN nodes[q].input : Serves(<<"node", i, j>>, nodes[q].input[j])
      BY <3>2 DEF ForkPartInv, CarriesInv
    <3>4. /\ DOMAIN nodes'[p].input = DOMAIN nodes[q].input /\ nodes'[p].outs = nodes[q].outs
          /\ \A j \in DOMAIN nodes[q].input : nodes'[p].input[j] = InputAfter(key, q, j)
      BY <1>1, <3>1 DEF AfterFork
    <3>5. ASSUME NEW j \in DOMAIN nodes[q].input PROVE ServesNext(<<"node", i, j>>, nodes'[p].input[j])
      <4> DEFINE c == <<"node", i, j>>
                 e == nodes'[p].input[j]
      <4>1. e = InputAfter(key, q, j) /\ Serves(c, nodes[q].input[j])
        BY <3>3, <3>4
      <4>2. c \in FileConsumers
        BY <3>3 DEF FileConsumers, NodeInputs
      <4>3. CASE InFile(c) = key
        <5>1. c \in Consumers(key)
          BY <4>2, <4>3 DEF Consumers
        <5>2. nodes[q].name[2] = i
          BY <3>2
        <5>3. e = <<"fork", forks, ForkOutput(key, c)>>
          BY <3>2, <4>1, <5>1, <5>2, Zenon DEF InputAfter
        <5> QED BY <1>14, <5>1, <5>3, Zenon
      <4>4. CASE InFile(c) # key
        <5>1. \A k : nodes[q].name = <<"node", k>> => k = i
          BY <3>2
        <5>2. c \notin Consumers(key)
          BY <4>4 DEF Consumers
        <5>3. e = nodes[q].input[j]
          BY <4>1, <5>1, <5>2 DEF InputAfter
        <5> QED BY <1>13, <4>1, <4>4, <5>3, Zenon
      <4> QED BY <4>3, <4>4
    <3> QED BY <3>3, <3>4, <3>5
  <2>2. DOMAIN outputs' = DOMAIN graph.outputs
    BY <1>2 DEF RewiredOutputs, ForkPartInv, CarriesInv
  <2>3. ASSUME NEW i \in DOMAIN outputs'
        PROVE  /\ DOMAIN outputs'[i] = DOMAIN graph.outputs[i]
               /\ \A j \in DOMAIN outputs'[i] : ServesNext(<<"graph_output", i, j>>, outputs'[i][j])
    <3>1. /\ i \in DOMAIN outputs /\ i \in DOMAIN graph.outputs /\ DOMAIN outputs[i] = DOMAIN graph.outputs[i]
          /\ \A j \in DOMAIN outputs[i] : Serves(<<"graph_output", i, j>>, outputs[i][j])
      BY <2>2 DEF ForkPartInv, CarriesInv
    <3>2. /\ DOMAIN outputs'[i] = DOMAIN outputs[i]
          /\ \A j \in DOMAIN outputs[i] : outputs'[i][j] =
               IF <<"graph_output", i, j>> \in Consumers(key)
               THEN <<"fork", forks, ForkOutput(key, <<"graph_output", i, j>>)>> ELSE outputs[i][j]
      BY <1>2, <3>1 DEF RewiredOutputs
    <3>3. ASSUME NEW j \in DOMAIN outputs[i] PROVE ServesNext(<<"graph_output", i, j>>, outputs'[i][j])
      <4> DEFINE c == <<"graph_output", i, j>>
      <4>1. c \in FileConsumers
        BY <3>1 DEF FileConsumers, OutputEdges
      <4>2. CASE c \in Consumers(key)
        BY <1>14, <3>2, <4>2, Zenon
      <4>3. CASE c \notin Consumers(key)
        <5>1. InFile(c) # key
          BY <4>1, <4>3 DEF Consumers
        <5>2. outputs'[i][j] = outputs[i][j]
          BY <3>2, <4>3, Zenon
        <5> QED BY <1>13, <3>1, <5>1, <5>2, Zenon
      <4> QED BY <4>2, <4>3
    <3> QED BY <3>1, <3>2, <3>3
  <2>4. \A c, e : ServesNext(c, e) =
          IF InFile(c)' \in keys' \/ ~Shared(InFile(c))' THEN e = InFile(c)'
          ELSE \E p \in DOMAIN nodes' :
                 /\ IsFork(p)' /\ nodes'[p].input[1] = InFile(c)'
                 /\ e = <<"fork", nodes'[p].name[2], ForkOutput(InFile(c), c)'>>
    BY <1>3 DEF ServesNext, IsFork
  <2>5. ASSUME NEW c, NEW p, NEW j, ServesNext(c, nodes'[p].input[j])
        PROVE  Serves(c, nodes[p].input[j])'
    <3> DEFINE e == nodes'[p].input[j]
    <3>1. IF InFile(c)' \in keys' \/ ~Shared(InFile(c))' THEN e = InFile(c)'
          ELSE \E r \in DOMAIN nodes' :
                 /\ IsFork(r)' /\ nodes'[r].input[1] = InFile(c)'
                 /\ e = <<"fork", nodes'[r].name[2], ForkOutput(InFile(c), c)'>>
      BY <2>4, <2>5
    <3> QED BY <3>1 DEF Serves
  <2>6. ASSUME NEW c, NEW p, NEW j, ServesNext(c, outputs'[p][j])
        PROVE  Serves(c, outputs[p][j])'
    <3> DEFINE e == outputs'[p][j]
    <3>1. IF InFile(c)' \in keys' \/ ~Shared(InFile(c))' THEN e = InFile(c)'
          ELSE \E r \in DOMAIN nodes' :
                 /\ IsFork(r)' /\ nodes'[r].input[1] = InFile(c)'
                 /\ e = <<"fork", nodes'[r].name[2], ForkOutput(InFile(c), c)'>>
      BY <2>4, <2>6
    <3> QED BY <3>1 DEF Serves
  <2> QED BY <1>2, <2>1, <2>2, <2>3, <2>5, <2>6 DEF CarriesInv
<1> QED BY <1>8, <1>9, <1>12, <1>15 DEF ForkPartInv

LEMMA ForkPartInit == Init => ForkPartInv
<1> SUFFICES ASSUME Init PROVE ForkPartInv
  OBVIOUS
<1>1. FileTyped /\ graph \in Graphs
  BY FileIsTyped DEF Init
<1>2. /\ forks = 0 /\ keys = Keys /\ outputs = graph.outputs
      /\ nodes = [i \in DOMAIN graph.nodes |->
                   [name |-> <<"node", i>>, thread |-> graph.nodes[i].thread,
                    input |-> graph.nodes[i].input, outs |-> graph.nodes[i].outs]]
  BY DEF Init, Keys
<1>3. Len(graph.nodes) \in Nat /\ DOMAIN graph.nodes = 1 .. Len(graph.nodes)
  BY <1>1, FileParts
<1>4. /\ DOMAIN nodes = DOMAIN graph.nodes
      /\ \A i \in DOMAIN nodes :
           /\ nodes[i].name = <<"node", i>> /\ nodes[i].input = graph.nodes[i].input
           /\ nodes[i].outs = graph.nodes[i].outs
  BY <1>2
<1>5. \A c \in FileConsumers : InFile(c) \in keys
  BY <1>2 DEF Keys
<1>6. ListInv
  <2>1. \A i \in DOMAIN graph.nodes : nodes[i] \in NodeRecords
    <3> SUFFICES ASSUME NEW i \in DOMAIN graph.nodes PROVE nodes[i] \in NodeRecords
      OBVIOUS
    <3>1. i \in Nat /\ graph.nodes[i].outs \in Nat /\ graph.nodes[i].thread \in Nat
          /\ graph.nodes[i].input \in Seq(FileEdges)
      BY <1>1, <1>3, FileParts
    <3>2. Seq(FileEdges) \subseteq Seq(Edges)
      <4>1. FileEdges \subseteq Edges
        BY DEF FileEdges, Edges
      <4> HIDE DEF FileEdges, Edges
      <4> QED BY <4>1
    <3>3. graph.nodes[i].input \in Seq(Edges)
      BY <3>1, <3>2
    <3> QED BY <1>2, <3>1, <3>3 DEF NodeRecords
  <2>2. nodes \in Seq(NodeRecords) /\ Len(nodes) = Len(graph.nodes)
    <3>1. Seq(NodeRecords) = UNION {[1 .. n -> NodeRecords] : n \in Nat}
      BY SeqDef
    <3>2. nodes = [i \in DOMAIN nodes |-> nodes[i]]
      BY <1>2
    <3> HIDE DEF NodeRecords
    <3>3. nodes \in [1 .. Len(graph.nodes) -> NodeRecords]
      BY <1>3, <1>4, <2>1, <3>2
    <3>4. nodes \in Seq(NodeRecords)
      BY <1>3, <3>1, <3>3
    <3>5. Len(nodes) \in Nat /\ DOMAIN nodes = 1 .. Len(nodes)
      BY <3>4, LenProperties
    <3> QED BY <1>3, <1>4, <3>4, <3>5
  <2>3. Len(nodes) = Len(graph.nodes) + forks
    BY <1>2, <1>3, <2>2
  <2>4. 0 .. forks - 1 = {}
    BY <1>2
  <2>5. \A p, q \in DOMAIN nodes : nodes[p].name = nodes[q].name => p = q
    BY <1>4
  <2> QED BY <1>1, <1>2, <1>4, <2>2, <2>3, <2>4, <2>5 DEF ListInv
<1>7. PlaceInv
  <2> SUFFICES ASSUME NEW c \in FileConsumers, c[1] = "node", NEW i \in c[2] .. Len(graph.nodes)
               PROVE  nodes[i + forks].name = <<"node", i>>
    BY DEF PlaceInv
  <2>1. c[2] \in DOMAIN graph.nodes
    BY <1>1, ConsumerShape
  <2>2. i \in DOMAIN nodes /\ i + forks = i
    BY <1>2, <1>3, <1>4, <2>1
  <2> QED BY <1>4, <2>2
<1>8. ForkInv
  BY <1>4 DEF ForkInv, IsFork
<1>9. CarriesInv
  <2>1. ASSUME NEW p \in DOMAIN nodes, NEW i \in DOMAIN graph.nodes, nodes[p].name = <<"node", i>>
        PROVE  /\ DOMAIN nodes[p].input = DOMAIN graph.nodes[i].input /\ nodes[p].outs = graph.nodes[i].outs
               /\ \A j \in DOMAIN nodes[p].input : Serves(<<"node", i, j>>, nodes[p].input[j])
    <3>1. p = i
      BY <1>4, <2>1
    <3>2. \A j \in DOMAIN nodes[p].input :
            /\ <<"node", i, j>> \in FileConsumers /\ InFile(<<"node", i, j>>) = nodes[p].input[j]
      BY <1>4, <3>1 DEF FileConsumers, NodeInputs, InFile
    <3> QED BY <1>4, <1>5, <3>1, <3>2 DEF Serves
  <2>2. ASSUME NEW i \in DOMAIN outputs, NEW j \in DOMAIN outputs[i]
        PROVE  Serves(<<"graph_output", i, j>>, outputs[i][j])
    <3>1. <<"graph_output", i, j>> \in FileConsumers /\ InFile(<<"graph_output", i, j>>) = outputs[i][j]
      BY <1>2 DEF FileConsumers, OutputEdges, InFile
    <3> QED BY <1>5, <3>1 DEF Serves
  <2> QED BY <1>2, <2>1, <2>2 DEF CarriesInv
<1> QED BY <1>6, <1>7, <1>8, <1>9 DEF ForkPartInv

\* Nothing of it looks at keys but through those that are left.
LEMMA SkipKeeps ==
  ASSUME ForkPartInv, UNCHANGED <<graph, nodes, outputs, forks>>, NEW key,
         keys' = keys \/ (~Shared(key) /\ keys' = keys \ {key})
  PROVE  ForkPartInv'
<1>1. UNCHANGED <<graph, nodes, outputs, forks>>
  OBVIOUS
<1>2. /\ FileConsumers' = FileConsumers /\ Keys' = Keys /\ \A c : InFile(c)' = InFile(c)
      /\ \A k : Consumers(k)' = Consumers(k) /\ Shared(k)' = Shared(k)
      /\ \A k, c : ForkOutput(k, c)' = ForkOutput(k, c)
  BY FileStays
<1>3. keys' \subseteq keys
  OBVIOUS
<1>4. \A p : IsFork(p)' <=> IsFork(p)
  BY DEF IsFork
<1>5. ListInv'
  BY <1>2, <1>3 DEF ForkPartInv, ListInv
<1>6. PlaceInv'
  <2>1. \A c \in FileConsumers : c[1] = "node" /\ InFile(c) \in keys' =>
          \A i \in c[2] .. Len(graph.nodes) : nodes[i + forks].name = <<"node", i>>
    BY <1>3 DEF ForkPartInv, PlaceInv
  <2> QED BY <1>1, <1>2, <2>1 DEF PlaceInv
<1>7. ForkInv'
  BY <1>1, <1>2, <1>3, <1>4 DEF ForkPartInv, ForkInv
<1>8. ASSUME NEW c, NEW e, Serves(c, e) PROVE ServesNext(c, e)
  BY <1>1, <1>3, <1>8 DEF Serves, ServesNext, IsFork
<1>9. CarriesInv'
  BY <1>1, <1>2, <1>4, <1>8 DEF ForkPartInv, CarriesInv, ServesNext, Serves
<1> QED BY <1>5, <1>6, <1>7, <1>9 DEF ForkPartInv

LEMMA ForkPartStep == ForkPartInv /\ [Next]_vars => ForkPartInv'
<1> SUFFICES ASSUME ForkPartInv, [Next]_vars PROVE ForkPartInv'
  OBVIOUS
<1>1. FileTyped
  BY FileIsTyped DEF ForkPartInv, ListInv
<1>2. CASE SkipKey
  BY <1>2, SkipKeeps DEF SkipKey
<1>3. CASE InsertFork
  <2>1. PICK key \in keys, first \in FileConsumers :
          /\ IsNext(key, first) /\ Shared(key) /\ ThreadNode(key, first) # 0
          /\ nodes' = RewiredNodes(InsertAt(nodes, ForkPosition(first), NewFork(key, first)), key)
          /\ outputs' = RewiredOutputs(key) /\ keys' = keys \ {key}
    BY <1>3 DEF InsertFork
  <2>2. Inserting(key, first)
    BY <1>3, <2>1 DEF InsertFork, Inserting
  <2> QED BY <1>1, <2>2, InsertForkKeeps
<1>4. CASE ForkCrash \/ StartLoading \/ CreateStage \/ Postpone \/ Finish \/ UNCHANGED vars
  <2>1. UNCHANGED <<graph, nodes, outputs, forks>> /\ keys' = keys
    BY <1>4 DEF ForkCrash, StartLoading, CreateStage, Postpone, Finish, vars, forkVars
  <2> QED BY <2>1, SkipKeeps
<1> QED BY <1>2, <1>3, <1>4 DEF Next

-------------------------------------------------------------------------------
(* The stages are created.                                                     *)

\* A consumer whose edge has been made has the one of the file behind it made.
LEMMA SourceIsMade ==
  ASSUME ForkPartInv, MadeInv, NEW c \in FileConsumers, NEW e, Serves(c, e), e \in edge_map
  PROVE  InFile(c) \in edge_map
<1>1. CASE ~Shared(InFile(c))
  BY <1>1 DEF Serves
<1>2. CASE Shared(InFile(c))
  <2>1. PICK p \in DOMAIN nodes :
          /\ IsFork(p) /\ nodes[p].input[1] = InFile(c)
          /\ e = <<"fork", nodes[p].name[2], ForkOutput(InFile(c), c)>>
    BY <1>2 DEF Serves, MadeInv
  <2>2. e \notin InputEdges
    BY <2>1 DEF InputEdges
  <2>3. PICK q \in Created : e \in Outs(nodes[q].name, nodes[q].outs)
    BY <2>2 DEF MadeInv
  <2>4. nodes[q].name[1] = "fork" /\ nodes[q].name[2] = nodes[p].name[2]
    BY <2>1, <2>3 DEF Outs
  <2>5. p = q
    <3>1. p \in DOMAIN nodes /\ q \in DOMAIN nodes
      BY DEF Created
    <3>2. \A r \in DOMAIN nodes : \/ \E i : nodes[r].name = <<"node", i>>
                                 \/ \E k : nodes[r].name = <<"fork", k>>
      BY DEF ForkPartInv, ListInv
    <3>3. nodes[p].name = nodes[q].name
      BY <2>1, <2>4, <3>1, <3>2 DEF IsFork
    <3> QED BY <3>1, <3>3 DEF ForkPartInv, ListInv
  <2>6. Ready(p) /\ DOMAIN nodes[p].input = {1}
    BY <2>1, <2>5 DEF MadeInv, ForkPartInv, ForkInv
  <2> QED BY <2>1, <2>6 DEF Ready, ToSet
<1> QED BY <1>1, <1>2

\* What has been made never came from nodes that wait for one another.
LEMMA MadeIsAvailable ==
  ASSUME ForkPartInv, MadeInv, NEW D \in SUBSET DOMAIN graph.nodes, StuckGroup(D),
         NEW e \in FileEdges, e \in edge_map
  PROVE  e \in Available(D)
<1>1. CASE e \in InputEdges
  BY <1>1 DEF Available
<1>2. CASE e \notin InputEdges
  <2>1. PICK p \in Created : e \in Outs(nodes[p].name, nodes[p].outs)
    BY <1>2 DEF MadeInv
  <2>2. p \in DOMAIN nodes /\ nodes[p].name[1] # "fork"
    BY <2>1 DEF Created, Outs, FileEdges
  <2>3. PICK i \in DOMAIN graph.nodes : nodes[p].name = <<"node", i>>
    BY <2>2 DEF ForkPartInv, ListInv
  <2>4. i \notin D
    BY <2>1, <2>2, <2>3 DEF MadeInv
  <2>5. nodes[p].outs = graph.nodes[i].outs
    BY <2>2, <2>3 DEF ForkPartInv, CarriesInv
  <2> QED BY <2>1, <2>3, <2>4, <2>5 DEF Available
<1> QED BY <1>1, <1>2

LEMMA StuckIsNotReady ==
  ASSUME ForkPartInv, FileTyped, MadeInv, NEW D \in SUBSET DOMAIN graph.nodes, StuckGroup(D),
         NEW i \in D, NEW p \in DOMAIN nodes, nodes[p].name = <<"node", i>>
  PROVE  ~Ready(p)
<1> SUFFICES ASSUME Ready(p) PROVE FALSE
  OBVIOUS
<1>1. PICK j \in DOMAIN graph.nodes[i].input : graph.nodes[i].input[j] \notin Available(D)
  BY DEF StuckGroup, ToSet
<1> DEFINE c == <<"node", i, j>>
<1>2. c \in FileConsumers /\ InFile(c) = graph.nodes[i].input[j]
  BY <1>1 DEF FileConsumers, NodeInputs, InFile
<1>3. j \in DOMAIN nodes[p].input /\ Serves(c, nodes[p].input[j])
  BY <1>1 DEF ForkPartInv, CarriesInv
<1>4. nodes[p].input[j] \in edge_map
  BY <1>3 DEF Ready, ToSet
<1> HIDE DEF c
<1>5. InFile(c) \in edge_map
  BY <1>2, <1>3, <1>4, SourceIsMade
<1>6. InFile(c) \in FileEdges
  BY <1>2, ConsumerShape
<1> QED BY <1>1, <1>2, <1>5, <1>6, MadeIsAvailable

LEMMA StartLoadingKeeps == IInv /\ StartLoading => QueueInv' /\ LoadInv'
<1> SUFFICES ASSUME IInv, StartLoading PROVE QueueInv' /\ LoadInv'
  OBVIOUS
<1>1. /\ keys = {} /\ phase' = "loading" /\ waiting' = [i \in 1 .. Len(nodes) |-> i]
      /\ count' = Len(nodes) /\ timer' = 0 /\ edge_map' = InputEdges
      /\ graph' = graph /\ nodes' = nodes /\ keys' = keys
  BY DEF StartLoading, forkVars
<1>2. Len(nodes) \in Nat /\ DOMAIN nodes = 1 .. Len(nodes)
  <2> HIDE DEF NodeRecords
  <2> QED BY DEF IInv, ForkPartInv, ListInv
<1>3. waiting' \in Seq(DOMAIN nodes) /\ Len(waiting') = Len(nodes)
  <2>1. waiting' \in [1 .. Len(nodes) -> DOMAIN nodes]
    BY <1>1, <1>2
  <2>2. Seq(DOMAIN nodes) = UNION {[1 .. n -> DOMAIN nodes] : n \in Nat}
    BY SeqDef
  <2>3. waiting' \in Seq(DOMAIN nodes)
    BY <1>2, <2>1, <2>2
  <2>4. Len(waiting') \in Nat /\ DOMAIN waiting' = 1 .. Len(waiting')
    BY <2>3, LenProperties
  <2>5. DOMAIN waiting' = 1 .. Len(nodes)
    BY <1>1
  <2>6. \A m, n \in Nat : 1 .. m = 1 .. n => m = n
    OBVIOUS
  <2>7. Len(waiting') = Len(nodes)
    BY <1>2, <2>4, <2>5, <2>6, Zenon
  <2> QED BY <2>3, <2>7
<1>4. DOMAIN waiting' = DOMAIN nodes /\ \A k \in DOMAIN waiting' : waiting'[k] = k
  BY <1>1, <1>2
<1>5. ToSet(waiting') = DOMAIN nodes
  BY <1>4 DEF ToSet
<1>6. Created' = {}
  BY <1>1, <1>5 DEF Created
<1>7. QueueInv'
  BY <1>1, <1>2, <1>3, <1>4 DEF QueueInv
<1>8. MadeInv'
  <2>1. InputEdges' = InputEdges
    BY <1>1 DEF InputEdges
  <2> QED BY <1>1, <1>6, <2>1 DEF MadeInv
<1>9. TimerInv'
  BY <1>1, <1>2, <1>3, <1>4 DEF TimerInv
<1> QED BY <1>1, <1>7, <1>8, <1>9 DEF LoadInv

LEMMA CreateStageKeeps == IInv /\ CreateStage => QueueInv' /\ LoadInv'
<1> SUFFICES ASSUME IInv, CreateStage PROVE QueueInv' /\ LoadInv'
  OBVIOUS
<1> DEFINE w == Head(waiting)
<1>1. /\ phase = "loading" /\ phase' = "loading" /\ waiting # <<>> /\ Ready(w) /\ waiting' = Tail(waiting)
      /\ edge_map' = edge_map \cup Outs(nodes[w].name, nodes[w].outs)
      /\ graph' = graph /\ nodes' = nodes /\ keys' = keys /\ count' = count /\ timer' = timer
  BY DEF CreateStage, forkVars
<1>2. QueueInv /\ MadeInv /\ TimerInv /\ ForkPartInv /\ FileTyped
  BY <1>1, FileIsTyped DEF IInv, LoadInv, ForkPartInv, ListInv
<1>3. waiting \in Seq(DOMAIN nodes) /\ Len(waiting) \in Nat /\ DOMAIN waiting = 1 .. Len(waiting)
      /\ Len(waiting) # 0
  BY <1>1, <1>2 DEF QueueInv
<1>4. w = waiting[1] /\ 1 \in DOMAIN waiting /\ w \in DOMAIN nodes
  BY <1>1, <1>3
<1>5. /\ waiting' \in Seq(DOMAIN nodes) /\ Len(waiting') = Len(waiting) - 1
      /\ DOMAIN waiting' = 1 .. Len(waiting) - 1
      /\ \A k \in DOMAIN waiting' : waiting'[k] = waiting[k + 1] /\ k + 1 \in DOMAIN waiting
  <2>1. /\ Tail(waiting) \in Seq(DOMAIN nodes) /\ Len(Tail(waiting)) = Len(waiting) - 1
        /\ \A k \in 1 .. Len(Tail(waiting)) : Tail(waiting)[k] = waiting[k + 1]
    BY <1>1, <1>3, HeadTailProperties
  <2>2. DOMAIN Tail(waiting) = 1 .. Len(waiting) - 1
    BY <2>1, LenProperties
  <2> QED BY <1>1, <1>3, <2>1, <2>2
<1> HIDE DEF w
<1>6. \A j, k \in DOMAIN waiting : waiting[j] = waiting[k] => j = k
  BY <1>2 DEF QueueInv
<1>7. QueueInv'
  <2>1. \A j, k \in DOMAIN waiting' : waiting'[j] = waiting'[k] => j = k
    <3> SUFFICES ASSUME NEW j \in DOMAIN waiting', NEW k \in DOMAIN waiting', waiting'[j] = waiting'[k]
                 PROVE  j = k
      OBVIOUS
    <3>1. j + 1 = k + 1 /\ j \in Int /\ k \in Int
      BY <1>5, <1>6
    <3> QED BY <3>1
  <2> QED BY <1>1, <1>2, <1>5, <2>1 DEF QueueInv
<1>8. Created' = Created \cup {w} /\ w \notin Created
  <2>1. ToSet(waiting) = ToSet(waiting') \cup {w}
    <3>1. \A k \in DOMAIN waiting : k = 1 \/ (k - 1 \in DOMAIN waiting' /\ waiting'[k - 1] = waiting[k])
      <4> SUFFICES ASSUME NEW k \in DOMAIN waiting, k # 1
                   PROVE  k - 1 \in DOMAIN waiting' /\ waiting'[k - 1] = waiting[k]
        OBVIOUS
      <4>1. k - 1 \in DOMAIN waiting' /\ (k - 1) + 1 = k
        BY <1>3, <1>5
      <4> QED BY <1>5, <4>1
    <3> QED BY <1>4, <1>5, <3>1 DEF ToSet
  <2>2. w \notin ToSet(waiting')
    <3>1. \A k \in DOMAIN waiting' : k + 1 # 1
      BY <1>5
    <3> QED BY <1>4, <1>5, <1>6, <3>1 DEF ToSet
  <2> QED BY <1>1, <1>4, <2>1, <2>2 DEF Created
<1>9. MadeInv'
  <2>1. edge_map' = InputEdges' \cup UNION {Outs(nodes'[p].name, nodes'[p].outs) : p \in Created'}
    <3>1. InputEdges' = InputEdges
      BY <1>1 DEF InputEdges
    <3>2. edge_map = InputEdges \cup UNION {Outs(nodes[p].name, nodes[p].outs) : p \in Created}
      BY <1>2 DEF MadeInv
    <3> QED BY <1>1, <1>8, <3>1, <3>2
  <2>2. \A p \in Created' : Ready(p)'
    <3>1. \A p \in Created' : Ready(p)
      BY <1>1, <1>2, <1>8 DEF MadeInv
    <3> QED BY <1>1, <3>1 DEF Ready
  <2>3. \A D : StuckGroup(D)' <=> StuckGroup(D)
    BY <1>1 DEF StuckGroup, Available, InputEdges
  <2>4. ASSUME NEW D \in SUBSET DOMAIN graph.nodes, StuckGroup(D), NEW p \in DOMAIN nodes, NEW i \in D,
               nodes[p].name = <<"node", i>>
        PROVE  p \notin Created'
    <3>1. p \notin Created
      BY <1>2, <2>4 DEF MadeInv
    <3>2. ~Ready(p)
      BY <1>2, <2>4, StuckIsNotReady
    <3> QED BY <1>1, <1>8, <3>1, <3>2
  <2> QED BY <1>1, <1>2, <2>1, <2>2, <2>3, <2>4 DEF MadeInv
<1>10. TimerInv'
  <2>1. Len(waiting') < count'
    <3> DEFINE l == Len(waiting)
               m == Len(waiting')
    <3>1. l \in Nat /\ m = l - 1 /\ l <= count /\ count' = count
      BY <1>1, <1>2, <1>3, <1>5 DEF TimerInv
    <3>2. count \in Int
      BY <1>2 DEF QueueInv
    <3> HIDE DEF l, m
    <3>3. m < count'
      BY <3>1, <3>2
    <3> QED BY <3>3 DEF m
  <2>2. Len(waiting') <= count' /\ Len(waiting') # count'
    <3> DEFINE m == Len(waiting')
    <3>1. m < count' /\ m \in Int /\ count' \in Int
      BY <1>1, <1>2, <1>3, <1>5, <2>1 DEF QueueInv
    <3> HIDE DEF m
    <3>2. m <= count' /\ m # count'
      BY <3>1
    <3> QED BY <3>2 DEF m
  <2> QED BY <2>2 DEF TimerInv
<1> QED BY <1>1, <1>7, <1>9, <1>10 DEF LoadInv

LEMMA PostponeKeeps == IInv /\ Postpone => phase' \in Phases /\ QueueInv' /\ LoadInv'
<1> SUFFICES ASSUME IInv, Postpone PROVE phase' \in Phases /\ QueueInv' /\ LoadInv'
  OBVIOUS
<1>1. /\ phase = "loading" /\ waiting # <<>> /\ ~Ready(Head(waiting))
      /\ IF Len(waiting) < count
         THEN count' = Len(waiting) /\ timer' = 0
         ELSE timer' = timer + 1 /\ count' = count
      /\ IF timer' > count'
         THEN phase' = "refused" /\ waiting' = waiting
         ELSE waiting' = Append(Tail(waiting), Head(waiting)) /\ phase' = phase
      /\ graph' = graph /\ nodes' = nodes /\ outputs' = outputs /\ keys' = keys /\ edge_map' = edge_map
  BY DEF Postpone, forkVars
<1>2. QueueInv /\ MadeInv /\ TimerInv /\ timer <= count
  BY <1>1 DEF IInv, LoadInv, QueueInv
<1> DEFINE l == Len(waiting)
<1>3. /\ waiting \in Seq(DOMAIN nodes) /\ l \in Nat /\ DOMAIN waiting = 1 .. l /\ l # 0
      /\ Head(waiting) = waiting[1] /\ waiting[1] \in DOMAIN nodes
  <2>1. waiting \in Seq(DOMAIN nodes)
    BY <1>2 DEF QueueInv
  <2>2. l \in Nat /\ DOMAIN waiting = 1 .. l /\ l # 0
    BY <1>1, <2>1
  <2> QED BY <1>1, <2>1, <2>2
<1>4. count \in Nat /\ timer \in Nat /\ l <= count /\ count <= Len(nodes) /\ Len(nodes) \in Nat
  <2>1. Len(nodes) \in Nat
    <3> HIDE DEF NodeRecords
    <3> QED BY DEF IInv, ForkPartInv, ListInv
  <2> QED BY <1>2, <2>1 DEF QueueInv, TimerInv
<1>5. \A k \in DOMAIN waiting : l = count /\ k > l - timer => ~Ready(waiting[k])
  BY <1>2 DEF TimerInv
<1>6. \A p : Ready(p)' <=> Ready(p)
  BY <1>1 DEF Ready
\* The queue as it is, or with its head at the end.
<1>7. /\ waiting' \in Seq(DOMAIN nodes) /\ Len(waiting') = l /\ DOMAIN waiting' = 1 .. l
      /\ ToSet(waiting') = ToSet(waiting)
      /\ \A j, k \in DOMAIN waiting' : waiting'[j] = waiting'[k] => j = k
      /\ timer' <= count' => \A k \in 1 .. l : waiting'[k] = IF k = l THEN waiting[1] ELSE waiting[k + 1]
  <2>0. \A j, k \in DOMAIN waiting : waiting[j] = waiting[k] => j = k
    BY <1>2 DEF QueueInv
  <2>1. CASE timer' > count'
    <3>1. waiting' = waiting
      BY <1>1, <2>1
    <3>2. ~(timer' <= count')
      BY <1>1, <1>4, <2>1
    <3> HIDE DEF l
    <3> QED BY <1>3, <2>0, <3>1, <3>2 DEF l
  <2>2. CASE ~(timer' > count')
    <3> DEFINE t == Tail(waiting)
    <3>1. waiting' = Append(t, waiting[1])
      BY <1>1, <1>3, <2>2
    <3>2. t \in Seq(DOMAIN nodes) /\ Len(t) = l - 1 /\ \A k \in 1 .. Len(t) : t[k] = waiting[k + 1]
      BY <1>1, <1>3, HeadTailProperties
    <3> HIDE DEF t
    <3>3. /\ waiting' \in Seq(DOMAIN nodes) /\ Len(waiting') = Len(t) + 1
          /\ \A k \in 1 .. Len(t) : waiting'[k] = t[k]
          /\ waiting'[Len(t) + 1] = waiting[1]
      <4> DEFINE S == DOMAIN nodes
                 h == waiting[1]
                 r == Append(t, h)
      <4>1. t \in Seq(S) /\ h \in S
        BY <1>3, <3>2
      <4> HIDE DEF S, h
      <4>2. /\ r \in Seq(S) /\ Len(r) = Len(t) + 1
            /\ \A k \in 1 .. Len(t) : r[k] = t[k]
            /\ r[Len(t) + 1] = h
        BY <4>1, AppendProperties
      <4>3. waiting' = r
        BY <3>1 DEF h
      <4> HIDE DEF r
      <4> QED BY <4>2, <4>3 DEF S, h
    <3>4. Len(waiting') = l /\ DOMAIN waiting' = 1 .. Len(waiting')
      <4>1. DOMAIN waiting' = 1 .. Len(waiting')
        BY <3>3, LenProperties
      <4> DEFINE m == Len(waiting')
                 n == Len(t)
      <4>2. m = n + 1 /\ n = l - 1 /\ l \in Nat
        BY <1>3, <3>2, <3>3
      <4> HIDE DEF m, n, l
      <4>3. m = l
        BY <4>2
      <4> QED BY <4>1, <4>3 DEF m
    <3> HIDE DEF l
    <3>5. \A k \in 1 .. l : waiting'[k] = IF k = l THEN waiting[1] ELSE waiting[k + 1]
      <4> SUFFICES ASSUME NEW k \in 1 .. l
                   PROVE  waiting'[k] = IF k = l THEN waiting[1] ELSE waiting[k + 1]
        OBVIOUS
      <4>1. CASE k = l
        BY <1>3, <3>2, <3>3, <4>1
      <4>2. CASE k # l
        <5>1. k \in 1 .. Len(t)
          BY <1>3, <3>2, <4>2
        <5> QED BY <3>2, <3>3, <4>2, <5>1
      <4> QED BY <4>1, <4>2
    <3>6. ToSet(waiting') = ToSet(waiting)
      <4>1. \A k \in 1 .. l : \E j \in 1 .. l : waiting'[k] = waiting[j]
        <5>1. \A k \in 1 .. l : k # l => k + 1 \in 1 .. l
          BY <1>3
        <5>2. 1 \in 1 .. l
          BY <1>3
        <5> QED BY <3>5, <5>1, <5>2
      <4>2. \A j \in 1 .. l : \E k \in 1 .. l : waiting'[k] = waiting[j]
        <5> SUFFICES ASSUME NEW j \in 1 .. l PROVE \E k \in 1 .. l : waiting'[k] = waiting[j]
          OBVIOUS
        <5>1. CASE j = 1
          BY <1>3, <3>5, <5>1
        <5>2. CASE j # 1
          <6>1. j - 1 \in 1 .. l /\ j - 1 # l /\ (j - 1) + 1 = j
            BY <1>3, <5>2
          <6> QED BY <3>5, <6>1
        <5> QED BY <5>1, <5>2
      <4>3. DOMAIN waiting' = 1 .. l /\ DOMAIN waiting = 1 .. l
        BY <1>3, <3>4
      <4>4. ToSet(waiting') = {waiting'[k] : k \in 1 .. l} /\ ToSet(waiting) = {waiting[k] : k \in 1 .. l}
        BY <4>3 DEF ToSet
      <4>5. {waiting'[k] : k \in 1 .. l} = {waiting[k] : k \in 1 .. l}
        BY <4>1, <4>2
      <4> QED BY <4>4, <4>5
    <3>7. \A j, k \in DOMAIN waiting' : waiting'[j] = waiting'[k] => j = k
      <4> SUFFICES ASSUME NEW j \in 1 .. l, NEW k \in 1 .. l, waiting'[j] = waiting'[k] PROVE j = k
        BY <3>4
      <4> DEFINE from(i) == IF i = l THEN 1 ELSE i + 1
      <4>1. \A i \in 1 .. l : from(i) \in 1 .. l /\ waiting'[i] = waiting[from(i)]
        BY <1>3, <3>5
      <4>2. from(j) = from(k)
        <5> HIDE DEF from
        <5> QED BY <1>3, <2>0, <4>1
      <4> QED BY <1>3, <4>2
    <3> QED BY <3>3, <3>4, <3>5, <3>6, <3>7
  <2> QED BY <2>1, <2>2
<1> HIDE DEF l
<1>8. Created' = Created
  BY <1>1, <1>7 DEF Created
<1>9. MadeInv'
  <2>1. InputEdges' = InputEdges /\ \A D : StuckGroup(D)' <=> StuckGroup(D)
    BY <1>1 DEF StuckGroup, Available, InputEdges
  <2> QED BY <1>1, <1>2, <1>6, <1>8, <2>1 DEF MadeInv
<1>10. /\ count' \in 0 .. Len(nodes) /\ timer' \in 0 .. count' + 1 /\ l <= count'
       /\ phase' = "loading" => timer' <= count'
  BY <1>1, <1>2, <1>3, <1>4 DEF l
<1>11. QueueInv'
  BY <1>1, <1>7, <1>10 DEF QueueInv
<1>12. \A k \in 1 .. l : l = count' /\ k > l - timer' => ~Ready(waiting'[k])
  <2> SUFFICES ASSUME NEW k \in 1 .. l, l = count', k > l - timer' PROVE ~Ready(waiting'[k])
    OBVIOUS
  <2>1. l = count /\ timer' = timer + 1
    BY <1>1, <1>3, <1>4 DEF l
  <2>2. ~Ready(waiting[1])
    BY <1>1, <1>3
  <2>3. CASE timer' > count'
    <3>1. waiting' = waiting /\ k \in DOMAIN waiting /\ (k = 1 \/ k > l - timer)
      BY <1>1, <1>2, <1>3, <1>4, <2>1, <2>3
    <3> QED BY <1>5, <2>1, <2>2, <3>1
  <2>4. CASE timer' <= count'
    <3>1. CASE k = l
      BY <1>7, <2>2, <2>4, <3>1
    <3>2. CASE k # l
      <4>1. k + 1 \in DOMAIN waiting /\ k + 1 > l - timer
        BY <1>3, <1>4, <2>1, <3>2
      <4>2. waiting'[k] = waiting[k + 1]
        BY <1>7, <2>4, <3>2
      <4> QED BY <1>5, <2>1, <4>1, <4>2
    <3> QED BY <3>1, <3>2
  <2>5. timer' > count' \/ timer' <= count'
    BY <1>10, <1>4
  <2> QED BY <2>3, <2>4, <2>5
<1>13. TimerInv'
  BY <1>6, <1>7, <1>10, <1>12 DEF TimerInv
<1>14. phase' = "refused" => waiting' # <<>> /\ \A k \in DOMAIN waiting' : ~Ready(waiting[k])'
  <2> SUFFICES ASSUME phase' = "refused"
               PROVE  waiting' # <<>> /\ \A k \in DOMAIN waiting' : ~Ready(waiting[k])'
    OBVIOUS
  <2>1. timer' > count' /\ waiting' = waiting
    BY <1>1
  <2>2. l = count' /\ timer' > l
    BY <1>1, <1>3, <1>4, <2>1 DEF l
  <2>3. \A k \in 1 .. l : k > l - timer'
    BY <1>3, <1>10, <2>2
  <2>4. \A k \in 1 .. l : ~Ready(waiting'[k])
    BY <1>12, <2>2, <2>3
  <2> QED BY <1>1, <1>6, <1>7, <2>1, <2>4
<1>15. phase' \in {"loading", "refused"}
  BY <1>1
<1>16. LoadInv'
  BY <1>9, <1>13, <1>14, <1>15 DEF LoadInv
<1> QED BY <1>11, <1>15, <1>16 DEF Phases

LEMMA IInvInit == Init => IInv
<1> SUFFICES ASSUME Init PROVE IInv
  OBVIOUS
<1>1. phase = "forking" /\ waiting = <<>> /\ count = 0 /\ timer = 0
  BY DEF Init
<1>2. Len(nodes) \in Nat
  <2> HIDE DEF NodeRecords
  <2> QED BY ForkPartInit DEF ForkPartInv, ListInv
<1>3. QueueInv
  BY <1>1, <1>2 DEF QueueInv
<1> QED BY <1>1, <1>3, ForkPartInit DEF IInv, LoadInv, Phases

LEMMA IInvStep == IInv /\ [Next]_vars => IInv'
<1> SUFFICES ASSUME IInv, [Next]_vars PROVE IInv'
  OBVIOUS
<1>1. ForkPartInv'
  BY ForkPartStep DEF IInv
<1>2. CASE SkipKey \/ InsertFork \/ ForkCrash
  <2>1. UNCHANGED loadVars /\ phase = "forking" /\ phase' \in {"forking", "crashed"}
    BY <1>2 DEF SkipKey, InsertFork, ForkCrash
  <2>2. DOMAIN nodes \subseteq DOMAIN nodes' /\ Len(nodes) \in Nat /\ Len(nodes') \in Nat
        /\ Len(nodes) <= Len(nodes')
    <3>1. Len(nodes) = Len(graph.nodes) + forks /\ Len(nodes') = Len(graph'.nodes) + forks'
          /\ graph' = graph /\ forks' \in {forks, forks + 1} /\ forks \in Nat /\ Len(graph.nodes) \in Nat
      <4>1. FileTyped
        BY FileIsTyped DEF IInv, ForkPartInv, ListInv
      <4> QED BY <1>1, <1>2, <4>1, FileParts
              DEF IInv, ForkPartInv, ListInv, SkipKey, InsertFork, ForkCrash, forkVars
    <3>2. DOMAIN nodes = 1 .. Len(nodes) /\ DOMAIN nodes' = 1 .. Len(nodes')
      <4> HIDE DEF NodeRecords
      <4> QED BY <1>1 DEF IInv, ForkPartInv, ListInv
    <3> DEFINE m == Len(nodes)
               n == Len(nodes')
               g == Len(graph.nodes)
    <3>3. m = g + forks /\ n = g + forks' /\ g \in Nat /\ forks \in Nat /\ forks' \in {forks, forks + 1}
      BY <3>1
    <3> HIDE DEF m, n, g
    <3>4. m \in Nat /\ n \in Nat /\ m <= n
      <4>1. CASE forks' = forks
        BY <3>3, <4>1
      <4>2. CASE forks' = forks + 1
        BY <3>3, <4>2
      <4> QED BY <3>3, <4>1, <4>2
    <3> QED BY <3>2, <3>4 DEF m, n
  <2>3. waiting \in Seq(DOMAIN nodes')
    BY <2>2 DEF IInv, QueueInv
  <2>4. QueueInv'
    BY <2>1, <2>2, <2>3 DEF IInv, QueueInv, loadVars
  <2> QED BY <1>1, <2>1, <2>4 DEF IInv, LoadInv, Phases
<1>3. CASE StartLoading
  BY <1>1, <1>3, StartLoadingKeeps DEF IInv, Phases, StartLoading
<1>4. CASE CreateStage
  BY <1>1, <1>4, CreateStageKeeps DEF IInv, CreateStage
<1>5. CASE Postpone
  BY <1>1, <1>5, PostponeKeeps DEF IInv
<1>6. CASE Finish \/ UNCHANGED vars
  <2>1. UNCHANGED <<graph, nodes, outputs, keys, waiting, count, timer, edge_map>>
        /\ \/ phase' = phase
           \/ /\ phase = "loading" /\ waiting = <<>> /\ phase' \in {"loaded", "crashed"}
              /\ phase' = "loaded" => \A i \in DOMAIN outputs : ToSet(outputs[i]) \subseteq edge_map
    BY <1>6 DEF Finish, vars, forkVars, loadVars
  <2>2. \A p : Ready(p)' <=> Ready(p)
    BY <2>1 DEF Ready
  <2>3. InputEdges' = InputEdges /\ (\A D : StuckGroup(D)' <=> StuckGroup(D)) /\ Created' = Created
    BY <2>1 DEF StuckGroup, Available, InputEdges, Created
  <2>4. MadeInv => MadeInv'
    BY <2>1, <2>2, <2>3 DEF MadeInv
  <2>5. TimerInv => TimerInv'
    BY <2>1, <2>2 DEF TimerInv
  <2>6. QueueInv'
    BY <2>1 DEF IInv, QueueInv
  <2>7. LoadInv'
    BY <2>1, <2>2, <2>4, <2>5 DEF IInv, LoadInv
  <2> QED BY <1>1, <2>1, <2>6, <2>7 DEF IInv, Phases
<1> QED BY <1>2, <1>3, <1>4, <1>5, <1>6 DEF Next

THEOREM Invariant == Spec => []IInv
<1> QED BY IInvInit, IInvStep, PTL DEF Spec

-------------------------------------------------------------------------------
(* What the invariant gives.                                                   *)

THEOREM TypeIsCorrect == Spec => []TypeOK
<1>1. IInv => TypeOK
  <2> SUFFICES ASSUME IInv PROVE TypeOK
    OBVIOUS
  <2>1. \A k \in 0 .. forks - 1 : \E n \in ToSet(nodes) : n.name = <<"fork", k>>
    <3>1. \A k \in 0 .. forks - 1 : \E p \in DOMAIN nodes : nodes[p].name = <<"fork", k>>
      BY DEF IInv, ForkPartInv, ListInv
    <3>2. \A p \in DOMAIN nodes : nodes[p] \in ToSet(nodes)
      BY DEF ToSet
    <3> QED BY <3>1, <3>2
  <2>2. ToSet(waiting) \subseteq DOMAIN nodes
    <3> DEFINE S == DOMAIN nodes
    <3>1. waiting \in Seq(S)
      BY DEF IInv, QueueInv
    <3> HIDE DEF S
    <3>2. \A k \in DOMAIN waiting : waiting[k] \in S
      BY <3>1
    <3> QED BY <3>2 DEF ToSet, S
  <2>3. Len(nodes) = Len(graph.nodes) + forks
    BY DEF IInv, ForkPartInv, ListInv
  <2> QED BY <2>1, <2>2, <2>3 DEF IInv, QueueInv, Phases, TypeOK
<1> QED BY <1>1, Invariant, PTL

\* One edge serves one consumer of the file.
LEMMA ServesOne ==
  ASSUME ForkPartInv, FileTyped, keys = {}, NEW c \in FileConsumers, NEW d \in FileConsumers, NEW e,
         Serves(c, e), Serves(d, e)
  PROVE  c = d
<1>1. InFile(c) \in FileEdges /\ InFile(d) \in FileEdges
  BY ConsumerShape
<1>2. CASE ~Shared(InFile(c)) /\ ~Shared(InFile(d))
  <2>1. InFile(c) = InFile(d)
    BY <1>2 DEF Serves
  <2>2. c \in Consumers(InFile(c)) /\ d \in Consumers(InFile(c))
    BY <2>1 DEF Consumers
  <2> QED BY <1>2, <2>2, Unshared
<1>3. CASE Shared(InFile(c)) # Shared(InFile(d))
  <2>1. \A x \in FileEdges : x[1] # "fork"
    BY DEF FileEdges
  <2>2. ~Shared(InFile(c)) \/ ~Shared(InFile(d))
    BY <1>3 DEF Shared
  <2>3. e[1] # "fork"
    BY <1>1, <2>1, <2>2 DEF Serves
  <2>4. Shared(InFile(c)) \/ Shared(InFile(d))
    BY <1>3 DEF Shared
  <2>5. e[1] = "fork"
    BY <2>4 DEF Serves
  <2> QED BY <2>3, <2>5
<1>4. CASE Shared(InFile(c)) /\ Shared(InFile(d))
  <2>1. PICK p \in DOMAIN nodes :
          /\ IsFork(p) /\ nodes[p].input[1] = InFile(c)
          /\ e = <<"fork", nodes[p].name[2], ForkOutput(InFile(c), c)>>
    BY <1>4 DEF Serves
  <2>2. PICK q \in DOMAIN nodes :
          /\ IsFork(q) /\ nodes[q].input[1] = InFile(d)
          /\ e = <<"fork", nodes[q].name[2], ForkOutput(InFile(d), d)>>
    BY <1>4 DEF Serves
  <2>3. p = q
    <3>1. \A r \in DOMAIN nodes : \/ \E i : nodes[r].name = <<"node", i>>
                                 \/ \E k : nodes[r].name = <<"fork", k>>
      BY DEF ForkPartInv, ListInv
    <3>2. nodes[p].name = nodes[q].name
      BY <2>1, <2>2, <3>1 DEF IsFork
    <3> QED BY <3>2 DEF ForkPartInv, ListInv
  <2>4. c \in Consumers(InFile(c)) /\ d \in Consumers(InFile(c)) /\ InFile(d) = InFile(c)
    BY <2>1, <2>2, <2>3 DEF Consumers
  <2>5. ForkOutput(InFile(c), c) = ForkOutput(InFile(c), d)
    BY <2>1, <2>2, <2>4
  <2> QED BY <2>4, <2>5, ForkOutputs
<1>5. Shared(InFile(c)) \in BOOLEAN /\ Shared(InFile(d)) \in BOOLEAN
  BY DEF Shared
<1> QED BY <1>2, <1>3, <1>4, <1>5

\* The file's consumer behind a consumer of the list: none for a fork's input.
LEMMA ListConsumers ==
  ASSUME ForkPartInv, FileTyped, NEW c \in NodeInputs(nodes) \cup OutputEdges(outputs)
  PROVE  \/ \E p \in DOMAIN nodes : IsFork(p) /\ c = <<"node", p, 1>> /\ Carried(c) = nodes[p].input[1]
         \/ \E p \in DOMAIN nodes, f \in FileConsumers :
              /\ c = <<"node", p, f[3]>> /\ f[1] = "node" /\ nodes[p].name = <<"node", f[2]>>
              /\ Serves(f, Carried(c))
         \/ c \in FileConsumers /\ c[1] = "graph_output" /\ Serves(c, Carried(c))
<1>1. CASE c \in NodeInputs(nodes)
  <2>1. PICK p \in DOMAIN nodes : \E j \in DOMAIN nodes[p].input : c = <<"node", p, j>>
    BY <1>1 DEF NodeInputs
  <2>2. PICK j \in DOMAIN nodes[p].input : c = <<"node", p, j>>
    BY <2>1
  <2>3. Carried(c) = nodes[p].input[j]
    BY <2>2 DEF Carried
  <2>4. CASE IsFork(p)
    <3>1. j = 1
      BY <2>4 DEF ForkPartInv, ForkInv
    <3> QED BY <2>2, <2>3, <2>4, <3>1
  <2>5. CASE ~IsFork(p)
    <3>1. PICK i \in DOMAIN graph.nodes : nodes[p].name = <<"node", i>>
      BY <2>5 DEF ForkPartInv, ListInv, IsFork
    <3> DEFINE f == <<"node", i, j>>
    <3>2. j \in DOMAIN graph.nodes[i].input /\ Serves(f, nodes[p].input[j])
      BY <3>1 DEF ForkPartInv, CarriesInv
    <3>3. f \in FileConsumers
      BY <3>2 DEF FileConsumers, NodeInputs
    <3>4. f[1] = "node" /\ f[2] = i /\ f[3] = j
      OBVIOUS
    <3> HIDE DEF f
    <3> QED BY <2>2, <2>3, <3>1, <3>2, <3>3, <3>4
  <2> QED BY <2>4, <2>5
<1>2. CASE c \in OutputEdges(outputs)
  <2>1. PICK i \in DOMAIN outputs : \E j \in DOMAIN outputs[i] : c = <<"graph_output", i, j>>
    BY <1>2 DEF OutputEdges
  <2>2. PICK j \in DOMAIN outputs[i] : c = <<"graph_output", i, j>>
    BY <2>1
  <2>3. /\ i \in DOMAIN graph.outputs /\ j \in DOMAIN graph.outputs[i]
        /\ Serves(c, outputs[i][j])
    BY <2>2 DEF ForkPartInv, CarriesInv
  <2>4. c \in FileConsumers /\ Carried(c) = outputs[i][j] /\ c[1] = "graph_output"
    BY <2>2, <2>3 DEF FileConsumers, OutputEdges, Carried
  <2> QED BY <2>3, <2>4
<1> QED BY <1>1, <1>2

THEOREM EdgesHaveOneConsumer == Spec => []OneConsumer
<1>1. IInv => OneConsumer
  <2> SUFFICES ASSUME IInv, phase \notin {"forking", "crashed"},
                      NEW c \in NodeInputs(nodes) \cup OutputEdges(outputs),
                      NEW d \in NodeInputs(nodes) \cup OutputEdges(outputs), Carried(c) = Carried(d)
               PROVE  c = d
    BY DEF OneConsumer
  <2>1. ForkPartInv /\ FileTyped /\ keys = {}
    BY FileIsTyped DEF IInv, LoadInv, MadeInv, Phases, ForkPartInv, ListInv
  <2> DEFINE Fork(x) == \E p \in DOMAIN nodes :
                          IsFork(p) /\ x = <<"node", p, 1>> /\ Carried(x) = nodes[p].input[1]
             Node(x) == \E p \in DOMAIN nodes, f \in FileConsumers :
                          /\ x = <<"node", p, f[3]>> /\ f[1] = "node" /\ nodes[p].name = <<"node", f[2]>>
                          /\ Serves(f, Carried(x))
             Output(x) == x \in FileConsumers /\ x[1] = "graph_output" /\ Serves(x, Carried(x))
  <2>2. (Fork(c) \/ Node(c) \/ Output(c)) /\ (Fork(d) \/ Node(d) \/ Output(d))
    BY <2>1, ListConsumers
  \* No consumer of the file is served by an edge that goes into a fork.
  <2>3. \A p \in DOMAIN nodes, f \in FileConsumers : IsFork(p) => ~Serves(f, nodes[p].input[1])
    <3> SUFFICES ASSUME NEW p \in DOMAIN nodes, NEW f \in FileConsumers, IsFork(p),
                        Serves(f, nodes[p].input[1])
                 PROVE  FALSE
      OBVIOUS
    <3>1. nodes[p].input[1] \in Keys /\ Shared(nodes[p].input[1])
      BY <2>1 DEF ForkPartInv, ForkInv
    <3>2. nodes[p].input[1] \in FileEdges
      BY <2>1, <3>1, ConsumerShape DEF Keys
    <3>3. nodes[p].input[1][1] # "fork"
      BY <3>2 DEF FileEdges
    <3> QED BY <2>1, <3>1, <3>3 DEF Serves
  <2>4. CASE Fork(c) /\ Fork(d)
    BY <2>1, <2>4 DEF ForkPartInv, ForkInv
  <2>5. CASE Fork(c) /\ (Node(d) \/ Output(d))
    BY <2>3, <2>5
  <2>6. CASE (Node(c) \/ Output(c)) /\ Fork(d)
    BY <2>3, <2>6
  <2>7. CASE Node(c) /\ Node(d)
    <3>1. PICK p \in DOMAIN nodes, f \in FileConsumers :
            /\ c = <<"node", p, f[3]>> /\ f[1] = "node" /\ nodes[p].name = <<"node", f[2]>>
            /\ Serves(f, Carried(c))
      BY <2>7
    <3>2. PICK q \in DOMAIN nodes, g \in FileConsumers :
            /\ d = <<"node", q, g[3]>> /\ g[1] = "node" /\ nodes[q].name = <<"node", g[2]>>
            /\ Serves(g, Carried(d))
      BY <2>7
    <3>3. Serves(g, Carried(c))
      BY <3>2
    <3>4. f = g
      BY <2>1, <3>1, <3>3, ServesOne
    <3>5. p = q
      BY <2>1, <3>1, <3>2, <3>4 DEF ForkPartInv, ListInv
    <3> QED BY <3>1, <3>2, <3>4, <3>5
  <2>8. CASE Node(c) /\ Output(d)
    <3>1. PICK f \in FileConsumers : f[1] = "node" /\ Serves(f, Carried(c))
      BY <2>8
    <3>2. d \in FileConsumers /\ d[1] = "graph_output" /\ Serves(d, Carried(d))
      BY <2>8
    <3>3. f = d
      BY <2>1, <3>1, <3>2, ServesOne
    <3> QED BY <3>1, <3>2, <3>3
  <2>9. CASE Output(c) /\ Node(d)
    <3>1. PICK f \in FileConsumers : f[1] = "node" /\ Serves(f, Carried(d))
      BY <2>9
    <3>2. c \in FileConsumers /\ c[1] = "graph_output" /\ Serves(c, Carried(c))
      BY <2>9
    <3>3. f = c
      BY <2>1, <3>1, <3>2, ServesOne
    <3> QED BY <3>1, <3>2, <3>3
  <2>10. CASE Output(c) /\ Output(d)
    <3>1. Serves(c, Carried(c)) /\ Serves(d, Carried(c)) /\ c \in FileConsumers /\ d \in FileConsumers
      BY <2>10
    <3> QED BY <2>1, <3>1, ServesOne
  <2> HIDE DEF Fork, Node, Output
  <2> QED BY <2>2, <2>4, <2>5, <2>6, <2>7, <2>8, <2>9, <2>10
<1> QED BY <1>1, Invariant, PTL

LEMMA OriginIsInFile ==
  ASSUME ForkPartInv, FileTyped, NEW c \in FileConsumers, NEW e, Serves(c, e)
  PROVE  Origin(e) = InFile(c)
<1>1. CASE InFile(c) \in keys \/ ~Shared(InFile(c))
  <2>1. e = InFile(c) /\ InFile(c) \in FileEdges
    BY <1>1, ConsumerShape DEF Serves
  <2>2. e[1] # "fork"
    BY <2>1 DEF FileEdges
  <2> QED BY <2>1, <2>2 DEF Origin
<1>2. CASE ~(InFile(c) \in keys \/ ~Shared(InFile(c)))
  <2>1. PICK p \in DOMAIN nodes :
          /\ IsFork(p) /\ nodes[p].input[1] = InFile(c)
          /\ e = <<"fork", nodes[p].name[2], ForkOutput(InFile(c), c)>>
    BY <1>2 DEF Serves
  <2>2. nodes[p].name = <<"fork", e[2]>>
    BY <2>1 DEF IsFork, ForkPartInv, ListInv
  <2> DEFINE n == CHOOSE n \in ToSet(nodes) : n.name = <<"fork", e[2]>>
  <2>3. nodes[p] \in ToSet(nodes)
    BY DEF ToSet
  <2>4. n \in ToSet(nodes) /\ n.name = <<"fork", e[2]>>
    BY <2>2, <2>3
  <2>5. \E q \in DOMAIN nodes : n = nodes[q]
    BY <2>4 DEF ToSet
  <2> HIDE DEF n
  <2>6. n = nodes[p]
    BY <2>2, <2>4, <2>5 DEF ForkPartInv, ListInv
  <2>7. Origin(e) = n.input[1]
    BY <2>1 DEF Origin, n
  <2> QED BY <2>1, <2>6, <2>7
<1> QED BY <1>1, <1>2

THEOREM SourcesAreKept == Spec => []SameSources
<1>1. IInv => SameSources
  <2> SUFFICES ASSUME IInv PROVE SameSources
    OBVIOUS
  <2>1. ForkPartInv /\ FileTyped
    BY FileIsTyped DEF IInv, ForkPartInv, ListInv
  <2>2. ASSUME NEW i \in DOMAIN graph.nodes
        PROVE  \E n \in ToSet(nodes) :
                 /\ n.name = <<"node", i>>
                 /\ [j \in DOMAIN n.input |-> Origin(n.input[j])] = graph.nodes[i].input
    <3>1. PICK p \in DOMAIN nodes : nodes[p].name = <<"node", i>>
      BY <2>1 DEF ForkPartInv, ListInv
    <3> DEFINE n == nodes[p]
               file == graph.nodes[i].input
    <3>2. DOMAIN n.input = DOMAIN file /\ \A j \in DOMAIN n.input : Serves(<<"node", i, j>>, n.input[j])
      BY <2>1, <3>1 DEF ForkPartInv, CarriesInv
    <3>3. ASSUME NEW j \in DOMAIN n.input PROVE Origin(n.input[j]) = file[j]
      <4> DEFINE c == <<"node", i, j>>
      <4>1. c \in FileConsumers /\ InFile(c) = file[j]
        BY <3>2 DEF FileConsumers, NodeInputs, InFile
      <4>2. Serves(c, n.input[j])
        BY <3>2
      <4> HIDE DEF c
      <4> QED BY <2>1, <4>1, <4>2, OriginIsInFile
    <3>4. file = [j \in DOMAIN file |-> file[j]]
      <4>1. file \in Seq(FileEdges)
        BY <2>1, FileParts
      <4> HIDE DEF file, FileEdges
      <4> QED BY <4>1
    <3>5. n \in ToSet(nodes)
      BY DEF ToSet
    <3> HIDE DEF file
    <3>6. [j \in DOMAIN n.input |-> Origin(n.input[j])] = file
      BY <3>2, <3>3, <3>4
    <3> QED BY <3>1, <3>5, <3>6 DEF file
  <2>3. [i \in DOMAIN outputs |-> [j \in DOMAIN outputs[i] |-> Origin(outputs[i][j])]] = graph.outputs
    <3>1. ASSUME NEW i \in DOMAIN outputs
          PROVE  [j \in DOMAIN outputs[i] |-> Origin(outputs[i][j])] = graph.outputs[i]
      <4> DEFINE file == graph.outputs[i]
      <4>1. /\ i \in DOMAIN graph.outputs /\ DOMAIN outputs[i] = DOMAIN file
            /\ \A j \in DOMAIN outputs[i] : Serves(<<"graph_output", i, j>>, outputs[i][j])
        BY <2>1 DEF ForkPartInv, CarriesInv
      <4>2. ASSUME NEW j \in DOMAIN outputs[i] PROVE Origin(outputs[i][j]) = file[j]
        <5> DEFINE c == <<"graph_output", i, j>>
        <5>1. c \in FileConsumers /\ InFile(c) = file[j]
          BY <4>1 DEF FileConsumers, OutputEdges, InFile
        <5>2. Serves(c, outputs[i][j])
          BY <4>1
        <5> HIDE DEF c
        <5> QED BY <2>1, <5>1, <5>2, OriginIsInFile
      <4>3. file = [j \in DOMAIN file |-> file[j]]
        <5>1. file \in Seq(FileEdges)
          BY <2>1, <4>1, FileParts
        <5> HIDE DEF file, FileEdges
        <5> QED BY <5>1
      <4> HIDE DEF file
      <4>4. [j \in DOMAIN outputs[i] |-> Origin(outputs[i][j])] = file
        BY <4>1, <4>2, <4>3
      <4> QED BY <4>4 DEF file
    <3>2. graph.outputs = [i \in DOMAIN graph.outputs |-> graph.outputs[i]]
      <4> DEFINE T == Seq(FileEdges)
                 file == graph.outputs
      <4>1. file \in Seq(T)
        BY <2>1 DEF FileTyped
      <4> HIDE DEF file, T
      <4>2. file = [i \in DOMAIN file |-> file[i]]
        BY <4>1
      <4> QED BY <4>2 DEF file
    <3>3. DOMAIN outputs = DOMAIN graph.outputs
      BY <2>1 DEF ForkPartInv, CarriesInv
    <3> QED BY <3>1, <3>2, <3>3
  <2> QED BY <2>2, <2>3 DEF SameSources
<1> QED BY <1>1, Invariant, PTL

-------------------------------------------------------------------------------
(* Refused or loaded.                                                          *)

Complete ==
  /\ \A D \in SUBSET DOMAIN graph.nodes : StuckGroup(D) => D = {}
  /\ \A i \in DOMAIN graph.outputs : ToSet(graph.outputs[i]) \subseteq Available({})

LEMMA LoadedIsComplete ==
  ASSUME IInv, phase = "loaded"
  PROVE  Complete
<1>1. ForkPartInv /\ FileTyped /\ MadeInv /\ waiting = <<>>
      /\ \A i \in DOMAIN outputs : ToSet(outputs[i]) \subseteq edge_map
  BY FileIsTyped DEF IInv, LoadInv, ForkPartInv, ListInv
<1>2. Created = DOMAIN nodes
  <2>1. DOMAIN <<>> = {}
    OBVIOUS
  <2>2. ToSet(waiting) = {}
    BY <1>1, <2>1, Zenon DEF ToSet
  <2> QED BY <2>2 DEF Created
<1>3. ASSUME NEW D \in SUBSET DOMAIN graph.nodes, StuckGroup(D), NEW i \in D PROVE FALSE
  <2>1. PICK p \in DOMAIN nodes : nodes[p].name = <<"node", i>>
    BY <1>1 DEF ForkPartInv, ListInv
  <2> QED BY <1>1, <1>2, <1>3, <2>1 DEF MadeInv
<1>4. ASSUME NEW i \in DOMAIN graph.outputs, NEW j \in DOMAIN graph.outputs[i]
      PROVE  graph.outputs[i][j] \in Available({})
  <2> DEFINE c == <<"graph_output", i, j>>
  <2>1. c \in FileConsumers /\ InFile(c) = graph.outputs[i][j]
    BY DEF FileConsumers, OutputEdges, InFile
  <2>2. i \in DOMAIN outputs /\ j \in DOMAIN outputs[i] /\ Serves(c, outputs[i][j])
    BY <1>1 DEF ForkPartInv, CarriesInv
  <2>3. outputs[i][j] \in edge_map
    BY <1>1, <2>2 DEF ToSet
  <2> HIDE DEF c
  <2>4. InFile(c) \in edge_map /\ InFile(c) \in FileEdges
    BY <1>1, <2>1, <2>2, <2>3, SourceIsMade, ConsumerShape
  <2>5. {} \in SUBSET DOMAIN graph.nodes /\ StuckGroup({})
    BY DEF StuckGroup
  <2> QED BY <1>1, <2>1, <2>4, <2>5, MadeIsAvailable
<1> QED BY <1>3, <1>4 DEF Complete, ToSet

LEMMA RefusedIsIncomplete ==
  ASSUME IInv, phase = "refused"
  PROVE  ~Complete
<1>1. ForkPartInv /\ FileTyped /\ MadeInv /\ waiting # <<>> /\ QueueInv
      /\ \A k \in DOMAIN waiting : ~Ready(waiting[k])
  BY FileIsTyped DEF IInv, LoadInv, ForkPartInv, ListInv
<1> DEFINE D == {i \in DOMAIN graph.nodes : \E p \in ToSet(waiting) : nodes[p].name = <<"node", i>>}
<1>2. \A p \in ToSet(waiting) : p \in DOMAIN nodes /\ ~Ready(p)
  <2> DEFINE S == DOMAIN nodes
  <2>1. waiting \in Seq(S)
    BY <1>1 DEF QueueInv
  <2> HIDE DEF S
  <2>2. \A k \in DOMAIN waiting : waiting[k] \in S
    BY <2>1
  <2> QED BY <1>1, <2>2 DEF ToSet, S
\* Everything that does not come from the waiting nodes is there.
<1>3. Available(D) \subseteq edge_map
  <2>1. ASSUME NEW i \in DOMAIN graph.nodes \ D
        PROVE  Outs(<<"node", i>>, graph.nodes[i].outs) \subseteq edge_map
    <3>1. PICK p \in DOMAIN nodes : nodes[p].name = <<"node", i>>
      BY <1>1 DEF ForkPartInv, ListInv
    <3>2. p \in Created
      BY <3>1 DEF Created
    <3>3. nodes[p].outs = graph.nodes[i].outs
      BY <1>1, <3>1 DEF ForkPartInv, CarriesInv
    <3>4. Outs(nodes[p].name, nodes[p].outs) \subseteq edge_map
      BY <1>1, <3>2 DEF MadeInv
    <3> QED BY <3>1, <3>3, <3>4
  <2>2. InputEdges \subseteq edge_map
    BY <1>1 DEF MadeInv
  <2> HIDE DEF D
  <2> QED BY <2>1, <2>2 DEF Available
\* A fork that waits, waits for an edge that is not there.
<1>4. \A p \in ToSet(waiting) : IsFork(p) => nodes[p].input[1] \notin edge_map /\ nodes[p].input[1] \in Keys
  <2> SUFFICES ASSUME NEW p \in ToSet(waiting), IsFork(p)
               PROVE  nodes[p].input[1] \notin edge_map /\ nodes[p].input[1] \in Keys
    OBVIOUS
  <2>1. DOMAIN nodes[p].input = {1} /\ nodes[p].input[1] \in Keys
    BY <1>1, <1>2 DEF ForkPartInv, ForkInv
  <2> QED BY <1>2, <2>1 DEF Ready, ToSet
<1>5. ASSUME NEW c \in FileConsumers, NEW e, Serves(c, e), e \notin edge_map
      PROVE  InFile(c) \notin edge_map
  <2>1. CASE ~Shared(InFile(c))
    BY <1>1, <1>5, <2>1 DEF Serves, MadeInv
  <2>2. CASE Shared(InFile(c))
    <3>1. PICK p \in DOMAIN nodes :
            /\ IsFork(p) /\ nodes[p].input[1] = InFile(c)
            /\ e = <<"fork", nodes[p].name[2], ForkOutput(InFile(c), c)>>
      BY <1>1, <1>5, <2>2 DEF Serves, MadeInv
    <3>2. ForkOutput(InFile(c), c) \in 0 .. nodes[p].outs - 1
      <4>1. nodes[p].outs = Cardinality(Consumers(InFile(c)))
        BY <1>1, <3>1 DEF ForkPartInv, ForkInv
      <4>2. c \in Consumers(InFile(c))
        BY DEF Consumers
      <4> QED BY <1>1, <4>1, <4>2, ForkOutputs
    <3>3. e \in Outs(nodes[p].name, nodes[p].outs)
      BY <3>1, <3>2 DEF Outs, IsFork
    <3>4. p \in ToSet(waiting)
      BY <1>1, <1>5, <3>3 DEF MadeInv, Created
    <3> QED BY <1>4, <3>1, <3>4
  <2> QED BY <2>1, <2>2
<1>6. StuckGroup(D)
  <2> SUFFICES ASSUME NEW i \in D PROVE ~(ToSet(graph.nodes[i].input) \subseteq Available(D))
    BY DEF StuckGroup
  <2>1. PICK p \in ToSet(waiting) : nodes[p].name = <<"node", i>>
    OBVIOUS
  <2>2. PICK j \in DOMAIN nodes[p].input : nodes[p].input[j] \notin edge_map
    BY <1>2 DEF Ready, ToSet
  <2> DEFINE c == <<"node", i, j>>
  <2>3. i \in DOMAIN graph.nodes /\ j \in DOMAIN graph.nodes[i].input /\ Serves(c, nodes[p].input[j])
    BY <1>1, <1>2, <2>1, <2>2 DEF ForkPartInv, CarriesInv
  <2>4. c \in FileConsumers /\ InFile(c) = graph.nodes[i].input[j]
    BY <2>3 DEF FileConsumers, NodeInputs, InFile
  <2> HIDE DEF c
  <2>5. InFile(c) \notin edge_map
    BY <1>5, <2>2, <2>3, <2>4
  <2>6. graph.nodes[i].input[j] \in ToSet(graph.nodes[i].input)
    BY <2>3 DEF ToSet
  <2> HIDE DEF D
  <2> QED BY <1>3, <2>4, <2>5, <2>6
<1>7. D \in SUBSET DOMAIN graph.nodes
  OBVIOUS
<1>8. CASE D # {}
  <2> HIDE DEF D
  <2> QED BY <1>6, <1>7, <1>8 DEF Complete
\* Only forks wait: the edge that one waits for is used but made by nobody.
<1>9. CASE D = {}
  <2>1. PICK p : p \in ToSet(waiting)
    <3>1. DOMAIN waiting # {}
      <4> DEFINE S == DOMAIN nodes
      <4>1. waiting \in Seq(S)
        BY <1>1 DEF QueueInv
      <4> HIDE DEF S
      <4> QED BY <1>1, <4>1
    <3> QED BY <3>1 DEF ToSet
  <2>2. IsFork(p)
    <3>1. ~\E i \in DOMAIN graph.nodes : nodes[p].name = <<"node", i>>
      BY <1>9, <2>1
    <3> QED BY <1>1, <1>2, <2>1, <3>1 DEF ForkPartInv, ListInv, IsFork
  <2> DEFINE key == nodes[p].input[1]
  <2>3. key \notin edge_map /\ key \in Keys
    BY <1>4, <2>1, <2>2
  <2>4. key \notin Available({})
    <3> HIDE DEF D
    <3> QED BY <1>3, <1>9, <2>3
  <2> HIDE DEF D, key
  <2>5. PICK c \in FileConsumers : InFile(c) = key
    BY <2>3 DEF Keys
  <2>6. CASE c[1] = "node"
    <3> DEFINE i == c[2]
    <3>1. i \in DOMAIN graph.nodes /\ c[3] \in DOMAIN graph.nodes[i].input
          /\ graph.nodes[i].input[c[3]] = key
      BY <1>1, <2>5, <2>6, ConsumerShape DEF InFile
    <3> HIDE DEF i
    <3>2. Available({i}) \subseteq Available({})
      BY DEF Available
    <3>3. StuckGroup({i})
      BY <2>4, <3>1, <3>2 DEF StuckGroup, ToSet
    <3>4. {i} \in SUBSET DOMAIN graph.nodes /\ {i} # {}
      BY <3>1
    <3> QED BY <3>3, <3>4 DEF Complete
  <2>7. CASE c[1] # "node"
    <3>1. c[2] \in DOMAIN graph.outputs /\ c[3] \in DOMAIN graph.outputs[c[2]]
          /\ graph.outputs[c[2]][c[3]] = key
      BY <1>1, <2>5, <2>7, ConsumerShape DEF InFile
    <3> QED BY <2>4, <3>1 DEF Complete, ToSet
  <2> QED BY <2>6, <2>7
<1> QED BY <1>8, <1>9

THEOREM RefusalIsRight == Spec => []RefusedIffCyclic
<1>1. IInv => RefusedIffCyclic
  BY LoadedIsComplete, RefusedIsIncomplete DEF RefusedIffCyclic, Complete
<1> QED BY <1>1, Invariant, PTL
=============================================================================
