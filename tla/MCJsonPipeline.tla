---------------------------- MODULE MCJsonPipeline ----------------------------
(* JsonPipeline for small graphs: one input channel, and at most two nodes   *)
(* with one or two inputs each, or three with one input each, in any order    *)
(* and possibly in a cycle; one or two outputs; with one node, edges that     *)
(* nothing makes.  The thread of a node decides nothing but the thread of a   *)
(* fork.                                                                      *)
EXTENDS JsonPipeline

CONSTANT InputNames  \* the names the graph input may have

EdgesOf(n) == {<<"input", 0, 0>>} \cup {<<"node", i, 0>> : i \in 1 .. n}
Tuples(set, lengths) == UNION {[1 .. k -> set] : k \in lengths}

\* Sequences of outputs: one with one or two edges, or two with one each.
OutputLists(edges) ==
  {<<o>> : o \in Tuples(edges, {1, 2})} \cup {<< <<a>>, <<b>> >> : a, b \in edges}

GraphsOf(n, arities, edges) ==
  [input_name : InputNames,
   channels : {1},
   nodes : [1 .. n -> [thread : {0}, outs : {1}, input : Tuples(edges, arities)]],
   outputs : OutputLists(edges)]

\* An output that the node does not have, and one of a node that is not there.
Missing == {<<"node", 1, 1>>, <<"node", 2, 0>>}

\* Two nodes on two threads, and one Output.
SingleOutputGraphs ==
  [input_name : InputNames,
   channels : {1},
   nodes : [1 .. 2 -> [thread : {0, 1}, outs : {1}, input : Tuples(EdgesOf(2), {1, 2})]],
   outputs : {<<o>> : o \in Tuples(EdgesOf(2), {1, 2})}]

SmallGraphs ==
  GraphsOf(0, {1}, EdgesOf(0)) \cup GraphsOf(1, {1, 2}, EdgesOf(1) \cup Missing)
    \cup GraphsOf(2, {1, 2}, EdgesOf(2)) \cup GraphsOf(3, {1}, EdgesOf(3))
=============================================================================
