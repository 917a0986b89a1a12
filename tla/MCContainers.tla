---------------------------- MODULE MCContainers ----------------------------
(* Small instances of the structures for TLC. *)
EXTENDS Containers

MCProcsOf ==
    [queue |-> 1..5, heap |-> 1..6, levels |-> 1..4, treap |-> 1..4]

\* the order of mix(0), mix(1), ...
MCHeapPrio == <<4, 2, 3, 1>>
MCArrival == <<0, 1, 0, 0>>
MCKeyPairs == {<<0, 1>>, <<1, 0>>, <<1, 1>>, <<2, 1>>}
=============================================================================
