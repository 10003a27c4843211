------------------------------- MODULE Queues -------------------------------
(***************************************************************************)
(* Filtering a queue: the loops over queued calls in internal/agent/agent.go *)
(* keep some elements and drop the others, in order.  Keep is SelectSeq     *)
(* written without recursion, so that facts about it can be proved          *)
(* (SessionAgentProofs).                                                   *)
(***************************************************************************)
EXTENDS Integers, Sequences, FiniteSets

(* The i-th smallest element of a finite set of naturals. *)
Nth(I, i) == CHOOSE j \in I : Cardinality({k \in I : k <= j}) = i

(* The elements of q at the positions in I, in the order of q. *)
At(q, I) == [n \in 1..Cardinality(I) |-> q[Nth(I, n)]]

(* The elements of q that satisfy Test, in the order of q. *)
Keep(q, Test(_)) == At(q, {i \in 1..Len(q) : Test(q[i])})

(* The elements of q that satisfy Test. *)
Elems(q, Test(_)) == {q[i] : i \in {k \in 1..Len(q) : Test(q[k])}}
=============================================================================
