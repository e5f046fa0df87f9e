------------------------------ MODULE TaskFIFO ------------------------------
(***************************************************************************)
(* What a facil.io task queue promises to `fio_defer` and                  *)
(* `fio_defer_perform`: tasks come out once each, in the order they went   *)
(* in.  `ret` is what the last pop returned, with a bit that flips at every *)
(* pop; NULL stands for a task whose `func` is NULL, the "empty" answer.   *)
(***************************************************************************)
EXTENDS Naturals, Sequences

CONSTANTS Task, NULL

VARIABLES q, ret

vars == <<q, ret>>

Init == q = <<>> /\ ret = [task |-> NULL, pop |-> 0]

Push(t) == q' = Append(q, t) /\ UNCHANGED ret

Answer(t) == ret' = [task |-> t, pop |-> 1 - ret.pop]

Pop ==
    \/ q = <<>> /\ Answer(NULL) /\ UNCHANGED q
    \/ q # <<>> /\ Answer(Head(q)) /\ q' = Tail(q)

Clear == q' = <<>> /\ UNCHANGED ret

Next == (\E t \in Task : Push(t)) \/ Pop \/ Clear

Spec == Init /\ [][Next]_vars
=============================================================================
