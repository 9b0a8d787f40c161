----------------------------- MODULE QueueCalls -----------------------------
(***************************************************************************)
(* The calls of ThreadQueue (sys/thread_queue.h), their results, and what  *)
(* each does to a queue that nobody else touches.                          *)
(***************************************************************************)
EXTENDS Integers, Sequences, SequencesExt

CONSTANTS
    Threads,
    Values,     \* the elements
    MaxSize,    \* m_maxsize
    Batches,    \* what the push operations are given: sequences of elements
    SwapQueues, \* what the caller's queue holds when it is given to swap
    Waits       \* what the callers pass for millsecond

(* none: 0, do not block; some: a finite time; forever: -1. *)
WaitKinds == {"none", "some", "forever"}

ASSUME QueueAssumption ==
    /\ MaxSize \in Nat
    /\ Batches \subseteq Seq(Values)
    /\ SwapQueues \subseteq Seq(Values)
    /\ Waits \subseteq WaitKinds

Calls(ops, items, waits) == [op : ops, items : items, wait : waits]

Pushes == Calls({"push_back", "push_front"}, Batches, {"none"})
Takes == Calls({"pop_front"}, {<<>>}, Waits) \cup Calls({"swap"}, SwapQueues, Waits)
Others == Calls({"clear", "size"}, {<<>>}, {"none"})
Requests == Pushes \cup Takes \cup Others

Idle == [op |-> "idle", items |-> <<>>, wait |-> "none"]

(* A result: whether there is one yet, the bool returned, and the elements  *)
(* handed to the caller.                                                    *)
Results == [done : BOOLEAN, ok : BOOLEAN, got : Seq(Values)]
NoResult == [done |-> FALSE, ok |-> FALSE, got |-> <<>>]
Result(ok, got) == [done |-> TRUE, ok |-> ok, got |-> got]

(* Wrong: asks only whether there is room for one more. *)
Fits_ForOne(q, items) == Len(q) < MaxSize

Fits(q, items) == Len(q) + Len(items) <= MaxSize

(* Wrong: puts the batch itself into the queue. *)
Pushed_Nested(q, r) == Append(q, r.items)

(* push_front takes the elements one by one, so that a batch ends up in     *)
(* front in reverse order.                                                  *)
Pushed(q, r) ==
    IF r.op = "push_back" THEN q \o r.items ELSE Reverse(r.items) \o q

(* swap exchanges the contents with the caller's queue. *)
Left(q, r) == IF r.op = "swap" THEN r.items ELSE Tail(q)
Taken(q, r) == IF r.op = "swap" THEN q ELSE <<Head(q)>>
=============================================================================
