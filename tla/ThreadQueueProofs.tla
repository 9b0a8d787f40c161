-------------------------- MODULE ThreadQueueProofs --------------------------
(***************************************************************************)
(* Proofs about ThreadQueue, for every set of threads and of elements,     *)
(* every queue size and every choice of calls.                             *)
(***************************************************************************)
EXTENDS ThreadQueue, FiniteSetTheorems, TLAPS

(* Where a thread is decides what its call is, whether its result is known, *)
(* and what the test it made before still says about the queue.             *)
CallInProgress(t) ==
    /\ pc[t] = "idle" => request[t] = Idle
    /\ pc[t] # "idle" => request[t] \in Requests
    /\ pc[t] \in {"insert"} => request[t] \in Pushes
    /\ pc[t] \in {"take", "wait", "relock"} => request[t] \in Takes
    /\ result[t].done <=> pc[t] \in {"signal", "unlock"}

TestStillHolds(t) ==
    /\ pc[t] = "insert" => Fits(m_queue, request[t].items)
    /\ pc[t] = "take" => m_queue # <<>>

IInv ==
    /\ TypeOK
    /\ MutualExclusion
    /\ \A t \in Threads : CallInProgress(t)
    /\ \A t \in Threads : TestStillHolds(t)

-----------------------------------------------------------------------------
(* What a call does to a queue of elements leaves a queue of elements. *)

LEMMA RequestItems ==
    ASSUME NEW r \in Requests
    PROVE  /\ r.items \in Seq(Values)
           /\ r.op \in {"push_back", "push_front", "pop_front", "swap",
                        "clear", "size"}
           /\ r.wait \in WaitKinds
<1>1. <<>> \in Seq(Values)
  OBVIOUS
<1>2. CASE r \in Pushes
  <2>1. /\ r.op \in {"push_back", "push_front"}
        /\ r.items \in Batches
        /\ r.wait = "none"
    BY <1>2 DEF Pushes, Calls
  <2>2. r.items \in Seq(Values)
    BY <2>1, QueueAssumption
  <2> QED  BY <2>1, <2>2 DEF WaitKinds
<1>3. CASE r \in Takes
  <2>1. /\ r.op \in {"pop_front", "swap"}
        /\ r.items \in {<<>>} \cup SwapQueues
        /\ r.wait \in Waits
    BY <1>3 DEF Takes, Calls
  <2>2. r.items \in Seq(Values) /\ r.wait \in WaitKinds
    BY <1>1, <2>1, QueueAssumption
  <2> QED  BY <2>1, <2>2
<1>4. CASE r \in Others
  <2>1. r.op \in {"clear", "size"} /\ r.items = <<>> /\ r.wait = "none"
    BY <1>4 DEF Others, Calls
  <2> QED  BY <1>1, <2>1 DEF WaitKinds
<1> QED  BY <1>2, <1>3, <1>4 DEF Requests

LEMMA ReverseType ==
    ASSUME NEW S, NEW q \in Seq(S)
    PROVE  Reverse(q) \in Seq(S) /\ Len(Reverse(q)) = Len(q)
<1> DEFINE n == Len(q)
<1>1. n \in Nat /\ \A i \in 1..n : q[i] \in S
  OBVIOUS
<1>2. \A i \in 1..n : (n - i) + 1 \in 1..n
  BY <1>1
<1>3. Reverse(q) = [i \in 1..n |-> q[(n - i) + 1]]
  BY DEF Reverse
<1>4. Reverse(q) \in [1..n -> S]
  BY <1>1, <1>2, <1>3
<1> QED  BY <1>1, <1>4

LEMMA PushedType ==
    ASSUME NEW q \in Seq(Values), NEW r \in Requests
    PROVE  /\ Pushed(q, r) \in Seq(Values)
           /\ Len(Pushed(q, r)) = Len(q) + Len(r.items)
<1>1. r.items \in Seq(Values)
  BY RequestItems
<1>2. Reverse(r.items) \in Seq(Values) /\ Len(Reverse(r.items)) = Len(r.items)
  BY <1>1, ReverseType
<1> QED  BY <1>1, <1>2 DEF Pushed

LEMMA TakenType ==
    ASSUME NEW q \in Seq(Values), q # <<>>, NEW r \in Takes
    PROVE  Left(q, r) \in Seq(Values) /\ Taken(q, r) \in Seq(Values)
<1>1. r \in Requests
  BY DEF Requests
<1>2. r.items \in Seq(Values)
  BY <1>1, RequestItems
<1>3. Head(q) \in Values /\ Tail(q) \in Seq(Values)
  OBVIOUS
<1> QED  BY <1>2, <1>3 DEF Left, Taken

LEMMA ResultType ==
    ASSUME NEW ok \in BOOLEAN, NEW got \in Seq(Values)
    PROVE  Result(ok, got) \in Results /\ Result(ok, got).done
BY DEF Result, Results

LEMMA EmptyResultType ==
    ASSUME NEW ok \in BOOLEAN
    PROVE  Result(ok, <<>>) \in Results /\ Result(ok, <<>>).done
<1>1. <<>> \in Seq(Values)
  OBVIOUS
<1> QED  BY <1>1, ResultType

LEMMA NoResultType == NoResult \in Results /\ ~ NoResult.done
BY DEF NoResult, Results

-----------------------------------------------------------------------------
(* The inductive invariant. *)

LEMMA InitInv == Init => IInv
<1> SUFFICES ASSUME Init PROVE IInv
  OBVIOUS
<1>1. TypeOK
  BY NoResultType DEF Init, TypeOK, Steps
<1>2. MutualExclusion
  BY ThreadAssumption DEF Init, MutualExclusion, Holding
<1>3. \A t \in Threads : CallInProgress(t) /\ TestStillHolds(t)
  BY NoResultType DEF Init, CallInProgress, TestStillHolds
<1> QED  BY <1>1, <1>2, <1>3 DEF IInv

LEMMA CallInv ==
    ASSUME IInv, NEW t \in Threads, Call(t) PROVE IInv'
<1> USE DEF IInv
<1>1. TypeOK'
  BY DEF TypeOK, Call, Goto, Steps
<1>2. MutualExclusion'
  BY DEF TypeOK, MutualExclusion, Call, At, Goto, Holding
<1>3. \A u \in Threads : CallInProgress(u)' /\ TestStillHolds(u)'
  BY DEF TypeOK, CallInProgress, TestStillHolds, Call, At, Goto
<1> QED  BY <1>1, <1>2, <1>3

LEMMA LockInv ==
    ASSUME IInv, NEW t \in Threads, Lock(t) PROVE IInv'
<1> USE DEF IInv
<1>1. TypeOK'
  BY DEF TypeOK, Lock, Goto, Steps
<1>2. MutualExclusion'
  BY ThreadAssumption DEF TypeOK, MutualExclusion, Lock, Goto, Holding
<1>3. \A u \in Threads : CallInProgress(u)' /\ TestStillHolds(u)'
  BY DEF TypeOK, CallInProgress, TestStillHolds, Lock, Goto
<1> QED  BY <1>1, <1>2, <1>3

LEMMA UnlockInv ==
    ASSUME IInv, NEW t \in Threads, Unlock(t) PROVE IInv'
<1> USE DEF IInv
<1>1. TypeOK'
  BY NoResultType DEF TypeOK, Unlock, Goto, Steps
<1>2. MutualExclusion'
  BY ThreadAssumption DEF TypeOK, MutualExclusion, Unlock, At, Goto, Holding
<1>3. \A u \in Threads : CallInProgress(u)' /\ TestStillHolds(u)'
  BY NoResultType
     DEF TypeOK, CallInProgress, TestStillHolds, Unlock, At, Goto
<1> QED  BY <1>1, <1>2, <1>3

LEMMA TestRoomInv ==
    ASSUME IInv, NEW t \in Threads, TestRoom(t) PROVE IInv'
<1> USE DEF IInv
<1>0. Result(FALSE, <<>>) \in Results /\ Result(FALSE, <<>>).done
  BY EmptyResultType
<1>1. TypeOK'
  BY <1>0 DEF TypeOK, TestRoom, Goto, Decide, Steps
<1>2. MutualExclusion'
  BY DEF TypeOK, MutualExclusion, TestRoom, At, Goto, Holding
<1>3. \A u \in Threads : CallInProgress(u)' /\ TestStillHolds(u)'
  BY <1>0 DEF TypeOK, CallInProgress, TestStillHolds, TestRoom, At, Goto,
              Decide
<1> QED  BY <1>1, <1>2, <1>3

(* While t holds the mutex nobody else stands on a test of the queue. *)
LEMMA OthersDoNotHold ==
    ASSUME IInv, NEW t \in Threads, pc[t] \in Holding,
           NEW u \in Threads, u # t
    PROVE  pc[u] \notin Holding
BY DEF IInv, MutualExclusion

LEMMA InsertInv ==
    ASSUME IInv, NEW t \in Threads, Insert(t) PROVE IInv'
<1> USE DEF IInv
<1>0. Result(TRUE, <<>>) \in Results /\ Result(TRUE, <<>>).done
  BY EmptyResultType
<1>1. request[t] \in Requests
  BY DEF CallInProgress, Insert, At
<1>2. m_queue' \in Seq(Values)
  BY <1>1, PushedType DEF TypeOK, Insert
<1>3. TypeOK'
  BY <1>0, <1>2 DEF TypeOK, Insert, Goto, Decide, Steps
<1>4. MutualExclusion'
  BY DEF TypeOK, MutualExclusion, Insert, At, Goto, Holding
<1>5. ASSUME NEW u \in Threads PROVE CallInProgress(u)'
  BY <1>0 DEF TypeOK, CallInProgress, Insert, At, Goto, Decide
<1>6. ASSUME NEW u \in Threads PROVE TestStillHolds(u)'
  <2>1. CASE u = t
    BY <2>1 DEF TypeOK, TestStillHolds, Insert, Goto
  <2>2. CASE u # t
    BY <2>2, OthersDoNotHold
       DEF TypeOK, TestStillHolds, Insert, At, Goto, Holding
  <2> QED  BY <2>1, <2>2
<1> QED  BY <1>3, <1>4, <1>5, <1>6

LEMMA SignalInv ==
    ASSUME IInv, NEW t \in Threads, Signal(t) PROVE IInv'
<1> USE DEF IInv
<1>1. CASE Waiters = {} /\ Goto(t, "unlock")
  <2>1. TypeOK'
    BY <1>1 DEF TypeOK, Signal, Goto, Steps
  <2>2. MutualExclusion'
    BY <1>1 DEF TypeOK, MutualExclusion, Signal, At, Goto, Holding
  <2>3. \A u \in Threads : CallInProgress(u)' /\ TestStillHolds(u)'
    BY <1>1 DEF TypeOK, CallInProgress, TestStillHolds, Signal, At, Goto
  <2> QED  BY <2>1, <2>2, <2>3
<1>2. CASE \E w \in Waiters :
              pc' = [pc EXCEPT ![t] = "unlock", ![w] = "relock"]
  <2>1. PICK w \in Waiters :
              pc' = [pc EXCEPT ![t] = "unlock", ![w] = "relock"]
    BY <1>2
  <2>2. w \in Threads /\ pc[w] = "wait" /\ w # t
    BY <2>1 DEF Waiters, Signal, At
  <2>3. TypeOK'
    BY <2>1, <2>2 DEF TypeOK, Signal, Steps
  <2>4. MutualExclusion'
    BY <2>1, <2>2 DEF TypeOK, MutualExclusion, Signal, At, Holding
  <2>5. \A u \in Threads : CallInProgress(u)' /\ TestStillHolds(u)'
    BY <2>1, <2>2 DEF TypeOK, CallInProgress, TestStillHolds, Signal, At
  <2> QED  BY <2>3, <2>4, <2>5
<1> QED  BY <1>1, <1>2 DEF Signal

LEMMA TestItemsInv ==
    ASSUME IInv, NEW t \in Threads, TestItems(t) PROVE IInv'
<1> USE DEF IInv
<1>0. Result(FALSE, <<>>) \in Results /\ Result(FALSE, <<>>).done
  BY EmptyResultType
<1>1. TypeOK'
  BY <1>0 DEF TypeOK, TestItems, Goto, Decide, Steps
<1>2. MutualExclusion'
  BY ThreadAssumption
     DEF TypeOK, MutualExclusion, TestItems, At, Goto, Holding
<1>3. \A u \in Threads : CallInProgress(u)' /\ TestStillHolds(u)'
  BY <1>0 DEF TypeOK, CallInProgress, TestStillHolds, TestItems, At, Goto,
              Decide
<1> QED  BY <1>1, <1>2, <1>3

LEMMA WakeupInv ==
    ASSUME IInv, NEW t \in Threads, Timeout(t) \/ SpuriousWakeup(t)
    PROVE  IInv'
<1> USE DEF IInv
<1>1. TypeOK'
  BY DEF TypeOK, Timeout, SpuriousWakeup, Goto, Steps
<1>2. MutualExclusion'
  BY DEF TypeOK, MutualExclusion, Timeout, SpuriousWakeup, At, Goto, Holding
<1>3. \A u \in Threads : CallInProgress(u)' /\ TestStillHolds(u)'
  BY DEF TypeOK, CallInProgress, TestStillHolds, Timeout, SpuriousWakeup, At,
         Goto
<1> QED  BY <1>1, <1>2, <1>3

LEMMA TakeItemsInv ==
    ASSUME IInv, NEW t \in Threads, TakeItems(t) PROVE IInv'
<1> USE DEF IInv
<1>1. request[t] \in Takes /\ m_queue # <<>> /\ m_queue \in Seq(Values)
  BY DEF CallInProgress, TestStillHolds, TakeItems, At, TypeOK
<1> DEFINE got == Taken(m_queue, request[t])
<1>2. m_queue' \in Seq(Values) /\ got \in Seq(Values)
  BY <1>1, TakenType DEF TakeItems
<1>3. Result(TRUE, got) \in Results /\ Result(TRUE, got).done
  BY <1>2, ResultType
<1>4. TypeOK'
  BY <1>2, <1>3 DEF TypeOK, TakeItems, Goto, Decide, Steps
<1>5. MutualExclusion'
  BY DEF TypeOK, MutualExclusion, TakeItems, At, Goto, Holding
<1>6. ASSUME NEW u \in Threads PROVE CallInProgress(u)'
  BY <1>3 DEF TypeOK, CallInProgress, TakeItems, At, Goto, Decide
<1>7. ASSUME NEW u \in Threads PROVE TestStillHolds(u)'
  <2>1. CASE u = t
    BY <2>1 DEF TypeOK, TestStillHolds, TakeItems, Goto
  <2>2. CASE u # t
    BY <2>2, OthersDoNotHold
       DEF TypeOK, TestStillHolds, TakeItems, At, Goto, Holding
  <2> QED  BY <2>1, <2>2
<1> QED  BY <1>4, <1>5, <1>6, <1>7

LEMMA ClearOrSizeInv ==
    ASSUME IInv, NEW t \in Threads, ClearOrSize(t) PROVE IInv'
<1> USE DEF IInv
<1>1. /\ Result(TRUE, <<>>) \in Results /\ Result(TRUE, <<>>).done
      /\ Result(TRUE, m_queue) \in Results /\ Result(TRUE, m_queue).done
  BY ResultType, EmptyResultType DEF TypeOK
<1>2. TypeOK'
  <2>1. m_queue' \in Seq(Values)
    <3>1. <<>> \in Seq(Values)
      OBVIOUS
    <3> QED  BY <3>1 DEF TypeOK, ClearOrSize
  <2>2. result' \in [Threads -> Results]
    BY <1>1 DEF TypeOK, ClearOrSize, Decide
  <2> QED  BY <2>1, <2>2 DEF TypeOK, ClearOrSize, Goto, Steps
<1>3. MutualExclusion'
  BY DEF TypeOK, MutualExclusion, ClearOrSize, At, Goto, Holding
<1>4. ASSUME NEW u \in Threads PROVE CallInProgress(u)'
  BY <1>1 DEF TypeOK, CallInProgress, ClearOrSize, At, Goto, Decide
<1>5. ASSUME NEW u \in Threads PROVE TestStillHolds(u)'
  <2>1. CASE u = t
    BY <2>1 DEF TypeOK, TestStillHolds, ClearOrSize, Goto
  <2>2. CASE u # t
    BY <2>2, OthersDoNotHold
       DEF TypeOK, TestStillHolds, ClearOrSize, At, Goto, Holding
  <2> QED  BY <2>1, <2>2
<1> QED  BY <1>2, <1>3, <1>4, <1>5

LEMMA NextInv == IInv /\ [Next]_vars => IInv'
<1> SUFFICES ASSUME IInv, [Next]_vars PROVE IInv'
  OBVIOUS
<1>1. CASE UNCHANGED vars
  BY <1>1 DEF IInv, TypeOK, MutualExclusion, CallInProgress, TestStillHolds,
              Fits, vars
<1>2. CASE Next
  BY <1>2, CallInv, LockInv, UnlockInv, TestRoomInv, InsertInv, SignalInv,
     TestItemsInv, WakeupInv, TakeItemsInv, ClearOrSizeInv DEF Next, Run
<1> QED  BY <1>1, <1>2

LEMMA Inductive == Spec => []IInv
BY InitInv, NextInv, PTL DEF Spec

-----------------------------------------------------------------------------
(* The variables keep their types. *)
THEOREM TypeCorrect == Spec => []TypeOK
<1>1. IInv => TypeOK
  BY DEF IInv
<1> QED  BY <1>1, Inductive, PTL

(* Every access to m_queue, also after a wait, is made by the one thread    *)
(* that holds m_mutex.                                                      *)
THEOREM Exclusion == Spec => []MutualExclusion
<1>1. IInv => MutualExclusion
  BY DEF IInv
<1> QED  BY <1>1, Inductive, PTL

-----------------------------------------------------------------------------
(* What swap needs of its callers: a queue that is not itself too long. *)
SwapQueuesFit == \A q \in SwapQueues : Len(q) <= MaxSize

(* The bound of the queue is the greatest of m_maxsize and the lengths of    *)
(* the queues swap is given; L is any number that is not less.              *)
Longest(L) ==
    /\ L \in Nat /\ MaxSize <= L
    /\ \A q \in SwapQueues : Len(q) <= L

Within(L) == Len(m_queue) <= L

LEMMA WithinStep ==
    ASSUME NEW L, Longest(L), IInv, Within(L), [Next]_vars
    PROVE  Within(L)'
<1> USE DEF Within
<1>1. m_queue \in Seq(Values) /\ MaxSize \in Nat /\ L \in Nat /\ MaxSize <= L
  BY QueueAssumption DEF IInv, TypeOK, Longest
<1>2. CASE UNCHANGED m_queue
  BY <1>2
<1>3. ASSUME NEW t \in Threads, Insert(t) PROVE Within(L)'
  <2>1. Fits(m_queue, request[t].items) /\ request[t] \in Requests
    BY <1>3 DEF IInv, CallInProgress, TestStillHolds, Insert, At
  <2> QED  BY <1>1, <1>3, <2>1, PushedType DEF Fits, Insert
<1>4. ASSUME NEW t \in Threads, TakeItems(t) PROVE Within(L)'
  <2>1. request[t] \in Takes /\ m_queue # <<>>
    BY <1>4 DEF IInv, CallInProgress, TestStillHolds, TakeItems, At
  <2>2. CASE request[t].op = "swap"
    <3>1. request[t].items \in SwapQueues
      BY <2>1, <2>2 DEF Takes, Calls
    <3> QED  BY <1>4, <2>2, <3>1 DEF TakeItems, Left, Longest
  <2>3. CASE request[t].op # "swap"
    <3>1. m_queue' = Tail(m_queue)
      BY <1>4, <2>3 DEF TakeItems, Left
    <3>2. Len(Tail(m_queue)) <= Len(m_queue)
      BY <1>1, <2>1
    <3>3. Len(Tail(m_queue)) \in Nat /\ Len(m_queue) \in Nat
      BY <1>1, <2>1
    <3> QED  BY <1>1, <3>1, <3>2, <3>3
  <2> QED  BY <2>2, <2>3
<1>5. ASSUME NEW t \in Threads, ClearOrSize(t) PROVE Within(L)'
  <2>1. m_queue' = <<>> \/ m_queue' = m_queue
    BY <1>5 DEF ClearOrSize
  <2>2. Len(<<>>) = 0
    OBVIOUS
  <2> QED  BY <1>1, <2>1, <2>2
<1>6. CASE Next
  BY <1>2, <1>3, <1>4, <1>5, <1>6
     DEF Next, Run, Call, Lock, Unlock, TestRoom, Signal, TestItems, Timeout,
         SpuriousWakeup
<1> QED  BY <1>2, <1>6 DEF vars

(* However pushes, pops and swaps race, the queue stays within m_maxsize    *)
(* and the longest queue that a caller of swap has brought: no push, not of *)
(* a batch either, adds to a queue that swap has made too long.             *)
THEOREM QueueWithin ==
    ASSUME NEW CONSTANT L, Longest(L)
    PROVE  Spec => []Within(L)
<1>1. Init => Within(L)
  BY QueueAssumption DEF Init, Within, Longest
<1>2. IInv /\ Within(L) /\ [Next]_vars => Within(L)'
  BY WithinStep
<1> QED  BY <1>1, <1>2, Inductive, PTL DEF Spec

(* However they race, the queue stays within m_maxsize - as long as no      *)
(* caller of swap brings a longer queue of its own.                         *)
THEOREM QueueBounded == SwapQueuesFit /\ Spec => []Bounded
<1> SUFFICES ASSUME SwapQueuesFit PROVE Spec => []Bounded
  OBVIOUS
<1>1. Longest(MaxSize) /\ (Bounded <=> Within(MaxSize))
  BY QueueAssumption DEF SwapQueuesFit, Longest, Bounded, Within
<1>2. Init => Bounded
  BY QueueAssumption DEF Init, Bounded
<1>3. IInv /\ Bounded /\ [Next]_vars => Bounded'
  BY <1>1, WithinStep DEF Bounded, Within
<1> QED  BY <1>2, <1>3, Inductive, PTL DEF Spec

-----------------------------------------------------------------------------
(* ThreadQueue implements BoundedQueue. *)

(* Both modules speak of the same calls. *)
LEMMA SameCalls ==
    /\ BQ!Idle = Idle /\ BQ!NoResult = NoResult
    /\ BQ!Pushes = Pushes /\ BQ!Takes = Takes /\ BQ!Others = Others
    /\ BQ!Requests = Requests
    /\ \A ok, got : BQ!Result(ok, got) = Result(ok, got)
    /\ \A q, items : BQ!Fits(q, items) = Fits(q, items)
<1>1. BQ!Idle = Idle /\ BQ!NoResult = NoResult
  BY DEF BQ!Idle, Idle, BQ!NoResult, NoResult
<1>2. BQ!Pushes = Pushes /\ BQ!Takes = Takes /\ BQ!Others = Others
  BY DEF BQ!Pushes, Pushes, BQ!Takes, Takes, BQ!Others, Others, BQ!Calls, Calls
<1>3. BQ!Requests = Requests
  BY <1>2 DEF BQ!Requests, Requests
<1>4. \A ok, got : BQ!Result(ok, got) = Result(ok, got)
  BY DEF BQ!Result, Result
<1>5. \A q, items : BQ!Fits(q, items) = Fits(q, items)
  BY DEF BQ!Fits, Fits
<1> QED  BY <1>1, <1>2, <1>3, <1>4, <1>5

LEMMA SameEffects ==
    /\ \A q, r : BQ!Pushed(q, r) = Pushed(q, r)
    /\ \A q, r : BQ!Left(q, r) = Left(q, r)
    /\ \A q, r : BQ!Taken(q, r) = Taken(q, r)
<1>1. \A q, r : BQ!Pushed(q, r) = Pushed(q, r)
  BY DEF BQ!Pushed, Pushed, BQ!Reverse, Reverse
<1>2. \A q, r : BQ!Left(q, r) = Left(q, r) /\ BQ!Taken(q, r) = Taken(q, r)
  BY DEF BQ!Left, Left, BQ!Taken, Taken
<1> QED  BY <1>1, <1>2

LEMMA RefinementStep ==
    ASSUME IInv, [Next]_vars
    PROVE  [BQ!Next]_(BQ!queueVars)
<1> USE DEF IInv, BQ!queueVars
<1>1. CASE UNCHANGED <<m_queue, request, result>>
  BY <1>1
<1>2. ASSUME NEW t \in Threads, Call(t) PROVE BQ!Invoke(t)
  BY <1>2, SameCalls DEF Call, At, CallInProgress, BQ!Invoke
<1>3. ASSUME NEW t \in Threads, Unlock(t) PROVE BQ!Return(t)
  BY <1>3, SameCalls DEF Unlock, At, CallInProgress, BQ!Return
<1>4. ASSUME NEW t \in Threads, TestRoom(t)
      PROVE  BQ!Push(t) \/ UNCHANGED <<m_queue, request, result>>
  <2>1. ~ result[t].done
    BY <1>4 DEF TestRoom, At, CallInProgress
  <2> QED  BY <1>4, <2>1, SameCalls, SameEffects DEF TestRoom, Decide, BQ!Push, BQ!Answer
<1>5. ASSUME NEW t \in Threads, Insert(t) PROVE BQ!Push(t)
  <2>1. ~ result[t].done /\ request[t] \in Pushes
        /\ Fits(m_queue, request[t].items)
    BY <1>5 DEF Insert, At, CallInProgress, TestStillHolds
  <2> QED  BY <1>5, <2>1, SameCalls, SameEffects DEF Insert, Decide, BQ!Push, BQ!Answer
<1>6. ASSUME NEW t \in Threads, TestItems(t)
      PROVE  BQ!Take(t) \/ UNCHANGED <<m_queue, request, result>>
  <2>1. ~ result[t].done
    BY <1>6 DEF TestItems, At, CallInProgress
  <2> QED  BY <1>6, <2>1, SameCalls, SameEffects DEF TestItems, Decide, BQ!Take, BQ!Answer
<1>7. ASSUME NEW t \in Threads, TakeItems(t) PROVE BQ!Take(t)
  <2>1. ~ result[t].done /\ request[t] \in Takes /\ m_queue # <<>>
    BY <1>7 DEF TakeItems, At, CallInProgress, TestStillHolds
  <2> QED  BY <1>7, <2>1, SameCalls, SameEffects DEF TakeItems, Decide, BQ!Take, BQ!Answer
<1>8. ASSUME NEW t \in Threads, ClearOrSize(t) PROVE BQ!Other(t)
  <2>1. ~ result[t].done
    BY <1>8 DEF ClearOrSize, At, CallInProgress
  <2> QED  BY <1>8, <2>1, SameCalls, SameEffects DEF ClearOrSize, Decide, BQ!Other, BQ!Answer
<1>9. CASE Next
  BY <1>1, <1>2, <1>3, <1>4, <1>5, <1>6, <1>7, <1>8, <1>9
     DEF Next, Run, Lock, Signal, Timeout, SpuriousWakeup, BQ!Next
<1> QED  BY <1>1, <1>9 DEF vars

(* Whatever the threads do and however they are scheduled, every call acts  *)
(* on the queue at one moment, as if it were the only one, and returns what *)
(* the queue held then.                                                     *)
THEOREM QueueLinearizable == Spec => ImplementsBoundedQueue
<1>1. Init => BQ!Init
  BY SameCalls DEF Init, BQ!Init
<1>2. IInv /\ [Next]_vars => [BQ!Next]_(BQ!queueVars)
  BY RefinementStep
<1> QED  BY <1>1, <1>2, Inductive, PTL DEF Spec, ImplementsBoundedQueue, BQ!Spec

-----------------------------------------------------------------------------
(* No wake-up is lost, for every number of threads, as long as a call adds  *)
(* at most one element.  With batches it is false: push signals once,       *)
(* however many elements it added (the run q_batch).                        *)

OneAtATime ==
    /\ IsFiniteSet(Threads)
    /\ \A items \in Batches : Len(items) <= 1
    /\ SwapQueues \subseteq {<<>>}

WInv == IInv /\ WakeupsCoverItems

-----------------------------------------------------------------------------
(* Sets of threads. *)

LEMMA ComingFinite ==
    ASSUME OneAtATime
    PROVE  /\ IsFiniteSet(Coming) /\ Cardinality(Coming) \in Nat
           /\ IsFiniteSet(Coming') /\ Cardinality(Coming') \in Nat
<1>1. /\ IsFiniteSet(Threads) /\ Coming \in SUBSET Threads
      /\ Coming' \in SUBSET Threads
  BY DEF OneAtATime, Coming
<1>2. IsFiniteSet(Coming) /\ IsFiniteSet(Coming')
  BY <1>1, FS_Subset
<1> QED  BY <1>2, FS_CardinalityType

(* A step after which no fewer threads come for no more elements. *)
LEMMA NobodyLeaves ==
    ASSUME OneAtATime, IInv, WakeupsCoverItems,
           Waiters' # {} => Waiters # {},
           Coming \subseteq Coming',
           m_queue' \in Seq(Values), Len(m_queue') <= Len(m_queue)
    PROVE  WakeupsCoverItems'
<1>1. Cardinality(Coming) <= Cardinality(Coming')
  BY ComingFinite, FS_Subset
<1>2. Len(m_queue) \in Nat /\ Len(m_queue') \in Nat
  BY DEF IInv, TypeOK
<1>3. CASE Waiters' = {}
  BY <1>3 DEF WakeupsCoverItems
<1>4. CASE Waiters' # {}
  <2>1. Len(m_queue) <= Cardinality(Coming)
    BY <1>4 DEF WakeupsCoverItems
  <2>2. Len(m_queue') <= Cardinality(Coming')
    BY <1>1, <1>2, <2>1, ComingFinite
  <2> QED  BY <2>2 DEF WakeupsCoverItems
<1> QED  BY <1>3, <1>4

(* A step that leaves the queue empty. *)
LEMMA NothingIsLeft ==
    ASSUME OneAtATime, m_queue' = <<>>
    PROVE  WakeupsCoverItems'
<1>1. Len(m_queue') = 0
  OBVIOUS
<1> QED  BY <1>1, ComingFinite DEF WakeupsCoverItems

(* A thread inside a method that takes elements is in such a call. *)
LEMMA TakesOps ==
    \A r \in Takes : r.op \in {"pop_front", "swap"}
                     /\ (r.op = "swap" => r.items \in SwapQueues)
BY DEF Takes, Calls

LEMMA OtherOps ==
    \A r \in Pushes \cup Others : r.op \notin {"pop_front", "swap"}
BY DEF Pushes, Others, Calls

-----------------------------------------------------------------------------
(* The steps. *)

LEMMA CallWakes ==
    ASSUME OneAtATime, WInv, NEW t \in Threads, Call(t)
    PROVE  WakeupsCoverItems'
<1> USE DEF WInv, IInv
<1>1. Waiters' = Waiters
  BY DEF TypeOK, Call, At, Goto, Waiters
<1>2. Coming \subseteq Coming'
  BY DEF TypeOK, Call, At, Goto, Coming
<1> QED  BY <1>1, <1>2, NobodyLeaves DEF Call, TypeOK

LEMMA LockWakes ==
    ASSUME OneAtATime, WInv, NEW t \in Threads, Lock(t)
    PROVE  WakeupsCoverItems'
<1> USE DEF WInv, IInv
<1>1. Waiters' = Waiters
  BY DEF TypeOK, Lock, Goto, Waiters
<1>2. Coming \subseteq Coming'
  BY DEF TypeOK, Lock, Goto, Coming
<1> QED  BY <1>1, <1>2, NobodyLeaves DEF Lock, TypeOK

LEMMA UnlockWakes ==
    ASSUME OneAtATime, WInv, NEW t \in Threads, Unlock(t)
    PROVE  WakeupsCoverItems'
<1> USE DEF WInv, IInv
<1>1. Waiters' = Waiters
  BY DEF TypeOK, Unlock, At, Goto, Waiters
<1>2. Coming \subseteq Coming'
  BY DEF TypeOK, Unlock, At, Goto, Coming
<1> QED  BY <1>1, <1>2, NobodyLeaves DEF Unlock, TypeOK

LEMMA TestRoomWakes ==
    ASSUME OneAtATime, WInv, NEW t \in Threads, TestRoom(t)
    PROVE  WakeupsCoverItems'
<1> USE DEF WInv, IInv
<1>1. Waiters' = Waiters
  BY DEF TypeOK, TestRoom, At, Goto, Waiters
<1>2. t \notin Coming
  BY OtherOps DEF TestRoom, At, Coming
<1>3. Coming \subseteq Coming'
  BY <1>2 DEF TypeOK, TestRoom, Goto, Decide, Coming
<1> QED  BY <1>1, <1>3, NobodyLeaves DEF TestRoom, TypeOK

(* The element added has the signal that t is about to give. *)
LEMMA InsertWakes ==
    ASSUME OneAtATime, WInv, NEW t \in Threads, Insert(t)
    PROVE  WakeupsCoverItems'
<1> USE DEF WInv, IInv
<1>1. Waiters' = Waiters
  BY DEF TypeOK, Insert, At, Goto, Waiters
<1>2. t \notin Coming /\ request[t] \in Requests /\ Len(request[t].items) <= 1
  <2>1. request[t] \in Pushes /\ pc[t] = "insert"
    BY DEF CallInProgress, Insert, At
  <2>2. request[t].items \in Batches
    BY <2>1 DEF Pushes, Calls
  <2> QED  BY <2>1, <2>2 DEF Coming, OneAtATime, Requests
<1>3. result'[t].ok /\ pc'[t] = "signal"
  BY DEF TypeOK, Insert, Goto, Decide, Result
<1>4. Coming' = Coming \cup {t}
  BY <1>2, <1>3 DEF TypeOK, Insert, At, Goto, Decide, Coming
<1>5. Cardinality(Coming') = Cardinality(Coming) + 1
  BY <1>2, <1>4, ComingFinite, FS_AddElement
<1>6. /\ Len(m_queue') = Len(m_queue) + Len(request[t].items)
      /\ Len(m_queue) \in Nat
  BY <1>2, PushedType DEF Insert, TypeOK
<1>7. Len(request[t].items) \in Nat
  BY <1>2, RequestItems
<1>8. Waiters # {} => Len(m_queue') <= Cardinality(Coming')
  BY <1>2, <1>5, <1>6, <1>7, ComingFinite DEF WakeupsCoverItems
<1> QED  BY <1>1, <1>8 DEF WakeupsCoverItems

(* The signal turns into a thread on its way. *)
LEMMA SignalWakes ==
    ASSUME OneAtATime, WInv, NEW t \in Threads, Signal(t)
    PROVE  WakeupsCoverItems'
<1> USE DEF WInv, IInv
<1>1. CASE Waiters = {} /\ Goto(t, "unlock")
  <2>1. Waiters' = {}
    BY <1>1 DEF TypeOK, Goto, Waiters
  <2> QED  BY <2>1 DEF WakeupsCoverItems
<1>2. ASSUME NEW w \in Waiters,
             pc' = [pc EXCEPT ![t] = "unlock", ![w] = "relock"]
      PROVE  WakeupsCoverItems'
  <2>1. /\ w \in Threads /\ w # t /\ w \notin Coming
        /\ pc[w] = "wait" /\ pc[t] = "signal"
    BY DEF Signal, At, Waiters, Coming
  <2>2. request[w].op \in {"pop_front", "swap"}
    BY <2>1, TakesOps DEF CallInProgress
  <2>3. Coming' = (Coming \ {t}) \cup {w}
    <3>1. /\ pc'[t] = "unlock" /\ pc'[w] = "relock"
          /\ \A u \in Threads \ {t, w} : pc'[u] = pc[u]
          /\ request' = request /\ result' = result
      BY <1>2, <2>1 DEF TypeOK, Signal
    <3>2. t \notin Coming' /\ w \in Coming'
      BY <2>1, <2>2, <3>1 DEF Coming
    <3>3. \A u \in Threads \ {t, w} : u \in Coming' <=> u \in Coming
      BY <3>1 DEF Coming
    <3>4. Coming \subseteq Threads /\ Coming' \subseteq Threads
      BY DEF Coming
    <3> QED  BY <2>1, <3>2, <3>3, <3>4
  <2>4. Cardinality(Coming \ {t}) >= Cardinality(Coming) - 1
        /\ IsFiniteSet(Coming \ {t}) /\ Cardinality(Coming \ {t}) \in Nat
    <3>1. IsFiniteSet(Coming) /\ Cardinality(Coming) \in Nat
      BY ComingFinite
    <3>2. /\ IsFiniteSet(Coming \ {t})
          /\ Cardinality(Coming \ {t}) = IF t \in Coming THEN Cardinality(Coming) - 1
                                          ELSE Cardinality(Coming)
      BY <3>1, FS_RemoveElement
    <3>3. Cardinality(Coming \ {t}) \in Nat
      BY <3>2, FS_CardinalityType
    <3> QED  BY <3>1, <3>2, <3>3
  <2>5. Cardinality(Coming') = Cardinality(Coming \ {t}) + 1
    BY <2>1, <2>3, <2>4, FS_AddElement
  <2>6. Len(m_queue) <= Cardinality(Coming) /\ Len(m_queue) \in Nat
        /\ m_queue' = m_queue
    BY DEF WakeupsCoverItems, TypeOK, Signal
  <2>7. Len(m_queue') <= Cardinality(Coming')
    BY <2>4, <2>5, <2>6, ComingFinite
  <2> QED  BY <2>7 DEF WakeupsCoverItems
<1> QED  BY <1>1, <1>2 DEF Signal

LEMMA TestItemsWakes ==
    ASSUME OneAtATime, WInv, NEW t \in Threads, TestItems(t)
    PROVE  WakeupsCoverItems'
<1> USE DEF WInv, IInv
<1>1. CASE m_queue # <<>> /\ Goto(t, "take") /\ UNCHANGED <<m_mutex, result>>
  <2>1. Waiters' = Waiters
    BY <1>1 DEF TypeOK, TestItems, At, Goto, Waiters
  <2>2. Coming \subseteq Coming'
    BY <1>1 DEF TypeOK, TestItems, At, Goto, Coming
  <2> QED  BY <2>1, <2>2, NobodyLeaves DEF TestItems, TypeOK
<1>2. CASE m_queue = <<>>
  BY <1>2, NothingIsLeft DEF TestItems
<1> QED  BY <1>1, <1>2 DEF TestItems

(* A waiter that gives up, or wakes for no reason, comes by. *)
LEMMA WakeupWakes ==
    ASSUME OneAtATime, WInv, NEW t \in Threads, Timeout(t) \/ SpuriousWakeup(t)
    PROVE  WakeupsCoverItems'
<1> USE DEF WInv, IInv
<1>1. /\ pc[t] = "wait" /\ pc' = [pc EXCEPT ![t] = "relock"]
      /\ UNCHANGED <<m_queue, request, result>>
  BY DEF Timeout, SpuriousWakeup, At, Goto
<1>2. Waiters' \subseteq Waiters
  BY <1>1 DEF TypeOK, Waiters
<1>3. Coming \subseteq Coming'
  BY <1>1 DEF TypeOK, Coming
<1> QED  BY <1>1, <1>2, <1>3, NobodyLeaves DEF TypeOK

(* The thread that leaves takes an element with it, or all of them. *)
LEMMA TakeItemsWakes ==
    ASSUME OneAtATime, WInv, NEW t \in Threads, TakeItems(t)
    PROVE  WakeupsCoverItems'
<1> USE DEF WInv, IInv
<1>1. /\ pc[t] = "take" /\ request[t] \in Takes /\ m_queue # <<>>
      /\ m_queue \in Seq(Values)
  BY DEF TakeItems, At, CallInProgress, TestStillHolds, TypeOK
<1>2. CASE request[t].op = "swap"
  <2>1. m_queue' = <<>>
    BY <1>1, <1>2, TakesOps DEF TakeItems, Left, OneAtATime
  <2> QED  BY <2>1, NothingIsLeft
<1>3. CASE request[t].op # "swap"
  <2>1. m_queue' = Tail(m_queue)
    BY <1>3 DEF TakeItems, Left
  <2>2. Len(m_queue') = Len(m_queue) - 1 /\ Len(m_queue) \in Nat
    BY <1>1, <2>1
  <2>3. Waiters' = Waiters
    BY <1>1 DEF TypeOK, TakeItems, Goto, Waiters
  <2>4. Coming' = Coming \ {t} /\ t \in Coming
    BY <1>1, TakesOps DEF TypeOK, TakeItems, Goto, Decide, Coming
  <2>5. Cardinality(Coming') = Cardinality(Coming) - 1
    BY <2>4, ComingFinite, FS_RemoveElement
  <2>6. Waiters # {} => Len(m_queue') <= Cardinality(Coming')
    BY <2>2, <2>5, ComingFinite DEF WakeupsCoverItems
  <2> QED  BY <2>3, <2>6 DEF WakeupsCoverItems
<1> QED  BY <1>2, <1>3

LEMMA ClearOrSizeWakes ==
    ASSUME OneAtATime, WInv, NEW t \in Threads, ClearOrSize(t)
    PROVE  WakeupsCoverItems'
<1> USE DEF WInv, IInv
<1>1. CASE m_queue' = <<>>
  BY <1>1, NothingIsLeft
<1>2. CASE m_queue' = m_queue
  <2>1. Waiters' = Waiters
    BY DEF TypeOK, ClearOrSize, At, Goto, Waiters
  <2>2. t \notin Coming
    BY OtherOps DEF ClearOrSize, At, Coming
  <2>3. Coming \subseteq Coming'
    BY <2>2 DEF TypeOK, ClearOrSize, Goto, Decide, Coming
  <2> QED  BY <1>2, <2>1, <2>3, NobodyLeaves DEF TypeOK
<1> QED  BY <1>1, <1>2 DEF ClearOrSize

LEMMA NextWakes ==
    ASSUME OneAtATime, WInv, [Next]_vars
    PROVE  WInv'
<1>1. IInv'
  BY NextInv DEF WInv
<1>2. ASSUME UNCHANGED vars PROVE WakeupsCoverItems'
  BY <1>2 DEF vars, WInv, WakeupsCoverItems, Waiters, Coming
<1>3. ASSUME Next PROVE WakeupsCoverItems'
  <2>1. PICK t \in Threads : Call(t) \/ Lock(t) \/ Run(t) \/ SpuriousWakeup(t)
    BY <1>3 DEF Next
  <2>2. WakeupsCoverItems'
    <3>1. CASE Call(t) \/ Lock(t) \/ Unlock(t) \/ TestRoom(t)
      BY <3>1, CallWakes, LockWakes, UnlockWakes, TestRoomWakes
    <3>2. CASE Insert(t) \/ Signal(t)
      BY <3>2, InsertWakes, SignalWakes
    <3>3. CASE TestItems(t) \/ Timeout(t) \/ SpuriousWakeup(t)
      BY <3>3, TestItemsWakes, WakeupWakes
    <3>4. CASE TakeItems(t) \/ ClearOrSize(t)
      BY <3>4, TakeItemsWakes, ClearOrSizeWakes
    <3> QED  BY <2>1, <3>1, <3>2, <3>3, <3>4 DEF Run
  <2> QED  BY <2>2
<1> QED  BY <1>1, <1>2, <1>3 DEF WInv

(* While a thread waits, every element in the queue has a signal on its way  *)
(* or a thread that comes by to take it.                                     *)
THEOREM NoLostWakeup == OneAtATime /\ Spec => []WakeupsCoverItems
<1> SUFFICES ASSUME OneAtATime PROVE Spec => []WakeupsCoverItems
  OBVIOUS
<1>1. Init => WInv
  <2> SUFFICES ASSUME Init PROVE WInv
    OBVIOUS
  <2>1. Len(m_queue) = 0 /\ Waiters = {}
    BY DEF Init, Waiters
  <2> QED  BY <2>1, InitInv DEF WInv, WakeupsCoverItems
<1>2. WInv /\ [Next]_vars => WInv'
  BY NextWakes
<1>3. WInv => WakeupsCoverItems
  BY DEF WInv
<1> QED  BY <1>1, <1>2, <1>3, PTL DEF Spec
=============================================================================
