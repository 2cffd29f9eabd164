---------------------------- MODULE BridgeProofs ----------------------------
(* The background loop and the queue of frames, for any number of threads.   *)
EXTENDS Bridge, SequenceTheorems, TLAPS

-----------------------------------------------------------------------------
(* Type correctness.                                                         *)

\* Getting a frame and queueing one keep the queue a short sequence of frames.
LEMMA QueueType ==
    ASSUME NEW n \in Nat, NEW q \in Seq(1..n), Len(q) <= QueueMax
    PROVE  /\ q # <<>> => Head(q) \in 1..n /\ Tail(q) \in Seq(1..n) /\ Len(Tail(q)) = Len(q) - 1
           /\ LET r == Append(IF Len(q) = QueueMax THEN Tail(q) ELSE q, n + 1) IN
              r \in Seq(1..(n + 1)) /\ Len(r) <= QueueMax
<1>1. q # <<>> => Head(q) \in 1..n /\ Tail(q) \in Seq(1..n) /\ Len(Tail(q)) = Len(q) - 1
  BY HeadTailProperties
<1>2. 1..n \subseteq 1..(n + 1) /\ n + 1 \in 1..(n + 1)
  OBVIOUS
<1> DEFINE rest == IF Len(q) = QueueMax THEN Tail(q) ELSE q
<1>3. rest \in Seq(1..n) /\ Len(rest) < QueueMax /\ Len(rest) \in Nat
  <2>1. Len(q) = QueueMax => q # <<>>
    BY BridgeAssumption
  <2>2. CASE Len(q) = QueueMax
    BY <1>1, <2>1, <2>2, BridgeAssumption, LenProperties
  <2>3. CASE Len(q) # QueueMax
    BY <2>3, BridgeAssumption, LenProperties
  <2> QED BY <2>2, <2>3
<1>4. rest \in Seq(1..(n + 1))
  BY <1>2, <1>3, SeqMonotonic
<1> HIDE DEF rest
<1>5. Append(rest, n + 1) \in Seq(1..(n + 1)) /\ Len(Append(rest, n + 1)) = Len(rest) + 1
  BY <1>2, <1>4, AppendProperties
<1>6. Len(Append(rest, n + 1)) <= QueueMax
  BY <1>3, <1>5, BridgeAssumption
<1> QED BY <1>1, <1>5, <1>6 DEF rest

\* The initial states have the declared types.
LEMMA BridgeTypeInit == Init => TypeOK
<1> SUFFICES ASSUME Init PROVE TypeOK
  OBVIOUS
<1>1. sent \in 0..MaxFrames /\ Len(queue) <= QueueMax
  BY BridgeAssumption, EmptySeq DEF Init
<1>2. queue \in Seq(1..sent) /\ got \in [Threads -> Seq(1..sent)]
  BY EmptySeq DEF Init
<1> QED BY <1>1, <1>2 DEF Init, TypeOK, Inside, Done

\* Every step keeps them.
LEMMA BridgeTypeStep == TypeOK /\ [Next]_vars => TypeOK'
<1> SUFFICES ASSUME TypeOK, [Next]_vars PROVE TypeOK'
  OBVIOUS
<1> USE DEF Goes, Becomes, closing, frames
<1>1. ASSUME NEW t \in Threads, Enter(t) PROVE TypeOK'
  BY <1>1 DEF TypeOK, Enter, Raise, Done, Inside
<1>2. ASSUME NEW t \in Threads, Submit(t) PROVE TypeOK'
  BY <1>2 DEF TypeOK, Submit, Raise, Done, Inside
<1>3. ASSUME NEW t \in Threads, Result(t) PROVE TypeOK'
  BY <1>3 DEF TypeOK, Result, Done, Jobs
<1>4. ASSUME NEW t \in Threads, Shut(t) PROVE TypeOK'
  BY <1>4 DEF TypeOK, Shut, Done
<1>5. ASSUME NEW t \in Threads, PostStop(t) PROVE TypeOK'
  BY <1>5 DEF TypeOK, PostStop
<1>6. ASSUME NEW t \in Threads, Join(t) PROVE TypeOK'
  BY <1>6 DEF TypeOK, Join
<1>7. ASSUME NEW t \in Threads, Teardown(t) PROVE TypeOK'
  BY <1>7 DEF TypeOK, Teardown, Done
<1>8. ASSUME NEW t \in Threads, Begin(t) \/ Finish(t) PROVE TypeOK'
  BY <1>8 DEF TypeOK, Begin, Finish
<1>9. ASSUME NEW t \in Threads, Get(t) PROVE TypeOK'
  <2>1. /\ queue # <<>>
        /\ queue' = Tail(queue)
        /\ got' = [got EXCEPT ![t] = Append(got[t], Head(queue))]
        /\ coro' = [coro EXCEPT ![t] = "finished"]
        /\ UNCHANGED <<job, pc, raised, overlapped, closed, stopping, timedOut, loop, handler, sent>>
    BY <1>9 DEF Get
  <2>2. sent \in Nat /\ queue \in Seq(1..sent) /\ Len(queue) <= QueueMax /\ got[t] \in Seq(1..sent)
    BY DEF TypeOK
  <2>3. Head(queue) \in 1..sent /\ Tail(queue) \in Seq(1..sent) /\ Len(Tail(queue)) = Len(queue) - 1
    BY <2>1, <2>2, QueueType
  <2>4. Append(got[t], Head(queue)) \in Seq(1..sent)
    BY <2>2, <2>3, AppendProperties
  <2>5. Len(Tail(queue)) <= QueueMax
    BY <2>2, <2>3, BridgeAssumption, LenProperties
  <2>6. got' \in [Threads -> Seq(1..sent)]
    BY <2>1, <2>4 DEF TypeOK
  <2> QED BY <2>1, <2>3, <2>5, <2>6 DEF TypeOK
<1>10. ASSUME Frame PROVE TypeOK'
  <2>1. /\ sent' = sent + 1
        /\ queue' = Append(IF Len(queue) = QueueMax THEN Tail(queue) ELSE queue, sent + 1)
        /\ handler' \in {"none", "runs"}
        /\ UNCHANGED <<job, pc, coro, raised, overlapped, closed, stopping, timedOut, loop, got>>
    BY <1>10 DEF Frame, Enqueue
  <2>2. sent \in Nat /\ queue \in Seq(1..sent) /\ Len(queue) <= QueueMax
    BY DEF TypeOK
  <2>3. queue' \in Seq(1..(sent + 1)) /\ Len(queue') <= QueueMax
    BY <2>1, <2>2, QueueType
  <2>4. sent' \in 0..MaxFrames
    BY <1>10, BridgeAssumption DEF Frame, TypeOK
  <2>5. Seq(1..sent) \subseteq Seq(1..sent')
    BY <2>1, <2>2, SeqMonotonic
  <2>6. got' \in [Threads -> Seq(1..sent')]
    BY <2>1, <2>5 DEF TypeOK
  <2> QED BY <2>1, <2>3, <2>4, <2>6 DEF TypeOK
<1>11. ASSUME HandlerCalls \/ HandlerReturns \/ Stop PROVE TypeOK'
  BY <1>11 DEF TypeOK, HandlerCalls, HandlerReturns, Stop
<1>12. ASSUME UNCHANGED vars PROVE TypeOK'
  BY <1>12 DEF TypeOK, vars
<1> QED BY <1>1, <1>2, <1>3, <1>4, <1>5, <1>6, <1>7, <1>8, <1>9, <1>10, <1>11, <1>12
        DEF Next, ThreadStep

(* _sync.py, websocket.py:363: in every reachable state the variables have   *)
(* their types; the queue never holds more than QueueMax frames.             *)
THEOREM BridgeTypeCorrect == Spec => []TypeOK
BY BridgeTypeInit, BridgeTypeStep, PTL DEF Spec

-----------------------------------------------------------------------------
(* Quiet after close.                                                        *)

\* A close that did not give up has seen the loop's thread end, and closes the loop; a
\* loop that has stopped has no handler on its thread and does not run again.
Ended ==
    /\ loop # "running" => handler = "none"
    /\ \A t \in Threads : pc[t] = "teardown" /\ ~timedOut => loop # "running"
    /\ \A t \in Threads : pc[t] = "closed" /\ ~timedOut => loop = "closed"

\* The loop runs at the start.
LEMMA EndedInit == Init => Ended
BY DEF Init, Ended

\* The loop's own steps need a running loop with no handler on it; the others do not start it.
LEMMA EndedStep == TypeOK /\ Ended /\ [Next]_vars => Ended'
<1> SUFFICES ASSUME TypeOK, Ended, [Next]_vars PROVE Ended'
  OBVIOUS
<1> USE DEF Goes, Becomes, closing, frames, TypeOK, Ended
<1>1. ASSUME NEW t \in Threads, Enter(t) \/ Submit(t) \/ Result(t) PROVE Ended'
  BY <1>1 DEF Enter, Submit, Raise, Result, Jobs
<1>2. ASSUME NEW t \in Threads, Shut(t) \/ PostStop(t) PROVE Ended'
  BY <1>2 DEF Shut, PostStop
<1>3. ASSUME NEW t \in Threads, Join(t) PROVE Ended'
  BY <1>3 DEF Join, ThreadEnded
<1>4. ASSUME NEW t \in Threads, Teardown(t) PROVE Ended'
  BY <1>4 DEF Teardown
<1>5. ASSUME NEW t \in Threads, Begin(t) \/ Finish(t) \/ Get(t) PROVE Ended'
  BY <1>5 DEF Begin, Finish, Get
<1>6. ASSUME Frame \/ HandlerCalls \/ HandlerReturns \/ Stop PROVE Ended'
  BY <1>6 DEF Frame, HandlerCalls, HandlerReturns, Stop, Free
<1>7. ASSUME UNCHANGED vars PROVE Ended'
  BY <1>7 DEF vars
<1> QED BY <1>1, <1>2, <1>3, <1>4, <1>5, <1>6, <1>7 DEF Next, ThreadStep

\* What may happen to coroutines and frames once a close has returned.
Quiet ==
    (\E t \in Threads : pc[t] = "closed") /\ ~timedOut
        => UNCHANGED <<sent, queue, got, handler, loop>>
           /\ \A t \in Threads : coro'[t] = coro[t] \/ coro'[t] \in {"none", "queued"}

\* By then the loop is closed, so that no step of its own is enabled.
LEMMA QuietStep == TypeOK /\ Ended /\ [Next]_vars => Quiet
<1> SUFFICES ASSUME TypeOK, Ended, [Next]_vars,
                    NEW k \in Threads, pc[k] = "closed", ~timedOut
             PROVE  UNCHANGED <<sent, queue, got, handler, loop>>
                    /\ \A t \in Threads : coro'[t] = coro[t] \/ coro'[t] \in {"none", "queued"}
  BY DEF Quiet
<1>1. loop = "closed" /\ handler = "none"
  BY DEF Ended
<1>2. coro \in [Threads -> {"none", "queued", "waiting", "finished"}]
  BY DEF TypeOK
<1> USE DEF Goes, Becomes, closing, frames
<1>3. CASE \E t \in Threads : Enter(t) \/ Submit(t) \/ Result(t)
  BY <1>1, <1>2, <1>3 DEF Enter, Submit, Result
<1>4. CASE \E t \in Threads : Shut(t) \/ PostStop(t) \/ Join(t) \/ Teardown(t)
  BY <1>1, <1>4 DEF Shut, PostStop, Join, Teardown
<1>5. ~(\E t \in Threads : Begin(t) \/ Finish(t) \/ Get(t))
  BY <1>1 DEF Begin, Finish, Get, Free
<1>6. ~(Frame \/ HandlerCalls \/ HandlerReturns \/ Stop)
  BY <1>1 DEF Frame, HandlerCalls, HandlerReturns, Stop, Free
<1>7. CASE UNCHANGED vars
  BY <1>7 DEF vars
<1> QED BY <1>3, <1>4, <1>5, <1>6, <1>7 DEF Next, ThreadStep

(* _sync.py:69: once a close that stopped the loop has returned nothing of   *)
(* the client runs, however many threads use it and close it at once.        *)
THEOREM CloseIsQuiet == Spec => QuietAfterClose
<1>1. TypeOK /\ Ended /\ [Next]_vars => TypeOK' /\ Ended' /\ Quiet
  BY BridgeTypeStep, EndedStep, QuietStep
<1>2. Quiet <=> ((\E t \in Threads : pc[t] = "closed") /\ ~timedOut
          => UNCHANGED <<sent, queue, got, handler, loop>>
             /\ \A t \in Threads : coro'[t] = coro[t] \/ coro'[t] \in {"none", "queued"})
  BY DEF Quiet
<1> QED BY <1>1, <1>2, BridgeTypeInit, EndedInit, PTL DEF Spec, QuietAfterClose

-----------------------------------------------------------------------------
(* The stream of frames.                                                     *)

\* The queue holds the newest frames, one after the other, up to the last that came.
\* Oldest is the one before them.
Oldest == sent - Len(queue)
QueueIsNewest == \A i \in 1..Len(queue) : queue[i] = Oldest + i

\* What was yielded is older than what is queued.
YieldedIsOlder == \A t \in Threads : \A i \in DOMAIN got[t] : got[t][i] <= Oldest

\* What is neither was pushed out.
Yielded == UNION {ToSet(got[t]) : t \in Threads}
RestPushedOut == \A f \in 1..sent : f \in Yielded \/ f > Oldest \/ sent - f >= QueueMax

InOrder == \A t \in Threads : \A i, j \in DOMAIN got[t] : i < j => got[t][i] < got[t][j]
Once == \A t, u \in Threads : t # u => ToSet(got[t]) \cap ToSet(got[u]) = {}

StreamInv == QueueIsNewest /\ YieldedIsOlder /\ RestPushedOut /\ InOrder /\ Once

\* The frames of the queue are those that are younger than Oldest.
LEMMA StreamImplies == TypeOK /\ StreamInv => StreamSound
<1> SUFFICES ASSUME TypeOK, StreamInv PROVE StreamSound
  OBVIOUS
<1>1. sent \in Nat /\ Len(queue) \in Nat /\ DOMAIN queue = 1..Len(queue)
  BY LenProperties DEF TypeOK
<1>2. \A f \in ToSet(queue) : f > Oldest
  BY <1>1 DEF ToSet, StreamInv, QueueIsNewest, Oldest
<1>3. \A f \in 1..sent : f > Oldest => f \in ToSet(queue)
  <2> SUFFICES ASSUME NEW f \in 1..sent, f > Oldest PROVE f \in ToSet(queue)
    OBVIOUS
  <2>1. f - Oldest \in 1..Len(queue)
    BY <1>1 DEF Oldest
  <2>2. queue[f - Oldest] = Oldest + (f - Oldest)
    BY <2>1 DEF StreamInv, QueueIsNewest
  <2>3. Oldest + (f - Oldest) = f
    BY <1>1 DEF Oldest
  <2> QED BY <1>1, <2>1, <2>2, <2>3 DEF ToSet
<1>4. \A f \in Yielded : f \in Int /\ f <= Oldest
  <2> SUFFICES ASSUME NEW t \in Threads, NEW i \in DOMAIN got[t]
               PROVE  got[t][i] \in Int /\ got[t][i] <= Oldest
    BY DEF Yielded, ToSet
  <2>1. got[t] \in Seq(1..sent)
    BY DEF TypeOK
  <2>2. got[t][i] \in 1..sent
    BY <2>1, ElementOfSeq, LenProperties
  <2> QED BY <1>1, <2>2 DEF StreamInv, YieldedIsOlder
<1>5. Yielded \cap ToSet(queue) = {}
  BY <1>1, <1>2, <1>4 DEF Oldest
<1> QED BY <1>3, <1>5 DEF StreamSound, StreamInv, RestPushedOut, InOrder, Once, Yielded

\* Nothing came yet.
LEMMA StreamInit == Init => StreamInv
BY DEF Init, StreamInv, QueueIsNewest, YieldedIsOlder, RestPushedOut, InOrder, Once, ToSet,
       Yielded, Oldest

\* A listener gets the head of the queue, which is older than the rest and younger than
\* all that was yielded.
LEMMA GetStream ==
    ASSUME TypeOK, StreamInv, NEW t \in Threads, Get(t)
    PROVE  StreamInv'
<1>1. /\ queue # <<>>
      /\ queue' = Tail(queue)
      /\ got' = [got EXCEPT ![t] = Append(got[t], Head(queue))]
      /\ sent' = sent
  BY DEF Get
<1>2. /\ sent \in Nat /\ queue \in Seq(1..sent)
      /\ got \in [Threads -> Seq(1..sent)] /\ got[t] \in Seq(1..sent)
  BY DEF TypeOK
<1>3. /\ Len(queue) \in Nat \ {0} /\ Len(queue') = Len(queue) - 1
      /\ \A i \in 1..Len(queue') : queue'[i] = queue[i + 1]
      /\ Head(queue) = queue[1]
  BY <1>1, <1>2, HeadTailProperties, EmptySeq, LenProperties
<1>4. Oldest \in Int /\ Oldest' = Oldest + 1 /\ Head(queue) = Oldest + 1
  BY <1>1, <1>2, <1>3 DEF Oldest, StreamInv, QueueIsNewest
<1>5. QueueIsNewest'
  <2> SUFFICES ASSUME NEW i \in 1..Len(queue') PROVE queue'[i] = Oldest' + i
    BY DEF QueueIsNewest
  <2>1. i + 1 \in 1..Len(queue)
    BY <1>3
  <2>2. queue[i + 1] = Oldest + (i + 1)
    BY <2>1 DEF StreamInv, QueueIsNewest
  <2> QED BY <1>3, <1>4, <2>2
<1>6. /\ got'[t] = Append(got[t], Head(queue))
      /\ \A u \in Threads : u # t => got'[u] = got[u]
  BY <1>1, <1>2
<1>7. /\ Len(got[t]) \in Nat /\ DOMAIN got[t] = 1..Len(got[t])
      /\ DOMAIN got'[t] = 1..(Len(got[t]) + 1)
      /\ \A i \in 1..Len(got[t]) : got'[t][i] = got[t][i]
      /\ got'[t][Len(got[t]) + 1] = Oldest + 1
  <2>1. Head(queue) \in 1..sent
    BY <1>1, <1>2, HeadTailProperties
  <2> QED BY <1>2, <1>4, <1>6, <2>1, AppendProperties, LenProperties
<1>8. \A u \in Threads : \A i \in DOMAIN got[u] : got[u][i] \in Nat /\ got[u][i] <= Oldest
  <2> SUFFICES ASSUME NEW u \in Threads, NEW i \in DOMAIN got[u] PROVE got[u][i] \in Nat
    BY DEF StreamInv, YieldedIsOlder
  <2>1. got[u] \in Seq(1..sent)
    BY <1>2
  <2>2. got[u][i] \in 1..sent
    BY <2>1, ElementOfSeq, LenProperties
  <2> QED BY <1>2, <2>2
<1>9. YieldedIsOlder'
  <2> SUFFICES ASSUME NEW u \in Threads, NEW i \in DOMAIN got'[u] PROVE got'[u][i] <= Oldest'
    BY DEF YieldedIsOlder
  <2>1. CASE u # t
    BY <1>4, <1>6, <1>8, <2>1
  <2>2. CASE u = t /\ i \in 1..Len(got[t])
    <3>1. got[t][i] \in Nat /\ got[t][i] <= Oldest
      BY <1>7, <1>8, <2>2
    <3> QED BY <1>4, <1>7, <2>2, <3>1
  <2>3. CASE u = t /\ i = Len(got[t]) + 1
    BY <1>4, <1>7, <2>3
  <2> QED BY <1>7, <2>1, <2>2, <2>3
<1>10. /\ ToSet(got'[t]) = ToSet(got[t]) \cup {Oldest + 1}
       /\ \A u \in Threads : u # t => ToSet(got'[u]) = ToSet(got[u])
       /\ \A u \in Threads : Oldest + 1 \notin ToSet(got[u])
  <2>1. \A u \in Threads : u # t => ToSet(got'[u]) = ToSet(got[u])
    BY <1>6
  <2>2. ToSet(got'[t]) = ToSet(got[t]) \cup {Oldest + 1}
    <3>1. 1..(Len(got[t]) + 1) = 1..Len(got[t]) \cup {Len(got[t]) + 1}
      BY <1>7
    <3> QED BY <1>7, <3>1 DEF ToSet
  <2>3. \A u \in Threads : Oldest + 1 \notin ToSet(got[u])
    BY <1>4, <1>8 DEF ToSet
  <2> QED BY <2>1, <2>2, <2>3
<1>11. RestPushedOut'
  <2> SUFFICES ASSUME NEW f \in 1..sent
               PROVE  f \in Yielded' \/ f > Oldest' \/ sent - f >= QueueMax
    BY <1>1 DEF RestPushedOut
  <2>1. CASE f = Oldest + 1
    BY <1>10, <2>1 DEF Yielded
  <2>2. CASE f \in Yielded
    BY <1>10, <2>2 DEF Yielded
  <2>3. CASE f # Oldest + 1 /\ f > Oldest
    BY <1>4, <2>3
  <2> QED BY <2>1, <2>2, <2>3 DEF StreamInv, RestPushedOut
<1>12. InOrder'
  <2> SUFFICES ASSUME NEW u \in Threads, NEW i \in DOMAIN got'[u], NEW j \in DOMAIN got'[u], i < j
               PROVE  got'[u][i] < got'[u][j]
    BY DEF InOrder
  <2>1. CASE u # t
    BY <1>6, <2>1 DEF StreamInv, InOrder
  <2>2. CASE u = t /\ j \in 1..Len(got[t])
    <3>1. i \in 1..Len(got[t])
      BY <1>7, <2>2
    <3> QED BY <1>7, <2>2, <3>1 DEF StreamInv, InOrder
  <2>3. CASE u = t /\ j = Len(got[t]) + 1
    <3>1. i \in 1..Len(got[t])
      BY <1>7, <2>3
    <3>2. got[t][i] \in Nat /\ got[t][i] <= Oldest
      BY <1>7, <1>8, <3>1
    <3> QED BY <1>4, <1>7, <2>3, <3>1, <3>2
  <2> QED BY <1>7, <2>1, <2>2, <2>3
<1>13. Once'
  BY <1>10 DEF StreamInv, Once
<1> QED BY <1>5, <1>9, <1>11, <1>12, <1>13 DEF StreamInv

\* A frame is queued behind the others; the oldest one goes when the queue is full.
LEMMA FrameStream ==
    ASSUME TypeOK, StreamInv, Frame
    PROVE  StreamInv'
<1> DEFINE rest == IF Len(queue) = QueueMax THEN Tail(queue) ELSE queue
<1>1. sent' = sent + 1 /\ queue' = Append(rest, sent + 1) /\ got' = got
  BY DEF Frame, Enqueue
<1>2. sent \in Nat /\ queue \in Seq(1..sent) /\ Len(queue) \in Nat /\ Len(queue) <= QueueMax
  BY LenProperties DEF TypeOK
<1>3. /\ rest \in Seq(1..(sent + 1)) /\ Len(rest) \in Nat
      /\ \A i \in 1..Len(rest) : rest[i] = sent - Len(rest) + i
      /\ Len(rest) = IF Len(queue) = QueueMax THEN Len(queue) - 1 ELSE Len(queue)
  <2>1. 1..sent \subseteq 1..(sent + 1)
    BY <1>2
  <2>2. CASE Len(queue) = QueueMax
    <3>1. /\ queue # <<>> /\ Tail(queue) \in Seq(1..sent) /\ Len(Tail(queue)) = Len(queue) - 1
          /\ \A i \in 1..Len(Tail(queue)) : Tail(queue)[i] = queue[i + 1]
      BY <1>2, <2>2, BridgeAssumption, EmptySeq, HeadTailProperties
    <3>2. \A i \in 1..Len(Tail(queue)) : i + 1 \in 1..Len(queue)
      BY <1>2, <3>1
    <3>3. \A i \in 1..Len(Tail(queue)) : Tail(queue)[i] = sent - Len(Tail(queue)) + i
      BY <1>2, <3>1, <3>2 DEF StreamInv, QueueIsNewest, Oldest
    <3>4. Len(Tail(queue)) \in Nat
      BY <3>1, LenProperties
    <3> QED BY <2>1, <2>2, <3>1, <3>3, <3>4, SeqMonotonic
  <2>3. CASE Len(queue) # QueueMax
    BY <1>2, <2>1, <2>3, SeqMonotonic DEF StreamInv, QueueIsNewest, Oldest
  <2> QED BY <2>2, <2>3
<1> HIDE DEF rest
<1>4. /\ Len(queue') = Len(rest) + 1
      /\ \A i \in 1..Len(rest) : queue'[i] = rest[i]
      /\ queue'[Len(rest) + 1] = sent + 1
  BY <1>1, <1>2, <1>3, AppendProperties
<1>5. /\ Oldest \in Int /\ Oldest' = sent - Len(rest)
      /\ Oldest' = IF Len(queue) = QueueMax THEN Oldest + 1 ELSE Oldest
  <2>1. Oldest' = (sent + 1) - (Len(rest) + 1)
    BY <1>1, <1>4 DEF Oldest
  <2>2. Len(rest) \in Nat /\ Len(rest) = IF Len(queue) = QueueMax THEN Len(queue) - 1 ELSE Len(queue)
    BY <1>3
  <2>3. sent + 1 - (Len(rest) + 1) = sent - Len(rest)
    BY <1>2, <2>2
  <2>4. CASE Len(queue) = QueueMax
    <3>1. Len(rest) = Len(queue) - 1
      BY <2>2, <2>4
    <3>2. sent - Len(rest) = (sent - Len(queue)) + 1
      BY <1>2, <3>1
    <3> QED BY <1>2, <2>1, <2>3, <2>4, <3>2 DEF Oldest
  <2>5. CASE Len(queue) # QueueMax
    <3>1. Len(rest) = Len(queue)
      BY <2>2, <2>5
    <3> QED BY <1>2, <2>1, <2>3, <2>5, <3>1 DEF Oldest
  <2> QED BY <2>4, <2>5
<1>6. QueueIsNewest'
  <2> SUFFICES ASSUME NEW i \in 1..Len(queue') PROVE queue'[i] = Oldest' + i
    BY DEF QueueIsNewest
  <2>1. CASE i \in 1..Len(rest)
    BY <1>3, <1>4, <1>5, <2>1
  <2>2. CASE i = Len(rest) + 1
    BY <1>2, <1>3, <1>4, <1>5, <2>2
  <2> QED BY <1>3, <1>4, <2>1, <2>2
<1>7. YieldedIsOlder'
  <2> SUFFICES ASSUME NEW t \in Threads, NEW i \in DOMAIN got[t] PROVE got[t][i] <= Oldest'
    BY <1>1 DEF YieldedIsOlder
  <2>1. got[t] \in Seq(1..sent) /\ got[t][i] <= Oldest
    BY DEF TypeOK, StreamInv, YieldedIsOlder
  <2>2. got[t][i] \in 1..sent
    BY <2>1, ElementOfSeq, LenProperties
  <2> QED BY <1>5, <2>1, <2>2
<1>8. RestPushedOut'
  <2> SUFFICES ASSUME NEW f \in 1..(sent + 1)
               PROVE  f \in Yielded \/ f > Oldest' \/ sent + 1 - f >= QueueMax
    <3>1. Yielded' = Yielded
      BY <1>1 DEF Yielded
    <3> QED BY <1>1, <1>2, <3>1 DEF RestPushedOut
  <2>1. CASE f = sent + 1
    <3>1. Len(rest) \in Nat /\ Oldest' = sent - Len(rest)
      BY <1>3, <1>5
    <3>2. sent + 1 > sent - Len(rest)
      BY <1>2, <3>1
    <3> QED BY <2>1, <3>1, <3>2
  <2>2. CASE f \in 1..sent
    <3>1. f \in Yielded \/ f > Oldest \/ sent - f >= QueueMax
      BY <2>2 DEF StreamInv, RestPushedOut
    <3>2. CASE f > Oldest
      BY <1>2, <1>5, <2>2, <3>2, BridgeAssumption DEF Oldest
    <3>3. CASE sent - f >= QueueMax
      BY <1>2, <2>2, <3>3, BridgeAssumption
    <3> QED BY <3>1, <3>2, <3>3
  <2> QED BY <1>2, <2>1, <2>2
<1>9. InOrder' /\ Once'
  BY <1>1 DEF StreamInv, InOrder, Once
<1> QED BY <1>6, <1>7, <1>8, <1>9 DEF StreamInv

\* No other step touches the frames.
LEMMA StreamStep == TypeOK /\ StreamInv /\ [Next]_vars => StreamInv'
<1> SUFFICES ASSUME TypeOK, StreamInv, [Next]_vars PROVE StreamInv'
  OBVIOUS
<1>1. CASE \E t \in Threads : Get(t)
  BY <1>1, GetStream
<1>2. CASE Frame
  BY <1>2, FrameStream
<1>3. CASE UNCHANGED <<sent, queue, got>>
  BY <1>3 DEF StreamInv, QueueIsNewest, YieldedIsOlder, RestPushedOut, InOrder, Once, Oldest, Yielded
<1>4. CASE (\E t \in Threads : ThreadStep(t) \/ Begin(t) \/ Finish(t))
           \/ HandlerCalls \/ HandlerReturns \/ Stop \/ UNCHANGED vars
  BY <1>3, <1>4 DEF ThreadStep, Enter, Submit, Result, Shut, PostStop, Join, Teardown, Begin, Finish,
                    HandlerCalls, HandlerReturns, Stop, frames, vars
<1> QED BY <1>1, <1>2, <1>4 DEF Next

(* websocket.py:363, :134: for any number of listeners and frames and any    *)
(* queue, a frame is yielded once at most and in order, and none is lost but *)
(* those that QueueMax newer ones pushed out.                                *)
THEOREM StreamIsSound == Spec => []StreamSound
<1>1. Spec => [](TypeOK /\ StreamInv)
  BY BridgeTypeInit, BridgeTypeStep, StreamInit, StreamStep, PTL DEF Spec
<1> QED BY <1>1, StreamImplies, PTL

-----------------------------------------------------------------------------
(* Who waits for a loop that has stopped.                                    *)

\* A thread in run() when the loop no longer runs was there when the loop was told to stop.
WaitsByOverlap == loop # "running" => \A t \in Threads : pc[t] \in Inside => t \in overlapped

\* The loop is told to stop after _closed was set, which keeps other threads out of run(),
\* and is told so before anyone joins its thread.
StopInv ==
    /\ \A t \in Threads : pc[t] \in {"stop", "join", "teardown", "closed"} => closed
    /\ \A t \in Threads : pc[t] \in {"join", "teardown", "closed"} => stopping
    /\ stopping => closed /\ \A t \in Threads : pc[t] \in Inside => t \in overlapped
    /\ loop # "running" => stopping

\* Nobody closes at the start.
LEMMA StopInvInit == Init => StopInv
BY DEF Init, StopInv, Inside

\* A thread gets into run() only before _closed is set.
LEMMA StopInvStep == TypeOK /\ StopInv /\ [Next]_vars => StopInv'
<1> SUFFICES ASSUME TypeOK, StopInv, [Next]_vars PROVE StopInv'
  OBVIOUS
<1> USE DEF Goes, Becomes, closing, frames, TypeOK, StopInv, Inside
<1>1. ASSUME NEW t \in Threads, Enter(t) PROVE StopInv'
  BY <1>1 DEF Enter, Refuses, Raise
<1>2. ASSUME NEW t \in Threads, Submit(t) PROVE StopInv'
  BY <1>2 DEF Submit, Raise
<1>3. ASSUME NEW t \in Threads, Result(t) PROVE StopInv'
  BY <1>3 DEF Result, Jobs
<1>4. ASSUME NEW t \in Threads, Shut(t) PROVE StopInv'
  BY <1>4 DEF Shut
<1>5. ASSUME NEW t \in Threads, PostStop(t) PROVE StopInv'
  BY <1>5 DEF PostStop
<1>6. ASSUME NEW t \in Threads, Join(t) \/ Teardown(t) PROVE StopInv'
  BY <1>6 DEF Join, Teardown
<1>7. ASSUME NEW t \in Threads, Begin(t) \/ Finish(t) \/ Get(t) PROVE StopInv'
  BY <1>7 DEF Begin, Finish, Get
<1>8. ASSUME Frame \/ HandlerCalls \/ HandlerReturns \/ Stop PROVE StopInv'
  BY <1>8 DEF Frame, HandlerCalls, HandlerReturns, Stop
<1>9. ASSUME UNCHANGED vars PROVE StopInv'
  BY <1>9 DEF vars
<1> QED BY <1>1, <1>2, <1>3, <1>4, <1>5, <1>6, <1>7, <1>8, <1>9 DEF Next, ThreadStep

(* _sync.py:46, :55: with any number of threads, one that is inside run()    *)
(* while the loop has stopped was there when close() told the loop to stop:  *)
(* whoever calls run() later is turned away and is never left waiting.       *)
THEOREM OnlyOverlappedWait == Spec => []WaitsByOverlap
<1>1. Spec => [](TypeOK /\ StopInv)
  BY BridgeTypeInit, BridgeTypeStep, StopInvInit, StopInvStep, PTL DEF Spec
<1>2. StopInv => WaitsByOverlap
  BY DEF StopInv, WaitsByOverlap
<1> QED BY <1>1, <1>2, PTL
=============================================================================
