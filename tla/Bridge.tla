------------------------------- MODULE Bridge -------------------------------
(* The synchronous client: threads that run coroutines on the background     *)
(* loop (LoopRunner, src/umbra/utils/_sync.py), UmbraClient.close, and the   *)
(* queue of frames that listen() reads (AsyncWebSocketClient._dispatch).     *)
(*                                                                           *)
(* A step of a thread is what it does between two points where another       *)
(* thread may run and matter; a step of the loop is what it runs between two *)
(* awaits.                                                                   *)
EXTENDS Naturals, Sequences, SequencesExt

CONSTANTS
    Threads,    \* threads of the application that use one client
    QueueMax,   \* _QUEUE_MAX
    MaxFrames   \* bound: the server sends no more frames

ASSUME BridgeAssumption == QueueMax \in Nat \ {0} /\ MaxFrames \in Nat

VARIABLES
    job,        \* what each thread does: call a method, listen, close the client
    pc,         \* where it is, or how it ended
    coro,       \* its coroutine on the loop
    raised,     \* close: aclose could not be run, so RuntimeError leaves close
    overlapped, \* the loop was told to stop while it was inside run()
    closed,     \* LoopRunner._closed
    stopping,   \* loop.stop is among the loop's callbacks
    loop,       \* running, stopped or closed
    handler,    \* a handler occupies the loop's thread; "waits" if it called run()
    sent,       \* frames received, numbered from 1
    queue,      \* AsyncWebSocketClient._queue
    got,        \* the frames each thread's listen() yielded
    timedOut    \* close gave up joining the loop's thread

Jobs == {"call", "listen", "close"}
Inside == {"submit", "result"}
Done == {"returned", "RuntimeError", "closed", "skipped"}

closing == <<raised, overlapped, closed, stopping, timedOut>>
frames == <<handler, sent, queue, got>>
vars == <<job, pc, coro, raised, overlapped, closed, stopping, loop, handler, sent, queue, got,
          timedOut>>

Init ==
    /\ job \in [Threads -> Jobs]
    /\ pc = [t \in Threads |-> "idle"]
    /\ coro = [t \in Threads |-> "none"]
    /\ raised = [t \in Threads |-> FALSE]
    /\ overlapped = {}
    /\ closed = FALSE
    /\ stopping = FALSE
    /\ loop = "running"
    /\ handler = "none"
    /\ sent = 0
    /\ queue = <<>>
    /\ got = [t \in Threads |-> <<>>]
    /\ timedOut = FALSE

Goes(t, s) == pc' = [pc EXCEPT ![t] = s]
Becomes(t, s) == coro' = [coro EXCEPT ![t] = s]

-----------------------------------------------------------------------------
(* LoopRunner.run.                                                           *)

\* run() raises RuntimeError; UmbraClient.close goes on to its finally clause.
Raise(t) ==
    IF job[t] = "close"
      THEN Goes(t, "shut") /\ raised' = [raised EXCEPT ![t] = TRUE]
      ELSE Goes(t, "RuntimeError") /\ UNCHANGED raised

Unchecked == FALSE
Refuses == closed

\* The test of _closed.
Enter(t) ==
    /\ pc[t] = "idle"
    /\ IF Refuses THEN Raise(t) ELSE Goes(t, "submit") /\ UNCHANGED raised
    /\ UNCHANGED <<job, coro, overlapped, closed, stopping, timedOut, loop, frames>>

\* run_coroutine_threadsafe: a stopped loop takes the coroutine and never runs it.
Submit(t) ==
    /\ pc[t] = "submit"
    /\ IF loop = "closed"
         THEN Raise(t) /\ UNCHANGED coro
         ELSE Goes(t, "result") /\ Becomes(t, "queued") /\ UNCHANGED raised
    /\ UNCHANGED <<job, overlapped, closed, stopping, timedOut, loop, frames>>

\* future.result() returns; listen() yields the frame and asks for the next.
Result(t) ==
    /\ pc[t] = "result"
    /\ coro[t] = "finished"
    /\ Becomes(t, "none")
    /\ Goes(t, CASE job[t] = "call" -> "returned"
                 [] job[t] = "listen" -> "idle"
                 [] job[t] = "close" -> "shut")
    /\ UNCHANGED <<job, closing, loop, frames>>

-----------------------------------------------------------------------------
(* LoopRunner.close, in close's finally clause.                              *)

Shut(t) ==
    /\ pc[t] = "shut"
    /\ IF closed
         THEN Goes(t, IF raised[t] THEN "RuntimeError" ELSE "skipped") /\ UNCHANGED closed
         ELSE Goes(t, "stop") /\ closed' = TRUE
    /\ UNCHANGED <<job, coro, raised, overlapped, stopping, timedOut, loop, frames>>

\* call_soon_threadsafe(loop.stop).
PostStop(t) ==
    /\ pc[t] = "stop"
    /\ stopping' = TRUE
    /\ overlapped' = overlapped \cup {u \in Threads : pc[u] \in Inside}
    /\ Goes(t, "join")
    /\ UNCHANGED <<job, coro, raised, closed, timedOut, loop, frames>>

JoinSkipped == TRUE
ThreadEnded == loop # "running"

\* join returns when the loop's thread has ended; it gives up after five seconds,
\* which are over only if a handler occupies that thread.
Join(t) ==
    /\ pc[t] = "join"
    /\ \/ ThreadEnded /\ UNCHANGED timedOut
       \/ loop = "running" /\ handler # "none" /\ timedOut' = TRUE
    /\ Goes(t, "teardown")
    /\ UNCHANGED <<job, coro, raised, overlapped, closed, stopping, loop, frames>>

Teardown(t) ==
    /\ pc[t] = "teardown"
    /\ loop' = IF loop = "running" THEN loop ELSE "closed"
    /\ Goes(t, IF raised[t] THEN "RuntimeError" ELSE "closed")
    /\ UNCHANGED <<job, coro, closing, frames>>

-----------------------------------------------------------------------------
(* The loop's thread.                                                        *)

Free == loop = "running" /\ handler = "none"

\* A coroutine runs to its first await.
Begin(t) ==
    /\ Free
    /\ coro[t] = "queued"
    /\ Becomes(t, "waiting")
    /\ UNCHANGED <<job, pc, closing, loop, frames>>

\* What it waits for is there: an answer, the pool's shutdown.
Finish(t) ==
    /\ Free
    /\ coro[t] = "waiting"
    /\ job[t] # "listen"
    /\ Becomes(t, "finished")
    /\ UNCHANGED <<job, pc, closing, loop, frames>>

\* messages() gets the oldest frame of the queue.
Get(t) ==
    /\ Free
    /\ coro[t] = "waiting"
    /\ job[t] = "listen"
    /\ queue # <<>>
    /\ Becomes(t, "finished")
    /\ queue' = Tail(queue)
    /\ got' = [got EXCEPT ![t] = Append(@, Head(queue))]
    /\ UNCHANGED <<job, pc, closing, loop, handler, sent>>

AlwaysAppend(f) == Append(queue, f)
KeepOldest(f) == IF Len(queue) = QueueMax THEN queue ELSE Append(queue, f)
Enqueue(f) == Append(IF Len(queue) = QueueMax THEN Tail(queue) ELSE queue, f)

\* _dispatch: the frame is queued, then the handlers run, which may take long.
Frame ==
    /\ Free
    /\ sent < MaxFrames
    /\ sent' = sent + 1
    /\ queue' = Enqueue(sent')
    /\ handler' \in {"none", "runs"}
    /\ UNCHANGED <<job, pc, coro, closing, loop, got>>

\* A handler calls a method of the client: run() waits for the loop that waits for
\* the handler.  After close it raises, which the dispatch logs.
HandlerCalls ==
    /\ handler = "runs"
    /\ handler' = IF closed THEN "none" ELSE "waits"
    /\ UNCHANGED <<job, pc, coro, closing, loop, sent, queue, got>>

HandlerReturns ==
    /\ handler = "runs"
    /\ handler' = "none"
    /\ UNCHANGED <<job, pc, coro, closing, loop, sent, queue, got>>

\* loop.stop has run: run_forever returns, with whatever is pending.
Stop ==
    /\ Free
    /\ stopping
    /\ loop' = "stopped"
    /\ UNCHANGED <<job, pc, coro, closing, frames>>

-----------------------------------------------------------------------------
ThreadStep(t) ==
    \/ Enter(t) \/ Submit(t) \/ Result(t)
    \/ Shut(t) \/ PostStop(t) \/ Join(t) \/ Teardown(t)

Next ==
    \/ \E t \in Threads : ThreadStep(t) \/ Begin(t) \/ Finish(t) \/ Get(t)
    \/ Frame \/ HandlerCalls \/ HandlerReturns \/ Stop

\* Threads run, the loop runs what is ready, requests end (Transport's Settles) and
\* a handler that does not wait for the loop returns.
Fairness ==
    /\ \A t \in Threads :
         /\ WF_vars(Submit(t) \/ Result(t) \/ Shut(t) \/ PostStop(t) \/ Join(t) \/ Teardown(t))
         /\ WF_vars(Begin(t)) /\ WF_vars(Finish(t)) /\ WF_vars(Get(t))
    /\ WF_vars(HandlerCalls \/ HandlerReturns)
    /\ WF_vars(Stop)

Spec == Init /\ [][Next]_vars /\ Fairness

-----------------------------------------------------------------------------
TypeOK ==
    /\ job \in [Threads -> Jobs]
    /\ pc \in [Threads -> {"idle", "shut", "stop", "join", "teardown"} \cup Inside \cup Done]
    /\ coro \in [Threads -> {"none", "queued", "waiting", "finished"}]
    /\ raised \in [Threads -> BOOLEAN]
    /\ overlapped \subseteq Threads
    /\ closed \in BOOLEAN
    /\ stopping \in BOOLEAN
    /\ loop \in {"running", "stopped", "closed"}
    /\ handler \in {"none", "runs", "waits"}
    /\ sent \in 0..MaxFrames
    /\ queue \in Seq(1..sent) /\ Len(queue) <= QueueMax
    /\ got \in [Threads -> Seq(1..sent)]
    /\ timedOut \in BOOLEAN

(* run() and close() return: a thread is kept waiting for ever only if the   *)
(* loop was told to stop while the thread was inside run(), or if a handler  *)
(* called run() on the loop's own thread.  listen() may also wait for a      *)
(* frame that never comes.                                                   *)
Returns ==
    \A t \in Threads :
        job[t] # "listen" /\ pc[t] \notin Done \cup {"idle"}
            ~> pc[t] \in Done \/ t \in overlapped \/ handler = "waits"

(* Once a close() that stopped the loop has returned, nothing of the client  *)
(* runs any more: no coroutine makes a step and no frame is dispatched,      *)
(* unless a handler held the loop's thread longer than close() waits.        *)
QuietAfterClose ==
    [][(\E t \in Threads : pc[t] = "closed") /\ ~timedOut
          => UNCHANGED <<sent, queue, got, handler, loop>>
             /\ \A t \in Threads : coro'[t] = coro[t] \/ coro'[t] \in {"none", "queued"}]_vars

(* Each frame is yielded by at most one listener, each listener gets its     *)
(* frames in the order they came, and a frame that is neither yielded nor    *)
(* queued was pushed out by QueueMax newer ones.                             *)
StreamSound ==
    LET yielded == UNION {ToSet(got[t]) : t \in Threads} IN
    /\ \A t \in Threads : \A i, j \in DOMAIN got[t] : i < j => got[t][i] < got[t][j]
    /\ \A t, u \in Threads : t # u => ToSet(got[t]) \cap ToSet(got[u]) = {}
    /\ yielded \cap ToSet(queue) = {}
    /\ \A f \in 1..sent : f \in yielded \cup ToSet(queue) \/ sent - f >= QueueMax
=============================================================================
