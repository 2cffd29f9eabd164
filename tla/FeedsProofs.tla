----------------------------- MODULE FeedsProofs -----------------------------
(* The WebSocket manager, for any number of subscribing coroutines.          *)
EXTENDS Feeds, SequenceTheorems, FiniteSetTheorems, WellFoundedInduction, TLAPS

-----------------------------------------------------------------------------
(* Type correctness.                                                         *)

\* A set of indices has a smallest one.
LEMMA Smallest ==
    ASSUME NEW S \in SUBSET Nat, S # {}
    PROVE  \E i \in S : \A j \in S : i <= j
<1> DEFINE Ball(i) == 0..i
           R == StrictSubsetOrdering(Nat)
           T == {Ball(i) : i \in S}
<1>1. T \subseteq FiniteSubsetsOf(Nat) /\ T # {}
  <2>1. \A i \in S : Ball(i) \in SUBSET Nat /\ IsFiniteSet(Ball(i))
    <3> TAKE i \in S
    <3>1. 0 \in Int /\ i \in Int
      OBVIOUS
    <3>2. IsFiniteSet(0..i)
      BY <3>1, FS_Interval
    <3> QED BY <3>2
  <2> HIDE DEF Ball
  <2> QED BY <2>1 DEF FiniteSubsetsOf
<1>2. PICK b \in T : \A c \in T : <<c, b>> \notin R
  <2>1. IsWellFoundedOn(R, FiniteSubsetsOf(Nat))
    BY FS_StrictSubsetOrderingWellFounded
  <2> HIDE DEF R, T
  <2> QED BY <1>1, <2>1, WFMin
<1>3. PICK i \in S : b = Ball(i)
  OBVIOUS
<1>4. ASSUME NEW j \in S, ~(i <= j) PROVE FALSE
  <2>1. Ball(j) \subseteq Ball(i) /\ Ball(j) # Ball(i)
    <3>1. i \in Ball(i) /\ i \notin Ball(j)
      BY <1>4
    <3>2. Ball(j) \subseteq Ball(i)
      BY <1>4
    <3> QED BY <3>1, <3>2
  <2>2. <<Ball(j), Ball(i)>> \in R
    BY <2>1 DEF StrictSubsetOrdering
  <2> QED BY <1>2, <1>3, <2>2
<1> QED BY <1>4

\* A second private subscription finds a feed of the list.
LEMMA FirstIsListed ==
    ASSUME TypeOK, UserFeeds # {}
    PROVE  FirstUserFeed \in Apps /\ \E i \in DOMAIN feeds : FirstUserFeed = feeds[i]
<1>1. feeds \in Seq(Apps) /\ DOMAIN feeds \subseteq Nat
  BY LenProperties DEF TypeOK
<1>2. UserFeeds \in SUBSET Nat /\ UserFeeds \subseteq DOMAIN feeds
  BY <1>1 DEF UserFeeds
<1>3. PICK i \in UserFeeds : \A j \in UserFeeds : i <= j
  BY <1>2, Smallest
<1>4. (CHOOSE k \in UserFeeds : \A j \in UserFeeds : k <= j) \in DOMAIN feeds
  BY <1>2, <1>3
<1> QED BY <1>1, <1>4, ElementOfSeq, LenProperties DEF FirstUserFeed

\* The initial states have the declared types.
LEMMA FeedsTypeInit == Init => TypeOK
<1> SUFFICES ASSUME Init PROVE TypeOK
  OBVIOUS
<1>1. attempt \in [Apps -> Nat]
  BY DEF Init
<1> QED BY <1>1, EmptySeq DEF Init, TypeOK, Running

\* A started feed is appended to the list.
LEMMA StartFeedType ==
    ASSUME TypeOK, NEW a \in Apps, StartFeed(a)
    PROVE  /\ feeds' \in Seq(Apps)
           /\ task' \in [Apps -> Running \cup {"none", "dead"}]
           /\ handle' \in [Apps -> Apps \cup {NoFeed}]
           /\ sub' \in [Apps -> {"idle", "starting", "subscribed", "stopping", "stopped", "failed"}]
           /\ overlap' \subseteq Apps
           /\ \A f \in Apps : task'[f] \in {"open", "dispatching"} => task[f] = task'[f]
<1>1. feeds' \in Seq(Apps)
  BY AppendProperties DEF StartFeed, TypeOK
<1> QED BY <1>1 DEF StartFeed, TypeOK, Running

\* Failing and going on keep what they change.
LEMMA FailType ==
    ASSUME TypeOK, NEW f \in Apps, Fail(f)
    PROVE  /\ task' \in [Apps -> Running \cup {"none", "dead"}]
           /\ attempt' \in [Apps -> Nat]
           /\ \A g \in Apps : task'[g] \in {"open", "dispatching"} => attempt'[g] = 0
<1>1. CASE Doomed(f) \/ attempt[f] = Overflow
  BY <1>1 DEF Fail, Becomes, TypeOK, Running
<1>2. CASE ~(Doomed(f) \/ attempt[f] = Overflow)
  <2>1. attempt[f] + 1 \in Nat
    BY DEF TypeOK
  <2>2. /\ task' = [task EXCEPT ![f] = "backoff"]
        /\ attempt' = [attempt EXCEPT ![f] = attempt[f] + 1]
    BY <1>2 DEF Fail, Becomes
  <2>3. task' \in [Apps -> Running \cup {"none", "dead"}]
    BY <2>2 DEF TypeOK, Running
  <2>4. attempt' \in [Apps -> Nat]
    BY <2>1, <2>2 DEF TypeOK
  <2>5. ASSUME NEW g \in Apps, task'[g] \in {"open", "dispatching"} PROVE attempt'[g] = 0
    BY <2>2, <2>5 DEF TypeOK
  <2> QED BY <2>3, <2>4, <2>5
<1> QED BY <1>1, <1>2

\* Stopping a feed keeps the types.
LEMMA StopType ==
    ASSUME TypeOK, NEW S, Stop(S)
    PROVE  stopped' \in [Apps -> BOOLEAN] /\ cancelled' \in [Apps -> BOOLEAN]
BY DEF Stop, TypeOK

\* Every step keeps them.
LEMMA FeedsTypeStep == TypeOK /\ [Next]_vars => TypeOK'
<1> SUFFICES ASSUME TypeOK, [Next]_vars PROVE TypeOK'
  OBVIOUS
<1> USE DEF flags, subs
<1>1. ASSUME NEW a \in Apps, Subscribe(a) PROVE TypeOK'
  <2>1. UNCHANGED <<topic, attempt, stopped, fatal, cancelled, aborted, closing, closed, up>>
    BY <1>1 DEF Subscribe
  <2>2. CASE StartFeed(a)
    BY <2>1, <2>2, StartFeedType DEF TypeOK
  <2>3. CASE UserFeeds # {} /\ handle' = [handle EXCEPT ![a] = FirstUserFeed]
             /\ sub' = [sub EXCEPT ![a] = "subscribed"] /\ UNCHANGED <<feeds, task, overlap>>
    BY <2>1, <2>3, FirstIsListed DEF TypeOK
  <2>4. CASE sub' = [sub EXCEPT ![a] = "starting"] /\ UNCHANGED <<handle, feeds, task, overlap>>
    BY <2>1, <2>4 DEF TypeOK
  <2> QED BY <1>1, <2>2, <2>3, <2>4 DEF Subscribe
<1>2. ASSUME NEW a \in Apps, Resolved(a) PROVE TypeOK'
  BY <1>2, StartFeedType DEF Resolved, TypeOK
<1>3. ASSUME NEW a \in Apps, ResolveFails(a) \/ Unsubscribed(a) PROVE TypeOK'
  BY <1>3 DEF ResolveFails, Unsubscribed, TypeOK
<1>4. ASSUME NEW a \in Apps, Unsubscribe(a) PROVE TypeOK'
  BY <1>4, StopType DEF Unsubscribe, TypeOK
<1>5. ASSUME Close PROVE TypeOK'
  <2>1. ToSet(feeds) \subseteq Apps
    <3>1. feeds \in Seq(Apps)
      BY DEF TypeOK
    <3> QED BY <3>1, ElementOfSeq, LenProperties DEF ToSet
  <2> QED BY <1>5, <2>1, StopType DEF Close, TypeOK
<1>6. ASSUME Closed PROVE TypeOK'
  BY <1>6, EmptySeq DEF Closed, TypeOK
<1>7. ASSUME NEW f \in Apps, Connect(f) PROVE TypeOK'
  BY <1>7 DEF Connect, StartsAfresh, Becomes, TypeOK, Running
<1>8. ASSUME NEW f \in Apps, ConnectFails(f) \/ Drop(f) PROVE TypeOK'
  BY <1>8, FailType DEF ConnectFails, Drop, TypeOK
<1>9. ASSUME NEW f \in Apps, Wake(f) \/ Silence(f) \/ Dispatched(f) PROVE TypeOK'
  BY <1>9 DEF Wake, Silence, Dispatched, NextRound, AfterDispatch, Ready, Becomes, TypeOK, Running
<1>10. ASSUME NEW f \in Apps, Frame(f) \/ StopFromHandler(f) \/ HandlerAborts(f) PROVE TypeOK'
  BY <1>10 DEF Frame, StopFromHandler, HandlerAborts, Ready, Becomes, TypeOK, Running
<1>11. ASSUME NEW f \in Apps, Cancelled(f) PROVE TypeOK'
  BY <1>11 DEF Cancelled, Becomes, TypeOK, Running
<1>12. ASSUME Toggle \/ UNCHANGED vars PROVE TypeOK'
  BY <1>12 DEF Toggle, vars, TypeOK
<1> QED BY <1>1, <1>2, <1>3, <1>4, <1>5, <1>6, <1>7, <1>8, <1>9, <1>10, <1>11, <1>12
        DEF Next, App, FeedStep

(* websocket.py:95: in every reachable state the variables have their types  *)
(* and a connected feed counts no failed connects.                           *)
THEOREM FeedsTypeCorrect == Spec => []TypeOK
BY FeedsTypeInit, FeedsTypeStep, PTL DEF Spec

-----------------------------------------------------------------------------
(* Which feeds are there.                                                    *)

\* A coroutine whose subscription is not through has no feed of its own, a feed that was
\* not started is not stopped and did not fail, and only started feeds are listed or have
\* a Subscription.
StartedOnce ==
    /\ \A a \in Apps : sub[a] \in {"idle", "starting", "failed"} => task[a] = "none"
    /\ \A f \in Apps : task[f] = "none" => ~stopped[f] /\ ~fatal[f]
    /\ \A i \in DOMAIN feeds : task[feeds[i]] # "none"
    /\ \A a \in Apps : sub[a] = "subscribed" => handle[a] \in Apps /\ task[handle[a]] # "none"

\* What close() clears from the list is what it has stopped, and what came in between.
Reachable ==
    /\ \A f \in Apps : task[f] \in Running => f \in ToSet(feeds) \/ f \in overlap
    /\ closing = "waiting" => ToSet(feeds) \subseteq closed \cup overlap

\* No feed that was ended, or whose task has ended, begins again.
Reconnect ==
    \A f \in Apps : (stopped[f] \/ fatal[f]) /\ task'[f] \in {"connecting", "backoff"}
        => task'[f] = task[f]

\* A new feed joins the list.
LEMMA StartFeedSet ==
    ASSUME TypeOK, NEW a \in Apps, StartFeed(a)
    PROVE  /\ ToSet(feeds') = ToSet(feeds) \cup {a}
           /\ \A i \in DOMAIN feeds' : feeds'[i] = a \/ \E j \in DOMAIN feeds : feeds'[i] = feeds[j]
<1>1. feeds \in Seq(Apps) /\ feeds' = Append(feeds, a)
  BY DEF TypeOK, StartFeed
<1>2. /\ Len(feeds) \in Nat /\ DOMAIN feeds = 1..Len(feeds)
      /\ DOMAIN feeds' = 1..(Len(feeds) + 1)
      /\ \A i \in 1..Len(feeds) : feeds'[i] = feeds[i]
      /\ feeds'[Len(feeds) + 1] = a
  BY <1>1, AppendProperties, LenProperties
<1>3. 1..(Len(feeds) + 1) = 1..Len(feeds) \cup {Len(feeds) + 1}
  BY <1>2
<1>4. \A i \in DOMAIN feeds' : feeds'[i] = a \/ \E j \in DOMAIN feeds : feeds'[i] = feeds[j]
  BY <1>2, <1>3
<1>5. ToSet(feeds') = ToSet(feeds) \cup {a}
  BY <1>2, <1>3 DEF ToSet
<1> QED BY <1>4, <1>5

\* Starting a feed, which its coroutine has not done before.
LEMMA StartFeedSound ==
    ASSUME TypeOK, StartedOnce, Reachable, NEW a \in Apps, sub[a] \in {"idle", "starting"},
           StartFeed(a), UNCHANGED <<stopped, fatal, closing, closed>>
    PROVE  StartedOnce' /\ Reachable' /\ Reconnect
<1>1. task[a] = "none" /\ ~stopped[a] /\ ~fatal[a]
  BY DEF StartedOnce
<1>2. \A f \in Apps : task'[f] = IF f = a THEN "connecting" ELSE task[f]
  BY DEF StartFeed, TypeOK
<1>3. \A b \in Apps : /\ sub'[b] = IF b = a THEN "subscribed" ELSE sub[b]
                      /\ handle'[b] = IF b = a THEN a ELSE handle[b]
  BY DEF StartFeed, TypeOK
<1>4. \A i \in DOMAIN feeds' : task'[feeds'[i]] # "none"
  <2> SUFFICES ASSUME NEW i \in DOMAIN feeds' PROVE task'[feeds'[i]] # "none"
    OBVIOUS
  <2>1. CASE feeds'[i] = a
    BY <1>2, <2>1
  <2>2. ASSUME NEW j \in DOMAIN feeds, feeds'[i] = feeds[j] PROVE task'[feeds'[i]] # "none"
    <3>1. feeds[j] \in Apps /\ task[feeds[j]] # "none"
      BY ElementOfSeq, LenProperties DEF TypeOK, StartedOnce
    <3> QED BY <1>2, <2>2, <3>1
  <2> QED BY <2>1, <2>2, StartFeedSet
<1>5. StartedOnce'
  BY <1>1, <1>2, <1>3, <1>4 DEF StartedOnce
<1>6. ToSet(feeds') = ToSet(feeds) \cup {a}
  BY StartFeedSet
<1>7. overlap \subseteq overlap' /\ (closing = "waiting" => a \in overlap')
  BY DEF StartFeed
<1>8. Reachable'
  BY <1>2, <1>6, <1>7 DEF Reachable
<1>9. Reconnect
  BY <1>1, <1>2 DEF Reconnect
<1> QED BY <1>5, <1>8, <1>9

\* The step of a feed's own task.
LEMMA TaskSound ==
    ASSUME TypeOK, StartedOnce, Reachable, NEW f \in Apps, task[f] \in Running, NEW s, s # "none",
           task' = [task EXCEPT ![f] = s],
           stopped[f] \/ fatal[f] => s \notin {"connecting", "backoff"} \/ s = task[f],
           \A g \in Apps : g # f => stopped'[g] = stopped[g] /\ fatal'[g] = fatal[g],
           UNCHANGED <<sub, handle, feeds, overlap, closing, closed>>
    PROVE  StartedOnce' /\ Reachable' /\ Reconnect
<1>1. \A g \in Apps : task'[g] = IF g = f THEN s ELSE task[g]
  BY DEF TypeOK
<1>2. task[f] # "none"
  BY DEF Running
<1>3. \A i \in DOMAIN feeds : feeds[i] \in Apps
  BY ElementOfSeq, LenProperties DEF TypeOK
<1>4. StartedOnce'
  BY <1>1, <1>2, <1>3 DEF StartedOnce
<1>5. Reachable'
  BY <1>1 DEF Reachable
<1> QED BY <1>1, <1>4, <1>5 DEF Reconnect

\* At the beginning there is no feed.
LEMMA FeedsInit == Init => StartedOnce /\ Reachable
BY EmptySeq DEF Init, StartedOnce, Reachable, Running

\* Every step keeps both invariants and connects no ended feed.
LEMMA FeedsStep ==
    TypeOK /\ StartedOnce /\ Reachable /\ [Next]_vars => StartedOnce' /\ Reachable' /\ Reconnect
<1> SUFFICES ASSUME TypeOK, StartedOnce, Reachable, [Next]_vars
             PROVE  StartedOnce' /\ Reachable' /\ Reconnect
  OBVIOUS
<1> USE DEF flags, subs
<1>1. ASSUME NEW a \in Apps, Subscribe(a) PROVE StartedOnce' /\ Reachable' /\ Reconnect
  <2>1. sub[a] = "idle" /\ UNCHANGED <<stopped, fatal, closing, closed>>
    BY <1>1 DEF Subscribe
  <2>2. CASE StartFeed(a)
    BY <2>1, <2>2, StartFeedSound
  <2>3. CASE UserFeeds # {} /\ handle' = [handle EXCEPT ![a] = FirstUserFeed]
             /\ sub' = [sub EXCEPT ![a] = "subscribed"] /\ UNCHANGED <<feeds, task, overlap>>
    <3>1. FirstUserFeed \in Apps /\ task[FirstUserFeed] # "none"
      BY <2>3, FirstIsListed DEF StartedOnce
    <3>2. \A b \in Apps : /\ sub'[b] = IF b = a THEN "subscribed" ELSE sub[b]
                          /\ handle'[b] = IF b = a THEN FirstUserFeed ELSE handle[b]
      BY <2>3 DEF TypeOK
    <3>3. StartedOnce'
      BY <2>1, <2>3, <3>1, <3>2 DEF StartedOnce
    <3> QED BY <2>1, <2>3, <3>3 DEF Reachable, Reconnect
  <2>4. CASE sub' = [sub EXCEPT ![a] = "starting"] /\ UNCHANGED <<handle, feeds, task, overlap>>
    <3>1. \A b \in Apps : sub'[b] = IF b = a THEN "starting" ELSE sub[b]
      BY <2>4 DEF TypeOK
    <3>2. StartedOnce'
      BY <2>1, <2>4, <3>1 DEF StartedOnce
    <3> QED BY <2>1, <2>4, <3>2 DEF Reachable, Reconnect
  <2> QED BY <1>1, <2>2, <2>3, <2>4 DEF Subscribe
<1>2. ASSUME NEW a \in Apps, Resolved(a) PROVE StartedOnce' /\ Reachable' /\ Reconnect
  BY <1>2, StartFeedSound DEF Resolved
<1>3. ASSUME NEW a \in Apps, ResolveFails(a) \/ Unsubscribed(a)
      PROVE  StartedOnce' /\ Reachable' /\ Reconnect
  <2>1. /\ UNCHANGED <<handle, feeds, task, overlap, stopped, fatal, closing, closed>>
        /\ \/ sub[a] = "starting" /\ sub' = [sub EXCEPT ![a] = "failed"]
           \/ sub[a] = "stopping" /\ sub' = [sub EXCEPT ![a] = "stopped"]
    BY <1>3 DEF ResolveFails, Unsubscribed
  <2>2. \A b \in Apps \ {a} : sub'[b] = sub[b]
    BY <2>1 DEF TypeOK
  <2>3. sub'[a] # "subscribed" /\ (sub'[a] \in {"idle", "starting", "failed"} => sub[a] = "starting")
    BY <2>1 DEF TypeOK
  <2>4. StartedOnce'
    BY <2>1, <2>2, <2>3 DEF StartedOnce
  <2> QED BY <2>1, <2>4 DEF Reachable, Reconnect
<1>4. ASSUME NEW a \in Apps, Unsubscribe(a) PROVE StartedOnce' /\ Reachable' /\ Reconnect
  <2>1. /\ sub[a] = "subscribed"
        /\ sub' = [sub EXCEPT ![a] = "stopping"]
        /\ Stop({handle[a]})
        /\ UNCHANGED <<handle, feeds, task, overlap, fatal, closing, closed>>
    BY <1>4 DEF Unsubscribe
  <2>2. \A b \in Apps : sub'[b] = IF b = a THEN "stopping" ELSE sub[b]
    BY <2>1 DEF TypeOK
  <2>3. \A f \in Apps : stopped'[f] => stopped[f] \/ f = handle[a]
    BY <2>1 DEF Stop
  <2>4. StartedOnce'
    BY <2>1, <2>2, <2>3 DEF StartedOnce
  <2> QED BY <2>1, <2>4 DEF Reachable, Reconnect
<1>5. ASSUME Close PROVE StartedOnce' /\ Reachable' /\ Reconnect
  <2>1. /\ closed' = ToSet(feeds) /\ Stop(ToSet(feeds))
        /\ UNCHANGED <<sub, handle, feeds, task, overlap, fatal>>
    BY <1>5 DEF Close
  <2>2. \A f \in Apps : stopped'[f] => stopped[f] \/ \E i \in DOMAIN feeds : f = feeds[i]
    BY <2>1 DEF Stop, ToSet
  <2>3. StartedOnce'
    BY <2>1, <2>2 DEF StartedOnce
  <2> QED BY <2>1, <2>3 DEF Reachable, Reconnect
<1>6. ASSUME Closed PROVE StartedOnce' /\ Reachable' /\ Reconnect
  <2>1. /\ closing = "waiting" /\ closing' = "done" /\ feeds' = <<>>
        /\ \A f \in closed : task[f] = "dead"
        /\ UNCHANGED <<sub, handle, task, overlap, stopped, fatal>>
    BY <1>6 DEF Closed, CloseMayReturn, AllStopped
  <2>2. StartedOnce'
    BY <2>1, EmptySeq DEF StartedOnce
  <2>3. Reachable'
    BY <2>1 DEF Reachable, Running
  <2> QED BY <2>1, <2>2, <2>3 DEF Reconnect
<1>7. ASSUME NEW f \in Apps, Connect(f) PROVE StartedOnce' /\ Reachable' /\ Reconnect
  <2>1. /\ task[f] \in Running
        /\ task' = [task EXCEPT ![f] = "open"]
        /\ UNCHANGED <<sub, handle, feeds, overlap, stopped, fatal, closing, closed>>
    BY <1>7 DEF Connect, Ready, Becomes, Running
  <2> QED BY <2>1, TaskSound
<1>8. ASSUME NEW f \in Apps, ConnectFails(f) \/ Drop(f) PROVE StartedOnce' /\ Reachable' /\ Reconnect
  <2>1. /\ task[f] \in Running
        /\ \/ task' = [task EXCEPT ![f] = "dead"]
           \/ ~stopped[f] /\ ~fatal[f] /\ task' = [task EXCEPT ![f] = "backoff"]
        /\ UNCHANGED <<sub, handle, feeds, overlap, stopped, fatal, closing, closed>>
    BY <1>8 DEF ConnectFails, Drop, Fail, Doomed, Ready, Becomes, Running
  <2> QED BY <2>1, TaskSound
<1>9. ASSUME NEW f \in Apps, Wake(f) \/ Silence(f) PROVE StartedOnce' /\ Reachable' /\ Reconnect
  <2>1. /\ task[f] \in Running
        /\ \/ task' = [task EXCEPT ![f] = "dead"]
           \/ ~stopped[f] /\ ~fatal[f] /\ task' = [task EXCEPT ![f] = "connecting"]
        /\ UNCHANGED <<sub, handle, feeds, overlap, stopped, fatal, closing, closed>>
    BY <1>9 DEF Wake, Silence, NextRound, Doomed, Ready, Becomes, Running
  <2> QED BY <2>1, TaskSound
<1>10. ASSUME NEW f \in Apps, Frame(f) \/ Dispatched(f) \/ HandlerAborts(f)
       PROVE  StartedOnce' /\ Reachable' /\ Reconnect
  <2>1. /\ task[f] \in Running
        /\ \E s \in {"dead", "open", "dispatching"} : task' = [task EXCEPT ![f] = s]
        /\ \A g \in Apps : g # f => fatal'[g] = fatal[g]
        /\ UNCHANGED <<sub, handle, feeds, overlap, stopped, closing, closed>>
    BY <1>10 DEF Frame, Dispatched, HandlerAborts, AfterDispatch, Ready, Becomes, Running, TypeOK
  <2> QED BY <2>1, TaskSound
<1>11. ASSUME NEW f \in Apps, StopFromHandler(f) PROVE StartedOnce' /\ Reachable' /\ Reconnect
  <2>1. /\ task[f] \in Running /\ task[f] \notin {"none", "connecting", "backoff"}
        /\ task' = [task EXCEPT ![f] = task[f]]
        /\ \A g \in Apps : g # f => stopped'[g] = stopped[g]
        /\ UNCHANGED <<sub, handle, feeds, overlap, fatal, closing, closed>>
    BY <1>11 DEF StopFromHandler, Ready, Running, TypeOK
  <2> QED BY <2>1, TaskSound
<1>12. ASSUME NEW f \in Apps, Cancelled(f) PROVE StartedOnce' /\ Reachable' /\ Reconnect
  <2>1. /\ task[f] \in Running
        /\ \E s \in {"dead", "dispatching"} : task' = [task EXCEPT ![f] = s]
        /\ UNCHANGED <<sub, handle, feeds, overlap, stopped, fatal, closing, closed>>
    BY <1>12 DEF Cancelled, Becomes, TypeOK
  <2> QED BY <2>1, TaskSound
<1>13. ASSUME Toggle \/ UNCHANGED vars PROVE StartedOnce' /\ Reachable' /\ Reconnect
  BY <1>13 DEF Toggle, vars, StartedOnce, Reachable, Reconnect
<1> QED BY <1>1, <1>2, <1>3, <1>4, <1>5, <1>6, <1>7, <1>8, <1>9, <1>10, <1>11, <1>12, <1>13
        DEF Next, App, FeedStep

(* websocket.py:88: for any number of coroutines, a running feed that is no  *)
(* longer listed was started while a close() was waiting.                    *)
THEOREM OrphansNeedARace == Spec => []OrphansOnlyByRace
<1>1. TypeOK /\ StartedOnce /\ Reachable /\ [Next]_vars => TypeOK' /\ StartedOnce' /\ Reachable'
  BY FeedsTypeStep, FeedsStep
<1>2. Reachable => OrphansOnlyByRace
  BY DEF Reachable, OrphansOnlyByRace
<1> QED BY <1>1, <1>2, FeedsTypeInit, FeedsInit, PTL DEF Spec

(* docs/websockets.md:54: for any number of coroutines, no step connects a   *)
(* feed that was stopped or got an error frame, nor lets it back off.        *)
THEOREM EndedFeedsStay == Spec => NoReconnectAfterEnd
<1>1. TypeOK /\ StartedOnce /\ Reachable /\ [Next]_vars
          => TypeOK' /\ StartedOnce' /\ Reachable' /\ Reconnect
  BY FeedsTypeStep, FeedsStep
<1>2. Reconnect <=> (\A f \in Apps :
          (stopped[f] \/ fatal[f]) /\ task'[f] \in {"connecting", "backoff"} => task'[f] = task[f])
  BY DEF Reconnect
<1> QED BY <1>1, <1>2, FeedsTypeInit, FeedsInit, PTL DEF Spec, NoReconnectAfterEnd

-----------------------------------------------------------------------------
(* How a feed's task can end.                                                *)

\* A feed whose task has ended was stopped, got an error frame, had a handler that let a
\* CancelledError out, or has failed to connect Overflow times in a row.
DeathIsNamed ==
    \A f \in Apps :
        task[f] = "dead" => stopped[f] \/ fatal[f] \/ f \in aborted \/ attempt[f] = Overflow

\* Only stop() cancels a task.
CancelNamed == \A f \in Apps : cancelled[f] => stopped[f]

\* What a step may do to the feed f: it stays ended, and ends only for one of these reasons.
NamedStep(f) ==
    /\ stopped[f] => stopped'[f]
    /\ fatal[f] => fatal'[f]
    /\ f \in aborted => f \in aborted'
    /\ cancelled'[f] => cancelled[f] \/ stopped'[f]
    /\ task'[f] = "dead" =>
         \/ task[f] = "dead" /\ attempt'[f] = attempt[f]
         \/ stopped'[f] \/ fatal'[f] \/ f \in aborted' \/ attempt'[f] = Overflow

\* Starting a feed and stopping some end no task.
LEMMA StartNamed ==
    ASSUME TypeOK, NEW a \in Apps, StartFeed(a), UNCHANGED <<attempt, flags>>, NEW f \in Apps
    PROVE  NamedStep(f)
BY DEF StartFeed, NamedStep, TypeOK, flags

LEMMA StopNamed ==
    ASSUME TypeOK, NEW S, Stop(S), UNCHANGED <<task, attempt, fatal, aborted>>, NEW f \in Apps
    PROVE  NamedStep(f)
BY DEF Stop, NamedStep, TypeOK

\* Every step is of that kind.
LEMMA EveryStepNamed ==
    ASSUME TypeOK, CancelNamed, [Next]_vars, NEW f \in Apps
    PROVE  NamedStep(f)
<1> USE DEF flags, subs
<1>1. CASE UNCHANGED <<task, attempt, flags>>
  BY <1>1 DEF NamedStep
<1>2. ASSUME NEW a \in Apps, Subscribe(a) \/ Resolved(a) PROVE NamedStep(f)
  BY <1>1, <1>2, StartNamed DEF Subscribe, Resolved
<1>3. ASSUME NEW a \in Apps, ResolveFails(a) \/ Unsubscribed(a) PROVE NamedStep(f)
  BY <1>1, <1>3 DEF ResolveFails, Unsubscribed
<1>4. ASSUME NEW a \in Apps, Unsubscribe(a) PROVE NamedStep(f)
  BY <1>4, StopNamed DEF Unsubscribe
<1>5. CASE Close
  BY <1>5, StopNamed DEF Close
<1>6. CASE Closed \/ Toggle \/ UNCHANGED vars
  BY <1>1, <1>6 DEF Closed, Toggle, vars
<1>7. ASSUME NEW g \in Apps, Connect(g) PROVE NamedStep(f)
  BY <1>7 DEF Connect, StartsAfresh, Ready, Becomes, NamedStep, TypeOK
<1>8. ASSUME NEW g \in Apps, ConnectFails(g) \/ Drop(g) PROVE NamedStep(f)
  BY <1>8 DEF ConnectFails, Drop, Fail, Doomed, Ready, Becomes, NamedStep, TypeOK
<1>9. ASSUME NEW g \in Apps, Wake(g) \/ Silence(g) \/ Dispatched(g) PROVE NamedStep(f)
  BY <1>9 DEF Wake, Silence, NextRound, Dispatched, AfterDispatch, Doomed, Becomes, NamedStep, TypeOK
<1>10. ASSUME NEW g \in Apps, Frame(g) \/ StopFromHandler(g) \/ HandlerAborts(g) PROVE NamedStep(f)
  BY <1>10 DEF Frame, StopFromHandler, HandlerAborts, Becomes, NamedStep, TypeOK
<1>11. ASSUME NEW g \in Apps, Cancelled(g) PROVE NamedStep(f)
  BY <1>11 DEF Cancelled, CancelNamed, Becomes, NamedStep, TypeOK
<1> QED BY <1>2, <1>3, <1>4, <1>5, <1>6, <1>7, <1>8, <1>9, <1>10, <1>11 DEF Next, App, FeedStep

(* docs/faq.md:55, websocket.py:103, 306: for any number of coroutines a     *)
(* feed ends because it was stopped, because it got an error frame, because  *)
(* a handler let a CancelledError out while it had a frame, or because it    *)
(* failed to connect Overflow times in a row, and in no other way.           *)
THEOREM DeathsAreNamed == Spec => []DeathIsNamed
<1>1. Init => CancelNamed /\ DeathIsNamed
  BY DEF Init, CancelNamed, DeathIsNamed
<1>2. TypeOK /\ CancelNamed /\ DeathIsNamed /\ [Next]_vars => CancelNamed' /\ DeathIsNamed'
  <2> SUFFICES ASSUME TypeOK, CancelNamed, DeathIsNamed, [Next]_vars
               PROVE  CancelNamed' /\ DeathIsNamed'
    OBVIOUS
  <2>1. \A f \in Apps : NamedStep(f)
    BY EveryStepNamed
  <2> QED BY <2>1 DEF NamedStep, CancelNamed, DeathIsNamed
<1> QED BY <1>1, <1>2, FeedsTypeInit, FeedsTypeStep, PTL DEF Spec
=============================================================================
