------------------------------- MODULE Feeds -------------------------------
(* The WebSocket manager (src/umbra/websocket.py): subscriptions that start  *)
(* feeds or share the private one, each feed's task with its reconnects, and *)
(* the ways to end them: unsubscribe, an error frame, close.                 *)
(*                                                                           *)
(* Each member of Apps is a coroutine of the application that subscribes     *)
(* once and may unsubscribe.  A feed is named after the coroutine whose      *)
(* subscription started it.  A step is what a task does between two awaits.  *)
EXTENDS Naturals, Sequences, SequencesExt

CONSTANTS
    Apps,       \* coroutines that subscribe
    NoFeed,     \* the handle of a coroutine that has none
    Overflow    \* failed connects in a row after which 2**attempt is no float

ASSUME OverflowAssumption == Overflow \in Nat \ {0}
ASSUME NoFeedAssumption == NoFeed \notin Apps

VARIABLES
    topic,      \* what each coroutine subscribes to
    sub,        \* how far its subscription is
    handle,     \* the feed its Subscription refers to
    feeds,      \* the list AsyncWebSocketClient._feeds
    task,       \* what each feed's task is doing
    attempt,    \* failed connects in a row, as the task counts them
    stopped,    \* _Feed._stopped
    fatal,      \* _Feed._fatal
    cancelled,  \* Task.cancel was called and is not delivered yet
    aborted,    \* the feeds that a handler's own CancelledError has ended
    closing,    \* close(): not called, waiting for the feeds, or done
    closed,     \* the feeds that close() is stopping
    overlap,    \* feeds registered while close() was waiting
    up          \* the server accepts connections

\* The private feed, a public feed of all markets, one of a single market.
Topics == {"user", "all", "market"}
Running == {"connecting", "open", "dispatching", "backoff"}

flags == <<stopped, fatal, cancelled, aborted>>
subs == <<topic, sub, handle, feeds, overlap>>
vars == <<topic, sub, handle, feeds, task, attempt, stopped, fatal, cancelled, aborted, closing,
          closed, overlap, up>>

Init ==
    /\ topic \in [Apps -> Topics]
    /\ sub = [a \in Apps |-> "idle"]
    /\ handle = [a \in Apps |-> NoFeed]
    /\ feeds = <<>>
    /\ task = [f \in Apps |-> "none"]
    /\ attempt = [f \in Apps |-> 0]
    /\ stopped = [f \in Apps |-> FALSE]
    /\ fatal = [f \in Apps |-> FALSE]
    /\ cancelled = [f \in Apps |-> FALSE]
    /\ aborted = {}
    /\ closing = "no"
    /\ closed = {}
    /\ overlap = {}
    /\ up = TRUE

-----------------------------------------------------------------------------
(* Subscribing.                                                              *)

\* The indices of the private feeds in the list, dead ones included.
UserFeeds == {i \in DOMAIN feeds : topic[feeds[i]] = "user"}
FirstUserFeed == feeds[CHOOSE i \in UserFeeds : \A j \in UserFeeds : i <= j]

\* _start_feed: append to the list, create the task, return the Subscription.
StartFeed(a) ==
    /\ feeds' = Append(feeds, a)
    /\ task' = [task EXCEPT ![a] = "connecting"]
    /\ handle' = [handle EXCEPT ![a] = a]
    /\ sub' = [sub EXCEPT ![a] = "subscribed"]
    /\ overlap' = IF closing = "waiting" THEN overlap \cup {a} ELSE overlap

\* _subscribe_public and _ensure_user_feed up to their first await: resolving the
\* market, or the account id.
Subscribe(a) ==
    /\ sub[a] = "idle"
    /\ \/ topic[a] = "all" /\ StartFeed(a)
       \/ /\ topic[a] = "user" /\ UserFeeds # {}
          /\ handle' = [handle EXCEPT ![a] = FirstUserFeed]
          /\ sub' = [sub EXCEPT ![a] = "subscribed"]
          /\ UNCHANGED <<feeds, task, overlap>>
       \/ /\ topic[a] = "market" \/ (topic[a] = "user" /\ UserFeeds = {})
          /\ sub' = [sub EXCEPT ![a] = "starting"]
          /\ UNCHANGED <<handle, feeds, task, overlap>>
    /\ UNCHANGED <<topic, attempt, flags, closing, closed, up>>

\* The await is over: the feed is started, whatever happened to the list meanwhile.
Resolved(a) ==
    /\ sub[a] = "starting"
    /\ StartFeed(a)
    /\ UNCHANGED <<topic, attempt, flags, closing, closed, up>>

\* The market is unknown, the login failed, or there was no credential to try.
ResolveFails(a) ==
    /\ sub[a] = "starting"
    /\ sub' = [sub EXCEPT ![a] = "failed"]
    /\ UNCHANGED <<topic, handle, feeds, overlap, task, attempt, flags, closing, closed, up>>

-----------------------------------------------------------------------------
(* Ending.                                                                   *)

\* _Feed.stop on the feeds in S up to its await of the task: Task.cancel does
\* nothing to a task that has ended.
CancelOnly(S) ==
    /\ cancelled' = [f \in Apps |-> cancelled[f] \/ (f \in S /\ task[f] \in Running)]
    /\ UNCHANGED stopped

Stop(S) ==
    /\ stopped' = [f \in Apps |-> stopped[f] \/ f \in S]
    /\ cancelled' = [f \in Apps |-> cancelled[f] \/ (f \in S /\ task[f] \in Running)]

Unsubscribe(a) ==
    /\ sub[a] = "subscribed"
    /\ sub' = [sub EXCEPT ![a] = "stopping"]
    /\ Stop({handle[a]})
    /\ UNCHANGED <<topic, handle, feeds, overlap, task, attempt, fatal, aborted, closing, closed, up>>

\* The feed stays in the list.
Unsubscribed(a) ==
    /\ sub[a] = "stopping"
    /\ task[handle[a]] = "dead"
    /\ sub' = [sub EXCEPT ![a] = "stopped"]
    /\ UNCHANGED <<topic, handle, feeds, overlap, task, attempt, flags, closing, closed, up>>

\* close() stops the feeds in the list now; without any it has nothing to await.
Close ==
    /\ closing = "no"
    /\ closing' = IF feeds = <<>> THEN "done" ELSE "waiting"
    /\ closed' = ToSet(feeds)
    /\ Stop(ToSet(feeds))
    /\ UNCHANGED <<subs, task, attempt, fatal, aborted, up>>

AllStopped == \A f \in closed : task[f] = "dead"
NotAwaited == TRUE
CloseMayReturn == AllStopped

\* The whole list is cleared, with what was added to it during the await.
Closed ==
    /\ closing = "waiting"
    /\ CloseMayReturn
    /\ closing' = "done"
    /\ feeds' = <<>>
    /\ UNCHANGED <<topic, sub, handle, overlap, task, attempt, flags, closed, up>>

-----------------------------------------------------------------------------
(* A feed's task.  A pending cancellation is delivered before anything else. *)

Becomes(f, s) == task' = [task EXCEPT ![f] = s]
Ready(f, s) == task[f] = s /\ ~cancelled[f]
OnlyStopped(f) == stopped[f]
Doomed(f) == stopped[f] \/ fatal[f]

\* The test of _run's while loop.
LastRound(f) == Becomes(f, "dead")
NextRound(f) == Becomes(f, IF Doomed(f) THEN "dead" ELSE "connecting")

\* _run's except clause: the delay is computed from attempt, which fails when the
\* power is too large for a float; that exception ends the task.
Fail(f) ==
    IF Doomed(f) \/ attempt[f] = Overflow
      THEN Becomes(f, "dead") /\ UNCHANGED attempt
      ELSE Becomes(f, "backoff") /\ attempt' = [attempt EXCEPT ![f] = @ + 1]

CountsOn(f) == UNCHANGED attempt
StartsAfresh(f) == attempt' = [attempt EXCEPT ![f] = 0]

Connect(f) ==
    /\ Ready(f, "connecting")
    /\ up
    /\ Becomes(f, "open")
    /\ StartsAfresh(f)
    /\ UNCHANGED <<subs, flags, closing, closed, up>>

ConnectFails(f) ==
    /\ Ready(f, "connecting")
    /\ ~up
    /\ Fail(f)
    /\ UNCHANGED <<subs, flags, closing, closed, up>>

\* The back-off sleep is over.
Wake(f) ==
    /\ Ready(f, "backoff")
    /\ NextRound(f)
    /\ UNCHANGED <<subs, attempt, flags, closing, closed, up>>

\* recv raises: the connection is closed.
Drop(f) ==
    /\ Ready(f, "open")
    /\ Fail(f)
    /\ UNCHANGED <<subs, flags, closing, closed, up>>

\* No frame within the read timeout: the socket is closed and connected anew,
\* without a back-off.
Silence(f) ==
    /\ Ready(f, "open")
    /\ NextRound(f)
    /\ UNCHANGED <<subs, attempt, flags, closing, closed, up>>

\* A frame is handed to the handlers, which may await; an error frame dooms the feed.
Frame(f) ==
    /\ Ready(f, "open")
    /\ Becomes(f, "dispatching")
    /\ \/ UNCHANGED fatal
       \/ fatal' = [fatal EXCEPT ![f] = TRUE]
    /\ UNCHANGED <<subs, attempt, stopped, cancelled, aborted, closing, closed, up>>

\* The tests after a dispatch: return after an error frame, _read_loop's while.
AfterDispatch(f) == Becomes(f, IF Doomed(f) THEN "dead" ELSE "open")

\* The handlers have returned.
Dispatched(f) ==
    /\ Ready(f, "dispatching")
    /\ AfterDispatch(f)
    /\ UNCHANGED <<subs, attempt, flags, closing, closed, up>>

\* A handler unsubscribes its own feed: the task awaits itself, which stop()
\* swallows together with the cancellation.
StopFromHandler(f) ==
    /\ Ready(f, "dispatching")
    /\ stopped' = [stopped EXCEPT ![f] = TRUE]
    /\ UNCHANGED <<subs, task, attempt, fatal, cancelled, aborted, closing, closed, up>>

\* A handler lets a CancelledError of its own out (it awaited a task that was cancelled):
\* _emit catches only Exception, and _run passes it on.
HandlerAborts(f) ==
    /\ Ready(f, "dispatching")
    /\ Becomes(f, "dead")
    /\ aborted' = aborted \cup {f}
    /\ UNCHANGED <<subs, attempt, stopped, fatal, cancelled, closing, closed, up>>

\* CancelledError is raised at the task's await; a handler may catch it, and
\* asyncio.wait_for of Python 3.11 drops it when a frame has just arrived.
Cancelled(f) ==
    /\ task[f] \in Running
    /\ cancelled[f]
    /\ cancelled' = [cancelled EXCEPT ![f] = FALSE]
    /\ \/ Becomes(f, "dead")
       \/ task[f] = "dispatching" /\ UNCHANGED task
       \/ task[f] = "open" /\ Becomes(f, "dispatching")
    /\ UNCHANGED <<subs, attempt, stopped, fatal, aborted, closing, closed, up>>

\* The server goes down or comes back.
Toggle ==
    /\ up' = ~up
    /\ UNCHANGED <<subs, task, attempt, flags, closing, closed>>

-----------------------------------------------------------------------------
App(a) == Resolved(a) \/ ResolveFails(a) \/ Unsubscribed(a)
FeedStep(f) ==
    Connect(f) \/ ConnectFails(f) \/ Wake(f) \/ Dispatched(f) \/ Cancelled(f)

Next ==
    \/ \E a \in Apps : Subscribe(a) \/ App(a) \/ Unsubscribe(a)
    \/ Close
    \/ Closed
    \/ \E f \in Apps :
         \/ FeedStep(f) \/ Drop(f) \/ Silence(f) \/ Frame(f)
         \/ StopFromHandler(f) \/ HandlerAborts(f)
    \/ Toggle

\* The event loop runs what can run; handlers return; an await of a login or a
\* market ends (Transport's Settles).
Fairness ==
    /\ \A a \in Apps : WF_vars(App(a)) /\ WF_vars(FeedStep(a))
    /\ WF_vars(Closed)

Spec == Init /\ [][Next]_vars /\ Fairness

-----------------------------------------------------------------------------
(* The declared types; a feed that is connected counts no failed connects    *)
(* (websocket.py:94), so its next back-off is the shortest one.              *)
TypeOK ==
    /\ topic \in [Apps -> Topics]
    /\ sub \in [Apps -> {"idle", "starting", "subscribed", "stopping", "stopped", "failed"}]
    /\ handle \in [Apps -> Apps \cup {NoFeed}]
    /\ feeds \in Seq(Apps)
    /\ task \in [Apps -> Running \cup {"none", "dead"}]
    /\ attempt \in [Apps -> Nat]
    /\ \A f \in Apps : task[f] \in {"open", "dispatching"} => attempt[f] = 0
    /\ stopped \in [Apps -> BOOLEAN]
    /\ fatal \in [Apps -> BOOLEAN]
    /\ cancelled \in [Apps -> BOOLEAN]
    /\ aborted \subseteq Apps
    /\ closing \in {"no", "waiting", "done"}
    /\ closed \subseteq Apps
    /\ overlap \subseteq Apps
    /\ up \in BOOLEAN

(* docs/websockets.md:54: a feed that got an error frame, or was stopped,    *)
(* does not connect again, whatever its task was doing at that moment and    *)
(* even if a handler swallows the cancellation.                              *)
NoReconnectAfterEnd ==
    [][\A f \in Apps : (stopped[f] \/ fatal[f]) /\ task'[f] \in {"connecting", "backoff"}
                           => task'[f] = task[f]]_vars

(* Stopping works: a stopped or failed feed's task ends, so unsubscribe and  *)
(* close return.                                                             *)
StopEnds ==
    /\ \A f \in Apps : stopped[f] \/ fatal[f] ~> task[f] = "dead"
    /\ \A a \in Apps : sub[a] = "stopping" ~> sub[a] = "stopped"
    /\ closing = "waiting" ~> closing = "done"

(* A running feed that close() cannot reach any more was started by a        *)
(* subscription that overlapped an earlier close().                          *)
OrphansOnlyByRace ==
    \A f \in Apps : task[f] \in Running => f \in ToSet(feeds) \/ f \in overlap

(* Once the server stays up every feed connects again, unless it was ended   *)
(* or its connects have failed Overflow times in a row.                      *)
Reconnects ==
    <>[]up => \A f \in Apps :
        task[f] \in {"connecting", "backoff"}
            ~> task[f] = "open" \/ stopped[f] \/ fatal[f] \/ attempt[f] = Overflow

(* websocket.py:16: the private subscriptions "all share one underlying      *)
(* connection".                                                              *)
OneUserFeed ==
    \A f, g \in Apps :
        /\ topic[f] = "user" /\ topic[g] = "user"
        /\ task[f] \in Running /\ task[g] \in Running
        => f = g

(* docs/faq.md:55: subscriptions reconnect on their own, and "a fatal error  *)
(* frame is the exception": a feed's task ends only when the feed was        *)
(* stopped or got an error frame, or a handler let a CancelledError out.     *)
NoSilentDeath ==
    \A f \in Apps : task[f] = "dead" => stopped[f] \/ fatal[f] \/ f \in aborted
=============================================================================
