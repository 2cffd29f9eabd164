------------------------------ MODULE Dispatch ------------------------------
(* From a feed to the application's handlers (src/umbra/websocket.py): the   *)
(* handler lists keyed by channel, subscriptions that register before they   *)
(* have a feed, and feeds that each hand their frames to those lists while   *)
(* handlers suspend, raise, and register more handlers.  How a feed connects *)
(* and ends is in Feeds, the queue behind messages() in Bridge.              *)
EXTENDS Naturals, Sequences, FiniteSets

CONSTANTS
    Subs,       \* the application's handlers, each with a topic; a feed is named
                \* after the one whose subscription started it
    MaxFrames,  \* bound: the feeds receive no more frames in all
    MaxTries    \* bound: a subscription is not tried more often

ASSUME DispatchAssumption == MaxFrames \in Nat /\ MaxTries \in Nat \ {0}

VARIABLES
    topic,      \* what each handler is for
    sub,        \* its subscription
    tries,      \* how often it was tried
    handlers,   \* AsyncWebSocketClient._handlers; an entry remembers how many frames
                \* each feed had received when it was made
    feed,       \* what each feed's task is doing
    kinds,      \* the frames each feed has received
    events,     \* the events of the frame in hand that are still to be emitted
    next,       \* _emit's loop: the entry of the first of them that is called next
    busy,       \* a handler of this feed is suspended
    again,      \* the list in hand has an entry more, which a handler made for its own
                \* event when it was called; such entries are not listed
    calls       \* history: the calls a feed has made, [frame, event, entry]

vars == <<topic, sub, tries, handlers, feed, kinds, events, next, busy, again,
          calls>>
emitting == <<events, next, busy, again>>

Public == {"nbbo"}
Private == {"user", "order"}
Topics == Public \cup Private \cup {"error"}

NoFeed == "none"
Task == {NoFeed, "reading", "handling", "gone"}

\* _feeds keeps a feed that has ended.
PrivateFeeds == {f \in Subs : topic[f] \in Private /\ feed[f] # NoFeed}

Init ==
    /\ topic \in [Subs -> Topics]
    /\ sub = [s \in Subs |-> "idle"]
    /\ tries = [s \in Subs |-> 0]
    /\ handlers = [e \in Topics |-> <<>>]
    /\ feed = [f \in Subs |-> NoFeed]
    /\ kinds = [f \in Subs |-> <<>>]
    /\ events = [f \in Subs |-> <<>>]
    /\ next = [f \in Subs |-> 1]
    /\ busy = [f \in Subs |-> FALSE]
    /\ again = [f \in Subs |-> FALSE]
    /\ calls = [f \in Subs |-> <<>>]

-----------------------------------------------------------------------------
(* Registering and subscribing.                                              *)

OnFeedName(s) ==
    LET e == IF topic[s] \in Private THEN "user" ELSE topic[s] IN
    handlers' = [handlers EXCEPT ![e] =
                   Append(@, [who |-> s, since |-> [f \in Subs |-> Len(kinds[f])]])]

\* on: an entry at the end of the topic's list, also while a feed goes through it.
On(s) ==
    handlers' = [handlers EXCEPT ![topic[s]] =
                   Append(@, [who |-> s, since |-> [f \in Subs |-> Len(kinds[f])]])]

StartFeed(s) == feed' = [feed EXCEPT ![s] = "reading"]

\* A subscription registers its handler and then waits for its market or its account id.
\* All markets need no wait; nor does a private feed that is there already.
Subscribe(s) ==
    /\ sub[s] \in {"idle", "failed"} /\ tries[s] < MaxTries
    /\ tries' = [tries EXCEPT ![s] = @ + 1]
    /\ On(s)
    /\ \/ /\ topic[s] \in Public \cup Private
          /\ topic[s] \in Private => PrivateFeeds = {}
          /\ sub' = [sub EXCEPT ![s] = "resolving"]
          /\ UNCHANGED feed
       \/ /\ topic[s] \in Public
          /\ sub' = [sub EXCEPT ![s] = "live"]
          /\ StartFeed(s)
       \/ /\ topic[s] = "error" \/ (topic[s] \in Private /\ PrivateFeeds # {})
          /\ sub' = [sub EXCEPT ![s] = "live"]
          /\ UNCHANGED feed
    /\ UNCHANGED <<topic, kinds, emitting, calls>>

Resolved(s) ==
    /\ sub[s] = "resolving"
    /\ sub' = [sub EXCEPT ![s] = "live"]
    /\ StartFeed(s)
    /\ UNCHANGED <<topic, tries, handlers, kinds, emitting, calls>>

\* The market is unknown or the login fails: the caller gets an error, the entry stays.
ResolveFails(s) ==
    /\ sub[s] = "resolving"
    /\ sub' = [sub EXCEPT ![s] = "failed"]
    /\ UNCHANGED <<topic, tries, handlers, feed, kinds, emitting, calls>>

-----------------------------------------------------------------------------
(* A feed and its frames.                                                    *)

\* A user frame may come without a kind; any feed may be ended by an error frame.
Kinds(f) == (IF topic[f] \in Private THEN {"order", "kindless"} ELSE {"nbbo"}) \cup {"error"}

KindFirst(kind) ==
    CASE kind = "order" -> <<"order", "user">>
      [] kind = "kindless" -> <<"user">>
      [] OTHER -> <<kind>>

\* _dispatch: a user frame goes to the user handlers and then to those of its kind.
Events(kind) ==
    CASE kind = "order" -> <<"user", "order">>
      [] kind = "kindless" -> <<"user">>
      [] OTHER -> <<kind>>

\* The frames that the feeds have received.
Received == UNION {{f} \X DOMAIN kinds[f] : f \in Subs}

Take(f) ==
    /\ feed[f] = "reading" /\ Cardinality(Received) < MaxFrames
    /\ \E kind \in Kinds(f) :
         /\ kinds' = [kinds EXCEPT ![f] = Append(@, kind)]
         /\ events' = [events EXCEPT ![f] = Events(kind)]
    /\ next' = [next EXCEPT ![f] = 1]
    /\ feed' = [feed EXCEPT ![f] = "handling"]
    /\ UNCHANGED <<topic, sub, tries, handlers, busy, again, calls>>

\* _emit's loop, over a list that may grow behind it: the handler called may return at
\* once or suspend; what it raises is logged.
Call(f) ==
    /\ feed[f] = "handling" /\ ~busy[f] /\ events[f] # <<>>
    /\ LET e == Head(events[f]) IN
         /\ next[f] \in DOMAIN handlers[e]
         /\ calls' = [calls EXCEPT ![f] =
                        Append(@, [frame |-> Len(kinds[f]), event |-> e, entry |-> next[f]])]
    /\ next' = [next EXCEPT ![f] = @ + 1]
    /\ busy' \in {busy, [busy EXCEPT ![f] = TRUE]}
    /\ UNCHANGED <<topic, sub, tries, handlers, feed, kinds, events, again>>

StopsEmitting(f) == events' = [events EXCEPT ![f] = <<>>]
GoesOn(f) == UNCHANGED events

Returns(f) ==
    /\ busy[f]
    /\ busy' = [busy EXCEPT ![f] = FALSE]
    /\ UNCHANGED <<topic, sub, tries, handlers, feed, kinds, events, next, again, calls>>

Raises(f) ==
    /\ busy[f]
    /\ busy' = [busy EXCEPT ![f] = FALSE]
    /\ GoesOn(f)
    /\ UNCHANGED <<topic, sub, tries, handlers, feed, kinds, next, again, calls>>

\* A handler registers itself once more for the event that it was called for, and returns.
RegistersAgain(f) ==
    /\ busy[f]
    /\ busy' = [busy EXCEPT ![f] = FALSE]
    /\ again' = [again EXCEPT ![f] = TRUE]
    /\ UNCHANGED <<topic, sub, tries, handlers, feed, kinds, events, next, calls>>

FirstEntry(f) == next' = [next EXCEPT ![f] = 1]

LockedOut(f) ==
    /\ next[f] \notin DOMAIN handlers[Head(events[f])]
    /\ \A s \in Subs : sub[s] # "resolving"

Exhausted(f) == next[f] \notin DOMAIN handlers[Head(events[f])]

\* The loop reaches the entry that a handler made on the way.
CallAgain(f) ==
    /\ feed[f] = "handling" /\ ~busy[f] /\ events[f] # <<>>
    /\ Exhausted(f) /\ again[f]
    /\ again' = [again EXCEPT ![f] = FALSE]
    /\ busy' = [busy EXCEPT ![f] = TRUE]
    /\ UNCHANGED <<topic, sub, tries, handlers, feed, kinds, events, next, calls>>

\* The list is exhausted: the frame's next event, from its first entry.
NextEvent(f) ==
    /\ feed[f] = "handling" /\ ~busy[f] /\ events[f] # <<>>
    /\ Exhausted(f) /\ ~again[f]
    /\ events' = [events EXCEPT ![f] = Tail(@)]
    /\ FirstEntry(f)
    /\ UNCHANGED <<topic, sub, tries, handlers, feed, kinds, busy, again, calls>>

InHand(f) == kinds[f][Len(kinds[f])]

\* The frame is done; the feed reads on unless it was an error.
Done(f) ==
    /\ feed[f] = "handling" /\ events[f] = <<>>
    /\ feed' = [feed EXCEPT ![f] = IF InHand(f) = "error" THEN "gone" ELSE "reading"]
    /\ UNCHANGED <<topic, sub, tries, handlers, kinds, emitting, calls>>

\* The task is canceled while it reads or while a handler is suspended, or a handler
\* lets a CancelledError out, which is no Exception.
Ends(f) ==
    /\ feed[f] = "reading" \/ busy[f]
    /\ feed' = [feed EXCEPT ![f] = "gone"]
    /\ busy' = [busy EXCEPT ![f] = FALSE]
    /\ again' = [again EXCEPT ![f] = FALSE]
    /\ UNCHANGED <<topic, sub, tries, handlers, kinds, events, next, calls>>

Quiet == (\A f \in Subs : feed[f] \in {NoFeed, "gone", "reading"}) /\ UNCHANGED vars

Emit(f) == Call(f) \/ CallAgain(f) \/ NextEvent(f) \/ Done(f)
Leaves(f) == Returns(f) \/ Raises(f) \/ RegistersAgain(f) \/ Ends(f)

Next ==
    \/ \E s \in Subs : Subscribe(s) \/ Resolved(s) \/ ResolveFails(s)
    \/ \E f \in Subs : Take(f) \/ Emit(f) \/ Leaves(f)
    \/ Quiet

\* The loop runs what can run, and handlers end.  Nobody has to subscribe, and no frame
\* has to come.
Fairness == \A f \in Subs : WF_vars(Emit(f)) /\ WF_vars(Leaves(f))

Spec == Init /\ [][Next]_vars /\ Fairness

-----------------------------------------------------------------------------
TypeOK ==
    /\ topic \in [Subs -> Topics]
    /\ sub \in [Subs -> {"idle", "resolving", "live", "failed"}]
    /\ tries \in [Subs -> 0..MaxTries]
    /\ \A e \in Topics : \A i \in DOMAIN handlers[e] : topic[handlers[e][i].who] = e
    /\ feed \in [Subs -> Task]
    /\ Cardinality(Received) <= MaxFrames
    /\ \A f \in Subs : Len(events[f]) <= 2
    /\ next \in [Subs -> Nat \ {0}]
    /\ busy \in [Subs -> BOOLEAN] /\ again \in [Subs -> BOOLEAN]

\* The frames with nothing left to emit; a feed that has ended may have left one half done.
Completed(f) == IF events[f] = <<>> THEN Len(kinds[f]) ELSE Len(kinds[f]) - 1
Emitted(kind) == {Events(kind)[i] : i \in DOMAIN Events(kind)}

\* The calls that feed f made of an entry for a frame.
CallsOf(f, n, e, i) ==
    {c \in DOMAIN calls[f] : calls[f][c] = [frame |-> n, event |-> e, entry |-> i]}

(* websocket.py:298-307: a frame goes once to every entry that was in the    *)
(* lists of its events when it came, whichever subscription made the entry   *)
(* and even if that failed, whatever earlier handlers raise and whatever is  *)
(* registered meanwhile; and never twice to one entry.  That holds of the    *)
(* error frame which ends a feed too.                                        *)
EveryEntryOnce ==
    \A f \in Subs, e \in Topics :
        \A i \in DOMAIN handlers[e], n \in 1..Len(kinds[f]) :
            /\ Cardinality(CallsOf(f, n, e, i)) <= 1
            /\ /\ n > handlers[e][i].since[f] /\ n <= Completed(f)
               /\ e \in Emitted(kinds[f][n])
               => CallsOf(f, n, e, i) # {}

(* websocket.py:289-293: a feed's calls come in the order of its frames, the *)
(* user handlers of a frame before those of its kind, and each list in the   *)
(* order of registration, however long handlers take.                        *)
InOrder ==
    \A f \in Subs : \A c, d \in DOMAIN calls[f] : c < d =>
        LET x == calls[f][c]
            y == calls[f][d] IN
        \/ x.frame < y.frame
        \/ /\ x.frame = y.frame
           /\ \/ x.event = y.event /\ x.entry < y.entry
              \/ x.event = "user" /\ y.event # "user"

(* websocket.py:301-307: a frame in hand is done with, or the feed has       *)
(* ended, whatever handlers raise and whatever is registered by others; only *)
(* handlers that go on for ever registering themselves for the event that    *)
(* they are called for can hold it up, as the loop follows the live list.    *)
FramesServed ==
    \A f \in Subs : []<>again[f] \/ (feed[f] = "handling" ~> feed[f] # "handling")
=============================================================================
