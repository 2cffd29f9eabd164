------------------------------ MODULE Markets ------------------------------
(* The market list and its cache (src/umbra/markets.py), shared by every     *)
(* call that lists markets or resolves a slug or an id: the calls overlap,   *)
(* so their requests for the list do, and the answers come in any order.     *)
(*                                                                           *)
(* A step is what a coroutine does between two awaits.  get is two lookups,  *)
(* the second of them, for the NBBO, by the id that the first has found.     *)
EXTENDS Integers

CONSTANTS
    Calls,      \* coroutines that use the resource
    Listed,     \* markets the server may list
    Refs,       \* what a caller may pass: slugs, ids, other strings
    Slugs,      \* the strings each market is matched by, Market.slugs
    TTL,        \* _CACHE_TTL, in ticks of the clock
    MaxClock,   \* bound: the clock stops here
    NoMarket

ASSUME MarketsAssumption ==
    /\ TTL \in Nat
    /\ MaxClock \in Nat
    /\ Slugs \in [Listed -> SUBSET Refs]
    /\ NoMarket \notin Listed

VARIABLES
    clock,      \* time.monotonic()
    listing,    \* the markets the server lists
    since,      \* when each market was last added to the listing or removed
    cache,      \* Markets._cache
    cacheAt,    \* Markets._cache_at
    job,        \* what each coroutine asks for: a list, a fresh list or a lookup
    pc,         \* its request for the list, or how its call ended
    begun,      \* when it made the call
    asked,      \* now in its current _all
    again,      \* _find is in its second loop
    answer,     \* the list the server sends it, or that the call returned
    found       \* the market its lookup returned

server == <<listing, since>>
cached == <<cache, cacheAt>>
vars == <<clock, listing, since, cache, cacheAt, job, pc, begun, asked, again, answer, found>>

Jobs == [kind : {"list", "refresh"}] \cup [kind : {"find"}, ref : Refs]
Ended == {"idle", "listed", "found", "missing", "failed"}

Init ==
    /\ clock = 0
    /\ listing \in SUBSET Listed
    /\ since = [m \in Listed |-> -TTL - 1]
    /\ cache = {}
    /\ cacheAt = 0
    /\ job = [c \in Calls |-> [kind |-> "list"]]
    /\ pc = [c \in Calls |-> "idle"]
    /\ begun = [c \in Calls |-> 0]
    /\ asked = [c \in Calls |-> 0]
    /\ again = [c \in Calls |-> FALSE]
    /\ answer = [c \in Calls |-> {}]
    /\ found = [c \in Calls |-> NoMarket]

-----------------------------------------------------------------------------
Goes(c, s) == pc' = [pc EXCEPT ![c] = s]
Finding(c) == job'[c].kind = "find"
Matching(c, list) == {m \in list : job'[c].ref \in Slugs[m]}

\* _all without refresh uses the cached list unless it is empty or too old.
Stale == cache = {} \/ clock - cacheAt > TTL

Fetch(c) ==
    /\ Goes(c, "asked")
    /\ asked' = [asked EXCEPT ![c] = clock]

\* The call is over and its locals are gone.
Ends(c, outcome) ==
    /\ Goes(c, outcome)
    /\ asked' = [asked EXCEPT ![c] = 0]
    /\ again' = [again EXCEPT ![c] = FALSE]

\* _find when no market of the list matches: the second loop asks for a fresh list;
\* after it there is no market.
GiveUp(c, inSecond) == Ends(c, "missing")
LookAgain(c, inSecond) ==
    IF inSecond
      THEN Ends(c, "missing")
      ELSE Fetch(c) /\ again' = [again EXCEPT ![c] = TRUE]

\* What a coroutine does with the list that _all returned, up to its next await;
\* inSecond: _find is in its second loop.
Use(c, list, inSecond) ==
    \/ /\ ~Finding(c)
       /\ Ends(c, "listed")
       /\ answer' = [answer EXCEPT ![c] = list]
       /\ found' = [found EXCEPT ![c] = NoMarket]
    \/ /\ Finding(c)
       /\ answer' = [answer EXCEPT ![c] = {}]
       /\ \/ \E m \in Matching(c, list) :
               found' = [found EXCEPT ![c] = m] /\ Ends(c, "found")
          \/ /\ Matching(c, list) = {}
             /\ found' = [found EXCEPT ![c] = NoMarket]
             /\ LookAgain(c, inSecond)

\* list, search and categories; list with refresh=True; resolve_market_id and get.
Call(c) ==
    /\ pc[c] \in Ended
    /\ \E j \in Jobs :
         /\ job' = [job EXCEPT ![c] = j]
         /\ IF j.kind = "refresh" \/ Stale
              THEN /\ Fetch(c)
                   /\ again' = [again EXCEPT ![c] = FALSE]
                   /\ answer' = [answer EXCEPT ![c] = {}]
                   /\ found' = [found EXCEPT ![c] = NoMarket]
              ELSE Use(c, cache, FALSE)
    /\ begun' = [begun EXCEPT ![c] = clock]
    /\ UNCHANGED <<clock, server, cached>>

\* The server answers GET /markets.
Serve(c) ==
    /\ pc[c] = "asked"
    /\ Goes(c, "served")
    /\ answer' = [answer EXCEPT ![c] = listing]
    /\ UNCHANGED <<clock, server, cached, job, begun, asked, again, found>>

ExpiryStamp(c) == asked[c] + TTL
StampedOnReceipt(c) == clock
Stamp(c) == asked[c]

\* The answer replaces the cache, whatever was put there since it was asked for.
Receive(c) ==
    /\ pc[c] = "served"
    /\ cache' = answer[c]
    /\ cacheAt' = Stamp(c)
    /\ UNCHANGED <<clock, server, job, begun>>
    /\ Use(c, answer[c], again[c])

\* The request fails: the cache stays as it is.
Fail(c) ==
    /\ pc[c] \in {"asked", "served"}
    /\ Ends(c, "failed")
    /\ answer' = [answer EXCEPT ![c] = {}]
    /\ UNCHANGED <<clock, server, cached, job, begun, found>>

\* The server adds a market to its list or removes one.
Relist(m) ==
    /\ listing' = IF m \in listing THEN listing \ {m} ELSE listing \cup {m}
    /\ since' = [since EXCEPT ![m] = clock]
    /\ UNCHANGED <<clock, cached, job, pc, begun, asked, again, answer, found>>

Tick ==
    /\ clock < MaxClock
    /\ clock' = clock + 1
    /\ UNCHANGED <<server, cached, job, pc, begun, asked, again, answer, found>>

Next ==
    \/ \E c \in Calls : Call(c) \/ Serve(c) \/ Receive(c) \/ Fail(c)
    \/ \E m \in Listed : Relist(m)
    \/ Tick

Spec == Init /\ [][Next]_vars

-----------------------------------------------------------------------------
TypeOK ==
    /\ clock \in 0..MaxClock
    /\ listing \subseteq Listed
    /\ since \in [Listed -> -TTL - 1 .. clock]
    /\ cache \subseteq Listed
    /\ cacheAt \in 0..clock
    /\ job \in [Calls -> Jobs]
    /\ pc \in [Calls -> Ended \cup {"asked", "served"}]
    /\ begun \in [Calls -> 0..clock]
    /\ asked \in [Calls -> 0..clock]
    /\ again \in [Calls -> BOOLEAN]
    /\ answer \in [Calls -> SUBSET Listed]
    /\ found \in [Calls -> Listed \cup {NoMarket}]
    /\ \A c \in Calls : pc[c] = "found" <=> found[c] # NoMarket

\* The server listed m, or did not list it, at some time from t on.
ListedSince(m, t) == m \in listing \/ since[m] >= t
UnlistedSince(m, t) == m \notin listing \/ since[m] >= t

\* How old a list each job puts up with.
Tolerance(c) == IF job[c].kind = "refresh" THEN 0 ELSE TTL

(* The list that a call returns is the server's list at some time at most    *)
(* _CACHE_TTL before the call, or since the call with refresh=True, however  *)
(* slow answers and overlapping requests shuffle the cache: no market in it  *)
(* was removed earlier, and none is left out that was there all the time.    *)
ListFresh ==
    \A c \in Calls : pc[c] = "listed" =>
        /\ \A m \in answer[c] : ListedSince(m, begun[c] - Tolerance(c))
        /\ \A m \in Listed \ answer[c] : UnlistedSince(m, begun[c] - Tolerance(c))

(* A lookup gives up, and passes its reference on as an id, only if no       *)
(* market that it matches was listed throughout the call; a market it        *)
(* returns was listed at most _CACHE_TTL before the call.                    *)
FindTruthful ==
    \A c \in Calls :
        /\ pc[c] = "missing" =>
             \A m \in Listed : job[c].ref \in Slugs[m] => UnlistedSince(m, begun[c])
        /\ pc[c] = "found" => ListedSince(found[c], begun[c] - TTL)
=============================================================================
