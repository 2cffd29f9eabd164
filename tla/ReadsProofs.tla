----------------------------- MODULE ReadsProofs -----------------------------
(* What the SDK reads: the market cache, for any calls, markets, references  *)
(* and time to live (Markets), and lists read page by page, of any length    *)
(* and with any limit (Pages).  The two share no state.                      *)
EXTENDS Markets, Pages, SequenceTheorems, FiniteSetTheorems, FunctionTheorems, TLAPS

-----------------------------------------------------------------------------
(* Markets: type correctness.                                                *)

\* Asking for the list, and ending, keep the types of what they change.
LEMMA FetchType ==
    ASSUME TypeOK, NEW c \in Calls, Fetch(c)
    PROVE  /\ pc' \in [Calls -> Ended \cup {"asked", "served"}]
           /\ asked' \in [Calls -> 0..clock]
           /\ pc'[c] = "asked" /\ asked'[c] = clock
           /\ \A d \in Calls \ {c} : pc'[d] = pc[d]
BY MarketsAssumption DEF TypeOK, Fetch, Goes

\* A call that ends has an outcome and no request.
LEMMA EndsType ==
    ASSUME TypeOK, NEW c \in Calls, NEW o \in Ended, Ends(c, o)
    PROVE  /\ pc' \in [Calls -> Ended \cup {"asked", "served"}]
           /\ asked' \in [Calls -> 0..clock]
           /\ again' \in [Calls -> BOOLEAN]
           /\ pc'[c] = o
           /\ \A d \in Calls \ {c} : pc'[d] = pc[d]
BY MarketsAssumption DEF TypeOK, Ends, Goes

\* What a coroutine does with a list keeps the types.
LEMMA UseType ==
    ASSUME TypeOK, NEW c \in Calls, NEW list \in SUBSET Listed, NEW inSecond \in BOOLEAN,
           Use(c, list, inSecond)
    PROVE  /\ pc' \in [Calls -> Ended \cup {"asked", "served"}]
           /\ asked' \in [Calls -> 0..clock]
           /\ again' \in [Calls -> BOOLEAN]
           /\ answer' \in [Calls -> SUBSET Listed]
           /\ found' \in [Calls -> Listed \cup {NoMarket}]
           /\ \A d \in Calls : pc'[d] = "found" <=> found'[d] # NoMarket
<1>1. CASE /\ Ends(c, "listed")
           /\ answer' = [answer EXCEPT ![c] = list]
           /\ found' = [found EXCEPT ![c] = NoMarket]
  BY <1>1, EndsType DEF TypeOK, Ended
<1>2. ASSUME answer' = [answer EXCEPT ![c] = {}],
             NEW m \in Matching(c, list), found' = [found EXCEPT ![c] = m], Ends(c, "found")
      PROVE  /\ pc' \in [Calls -> Ended \cup {"asked", "served"}]
             /\ asked' \in [Calls -> 0..clock]
             /\ again' \in [Calls -> BOOLEAN]
             /\ answer' \in [Calls -> SUBSET Listed]
             /\ found' \in [Calls -> Listed \cup {NoMarket}]
             /\ \A d \in Calls : pc'[d] = "found" <=> found'[d] # NoMarket
  <2>1. m \in Listed /\ m # NoMarket
    BY MarketsAssumption DEF Matching
  <2> QED BY <1>2, <2>1, EndsType DEF TypeOK, Ended
<1>3. CASE /\ answer' = [answer EXCEPT ![c] = {}]
           /\ found' = [found EXCEPT ![c] = NoMarket]
           /\ LookAgain(c, inSecond)
  <2>1. CASE Ends(c, "missing")
    BY <1>3, <2>1, EndsType DEF TypeOK, Ended
  <2>2. CASE Fetch(c) /\ again' = [again EXCEPT ![c] = TRUE]
    BY <1>3, <2>2, FetchType DEF TypeOK, Ended
  <2> QED BY <1>3, <2>1, <2>2 DEF LookAgain
<1> QED BY <1>1, <1>2, <1>3 DEF Use

\* The initial states have the declared types.
LEMMA MarketsTypeInit == Init => TypeOK
BY MarketsAssumption DEF Init, TypeOK, Jobs, Ended

\* Every step keeps them.
LEMMA MarketsTypeStep == TypeOK /\ [Next]_vars => TypeOK'
<1> SUFFICES ASSUME TypeOK, [Next]_vars PROVE TypeOK'
  OBVIOUS
<1> USE DEF server, cached
<1>1. ASSUME NEW c \in Calls, Call(c) PROVE TypeOK'
  <2>1. PICK j \in Jobs :
          /\ job' = [job EXCEPT ![c] = j]
          /\ IF j.kind = "refresh" \/ Stale
               THEN /\ Fetch(c)
                    /\ again' = [again EXCEPT ![c] = FALSE]
                    /\ answer' = [answer EXCEPT ![c] = {}]
                    /\ found' = [found EXCEPT ![c] = NoMarket]
               ELSE Use(c, cache, FALSE)
    BY <1>1 DEF Call
  <2>2. /\ UNCHANGED <<clock, listing, since, cache, cacheAt>>
        /\ begun' \in [Calls -> 0..clock] /\ job' \in [Calls -> Jobs]
    BY <1>1, <2>1, MarketsAssumption DEF Call, TypeOK
  <2>3. CASE j.kind = "refresh" \/ Stale
    <3>1. /\ Fetch(c)
          /\ again' = [again EXCEPT ![c] = FALSE]
          /\ answer' = [answer EXCEPT ![c] = {}]
          /\ found' = [found EXCEPT ![c] = NoMarket]
      BY <2>1, <2>3
    <3>2. again' \in [Calls -> BOOLEAN] /\ answer' \in [Calls -> SUBSET Listed]
      BY <3>1 DEF TypeOK
    <3>3. /\ found' \in [Calls -> Listed \cup {NoMarket}]
          /\ \A d \in Calls : pc'[d] = "found" <=> found'[d] # NoMarket
      BY <3>1, FetchType DEF TypeOK
    <3> QED BY <2>2, <3>1, <3>2, <3>3, FetchType DEF TypeOK
  <2>4. CASE Use(c, cache, FALSE)
    BY <2>2, <2>4, UseType DEF TypeOK
  <2> QED BY <2>1, <2>3, <2>4
<1>2. ASSUME NEW c \in Calls, Serve(c) PROVE TypeOK'
  BY <1>2 DEF TypeOK, Serve, Goes, Ended
<1>3. ASSUME NEW c \in Calls, Receive(c) PROVE TypeOK'
  <2>1. answer[c] \in SUBSET Listed /\ again[c] \in BOOLEAN
    BY DEF TypeOK
  <2>2. Use(c, answer[c], again[c])
    BY <1>3 DEF Receive
  <2>3. cache' \subseteq Listed /\ cacheAt' \in 0..clock
        /\ UNCHANGED <<clock, listing, since, job, begun>>
    BY <1>3 DEF TypeOK, Receive, Stamp
  <2> QED BY <2>1, <2>2, <2>3, UseType DEF TypeOK
<1>4. ASSUME NEW c \in Calls, Fail(c) PROVE TypeOK'
  BY <1>4, EndsType DEF TypeOK, Fail, Ended
<1>5. ASSUME NEW m \in Listed, Relist(m) PROVE TypeOK'
  BY <1>5, MarketsAssumption DEF TypeOK, Relist
<1>6. CASE Tick
  <2>1. clock' = clock + 1 /\ clock' \in 0..MaxClock
    BY <1>6, MarketsAssumption DEF TypeOK, Tick
  <2>2. 0..clock \subseteq 0..clock' /\ -TTL - 1 .. clock \subseteq -TTL - 1 .. clock'
    BY <2>1, MarketsAssumption DEF TypeOK
  <2> QED BY <1>6, <2>1, <2>2 DEF TypeOK, Tick
<1>7. CASE UNCHANGED vars
  BY <1>7 DEF TypeOK, vars
<1> QED BY <1>1, <1>2, <1>3, <1>4, <1>5, <1>6, <1>7 DEF Next

(* Every variable keeps its type, and a lookup has found a market exactly    *)
(* when it says so.                                                          *)
THEOREM MarketsTypeCorrect == Spec => []TypeOK
BY MarketsTypeInit, MarketsTypeStep, PTL DEF Spec

-----------------------------------------------------------------------------
(* Markets: the lists.  A list reflects the server at t if each market in it *)
(* was listed, and each other market was not, at t or at some time after it. *)
WasIn(m, t, markets, changes) == m \in markets \/ changes[m] >= t
WasOut(m, t, markets, changes) == m \notin markets \/ changes[m] >= t

Reflects(list, t, markets, changes) ==
    /\ \A m \in list : WasIn(m, t, markets, changes)
    /\ \A m \in Listed \ list : WasOut(m, t, markets, changes)

\* The cache reflects the server at the time it carries.
CacheInv == cache # {} => Reflects(cache, cacheAt, listing, since)

\* An answer reflects the server at the time it was asked for, which is in the call;
\* what a call has returned goes on being true of the times it speaks of.
CallOK(c) ==
    /\ pc[c] \in {"asked", "served"} => begun[c] <= asked[c]
    /\ pc[c] = "served" => Reflects(answer[c], asked[c], listing, since)
    /\ pc[c] = "listed" => Reflects(answer[c], begun[c] - Tolerance(c), listing, since)
    /\ pc[c] = "missing" =>
         \A m \in Listed : job[c].ref \in Slugs[m] => WasOut(m, begun[c], listing, since)
    /\ pc[c] = "found" => WasIn(found[c], begun[c] - TTL, listing, since)

CallsInv == \A c \in Calls : CallOK(c)

\* What reflects the server at t reflects it at an earlier time.
LEMMA Earlier ==
    ASSUME TypeOK, NEW list \in SUBSET Listed, NEW t \in Int, NEW u \in Int, u <= t,
           Reflects(list, t, listing, since)
    PROVE  Reflects(list, u, listing, since)
<1>1. \A m \in Listed : since[m] \in Int
  BY MarketsAssumption DEF TypeOK
<1> QED BY <1>1 DEF Reflects, WasIn, WasOut

\* A step of the server keeps what is known of times up to now, as it notes the time
\* of each change; so it keeps every list that reflects such a time.
LEMMA PastStays ==
    ASSUME TypeOK, [Next]_vars, NEW m \in Listed, NEW t \in Int, t <= clock
    PROVE  /\ WasIn(m, t, listing, since) => WasIn(m, t, listing', since')
           /\ WasOut(m, t, listing, since) => WasOut(m, t, listing', since')
<1> USE DEF server, cached
<1>1. CASE UNCHANGED <<listing, since>>
  BY <1>1
<1>2. ASSUME NEW n \in Listed, Relist(n)
      PROVE  /\ WasIn(m, t, listing, since) => WasIn(m, t, listing', since')
             /\ WasOut(m, t, listing, since) => WasOut(m, t, listing', since')
  <2>1. since[m] \in Int /\ clock \in Int
    BY MarketsAssumption DEF TypeOK
  <2>2. CASE n = m
    BY <1>2, <2>1, <2>2 DEF Relist, TypeOK, WasIn, WasOut
  <2>3. CASE n # m
    BY <1>2, <2>1, <2>3 DEF Relist, TypeOK, WasIn, WasOut
  <2> QED BY <2>2, <2>3
<1>3. (\E n \in Listed : Relist(n)) \/ UNCHANGED <<listing, since>>
  BY DEF Next, Call, Serve, Receive, Fail, Tick, vars
<1> QED BY <1>1, <1>2, <1>3

\* The same of a list.
LEMMA ListStays ==
    ASSUME TypeOK, [Next]_vars, NEW list \in SUBSET Listed, NEW t \in Int, t <= clock,
           Reflects(list, t, listing, since)
    PROVE  Reflects(list, t, listing', since')
BY PastStays DEF Reflects

\* A step that leaves a call alone keeps what is known of it.
LEMMA OtherCall ==
    ASSUME TypeOK, [Next]_vars, NEW c \in Calls, CallOK(c),
           pc'[c] = pc[c], job'[c] = job[c], begun'[c] = begun[c], asked'[c] = asked[c],
           answer'[c] = answer[c], found'[c] = found[c]
    PROVE  CallOK(c)'
<1>1. /\ begun[c] \in Int /\ begun[c] <= clock
      /\ asked[c] \in Int /\ asked[c] <= clock
      /\ TTL \in Nat /\ clock \in Int
      /\ answer[c] \in SUBSET Listed
  BY MarketsAssumption DEF TypeOK
<1>2. Tolerance(c)' = Tolerance(c) /\ Tolerance(c) \in Nat
  BY <1>1 DEF Tolerance
<1>3. pc[c] = "served" => Reflects(answer[c], asked[c], listing', since')
  BY <1>1, ListStays DEF CallOK
<1>4. pc[c] = "listed" => Reflects(answer[c], begun[c] - Tolerance(c), listing', since')
  BY <1>1, <1>2, ListStays DEF CallOK
<1>5. pc[c] = "missing" =>
        \A m \in Listed : job[c].ref \in Slugs[m] => WasOut(m, begun[c], listing', since')
  BY <1>1, PastStays DEF CallOK
<1>6. pc[c] = "found" => WasIn(found[c], begun[c] - TTL, listing', since')
  <2>1. pc[c] = "found" => found[c] \in Listed
    BY DEF TypeOK
  <2> QED BY <1>1, <2>1, PastStays DEF CallOK
<1> QED BY <1>2, <1>3, <1>4, <1>5, <1>6 DEF CallOK

\* What a coroutine returns, or concludes, from a list that reflects a time which is
\* in its call, or before it by no more than its job puts up with and, for the second
\* loop of _find, in its call.
LEMMA UseSound ==
    ASSUME TypeOK, NEW c \in Calls, NEW list \in SUBSET Listed, NEW inSecond \in BOOLEAN,
           NEW t \in Int, Reflects(list, t, listing, since),
           UNCHANGED <<clock, listing, since>>,
           begun' \in [Calls -> 0..clock],
           t >= begun'[c] - TTL,
           job'[c].kind = "refresh" => t >= begun'[c],
           inSecond => t >= begun'[c],
           Use(c, list, inSecond)
    PROVE  CallOK(c)'
<1>1. begun'[c] \in Int /\ begun'[c] <= clock /\ TTL \in Nat /\ clock \in Int
  BY MarketsAssumption DEF TypeOK
<1>2. \A m \in Listed : since[m] \in Int
  BY MarketsAssumption DEF TypeOK
<1>3. CASE /\ Ends(c, "listed")
           /\ answer' = [answer EXCEPT ![c] = list]
  <2>1. pc'[c] = "listed" /\ answer'[c] = list
    BY <1>3, EndsType DEF TypeOK, Ended
  <2>2. Reflects(list, begun'[c] - Tolerance(c)', listing', since')
    <3>1. begun'[c] - Tolerance(c)' \in Int /\ begun'[c] - Tolerance(c)' <= t
      BY <1>1 DEF Tolerance
    <3> QED BY <3>1, Earlier
  <2> QED BY <2>1, <2>2 DEF CallOK
<1>4. ASSUME NEW m \in Matching(c, list), found' = [found EXCEPT ![c] = m],
             Ends(c, "found")
      PROVE  CallOK(c)'
  <2>1. pc'[c] = "found" /\ found'[c] = m /\ m \in list
    BY <1>4, EndsType DEF TypeOK, Ended, Matching
  <2>2. WasIn(m, begun'[c] - TTL, listing', since')
    BY <1>1, <1>2, <2>1 DEF Reflects, WasIn
  <2> QED BY <2>1, <2>2 DEF CallOK
<1>5. ASSUME Matching(c, list) = {}, LookAgain(c, inSecond) PROVE CallOK(c)'
  <2>1. CASE inSecond
    <3>1. pc'[c] = "missing"
      BY <1>5, <2>1, EndsType DEF LookAgain, Ended
    <3>2. ASSUME NEW m \in Listed, job'[c].ref \in Slugs[m]
          PROVE  WasOut(m, begun'[c], listing', since')
      <4>1. m \notin list
        BY <1>5, <3>2 DEF Matching
      <4> QED BY <1>1, <1>2, <2>1, <4>1 DEF Reflects, WasOut
    <3> QED BY <3>1, <3>2 DEF CallOK
  <2>2. CASE ~inSecond
    <3>1. pc'[c] = "asked" /\ asked'[c] = clock
      BY <1>5, <2>2, FetchType DEF LookAgain
    <3> QED BY <1>1, <3>1 DEF CallOK
  <2> QED BY <2>1, <2>2
<1> QED BY <1>3, <1>4, <1>5 DEF Use

\* What Use leaves alone.
LEMMA UseOthers ==
    ASSUME TypeOK, NEW c \in Calls, NEW list \in SUBSET Listed, NEW inSecond \in BOOLEAN,
           Use(c, list, inSecond), NEW d \in Calls \ {c}
    PROVE  /\ pc'[d] = pc[d] /\ asked'[d] = asked[d]
           /\ answer'[d] = answer[d] /\ found'[d] = found[d]
BY DEF TypeOK, Use, Ends, LookAgain, Fetch, Goes

\* Nothing has been cached or asked for yet.
LEMMA MarketsInit == Init => CacheInv /\ CallsInv
BY DEF Init, CacheInv, CallsInv, CallOK

\* Every step keeps the promises of the cache and of every call.
LEMMA MarketsStep == TypeOK /\ CacheInv /\ CallsInv /\ [Next]_vars => CacheInv' /\ CallsInv'
<1> SUFFICES ASSUME TypeOK, CacheInv, CallsInv, [Next]_vars PROVE CacheInv' /\ CallsInv'
  OBVIOUS
<1> USE DEF server, cached
<1>a. /\ cacheAt \in Int /\ cacheAt <= clock /\ cache \in SUBSET Listed
      /\ clock \in Int /\ TTL \in Nat
  BY MarketsAssumption DEF TypeOK
<1>b. ASSUME UNCHANGED <<cache, cacheAt>> PROVE CacheInv'
  BY <1>a, <1>b, ListStays DEF CacheInv
<1>1. ASSUME NEW c \in Calls, Call(c) PROVE CacheInv' /\ CallsInv'
  <2>1. PICK j \in Jobs :
          /\ job' = [job EXCEPT ![c] = j]
          /\ IF j.kind = "refresh" \/ Stale
               THEN /\ Fetch(c)
                    /\ again' = [again EXCEPT ![c] = FALSE]
                    /\ answer' = [answer EXCEPT ![c] = {}]
                    /\ found' = [found EXCEPT ![c] = NoMarket]
               ELSE Use(c, cache, FALSE)
    BY <1>1 DEF Call
  <2>2. /\ UNCHANGED <<clock, listing, since, cache, cacheAt>>
        /\ begun' \in [Calls -> 0..clock] /\ begun'[c] = clock
        /\ job'[c] = j
        /\ \A d \in Calls \ {c} : begun'[d] = begun[d] /\ job'[d] = job[d]
    BY <1>1, <2>1, MarketsAssumption DEF Call, TypeOK
  <2>3. CASE j.kind = "refresh" \/ Stale
    <3>1. /\ Fetch(c)
          /\ answer' = [answer EXCEPT ![c] = {}]
          /\ found' = [found EXCEPT ![c] = NoMarket]
      BY <2>1, <2>3
    <3>2. CallOK(c)'
      BY <2>2, <3>1, <1>a, FetchType DEF CallOK
    <3>3. ASSUME NEW d \in Calls \ {c} PROVE CallOK(d)'
      <4>1. /\ pc'[d] = pc[d] /\ asked'[d] = asked[d]
            /\ answer'[d] = answer[d] /\ found'[d] = found[d]
        BY <3>1 DEF TypeOK, Fetch, Goes
      <4> QED BY <2>2, <4>1, OtherCall DEF CallsInv
    <3> QED BY <1>b, <2>2, <3>2, <3>3 DEF CallsInv
  <2>4. CASE ~(j.kind = "refresh" \/ Stale)
    <3>1. Use(c, cache, FALSE)
      BY <2>1, <2>4
    <3>2. cache # {} /\ cacheAt >= clock - TTL
      BY <1>a, <2>4 DEF Stale
    <3>3. CallOK(c)'
      BY <1>a, <2>2, <2>4, <3>1, <3>2, UseSound DEF CacheInv
    <3>4. ASSUME NEW d \in Calls \ {c} PROVE CallOK(d)'
      BY <1>a, <2>2, <3>1, UseOthers, OtherCall DEF CallsInv
    <3> QED BY <1>b, <2>2, <3>3, <3>4 DEF CallsInv
  <2> QED BY <2>3, <2>4
<1>2. ASSUME NEW c \in Calls, Serve(c) PROVE CacheInv' /\ CallsInv'
  <2>1. CallOK(c)'
    <3>1. /\ pc'[c] = "served" /\ answer'[c] = listing
          /\ UNCHANGED <<begun, asked, listing, since>>
      BY <1>2 DEF TypeOK, Serve, Goes
    <3>2. Reflects(listing, asked[c], listing, since)
      BY DEF Reflects, WasIn, WasOut
    <3>3. begun[c] <= asked[c]
      BY <1>2 DEF Serve, CallsInv, CallOK
    <3> QED BY <3>1, <3>2, <3>3 DEF CallOK
  <2>2. ASSUME NEW d \in Calls \ {c} PROVE CallOK(d)'
    <3>1. /\ pc'[d] = pc[d] /\ answer'[d] = answer[d]
          /\ UNCHANGED <<job, begun, asked, found>>
      BY <1>2 DEF TypeOK, Serve, Goes
    <3> QED BY <3>1, OtherCall DEF CallsInv
  <2> QED BY <1>2, <1>b, <2>1, <2>2 DEF Serve, CallsInv
<1>3. ASSUME NEW c \in Calls, Receive(c) PROVE CacheInv' /\ CallsInv'
  <2>1. /\ answer[c] \in SUBSET Listed /\ again[c] \in BOOLEAN
        /\ asked[c] \in Int /\ begun[c] \in Int /\ begun[c] <= asked[c]
        /\ Reflects(answer[c], asked[c], listing, since)
    BY <1>3, MarketsAssumption DEF TypeOK, Receive, CallsInv, CallOK
  <2>2. /\ Use(c, answer[c], again[c])
        /\ cache' = answer[c] /\ cacheAt' = asked[c]
        /\ UNCHANGED <<clock, listing, since, job, begun>>
    BY <1>3 DEF Receive, Stamp
  <2>3. CacheInv'
    BY <2>1, <2>2 DEF CacheInv
  <2>4. CallOK(c)'
    <3>1. begun' \in [Calls -> 0..clock] /\ asked[c] >= begun'[c] - TTL
      BY <1>a, <2>1, <2>2 DEF TypeOK
    <3> QED BY <2>1, <2>2, <3>1, UseSound
  <2>5. ASSUME NEW d \in Calls \ {c} PROVE CallOK(d)'
    BY <2>1, <2>2, UseOthers, OtherCall DEF CallsInv
  <2> QED BY <2>3, <2>4, <2>5 DEF CallsInv
<1>4. ASSUME NEW c \in Calls, Fail(c) PROVE CacheInv' /\ CallsInv'
  <2>1. CallOK(c)'
    BY <1>4, EndsType DEF Fail, Ended, CallOK
  <2>2. ASSUME NEW d \in Calls \ {c} PROVE CallOK(d)'
    <3>1. /\ pc'[d] = pc[d] /\ asked'[d] = asked[d] /\ answer'[d] = answer[d]
          /\ UNCHANGED <<job, begun, found>>
      BY <1>4 DEF TypeOK, Fail, Ends, Goes
    <3> QED BY <3>1, OtherCall DEF CallsInv
  <2> QED BY <1>4, <1>b, <2>1, <2>2 DEF Fail, CallsInv
<1>5. ASSUME UNCHANGED <<cache, cacheAt, job, pc, begun, asked, answer, found>>
      PROVE  CacheInv' /\ CallsInv'
  BY <1>5, <1>b, OtherCall DEF CallsInv
<1> QED BY <1>1, <1>2, <1>3, <1>4, <1>5 DEF Next, Relist, Tick, vars

\* The promises hold in every reachable state.
LEMMA MarketsAlways == Spec => [](CacheInv /\ CallsInv)
BY MarketsTypeCorrect, MarketsInit, MarketsStep, PTL DEF Spec

(* Every list that list() returns is the server's at a time the caller puts  *)
(* up with, for any time to live and any number of overlapping refreshes.    *)
THEOREM ListsAreFresh == Spec => []ListFresh
<1>1. CallsInv => ListFresh
  BY DEF CallsInv, CallOK, ListFresh, Reflects, WasIn, WasOut, ListedSince, UnlistedSince
<1> QED BY <1>1, MarketsAlways, PTL

(* A lookup misses no market that was listed throughout it, and returns none *)
(* that was gone for longer than the time to live.                           *)
THEOREM LookupsAreTruthful == Spec => []FindTruthful
<1>1. CallsInv => FindTruthful
  BY DEF CallsInv, CallOK, FindTruthful, WasIn, WasOut, ListedSince, UnlistedSince
<1> QED BY <1>1, MarketsAlways, PTL
-----------------------------------------------------------------------------
(* Pages: lists and their order.                                             *)

Has(rows, i) == \E k \in DOMAIN rows : rows[k].item = i

\* The rows are in the order of the list that r reads.
Falling(r, rows) ==
    \A k, m \in DOMAIN rows : k < m => Ahead(r, rows[k].item, rows[m].item)

\* No row is behind the cursor c.
UpTo(r, rows, c) ==
    \A k \in DOMAIN rows : c # 0 /\ (rows[k].item = c \/ Ahead(r, rows[k].item, c))

\* Every row is behind the cursor c.
After(r, rows, c) == \A k \in DOMAIN rows : c # 0 => Ahead(r, c, rows[k].item)

\* The rows of items that belonged to a history throughout the read say so.
Faithful(r, rows, always) ==
    \A k \in DOMAIN rows :
        rows[k].item \in always /\ r.kind = "history" => rows[k].state = "closed"

\* What is missing among the rows is behind the cursor c.
Reaches(r, rows, c, always) ==
    \A i \in always : Has(rows, i) \/ c = 0 \/ Ahead(r, c, i)

\* A page ends the list, or what it and the pages before miss is behind its cursor.
Covers(r, before, p, always) ==
    \A i \in always :
        \/ Has(before, i) \/ Has(p.rows, i)
        \/ p.next # 0 /\ p.rows # <<>> /\ Ahead(r, p.next, i)

Reading ==
    stage \in {"asked", "served"} =>
        /\ Falling(read, collected) /\ UpTo(read, collected, cursor)
        /\ Faithful(read, collected, steady)
        /\ Reaches(read, collected, cursor, steady)
        /\ \A i \in steady : Belongs(read, items[i])

Page ==
    stage = "served" =>
        /\ Falling(read, page.rows) /\ After(read, page.rows, cursor)
        /\ Faithful(read, page.rows, steady)
        /\ page.next # 0 => UpTo(read, page.rows, page.next)
        /\ Covers(read, collected, page, steady)

PagesInv == PagesTypeOK /\ Reading /\ Page /\ ItemsInOrder /\ NoGaps

\* Being ahead is a strict order.
LEMMA AheadIsAnOrder ==
    ASSUME NEW r, NEW i \in Nat, NEW j \in Nat, NEW k \in Nat
    PROVE  /\ ~Ahead(r, i, i)
           /\ Ahead(r, i, j) /\ Ahead(r, j, k) => Ahead(r, i, k)
BY DEF Ahead

\* A function on 1..n is a sequence of length n.
LEMMA Indexed ==
    ASSUME NEW S, NEW n \in Nat, NEW f \in [1..n -> S]
    PROVE  f \in Seq(S) /\ Len(f) = n
BY IsASeq, LenProperties

\* The bound on a sequence's length.
LEMMA BoundedSeqs ==
    ASSUME NEW S, NEW n \in Nat
    PROVE  BoundedSeq(S, n) = {seq \in Seq(S) : Len(seq) <= n}
<1>1. ASSUME NEW seq \in BoundedSeq(S, n) PROVE seq \in Seq(S) /\ Len(seq) <= n
  <2>1. PICK m \in 0..n : seq \in [1..m -> S]
    BY <1>1 DEF BoundedSeq, SeqOf
  <2>2. seq \in Seq(S) /\ Len(seq) = m
    BY <2>1, IsASeq, LenProperties
  <2> QED BY <2>2
<1>2. ASSUME NEW seq \in Seq(S), Len(seq) <= n PROVE seq \in BoundedSeq(S, n)
  <2>1. seq \in [1..Len(seq) -> S] /\ Len(seq) \in 0..n
    BY <1>2, LenProperties
  <2> QED BY <2>1 DEF BoundedSeq, SeqOf
<1> QED BY <1>1, <1>2

\* A set in a sequence: each member is in it, and nothing else.
LEMMA Arrangements ==
    ASSUME NEW S, IsFiniteSet(S), NEW seq \in SetToSeqs(S)
    PROVE  /\ seq \in Seq(S) /\ DOMAIN seq = 1..Len(seq) /\ Len(seq) \in Nat
           /\ \A k \in DOMAIN seq : seq[k] \in S
           /\ \A x \in S : \E k \in DOMAIN seq : seq[k] = x
<1> DEFINE n == Cardinality(S)
<1>1. n \in Nat
  BY FS_CardinalityType
<1>2. seq \in [1..n -> S] /\ \A k, m \in 1..n : k # m => seq[k] # seq[m]
  BY DEF SetToSeqs
<1>3. seq \in Injection(1..n, S)
  BY <1>2 DEF Injection, IsInjective
<1>4. Cardinality(1..n) = n
  <2>1. Cardinality(1..n) = IF 1 > n THEN 0 ELSE n - 1 + 1
    BY <1>1, FS_Interval
  <2> HIDE DEF n
  <2> QED BY <1>1, <2>1
<1>5. seq \in Surjection(1..n, S)
  BY <1>3, <1>4, FS_Injection
<1> HIDE DEF n
<1>6. seq \in Seq(S) /\ Len(seq) = n /\ DOMAIN seq = 1..n
  BY <1>1, <1>2, IsASeq, LenProperties
<1>7. \A x \in S : \E k \in 1..n : seq[k] = x
  BY <1>5 DEF Surjection
<1> QED BY <1>1, <1>2, <1>6, <1>7

\* What collected[:limit] has.
LEMMA Cuts ==
    ASSUME NEW s \in Seq(Rows), NEW limit \in Bounds
    PROVE  /\ Cut(s, limit) \in Seq(Rows) /\ DOMAIN Cut(s, limit) \subseteq DOMAIN s
           /\ \A k \in DOMAIN Cut(s, limit) : Cut(s, limit)[k] = s[k]
           /\ limit # NoLimit => Len(Cut(s, limit)) <= limit
           /\ limit # NoLimit /\ Len(s) >= limit => Len(Cut(s, limit)) = limit
           /\ \A k \in DOMAIN s \ DOMAIN Cut(s, limit) :
                /\ limit # NoLimit /\ Len(Cut(s, limit)) = limit
                /\ \A m \in DOMAIN Cut(s, limit) : m < k
<1>1. Len(s) \in Nat /\ DOMAIN s = 1..Len(s) /\ (limit # NoLimit => limit \in Nat)
  BY LenProperties, PagesAssumption DEF Bounds
<1>2. CASE limit # NoLimit /\ limit < Len(s)
  <2>1. Cut(s, limit) = SubSeq(s, 1, limit)
    BY <1>2 DEF Cut
  <2>2. 1 \in 1..Len(s) + 1 /\ limit \in 1 - 1..Len(s)
    BY <1>1, <1>2
  <2>3. /\ SubSeq(s, 1, limit) \in Seq(Rows) /\ Len(SubSeq(s, 1, limit)) = limit
        /\ \A k \in 1..limit : SubSeq(s, 1, limit)[k] = s[k]
    <3>1. /\ SubSeq(s, 1, limit) \in Seq(Rows)
          /\ Len(SubSeq(s, 1, limit)) = IF 1 <= limit THEN limit - 1 + 1 ELSE 0
          /\ \A k \in 1..limit - 1 + 1 : SubSeq(s, 1, limit)[k] = s[1 + k - 1]
      BY <2>2, SubSeqProperties
    <3>2. limit - 1 + 1 = limit /\ (IF 1 <= limit THEN limit - 1 + 1 ELSE 0) = limit
          /\ \A k \in 1..limit : 1 + k - 1 = k
      BY <1>1, <1>2
    <3> QED BY <3>1, <3>2
  <2>4. DOMAIN SubSeq(s, 1, limit) = 1..limit
    BY <2>3, LenProperties
  <2> QED BY <1>1, <1>2, <2>1, <2>3, <2>4
<1>3. CASE ~(limit # NoLimit /\ limit < Len(s))
  <2>1. Cut(s, limit) = s
    BY <1>3 DEF Cut
  <2> QED BY <1>1, <1>3, <2>1
<1> QED BY <1>2, <1>3

\* What a list misses is behind all of it, and it has as many rows as were asked for.
MissesOnlyBehind(r, rows, always) ==
    \A i \in always :
        \/ Has(rows, i)
        \/ /\ r.limit # NoLimit /\ Len(rows) >= r.limit
           /\ \A k \in DOMAIN rows : Ahead(r, rows[k].item, i)

\* A list that is cut at the limit stays in order and misses only what is behind it.
LEMMA CutsKeepOrder ==
    ASSUME NEW r, r.limit \in Bounds, NEW s \in Seq(Rows), NEW always,
           Falling(r, s), MissesOnlyBehind(r, s, always)
    PROVE  LET cut == Cut(s, r.limit) IN
           /\ Falling(r, cut)
           /\ \A i \in always : ~Has(cut, i) =>
                /\ r.limit # NoLimit /\ Len(cut) = r.limit
                /\ \A k \in DOMAIN cut : Ahead(r, cut[k].item, i)
<1> DEFINE cut == Cut(s, r.limit)
<1>1. /\ DOMAIN cut \subseteq DOMAIN s
      /\ \A k \in DOMAIN cut : cut[k] = s[k]
      /\ r.limit # NoLimit /\ Len(s) >= r.limit => Len(cut) = r.limit
      /\ \A k \in DOMAIN s \ DOMAIN cut :
           /\ r.limit # NoLimit /\ Len(cut) = r.limit
           /\ \A m \in DOMAIN cut : m < k
  BY Cuts
<1> HIDE DEF cut
<1>2. Falling(r, cut)
  BY <1>1 DEF Falling
<1>3. ASSUME NEW i \in always, ~Has(cut, i)
      PROVE  /\ r.limit # NoLimit /\ Len(cut) = r.limit
             /\ \A k \in DOMAIN cut : Ahead(r, cut[k].item, i)
  <2>1. CASE Has(s, i)
    <3>1. PICK k \in DOMAIN s : s[k].item = i
      BY <2>1 DEF Has
    <3>2. k \notin DOMAIN cut
      BY <1>1, <1>3, <3>1 DEF Has
    <3> QED BY <1>1, <3>1, <3>2 DEF Falling
  <2>2. CASE ~Has(s, i)
    BY <1>1, <2>2 DEF MissesOnlyBehind
  <2> QED BY <2>1, <2>2
<1> QED BY <1>2, <1>3 DEF cut

\* The closed rows of a list, in its order.
LEMMA ClosedRows ==
    ASSUME NEW r, NEW s \in Seq(Rows), NEW kept \in SetToSeqs({k \in DOMAIN s : Closed(s[k])}),
           \A k, m \in DOMAIN kept : k < m => kept[k] < kept[m],
           Falling(r, s)
    PROVE  LET list == [m \in DOMAIN kept |-> s[kept[m]]] IN
           /\ list \in Seq(Rows) /\ Falling(r, list)
           /\ \A k \in DOMAIN s : Closed(s[k]) => Has(list, s[k].item)
<1> DEFINE K == {k \in DOMAIN s : Closed(s[k])}
           list == [m \in DOMAIN kept |-> s[kept[m]]]
<1>1. Len(s) \in Nat /\ DOMAIN s = 1..Len(s) /\ \A k \in 1..Len(s) : s[k] \in Rows
  BY LenProperties, ElementOfSeq
<1>2. IsFiniteSet(K)
  <2>1. K \in SUBSET Nat /\ \A k \in K : k <= Len(s)
    BY <1>1
  <2> HIDE DEF K, list
  <2> QED BY <1>1, <2>1, FS_BoundedSetOfNaturals
<1>3. kept \in SetToSeqs(K)
  OBVIOUS
<1> HIDE DEF K
<1>4. /\ DOMAIN kept = 1..Len(kept) /\ Len(kept) \in Nat
      /\ \A m \in DOMAIN kept : kept[m] \in K
      /\ \A k \in K : \E m \in DOMAIN kept : kept[m] = k
  BY <1>2, <1>3, Arrangements
<1>5. \A m \in DOMAIN kept : kept[m] \in DOMAIN s
  BY <1>4 DEF K
<1>6. list \in Seq(Rows)
  <2>1. list \in [1..Len(kept) -> Rows]
    BY <1>1, <1>4, <1>5
  <2> HIDE DEF list
  <2> QED BY <1>4, <2>1, Indexed
<1>7. Falling(r, list)
  BY <1>5 DEF Falling
<1>8. ASSUME NEW k \in DOMAIN s, Closed(s[k]) PROVE Has(list, s[k].item)
  <2>1. PICK m \in DOMAIN kept : kept[m] = k
    BY <1>4, <1>8 DEF K
  <2> QED BY <2>1 DEF Has
<1> QED BY <1>6, <1>7, <1>8

\* What is returned of rows in order that miss nothing they should not.
LEMMA ReturnsSound ==
    ASSUME PagesTypeOK, NEW rows \in Seq(Rows), Returns(rows), read' = read, steady' = steady,
           Falling(read, rows), Faithful(read, rows, steady),
           read.kind = "history" => \A i \in steady : Has(rows, i),
           read.kind # "history" => MissesOnlyBehind(read, rows, steady)
    PROVE  /\ ItemsInOrder' /\ NoGaps' /\ stage' = "returned"
           /\ result' \in Seq(Rows) /\ (read.limit # NoLimit => Len(result') <= read.limit)
<1>1. read.limit \in Bounds
  BY DEF PagesTypeOK, Reads, OrderReads, FillReads, FeeReads
<1>2. \E list \in Seq(Rows) : /\ result' = Cut(list, read.limit)
                              /\ Falling(read, list) /\ MissesOnlyBehind(read, list, steady)
  <2>1. CASE read.kind # "history"
    <3>1. result' = Cut(rows, read.limit)
      BY <2>1 DEF Returns
    <3> QED BY <2>1, <3>1
  <2>2. CASE read.kind = "history"
    <3>1. PICK kept \in SetToSeqs({k \in DOMAIN rows : Closed(rows[k])}) :
            /\ \A k, m \in DOMAIN kept : k < m => kept[k] < kept[m]
            /\ result' = Cut([m \in DOMAIN kept |-> rows[kept[m]]], read.limit)
      BY <2>2 DEF Returns, Arranged
    <3> DEFINE list == [m \in DOMAIN kept |-> rows[kept[m]]]
    <3>2. /\ list \in Seq(Rows) /\ Falling(read, list)
          /\ \A k \in DOMAIN rows : Closed(rows[k]) => Has(list, rows[k].item)
      BY <3>1, ClosedRows
    <3>3. MissesOnlyBehind(read, list, steady)
      <4> SUFFICES ASSUME NEW i \in steady PROVE Has(list, i)
        BY DEF MissesOnlyBehind
      <4>1. PICK k \in DOMAIN rows : rows[k].item = i
        BY <2>2 DEF Has
      <4>2. Closed(rows[k])
        BY <2>2, <4>1 DEF Faithful, Closed
      <4> QED BY <3>2, <4>1, <4>2
    <3> QED BY <3>1, <3>2, <3>3
  <2> QED BY <2>1, <2>2
<1>3. PICK list \in Seq(Rows) : /\ result' = Cut(list, read.limit)
                                /\ Falling(read, list) /\ MissesOnlyBehind(read, list, steady)
  BY <1>2
<1>4. /\ Falling(read, result')
      /\ \A i \in steady : ~Has(result', i) =>
           /\ read.limit # NoLimit /\ Len(result') = read.limit
           /\ \A k \in DOMAIN result' : Ahead(read, result'[k].item, i)
  BY <1>1, <1>3, CutsKeepOrder
<1>5. stage' = "returned"
  BY DEF Returns
<1>6. ItemsInOrder'
  BY <1>4, <1>5 DEF ItemsInOrder, Falling, Ahead
<1>7. NoGaps'
  <2> SUFFICES ASSUME NEW i \in steady, i \notin Returned'
               PROVE  Len(result') = read.limit /\ \A j \in Returned' : Ahead(read, j, i)
    BY DEF NoGaps, Ahead
  <2>1. ~Has(result', i)
    BY DEF Has, Returned
  <2> QED BY <1>4, <2>1 DEF Returned
<1> QED BY <1>1, <1>3, <1>5, <1>6, <1>7, Cuts

-----------------------------------------------------------------------------
(* Pages: a read.                                                            *)

\* The invariant holds at the beginning.
LEMMA PagesInvInit == PagesInit => PagesInv
<1> SUFFICES ASSUME PagesInit PROVE PagesInv
  OBVIOUS
<1>1. \A seq \in BoundedSeq(States, MaxItems) : Len(seq) \in Nat
  BY BoundedSeqs, PagesAssumption, LenProperties
<1>2. PagesTypeOK
  BY <1>1, PagesAssumption, EmptySeq
     DEF PagesInit, PagesTypeOK, NoPage, Over, Reads, FillReads, Bounds
<1>3. stage = "idle"
  BY DEF PagesInit
<1> QED BY <1>2, <1>3 DEF PagesInv, Reading, Page, ItemsInOrder, NoGaps

\* The typed state, as the proofs need it.
LEMMA PagesTypes ==
    ASSUME PagesTypeOK
    PROVE  /\ items \in Seq(States) /\ Len(items) \in Nat /\ Len(items) <= MaxItems
           /\ DOMAIN items = 1..Len(items)
           /\ \A i \in DOMAIN items : i \in 1..MaxItems /\ items[i] \in States
           /\ cursor \in Nat /\ page.next \in Nat /\ steady \subseteq Nat
           /\ Len(collected) \in Nat /\ DOMAIN collected = 1..Len(collected)
           /\ \A k \in DOMAIN collected : collected[k] \in Rows /\ collected[k].item \in Nat
           /\ Len(page.rows) \in Nat /\ DOMAIN page.rows = 1..Len(page.rows)
           /\ \A k \in DOMAIN page.rows : page.rows[k] \in Rows /\ page.rows[k].item \in Nat
           /\ read.limit \in Bounds
<1>1. items \in Seq(States) /\ Len(items) \in Nat /\ Len(items) <= MaxItems
      /\ DOMAIN items = 1..Len(items)
  BY BoundedSeqs, PagesAssumption, LenProperties DEF PagesTypeOK
<1>2. \A i \in DOMAIN items : i \in 1..MaxItems /\ items[i] \in States
  BY <1>1, ElementOfSeq, PagesAssumption
<1>3. cursor \in Nat /\ page.next \in Nat /\ steady \subseteq Nat
  BY <1>1 DEF PagesTypeOK
<1>4. ASSUME NEW rows \in Seq(Rows)
      PROVE  /\ Len(rows) \in Nat /\ DOMAIN rows = 1..Len(rows)
             /\ \A k \in DOMAIN rows : rows[k] \in Rows /\ rows[k].item \in Nat
  <2>1. Len(rows) \in Nat /\ DOMAIN rows = 1..Len(rows) /\ \A k \in 1..Len(rows) : rows[k] \in Rows
    BY LenProperties, ElementOfSeq
  <2>2. \A row \in Rows : row.item \in Nat
    BY DEF Rows
  <2> QED BY <2>1, <2>2
<1>5. collected \in Seq(Rows) /\ page.rows \in Seq(Rows)
  BY DEF PagesTypeOK
<1>6. read.limit \in Bounds
  BY DEF PagesTypeOK, Reads, OrderReads, FillReads, FeeReads
<1> QED BY <1>1, <1>2, <1>3, <1>4, <1>5, <1>6

\* A new read has nothing yet.
LEMMA CollectStep == ASSUME PagesInv, Collect PROVE PagesInv'
<1>t. PagesTypeOK
  BY DEF PagesInv
<1>1. /\ UNCHANGED items /\ read' \in Reads /\ cursor' = 0 /\ collected' = <<>>
      /\ page' = [rows |-> <<>>, next |-> 0] /\ result' = <<>>
      /\ stage' = IF PageLimit(read') = 0 THEN "returned" ELSE "asked"
      /\ steady' = {i \in DOMAIN items : Belongs(read', items[i])}
  BY DEF Collect, NoPage
<1>2. read'.limit \in Bounds
  BY <1>1 DEF Reads, OrderReads, FillReads, FeeReads
<1>3. PagesTypeOK'
  <2>1. page'.rows = <<>> /\ page'.next = 0
    BY <1>1
  <2>2. <<>> \in Seq(Rows) /\ Len(<<>>) = 0
    BY EmptySeq
  <2>3. read'.limit # NoLimit => read'.limit \in Nat
    BY <1>2, PagesAssumption DEF Bounds
  <2> QED BY <1>t, <1>1, <2>1, <2>2, <2>3, PagesTypes DEF PagesTypeOK, Over
<1>4. Reading'
  BY <1>1 DEF Reading, Falling, UpTo, Faithful, Reaches
<1>5. Page'
  BY <1>1 DEF Page
<1>6. ItemsInOrder'
  BY <1>1 DEF ItemsInOrder
<1>7. NoGaps'
  <2>1. stage' = "returned" => Len(result') = read'.limit
    <3>1. PageLimit(read') = 0 => read'.limit = 0
      BY <1>2, PagesAssumption DEF PageLimit
    <3>2. Len(<<>>) = 0
      OBVIOUS
    <3> QED BY <1>1, <3>1, <3>2
  <2>2. Returned' = {}
    BY <1>1 DEF Returned
  <2> QED BY <2>1, <2>2 DEF NoGaps, Ahead
<1> QED BY <1>3, <1>4, <1>5, <1>6, <1>7 DEF PagesInv

\* The server's page: the first of the rest, or all of it.
LEMMA ServeStep == ASSUME PagesInv, ServePage PROVE PagesInv'
<1>t. PagesTypeOK /\ Reading
  BY DEF PagesInv
<1>1. PICK sent \in SUBSET Rest :
        /\ sent = {} => Rest = {}
        /\ \A i \in sent, j \in Rest \ sent : Ahead(read, i, j)
        /\ \E ids \in SetToSeqs(sent),
              next \in {0} \cup (IF sent = {} THEN {cursor} ELSE sent) :
             /\ \A k, m \in DOMAIN ids : k < m => Ahead(read, ids[k], ids[m])
             /\ next = 0 => sent = Rest
             /\ next # 0 => \A i \in sent : i = next \/ Ahead(read, i, next)
             /\ page' = [rows |-> [k \in DOMAIN ids |-> Row(ids[k])], next |-> next]
  BY DEF ServePage, Arranged
<1>2. PICK ids \in SetToSeqs(sent),
           next \in {0} \cup (IF sent = {} THEN {cursor} ELSE sent) :
        /\ \A k, m \in DOMAIN ids : k < m => Ahead(read, ids[k], ids[m])
        /\ next = 0 => sent = Rest
        /\ next # 0 => \A i \in sent : i = next \/ Ahead(read, i, next)
        /\ page' = [rows |-> [k \in DOMAIN ids |-> Row(ids[k])], next |-> next]
  BY <1>1
<1>3. /\ UNCHANGED <<items, read, cursor, collected, result, steady>>
      /\ stage = "asked" /\ stage' = "served"
  BY DEF ServePage
<1>5. /\ sent \subseteq DOMAIN items /\ sent \subseteq Nat
      /\ IsFiniteSet(sent)
  <2>1. sent \subseteq Nat /\ \A i \in sent : i <= Len(items) /\ i \in DOMAIN items
    BY <1>t, PagesTypes DEF Rest
  <2>2. Len(items) \in Nat
    BY <1>t, PagesTypes
  <2> QED BY <2>1, <2>2, FS_BoundedSetOfNaturals
<1>6. /\ DOMAIN ids = 1..Len(ids) /\ Len(ids) \in Nat
      /\ \A k \in DOMAIN ids : ids[k] \in sent
      /\ \A i \in sent : \E k \in DOMAIN ids : ids[k] = i
  BY <1>5, Arrangements
<1>7. /\ DOMAIN page'.rows = DOMAIN ids /\ page'.next = next
      /\ \A k \in DOMAIN ids : page'.rows[k] = [item |-> ids[k], state |-> items[ids[k]]]
      /\ page'.rows = [k \in 1..Len(ids) |-> Row(ids[k])]
  BY <1>2, <1>6 DEF Row
<1>8. page'.rows \in Seq(Rows)
  <2>1. \A i \in DOMAIN items : Row(i) \in Rows
    BY <1>t, PagesTypes DEF Row, Rows
  <2>2. page'.rows \in [1..Len(ids) -> Rows]
    BY <1>5, <1>6, <1>7, <2>1
  <2> QED BY <1>6, <2>2, Indexed
<1>9. next \in 0..Len(items)
  <2>1. cursor \in 0..Len(items) /\ Len(items) \in Nat /\ DOMAIN items = 1..Len(items)
    BY <1>t, PagesTypes DEF PagesTypeOK
  <2> QED BY <1>2, <1>5, <2>1
<1>10. PagesTypeOK'
  BY <1>t, <1>3, <1>7, <1>8, <1>9 DEF PagesTypeOK
<1>11. Reading'
  BY <1>t, <1>3 DEF Reading
<1>12. Falling(read, page'.rows) /\ After(read, page'.rows, cursor)
  <2>1. \A i \in sent : cursor # 0 => Ahead(read, cursor, i)
    BY DEF Rest
  <2> QED BY <1>2, <1>6, <1>7, <2>1 DEF Falling, After
<1>13. Faithful(read, page'.rows, steady)
  <2>1. \A i \in steady : read.kind = "history" => items[i] = "closed"
    BY <1>t, <1>3 DEF Reading, Belongs
  <2> SUFFICES ASSUME NEW k \in DOMAIN page'.rows, page'.rows[k].item \in steady,
                      read.kind = "history"
               PROVE  page'.rows[k].state = "closed"
    BY DEF Faithful
  <2>2. page'.rows[k] = [item |-> ids[k], state |-> items[ids[k]]]
    BY <1>7
  <2>3. page'.rows[k].item = ids[k] /\ page'.rows[k].state = items[ids[k]]
    BY <2>2
  <2> QED BY <2>1, <2>3
<1>14. page'.next # 0 => UpTo(read, page'.rows, page'.next)
  BY <1>2, <1>6, <1>7 DEF UpTo
<1>15. Covers(read, collected, page', steady)
  <2> SUFFICES ASSUME NEW i \in steady, ~Has(collected, i)
               PROVE  \/ Has(page'.rows, i)
                      \/ page'.next # 0 /\ page'.rows # <<>> /\ Ahead(read, page'.next, i)
    BY DEF Covers
  <2>1. i \in Rest
    <3>1. cursor = 0 \/ Ahead(read, cursor, i)
      BY <1>t, <1>3 DEF Reading, Reaches
    <3>2. i \in DOMAIN items /\ Shown(read, items[i])
      BY <1>t, <1>3 DEF PagesTypeOK, Reading, Belongs
    <3> QED BY <3>1, <3>2 DEF Rest
  <2>2. CASE i \in sent
    BY <1>6, <1>7, <2>2 DEF Has
  <2>3. CASE i \notin sent
    <3>1. sent # {} /\ next # 0
      BY <1>1, <1>2, <2>1, <2>3
    <3>2. next \in sent /\ Ahead(read, next, i)
      BY <1>1, <1>2, <2>1, <2>3, <3>1
    <3>3. page'.rows # <<>>
      <4>1. PICK k \in DOMAIN ids : ids[k] = next
        BY <1>6, <3>2
      <4>2. k \in DOMAIN page'.rows
        BY <1>7, <4>1
      <4> QED BY <4>2
    <3> QED BY <1>7, <3>1, <3>2, <3>3
  <2> QED BY <2>2, <2>3
<1>16. Page'
  BY <1>3, <1>12, <1>13, <1>14, <1>15 DEF Page
<1> QED BY <1>3, <1>10, <1>11, <1>16 DEF PagesInv, ItemsInOrder, NoGaps

\* The rows that Receive has: those it had and those of the page.
LEMMA Joined ==
    ASSUME PagesInv, stage = "served"
    PROVE  LET rows == collected \o page.rows IN
           /\ rows \in Seq(Rows) /\ Falling(read, rows) /\ Faithful(read, rows, steady)
           /\ page.rows = <<>> => rows = collected
           /\ \A i \in Nat : Has(collected, i) \/ Has(page.rows, i) => Has(rows, i)
           /\ page.next # 0 /\ page.rows # <<>> => UpTo(read, rows, page.next)
<1> DEFINE rows == collected \o page.rows
           n == Len(collected)
<1>t. /\ collected \in Seq(Rows) /\ page.rows \in Seq(Rows)
      /\ PagesTypeOK /\ Falling(read, collected) /\ UpTo(read, collected, cursor)
      /\ Faithful(read, collected, steady)
      /\ Falling(read, page.rows) /\ After(read, page.rows, cursor)
      /\ Faithful(read, page.rows, steady)
      /\ page.next # 0 => UpTo(read, page.rows, page.next)
  BY DEF PagesInv, PagesTypeOK, Reading, Page
<1>1. /\ rows \in Seq(Rows) /\ Len(rows) = n + Len(page.rows)
      /\ \A k \in 1..n + Len(page.rows) :
            rows[k] = IF k <= n THEN collected[k] ELSE page.rows[k - n]
  BY <1>t, ConcatProperties
<1>2. n \in Nat /\ Len(page.rows) \in Nat /\ DOMAIN collected = 1..n
      /\ DOMAIN page.rows = 1..Len(page.rows) /\ DOMAIN rows = 1..(n + Len(page.rows))
  BY <1>t, <1>1, PagesTypes, LenProperties
<1> HIDE DEF rows, n
<1>3. \A k \in DOMAIN rows :
        \/ k \in DOMAIN collected /\ rows[k] = collected[k]
        \/ k - n \in DOMAIN page.rows /\ rows[k] = page.rows[k - n] /\ k > n
  BY <1>1, <1>2
<1>4. /\ \A k \in DOMAIN collected : k \in DOMAIN rows /\ rows[k] = collected[k]
      /\ \A k \in DOMAIN page.rows : k + n \in DOMAIN rows /\ rows[k + n] = page.rows[k]
  <2>1. ASSUME NEW k \in DOMAIN collected PROVE k \in DOMAIN rows /\ rows[k] = collected[k]
    BY <1>1, <1>2
  <2>2. ASSUME NEW k \in DOMAIN page.rows
        PROVE  k + n \in DOMAIN rows /\ rows[k + n] = page.rows[k]
    <3>1. k + n \in 1..(n + Len(page.rows)) /\ ~(k + n <= n) /\ k + n - n = k
      BY <1>2
    <3> QED BY <1>1, <1>2, <3>1
  <2> QED BY <2>1, <2>2
<1>5. /\ \A k \in DOMAIN collected : collected[k].item \in Nat
      /\ \A k \in DOMAIN page.rows : page.rows[k].item \in Nat
      /\ cursor \in Nat /\ page.next \in Nat
  BY <1>t, PagesTypes
<1>6. ASSUME NEW k \in DOMAIN collected, NEW m \in DOMAIN page.rows
      PROVE  Ahead(read, collected[k].item, page.rows[m].item)
  <2>1. cursor # 0 /\ (collected[k].item = cursor \/ Ahead(read, collected[k].item, cursor))
    BY <1>t DEF UpTo
  <2>2. Ahead(read, cursor, page.rows[m].item)
    BY <1>t, <2>1 DEF After
  <2> QED BY <1>5, <2>1, <2>2, AheadIsAnOrder
<1>7. Falling(read, rows)
  <2> SUFFICES ASSUME NEW k \in DOMAIN rows, NEW m \in DOMAIN rows, k < m
               PROVE  Ahead(read, rows[k].item, rows[m].item)
    BY DEF Falling
  <2>0. k \in Nat /\ m \in Nat
    BY <1>2
  <2>1. CASE k \in DOMAIN collected /\ rows[k] = collected[k]
    <3>1. CASE m \in DOMAIN collected /\ rows[m] = collected[m]
      BY <1>t, <2>1, <3>1 DEF Falling
    <3>2. CASE m - n \in DOMAIN page.rows /\ rows[m] = page.rows[m - n] /\ m > n
      BY <1>6, <2>1, <3>2
    <3> QED BY <1>3, <3>1, <3>2
  <2>2. CASE k - n \in DOMAIN page.rows /\ rows[k] = page.rows[k - n] /\ k > n
    <3>1. m \notin DOMAIN collected
      BY <1>2, <2>0, <2>2
    <3>2. m - n \in DOMAIN page.rows /\ rows[m] = page.rows[m - n]
      BY <1>3, <3>1
    <3>3. k - n < m - n
      BY <1>2, <2>0
    <3> QED BY <1>t, <2>2, <3>2, <3>3 DEF Falling
  <2> QED BY <1>3, <2>1, <2>2
<1>8. Faithful(read, rows, steady)
  BY <1>t, <1>3 DEF Faithful
<1>9. page.rows = <<>> => rows = collected
  BY <1>t, ConcatEmptySeq DEF rows
<1>10. \A i \in Nat : Has(collected, i) \/ Has(page.rows, i) => Has(rows, i)
  BY <1>4 DEF Has
<1>11. ASSUME page.next # 0, page.rows # <<>> PROVE UpTo(read, rows, page.next)
  <2>1. Len(page.rows) # 0
    BY <1>t, <1>11, EmptySeq
  <2>2. 1 \in DOMAIN page.rows
    BY <1>2, <2>1
  <2>3. page.rows[1].item = page.next \/ Ahead(read, page.rows[1].item, page.next)
    BY <1>t, <1>11, <2>2 DEF UpTo
  <2> SUFFICES ASSUME NEW k \in DOMAIN rows
               PROVE  rows[k].item = page.next \/ Ahead(read, rows[k].item, page.next)
    BY <1>11 DEF UpTo
  <2>4. CASE k \in DOMAIN collected /\ rows[k] = collected[k]
    BY <1>5, <1>6, <2>2, <2>3, <2>4, AheadIsAnOrder
  <2>5. CASE k - n \in DOMAIN page.rows /\ rows[k] = page.rows[k - n]
    BY <1>t, <1>11, <2>5 DEF UpTo
  <2> QED BY <1>3, <2>4, <2>5
<1> QED BY <1>1, <1>7, <1>8, <1>9, <1>10, <1>11 DEF rows

\* What is missing after a page is behind its cursor.
LEMMA StillReaches ==
    ASSUME PagesInv, stage = "served", NEW i \in steady, ~Has(collected \o page.rows, i)
    PROVE  page.next # 0 /\ page.rows # <<>> /\ Ahead(read, page.next, i)
<1>1. i \in Nat
  BY PagesTypes DEF PagesInv
<1>2. ~Has(collected, i) /\ ~Has(page.rows, i)
  BY <1>1, Joined
<1> QED BY <1>2 DEF PagesInv, Page, Covers

\* The page is added to the items; with the last one, the read returns.
LEMMA ReceiveStep == ASSUME PagesInv, ReceivePage PROVE PagesInv'
<1> DEFINE rows == collected \o page.rows
<1>t. PagesTypeOK /\ Reading /\ stage = "served"
  BY DEF PagesInv, ReceivePage
<1>1. /\ UNCHANGED <<items, read, steady>> /\ collected' = rows
      /\ cursor' = page.next /\ page' = [rows |-> <<>>, next |-> 0]
      /\ IF LastPage(rows) THEN Returns(rows) ELSE stage' = "asked" /\ UNCHANGED result
  BY DEF ReceivePage, NextCursor, NoPage
<1>2. /\ rows \in Seq(Rows) /\ Falling(read, rows) /\ Faithful(read, rows, steady)
      /\ page.rows = <<>> => rows = collected
      /\ page.next # 0 /\ page.rows # <<>> => UpTo(read, rows, page.next)
  BY <1>t, Joined
<1>3. \A i \in steady : ~Has(rows, i) =>
         page.next # 0 /\ page.rows # <<>> /\ Ahead(read, page.next, i)
  BY <1>t, StillReaches
<1>4. Len(rows) \in Nat /\ \A k \in DOMAIN rows : rows[k].item \in Nat
  <2>1. Len(rows) \in Nat /\ DOMAIN rows = 1..Len(rows) /\ \A k \in 1..Len(rows) : rows[k] \in Rows
    BY <1>2, LenProperties, ElementOfSeq
  <2>2. \A row \in Rows : row.item \in Nat
    BY DEF Rows
  <2> QED BY <2>1, <2>2
<1>5. steady \subseteq Nat /\ page.next \in Nat /\ cursor' \in 0..Len(items)
  BY <1>t, <1>1, PagesTypes DEF PagesTypeOK
<1> HIDE DEF rows
<1>6. page'.rows = <<>> /\ page'.next = 0 /\ <<>> \in Seq(Rows) /\ 0 \in 0..Len(items)
  BY <1>1, <1>t, PagesTypes, EmptySeq
<1>7. CASE LastPage(rows)
  <2>1. Returns(rows)
    BY <1>1, <1>7
  <2>2. ASSUME NEW i \in steady, ~Has(rows, i)
        PROVE  /\ PageLimit(read) # NoLimit /\ Len(rows) >= PageLimit(read)
               /\ \A k \in DOMAIN rows : Ahead(read, rows[k].item, i)
    <3>1. page.next # 0 /\ page.rows # <<>> /\ Ahead(read, page.next, i)
      BY <1>3, <2>2
    <3>2. \A k \in DOMAIN rows : rows[k].item = page.next \/ Ahead(read, rows[k].item, page.next)
      BY <1>2, <3>1 DEF UpTo
    <3>3. \A k \in DOMAIN rows : Ahead(read, rows[k].item, i)
      BY <1>4, <1>5, <3>1, <3>2, AheadIsAnOrder
    <3> QED BY <1>7, <3>1, <3>3 DEF LastPage, Enough
  <2>3. read.kind = "history" => \A i \in steady : Has(rows, i)
    BY <2>2 DEF PageLimit
  <2>4. read.kind # "history" => MissesOnlyBehind(read, rows, steady)
    BY <2>2 DEF PageLimit, MissesOnlyBehind
  <2>5. /\ ItemsInOrder' /\ NoGaps' /\ stage' = "returned"
        /\ result' \in Seq(Rows) /\ (read.limit # NoLimit => Len(result') <= read.limit)
    BY <1>t, <1>1, <1>2, <2>1, <2>3, <2>4, ReturnsSound
  <2>6. PagesTypeOK'
    BY <1>t, <1>1, <1>2, <1>5, <1>6, <2>5 DEF PagesTypeOK, Over
  <2> QED BY <2>5, <2>6 DEF PagesInv, Reading, Page
<1>8. CASE ~LastPage(rows)
  <2>1. stage' = "asked" /\ UNCHANGED result /\ page.next # 0 /\ page.rows # <<>>
    BY <1>1, <1>8 DEF LastPage
  <2>2. PagesTypeOK'
    BY <1>t, <1>1, <1>2, <1>5, <1>6, <2>1 DEF PagesTypeOK
  <2>3. Reaches(read, rows, page.next, steady)
    BY <1>3 DEF Reaches
  <2>4. \A i \in steady : Belongs(read, items[i])
    BY <1>t DEF Reading
  <2>5. Reading'
    BY <1>1, <1>2, <2>1, <2>3, <2>4 DEF Reading
  <2> QED BY <2>1, <2>2, <2>5 DEF PagesInv, Page, ItemsInOrder, NoGaps
<1> QED BY <1>7, <1>8

\* A request that fails, and an order that is placed.
LEMMA FailStep == ASSUME PagesInv, PageFails PROVE PagesInv'
<1>1. /\ UNCHANGED <<items, read, cursor, collected, result, steady>>
      /\ stage' = "failed" /\ page' = [rows |-> <<>>, next |-> 0]
  BY DEF PageFails, NoPage
<1>2. page'.rows = <<>> /\ page'.next = 0 /\ <<>> \in Seq(Rows) /\ 0 \in 0..Len(items)
  BY <1>1, PagesTypes, EmptySeq DEF PagesInv
<1>3. PagesTypeOK'
  BY <1>1, <1>2 DEF PagesInv, PagesTypeOK, Over
<1> QED BY <1>1, <1>3 DEF PagesInv, Reading, Page, ItemsInOrder, NoGaps

\* The list grows: what there was is where it was.
LEMMA MakeStep == ASSUME PagesInv, Make PROVE PagesInv'
<1>t. PagesTypeOK
  BY DEF PagesInv
<1>1. PICK s \in States : items' = Append(items, s)
  BY DEF Make
<1>2. /\ UNCHANGED <<read, stage, cursor, collected, page, result, steady>>
      /\ Len(items) < MaxItems
  BY DEF Make
<1>3. /\ items' \in Seq(States) /\ Len(items') = Len(items) + 1
      /\ \A i \in 1..Len(items) : items'[i] = items[i]
  BY <1>t, <1>1, PagesTypes, AppendProperties
<1>4. Len(items) \in Nat /\ DOMAIN items = 1..Len(items) /\ DOMAIN items' = 1..(Len(items) + 1)
  BY <1>t, <1>3, PagesTypes, LenProperties
<1>5. /\ items' \in BoundedSeq(States, MaxItems)
      /\ DOMAIN items \subseteq DOMAIN items' /\ 0..Len(items) \subseteq 0..Len(items')
      /\ \A i \in DOMAIN items : items'[i] = items[i]
  <2>1. Len(items') <= MaxItems
    BY <1>2, <1>3, <1>4, PagesAssumption
  <2> QED BY <1>3, <1>4, <2>1, BoundedSeqs, PagesAssumption
<1>6. PagesTypeOK'
  BY <1>t, <1>2, <1>5 DEF PagesTypeOK
<1>7. Reading'
  <2>1. \A i \in steady : items'[i] = items[i]
    BY <1>t, <1>5 DEF PagesTypeOK
  <2> QED BY <1>2, <2>1 DEF PagesInv, Reading
<1> QED BY <1>2, <1>6, <1>7 DEF PagesInv, Page, ItemsInOrder, NoGaps, Returned

\* An order ends: if the list is without it now, it did not belong to it throughout.
LEMMA EndStep == ASSUME PagesInv, NEW i \in DOMAIN items, End(i) PROVE PagesInv'
<1>t. PagesTypeOK
  BY DEF PagesInv
<1>1. /\ items' = [items EXCEPT ![i] = "closed"]
      /\ steady' = IF stage \in Over \/ Belongs(read, "closed") THEN steady ELSE steady \ {i}
      /\ UNCHANGED <<read, stage, cursor, collected, page, result>>
  BY DEF End
<1>2. /\ items' \in Seq(States) /\ Len(items') = Len(items) /\ DOMAIN items' = DOMAIN items
      /\ \A j \in DOMAIN items : items'[j] = IF j = i THEN "closed" ELSE items[j]
  <2>1. items \in Seq(States) /\ "closed" \in States /\ i \in 1..Len(items)
    BY <1>t, PagesTypes DEF States
  <2> QED BY <1>1, <2>1, ExceptSeq
<1>3. steady' \subseteq steady
  BY <1>1
<1>4. PagesTypeOK'
  <2>1. items' \in BoundedSeq(States, MaxItems)
    BY <1>t, <1>2, PagesTypes, BoundedSeqs, PagesAssumption
  <2> QED BY <1>t, <1>1, <1>2, <1>3, <2>1 DEF PagesTypeOK
<1>5. Reading'
  <2> SUFFICES ASSUME stage \in {"asked", "served"} PROVE Reading'
    BY <1>1 DEF Reading
  <2>1. \A j \in steady' : Belongs(read, items'[j])
    <3> SUFFICES ASSUME NEW j \in steady' PROVE Belongs(read, items'[j])
      OBVIOUS
    <3>1. j \in steady /\ j \in DOMAIN items /\ Belongs(read, items[j])
      BY <1>t, <1>3 DEF PagesTypeOK, PagesInv, Reading
    <3>2. j = i => Belongs(read, "closed")
      BY <1>1, <3>1 DEF Over
    <3> QED BY <1>2, <3>1, <3>2
  <2> QED BY <1>1, <1>3, <2>1 DEF PagesInv, Reading, Faithful, Reaches
<1>6. Page'
  BY <1>1, <1>3 DEF PagesInv, Page, Faithful, Covers
<1>7. ItemsInOrder' /\ NoGaps'
  BY <1>1, <1>3 DEF PagesInv, ItemsInOrder, NoGaps, Returned
<1> QED BY <1>4, <1>5, <1>6, <1>7 DEF PagesInv

\* Every step keeps the invariant.
LEMMA PagesInvStep == PagesInv /\ [PagesNext]_pageVars => PagesInv'
<1> SUFFICES ASSUME PagesInv, [PagesNext]_pageVars PROVE PagesInv'
  OBVIOUS
<1>1. CASE Collect \/ ServePage \/ ReceivePage \/ PageFails \/ Make
  BY <1>1, CollectStep, ServeStep, ReceiveStep, FailStep, MakeStep
<1>2. CASE \E i \in DOMAIN items : End(i)
  BY <1>2, EndStep
<1>3. CASE UNCHANGED pageVars
  BY <1>3 DEF pageVars, PagesInv, PagesTypeOK, Reading, Page, ItemsInOrder, NoGaps, Returned
<1> QED BY <1>1, <1>2, <1>3 DEF PagesNext

(* Every variable keeps its type, and no more is returned than was asked for. *)
THEOREM PagesTypeCorrect == PagesSpec => []PagesTypeOK
<1>1. PagesInv => PagesTypeOK
  BY DEF PagesInv
<1> QED BY <1>1, PagesInvInit, PagesInvStep, PTL DEF PagesSpec

(* A returned list is in order and names no item twice.                      *)
THEOREM ReturnedInOrder == PagesSpec => []ItemsInOrder
<1>1. PagesInv => ItemsInOrder
  BY DEF PagesInv
<1> QED BY <1>1, PagesInvInit, PagesInvStep, PTL DEF PagesSpec

(* A returned list misses none of the items that belonged to it throughout   *)
(* the read, but those behind a limit that it reached.                       *)
THEOREM NothingIsSkipped == PagesSpec => []NoGaps
<1>1. PagesInv => NoGaps
  BY DEF PagesInv
<1> QED BY <1>1, PagesInvInit, PagesInvStep, PTL DEF PagesSpec

-----------------------------------------------------------------------------
(* Pages: progress.                                                          *)

\* A read that goes on asks for what is behind all it has asked for before.
Advances ==
    ReceivePage /\ stage' = "asked" => cursor' # 0 /\ (cursor = 0 \/ Ahead(read, cursor, cursor'))

\* A page that does not end the read has rows, and its cursor is at or behind the last.
LEMMA GoesOn == ASSUME PagesInv, ReceivePage, stage' = "asked" PROVE Advances
<1>1. /\ stage = "served" /\ cursor' = page.next
      /\ ~LastPage(collected \o page.rows)
  BY DEF ReceivePage, NextCursor, Returns
<1>2. page.next # 0 /\ page.rows # <<>>
  BY <1>1 DEF LastPage
<1>3. 1 \in DOMAIN page.rows /\ page.rows[1].item \in Nat /\ cursor \in Nat /\ page.next \in Nat
  <2>1. page.rows \in Seq(Rows) /\ PagesTypeOK
    BY DEF PagesInv, PagesTypeOK
  <2>2. Len(page.rows) # 0
    BY <1>2, <2>1, EmptySeq
  <2> QED BY <2>1, <2>2, PagesTypes
<1>4. /\ page.rows[1].item = page.next \/ Ahead(read, page.rows[1].item, page.next)
      /\ cursor # 0 => Ahead(read, cursor, page.rows[1].item)
  BY <1>1, <1>2, <1>3 DEF PagesInv, Page, UpTo, After
<1>5. cursor = 0 \/ Ahead(read, cursor, page.next)
  BY <1>3, <1>4, AheadIsAnOrder
<1> QED BY <1>1, <1>2, <1>5 DEF Advances

(* collect_pages never asks twice from one place: each cursor is behind the  *)
(* one before.  Newest first it therefore asks at most once for each item    *)
(* that there was when its first page was made, and once at the beginning,   *)
(* whatever is made meanwhile.                                               *)
THEOREM CursorAdvances == PagesSpec => [][Advances]_pageVars
<1>1. PagesInv /\ [PagesNext]_pageVars => [Advances]_pageVars
  BY GoesOn DEF Advances
<1> QED BY <1>1, PagesInvInit, PagesInvStep, PTL DEF PagesSpec
=============================================================================
