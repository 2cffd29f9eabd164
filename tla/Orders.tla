------------------------------ MODULE Orders -------------------------------
(* Order operations (src/umbra/orders.py) of several coroutines on one       *)
(* account: place, cancel, cancel by client id, cancel all, and modify,      *)
(* which is a read, a cancel and a place.  The venue is external: it fills,  *)
(* accepts, rejects and cancels.  A request behaves as RemoteCall promises:  *)
(* answered, refused without effect, or lost with an effect that may still   *)
(* come.                                                                     *)
EXTENDS Naturals, Sequences, FiniteSetsExt

CONSTANTS
    Apps,       \* coroutines, each with one operation
    Keys,       \* client order ids
    NoKey,      \* no client order id given
    MaxOrders   \* the venue accepts no more orders than this

ASSUME OrdersAssumption == MaxOrders \in Nat \ {0} /\ NoKey \notin Keys \cup Apps

VARIABLES
    book,       \* the venue's orders, an order's id is its index
    call,       \* what each coroutine asked for
    pc,         \* the await it is in, or how it ended
    cur,        \* the order its current cancel request names
    reply,      \* the answer under way: an order id, or 0 for a rejection
    seen,       \* modify: post_only in the Order that get_order returned
    listed,     \* cancel_all: the open orders it read
    todo,       \* cancel_all: those it has not tried yet
    got,        \* cancel_all: those it reports as canceled
    late,       \* the lost request of a coroutine that the venue may still get
    coidToOid,  \* Orders._coid_to_oid
    oidToCoid   \* Orders._oid_to_coid

vars == <<book, call, pc, cur, reply, seen, listed, todo, got, late, coidToOid, oidToCoid>>

NoOrder == 0
Ids == 1..MaxOrders
Open == {"OPEN", "PARTIALLY_FILLED"}
Terminal == {"FILLED", "CANCELED"}
\* The ends that do not tell whether the venue acted: no answer, or a 5xx in its place.
Untold == {"NetworkError", "APIError"}
Ends == {"ok", "OrderRejectedError", "ConfigurationError", "ValueError", "NotFoundError"}
            \cup Untold
Ops == {"place", "cancel", "cancel_by_client_id", "cancel_all", "modify"}

\* post: post_only, which modify may leave as it is; valid: whether the side, type, tif,
\* price and size given pass place_order's checks.
Args == [op : Ops, target : Ids \cup {NoOrder}, key : Keys \cup {NoKey},
         post : {"yes", "no", "keep"}, valid : BOOLEAN]
NoArgs == [op |-> "none"]

\* An order was placed earlier through this client, so that its key is tracked.
Init ==
    /\ \E post \in {"yes", "no"}, key \in Keys :
         /\ book = <<[status |-> "OPEN", post |-> post, key |-> key, maker |-> NoKey,
                      canceler |-> NoKey]>>
         /\ coidToOid = [k \in Keys |-> IF k = key THEN 1 ELSE NoOrder]
         /\ oidToCoid = [o \in Ids |-> IF o = 1 THEN key ELSE NoKey]
    /\ call = [a \in Apps |-> NoArgs]
    /\ pc = [a \in Apps |-> "idle"]
    /\ cur = [a \in Apps |-> NoOrder]
    /\ reply = [a \in Apps |-> NoOrder]
    /\ seen = [a \in Apps |-> "no"]
    /\ listed = [a \in Apps |-> {}]
    /\ todo = [a \in Apps |-> {}]
    /\ got = [a \in Apps |-> {}]
    /\ late = [a \in Apps |-> "none"]

Goes(a, s) == pc' = [pc EXCEPT ![a] = s]
OpenIds == {o \in DOMAIN book : book[o].status \in Open}

index == <<coidToOid, oidToCoid>>
scratch == <<listed, todo, got>>

-----------------------------------------------------------------------------
(* The operations.                                                           *)

\* The first await of each: resolving the market, the account id, a read.
Start(a) ==
    /\ pc[a] = "idle"
    /\ \E args \in Args :
         /\ args.target \in (IF args.op \in {"cancel", "modify"} THEN DOMAIN book ELSE {NoOrder})
         /\ args.op = "cancel_by_client_id" => args.key # NoKey
         /\ args.op \in {"cancel", "cancel_all"} => args.key = NoKey
         /\ args.op = "place" => args.post # "keep"
         /\ args.op \notin {"place", "modify"} => args.post = "keep" /\ args.valid
         /\ call' = [call EXCEPT ![a] = args]
         /\ cur' = [cur EXCEPT ![a] = args.target]
         /\ Goes(a, CASE args.op = "place" -> "resolve"
                      [] args.op = "cancel" -> "account"
                      [] args.op = "cancel_by_client_id" -> "lookup"
                      [] args.op = "cancel_all" -> "list"
                      [] args.op = "modify" -> "read")
    /\ UNCHANGED <<book, reply, seen, scratch, late, index>>

\* An await before any request that changes something fails: the market or the
\* order is unknown, the login or the read failed.
FailsEarly(a) ==
    /\ pc[a] \in {"resolve", "account", "lookup", "list", "read"}
    /\ \E e \in {"NotFoundError", "NetworkError", "APIError"} : Goes(a, e)
    /\ UNCHANGED <<book, call, cur, reply, seen, scratch, late, index>>

\* cancel_order_by_client_id, after the account id is known.
LookupUnchecked(a) ==
    /\ pc[a] = "lookup"
    /\ Goes(a, "account")
    /\ cur' = [cur EXCEPT ![a] = coidToOid[call[a].key]]
    /\ UNCHANGED <<book, call, reply, seen, scratch, late, index>>

Lookup(a) ==
    /\ pc[a] = "lookup"
    /\ LET o == coidToOid[call[a].key] IN
       IF o = NoOrder
         THEN Goes(a, "NotFoundError") /\ UNCHANGED cur
         ELSE Goes(a, "account") /\ cur' = [cur EXCEPT ![a] = o]
    /\ UNCHANGED <<book, call, reply, seen, scratch, late, index>>

\* cancel_all: the open orders; the loop starts with the first of them.
List(a) ==
    /\ pc[a] = "list"
    /\ listed' = [listed EXCEPT ![a] = OpenIds]
    /\ todo' = [todo EXCEPT ![a] = OpenIds]
    /\ IF OpenIds = {}
         THEN Goes(a, "ok") /\ UNCHANGED cur
         ELSE Goes(a, "account") /\ cur' = [cur EXCEPT ![a] = Min(OpenIds)]
    /\ UNCHANGED <<book, call, reply, seen, got, late, index>>

\* Order.from_api on the venue's record: post_only is not read from it and has its
\* default.
PostFromApi(o) == "no"

\* modify: get_order.
Read(a) ==
    /\ pc[a] = "read"
    /\ seen' = [seen EXCEPT ![a] = PostFromApi(call[a].target)]
    /\ Goes(a, "account")
    /\ UNCHANGED <<book, call, cur, reply, scratch, late, index>>

\* cancel_order posts its request once the account id is known.
PostCancel(a) ==
    /\ pc[a] = "account"
    /\ Goes(a, "cancel")
    /\ UNCHANGED <<book, call, cur, reply, seen, scratch, late, index>>

\* place_order checks its arguments after the market is resolved: the side, type and tif
\* (ValueError), then the price and the size.
PostPlace(a) ==
    /\ pc[a] = "resolve"
    /\ IF call[a].valid
         THEN Goes(a, "place")
         ELSE \E e \in {"ValueError", "ConfigurationError"} : Goes(a, e)
    /\ UNCHANGED <<book, call, cur, reply, seen, scratch, late, index>>

-----------------------------------------------------------------------------
(* The venue.                                                                *)

Fill ==
    /\ \E o \in OpenIds, s \in {"PARTIALLY_FILLED", "FILLED"} :
         /\ book[o].status # s
         /\ book' = [book EXCEPT ![o].status = s]
    /\ UNCHANGED <<call, pc, cur, reply, seen, scratch, late, index>>

CancelInBook(a) ==
    IF cur[a] \in OpenIds
      THEN book' = [book EXCEPT ![cur[a]].status = "CANCELED", ![cur[a]].canceler = a]
      ELSE UNCHANGED book

CancelAtVenue(a) ==
    /\ pc[a] = "cancel"
    /\ CancelInBook(a)
    /\ reply' = [reply EXCEPT ![a] = IF cur[a] \in OpenIds THEN cur[a] ELSE NoOrder]
    /\ Goes(a, "canceled")
    /\ UNCHANGED <<call, cur, seen, scratch, late, index>>

\* What place_order sends: modify fills in what its caller left out, but takes the
\* client order id from its caller only.
PostOf(a) == IF call[a].post = "keep" THEN seen[a] ELSE call[a].post
KeyOf(a) == call[a].key

Placed(a) == [status |-> "OPEN", post |-> PostOf(a), key |-> KeyOf(a), maker |-> a,
              canceler |-> NoKey]
SameKey(a) == {o \in DOMAIN book : KeyOf(a) # NoKey /\ book[o].key = KeyOf(a)}

\* A key that was used names the order it was used for.
PlaceAtVenue(a) ==
    /\ pc[a] = "place"
    /\ \/ /\ SameKey(a) # {}
          /\ reply' = [reply EXCEPT ![a] = Min(SameKey(a))]
          /\ UNCHANGED book
       \/ /\ SameKey(a) = {} /\ Len(book) < MaxOrders
          /\ book' = Append(book, Placed(a))
          /\ reply' = [reply EXCEPT ![a] = Len(book) + 1]
       \/ /\ SameKey(a) = {}
          /\ reply' = [reply EXCEPT ![a] = NoOrder]
          /\ UNCHANGED book
    /\ Goes(a, "placed")
    /\ UNCHANGED <<call, cur, seen, scratch, late, index>>

\* The request of a call that was not told what became of it arrives after all.
Arrives(a) ==
    /\ late[a] # "none"
    /\ late' = [late EXCEPT ![a] = "none"]
    /\ IF late[a] = "cancel"
         THEN CancelInBook(a)
         ELSE IF SameKey(a) = {} /\ Len(book) < MaxOrders
                THEN book' = Append(book, Placed(a))
                ELSE UNCHANGED book
    /\ UNCHANGED <<call, pc, cur, reply, seen, scratch, index>>

\* The request fails.  Refused: the answer is an error and the venue does not act.
Refused(a) ==
    /\ pc[a] \in {"cancel", "place"}
    /\ Goes(a, "APIError")
    /\ UNCHANGED <<book, call, cur, reply, seen, scratch, late, index>>

\* Lost: the caller gets no answer, or a 5xx from a gateway (_http.py:163-168), although
\* the venue has acted or may still get the request.
Lost(a) ==
    /\ pc[a] \in {"cancel", "place", "canceled", "placed"}
    /\ \E e \in Untold : Goes(a, e)
    /\ late' = IF pc[a] \in {"cancel", "place"} THEN [late EXCEPT ![a] = pc[a]] ELSE late
    /\ UNCHANGED <<book, call, cur, reply, seen, scratch, index>>

-----------------------------------------------------------------------------
(* The answers.                                                              *)

\* cancel_all goes on with the next order, whether this one was canceled or had
\* become terminal before.
NextCancel(a) ==
    LET rest == todo[a] \ {cur[a]} IN
    /\ todo' = [todo EXCEPT ![a] = rest]
    /\ IF rest = {}
         THEN Goes(a, "ok") /\ UNCHANGED cur
         ELSE Goes(a, "account") /\ cur' = [cur EXCEPT ![a] = Min(rest)]

ReplaceAnyway(a) == "resolve"
AfterCancel(a) == IF reply[a] = NoOrder THEN "OrderRejectedError" ELSE "resolve"

CountRejected(a) == got' = [got EXCEPT ![a] = @ \cup {cur[a]}]
Count(a) == got' = [got EXCEPT ![a] = IF reply[a] = NoOrder THEN @ ELSE @ \cup {cur[a]}]

CancelAnswered(a) ==
    /\ pc[a] = "canceled"
    /\ \/ /\ call[a].op \in {"cancel", "cancel_by_client_id"}
          /\ Goes(a, IF reply[a] = NoOrder THEN "OrderRejectedError" ELSE "ok")
          /\ UNCHANGED <<cur, todo, got>>
       \/ /\ call[a].op = "cancel_all"
          /\ Count(a)
          /\ NextCancel(a)
       \/ /\ call[a].op = "modify"
          /\ Goes(a, AfterCancel(a))
          /\ UNCHANGED <<cur, todo, got>>
    /\ UNCHANGED <<book, call, reply, seen, listed, late, index>>

\* _remember, when the order was accepted and has a client order id.
RememberFirst(a) ==
    /\ coidToOid' = [coidToOid EXCEPT ![KeyOf(a)] = Len(book)]
    /\ oidToCoid' = [oidToCoid EXCEPT ![Len(book)] = KeyOf(a)]
Remember(a) ==
    /\ coidToOid' = [coidToOid EXCEPT ![KeyOf(a)] = reply[a]]
    /\ oidToCoid' = [oidToCoid EXCEPT ![reply[a]] = KeyOf(a)]

PlaceAnswered(a) ==
    /\ pc[a] = "placed"
    /\ IF reply[a] = NoOrder
         THEN Goes(a, "OrderRejectedError") /\ UNCHANGED index
         ELSE /\ Goes(a, "ok")
              /\ IF KeyOf(a) = NoKey THEN UNCHANGED index ELSE Remember(a)
    /\ UNCHANGED <<book, call, cur, reply, seen, scratch, late>>

Finished == (\A a \in Apps : pc[a] \in Ends) /\ UNCHANGED vars

Next ==
    \/ \E a \in Apps :
         \/ Start(a) \/ FailsEarly(a) \/ Lookup(a) \/ List(a) \/ Read(a)
         \/ PostCancel(a) \/ PostPlace(a) \/ CancelAtVenue(a) \/ PlaceAtVenue(a)
         \/ Arrives(a) \/ Refused(a) \/ Lost(a) \/ CancelAnswered(a) \/ PlaceAnswered(a)
    \/ Fill
    \/ Finished

Spec == Init /\ [][Next]_vars

-----------------------------------------------------------------------------
Order == [status : Open \cup Terminal, post : {"yes", "no"}, key : Keys \cup {NoKey},
          maker : Apps \cup {NoKey}, canceler : Apps \cup {NoKey}]

TypeOK ==
    /\ book \in Seq(Order) /\ Len(book) <= MaxOrders
    /\ pc \in [Apps -> {"idle", "resolve", "account", "lookup", "list", "read", "cancel",
                       "canceled", "place", "placed"} \cup Ends]
    /\ call \in [Apps -> Args \cup {NoArgs}]
    /\ cur \in [Apps -> Ids \cup {NoOrder}]
    /\ \A a \in Apps : pc[a] \in {"account", "cancel", "canceled"} => cur[a] \in DOMAIN book
    /\ reply \in [Apps -> Ids \cup {NoOrder}]
    /\ seen \in [Apps -> {"yes", "no"}]
    /\ listed \in [Apps -> SUBSET Ids]
    /\ todo \in [Apps -> SUBSET Ids] /\ got \in [Apps -> SUBSET Ids]
    /\ \A a \in Apps : todo[a] \cup got[a] \subseteq listed[a] /\ listed[a] \subseteq DOMAIN book
    /\ late \in [Apps -> {"none", "cancel", "place"}]
    /\ coidToOid \in [Keys -> Ids \cup {NoOrder}]
    /\ oidToCoid \in [Ids -> Keys \cup {NoKey}]

(* orders.py:331: if the cancel fails, the rejection propagates and no new   *)
(* order is placed: a replacement exists, or comes, only for an order that   *)
(* this modify itself canceled, whatever fills, other cancels and lost       *)
(* answers come between its read, its cancel and its place.  So the original *)
(* and its replacement are never both open.                                  *)
ReplacesOwnCancel ==
    \A a \in Apps :
        /\ call[a].op = "modify"
        /\ late[a] = "place" \/ \E o \in DOMAIN book : book[o].maker = a
        => book[call[a].target].canceler = a

(* orders.py:305-315: when cancel_all returns, every order it read as open   *)
(* has ended, and what it reports are exactly those that its own requests    *)
(* canceled: two concurrent calls never both report an order.  At any time,  *)
(* and so when it raises, it has canceled at most one order more than those  *)
(* it counted, the one whose request is or was under way.                    *)
CancelAllReport ==
    \A a \in Apps :
        /\ call[a].op = "cancel_all" /\ pc[a] = "ok"
            => /\ \A o \in listed[a] : book[o].status \in Terminal
               /\ got[a] = {o \in listed[a] : book[o].canceler = a}
        /\ call[a].op = "cancel_all"
            => \A o \in DOMAIN book : book[o].canceler = a => o \in got[a] \cup {cur[a]}

(* The two dicts agree with each other and with the venue: a tracked client  *)
(* order id names an order that was placed with it, and the order that a     *)
(* call returned for its id stays the one that the id cancels, whatever is   *)
(* placed under it later.  An order whose id is not tracked was made by a    *)
(* call that is still under way, got no answer, or got an error status that  *)
(* a gateway may send after the venue acted (APIError): no other end of a    *)
(* placement hides an order from cancel_order_by_client_id.                  *)
IndexSound ==
    /\ \A k \in Keys : coidToOid[k] # NoOrder
         => /\ coidToOid[k] \in DOMAIN book
            /\ book[coidToOid[k]].key = k
            /\ oidToCoid[coidToOid[k]] = k
    /\ \A o \in Ids : oidToCoid[o] # NoKey => coidToOid[oidToCoid[o]] = o
    /\ \A a \in Apps :
         call[a].op \in {"place", "modify"} /\ pc[a] = "ok" /\ KeyOf(a) # NoKey
            => coidToOid[KeyOf(a)] = reply[a]
    /\ \A o \in DOMAIN book : book[o].key # NoKey /\ coidToOid[book[o].key] = NoOrder
            => pc[book[o].maker] \in {"placed"} \cup Untold

(* docs/orders.md:75: the replacement carries "the original parameters with  *)
(* your overrides applied".                                                  *)
ReplacementKeepsPostOnly ==
    \A o \in DOMAIN book, a \in Apps :
        book[o].maker = a /\ call[a].op = "modify" /\ call[a].post = "keep"
            => book[o].post = book[call[a].target].post
=============================================================================
