----------------------------- MODULE OrderEntry -----------------------------
(* What an order says on its way from the caller's words to the venue and    *)
(* back: the checks and the body of place_order and validate_order           *)
(* (src/umbra/orders.py), the Order built from an answer (models/order.py),  *)
(* and modify_order, which places again what it read.  One coroutine calls   *)
(* one operation after another while the venue fills its orders; Orders      *)
(* treats several coroutines, without quantities.                            *)
EXTENDS Naturals, SequencesExt

CONSTANTS
    Words,      \* what callers ask place_order for, see AllWords
    Records,    \* the fields that a record of the venue may carry, see Fields
    Changes,    \* what callers ask modify_order for, see AllChanges
    MarketIds,  \* market ids, as the sequence of their parts between hyphens
    BadIds,     \* order ids that no market can be inferred from, in parts
    Numerals,   \* spellings of an order's number in its market
    MaxSize,    \* bound: no larger size is asked for
    MaxOrders   \* bound: the venue has accepted all it will

Sides == {"BUY_YES", "SELL_YES", "BUY_NO", "SELL_NO"}
NoSide == "ValueError"

VARIABLES
    book,       \* the venue's orders; meant, blind and from are history
    pc,         \* the request under way, or idle
    op,         \* the operation it belongs to
    asked,      \* its arguments
    target,     \* the order that get_order, cancel_order and modify_order name
    existing,   \* modify: the Order it read
    sent,       \* the body of the last request for an order
    reply,      \* the answer under way
    view,       \* the last Order that an operation returned
    res         \* how the last operation ended

vars == <<book, pc, op, asked, target, existing, sent, reply, view, res>>

None == [none |-> TRUE]
NoText == "none"
Blank == ""

-----------------------------------------------------------------------------
(* The caller's words (types/enums.py, utils/money.py).                      *)

Buy == {"BUY", "B", "BID", "LONG"}
Sell == {"SELL", "S", "ASK", "SHORT"}
Yes == {"YES", "Y", "1", "TRUE"}
No == {"NO", "N", "0", "FALSE"}

\* str() of Outcome.YES and of Outcome.NO, in upper case.
YesMember == "OUTCOME.YES"
NoMember == "OUTCOME.NO"

SideTable(action, outcome) ==
    CASE action = "BUY" /\ outcome = "YES" -> "BUY_YES"
      [] action = "SELL" /\ outcome = "YES" -> "SELL_YES"
      [] action = "BUY" /\ outcome = "NO" -> "BUY_NO"
      [] action = "SELL" /\ outcome = "NO" -> "SELL_NO"

\* resolve_side: an explicit side stands, whatever outcome comes with it; an action
\* without an outcome is about YES.
ResolveSide(raw, outcome) ==
    LET out == IF outcome = NoText THEN "YES" ELSE outcome IN
    IF raw \in Sides THEN raw
    ELSE IF raw \notin Buy \cup Sell \/ out \notin Yes \cup No THEN NoSide
    ELSE SideTable(IF raw \in Buy THEN "BUY" ELSE "SELL", IF out \in Yes THEN "YES" ELSE "NO")

\* What Order.action and Order.outcome make of a side.
Action(side) == IF side \in {"BUY_YES", "BUY_NO"} THEN "BUY" ELSE "SELL"
Outcome(side) == IF side \in {"BUY_NO", "SELL_NO"} THEN "NO" ELSE "YES"

\* The sides that the caller's words mean (enums.py:112-126): an explicit side, or those
\* with the action and the outcome named, the outcome being YES if there is none.
SideWords(side) == IF Action(side) = "BUY" THEN Buy ELSE Sell
OutcomeWords(side) ==
    IF Outcome(side) = "NO" THEN No \cup {NoMember} ELSE Yes \cup {YesMember, NoText}
Meant(a) ==
    IF a.side \in Sides THEN {a.side}
    ELSE {s \in Sides : a.side \in SideWords(s) /\ a.outcome \in OutcomeWords(s)}

\* An action with a member of the enum Outcome, which the docstring gives as an example.
ByMember(a) == a.side \in Buy \cup Sell /\ a.outcome \in {YesMember, NoMember}

OrderTypes == {"LIMIT", "MARKET"}
TimesInForce == {"GTC", "IOC", "FOK"}

\* to_optional_decimal: text that is no number counts as no price.
Prices == {"number", "nonsense", NoText}
Decimal(price) == IF price = "nonsense" THEN NoText ELSE price

-----------------------------------------------------------------------------
(* Order ids, ord-{market_id}-{number}.                                      *)

OrderId(market, n) == <<"ord">> \o market \o <<Numerals[n]>>

NoMarket == <<>>
Unnamed(market) == market \in {<<>>, <<Blank>>}

FirstHyphen(id) ==
    IF Len(id) < 2 \/ Head(id) # "ord" THEN NoMarket ELSE <<id[2]>>

\* market_id_from_order_id: what is before the last hyphen, as a market id may have
\* hyphens itself.
MarketIdFromOrderId(id) ==
    IF Len(id) < 2 \/ Head(id) # "ord" THEN NoMarket
    ELSE LET market == Front(Tail(id)) IN
         IF Unnamed(market) \/ Last(id) = Blank THEN NoMarket ELSE market

IdOf(o) == OrderId(book[o].market, book[o].number)
Ids == {IdOf(o) : o \in DOMAIN book} \cup BadIds
InMarket(market) == {o \in DOMAIN book : book[o].market = market}
Named(market, id) == {o \in DOMAIN book : book[o].market = market /\ IdOf(o) = id}

-----------------------------------------------------------------------------
(* What place_order and validate_order send.                                 *)

Sizes == 0..MaxSize
Unknown == "unknown"
Results == {"ok", "ValueError", "ConfigurationError", "NotFoundError", "OrderRejectedError",
            "APIError", "NetworkError"}

\* The arguments of place_order, words in upper case.
AllWords == [market : MarketIds, side : Buy \cup Sell \cup Sides \cup {Unknown},
             outcome : Yes \cup No \cup {YesMember, NoMember, NoText, Unknown}, size : Sizes,
             price : Prices, type : OrderTypes \cup {Unknown}, tif : TimesInForce \cup {Unknown}]

\* The wrappers: place_limit_order is place_order with type LIMIT; place_market_order has
\* type MARKET, no price, and IOC unless told otherwise.
Market(a) == [a EXCEPT !.type = "MARKET", !.price = NoText, !.tif = "IOC"]

\* The conversions, in their order; each raises ValueError.
Unreadable(a) ==
    \/ ResolveSide(a.side, a.outcome) = NoSide
    \/ a.type \notin OrderTypes
    \/ a.tif \notin TimesInForce

NoSizeCheck(a) ==
    \/ a.type = "LIMIT" /\ Decimal(a.price) = NoText
    \/ a.type = "MARKET" /\ Decimal(a.price) # NoText

\* place_order's own checks; each raises ConfigurationError.
Malformed(a) ==
    \/ a.type = "LIMIT" /\ Decimal(a.price) = NoText
    \/ a.type = "MARKET" /\ Decimal(a.price) # NoText
    \/ a.size <= 0

Check(a) ==
    IF Unreadable(a) THEN "ValueError"
    ELSE IF Malformed(a) THEN "ConfigurationError" ELSE "ok"

Body(a) == [market |-> a.market, side |-> ResolveSide(a.side, a.outcome), type |-> a.type,
            size |-> a.size, tif |-> a.tif, price |-> Decimal(a.price)]

-----------------------------------------------------------------------------
(* Orders as the application sees them.                                      *)

Open == {"OPEN", "PARTIALLY_FILLED", "NEW"}
Terminal == {"FILLED", "CANCELED", "REJECTED"}

\* The fields of the venue's record that an Order is made from.
Quantities == {"quantity", "filled_quantity"}
Fields == Quantities \cup {"remaining_quantity", "side", "order_type", "tif", "limit_price"}

Total(fills) == FoldSeq(LAMBDA q, sum : q + sum, 0, fills)
Rest(size, filled) == IF filled > size THEN 0 ELSE size - filled

\* Order.from_submit: the answer has no side, price or size, the request had them.
Submitted(body, answer, filled) ==
    [oid |-> answer.order_id, status |-> answer.status, side |-> body.side, type |-> body.type,
     tif |-> body.tif, price |-> body.price, size |-> body.size, filled |-> filled,
     remaining |-> Rest(body.size, filled), told |-> Fields]
LastFillOnly(body, answer) ==
    Submitted(body, answer, IF answer.fills = <<>> THEN 0 ELSE Last(answer.fills))
FromSubmit(body, answer) == Submitted(body, answer, Total(answer.fills))

\* Order.from_api on the venue's record of o with the fields told: an absent one has its
\* default, which is no side at all for the side.
FromApi(o, told, remaining) ==
    LET row == book[o]
        size == IF "quantity" \in told THEN row.size ELSE 0
        filled == IF "filled_quantity" \in told THEN row.filled ELSE 0
    IN [oid |-> o, status |-> row.status,
        side |-> IF "side" \in told THEN row.side ELSE NoText,
        type |-> IF "order_type" \in told THEN row.type ELSE "LIMIT",
        tif |-> IF "tif" \in told THEN row.tif ELSE "GTC",
        price |-> IF "limit_price" \in told THEN row.price ELSE NoText,
        size |-> size, filled |-> filled,
        remaining |-> IF "remaining_quantity" \in told THEN remaining ELSE Rest(size, filled),
        told |-> told]

\* The remaining quantity of a record; a closed order may have none left.
Remaining(o) ==
    {book[o].size - book[o].filled} \cup (IF book[o].status \in Terminal THEN {0} ELSE {})

\* The Order that cancel_order makes: the answer tells the id, the market and the status.
FromCancel(o) ==
    [oid |-> o, status |-> "CANCELED", side |-> NoText, type |-> "LIMIT", tif |-> "GTC",
     price |-> NoText, size |-> 0, filled |-> 0, remaining |-> 0, told |-> {}]

\* modify_order's overrides, <<>> for one that is not given.
AllChanges == [size : SeqOf(Sizes, 1), price : SeqOf(Prices, 1),
               tif : SeqOf(TimesInForce \cup {Unknown}, 1)]

ASSUME OrderEntryAssumption ==
    /\ MaxSize \in Nat \ {0} /\ MaxOrders \in Nat
    /\ MarketIds \subseteq Seq(STRING) \ {<<>>, <<Blank>>}
    /\ Numerals \in Seq(STRING \ {Blank}) /\ Len(Numerals) >= MaxOrders
    /\ \A i, j \in DOMAIN Numerals : Numerals[i] = Numerals[j] => i = j
    /\ Words \subseteq AllWords /\ Records \subseteq SUBSET Fields /\ Changes \subseteq AllChanges

-----------------------------------------------------------------------------
(* The operations.                                                           *)

Init ==
    /\ book = <<>>
    /\ pc = "idle" /\ op = "none" /\ res = "none"
    /\ asked = None /\ target = <<>> /\ existing = None
    /\ sent = None /\ reply = None /\ view = None

\* An operation ends; what it worked with is gone.
Ends(r) ==
    /\ res' = r
    /\ pc' = "idle"
    /\ asked' = None /\ existing' = None /\ sent' = None /\ reply' = None

Begins(o, s) == op' = o /\ pc' = s /\ res' = "none"

\* place_order up to its request: nothing leaves unless every check passes.
PlaceOrder ==
    /\ pc = "idle"
    /\ target' = <<>>
    /\ \E a \in Words :
         IF Check(a) = "ok"
           THEN Begins("place", "place") /\ asked' = a /\ sent' = Body(a)
                /\ UNCHANGED <<existing, reply>>
           ELSE op' = "place" /\ Ends(Check(a))
    /\ UNCHANGED <<book, view>>

\* validate_order sends what it can read; sizes and prices are the server's to check.
ValidateOrder ==
    /\ pc = "idle"
    /\ target' = <<>>
    /\ \E a \in Words :
         IF Unreadable(a)
           THEN op' = "validate" /\ Ends("ValueError")
           ELSE Begins("validate", "validate") /\ asked' = a /\ sent' = Body(a)
                /\ UNCHANGED <<existing, reply>>
    /\ UNCHANGED <<book, view>>

Validated ==
    /\ pc = "validate"
    /\ Ends("ok")
    /\ UNCHANGED <<book, op, target, view>>

Or(given, default) == IF given = <<>> THEN default ELSE given[1]

\* The operations that name an order; its market is inferred from the id.
NameOrder ==
    /\ pc = "idle"
    /\ \E id \in Ids, o \in {"get", "cancel", "modify"} :
         /\ target' = id
         /\ IF MarketIdFromOrderId(id) = NoMarket
              THEN op' = o /\ Ends("ConfigurationError")
              ELSE /\ Begins(o, IF o = "cancel" THEN "cancel" ELSE "read")
                   /\ asked' \in (IF o = "modify" THEN Changes ELSE {None})
                   /\ UNCHANGED <<existing, sent, reply>>
    /\ UNCHANGED <<book, view>>

\* get_order: the order with that id among those of its market.
GetOrder ==
    /\ pc = "read"
    /\ LET found == Named(MarketIdFromOrderId(target), target) IN
       IF found = {}
         THEN Ends("NotFoundError") /\ UNCHANGED view
         ELSE \E o \in found, told \in Records : \E remaining \in Remaining(o) :
                IF op = "get"
                  THEN Ends("ok") /\ view' = FromApi(o, told, remaining)
                  ELSE /\ existing' = FromApi(o, told, remaining)
                       /\ pc' = "cancel"
                       /\ UNCHANGED <<asked, sent, reply, view, res>>
    /\ UNCHANGED <<book, op, target>>

\* The side that modify_order asks for again; BUY_YES for an Order without one.
ActionAgain(order) == Action(order.side)
SideAgain(order) == IF order.side = NoText THEN "BUY_YES" ELSE order.side

\* What modify_order passes to place_order: the order it read, with the overrides.
Replacement(order, over) ==
    [market |-> MarketIdFromOrderId(target), side |-> SideAgain(order), outcome |-> NoText,
     size |-> Or(over.size, order.size),
     price |-> IF over.price = <<>> THEN order.price ELSE Decimal(over.price[1]),
     type |-> order.type, tif |-> Or(over.tif, order.tif)]

ReplaceAnyway(answer) == FALSE
CancelRefused(answer) == answer.kind = "rejected"

\* cancel_order's answer; modify_order has no use for the Order.
CancelAnswered ==
    /\ pc = "canceled"
    /\ IF CancelRefused(reply)
         THEN Ends("OrderRejectedError") /\ UNCHANGED view
         ELSE IF op = "cancel"
         THEN Ends("ok") /\ view' = FromCancel(reply.order_id)
         ELSE LET a == Replacement(existing, asked) IN
              /\ IF Check(a) = "ok"
                   THEN /\ pc' = "place" /\ asked' = a /\ sent' = Body(a)
                        /\ UNCHANGED <<existing, reply, res>>
                   ELSE Ends(Check(a))
              /\ UNCHANGED view
    /\ UNCHANGED <<book, op, target>>

\* place_order's answer.
PlaceAnswered ==
    /\ pc = "placed"
    /\ IF reply.kind = "rejected"
         THEN Ends("OrderRejectedError") /\ UNCHANGED view
         ELSE Ends("ok") /\ view' = FromSubmit(sent, reply)
    /\ UNCHANGED <<book, op, target>>

\* Another answer than 2xx: the venue refused, or it acted and a gateway answered 5xx.
Refused ==
    /\ pc # "idle"
    /\ Ends("APIError")
    /\ UNCHANGED <<book, op, target, view>>

\* No answer; the venue may have acted.
Lost ==
    /\ pc # "idle"
    /\ Ends("NetworkError")
    /\ UNCHANGED <<book, op, target, view>>

-----------------------------------------------------------------------------
(* The venue.                                                                *)

\* The ways to fill q contracts at once.
Executions(q) == {fills \in SeqOf(1..MaxSize, 2) : Total(fills) = q}

\* A resting order keeps its rest; any other one loses it.
StatusOf(body, filled) ==
    IF filled = body.size THEN "FILLED"
    ELSE IF body.type = "MARKET" \/ body.tif = "IOC" THEN "CANCELED"
    ELSE IF filled = 0 THEN "OPEN" ELSE "PARTIALLY_FILLED"

\* A rejection speaks of no order.
Rejection == [kind |-> "rejected", order_id |-> 0]

AcceptOrder ==
    /\ pc = "place" /\ Len(book) < MaxOrders
    /\ \E filled \in 0..sent.size :
         /\ sent.tif = "FOK" => filled = sent.size
         /\ book' = Append(book,
              [market |-> sent.market, number |-> Cardinality(InMarket(sent.market)) + 1,
               side |-> sent.side, type |-> sent.type, tif |-> sent.tif, price |-> sent.price,
               size |-> sent.size, filled |-> filled, status |-> StatusOf(sent, filled),
               meant |-> IF op = "modify" THEN book[existing.oid].meant ELSE Meant(asked),
               blind |-> op = "modify" /\ (existing.side = NoText \/ book[existing.oid].blind),
               from |-> IF op = "modify" THEN existing.oid ELSE 0])
         /\ \E fills \in Executions(filled) :
              reply' = [kind |-> "accepted", order_id |-> Len(book) + 1,
                        status |-> StatusOf(sent, filled), fills |-> fills]
    /\ pc' = "placed"
    /\ UNCHANGED <<op, asked, target, existing, sent, view, res>>

RejectOrder ==
    /\ pc = "place"
    /\ reply' = Rejection
    /\ pc' = "placed"
    /\ UNCHANGED <<book, op, asked, target, existing, sent, view, res>>

CancelAtVenue ==
    /\ pc = "cancel"
    /\ LET found == {o \in Named(MarketIdFromOrderId(target), target) : book[o].status \in Open} IN
       IF found = {}
         THEN UNCHANGED book /\ reply' = Rejection
         ELSE \E o \in found :
                /\ book' = [book EXCEPT ![o].status = "CANCELED"]
                /\ reply' = [kind |-> "canceled", order_id |-> o]
    /\ pc' = "canceled"
    /\ UNCHANGED <<op, asked, target, existing, sent, view, res>>

Fill ==
    /\ \E o \in DOMAIN book :
         /\ book[o].status \in Open
         /\ \E q \in 1..(book[o].size - book[o].filled) :
              book' = [book EXCEPT ![o].filled = @ + q,
                         ![o].status = StatusOf(book[o], book[o].filled + q)]
    /\ UNCHANGED <<pc, op, asked, target, existing, sent, reply, view, res>>

Next ==
    \/ PlaceOrder \/ ValidateOrder \/ Validated \/ NameOrder \/ GetOrder
    \/ CancelAnswered \/ PlaceAnswered \/ Refused \/ Lost
    \/ AcceptOrder \/ RejectOrder \/ CancelAtVenue \/ Fill

Spec == Init /\ [][Next]_vars

-----------------------------------------------------------------------------
Row == [market : MarketIds, number : 1..MaxOrders, side : Sides, type : OrderTypes,
        tif : TimesInForce, price : Prices \ {"nonsense"}, size : 1..MaxSize, filled : 0..MaxSize,
        status : Open \cup Terminal, meant : SUBSET Sides, blind : BOOLEAN, from : 0..MaxOrders]

TypeOK ==
    /\ book \in Seq(Row) /\ Len(book) <= MaxOrders
    /\ \A o \in DOMAIN book : book[o].filled <= book[o].size /\ book[o].from < o
    /\ pc \in {"idle", "validate", "place", "placed", "read", "cancel", "canceled"}
    /\ res \in Results \cup {"none"}
    /\ view # None => view.oid \in DOMAIN book
    /\ existing # None => existing.oid \in DOMAIN book /\ op = "modify"

(* enums.py:112-148, orders.py:340: an order is on the side that its first   *)
(* caller's words meant, however often it was read back and replaced since,  *)
(* unless a record without a side was read on the way: then modify_order has *)
(* made it a BUY_YES, whatever was meant.  A dry run asks about the side     *)
(* that was meant, and an Order that has a side decomposes into it.  Words   *)
(* that mean a side are read, except an action with a member of Outcome: the *)
(* docstring's own resolve_side("sell", Outcome.NO) raises ValueError.       *)
SideKept ==
    /\ \A a \in Words :
         ResolveSide(a.side, a.outcome) = NoSide <=> Meant(a) = {} \/ ByMember(a)
    /\ \A o \in DOMAIN book :
         IF book[o].blind THEN book[o].side = "BUY_YES" ELSE book[o].meant = {book[o].side}
    /\ sent # None /\ op # "modify" => Meant(asked) = {sent.side}
    /\ view # None /\ view.side # NoText /\ ~book[view.oid].blind
         => book[view.oid].meant = {SideTable(Action(view.side), Outcome(view.side))}

(* models/order.py:24-137, orders.py:283-290: an Order in the caller's hands *)
(* never claims more executions than the venue knows, a terminal status that *)
(* it shows is the last word, and every field that the answer carried is     *)
(* right; with the quantities told it adds up, and if it is terminal it has  *)
(* all executions, whatever was filled since the answer left.  A quantity    *)
(* that was not told is shown as 0: so the Order that cancel_order returns   *)
(* is terminal with size 0 and filled_size 0 for a partly filled order too.  *)
ViewTrue ==
    view # None =>
        LET row == book[view.oid] IN
        /\ view.filled <= row.filled
        /\ view.status \in Terminal => view.status = row.status
        /\ view.size = IF "quantity" \in view.told THEN row.size ELSE 0
        /\ view.side = IF "side" \in view.told THEN row.side ELSE NoText
        /\ "order_type" \in view.told => view.type = row.type
        /\ Quantities \subseteq view.told =>
             /\ view.filled + view.remaining <= view.size
             /\ view.status \in Open => view.filled + view.remaining = view.size
             /\ view.status \in Terminal => view.filled = row.filled

(* orders.py:341: the replacement has the whole size again, whatever of the  *)
(* original was filled before it was read or between the read and the        *)
(* cancel; so the two together may trade more than was asked for, but never  *)
(* both sizes in full.  Each is replaced at most once.  A modify that found  *)
(* its parameters wrong has nothing in place of the order it named.          *)
OvershootBounded ==
    /\ op = "modify" /\ res \in {"ConfigurationError", "ValueError"} =>
        \A o, r \in DOMAIN book : IdOf(o) = target => book[r].from # o
    /\ \A o, r \in DOMAIN book : book[r].from = o =>
         /\ book[o].status = "CANCELED"
         /\ book[o].filled + book[r].filled < book[o].size + book[r].size
         /\ \A s \in DOMAIN book : book[s].from = o => s = r

(* orders.py:53: an order that the venue has is found by its id alone, though *)
(* the market is inferred from it and may have hyphens, and it is the only   *)
(* one: no get or cancel of it ends with ConfigurationError, which would be  *)
(* before it has asked the venue.  (A modify begins with a get, and may end  *)
(* so later, for its new parameters.)                                        *)
FoundByItsId ==
    /\ \A o \in DOMAIN book : Named(MarketIdFromOrderId(IdOf(o)), IdOf(o)) = {o}
    /\ op \in {"get", "cancel"} /\ res = "ConfigurationError" => target \in BadIds
=============================================================================
