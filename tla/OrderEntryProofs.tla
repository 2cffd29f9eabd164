-------------------------- MODULE OrderEntryProofs --------------------------
(* What an order says, for any words, sizes, market ids and orders.          *)
EXTENDS OrderEntry, SequenceTheorems, FiniteSetTheorems, TLAPS

-----------------------------------------------------------------------------
(* Order ids.                                                                *)

\* The market and the number are read back from an order id, hyphens or not.
LEMMA IdRoundTrip ==
    ASSUME NEW S, "ord" \in S, NEW market \in Seq(S), market \notin {<<>>, <<Blank>>},
           NEW x \in S, x # Blank
    PROVE  LET id == <<"ord">> \o market \o <<x>> IN
           /\ Last(id) = x
           /\ MarketIdFromOrderId(id) = market /\ market # NoMarket
<1> DEFINE ord == <<"ord">>
           end == <<x>>
           id == ord \o market \o end
           n == Len(market)
<1>1. ord \in Seq(S) /\ Len(ord) = 1 /\ ord[1] = "ord"
      /\ end \in Seq(S) /\ Len(end) = 1 /\ end[1] = x
  OBVIOUS
<1>2. n \in Nat /\ n # 0
  BY EmptySeq
<1> HIDE DEF ord, end, n
<1>3. /\ ord \o market \in Seq(S) /\ Len(ord \o market) = n + 1
      /\ \A i \in 1..(n + 1) : (ord \o market)[i] = IF i <= 1 THEN ord[i] ELSE market[i - 1]
  <2>1. /\ ord \o market \in Seq(S) /\ Len(ord \o market) = 1 + n
        /\ \A i \in 1..(1 + n) : (ord \o market)[i] = IF i <= 1 THEN ord[i] ELSE market[i - 1]
    BY ONLY <1>1, market \in Seq(S), ConcatProperties DEF n
  <2>2. 1 + n = n + 1
    BY <1>2
  <2> QED BY <2>1, <2>2
<1>4. /\ id \in Seq(S) /\ Len(id) = n + 2
      /\ \A i \in 1..(n + 2) : id[i] = IF i <= n + 1 THEN (ord \o market)[i] ELSE end[i - (n + 1)]
  <2>1. /\ id \in Seq(S) /\ Len(id) = Len(ord \o market) + Len(end)
        /\ \A i \in 1..(Len(ord \o market) + Len(end)) :
             id[i] = IF i <= Len(ord \o market) THEN (ord \o market)[i]
                     ELSE end[i - Len(ord \o market)]
    BY <1>1, <1>3, ConcatProperties
  <2>2. Len(ord \o market) + Len(end) = n + 2
    BY <1>1, <1>2, <1>3
  <2> QED BY <1>3, <2>1, <2>2
<1> HIDE DEF id
<1>5. id[1] = "ord" /\ id[n + 2] = x /\ \A i \in 1..n : id[i + 1] = market[i]
  <2>1. id[1] = "ord"
    BY <1>1, <1>2, <1>3, <1>4
  <2>2. n + 2 \in 1..(n + 2)
    BY <1>2
  <2>3. ASSUME NEW j \in 1..(n + 2), j = n + 2 PROVE id[j] = end[1]
    <3>1. ~(j <= n + 1) /\ j - (n + 1) = 1
      BY <1>2, <2>3
    <3>2. id[j] = end[j - (n + 1)]
      BY <1>4, <3>1
    <3> QED BY <3>1, <3>2
  <2>4. ASSUME NEW i \in 1..n PROVE id[i + 1] = market[i]
    <3>1. /\ i + 1 \in 1..(n + 1) /\ i + 1 \in 1..(n + 2)
          /\ i + 1 <= n + 1 /\ ~(i + 1 <= 1) /\ i + 1 - 1 = i
      BY <1>2
    <3>2. id[i + 1] = (ord \o market)[i + 1]
      BY <1>4, <3>1
    <3>3. (ord \o market)[i + 1] = market[i + 1 - 1]
      BY <1>3, <3>1
    <3> QED BY <3>1, <3>2, <3>3
  <2> QED BY <1>1, <2>1, <2>2, <2>3, <2>4
<1>6. Len(id) >= 2 /\ id # <<>> /\ Head(id) = "ord" /\ Last(id) = x
  BY <1>2, <1>4, <1>5 DEF Last
<1>7. /\ Tail(id) \in Seq(S) /\ Len(Tail(id)) = n + 1
      /\ \A i \in 1..(n + 1) : Tail(id)[i] = id[i + 1]
  BY <1>2, <1>4, <1>6, HeadTailProperties
<1>8. /\ Front(Tail(id)) \in Seq(S) /\ Len(Front(Tail(id))) = n
      /\ \A i \in 1..n : Front(Tail(id))[i] = Tail(id)[i]
  <2> DEFINE t == Tail(id)
  <2>1. Front(t) = SubSeq(t, 1, n) /\ \A i \in 1..n : t[i] \in S
    BY <1>2, <1>7, ElementOfSeq DEF Front
  <2> HIDE DEF t
  <2>2. /\ SubSeq(t, 1, n) \in Seq(S)
        /\ Len(SubSeq(t, 1, n)) = IF 1 <= n THEN n - 1 + 1 ELSE 0
        /\ \A i \in 1..(n - 1 + 1) : SubSeq(t, 1, n)[i] = t[1 + i - 1]
    BY <1>2, <2>1, SubSeqProperties
  <2>3. n - 1 + 1 = n /\ 1 <= n /\ \A i \in 1..n : 1 + i - 1 = i
    BY <1>2
  <2> QED BY <2>1, <2>2, <2>3 DEF t
<1>9. Front(Tail(id)) = market
  <2>1. \A i \in 1..n : Front(Tail(id))[i] = market[i]
    BY <1>2, <1>5, <1>7, <1>8
  <2> QED BY <1>8, <2>1, SeqEqual DEF n
<1>10. MarketIdFromOrderId(id) = market
  BY <1>6, <1>9 DEF MarketIdFromOrderId, Unnamed
<1> QED BY <1>6, <1>10 DEF id, ord, end, NoMarket

-----------------------------------------------------------------------------
(* Words.                                                                    *)

\* A side, or the error.
LEMMA Sided == \A raw, out : ResolveSide(raw, out) \in Sides \cup {NoSide}
BY DEF ResolveSide, SideTable, Sides, NoSide

\* A side is read as itself, and decomposes into itself.
LEMMA SideOfItself ==
    ASSUME NEW side \in Sides
    PROVE  ResolveSide(side, NoText) = side /\ SideTable(Action(side), Outcome(side)) = side
BY DEF ResolveSide, SideTable, Sides, Action, Outcome, NoText

\* An override that is given is of its set.
LEMMA Given ==
    ASSUME NEW S, NEW given \in SeqOf(S, 1), NEW default, given # <<>>
    PROVE  given[1] \in S
<1>1. PICK m \in 0..1 : given \in [1..m -> S]
  BY DEF SeqOf
<1>2. CASE m = 0
  <2>1. given = <<>>
    BY <1>1, <1>2
  <2> QED BY <2>1
<1>3. CASE m = 1
  BY <1>1, <1>3
<1> QED BY <1>1, <1>2, <1>3

\* What may be sent for an order.
Sound(body) ==
    /\ body.market \in MarketIds /\ body.side \in Sides /\ body.type \in OrderTypes
    /\ body.tif \in TimesInForce /\ body.price \in Prices \ {"nonsense"} /\ body.size \in 1..MaxSize

\* What passes the checks may be sent.
LEMMA CheckedBody ==
    ASSUME NEW a, Check(a) = "ok", a.market \in MarketIds, a.size \in Sizes, a.price \in Prices
    PROVE  Sound(Body(a))
<1>1. ~Unreadable(a) /\ ~Malformed(a)
  BY DEF Check
<1>2. a.type \in OrderTypes /\ a.tif \in TimesInForce
  BY <1>1 DEF Unreadable
<1>3. ResolveSide(a.side, a.outcome) \in Sides
  BY <1>1, Sided DEF Unreadable
<1>4. a.size \in 1..MaxSize
  BY <1>1, OrderEntryAssumption DEF Malformed, Sizes
<1>5. Decimal(a.price) \in Prices \ {"nonsense"}
  BY DEF Decimal, Prices, NoText
<1> QED BY <1>2, <1>3, <1>4, <1>5 DEF Sound, Body

\* What the checks say.
LEMMA Checked ==
    \A a : Check(a) \in {"ok", "ConfigurationError", "ValueError"} /\ Check(a) \in Results
BY DEF Check, Results

\* What words mean is sides.
LEMMA MeantSides == \A a : Meant(a) \in SUBSET Sides
BY DEF Meant

-----------------------------------------------------------------------------
(* The venue's orders.                                                       *)

Rows ==
    /\ book \in Seq(Row) /\ Len(book) <= MaxOrders
    /\ \A o \in DOMAIN book :
         /\ book[o].filled <= book[o].size /\ book[o].from < o
         /\ book[o].status \in Open => book[o].filled < book[o].size

\* No two orders of a market have one number.
Numbered ==
    \A m \in MarketIds : \A o \in InMarket(m) :
        /\ book[o].number <= Cardinality(InMarket(m))
        /\ \A p \in InMarket(m) : book[p].number = book[o].number => p = o

BookInv == Rows /\ Numbered

\* The venue's orders are numbered from 1.
LEMMA RowsShape ==
    ASSUME Rows
    PROVE  /\ Len(book) \in Nat /\ DOMAIN book = 1..Len(book)
           /\ \A o \in DOMAIN book : book[o] \in Row
<1>1. book \in Seq(Row)
  BY DEF Rows
<1> QED BY <1>1, LenProperties, ElementOfSeq

\* An order's id names its market and this order only.
LEMMA OwnName ==
    ASSUME BookInv, NEW o \in DOMAIN book
    PROVE  /\ MarketIdFromOrderId(IdOf(o)) = book[o].market /\ book[o].market # NoMarket
           /\ Named(book[o].market, IdOf(o)) = {o}
<1>1. \A p \in DOMAIN book :
        /\ book[p].market \in Seq(STRING) /\ book[p].market \notin {<<>>, <<Blank>>}
        /\ book[p].number \in DOMAIN Numerals
        /\ Numerals[book[p].number] \in STRING /\ Numerals[book[p].number] # Blank
  <2> TAKE p \in DOMAIN book
  <2>1. book[p].market \in MarketIds /\ book[p].number \in 1..MaxOrders
    BY RowsShape DEF BookInv, Row
  <2>2. Len(Numerals) \in Nat /\ DOMAIN Numerals = 1..Len(Numerals)
    BY OrderEntryAssumption, LenProperties
  <2>3. book[p].number \in 1..Len(Numerals)
    BY <2>1, <2>2, OrderEntryAssumption
  <2>4. Numerals[book[p].number] \in STRING \ {Blank}
    BY <2>3, OrderEntryAssumption, ElementOfSeq
  <2> QED BY <2>1, <2>2, <2>3, <2>4, OrderEntryAssumption
<1>2. \A p \in DOMAIN book : /\ Last(IdOf(p)) = Numerals[book[p].number]
                             /\ MarketIdFromOrderId(IdOf(p)) = book[p].market
                             /\ book[p].market # NoMarket
  <2> TAKE p \in DOMAIN book
  <2> DEFINE x == Numerals[book[p].number]
  <2>1. IdOf(p) = <<"ord">> \o book[p].market \o <<x>>
    BY DEF IdOf, OrderId
  <2> DEFINE S == STRING \cup {"ord"}
  <2>2. x \in S /\ x # Blank /\ "ord" \in S /\ STRING \subseteq S
    BY <1>1
  <2> HIDE DEF x, S
  <2>4. book[p].market \in Seq(S)
    BY <1>1, <2>2, SeqMonotonic
  <2>3. /\ Last(<<"ord">> \o book[p].market \o <<x>>) = x
        /\ MarketIdFromOrderId(<<"ord">> \o book[p].market \o <<x>>) = book[p].market
        /\ book[p].market # NoMarket
    BY <1>1, <2>2, <2>4, IdRoundTrip
  <2> QED BY <2>1, <2>3 DEF x
<1>3. ASSUME NEW p \in DOMAIN book, book[p].market = book[o].market, IdOf(p) = IdOf(o) PROVE p = o
  <2>1. book[p].number = book[o].number
    BY <1>1, <1>2, <1>3, OrderEntryAssumption
  <2>2. /\ book[o].market \in MarketIds
        /\ o \in InMarket(book[o].market) /\ p \in InMarket(book[o].market)
    BY <1>3, RowsShape DEF BookInv, Row, InMarket
  <2> QED BY <2>1, <2>2 DEF BookInv, Numbered
<1> QED BY <1>2, <1>3 DEF Named

\* Who names an order by its id finds it, and no other.
LEMMA NamedOnly ==
    ASSUME BookInv, NEW id, NEW o \in DOMAIN book, IdOf(o) = id
    PROVE  /\ Named(MarketIdFromOrderId(id), id) = {o}
           /\ MarketIdFromOrderId(id) = book[o].market /\ MarketIdFromOrderId(id) # NoMarket
BY OwnName

\* What any step leaves of the orders there were.
Grows ==
    /\ DOMAIN book \subseteq DOMAIN book'
    /\ \A o \in DOMAIN book :
         /\ book'[o].market = book[o].market /\ book'[o].number = book[o].number
         /\ book'[o].side = book[o].side /\ book'[o].type = book[o].type
         /\ book'[o].tif = book[o].tif /\ book'[o].price = book[o].price
         /\ book'[o].size = book[o].size /\ book'[o].meant = book[o].meant
         /\ book'[o].blind = book[o].blind /\ book'[o].from = book[o].from
         /\ book[o].filled <= book'[o].filled
         /\ book[o].status \in Terminal => book'[o] = book[o]

\* Orders that do not change keep to that.
LEMMA SameGrows ==
    ASSUME Rows, UNCHANGED book
    PROVE  Grows
<1>1. \A o \in DOMAIN book : book[o].filled \in 0..MaxSize
  BY RowsShape DEF Row
<1> QED BY <1>1, OrderEntryAssumption DEF Grows

\* One order changes.
LEMMA RowChanges ==
    ASSUME BookInv, NEW o \in DOMAIN book, NEW r \in Row, book' = [book EXCEPT ![o] = r],
           r.market = book[o].market, r.number = book[o].number, r.side = book[o].side,
           r.type = book[o].type, r.tif = book[o].tif, r.price = book[o].price,
           r.size = book[o].size, r.meant = book[o].meant, r.blind = book[o].blind,
           r.from = book[o].from,
           book[o].filled <= r.filled, r.filled <= r.size, r.status \in Open => r.filled < r.size,
           book[o].status \notin Terminal
    PROVE  BookInv' /\ Grows /\ DOMAIN book' = DOMAIN book
           /\ \A p \in DOMAIN book : book'[p] = IF p = o THEN r ELSE book[p]
<1>1. book \in Seq(Row) /\ Len(book) \in Nat /\ DOMAIN book = 1..Len(book)
      /\ \A p \in DOMAIN book : book[p] \in Row
  BY RowsShape DEF BookInv, Rows
<1>2. book' \in Seq(Row) /\ Len(book') = Len(book)
      /\ \A p \in DOMAIN book : book'[p] = IF p = o THEN r ELSE book[p]
  BY <1>1, ExceptSeq
<1>3. DOMAIN book' = DOMAIN book
  BY <1>1
<1>4. Rows'
  BY <1>2, <1>3 DEF BookInv, Rows
<1>5. \A m : InMarket(m)' = InMarket(m)
  BY <1>2, <1>3 DEF InMarket
<1>6. Numbered'
  <2>1. \A m : \A p \in InMarket(m) : p \in DOMAIN book /\ book'[p].number = book[p].number
    BY <1>2 DEF InMarket
  <2>2. \A m : Cardinality(InMarket(m)') = Cardinality(InMarket(m))
    BY <1>5
  <2> QED BY <1>5, <2>1, <2>2 DEF BookInv, Numbered
<1>7. \A p \in DOMAIN book : book[p].filled <= book[p].filled
  <2>1. \A p \in DOMAIN book : book[p].filled \in 0..MaxSize
    BY <1>1 DEF Row
  <2> QED BY <2>1, OrderEntryAssumption
<1>8. Grows
  BY <1>2, <1>3, <1>7 DEF Grows
<1> QED BY <1>2, <1>3, <1>4, <1>6, <1>8 DEF BookInv

\* An order is added, with the next number of its market.
LEMMA RowAdded ==
    ASSUME BookInv, NEW r, book' = Append(book, r), Len(book) < MaxOrders,
           r.number = Cardinality(InMarket(r.market)) + 1,
           r.number \in 1..MaxOrders => r \in Row,
           r.filled <= r.size, r.from \in 0..Len(book), r.status \in Open => r.filled < r.size
    PROVE  BookInv' /\ Grows /\ DOMAIN book' = DOMAIN book \cup {Len(book) + 1}
           /\ Len(book) + 1 \notin DOMAIN book /\ book'[Len(book) + 1] = r
           /\ \A p \in DOMAIN book : book'[p] = book[p]
<1> DEFINE n == Len(book)
           new == n + 1
<1>1. book \in Seq(Row) /\ n \in Nat /\ DOMAIN book = 1..n /\ \A p \in DOMAIN book : book[p] \in Row
  BY RowsShape DEF BookInv, Rows
<1>2. \A m : /\ InMarket(m) \subseteq DOMAIN book /\ IsFiniteSet(InMarket(m))
             /\ Cardinality(InMarket(m)) \in Nat /\ Cardinality(InMarket(m)) <= n
  <2> TAKE m
  <2>1. InMarket(m) \in SUBSET (1..n)
    BY <1>1 DEF InMarket
  <2>2. IsFiniteSet(1..n) /\ Cardinality(1..n) = n
    <3>1. 1 \in Int /\ n \in Int /\ (IF 1 > n THEN 0 ELSE n - 1 + 1) = n
      BY <1>1
    <3> QED BY <3>1, FS_Interval
  <2>3. IsFiniteSet(InMarket(m)) /\ Cardinality(InMarket(m)) <= Cardinality(1..n)
    BY <2>1, <2>2, FS_Subset
  <2>4. Cardinality(InMarket(m)) \in Nat
    BY <2>3, FS_CardinalityType
  <2> QED BY <1>1, <2>1, <2>2, <2>3, <2>4
<1>3. r.number \in 1..MaxOrders
  <2>1. Cardinality(InMarket(r.market)) \in Nat /\ Cardinality(InMarket(r.market)) <= n
    BY <1>2
  <2> QED BY <1>1, <2>1, OrderEntryAssumption
<1>4. r \in Row
  BY <1>3
<1>5. /\ book' \in Seq(Row) /\ Len(book') = n + 1
      /\ \A p \in 1..n : book'[p] = book[p]
      /\ book'[n + 1] = r
  BY <1>1, <1>4, AppendProperties
<1>6. DOMAIN book' = DOMAIN book \cup {new} /\ new \notin DOMAIN book /\ Len(book') <= MaxOrders
  <2>1. DOMAIN book' = 1..(n + 1)
    BY <1>5, LenProperties
  <2>2. 1..(n + 1) = 1..n \cup {n + 1} /\ n + 1 \notin 1..n /\ n + 1 <= MaxOrders
    BY <1>1, OrderEntryAssumption
  <2> QED BY <1>1, <1>5, <2>1, <2>2
<1>7. r.from < new
  BY <1>1
<1> HIDE DEF new
<1>8. book'[new] = r /\ \A p \in DOMAIN book : book'[p] = book[p]
  BY <1>1, <1>5 DEF new
<1>9. Rows'
  BY <1>5, <1>6, <1>7, <1>8 DEF BookInv, Rows
<1>10. \A m : InMarket(m)' = IF m = r.market THEN InMarket(m) \cup {new} ELSE InMarket(m)
  BY <1>6, <1>8 DEF InMarket
<1>11. ASSUME NEW m
       PROVE  /\ Cardinality(InMarket(m)') \in Nat
              /\ Cardinality(InMarket(m)) <= Cardinality(InMarket(m)')
              /\ m = r.market => r.number = Cardinality(InMarket(m)')
  <2>1. CASE m = r.market
    <3>1. new \notin InMarket(m) /\ InMarket(m)' = InMarket(m) \cup {new}
      BY <1>6, <1>10, <2>1 DEF InMarket
    <3>2. IsFiniteSet(InMarket(m)) /\ Cardinality(InMarket(m)) \in Nat
      BY <1>2
    <3>3. Cardinality(InMarket(m) \cup {new}) = Cardinality(InMarket(m)) + 1
      BY <3>1, <3>2, FS_AddElement
    <3>4. Cardinality(InMarket(m)') = Cardinality(InMarket(m)) + 1
      BY <3>1, <3>3
    <3> QED BY <2>1, <3>2, <3>4
  <2>2. CASE m # r.market
    <3>1. InMarket(m)' = InMarket(m)
      BY <1>10, <2>2
    <3>2. Cardinality(InMarket(m)') = Cardinality(InMarket(m)) /\ Cardinality(InMarket(m)) \in Nat
      BY <1>2, <3>1
    <3> QED BY <2>2, <3>2
  <2> QED BY <2>1, <2>2
<1>12. Numbered'
  <2> SUFFICES ASSUME NEW m \in MarketIds
               PROVE  \A o \in InMarket(m)' :
                        /\ book'[o].number <= Cardinality(InMarket(m)')
                        /\ \A p \in InMarket(m)' : book'[p].number = book'[o].number => p = o
    BY DEF Numbered
  <2> DEFINE c == Cardinality(InMarket(m))
             d == Cardinality(InMarket(m)')
  <2>1. c \in Nat /\ d \in Nat /\ c <= d
    BY <1>2, <1>11
  <2>2. \A q \in InMarket(m) : /\ q \in DOMAIN book /\ q # new
                               /\ book'[q] = book[q] /\ book[q].number \in 1..MaxOrders
                               /\ book[q].number <= c
    <3>1. \A q \in InMarket(m) : q \in DOMAIN book /\ book[q].number \in 1..MaxOrders
      BY <1>1 DEF InMarket, Row
    <3> QED BY <1>6, <1>8, <3>1 DEF BookInv, Numbered
  <2>3. \A q \in InMarket(m) :
          book'[q].number \in Nat /\ book'[q].number <= c /\ book'[q].number <= d
    <3> HIDE DEF c, d
    <3> QED BY <2>1, <2>2, OrderEntryAssumption
  <2>6. \A p, q \in InMarket(m) : book[q].number = book[p].number => q = p
    BY DEF BookInv, Numbered
  <2>4. CASE m = r.market
    <3>1. InMarket(m)' = InMarket(m) \cup {new}
      BY <1>10, <2>4
    <3>2. r.number = c + 1 /\ r.number = d
      BY <1>11, <2>4
    <3>3. d = c + 1 /\ d <= d /\ \A k \in Nat : k <= c => k # d
      <4> HIDE DEF c, d
      <4> QED BY <2>1, <3>2
    <3>4. book'[new].number = d
      BY <1>8, <3>2
    <3>5. \A q \in InMarket(m) : book'[q].number # d
      BY <2>3, <3>3
    <3> QED
      <4> DEFINE I == InMarket(m)
                 J == InMarket(m)'
      <4>1. \A o, p \in I : book'[o].number = book'[p].number => p = o
        BY <2>2, <2>6
      <4>2. \A q \in I : book'[q].number <= d /\ book'[q].number # d
        BY <2>3, <3>5
      <4>3. J = I \cup {new}
        BY <3>1
      <4> HIDE DEF I, J, d
      <4>4. ASSUME NEW o \in J
            PROVE  book'[o].number <= d /\ \A p \in J : book'[p].number = book'[o].number => p = o
        BY <3>3, <3>4, <4>1, <4>2, <4>3, Zenon
      <4> QED BY <4>4, Zenon DEF J, d
  <2>5. CASE m # r.market
    <3>1. InMarket(m)' = InMarket(m)
      BY <1>10, <2>5
    <3> QED
      <4> DEFINE I == InMarket(m)
                 J == InMarket(m)'
      <4>1. \A o, p \in I : book'[o].number = book'[p].number => p = o
        BY <2>2, <2>6
      <4>2. \A q \in I : book'[q].number <= d
        BY <2>3
      <4>3. J = I
        BY <3>1
      <4> HIDE DEF I, J, d
      <4>4. \A o \in J :
              book'[o].number <= d /\ \A p \in J : book'[p].number = book'[o].number => p = o
        BY <4>1, <4>2, <4>3
      <4> QED BY <4>4, Zenon DEF J, d
  <2> QED BY <2>4, <2>5
<1>13. \A p \in DOMAIN book : book[p].filled <= book[p].filled
  <2>1. \A p \in DOMAIN book : book[p].filled \in 0..MaxSize
    BY <1>1 DEF Row
  <2> QED BY <2>1, OrderEntryAssumption
<1>14. Grows
  BY <1>6, <1>8, <1>13 DEF Grows
<1> QED BY <1>6, <1>8, <1>9, <1>12, <1>14 DEF BookInv, new

-----------------------------------------------------------------------------
(* Where an operation is.                                                    *)

Working == {"cancel", "canceled", "place", "placed"}
WrongWords == {"ConfigurationError", "ValueError"}

Phases ==
    /\ pc \in {"idle", "validate", "place", "placed", "read", "cancel", "canceled"}
    /\ res \in Results \cup {"none"}
    /\ pc # "idle" => res = "none"
    /\ pc \in {"place", "placed"} => op \in {"place", "modify"}
    /\ pc = "read" => op \in {"get", "modify"}
    /\ pc \in {"cancel", "canceled"} => op \in {"cancel", "modify"}
    /\ pc \in {"place", "placed"} => Sound(sent)
    /\ pc \in {"read", "cancel", "canceled"} /\ op = "modify" => asked \in AllChanges

\* What modify_order has read is the order that was named, as far as it can be placed again.
ReadOf(e) ==
    /\ e.oid \in DOMAIN book /\ IdOf(e.oid) = target
    /\ e.size \in {0, book[e.oid].size} /\ e.price \in {NoText, book[e.oid].price}
Read ==
    /\ existing # None => op = "modify" /\ pc \in Working
    /\ op = "modify" /\ pc \in Working => ReadOf(existing)

\* An acceptance speaks of an order that the venue has, as it was or as it is; a cancel's
\* answer speaks of one that is canceled.
AnswerOf(answer, body) ==
    /\ answer.order_id \in DOMAIN book
    /\ LET row == book[answer.order_id] IN
       /\ row.size = body.size /\ row.side = body.side /\ row.type = body.type
       /\ Total(answer.fills) \in 0..body.size /\ Total(answer.fills) <= row.filled
       /\ answer.status \in Open \cup Terminal
       /\ answer.status \in Terminal =>
            row.filled = Total(answer.fills) /\ row.status = answer.status
Closed(o) == o \in DOMAIN book /\ book[o].status = "CANCELED"
Answered ==
    /\ pc = "placed" /\ reply.kind # "rejected" => AnswerOf(reply, sent)
    /\ pc = "canceled" /\ ~CancelRefused(reply) => Closed(reply.order_id)

\* ViewTrue, with the types that arithmetic needs.
Shows(v) ==
    /\ v.oid \in DOMAIN book
    /\ v.filled \in Nat /\ v.remaining \in Nat
    /\ LET row == book[v.oid] IN
       /\ v.size = IF "quantity" \in v.told THEN row.size ELSE 0
       /\ v.side = IF "side" \in v.told THEN row.side ELSE NoText
       /\ "order_type" \in v.told => v.type = row.type
       /\ v.filled <= row.filled
       /\ v.status \in Terminal => v.status = row.status
       /\ Quantities \subseteq v.told =>
            /\ v.filled + v.remaining <= v.size
            /\ v.status \in Open => v.filled + v.remaining = v.size
            /\ v.status \in Terminal => v.filled = row.filled
Viewed == view # None => Shows(view)

\* An order that was canceled before it was full, and that nothing replaces yet.
Free(o) ==
    /\ o \in DOMAIN book /\ book[o].status = "CANCELED" /\ book[o].filled < book[o].size
    /\ \A r \in DOMAIN book : book[r].from # o
Pairs ==
    \A o, r \in DOMAIN book : book[r].from = o =>
        /\ book[o].status = "CANCELED"
        /\ book[o].filled < book[o].size
        /\ \A q \in DOMAIN book : book[q].from = o => q = r
Unreplaced ==
    op = "modify" /\ res \in WrongWords =>
        \A o, r \in DOMAIN book : IdOf(o) = target => book[r].from # o
Replaced ==
    /\ op = "modify" /\ pc = "canceled" /\ ~CancelRefused(reply) => Free(existing.oid)
    /\ op = "modify" /\ pc = "place" => Free(existing.oid)
    /\ Pairs
    /\ Unreplaced

Misnamed == op \in {"get", "cancel"} /\ res = "ConfigurationError" => target \in BadIds

EntryInv == BookInv /\ Phases /\ Read /\ Answered /\ Viewed /\ Replaced /\ Misnamed

-----------------------------------------------------------------------------
(* What each step does to the venue's orders.                                *)

\* Nothing.
LEMMA SameBook ==
    ASSUME BookInv, UNCHANGED book
    PROVE  BookInv' /\ Grows /\ DOMAIN book' = DOMAIN book
<1>1. \A m : InMarket(m)' = InMarket(m)
  BY DEF InMarket
<1>2. \A m : Cardinality(InMarket(m)') = Cardinality(InMarket(m))
  BY <1>1
<1>3. Numbered'
  BY <1>1, <1>2 DEF BookInv, Numbered
<1>4. Rows'
  BY DEF BookInv, Rows
<1> QED BY <1>3, <1>4, SameGrows DEF BookInv

\* The status of an order says whether it is full.
LEMMA StatusFits ==
    ASSUME NEW body, NEW filled
    PROVE  /\ StatusOf(body, filled) \in Open \cup Terminal
           /\ StatusOf(body, filled) \in Open => filled # body.size
BY DEF StatusOf, Open, Terminal

\* An accepted order is the next one, and the answer speaks of it.
LEMMA AcceptedRow ==
    ASSUME BookInv, Phases, Read, AcceptOrder
    PROVE  LET n == Len(book) + 1 IN
           /\ BookInv' /\ Grows
           /\ DOMAIN book' = DOMAIN book \cup {n} /\ n \notin DOMAIN book
           /\ \A p \in DOMAIN book : book'[p] = book[p]
           /\ book'[n].from = IF op = "modify" THEN existing.oid ELSE 0
           /\ book'[n].side = sent.side
           /\ book'[n].meant = IF op = "modify" THEN book[existing.oid].meant ELSE Meant(asked)
           /\ book'[n].blind =
                (op = "modify" /\ (existing.side = NoText \/ book[existing.oid].blind))
           /\ AnswerOf(reply, sent)'
<1> DEFINE n == Len(book) + 1
<1>1. pc = "place" /\ Len(book) < MaxOrders
  BY DEF AcceptOrder
<1>2. /\ Sound(sent)
      /\ op = "modify" => existing.oid \in DOMAIN book
  BY <1>1 DEF Phases, Read, ReadOf, Working
<1>3. PICK filled \in 0..sent.size :
        /\ book' = Append(book,
             [market |-> sent.market, number |-> Cardinality(InMarket(sent.market)) + 1,
              side |-> sent.side, type |-> sent.type, tif |-> sent.tif, price |-> sent.price,
              size |-> sent.size, filled |-> filled, status |-> StatusOf(sent, filled),
              meant |-> IF op = "modify" THEN book[existing.oid].meant ELSE Meant(asked),
              blind |-> op = "modify" /\ (existing.side = NoText \/ book[existing.oid].blind),
              from |-> IF op = "modify" THEN existing.oid ELSE 0])
        /\ \E fills \in Executions(filled) :
             reply' = [kind |-> "accepted", order_id |-> Len(book) + 1,
                       status |-> StatusOf(sent, filled), fills |-> fills]
  BY DEF AcceptOrder
<1> DEFINE from == IF op = "modify" THEN existing.oid ELSE 0
           status == StatusOf(sent, filled)
           meant == IF op = "modify" THEN book[existing.oid].meant ELSE Meant(asked)
           blind == op = "modify" /\ (existing.side = NoText \/ book[existing.oid].blind)
           r == [market |-> sent.market, number |-> Cardinality(InMarket(sent.market)) + 1,
                 side |-> sent.side, type |-> sent.type, tif |-> sent.tif, price |-> sent.price,
                 size |-> sent.size, filled |-> filled, status |-> status,
                 meant |-> meant, blind |-> blind, from |-> from]
<1>4. Len(book) \in Nat /\ from \in 0..Len(book) /\ from \in 0..MaxOrders
  <2>1. Len(book) \in Nat /\ DOMAIN book = 1..Len(book)
    BY RowsShape DEF BookInv
  <2> QED BY <1>1, <1>2, <2>1, OrderEntryAssumption
<1>5. /\ sent.size \in 1..MaxSize /\ filled \in 0..MaxSize /\ filled <= sent.size
      /\ filled \in Nat /\ sent.size \in Nat
  BY <1>2, <1>3, OrderEntryAssumption DEF Sound
<1>6. status \in Open \cup Terminal /\ (status \in Open => filled < sent.size)
  <2>1. status \in Open \cup Terminal /\ (status \in Open => filled # sent.size)
    BY StatusFits
  <2> HIDE DEF status
  <2> QED BY <1>5, <2>1
<1>15. meant \in SUBSET Sides /\ blind \in BOOLEAN
  <2>1. op = "modify" => book[existing.oid].meant \in SUBSET Sides
    BY <1>2, RowsShape DEF BookInv, Row
  <2> QED BY <2>1, MeantSides
<1> HIDE DEF from, status, meant, blind
<1>7. r.number \in 1..MaxOrders => r \in Row
  BY <1>2, <1>4, <1>5, <1>6, <1>15 DEF Row, Sound
<1>8. /\ r.market = sent.market /\ r.number = Cardinality(InMarket(sent.market)) + 1
      /\ r.size = sent.size /\ r.filled = filled /\ r.status = status /\ r.from = from
      /\ r.side = sent.side /\ r.type = sent.type /\ r.meant = meant /\ r.blind = blind
  OBVIOUS
<1>9. book' = Append(book, r)
  BY <1>3 DEF from, status, meant, blind
<1> HIDE DEF r
<1>10. /\ BookInv' /\ Grows
       /\ DOMAIN book' = DOMAIN book \cup {n} /\ n \notin DOMAIN book /\ book'[n] = r
       /\ \A p \in DOMAIN book : book'[p] = book[p]
  BY <1>1, <1>4, <1>5, <1>6, <1>7, <1>8, <1>9, RowAdded
<1>11. PICK fills \in Executions(filled) :
         reply' = [kind |-> "accepted", order_id |-> n, status |-> status, fills |-> fills]
  BY <1>3 DEF status
<1>12. Total(fills) = filled
  BY <1>11 DEF Executions
<1>13. reply'.order_id = n /\ reply'.status = status /\ reply'.fills = fills
  BY <1>11
<1>14. AnswerOf(reply, sent)'
  <2>1. sent' = sent
    BY DEF AcceptOrder
  <2>2. Total(reply'.fills) = filled /\ filled <= filled /\ filled \in 0..sent.size
    BY <1>5, <1>12, <1>13, <1>3
  <2>3. reply'.order_id \in DOMAIN book' /\ book'[reply'.order_id] = r
    BY <1>10, <1>13
  <2> QED BY <1>6, <1>8, <1>13, <2>1, <2>2, <2>3 DEF AnswerOf
<1> QED BY <1>8, <1>10, <1>14 DEF from, meant, blind

\* A cancel takes an open order, which is the one that was named.
LEMMA CanceledRow ==
    ASSUME BookInv, Replaced, CancelAtVenue
    PROVE  /\ BookInv' /\ Grows /\ DOMAIN book' = DOMAIN book
           /\ \/ CancelRefused(reply)'
              \/ \E o \in Named(MarketIdFromOrderId(target), target) :
                   Free(o)' /\ reply'.order_id = o
<1> DEFINE found == {o \in Named(MarketIdFromOrderId(target), target) : book[o].status \in Open}
<1>1. CASE found = {}
  <2>1. book' = book /\ reply' = Rejection
    BY <1>1 DEF CancelAtVenue
  <2>2. CancelRefused(reply)'
    BY <2>1 DEF CancelRefused, Rejection
  <2> QED BY <2>1, <2>2, SameBook
<1>2. CASE found # {}
  <2>1. PICK o \in found : /\ book' = [book EXCEPT ![o].status = "CANCELED"]
                           /\ reply' = [kind |-> "canceled", order_id |-> o]
    BY <1>2 DEF CancelAtVenue
  <2> DEFINE r == [book[o] EXCEPT !.status = "CANCELED"]
  <2>2. /\ o \in Named(MarketIdFromOrderId(target), target) /\ o \in DOMAIN book
        /\ book[o].status \in Open /\ book[o] \in Row
    BY <2>1, RowsShape DEF BookInv, Named
  <2>3. /\ r \in Row /\ r.status = "CANCELED" /\ r.market = book[o].market
        /\ r.number = book[o].number /\ r.side = book[o].side /\ r.type = book[o].type
        /\ r.tif = book[o].tif /\ r.price = book[o].price /\ r.size = book[o].size
        /\ r.meant = book[o].meant /\ r.blind = book[o].blind /\ r.from = book[o].from /\ r.filled = book[o].filled
    BY <2>2 DEF Row, Terminal
  <2>4. book' = [book EXCEPT ![o] = r]
    BY <2>1
  <2>5. book[o].filled < book[o].size /\ book[o].filled <= book[o].size
    BY <2>2 DEF BookInv, Rows
  <2>6. book[o].filled \in 0..MaxSize
    BY <2>2 DEF Row
  <2>7. book[o].filled <= book[o].filled
    BY <2>6, OrderEntryAssumption
  <2>8. book[o].status \notin Terminal /\ r.status \notin Open /\ book[o].status # "CANCELED"
    BY <2>2, <2>3 DEF Open, Terminal
  <2> HIDE DEF r
  <2>9. /\ BookInv' /\ Grows /\ DOMAIN book' = DOMAIN book
        /\ \A p \in DOMAIN book : book'[p] = IF p = o THEN r ELSE book[p]
    BY <2>2, <2>3, <2>4, <2>5, <2>7, <2>8, RowChanges
  <2>10. \A p \in DOMAIN book : book'[p].from = book[p].from
    BY <2>9 DEF Grows
  <2>11. \A p \in DOMAIN book : book[p].from # o
    BY <2>2, <2>8 DEF Replaced, Pairs
  <2>12. Free(o)'
    BY <2>2, <2>3, <2>5, <2>9, <2>10, <2>11 DEF Free
  <2> QED BY <2>1, <2>2, <2>9, <2>12
<1> QED BY <1>1, <1>2

\* A fill adds to an open order, up to its size.
LEMMA FilledRow ==
    ASSUME BookInv, Fill
    PROVE  BookInv' /\ Grows /\ DOMAIN book' = DOMAIN book
<1>1. PICK o \in DOMAIN book :
        /\ book[o].status \in Open
        /\ \E q \in 1..(book[o].size - book[o].filled) :
             book' = [book EXCEPT ![o].filled = @ + q,
                        ![o].status = StatusOf(book[o], book[o].filled + q)]
  BY DEF Fill
<1>2. PICK q \in 1..(book[o].size - book[o].filled) :
        book' = [book EXCEPT ![o].filled = @ + q,
                   ![o].status = StatusOf(book[o], book[o].filled + q)]
  BY <1>1
<1> DEFINE filled == book[o].filled + q
           status == StatusOf(book[o], filled)
           r == [book[o] EXCEPT !.filled = filled, !.status = status]
<1>3. book[o] \in Row
  BY RowsShape DEF BookInv
<1>4. book[o].filled \in 0..MaxSize /\ book[o].size \in 1..MaxSize
  BY <1>3 DEF Row
<1>5. filled \in 0..MaxSize /\ book[o].filled <= filled /\ filled <= book[o].size /\ filled \in Nat
  BY <1>2, <1>4, OrderEntryAssumption
<1>6. status \in Open \cup Terminal /\ (status \in Open => filled # book[o].size)
  BY StatusFits
<1>7. book' = [book EXCEPT ![o] = r]
  BY <1>2
<1> HIDE DEF filled, status
<1>8. status \in Open => filled < book[o].size
  BY <1>4, <1>5, <1>6, OrderEntryAssumption
<1>9. /\ r \in Row /\ r.status = status /\ r.market = book[o].market
      /\ r.number = book[o].number /\ r.side = book[o].side /\ r.type = book[o].type
      /\ r.tif = book[o].tif /\ r.price = book[o].price /\ r.size = book[o].size
      /\ r.meant = book[o].meant /\ r.blind = book[o].blind /\ r.from = book[o].from /\ r.filled = filled
  BY <1>3, <1>5, <1>6 DEF Row
<1>10. book[o].status \notin Terminal
  BY <1>1 DEF Open, Terminal
<1> HIDE DEF r
<1> QED BY <1>5, <1>7, <1>8, <1>9, <1>10, RowChanges

\* The actions that leave the venue's orders alone.
Elsewhere ==
    \/ PlaceOrder \/ ValidateOrder \/ Validated \/ NameOrder \/ GetOrder
    \/ CancelAnswered \/ PlaceAnswered \/ Refused \/ Lost \/ RejectOrder

\* None of these does anything at the venue.
LEMMA ElsewhereSame == Elsewhere => UNCHANGED book
BY DEF Elsewhere, PlaceOrder, ValidateOrder, Validated, NameOrder, GetOrder, CancelAnswered,
       PlaceAnswered, Refused, Lost, RejectOrder

\* Every step is one of these.
LEMMA Steps == [Next]_vars => AcceptOrder \/ CancelAtVenue \/ Fill \/ Elsewhere \/ UNCHANGED vars
BY DEF Next, Elsewhere

\* Orders are added, filled and closed, never taken back, whatever step is taken.
LEMMA BookStep ==
    ASSUME EntryInv, [Next]_vars
    PROVE  /\ BookInv' /\ Grows
           /\ AcceptOrder \/ DOMAIN book' = DOMAIN book
<1>1. CASE AcceptOrder
  BY <1>1, AcceptedRow DEF EntryInv
<1>2. CASE CancelAtVenue
  BY <1>2, CanceledRow DEF EntryInv
<1>3. CASE Fill
  BY <1>3, FilledRow DEF EntryInv
<1>4. CASE Elsewhere
  BY <1>4, ElsewhereSame, SameBook DEF EntryInv
<1>5. CASE UNCHANGED vars
  BY <1>5, SameBook DEF EntryInv, vars
<1> QED BY <1>1, <1>2, <1>3, <1>4, <1>5, Steps

-----------------------------------------------------------------------------
(* What stays true while the venue's orders move on.                         *)

\* Orders keep their ids.
LEMMA SameNames ==
    ASSUME Grows, NEW o \in DOMAIN book
    PROVE  o \in DOMAIN book' /\ IdOf(o)' = IdOf(o)
BY DEF Grows, IdOf

\* What was read of the named order stays right.
LEMMA ReadKept ==
    ASSUME Grows, ReadOf(existing), UNCHANGED <<existing, target>>
    PROVE  ReadOf(existing)'
<1>1. existing.oid \in DOMAIN book /\ existing.oid \in DOMAIN book'
  BY SameNames DEF ReadOf
<1>2. /\ book'[existing.oid].market = book[existing.oid].market
      /\ book'[existing.oid].number = book[existing.oid].number
      /\ book'[existing.oid].size = book[existing.oid].size
      /\ book'[existing.oid].price = book[existing.oid].price
  BY <1>1 DEF Grows
<1> QED BY <1>1, <1>2 DEF ReadOf, IdOf

\* Quantities only grow, and stop growing when an order is closed.
LEMMA RowKept ==
    ASSUME Rows, Rows', Grows, NEW o \in DOMAIN book, NEW filled \in Nat, filled <= book[o].filled
    PROVE  /\ o \in DOMAIN book' /\ filled <= book'[o].filled
           /\ book'[o].size = book[o].size /\ book'[o].side = book[o].side
           /\ book'[o].type = book[o].type
           /\ book[o].status \in Terminal => book'[o] = book[o]
<1>1. /\ o \in DOMAIN book' /\ book[o].filled <= book'[o].filled
      /\ book'[o].size = book[o].size /\ book'[o].side = book[o].side
      /\ book'[o].type = book[o].type
      /\ book[o].status \in Terminal => book'[o] = book[o]
  BY DEF Grows
<1>2. book[o].filled \in 0..MaxSize
  BY RowsShape DEF Row
<1>3. book'[o].filled \in 0..MaxSize
  <2>1. \A p \in DOMAIN book' : book'[p] \in Row
    <3>1. book' \in Seq(Row)
      BY DEF Rows
    <3> QED BY <3>1, LenProperties, ElementOfSeq
  <2> QED BY <1>1, <2>1 DEF Row
<1>4. filled <= book'[o].filled
  BY <1>1, <1>2, <1>3, OrderEntryAssumption
<1> QED BY <1>1, <1>4

\* An acceptance stays true, whatever is filled after it.
LEMMA AnswerKept ==
    ASSUME Rows, Rows', Grows, AnswerOf(reply, sent), sent.size \in Nat, UNCHANGED <<reply, sent>>
    PROVE  AnswerOf(reply, sent)'
<1> DEFINE o == reply.order_id
           filled == Total(reply.fills)
<1>1. o \in DOMAIN book /\ filled \in 0..sent.size /\ filled <= book[o].filled
  BY DEF AnswerOf
<1>2. filled \in Nat
  BY <1>1
<1>3. /\ o \in DOMAIN book' /\ filled <= book'[o].filled
      /\ book'[o].size = book[o].size /\ book'[o].side = book[o].side
      /\ book'[o].type = book[o].type
      /\ book[o].status \in Terminal => book'[o] = book[o]
  BY <1>1, <1>2, RowKept
<1> QED BY <1>1, <1>3 DEF AnswerOf

\* So does what the caller holds.
LEMMA ShownKept ==
    ASSUME Rows, Rows', Grows, Shows(view), UNCHANGED view
    PROVE  Shows(view)'
<1>1. view.oid \in DOMAIN book /\ view.filled \in Nat /\ view.filled <= book[view.oid].filled
  BY DEF Shows
<1>2. /\ view.oid \in DOMAIN book' /\ view.filled <= book'[view.oid].filled
      /\ book'[view.oid].size = book[view.oid].size /\ book'[view.oid].side = book[view.oid].side
      /\ book'[view.oid].type = book[view.oid].type
      /\ book[view.oid].status \in Terminal => book'[view.oid] = book[view.oid]
  BY <1>1, RowKept
<1> QED BY <1>1, <1>2 DEF Shows

\* A canceled order stays as it is.
LEMMA FreeKept ==
    ASSUME Grows, DOMAIN book' = DOMAIN book, Free(existing.oid), UNCHANGED existing
    PROVE  Free(existing.oid)'
<1>1. book[existing.oid].status \in Terminal
  BY DEF Free, Terminal
<1>2. existing.oid \in DOMAIN book /\ book'[existing.oid] = book[existing.oid]
  BY <1>1 DEF Free, Grows
<1>3. \A r \in DOMAIN book : book'[r].from = book[r].from
  BY DEF Grows
<1> QED BY <1>2, <1>3 DEF Free

\* No pair changes but by an acceptance.
LEMMA PairsKept ==
    ASSUME Grows, DOMAIN book' = DOMAIN book, Pairs
    PROVE  Pairs'
<1>1. \A r \in DOMAIN book : book'[r].from = book[r].from
  BY DEF Grows
<1>2. ASSUME NEW o \in DOMAIN book, NEW r \in DOMAIN book, book[r].from = o
      PROVE  /\ book'[o] = book[o] /\ book[o].status = "CANCELED"
             /\ book[o].filled < book[o].size
             /\ \A q \in DOMAIN book : book[q].from = o => q = r
  BY <1>2 DEF Pairs, Grows, Terminal
<1> QED BY <1>1, <1>2 DEF Pairs

\* An acceptance makes the one pair that was free.
LEMMA PairAdded ==
    ASSUME EntryInv, AcceptOrder
    PROVE  Pairs'
<1> DEFINE n == Len(book) + 1
<1>1. /\ DOMAIN book' = DOMAIN book \cup {n} /\ n \notin DOMAIN book
      /\ \A p \in DOMAIN book : book'[p] = book[p]
      /\ book'[n].from = IF op = "modify" THEN existing.oid ELSE 0
  BY AcceptedRow DEF EntryInv
<1>2. op = "modify" => Free(existing.oid)
  BY DEF EntryInv, Replaced, AcceptOrder
<1>3. /\ DOMAIN book = 1..Len(book) /\ Len(book) \in Nat
      /\ \A p \in DOMAIN book : book[p].from < p /\ book[p] \in Row
  BY RowsShape DEF EntryInv, BookInv, Rows
<1>4. 0 \notin DOMAIN book /\ n # 0
  BY <1>3
<1>5. \A p \in DOMAIN book : book[p].from # n
  <2> TAKE p \in DOMAIN book
  <2>1. p \in 1..Len(book) /\ book[p].from < p /\ book[p].from \in 0..MaxOrders
    BY <1>3 DEF Row
  <2> QED BY <1>3, <2>1, OrderEntryAssumption
<1> HIDE DEF n
<1>6. SUFFICES ASSUME NEW o \in DOMAIN book', NEW r \in DOMAIN book', book'[r].from = o
               PROVE  /\ book'[o].status = "CANCELED" /\ book'[o].filled < book'[o].size
                      /\ \A q \in DOMAIN book' : book'[q].from = o => q = r
  BY DEF Pairs
<1>7. o # n => o \in DOMAIN book
  BY <1>1
<1>8. CASE r = n
  <2>1. op = "modify" /\ o = existing.oid
    BY <1>1, <1>4, <1>6, <1>8
  <2>2. /\ o \in DOMAIN book /\ book[o].status = "CANCELED" /\ book[o].filled < book[o].size
        /\ \A q \in DOMAIN book : book[q].from # o
    BY <1>2, <2>1 DEF Free
  <2>3. \A q \in DOMAIN book' : book'[q].from = o => q = r
    BY <1>1, <1>8, <2>2
  <2> QED BY <1>1, <2>2, <2>3
<1>9. CASE r # n
  <2>1. r \in DOMAIN book /\ book[r].from = o
    BY <1>1, <1>6, <1>9
  <2>2. o \in DOMAIN book
    BY <1>5, <1>7, <2>1
  <2>3. /\ book[o].status = "CANCELED" /\ book[o].filled < book[o].size
        /\ \A q \in DOMAIN book : book[q].from = o => q = r
    BY <2>1, <2>2 DEF EntryInv, Replaced, Pairs
  <2>4. book'[n].from # o
    BY <1>1, <1>2, <1>4, <2>1, <2>2 DEF Free
  <2> QED BY <1>1, <2>2, <2>3, <2>4
<1> QED BY <1>8, <1>9

-----------------------------------------------------------------------------
(* Each part of the invariant is kept.                                       *)

\* What modify_order asks for can be checked like what a caller asks for.
LEMMA ReplacementWords ==
    ASSUME BookInv, ReadOf(existing), asked \in AllChanges
    PROVE  LET a == Replacement(existing, asked) IN
           a.market \in MarketIds /\ a.size \in Sizes /\ a.price \in Prices
<1> DEFINE o == existing.oid
           a == Replacement(existing, asked)
<1>1. o \in DOMAIN book /\ IdOf(o) = target /\ book[o] \in Row
      /\ existing.size \in {0, book[o].size} /\ existing.price \in {NoText, book[o].price}
  BY RowsShape DEF BookInv, ReadOf
<1>2. /\ book[o].market \in MarketIds /\ book[o].size \in 1..MaxSize
      /\ book[o].price \in Prices /\ NoText \in Prices
  BY <1>1 DEF Row, Prices
<1>3. MarketIdFromOrderId(target) = book[o].market
  BY <1>1, NamedOnly
<1>4. asked.size \in SeqOf(Sizes, 1) /\ asked.price \in SeqOf(Prices, 1)
  BY DEF AllChanges
<1>5. Or(asked.size, existing.size) \in Sizes
  <2>1. existing.size \in Sizes
    BY <1>1, <1>2, OrderEntryAssumption DEF Sizes
  <2>2. asked.size # <<>> => asked.size[1] \in Sizes
    BY <1>4, Given
  <2> QED BY <2>1, <2>2 DEF Or
<1>6. (IF asked.price = <<>> THEN existing.price ELSE Decimal(asked.price[1])) \in Prices
  <2>1. asked.price # <<>> => asked.price[1] \in Prices
    BY <1>4, Given
  <2>2. existing.price \in Prices
    BY <1>1, <1>2
  <2> QED BY <2>1, <2>2 DEF Decimal, Prices
<1> QED BY <1>2, <1>3, <1>5, <1>6 DEF Replacement

\* What a caller asks for may be sent, if it passes the checks.
LEMMA WordsSound ==
    ASSUME NEW a \in Words, Check(a) = "ok"
    PROVE  Sound(Body(a))
<1>1. a.market \in MarketIds /\ a.size \in Sizes /\ a.price \in Prices
  BY OrderEntryAssumption DEF AllWords
<1> QED BY <1>1, CheckedBody

\* Each operation takes its steps in order, with what the next one needs.
LEMMA PhasesStep ==
    ASSUME EntryInv, [Next]_vars
    PROVE  Phases'
<1> USE DEF Phases
<1>0. Phases /\ BookInv /\ Read
  BY DEF EntryInv
<1>1. CASE PlaceOrder
  <2>1. PICK a \in Words :
          IF Check(a) = "ok"
            THEN Begins("place", "place") /\ asked' = a /\ sent' = Body(a)
                 /\ UNCHANGED <<existing, reply>>
            ELSE op' = "place" /\ Ends(Check(a))
    BY <1>1 DEF PlaceOrder
  <2>2. CASE Check(a) = "ok"
    BY <2>1, <2>2, WordsSound DEF Begins, Sound
  <2>3. CASE Check(a) # "ok"
    BY <2>1, <2>3, Checked DEF Ends, Results
  <2> QED BY <2>2, <2>3
<1>2. CASE ValidateOrder
  <2>1. PICK a \in Words :
          IF Unreadable(a)
            THEN op' = "validate" /\ Ends("ValueError")
            ELSE Begins("validate", "validate") /\ asked' = a /\ sent' = Body(a)
                 /\ UNCHANGED <<existing, reply>>
    BY <1>2 DEF ValidateOrder
  <2> QED BY <2>1 DEF Begins, Ends, Results
<1>3. CASE Validated
  BY <1>3 DEF Validated, Ends, Results
<1>4. CASE NameOrder
  <2>1. PICK o \in {"get", "cancel", "modify"} :
          IF MarketIdFromOrderId(target') = NoMarket
            THEN op' = o /\ Ends("ConfigurationError")
            ELSE /\ Begins(o, IF o = "cancel" THEN "cancel" ELSE "read")
                 /\ asked' \in (IF o = "modify" THEN Changes ELSE {None})
    BY <1>4 DEF NameOrder
  <2>2. CASE MarketIdFromOrderId(target') = NoMarket
    BY <2>1, <2>2 DEF Ends, Results
  <2>3. CASE MarketIdFromOrderId(target') # NoMarket
    <3>1. o = "modify" => asked' \in AllChanges
      BY <2>1, <2>3, OrderEntryAssumption
    <3> QED BY <2>1, <2>3, <3>1 DEF Begins
  <2> QED BY <2>2, <2>3
<1>5. CASE GetOrder
  <2>1. \/ Ends("NotFoundError") \/ Ends("ok")
        \/ /\ op = "modify" /\ pc = "read" /\ pc' = "cancel"
           /\ UNCHANGED <<op, asked, sent, reply, view, res>>
    BY <1>0, <1>5 DEF GetOrder
  <2> QED BY <1>0, <2>1 DEF Ends, Results
<1>6. CASE CancelAnswered
  <2> DEFINE a == Replacement(existing, asked)
  <2>1. CASE CancelRefused(reply)
    BY <1>6, <2>1 DEF CancelAnswered, Ends, Results
  <2>2. CASE ~CancelRefused(reply) /\ op = "cancel"
    BY <1>6, <2>2 DEF CancelAnswered, Ends, Results
  <2>3. CASE ~CancelRefused(reply) /\ op # "cancel"
    <3>1. pc = "canceled" /\ op = "modify" /\ op' = op
      BY <1>0, <1>6, <2>3 DEF CancelAnswered
    <3>2. ReadOf(existing) /\ asked \in AllChanges
      BY <1>0, <3>1 DEF Read, Working
    <3>3. /\ a.market \in MarketIds /\ a.size \in Sizes /\ a.price \in Prices
      BY <1>0, <3>2, ReplacementWords
    <3>4. IF Check(a) = "ok"
            THEN /\ pc' = "place" /\ asked' = a /\ sent' = Body(a)
                 /\ UNCHANGED <<existing, reply, res>>
            ELSE Ends(Check(a))
      BY <1>6, <2>3 DEF CancelAnswered
    <3> HIDE DEF a
    <3>5. CASE Check(a) = "ok"
      <4>1. Sound(Body(a))
        BY <3>3, <3>5, CheckedBody
      <4>2. pc' = "place" /\ asked' = a /\ sent' = Body(a) /\ res' = res
        BY <3>4, <3>5
      <4> QED BY <1>0, <3>1, <3>3, <4>1, <4>2 DEF Sound
    <3>6. CASE Check(a) # "ok"
      BY <3>4, <3>6, Checked DEF Ends, Results
    <3> QED BY <3>5, <3>6
  <2> QED BY <2>1, <2>2, <2>3
<1>7. CASE PlaceAnswered
  BY <1>7 DEF PlaceAnswered, Ends, Results
<1>8. CASE Refused
  BY <1>8 DEF Refused, Ends, Results
<1>9. CASE Lost
  BY <1>9 DEF Lost, Ends, Results
<1>10. CASE AcceptOrder
  BY <1>0, <1>10 DEF AcceptOrder, Sound
<1>11. CASE RejectOrder
  BY <1>0, <1>11 DEF RejectOrder, Sound
<1>12. CASE CancelAtVenue
  BY <1>0, <1>12 DEF CancelAtVenue
<1>13. CASE Fill
  BY <1>0, <1>13 DEF Fill, Sound
<1>14. CASE UNCHANGED vars
  BY <1>0, <1>14 DEF vars, Sound
<1> QED BY <1>1, <1>2, <1>3, <1>4, <1>5, <1>6, <1>7, <1>8, <1>9, <1>10, <1>11, <1>12,
           <1>13, <1>14 DEF Next

\* What is read is the order that was named, and it stays that.
LEMMA ReadStep ==
    ASSUME EntryInv, [Next]_vars
    PROVE  Read'
<1>0. Read /\ Phases /\ BookInv /\ BookInv' /\ Grows
  BY BookStep DEF EntryInv
<1>1. CASE /\ pc \in Working => pc' \in Working
           /\ pc' \in Working => pc \in Working
           /\ UNCHANGED <<op, existing, target>>
  <2>1. op = "modify" /\ pc' \in Working => ReadOf(existing)'
    BY <1>0, <1>1, ReadKept DEF Read
  <2> QED BY <1>0, <1>1, <2>1 DEF Read
<1>2. ASSUME NEW r, Ends(r) PROVE Read'
  BY <1>2 DEF Ends, Read, Working
<1>3. CASE PlaceOrder
  <2>1. PICK a \in Words :
          IF Check(a) = "ok"
            THEN Begins("place", "place") /\ asked' = a /\ sent' = Body(a)
                 /\ UNCHANGED <<existing, reply>>
            ELSE op' = "place" /\ Ends(Check(a))
    BY <1>3 DEF PlaceOrder
  <2>2. existing = None
    BY <1>0, <1>3 DEF PlaceOrder, Read, Working
  <2> QED BY <1>2, <2>1, <2>2 DEF Begins, Read
<1>4. CASE ValidateOrder
  <2>1. PICK a \in Words :
          IF Unreadable(a)
            THEN op' = "validate" /\ Ends("ValueError")
            ELSE Begins("validate", "validate") /\ asked' = a /\ sent' = Body(a)
                 /\ UNCHANGED <<existing, reply>>
    BY <1>4 DEF ValidateOrder
  <2>2. existing = None
    BY <1>0, <1>4 DEF ValidateOrder, Read, Working
  <2> QED BY <1>2, <2>1, <2>2 DEF Begins, Read
<1>5. CASE Validated
  BY <1>2, <1>5 DEF Validated
<1>6. CASE NameOrder
  <2>1. PICK o \in {"get", "cancel", "modify"} :
          IF MarketIdFromOrderId(target') = NoMarket
            THEN op' = o /\ Ends("ConfigurationError")
            ELSE /\ Begins(o, IF o = "cancel" THEN "cancel" ELSE "read")
                 /\ UNCHANGED existing
    BY <1>6 DEF NameOrder
  <2>2. existing = None
    BY <1>0, <1>6 DEF NameOrder, Read, Working
  <2>3. CASE Begins(o, IF o = "cancel" THEN "cancel" ELSE "read") /\ UNCHANGED existing
    BY <2>2, <2>3 DEF Begins, Read, Working
  <2> QED BY <1>2, <2>1, <2>3
<1>7. CASE GetOrder
  <2>1. CASE \E r \in {"NotFoundError", "ok"} : Ends(r)
    BY <1>2, <2>1
  <2>2. CASE \A r \in {"NotFoundError", "ok"} : ~Ends(r)
    <3> DEFINE found == Named(MarketIdFromOrderId(target), target)
    <3>1. PICK o \in found, told \in Records :
            \E remaining \in Remaining(o) : existing' = FromApi(o, told, remaining)
      BY <1>7, <2>2 DEF GetOrder
    <3>2. pc = "read" /\ op # "get" /\ pc' = "cancel" /\ UNCHANGED <<book, op, target>>
      BY <1>7, <2>2 DEF GetOrder
    <3>3. op' = "modify"
      BY <1>0, <3>2 DEF Phases
    <3>4. o \in DOMAIN book /\ IdOf(o) = target
      BY DEF Named
    <3>5. existing'.oid = o /\ existing'.size \in {0, book[o].size}
          /\ existing'.price \in {NoText, book[o].price}
      BY <3>1 DEF FromApi
    <3>6. ReadOf(existing)'
      BY <3>2, <3>4, <3>5 DEF ReadOf, IdOf
    <3> QED BY <3>2, <3>3, <3>6 DEF Read, Working
  <2> QED BY <2>1, <2>2
<1>8. CASE CancelAnswered
  <2>1. CASE \E r : Ends(r)
    BY <1>2, <2>1
  <2>2. CASE ~\E r : Ends(r)
    <3>1. pc = "canceled" /\ pc' = "place" /\ UNCHANGED <<op, existing, target>>
      BY <1>8, <2>2 DEF CancelAnswered
    <3> QED BY <1>1, <3>1 DEF Working
  <2> QED BY <2>1, <2>2
<1>9. CASE PlaceAnswered
  BY <1>2, <1>9 DEF PlaceAnswered
<1>10. CASE Refused
  BY <1>2, <1>10 DEF Refused
<1>11. CASE Lost
  BY <1>2, <1>11 DEF Lost
<1>12. CASE AcceptOrder
  BY <1>1, <1>12 DEF AcceptOrder, Working
<1>13. CASE RejectOrder
  BY <1>1, <1>13 DEF RejectOrder, Working
<1>14. CASE CancelAtVenue
  BY <1>1, <1>14 DEF CancelAtVenue, Working
<1>15. CASE Fill
  BY <1>1, <1>15 DEF Fill
<1>16. CASE UNCHANGED vars
  BY <1>1, <1>16 DEF vars
<1> QED BY <1>3, <1>4, <1>5, <1>6, <1>7, <1>8, <1>9, <1>10, <1>11, <1>12, <1>13, <1>14, <1>15,
           <1>16 DEF Next

\* An answer stays true while it is under way.
LEMMA AnsweredStep ==
    ASSUME EntryInv, [Next]_vars
    PROVE  Answered'
<1> DEFINE Accepted == pc = "placed" /\ reply.kind # "rejected" => AnswerOf(reply, sent)
           Canceled == pc = "canceled" /\ ~CancelRefused(reply) => Closed(reply.order_id)
<1>0. BookInv /\ BookInv' /\ Grows /\ Accepted /\ Canceled /\ Phases
  BY BookStep DEF EntryInv, Answered
<1>1. CASE AcceptOrder
  <2>1. AnswerOf(reply, sent)' /\ pc' = "placed"
    BY <1>1, AcceptedRow DEF EntryInv, AcceptOrder
  <2> QED BY <2>1 DEF Answered
<1>2. CASE RejectOrder
  BY <1>2 DEF RejectOrder, Rejection, Answered
<1>3. ASSUME UNCHANGED <<pc, reply, sent>> PROVE Answered'
  <2>1. ASSUME pc = "placed", reply.kind # "rejected" PROVE AnswerOf(reply, sent)'
    <3>1. AnswerOf(reply, sent) /\ sent.size \in 1..MaxSize
      BY <1>0, <2>1 DEF Phases, Sound
    <3>2. sent.size \in Nat
      BY <3>1, OrderEntryAssumption
    <3> QED BY <1>0, <1>3, <3>1, <3>2, AnswerKept DEF BookInv
  <2>2. ASSUME pc = "canceled", ~CancelRefused(reply) PROVE Closed(reply.order_id)'
    BY <1>0, <1>3, <2>2 DEF Closed, Grows, Terminal
  <2> QED BY <1>3, <2>1, <2>2 DEF Answered, CancelRefused
<1>4. ASSUME pc' \notin {"placed", "canceled"} PROVE Answered'
  BY <1>4 DEF Answered
<1>5. CASE Fill
  BY <1>3, <1>5 DEF Fill
<1>6. CASE UNCHANGED vars
  BY <1>3, <1>6 DEF vars
<1>7. CASE PlaceOrder \/ ValidateOrder \/ Validated \/ NameOrder \/ GetOrder
  BY <1>4, <1>7 DEF PlaceOrder, ValidateOrder, Validated, NameOrder, GetOrder, Begins, Ends
<1>8. CASE CancelAnswered \/ PlaceAnswered \/ Refused \/ Lost
  BY <1>4, <1>8 DEF CancelAnswered, PlaceAnswered, Refused, Lost, Ends
<1>9. CASE CancelAtVenue
  <2>1. pc' = "canceled"
    BY <1>9 DEF CancelAtVenue
  <2>2. CancelRefused(reply)' \/ Closed(reply.order_id)'
    BY <1>9, CanceledRow DEF EntryInv, Free, Closed
  <2> QED BY <2>1, <2>2 DEF Answered
<1> QED BY <1>1, <1>2, <1>5, <1>6, <1>7, <1>8, <1>9 DEF Next

\* What the caller holds is what the venue said of an order that it has, and not more than is
\* true by now.
LEMMA ViewedStep ==
    ASSUME EntryInv, [Next]_vars
    PROVE  Viewed'
<1>0. BookInv /\ BookInv' /\ Rows /\ Rows' /\ Grows /\ Answered /\ Phases /\ Viewed
  BY BookStep DEF EntryInv, BookInv
<1>1. CASE UNCHANGED view
  BY <1>0, <1>1, ShownKept DEF Viewed
<1>2. CASE GetOrder
  <2>1. CASE UNCHANGED view
    BY <1>1, <2>1
  <2>2. CASE ~UNCHANGED view
    <3> DEFINE found == Named(MarketIdFromOrderId(target), target)
    <3>1. PICK o \in found, told \in Records :
            \E remaining \in Remaining(o) : view' = FromApi(o, told, remaining)
      BY <1>2, <2>2 DEF GetOrder
    <3>2. PICK remaining \in Remaining(o) : view' = FromApi(o, told, remaining)
      BY <3>1
    <3>3. o \in DOMAIN book /\ book' = book
      BY <1>2 DEF Named, GetOrder
    <3> DEFINE size == IF "quantity" \in told THEN book[o].size ELSE 0
               filled == IF "filled_quantity" \in told THEN book[o].filled ELSE 0
               left == IF "remaining_quantity" \in told THEN remaining ELSE Rest(size, filled)
    <3>4. /\ view'.oid = o /\ view'.status = book[o].status /\ view'.told = told
          /\ view'.side = (IF "side" \in told THEN book[o].side ELSE NoText)
          /\ "order_type" \in told => view'.type = book[o].type
          /\ view'.size = size /\ view'.filled = filled /\ view'.remaining = left
      BY <3>2 DEF FromApi
    <3>5. book[o] \in Row
      BY <1>0, <3>3, RowsShape
    <3>6. /\ book[o].filled \in Nat /\ book[o].size \in Nat
          /\ book[o].filled <= book[o].size
      <4>1. book[o].filled \in 0..MaxSize /\ book[o].size \in 1..MaxSize
        BY <3>5 DEF Row
      <4> QED BY <1>0, <3>3, <4>1, OrderEntryAssumption DEF Rows
    <3>7. /\ remaining \in Nat /\ book[o].filled + remaining <= book[o].size
          /\ book[o].status \in Open => book[o].filled + remaining = book[o].size
      <4>1. \/ remaining = book[o].size - book[o].filled
            \/ remaining = 0 /\ book[o].status \in Terminal
        BY DEF Remaining
      <4>2. book[o].status \in Terminal => book[o].status \notin Open
        BY DEF Terminal, Open
      <4> QED BY <3>6, <4>1, <4>2
    <3>8. filled \in Nat /\ size \in Nat /\ filled <= book[o].filled
      BY <3>6
    <3>9. left \in Nat
      BY <3>7, <3>8 DEF Rest
    <3>10. ASSUME Quantities \subseteq told
           PROVE  /\ filled = book[o].filled /\ filled + left <= size
                  /\ book[o].status \in Open => filled + left = size
      <4>1. filled = book[o].filled /\ size = book[o].size
        BY <3>10 DEF Quantities
      <4>2. CASE "remaining_quantity" \in told
        BY <3>7, <4>1, <4>2
      <4>3. CASE "remaining_quantity" \notin told
        <5>1. left = book[o].size - book[o].filled
          BY <3>6, <4>1, <4>3 DEF Rest
        <5> QED BY <3>6, <4>1, <5>1
      <4> QED BY <4>2, <4>3
    <3> HIDE DEF filled, left
    <3>11. Shows(view)'
      BY <3>3, <3>4, <3>8, <3>9, <3>10 DEF Shows
    <3> QED BY <3>11 DEF Viewed
  <2> QED BY <2>1, <2>2
<1>3. CASE PlaceAnswered
  <2>1. CASE reply.kind = "rejected"
    BY <1>1, <1>3, <2>1 DEF PlaceAnswered
  <2>2. CASE reply.kind # "rejected"
    <3> DEFINE filled == Total(reply.fills)
               o == reply.order_id
    <3>1. /\ view' = FromSubmit(sent, reply) /\ book' = book
          /\ AnswerOf(reply, sent) /\ sent.size \in 1..MaxSize
      BY <1>0, <1>3, <2>2 DEF PlaceAnswered, Answered, Phases, Sound
    <3>2. /\ o \in DOMAIN book
          /\ book[o].size = sent.size /\ book[o].side = sent.side /\ book[o].type = sent.type
          /\ filled \in 0..sent.size /\ filled <= book[o].filled
          /\ reply.status \in Open \cup Terminal
          /\ reply.status \in Terminal => book[o].filled = filled /\ book[o].status = reply.status
      BY <3>1 DEF AnswerOf
    <3>3. /\ view'.oid = o /\ view'.status = reply.status /\ view'.side = sent.side
          /\ view'.type = sent.type /\ view'.size = sent.size /\ view'.filled = filled
          /\ "quantity" \in view'.told /\ "side" \in view'.told
          /\ view'.remaining = IF filled > sent.size THEN 0 ELSE sent.size - filled
      BY <3>1 DEF FromSubmit, Submitted, Rest, Fields, Quantities
    <3> HIDE DEF filled, o
    <3>4. /\ filled \in Nat /\ ~(filled > sent.size) /\ sent.size - filled \in Nat
          /\ filled + (sent.size - filled) = sent.size
          /\ filled + (sent.size - filled) <= sent.size
      BY <3>1, <3>2, OrderEntryAssumption
    <3>5. Shows(view)'
      BY <3>1, <3>2, <3>3, <3>4 DEF Shows
    <3> QED BY <3>5 DEF Viewed
  <2> QED BY <2>1, <2>2
<1>4. CASE CancelAnswered
  <2>1. CASE UNCHANGED view
    BY <1>1, <2>1
  <2>2. CASE ~UNCHANGED view
    <3>1. /\ pc = "canceled" /\ ~CancelRefused(reply) /\ book' = book
          /\ view' = FromCancel(reply.order_id)
      BY <1>4, <2>2 DEF CancelAnswered
    <3>2. Closed(reply.order_id)
      BY <1>0, <3>1 DEF Answered
    <3>3. book[reply.order_id].filled \in 0..MaxSize
      BY <1>0, <3>2, RowsShape DEF Closed, Row
    <3>4. 0 <= book[reply.order_id].filled
      BY <3>3, OrderEntryAssumption
    <3>5. /\ view'.oid = reply.order_id /\ view'.status = "CANCELED" /\ view'.told = {}
          /\ view'.side = NoText /\ view'.size = 0 /\ view'.filled = 0 /\ view'.remaining = 0
      BY <3>1 DEF FromCancel
    <3>6. ~(Quantities \subseteq view'.told)
      BY <3>5 DEF Quantities
    <3>7. Shows(view)'
      BY <3>1, <3>2, <3>4, <3>5, <3>6 DEF Shows, Closed
    <3> QED BY <3>7 DEF Viewed
  <2> QED BY <2>1, <2>2
<1>5. CASE PlaceOrder \/ ValidateOrder \/ Validated \/ NameOrder \/ Refused \/ Lost
  BY <1>1, <1>5 DEF PlaceOrder, ValidateOrder, Validated, NameOrder, Refused, Lost
<1>6. CASE AcceptOrder \/ RejectOrder \/ CancelAtVenue \/ Fill \/ UNCHANGED vars
  BY <1>1, <1>6 DEF AcceptOrder, RejectOrder, CancelAtVenue, Fill, vars
<1> QED BY <1>2, <1>3, <1>4, <1>5, <1>6 DEF Next

\* Only the order that was canceled for it has a replacement, and only one.
LEMMA ReplacedStep ==
    ASSUME EntryInv, [Next]_vars
    PROVE  Replaced'
<1> DEFINE Held == op = "modify" /\ pc = "canceled" /\ ~CancelRefused(reply) => Free(existing.oid)
           Ready == op = "modify" /\ pc = "place" => Free(existing.oid)
<1>0. /\ BookInv /\ BookInv' /\ Grows /\ Phases /\ Read /\ Held /\ Ready /\ Pairs /\ Unreplaced
      /\ AcceptOrder \/ DOMAIN book' = DOMAIN book
  BY BookStep DEF EntryInv, Replaced
<1>1. Pairs'
  BY <1>0, PairsKept, PairAdded
<1>2. ASSUME DOMAIN book' = DOMAIN book, UNCHANGED <<op, pc, existing, reply>>
      PROVE  Held' /\ Ready'
  BY <1>0, <1>2, FreeKept DEF CancelRefused
<1>3. ASSUME pc' \notin {"canceled", "place"}
      PROVE  Held' /\ Ready'
  BY <1>3
<1>4. ASSUME NEW r, Ends(r)
      PROVE  Held' /\ Ready' /\ (r \notin WrongWords => Unreplaced')
  BY <1>3, <1>4 DEF Ends, Unreplaced
<1>5. ASSUME res' \notin WrongWords
      PROVE  Unreplaced'
  BY <1>5 DEF Unreplaced
<1>6. \A o, r \in DOMAIN book : IdOf(o) = IdOf(r) => o = r
  BY <1>0, OwnName DEF Named
<1>7. CASE PlaceOrder
  <2>1. op' = "place" /\ pc' \notin {"canceled"}
    BY <1>7 DEF PlaceOrder, Begins, Ends
  <2>2. Held' /\ Ready' /\ Unreplaced'
    BY <2>1 DEF Unreplaced
  <2> QED BY <1>1, <2>2 DEF Replaced
<1>8. CASE ValidateOrder
  <2>1. op' = "validate"
    BY <1>8 DEF ValidateOrder, Begins, Ends
  <2>2. Held' /\ Ready' /\ Unreplaced'
    BY <2>1 DEF Unreplaced
  <2> QED BY <1>1, <2>2 DEF Replaced
<1>9. CASE Validated
  BY <1>1, <1>4, <1>9 DEF Validated, Replaced, WrongWords
<1>10. CASE NameOrder
  <2>1. PICK o \in {"get", "cancel", "modify"} :
          IF MarketIdFromOrderId(target') = NoMarket
            THEN op' = o /\ Ends("ConfigurationError")
            ELSE Begins(o, IF o = "cancel" THEN "cancel" ELSE "read")
    BY <1>10 DEF NameOrder
  <2>2. Held' /\ Ready'
    BY <1>3, <2>1 DEF Begins, Ends
  <2>3. CASE MarketIdFromOrderId(target') = NoMarket
    <3>1. book' = book
      BY <1>10 DEF NameOrder
    <3>2. \A o_1 \in DOMAIN book : IdOf(o_1) # target'
      BY <1>0, <2>3, OwnName
    <3>3. Unreplaced'
      BY <3>1, <3>2 DEF Unreplaced, IdOf
    <3> QED BY <1>1, <2>2, <3>3 DEF Replaced
  <2>4. CASE MarketIdFromOrderId(target') # NoMarket
    BY <1>1, <1>5, <2>1, <2>2, <2>4 DEF Begins, Replaced, WrongWords
  <2> QED BY <2>3, <2>4
<1>11. CASE GetOrder
  <2>1. CASE \E r \in {"NotFoundError", "ok"} : Ends(r)
    BY <1>1, <1>4, <2>1 DEF Replaced, WrongWords
  <2>2. CASE \A r \in {"NotFoundError", "ok"} : ~Ends(r)
    <3>1. pc = "read" /\ pc' = "cancel" /\ res' = res
      BY <1>11, <2>2 DEF GetOrder
    <3>2. res' = "none"
      BY <1>0, <3>1 DEF Phases
    <3> QED BY <1>1, <1>3, <1>5, <3>1, <3>2 DEF Replaced, WrongWords
  <2> QED BY <2>1, <2>2
<1>12. CASE CancelAnswered
  <2>1. pc = "canceled" /\ UNCHANGED <<book, op, target>>
    BY <1>12 DEF CancelAnswered
  <2>2. CASE CancelRefused(reply) \/ op = "cancel"
    BY <1>1, <1>4, <1>12, <2>2 DEF CancelAnswered, Replaced, WrongWords
  <2>3. CASE ~CancelRefused(reply) /\ op # "cancel"
    <3> DEFINE a == Replacement(existing, asked)
    <3>1. op = "modify" /\ Free(existing.oid) /\ ReadOf(existing)
      BY <1>0, <2>1, <2>3 DEF Phases, Read, Working
    <3>2. IF Check(a) = "ok"
            THEN pc' = "place" /\ UNCHANGED <<existing, reply, res>>
            ELSE Ends(Check(a))
      BY <1>12, <2>3 DEF CancelAnswered
    <3> HIDE DEF a
    <3>3. CASE Check(a) = "ok"
      <4>1. Free(existing.oid)'
        BY <2>1, <3>1, <3>2, <3>3 DEF Free
      <4>2. res' = "none"
        BY <1>0, <2>1, <3>2, <3>3 DEF Phases
      <4>3. pc' = "place"
        BY <3>2, <3>3
      <4> QED BY <1>1, <1>5, <4>1, <4>2, <4>3 DEF Replaced, WrongWords
    <3>4. CASE Check(a) # "ok"
      <4>1. Held' /\ Ready'
        BY <1>4, <3>2, <3>4
      <4>2. \A o, r \in DOMAIN book : IdOf(o) = target => book[r].from # o
        BY <1>6, <3>1 DEF Free, ReadOf
      <4>3. Unreplaced'
        BY <2>1, <4>2 DEF Unreplaced, IdOf
      <4> QED BY <1>1, <4>1, <4>3 DEF Replaced
    <3> QED BY <3>3, <3>4
  <2> QED BY <2>2, <2>3
<1>13. CASE PlaceAnswered
  <2>1. PICK r : Ends(r) /\ r \notin WrongWords
    BY <1>13 DEF PlaceAnswered, WrongWords
  <2> QED BY <1>1, <1>4, <2>1 DEF Replaced
<1>14. CASE Refused
  <2>1. PICK r : Ends(r) /\ r \notin WrongWords
    BY <1>14 DEF Refused, WrongWords
  <2> QED BY <1>1, <1>4, <2>1 DEF Replaced
<1>15. CASE Lost
  BY <1>1, <1>4, <1>15 DEF Lost, Replaced, WrongWords
<1>16. CASE AcceptOrder \/ RejectOrder
  <2>1. pc = "place" /\ pc' = "placed" /\ res' = res
    BY <1>16 DEF AcceptOrder, RejectOrder
  <2>2. res' = "none"
    BY <1>0, <2>1 DEF Phases
  <2> QED BY <1>1, <1>3, <1>5, <2>1, <2>2 DEF Replaced, WrongWords
<1>17. CASE CancelAtVenue
  <2>1. pc = "cancel" /\ pc' = "canceled" /\ UNCHANGED <<op, target, existing, res>>
    BY <1>17 DEF CancelAtVenue
  <2>2. res' = "none"
    BY <1>0, <2>1 DEF Phases
  <2>3. Held'
    <3>1. SUFFICES ASSUME op = "modify", ~CancelRefused(reply)' PROVE Free(existing.oid)'
      BY <2>1
    <3>2. PICK o \in Named(MarketIdFromOrderId(target), target) : Free(o)'
      BY <1>0, <1>17, <3>1, CanceledRow DEF EntryInv
    <3>3. existing.oid \in DOMAIN book /\ IdOf(existing.oid) = target
      BY <1>0, <2>1, <3>1 DEF Read, ReadOf, Working
    <3>4. o = existing.oid
      BY <1>6, <3>3 DEF Named
    <3> QED BY <2>1, <3>2, <3>4 DEF Free
  <2> QED BY <1>1, <1>5, <2>1, <2>2, <2>3 DEF Replaced, WrongWords
<1>18. CASE Fill \/ UNCHANGED vars
  <2>1. DOMAIN book' = DOMAIN book /\ UNCHANGED <<op, pc, target, existing, reply, res>>
    BY <1>0, <1>18 DEF Fill, AcceptOrder, vars
  <2>2. \A o \in DOMAIN book : IdOf(o)' = IdOf(o) /\ book'[o].from = book[o].from
    BY <1>0, SameNames DEF Grows
  <2>3. Unreplaced'
    BY <1>0, <2>1, <2>2 DEF Unreplaced
  <2> QED BY <1>1, <1>2, <2>1, <2>3 DEF Replaced
<1> QED BY <1>7, <1>8, <1>9, <1>10, <1>11, <1>12, <1>13, <1>14, <1>15, <1>16, <1>17, <1>18
        DEF Next

\* Only an id without a market ends a get or a cancel with ConfigurationError.
LEMMA MisnamedStep ==
    ASSUME EntryInv, [Next]_vars
    PROVE  Misnamed'
<1>0. BookInv /\ Phases /\ Misnamed
  BY DEF EntryInv
<1>1. ASSUME res' # "ConfigurationError" PROVE Misnamed'
  BY <1>1 DEF Misnamed
<1>2. CASE PlaceOrder \/ ValidateOrder
  BY <1>2 DEF PlaceOrder, ValidateOrder, Begins, Ends, Misnamed
<1>3. CASE NameOrder
  <2>1. PICK id \in Ids, o \in {"get", "cancel", "modify"} :
          /\ target' = id
          /\ IF MarketIdFromOrderId(id) = NoMarket
               THEN op' = o /\ Ends("ConfigurationError")
               ELSE Begins(o, IF o = "cancel" THEN "cancel" ELSE "read")
    BY <1>3 DEF NameOrder
  <2>2. CASE MarketIdFromOrderId(id) = NoMarket
    <3>1. \A p \in DOMAIN book : IdOf(p) # id
      BY <1>0, <2>2, OwnName
    <3> QED BY <2>1, <3>1 DEF Ids, Misnamed
  <2>3. CASE MarketIdFromOrderId(id) # NoMarket
    BY <1>1, <2>1, <2>3 DEF Begins
  <2> QED BY <2>2, <2>3
<1>4. CASE CancelAnswered
  <2>1. op' = op /\ op \in {"cancel", "modify"}
    BY <1>0, <1>4 DEF CancelAnswered, Phases
  <2>2. CASE op = "cancel"
    BY <1>1, <1>4, <2>2 DEF CancelAnswered, Ends
  <2>3. CASE op = "modify"
    BY <2>1, <2>3 DEF Misnamed
  <2> QED BY <2>1, <2>2, <2>3
<1>5. CASE GetOrder
  <2>1. pc = "read" /\ (res' = "NotFoundError" \/ res' = "ok" \/ res' = res)
    BY <1>5 DEF GetOrder, Ends
  <2> QED BY <1>0, <1>1, <2>1 DEF Phases
<1>6. CASE Validated \/ Lost
  BY <1>1, <1>6 DEF Validated, Lost, Ends
<1>7. CASE PlaceAnswered \/ Refused
  BY <1>1, <1>7 DEF PlaceAnswered, Refused, Ends
<1>8. CASE AcceptOrder \/ RejectOrder \/ CancelAtVenue \/ Fill \/ UNCHANGED vars
  BY <1>0, <1>8 DEF AcceptOrder, RejectOrder, CancelAtVenue, Fill, vars, Misnamed
<1> QED BY <1>2, <1>3, <1>4, <1>5, <1>6, <1>7, <1>8 DEF Next

\* It holds at the start.
LEMMA EntryInit == Init => EntryInv
<1> SUFFICES ASSUME Init PROVE EntryInv
  OBVIOUS
<1>1. book = <<>> /\ DOMAIN book = {} /\ book \in Seq(Row) /\ Len(book) = 0
  BY DEF Init
<1>2. BookInv
  BY <1>1, OrderEntryAssumption DEF BookInv, Rows, Numbered, InMarket
<1>3. Phases /\ Read /\ Answered /\ Viewed /\ Misnamed
  BY DEF Init, Phases, Read, Answered, Viewed, Misnamed, Working
<1>4. Replaced
  BY <1>1 DEF Init, Replaced, Pairs, Unreplaced, WrongWords
<1> QED BY <1>2, <1>3, <1>4 DEF EntryInv

\* The parts hold together: what is asked, sent, read and answered fits the venue's orders.
THEOREM EntryInvariant == Spec => []EntryInv
<1>1. EntryInv /\ [Next]_vars => EntryInv'
  BY BookStep, PhasesStep, ReadStep, AnsweredStep, ViewedStep, ReplacedStep, MisnamedStep
  DEF EntryInv
<1> QED BY <1>1, EntryInit, PTL DEF Spec

-----------------------------------------------------------------------------
(* What follows.                                                             *)

\* Type correctness (orders.py, models/order.py).
THEOREM EntryTypeCorrect == Spec => []TypeOK
<1>1. EntryInv => TypeOK
  BY DEF EntryInv, BookInv, Rows, Phases, Read, ReadOf, Viewed, Shows, TypeOK
<1> QED BY <1>1, EntryInvariant, PTL

\* orders.py:53: the market that is inferred from an order's id is the order's, hyphens or not,
\* and nothing else has that id; get_order and cancel_order refuse only ids of no order.
THEOREM OrdersAreFound == Spec => []FoundByItsId
<1>1. EntryInv => FoundByItsId
  <2> SUFFICES ASSUME EntryInv PROVE FoundByItsId
    OBVIOUS
  <2>1. \A o \in DOMAIN book : Named(MarketIdFromOrderId(IdOf(o)), IdOf(o)) = {o}
    BY NamedOnly DEF EntryInv
  <2> QED BY <2>1 DEF EntryInv, Misnamed, FoundByItsId
<1> QED BY <1>1, EntryInvariant, PTL

\* models/order.py:24-137: an Order in the caller's hands adds up, and never says more than the
\* venue knows by now.
THEOREM ViewsAreTrue == Spec => []ViewTrue
<1>1. EntryInv => ViewTrue
  BY DEF EntryInv, Viewed, Shows, ViewTrue
<1> QED BY <1>1, EntryInvariant, PTL

\* orders.py:341: an order that modify_order replaced was canceled before it was full, and has
\* one replacement; so the two never trade both sizes in full.
THEOREM ReplacementsAreSingle == Spec => []OvershootBounded
<1>1. EntryInv => OvershootBounded
  <2> SUFFICES ASSUME EntryInv PROVE OvershootBounded
    OBVIOUS
  <2>1. Rows /\ Pairs /\ Unreplaced
    BY DEF EntryInv, BookInv, Replaced
  <2>2. ASSUME NEW o \in DOMAIN book, NEW r \in DOMAIN book, book[r].from = o
        PROVE  book[o].filled + book[r].filled < book[o].size + book[r].size
    <3>1. book[o].filled < book[o].size /\ book[r].filled <= book[r].size
      BY <2>1, <2>2 DEF Pairs, Rows
    <3>2. /\ book[o].filled \in 0..MaxSize /\ book[o].size \in 1..MaxSize
          /\ book[r].filled \in 0..MaxSize /\ book[r].size \in 1..MaxSize
      BY <2>1, RowsShape DEF Row
    <3> QED BY <3>1, <3>2, OrderEntryAssumption
  <2> QED BY <2>1, <2>2 DEF OvershootBounded, Pairs, Unreplaced, WrongWords
<1> QED BY <1>1, EntryInvariant, PTL
-----------------------------------------------------------------------------
(* Sides.                                                                    *)

\* resolve_side finds the one side that words mean, but for a member of Outcome.
LEMMA SideMeant ==
    ASSUME NEW a, a.side \in Buy \cup Sell \cup Sides \cup {Unknown},
           a.outcome \in Yes \cup No \cup {YesMember, NoMember, NoText, Unknown}
    PROVE  LET side == ResolveSide(a.side, a.outcome) IN
           /\ side = NoSide <=> Meant(a) = {} \/ ByMember(a)
           /\ side # NoSide => Meant(a) = {side}
<1> DEFINE side == ResolveSide(a.side, a.outcome)
           Goal == /\ side = NoSide <=> Meant(a) = {} \/ ByMember(a)
                   /\ side # NoSide => Meant(a) = {side}
           Says(s) == a.side \in SideWords(s) /\ a.outcome \in OutcomeWords(s)
<1> SUFFICES Goal
  OBVIOUS
<1>1. CASE a.side \in Sides
  <2>1. side = a.side /\ Meant(a) = {a.side} /\ side # NoSide
    BY <1>1 DEF ResolveSide, Meant, Sides, NoSide
  <2>2. ~ByMember(a)
    BY <1>1 DEF ByMember, Sides, Buy, Sell
  <2> QED BY <2>1, <2>2
<1>2. CASE a.side \notin Sides
  <2>1. Meant(a) = {s \in Sides : Says(s)}
    BY <1>2 DEF Meant
  <2>2. /\ Says("BUY_YES") <=> a.side \in Buy /\ a.outcome \in Yes \cup {YesMember, NoText}
        /\ Says("SELL_YES") <=> a.side \in Sell /\ a.outcome \in Yes \cup {YesMember, NoText}
        /\ Says("BUY_NO") <=> a.side \in Buy /\ a.outcome \in No \cup {NoMember}
        /\ Says("SELL_NO") <=> a.side \in Sell /\ a.outcome \in No \cup {NoMember}
    BY DEF SideWords, OutcomeWords, Action, Outcome
  <2>3. side = IF a.side \notin Buy \cup Sell
                  \/ a.outcome \notin Yes \cup No \cup {NoText} THEN NoSide
               ELSE IF a.side \in Buy
                 THEN IF a.outcome \in Yes \cup {NoText} THEN "BUY_YES" ELSE "BUY_NO"
                 ELSE IF a.outcome \in Yes \cup {NoText} THEN "SELL_YES" ELSE "SELL_NO"
    BY <1>2 DEF ResolveSide, SideTable, Yes, No, NoText
  <2>4. /\ a.side \in Buy => a.side \notin Sell
        /\ a.outcome \in Yes \cup {YesMember, NoText} => a.outcome \notin No \cup {NoMember}
        /\ a.outcome \in {YesMember, NoMember} => a.outcome \notin Yes \cup No \cup {NoText}
    BY DEF Buy, Sell, Yes, No, YesMember, NoMember, NoText
  <2>5. Sides = {"BUY_YES", "SELL_YES", "BUY_NO", "SELL_NO"} /\ NoSide \notin Sides
    BY DEF Sides, NoSide
  <2> HIDE DEF Says, side
  <2>6. CASE a.side \notin Buy \cup Sell
    <3>1. Meant(a) = {}
      BY <2>1, <2>2, <2>5, <2>6
    <3> QED BY <2>3, <2>6, <3>1
  <2>7. CASE a.side \in Buy \cup Sell /\ a.outcome \in {YesMember, NoMember}
    <3>1. side = NoSide /\ ByMember(a)
      BY <2>3, <2>4, <2>7 DEF ByMember
    <3> QED BY <3>1
  <2>8. CASE a.side \in Buy \cup Sell /\ a.outcome = Unknown
    <3>1. Unknown \notin Yes \cup No \cup {YesMember, NoMember, NoText}
      BY DEF Unknown, Yes, No, YesMember, NoMember, NoText
    <3>2. Meant(a) = {}
      BY <2>1, <2>2, <2>5, <2>8, <3>1
    <3>3. side = NoSide
      BY <2>3, <2>8, <3>1
    <3> QED BY <3>2, <3>3
  <2>9. CASE a.side \in Buy \cup Sell /\ a.outcome \in Yes \cup No \cup {NoText}
    <3>1. ~ByMember(a)
      BY <2>4, <2>9 DEF ByMember
    <3>2. /\ a.outcome \in Yes \cup {YesMember, NoText} <=> a.outcome \in Yes \cup {NoText}
          /\ a.outcome \in No \cup {NoMember} <=> a.outcome \notin Yes \cup {NoText}
      BY <2>4, <2>9 DEF Yes, No, YesMember, NoMember, NoText
    <3>3. side \in Sides /\ Says(side) /\ \A s \in Sides : Says(s) => s = side
      BY <2>2, <2>3, <2>4, <2>5, <2>9, <3>2
    <3>4. Meant(a) = {side}
      BY <2>1, <3>3
    <3> QED BY <2>5, <3>1, <3>3, <3>4
  <2> QED BY <2>6, <2>7, <2>8, <2>9
<1> QED BY <1>1, <1>2

\* So it does for what callers ask.
LEMMA WordsMeant ==
    \A a \in Words :
        /\ ResolveSide(a.side, a.outcome) = NoSide <=> Meant(a) = {} \/ ByMember(a)
        /\ ResolveSide(a.side, a.outcome) # NoSide => Meant(a) = {Body(a).side}
<1> TAKE a \in Words
<1>1. /\ a.side \in Buy \cup Sell \cup Sides \cup {Unknown}
      /\ a.outcome \in Yes \cup No \cup {YesMember, NoMember, NoText, Unknown}
  BY OrderEntryAssumption DEF AllWords
<1> QED BY <1>1, SideMeant DEF Body

\* What may leave has a side.
LEMMA ReadableWords == \A a : ~Unreadable(a) => ResolveSide(a.side, a.outcome) # NoSide
BY DEF Unreadable

-----------------------------------------------------------------------------
(* Sides through replacements.                                               *)

Sending == {"validate", "place", "placed"}

Right(row) == IF row.blind THEN row.side = "BUY_YES" ELSE row.meant = {row.side}

SideInv ==
    /\ \A o \in DOMAIN book : Right(book[o])
    /\ sent # None => pc \in Sending
    /\ pc \in Sending /\ op # "modify" => Meant(asked) = {sent.side}
    /\ op = "modify" /\ pc \in Working => existing.side \in {NoText, book[existing.oid].side}
    /\ op = "modify" /\ pc \in {"place", "placed"} => sent.side = SideAgain(existing)

\* An accepted order is on the side that the first caller meant, or is a BUY_YES placed blindly.
LEMMA SideAdded ==
    ASSUME EntryInv, SideInv, AcceptOrder
    PROVE  \A o \in DOMAIN book' : Right(book'[o])
<1> DEFINE n == Len(book) + 1
           e == existing.oid
<1>1. /\ DOMAIN book' = DOMAIN book \cup {n}
      /\ \A p \in DOMAIN book : book'[p] = book[p]
      /\ book'[n].side = sent.side
      /\ book'[n].meant = IF op = "modify" THEN book[e].meant ELSE Meant(asked)
      /\ book'[n].blind = (op = "modify" /\ (existing.side = NoText \/ book[e].blind))
  BY AcceptedRow DEF EntryInv
<1>2. pc = "place"
  BY DEF AcceptOrder
<1>3. Right(book'[n])
  <2>1. CASE op # "modify"
    <3>1. Meant(asked) = {sent.side}
      BY <1>2, <2>1 DEF SideInv, Sending
    <3> QED BY <1>1, <2>1, <3>1 DEF Right
  <2>2. CASE op = "modify"
    <3>1. /\ existing.side \in {NoText, book[e].side} /\ sent.side = SideAgain(existing)
          /\ e \in DOMAIN book /\ Right(book[e])
      BY <1>2, <2>2 DEF EntryInv, Read, ReadOf, SideInv, Working
    <3>2. CASE existing.side = NoText
      BY <1>1, <2>2, <3>1, <3>2 DEF Right, SideAgain
    <3>3. CASE existing.side # NoText
      <4>1. sent.side = book[e].side
        BY <3>1, <3>3 DEF SideAgain
      <4> QED BY <1>1, <2>2, <3>1, <3>3, <4>1 DEF Right
    <3> QED BY <3>2, <3>3
  <2> QED BY <2>1, <2>2
<1> QED BY <1>1, <1>3 DEF SideInv

\* No step turns an order's side.
LEMMA SideStep ==
    ASSUME EntryInv, SideInv, [Next]_vars
    PROVE  SideInv'
<1> DEFINE Rights == \A o \in DOMAIN book : Right(book[o])
           Short == sent # None => pc \in Sending
           Same == pc \in Sending /\ op # "modify" => Meant(asked) = {sent.side}
           Seen == op = "modify" /\ pc \in Working =>
                     existing.side \in {NoText, book[existing.oid].side}
           Again == op = "modify" /\ pc \in {"place", "placed"} => sent.side = SideAgain(existing)
<1>0. /\ BookInv /\ Grows /\ Phases /\ Read /\ Rights /\ Short /\ Same /\ Seen /\ Again
      /\ AcceptOrder \/ DOMAIN book' = DOMAIN book
  BY BookStep DEF EntryInv, SideInv
<1>1. Rights'
  <2>1. CASE AcceptOrder
    BY <2>1, SideAdded
  <2>2. CASE DOMAIN book' = DOMAIN book
    <3>1. \A o \in DOMAIN book : /\ book'[o].side = book[o].side /\ book'[o].meant = book[o].meant
                                 /\ book'[o].blind = book[o].blind
      BY <1>0 DEF Grows
    <3> QED BY <1>0, <2>2, <3>1 DEF Right
  <2> QED BY <1>0, <2>1, <2>2
<1>2. ASSUME UNCHANGED <<op, existing>>, pc' \in Working => pc \in Working
      PROVE  Seen'
  BY <1>0, <1>2 DEF Grows, Read, ReadOf
<1>3. ASSUME NEW r, Ends(r)
      PROVE  Short' /\ Same' /\ Seen' /\ Again'
  BY <1>3 DEF Ends, Sending, Working
<1> SUFFICES Short' /\ Same' /\ Seen' /\ Again'
  BY <1>1 DEF SideInv
<1>4. CASE PlaceOrder
  <2>1. PICK a \in Words :
          IF Check(a) = "ok"
            THEN Begins("place", "place") /\ asked' = a /\ sent' = Body(a)
            ELSE Ends(Check(a))
    BY <1>4 DEF PlaceOrder
  <2>2. Check(a) = "ok" => Meant(a) = {Body(a).side}
    BY WordsMeant, ReadableWords DEF Check
  <2> QED BY <1>3, <2>1, <2>2 DEF Begins, Sending
<1>5. CASE ValidateOrder
  <2>1. PICK a \in Words :
          IF Unreadable(a) THEN Ends("ValueError")
            ELSE Begins("validate", "validate") /\ asked' = a /\ sent' = Body(a)
    BY <1>5 DEF ValidateOrder
  <2>2. ~Unreadable(a) => Meant(a) = {Body(a).side}
    BY WordsMeant, ReadableWords
  <2> QED BY <1>3, <2>1, <2>2 DEF Begins, Sending
<1>6. CASE NameOrder
  <2>1. PICK o \in {"get", "cancel", "modify"} :
          IF MarketIdFromOrderId(target') = NoMarket
            THEN Ends("ConfigurationError")
            ELSE Begins(o, IF o = "cancel" THEN "cancel" ELSE "read") /\ UNCHANGED sent
    BY <1>6 DEF NameOrder
  <2>2. sent = None
    BY <1>0, <1>6 DEF NameOrder, Sending
  <2>3. CASE Begins(o, IF o = "cancel" THEN "cancel" ELSE "read") /\ UNCHANGED sent
    BY <2>2, <2>3 DEF Begins, Sending, Working
  <2> QED BY <1>3, <2>1, <2>3
<1>7. CASE GetOrder
  <2>1. CASE \E r \in {"NotFoundError", "ok"} : Ends(r)
    BY <1>3, <2>1
  <2>2. CASE \A r \in {"NotFoundError", "ok"} : ~Ends(r)
    <3> DEFINE found == Named(MarketIdFromOrderId(target), target)
    <3>1. PICK o \in found, told \in Records :
            \E remaining \in Remaining(o) : existing' = FromApi(o, told, remaining)
      BY <1>7, <2>2 DEF GetOrder
    <3>2. pc = "read" /\ pc' = "cancel" /\ UNCHANGED <<book, sent>>
      BY <1>7, <2>2 DEF GetOrder
    <3>3. existing'.oid = o /\ existing'.side \in {NoText, book[o].side}
      BY <3>1 DEF FromApi
    <3> QED BY <1>0, <3>2, <3>3 DEF Sending
  <2> QED BY <2>1, <2>2
<1>8. CASE CancelAnswered
  <2>1. CASE \E r : Ends(r)
    BY <1>3, <2>1
  <2>2. CASE ~\E r : Ends(r)
    <3> DEFINE a == Replacement(existing, asked)
    <3>1. /\ pc = "canceled" /\ pc' = "place" /\ UNCHANGED <<op, existing, target>>
          /\ op # "cancel" /\ asked' = a /\ sent' = Body(a)
      BY <1>8, <2>2 DEF CancelAnswered
    <3>2. op = "modify" /\ existing.side \in {NoText, book[existing.oid].side}
          /\ existing.oid \in DOMAIN book
      BY <1>0, <3>1 DEF Phases, Read, ReadOf, Working
    <3>3. SideAgain(existing) \in Sides
      <4>1. book[existing.oid].side \in Sides
        BY <1>0, <3>2, RowsShape DEF BookInv, Row
      <4> QED BY <3>2, <4>1 DEF SideAgain, Sides
    <3>4. Body(a).side = SideAgain(existing)
      BY <3>3, SideOfItself DEF Replacement, Body
    <3>5. Seen'
      BY <1>2, <3>1 DEF Working
    <3>6. SideAgain(existing)' = SideAgain(existing)
      BY <3>1 DEF SideAgain
    <3> QED BY <3>1, <3>2, <3>4, <3>5, <3>6 DEF Sending
  <2> QED BY <2>1, <2>2
<1>9. CASE Validated \/ PlaceAnswered \/ Refused \/ Lost
  BY <1>3, <1>9 DEF Validated, PlaceAnswered, Refused, Lost
<1>14. ASSUME UNCHANGED <<op, asked, sent, existing>>,
              pc' \in Sending <=> pc \in Sending,
              pc' \in {"place", "placed"} => pc \in {"place", "placed"}
       PROVE  Short' /\ Same' /\ Again'
  BY <1>0, <1>14 DEF SideAgain
<1>10. CASE AcceptOrder \/ RejectOrder
  BY <1>2, <1>14, <1>10 DEF AcceptOrder, RejectOrder, Sending, Working
<1>11. CASE CancelAtVenue
  BY <1>2, <1>14, <1>11 DEF CancelAtVenue, Sending, Working
<1>12. CASE Fill
  BY <1>2, <1>14, <1>12 DEF Fill
<1>13. CASE UNCHANGED vars
  BY <1>2, <1>14, <1>13 DEF vars
<1> QED BY <1>4, <1>5, <1>6, <1>7, <1>8, <1>9, <1>10, <1>11, <1>12, <1>13 DEF Next

\* enums.py:112-148, orders.py:340: every order is on the side that its first caller's words
\* mean, through every replacement, but for those that a record without a side made BUY_YES;
\* and words that mean a side are read, but for a member of Outcome.
THEOREM SidesAreKept == Spec => []SideKept
<1>1. Init => SideInv
  BY DEF Init, SideInv, Sending, Working
<1>2. EntryInv /\ SideInv /\ [Next]_vars => SideInv'
  BY SideStep
<1>3. EntryInv /\ SideInv => SideKept
  <2> SUFFICES ASSUME EntryInv, SideInv PROVE SideKept
    OBVIOUS
  <2>1. sent # None /\ op # "modify" => Meant(asked) = {sent.side}
    BY DEF SideInv
  <2>2. ASSUME view # None, view.side # NoText, ~book[view.oid].blind
        PROVE  book[view.oid].meant = {SideTable(Action(view.side), Outcome(view.side))}
    <3>1. view.oid \in DOMAIN book /\ view.side = book[view.oid].side
      BY <2>2 DEF EntryInv, Viewed, Shows
    <3>2. book[view.oid].side \in Sides
      BY <3>1, RowsShape DEF EntryInv, BookInv, Row
    <3>3. Right(book[view.oid])
      BY <3>1 DEF SideInv
    <3> QED BY <2>2, <3>1, <3>2, <3>3, SideOfItself DEF Right
  <2>3. \A o \in DOMAIN book :
          IF book[o].blind THEN book[o].side = "BUY_YES" ELSE book[o].meant = {book[o].side}
    BY DEF SideInv, Right
  <2>4. \A a \in Words :
          ResolveSide(a.side, a.outcome) = NoSide <=> Meant(a) = {} \/ ByMember(a)
    BY WordsMeant
  <2> QED BY <2>1, <2>2, <2>3, <2>4 DEF SideKept
<1> QED BY <1>1, <1>2, <1>3, EntryInvariant, PTL DEF Spec
=============================================================================
