---------------------------- MODULE OrdersProofs ----------------------------
(* Order operations, for any number of coroutines, keys and orders.          *)
EXTENDS Orders, SequenceTheorems, FiniteSetTheorems, WellFoundedInduction, TLAPS

-----------------------------------------------------------------------------
(* The orders of the venue.                                                  *)

\* A set of order ids has a least one.
LEMMA Least ==
    ASSUME NEW S \in SUBSET Ids, S # {}
    PROVE  Min(S) \in S
<1> DEFINE Below(i) == 0..i
           R == StrictSubsetOrdering(Nat)
           T == {Below(i) : i \in S}
<1>1. S \subseteq Nat
  BY OrdersAssumption DEF Ids
<1>2. T \subseteq FiniteSubsetsOf(Nat) /\ T # {}
  <2>1. \A i \in S : Below(i) \in SUBSET Nat /\ IsFiniteSet(Below(i))
    <3> TAKE i \in S
    <3>1. 0 \in Int /\ i \in Int
      BY <1>1
    <3>2. IsFiniteSet(0..i)
      BY <3>1, FS_Interval
    <3> QED BY <3>2
  <2> HIDE DEF Below
  <2> QED BY <2>1 DEF FiniteSubsetsOf
<1>3. PICK b \in T : \A c \in T : <<c, b>> \notin R
  <2>1. IsWellFoundedOn(R, FiniteSubsetsOf(Nat))
    BY FS_StrictSubsetOrderingWellFounded
  <2> HIDE DEF R, T
  <2> QED BY <1>2, <2>1, WFMin
<1>4. PICK i \in S : b = Below(i)
  OBVIOUS
<1>5. ASSUME NEW j \in S, ~(i <= j) PROVE FALSE
  <2>1. i \in Below(i) /\ i \notin Below(j) /\ Below(j) \subseteq Below(i)
    BY <1>1, <1>5
  <2>2. <<Below(j), Below(i)>> \in R
    BY <1>1, <2>1 DEF StrictSubsetOrdering
  <2> QED BY <1>3, <1>4, <2>2
<1>6. \E x \in S : \A y \in S : x <= y
  BY <1>5
<1> QED BY <1>6 DEF Min

\* The book as a sequence of orders.
LEMMA BookShape ==
    ASSUME TypeOK
    PROVE  /\ Len(book) \in Nat /\ DOMAIN book = 1..Len(book)
           /\ DOMAIN book \subseteq Ids
           /\ \A o \in DOMAIN book : book[o] \in Order
<1>1. book \in Seq(Order) /\ Len(book) <= MaxOrders
  BY DEF TypeOK
<1> QED BY <1>1, ElementOfSeq, LenProperties, OrdersAssumption DEF Ids

\* A cancel that the venue carries out.
LEMMA CancelShape ==
    ASSUME TypeOK, NEW a \in Apps, cur[a] \in DOMAIN book, CancelInBook(a)
    PROVE  /\ book' \in Seq(Order) /\ Len(book') = Len(book) /\ DOMAIN book' = DOMAIN book
           /\ \A o \in DOMAIN book :
                IF o = cur[a] /\ book[o].status \in Open
                  THEN book'[o] = [book[o] EXCEPT !.status = "CANCELED", !.canceler = a]
                  ELSE book'[o] = book[o]
<1>1. book \in Seq(Order)
  BY DEF TypeOK
<1>2. CASE cur[a] \in OpenIds
  <2> DEFINE r == [book[cur[a]] EXCEPT !.status = "CANCELED", !.canceler = a]
  <2>1. book' = [book EXCEPT ![cur[a]] = r]
    BY <1>2, BookShape DEF CancelInBook, Order
  <2>2. r \in Order
    BY BookShape DEF Order, Terminal
  <2> HIDE DEF r
  <2>3. book' \in Seq(Order) /\ Len(book') = Len(book)
        /\ \A o \in 1..Len(book) : book'[o] = IF o = cur[a] THEN r ELSE book[o]
    BY <1>1, <2>1, <2>2, BookShape, ExceptSeq
  <2>4. DOMAIN book' = DOMAIN book
    BY <2>1
  <2> QED BY <1>2, <2>3, <2>4, BookShape DEF r, OpenIds
<1>3. CASE cur[a] \notin OpenIds
  BY <1>1, <1>3 DEF CancelInBook, OpenIds
<1> QED BY <1>2, <1>3

\* A fill changes the status of one open order.
LEMMA FillShape ==
    ASSUME TypeOK, Fill
    PROVE  /\ book' \in Seq(Order) /\ Len(book') = Len(book) /\ DOMAIN book' = DOMAIN book
           /\ \E f \in DOMAIN book, s \in {"PARTIALLY_FILLED", "FILLED"} :
                /\ book[f].status \in Open
                /\ \A o \in DOMAIN book :
                     book'[o] = IF o = f THEN [book[o] EXCEPT !.status = s] ELSE book[o]
<1>1. book \in Seq(Order)
  BY DEF TypeOK
<1>2. PICK f \in OpenIds, s \in {"PARTIALLY_FILLED", "FILLED"} :
          book' = [book EXCEPT ![f].status = s]
  BY DEF Fill
<1>3. f \in DOMAIN book /\ book[f].status \in Open
  BY DEF OpenIds
<1> DEFINE r == [book[f] EXCEPT !.status = s]
<1>4. book' = [book EXCEPT ![f] = r]
  BY <1>2, <1>3, BookShape DEF Order
<1>5. r \in Order
  BY <1>3, BookShape DEF Order, Terminal, Open
<1>6. \A o \in DOMAIN book : book'[o] = IF o = f THEN [book[o] EXCEPT !.status = s] ELSE book[o]
  BY <1>4
<1> HIDE DEF r
<1>7. book' \in Seq(Order) /\ Len(book') = Len(book) /\ DOMAIN book' = DOMAIN book
  BY <1>1, <1>3, <1>4, <1>5, BookShape, ExceptSeq
<1> QED BY <1>3, <1>6, <1>7

\* A new order is the last one.
LEMMA AppendShape ==
    ASSUME TypeOK, NEW a \in Apps, call[a].op \in {"place", "modify"}, Len(book) < MaxOrders,
           book' = Append(book, Placed(a))
    PROVE  /\ book' \in Seq(Order) /\ Len(book') = Len(book) + 1 /\ Len(book') <= MaxOrders
           /\ DOMAIN book' = DOMAIN book \cup {Len(book) + 1} /\ Len(book) + 1 \in Ids
           /\ Len(book) + 1 \notin DOMAIN book
           /\ \A o \in DOMAIN book : book'[o] = book[o]
           /\ book'[Len(book) + 1] = Placed(a)
<1>1. book \in Seq(Order) /\ Len(book) \in Nat /\ DOMAIN book = 1..Len(book)
  BY BookShape DEF TypeOK
<1>2. call[a] \in Args
  BY DEF TypeOK, NoArgs
<1>3. seen[a] \in {"yes", "no"}
  BY DEF TypeOK
<1>4. PostOf(a) \in {"yes", "no"} /\ KeyOf(a) \in Keys \cup {NoKey}
  BY <1>2, <1>3 DEF PostOf, KeyOf, Args
<1>5. Placed(a) \in Order
  BY <1>4 DEF Placed, Order, Open
<1>6. /\ book' \in Seq(Order) /\ Len(book') = Len(book) + 1
      /\ \A o \in 1..Len(book) : book'[o] = book[o]
      /\ book'[Len(book) + 1] = Placed(a)
  BY <1>1, <1>5, AppendProperties
<1>7. DOMAIN book' = 1..(Len(book) + 1)
  BY <1>6, LenProperties
<1>8. 1..(Len(book) + 1) = 1..Len(book) \cup {Len(book) + 1} /\ Len(book) + 1 \notin 1..Len(book)
  BY <1>1
<1>9. Len(book) + 1 \in Ids /\ Len(book) + 1 <= MaxOrders
  BY <1>1, OrdersAssumption DEF Ids
<1> QED BY <1>1, <1>6, <1>7, <1>8, <1>9

-----------------------------------------------------------------------------
(* Type correctness, and which operations come to which await.               *)

Cancels == {"cancel", "cancel_by_client_id", "cancel_all", "modify"}
Places == {"place", "modify"}

\* A lost request is its coroutine's last step; modify cancels the order it was given.
Phases ==
    \A a \in Apps :
        /\ pc[a] = "idle" <=> call[a].op = "none"
        /\ pc[a] = "lookup" => call[a].op = "cancel_by_client_id"
        /\ pc[a] = "list" => call[a].op = "cancel_all"
        /\ pc[a] = "read" => call[a].op = "modify"
        /\ pc[a] \in {"account", "cancel", "canceled"} => call[a].op \in Cancels
        /\ pc[a] \in {"resolve", "place", "placed"} => call[a].op \in Places
        /\ late[a] # "none" => pc[a] \in {"NetworkError", "APIError"}
        /\ late[a] = "cancel" => call[a].op \in Cancels /\ cur[a] \in DOMAIN book
        /\ late[a] = "place" => call[a].op \in Places
        /\ call[a].op = "modify" => cur[a] = call[a].target /\ cur[a] \in DOMAIN book
        /\ pc[a] \in {"idle", "list"} => listed[a] = {}
        /\ call[a].op = "cancel_all" /\ pc[a] \in {"account", "cancel", "canceled"}
             => cur[a] \in todo[a]
        /\ call[a].op = "cancel_by_client_id" => call[a].key \in Keys

\* What the client tracks, or was answered, is an order of the venue.
Known ==
    /\ \A k \in Keys : coidToOid[k] # NoOrder => coidToOid[k] \in DOMAIN book
    /\ \A a \in Apps : pc[a] = "placed" /\ reply[a] # NoOrder => reply[a] \in DOMAIN book

TypeInv == TypeOK /\ Phases /\ Known

\* One order, tracked, and every coroutine idle.
LEMMA TypeInvInit == Init => TypeInv
<1> SUFFICES ASSUME Init PROVE TypeInv
  OBVIOUS
<1>1. PICK post \in {"yes", "no"}, key \in Keys :
          /\ book = <<[status |-> "OPEN", post |-> post, key |-> key, maker |-> NoKey,
                       canceler |-> NoKey]>>
          /\ coidToOid = [k \in Keys |-> IF k = key THEN 1 ELSE NoOrder]
          /\ oidToCoid = [o \in Ids |-> IF o = 1 THEN key ELSE NoKey]
  BY DEF Init
<1>2. book \in Seq(Order) /\ Len(book) = 1 /\ DOMAIN book = {1}
  BY <1>1 DEF Order, Open
<1>3. 1 \in Ids /\ Len(book) <= MaxOrders
  BY <1>2, OrdersAssumption DEF Ids
<1>4. TypeOK
  BY <1>1, <1>2, <1>3 DEF Init, TypeOK
<1>5. Phases
  BY DEF Init, Phases, NoArgs
<1>6. Known
  BY <1>1, <1>2 DEF Init, Known
<1> QED BY <1>4, <1>5, <1>6 DEF TypeInv

\* A step of one coroutine that leaves the book and the index alone.
LEMMA MovesOn ==
    ASSUME TypeInv, NEW a \in Apps, NEW s, pc' = [pc EXCEPT ![a] = s], call[a].op # "none",
           pc[a] \notin {"NetworkError", "APIError"},
           s \in Ends \/
             /\ late' = late
             /\ \/ s \in {"account", "cancel", "canceled"} /\ call[a].op \in Cancels /\ cur'[a] \in DOMAIN book
                \/ s \in {"resolve", "place", "placed"} /\ call[a].op \in Places
                     /\ (s = "placed" => reply'[a] \in DOMAIN book \cup {NoOrder}),
           cur' \in [Apps -> Ids \cup {NoOrder}], \A b \in Apps : b # a => cur'[b] = cur[b],
           call[a].op = "modify" => cur'[a] = cur[a],
           reply' \in [Apps -> Ids \cup {NoOrder}], \A b \in Apps : b # a => reply'[b] = reply[b],
           late' = late \/ (s \in {"NetworkError", "APIError"} /\ pc[a] \in {"cancel", "place"}
                             /\ late' = [late EXCEPT ![a] = pc[a]] /\ cur' = cur),
           seen' \in [Apps -> {"yes", "no"}],
           todo' \in [Apps -> SUBSET Ids], got' \in [Apps -> SUBSET Ids],
           listed' \in [Apps -> SUBSET Ids],
           \A b \in Apps : todo'[b] \cup got'[b] \subseteq listed'[b] /\ listed'[b] \subseteq DOMAIN book,
           \A b \in Apps : b # a => /\ todo'[b] = todo[b] /\ got'[b] = got[b]
                                   /\ listed'[b] = listed[b],
           call[a].op = "cancel_all" /\ s \in {"account", "cancel", "canceled"} => cur'[a] \in todo'[a],
           UNCHANGED <<book, call, coidToOid, oidToCoid>>
    PROVE  TypeInv'
<1>1. \A b \in Apps : pc'[b] = IF b = a THEN s ELSE pc[b]
  BY DEF TypeInv, TypeOK
<1>2. pc' \in [Apps -> {"idle", "resolve", "account", "lookup", "list", "read", "cancel",
                        "canceled", "place", "placed"} \cup Ends]
  BY DEF TypeInv, TypeOK
<1>3. late' \in [Apps -> {"none", "cancel", "place"}]
      /\ \A b \in Apps : b # a => late'[b] = late[b]
  BY DEF TypeInv, TypeOK
<1>a. late[a] = "none"
  BY DEF TypeInv, Phases
<1>4. s \notin {"idle", "lookup", "list", "read"}
      /\ (s \in Ends => s \notin {"account", "cancel", "canceled", "resolve", "place", "placed"})
  BY DEF Ends, Untold
<1>5. \A b \in Apps : pc'[b] \in {"account", "cancel", "canceled"} => cur'[b] \in DOMAIN book
  BY <1>1, <1>4 DEF TypeInv, TypeOK
<1>6. TypeOK'
  BY <1>2, <1>3, <1>5 DEF TypeInv, TypeOK
<1>7. Known'
  BY <1>1, <1>4 DEF TypeInv, Known
<1>8. Phases'
  <2> SUFFICES ASSUME NEW b \in Apps
               PROVE  /\ pc'[b] = "idle" <=> call[b].op = "none"
                      /\ pc'[b] = "lookup" => call[b].op = "cancel_by_client_id"
                      /\ pc'[b] = "list" => call[b].op = "cancel_all"
                      /\ pc'[b] = "read" => call[b].op = "modify"
                      /\ pc'[b] \in {"account", "cancel", "canceled"} => call[b].op \in Cancels
                      /\ pc'[b] \in {"resolve", "place", "placed"} => call[b].op \in Places
                      /\ late'[b] # "none" => pc'[b] \in {"NetworkError", "APIError"}
                      /\ late'[b] = "cancel" => call[b].op \in Cancels /\ cur'[b] \in DOMAIN book
                      /\ late'[b] = "place" => call[b].op \in Places
                      /\ call[b].op = "modify" => cur'[b] = call[b].target /\ cur'[b] \in DOMAIN book
                      /\ pc'[b] \in {"idle", "list"} => listed'[b] = {}
                      /\ call[b].op = "cancel_all" /\ pc'[b] \in {"account", "cancel", "canceled"}
                           => cur'[b] \in todo'[b]
                      /\ call[b].op = "cancel_by_client_id" => call[b].key \in Keys
    BY DEF Phases
  <2>1. CASE b # a
    BY <1>1, <1>3, <2>1 DEF TypeInv, Phases
  <2>2. CASE b = a
    <3>1. /\ pc'[a] = s
          /\ call[a].op = "cancel_by_client_id" => call[a].key \in Keys
          /\ call[a].op = "modify" => cur'[a] = call[a].target /\ cur'[a] \in DOMAIN book
      BY <1>1 DEF TypeInv, Phases
    <3>2. late'[a] # "none" => s \in {"NetworkError", "APIError"}
      BY <1>a DEF TypeInv, TypeOK
    <3>3. /\ late'[a] = "cancel" => call[a].op \in Cancels /\ cur'[a] \in DOMAIN book
          /\ late'[a] = "place" => call[a].op \in Places
      <4>1. CASE late' = late
        BY <1>a, <4>1
      <4>2. CASE late' # late
        <5>1. late'[a] = pc[a] /\ cur' = cur
          BY <4>2 DEF TypeInv, TypeOK
        <5> QED BY <5>1 DEF TypeInv, TypeOK, Phases
      <4> QED BY <4>1, <4>2
    <3> QED BY <1>4, <2>2, <3>1, <3>2, <3>3
  <2> QED BY <2>1, <2>2
<1> QED BY <1>6, <1>7, <1>8 DEF TypeInv

\* A step that changes the book, keeping the orders there are, or adding one.
LEMMA BookMoves ==
    ASSUME TypeInv, book' \in Seq(Order), Len(book') <= MaxOrders, DOMAIN book \subseteq DOMAIN book',
           UNCHANGED <<call, pc, cur, reply, seen, listed, todo, got, coidToOid, oidToCoid>>,
           late' = late \/ \E a \in Apps : late' = [late EXCEPT ![a] = "none"]
    PROVE  TypeInv'
<1>1. late' \in [Apps -> {"none", "cancel", "place"}] /\ \A a \in Apps : late'[a] \in {late[a], "none"}
  BY DEF TypeInv, TypeOK
<1>2. TypeOK'
  BY <1>1 DEF TypeInv, TypeOK
<1>3. Phases'
  BY <1>1 DEF TypeInv, Phases
<1>4. Known'
  BY DEF TypeInv, Known
<1> QED BY <1>2, <1>3, <1>4 DEF TypeInv

\* Every step keeps the types and the phases.
LEMMA TypeInvStep == TypeInv /\ [Next]_vars => TypeInv'
<1> SUFFICES ASSUME TypeInv, [Next]_vars PROVE TypeInv'
  OBVIOUS
<1> USE DEF Goes, scratch, index
<1>t. TypeOK /\ Phases /\ Known
  BY DEF TypeInv
<1>k. /\ cur \in [Apps -> Ids \cup {NoOrder}]
      /\ reply \in [Apps -> Ids \cup {NoOrder}]
      /\ seen \in [Apps -> {"yes", "no"}]
      /\ listed \in [Apps -> SUBSET Ids]
      /\ todo \in [Apps -> SUBSET Ids] /\ got \in [Apps -> SUBSET Ids]
      /\ \A b \in Apps : todo[b] \cup got[b] \subseteq listed[b] /\ listed[b] \subseteq DOMAIN book
  BY <1>t DEF TypeOK
<1>b. DOMAIN book \subseteq Ids
  BY <1>t, BookShape
<1>1. ASSUME NEW a \in Apps, Start(a) PROVE TypeInv'
  <2>1. pc[a] = "idle" /\ late[a] = "none"
    BY <1>1, <1>t DEF Start, Phases
  <2>2. PICK args \in Args :
          /\ args.target \in (IF args.op \in {"cancel", "modify"} THEN DOMAIN book ELSE {NoOrder})
          /\ args.op = "cancel_by_client_id" => args.key # NoKey
          /\ call' = [call EXCEPT ![a] = args]
          /\ cur' = [cur EXCEPT ![a] = args.target]
          /\ Goes(a, CASE args.op = "place" -> "resolve"
                      [] args.op = "cancel" -> "account"
                      [] args.op = "cancel_by_client_id" -> "lookup"
                      [] args.op = "cancel_all" -> "list"
                      [] args.op = "modify" -> "read")
    BY <1>1 DEF Start
  <2>3. PICK s : /\ pc' = [pc EXCEPT ![a] = s]
                 /\ \/ args.op = "place" /\ s = "resolve"
                    \/ args.op = "cancel" /\ s = "account"
                    \/ args.op = "cancel_by_client_id" /\ s = "lookup"
                    \/ args.op = "cancel_all" /\ s = "list"
                    \/ args.op = "modify" /\ s = "read"
    BY <2>2 DEF Args, Ops
  <2>4. \A b \in Apps : /\ pc'[b] = IF b = a THEN s ELSE pc[b]
                        /\ call'[b] = IF b = a THEN args ELSE call[b]
                        /\ cur'[b] = IF b = a THEN args.target ELSE cur[b]
    BY <1>t, <2>2, <2>3 DEF TypeOK
  <2>5. UNCHANGED <<book, reply, seen, listed, todo, got, late, coidToOid, oidToCoid>>
    BY <1>1 DEF Start
  <2>6. TypeOK'
    <3>1. args.target \in Ids \cup {NoOrder}
      BY DEF Args
    <3>2. \A b \in Apps : pc'[b] \in {"account", "cancel", "canceled"} => cur'[b] \in DOMAIN book
      BY <1>t, <2>2, <2>3, <2>4 DEF TypeOK
    <3>3. pc' \in [Apps -> {"idle", "resolve", "account", "lookup", "list", "read", "cancel",
                            "canceled", "place", "placed"} \cup Ends]
      BY <1>t, <2>3 DEF TypeOK
    <3>4. call' \in [Apps -> Args \cup {NoArgs}] /\ cur' \in [Apps -> Ids \cup {NoOrder}]
      BY <1>t, <2>2, <3>1 DEF TypeOK
    <3> QED BY <1>t, <2>5, <3>2, <3>3, <3>4 DEF TypeOK
  <2>7. Phases'
    <3>1. args.key \in Keys \cup {NoKey}
      BY DEF Args
    <3> QED BY <1>t, <2>1, <2>2, <2>3, <2>4, <2>5, <3>1 DEF Phases, Cancels, Places
  <2>8. Known'
    BY <1>t, <2>3, <2>4, <2>5 DEF Known
  <2> QED BY <2>6, <2>7, <2>8 DEF TypeInv
<1>2. ASSUME NEW a \in Apps, FailsEarly(a) PROVE TypeInv'
  <2>1. /\ pc[a] \in {"resolve", "account", "lookup", "list", "read"}
        /\ \E e \in {"NotFoundError", "NetworkError", "APIError"} : pc' = [pc EXCEPT ![a] = e]
        /\ UNCHANGED <<book, call, cur, reply, seen, listed, todo, got, late, coidToOid, oidToCoid>>
    BY <1>2 DEF FailsEarly
  <2>2. call[a].op # "none"
    BY <1>t, <2>1 DEF Phases
  <2> QED BY <1>k, <2>1, <2>2, MovesOn DEF Ends, Untold
<1>3. ASSUME NEW a \in Apps, Lookup(a) PROVE TypeInv'
  <2>1. /\ pc[a] = "lookup" /\ call[a].op = "cancel_by_client_id" /\ call[a].op # "none"
        /\ UNCHANGED <<book, call, reply, seen, listed, todo, got, late, coidToOid, oidToCoid>>
    BY <1>3, <1>t DEF Lookup, Phases
  <2>2. CASE pc' = [pc EXCEPT ![a] = "NotFoundError"] /\ UNCHANGED cur
    BY <1>k, <2>1, <2>2, MovesOn DEF Ends, Untold
  <2>3. CASE /\ coidToOid[call[a].key] # NoOrder
             /\ pc' = [pc EXCEPT ![a] = "account"]
             /\ cur' = [cur EXCEPT ![a] = coidToOid[call[a].key]]
    <3>1. call[a].key \in Keys
      BY <1>t, <2>1 DEF Phases
    <3>2. coidToOid[call[a].key] \in DOMAIN book
      BY <1>t, <2>3, <3>1 DEF Known
    <3>3. /\ cur' \in [Apps -> Ids \cup {NoOrder}] /\ cur'[a] \in DOMAIN book
          /\ \A b \in Apps : b # a => cur'[b] = cur[b]
      BY <1>k, <1>b, <2>3, <3>2
    <3> QED BY <1>k, <2>1, <2>3, <3>3, MovesOn DEF Cancels
  <2> QED BY <1>3, <2>2, <2>3 DEF Lookup
<1>4. ASSUME NEW a \in Apps, List(a) PROVE TypeInv'
  <2>1. /\ pc[a] = "list" /\ call[a].op = "cancel_all"
        /\ listed' = [listed EXCEPT ![a] = OpenIds]
        /\ todo' = [todo EXCEPT ![a] = OpenIds]
        /\ UNCHANGED <<book, call, reply, seen, got, late, coidToOid, oidToCoid>>
    BY <1>4, <1>t DEF List, Phases
  <2>2. OpenIds \subseteq DOMAIN book
    BY DEF OpenIds
  <2>3. got[a] = {}
    BY <1>t, <2>1 DEF TypeOK, Phases
  <2>4. /\ listed' \in [Apps -> SUBSET Ids] /\ todo' \in [Apps -> SUBSET Ids]
        /\ \A b \in Apps : todo'[b] \cup got'[b] \subseteq listed'[b] /\ listed'[b] \subseteq DOMAIN book
        /\ \A b \in Apps : b # a => /\ todo'[b] = todo[b] /\ got'[b] = got[b]
                                /\ listed'[b] = listed[b]
        /\ todo'[a] = OpenIds
    BY <1>k, <1>b, <2>1, <2>2, <2>3
  <2>5. CASE pc' = [pc EXCEPT ![a] = "ok"] /\ UNCHANGED cur
    BY <1>k, <2>1, <2>4, <2>5, MovesOn DEF Ends, Untold
  <2>6. CASE OpenIds # {} /\ pc' = [pc EXCEPT ![a] = "account"] /\ cur' = [cur EXCEPT ![a] = Min(OpenIds)]
    <3>1. Min(OpenIds) \in OpenIds /\ Min(OpenIds) \in DOMAIN book
      BY <1>b, <2>2, <2>6, Least
    <3>2. /\ cur' \in [Apps -> Ids \cup {NoOrder}] /\ cur'[a] \in DOMAIN book /\ cur'[a] \in todo'[a]
          /\ \A b \in Apps : b # a => cur'[b] = cur[b]
      BY <1>k, <1>b, <2>4, <2>6, <3>1
    <3> QED BY <1>k, <2>1, <2>4, <2>6, <3>2, MovesOn DEF Cancels
  <2> QED BY <1>4, <2>5, <2>6 DEF List
<1>5. ASSUME NEW a \in Apps, Read(a) PROVE TypeInv'
  <2>1. /\ pc[a] = "read" /\ call[a].op = "modify"
        /\ pc' = [pc EXCEPT ![a] = "account"]
        /\ seen' \in [Apps -> {"yes", "no"}]
        /\ UNCHANGED <<book, call, cur, reply, listed, todo, got, late, coidToOid, oidToCoid>>
    BY <1>5, <1>t, <1>k DEF Read, PostFromApi, Phases
  <2>2. cur'[a] \in DOMAIN book
    BY <1>t, <2>1 DEF Phases
  <2> QED BY <1>k, <2>1, <2>2, MovesOn DEF Cancels
<1>6. ASSUME NEW a \in Apps, PostCancel(a) PROVE TypeInv'
  <2>1. /\ pc[a] = "account" /\ call[a].op \in Cancels /\ cur[a] \in DOMAIN book
        /\ pc' = [pc EXCEPT ![a] = "cancel"]
        /\ UNCHANGED <<book, call, cur, reply, seen, listed, todo, got, late, coidToOid, oidToCoid>>
    BY <1>6, <1>t DEF PostCancel, Phases, TypeOK
  <2>2. call[a].op # "none" /\ (call[a].op = "cancel_all" => cur[a] \in todo[a])
    BY <1>t, <2>1 DEF Cancels, Phases
  <2> QED BY <1>k, <2>1, <2>2, MovesOn
<1>7. ASSUME NEW a \in Apps, PostPlace(a) PROVE TypeInv'
  <2>1. /\ pc[a] = "resolve" /\ call[a].op \in Places
        /\ \E s \in {"place", "ValueError", "ConfigurationError"} : pc' = [pc EXCEPT ![a] = s]
        /\ UNCHANGED <<book, call, cur, reply, seen, listed, todo, got, late, coidToOid, oidToCoid>>
    BY <1>7, <1>t DEF PostPlace, Phases
  <2>2. call[a].op # "none"
    BY <2>1 DEF Places
  <2> QED BY <1>k, <2>1, <2>2, MovesOn DEF Ends, Untold
<1>8. ASSUME Fill PROVE TypeInv'
  <2>1. UNCHANGED <<call, pc, cur, reply, seen, listed, todo, got, late, coidToOid, oidToCoid>>
    BY <1>8 DEF Fill
  <2>2. Len(book) <= MaxOrders
    BY <1>t DEF TypeOK
  <2> QED BY <1>8, <1>t, <2>1, <2>2, FillShape, BookMoves
<1>9. ASSUME NEW a \in Apps, CancelAtVenue(a) PROVE TypeInv'
  <2>1. /\ pc[a] = "cancel" /\ call[a].op \in Cancels /\ cur[a] \in DOMAIN book
        /\ CancelInBook(a)
        /\ reply' = [reply EXCEPT ![a] = IF cur[a] \in OpenIds THEN cur[a] ELSE NoOrder]
        /\ pc' = [pc EXCEPT ![a] = "canceled"]
        /\ UNCHANGED <<call, cur, seen, listed, todo, got, late, coidToOid, oidToCoid>>
    BY <1>9, <1>t DEF CancelAtVenue, Phases, TypeOK
  <2>2. book' \in Seq(Order) /\ DOMAIN book' = DOMAIN book /\ Len(book') <= MaxOrders
    BY <1>t, <2>1, CancelShape DEF TypeOK
  <2>3. /\ reply' \in [Apps -> Ids \cup {NoOrder}]
        /\ \A b \in Apps : b # a => reply'[b] = reply[b]
        /\ \A b \in Apps : pc'[b] = IF b = a THEN "canceled" ELSE pc[b]
    BY <1>k, <1>t, <1>b, <2>1 DEF TypeOK
  <2>4. TypeOK'
    BY <1>t, <2>1, <2>2, <2>3 DEF TypeOK
  <2>5. Phases'
    BY <1>t, <2>1, <2>2, <2>3 DEF Phases
  <2>6. Known'
    BY <1>t, <2>1, <2>2, <2>3 DEF Known
  <2> QED BY <2>4, <2>5, <2>6 DEF TypeInv
<1>10. ASSUME NEW a \in Apps, PlaceAtVenue(a) PROVE TypeInv'
  <2>1. /\ pc[a] = "place" /\ call[a].op \in Places /\ late[a] = "none"
        /\ pc' = [pc EXCEPT ![a] = "placed"]
        /\ UNCHANGED <<call, cur, seen, listed, todo, got, late, coidToOid, oidToCoid>>
    BY <1>10, <1>t DEF PlaceAtVenue, Phases
  <2>2. \E r \in Ids \cup {NoOrder} :
          /\ reply' = [reply EXCEPT ![a] = r] /\ r \in DOMAIN book' \cup {NoOrder}
          /\ book' \in Seq(Order) /\ Len(book') <= MaxOrders /\ DOMAIN book \subseteq DOMAIN book'
    <3>1. CASE /\ SameKey(a) # {} /\ reply' = [reply EXCEPT ![a] = Min(SameKey(a))]
               /\ UNCHANGED book
      <4>1. SameKey(a) \subseteq DOMAIN book
        BY DEF SameKey
      <4>2. Min(SameKey(a)) \in DOMAIN book
        BY <1>b, <3>1, <4>1, Least
      <4> QED BY <1>t, <1>b, <3>1, <4>2 DEF TypeOK
    <3>2. CASE /\ Len(book) < MaxOrders /\ book' = Append(book, Placed(a))
               /\ reply' = [reply EXCEPT ![a] = Len(book) + 1]
      BY <1>t, <2>1, <3>2, AppendShape DEF Places
    <3>3. CASE reply' = [reply EXCEPT ![a] = NoOrder] /\ UNCHANGED book
      BY <1>t, <3>3 DEF TypeOK
    <3> QED BY <1>10, <3>1, <3>2, <3>3 DEF PlaceAtVenue
  <2>3. /\ reply' \in [Apps -> Ids \cup {NoOrder}]
        /\ reply'[a] \in DOMAIN book' \cup {NoOrder}
        /\ \A b \in Apps : b # a => reply'[b] = reply[b]
        /\ \A b \in Apps : pc'[b] = IF b = a THEN "placed" ELSE pc[b]
    BY <1>k, <1>t, <2>1, <2>2 DEF TypeOK
  <2>4. TypeOK'
    BY <1>t, <2>1, <2>2, <2>3 DEF TypeOK
  <2>5. Phases'
    BY <1>t, <2>1, <2>2, <2>3 DEF Phases
  <2>6. Known'
    BY <1>t, <2>1, <2>2, <2>3 DEF Known
  <2> QED BY <2>4, <2>5, <2>6 DEF TypeInv
<1>11. ASSUME NEW a \in Apps, Arrives(a) PROVE TypeInv'
  <2>1. /\ late' = [late EXCEPT ![a] = "none"]
        /\ UNCHANGED <<call, pc, cur, reply, seen, listed, todo, got, coidToOid, oidToCoid>>
    BY <1>11 DEF Arrives
  <2>2. book' \in Seq(Order) /\ Len(book') <= MaxOrders /\ DOMAIN book \subseteq DOMAIN book'
    <3>1. CASE late[a] = "cancel"
      <4>1. cur[a] \in DOMAIN book /\ CancelInBook(a)
        BY <1>11, <1>t, <3>1 DEF Arrives, Phases
      <4> QED BY <1>t, <4>1, CancelShape DEF TypeOK
    <3>2. CASE late[a] = "place" /\ Len(book) < MaxOrders /\ book' = Append(book, Placed(a))
      <4>1. call[a].op \in {"place", "modify"}
        BY <1>t, <3>2 DEF Phases, Places
      <4> QED BY <1>t, <3>2, <4>1, AppendShape
    <3>3. CASE UNCHANGED book
      BY <1>t, <3>3 DEF TypeOK
    <3> QED BY <1>11, <1>t, <3>1, <3>2, <3>3 DEF Arrives, TypeOK
  <2> QED BY <2>1, <2>2, BookMoves
<1>12. ASSUME NEW a \in Apps, Refused(a) \/ Lost(a) PROVE TypeInv'
  <2>1. /\ pc[a] \in {"cancel", "place", "canceled", "placed"}
        /\ \E e \in {"APIError", "NetworkError"} :
             /\ pc' = [pc EXCEPT ![a] = e]
             /\ late' = late \/ (e \in {"NetworkError", "APIError"} /\ pc[a] \in {"cancel", "place"}
                                /\ late' = [late EXCEPT ![a] = pc[a]])
        /\ UNCHANGED <<book, call, cur, reply, seen, listed, todo, got, coidToOid, oidToCoid>>
    BY <1>12 DEF Refused, Lost, Untold
  <2>2. call[a].op # "none"
    BY <1>t, <2>1 DEF Phases
  <2> QED BY <1>k, <2>1, <2>2, MovesOn DEF Ends, Untold
<1>13. ASSUME NEW a \in Apps, CancelAnswered(a) PROVE TypeInv'
  <2>1. /\ pc[a] = "canceled" /\ call[a].op \in Cancels /\ call[a].op # "none"
        /\ UNCHANGED <<book, call, reply, seen, listed, late, coidToOid, oidToCoid>>
    BY <1>13, <1>t DEF CancelAnswered, Phases
  <2>2. CASE /\ call[a].op \in {"cancel", "cancel_by_client_id"}
             /\ \E s \in {"OrderRejectedError", "ok"} : pc' = [pc EXCEPT ![a] = s]
             /\ UNCHANGED <<cur, todo, got>>
    BY <1>k, <2>1, <2>2, MovesOn DEF Ends, Untold
  <2>3. CASE call[a].op = "cancel_all" /\ Count(a) /\ NextCancel(a)
    <3> DEFINE rest == todo[a] \ {cur[a]}
    <3>0. cur[a] \in DOMAIN book
      BY <1>t, <2>1 DEF TypeOK
    <3>1. /\ todo' = [todo EXCEPT ![a] = rest]
          /\ got' = [got EXCEPT ![a] = IF reply[a] = NoOrder THEN got[a] ELSE got[a] \cup {cur[a]}]
      BY <2>3 DEF NextCancel, Count
    <3>a. cur[a] \in todo[a]
      BY <1>t, <2>1, <2>3 DEF Phases
    <3>2. /\ \A b \in Apps : b # a => todo'[b] = todo[b] /\ got'[b] = got[b]
          /\ todo'[a] = rest
          /\ todo' \in [Apps -> SUBSET Ids] /\ got' \in [Apps -> SUBSET Ids]
          /\ \A b \in Apps : todo'[b] \cup got'[b] \subseteq listed'[b] /\ listed'[b] \subseteq DOMAIN book
      BY <1>k, <1>b, <2>1, <3>1, <3>a
    <3>3. CASE pc' = [pc EXCEPT ![a] = "ok"] /\ UNCHANGED cur
      BY <1>k, <2>1, <3>2, <3>3, MovesOn DEF Ends, Untold
    <3>4. CASE rest # {} /\ pc' = [pc EXCEPT ![a] = "account"] /\ cur' = [cur EXCEPT ![a] = Min(rest)]
      <4>1. rest \subseteq DOMAIN book /\ rest \in SUBSET Ids
        BY <1>k, <1>b
      <4>2. Min(rest) \in rest /\ Min(rest) \in DOMAIN book
        BY <3>4, <4>1, Least
      <4>3. /\ cur' \in [Apps -> Ids \cup {NoOrder}] /\ cur'[a] \in DOMAIN book /\ cur'[a] \in todo'[a]
            /\ \A b \in Apps : b # a => cur'[b] = cur[b]
        BY <1>k, <1>b, <3>2, <3>4, <4>2
      <4> QED BY <1>k, <2>1, <2>3, <3>2, <3>4, <4>3, MovesOn DEF Cancels
    <3> QED BY <2>3, <3>3, <3>4 DEF NextCancel
  <2>4. CASE call[a].op = "modify" /\ pc' = [pc EXCEPT ![a] = AfterCancel(a)] /\ UNCHANGED <<cur, todo, got>>
    <3>1. AfterCancel(a) \in {"OrderRejectedError", "resolve"}
      BY DEF AfterCancel
    <3> QED BY <1>k, <2>1, <2>4, <3>1, MovesOn DEF Ends, Untold, Places
  <2> QED BY <1>13, <2>2, <2>3, <2>4 DEF CancelAnswered
<1>14. ASSUME NEW a \in Apps, PlaceAnswered(a) PROVE TypeInv'
  <2>1. /\ pc[a] = "placed" /\ call[a].op \in Places /\ call[a].op # "none"
        /\ UNCHANGED <<book, call, cur, reply, seen, listed, todo, got, late>>
    BY <1>14, <1>t DEF PlaceAnswered, Phases
  <2>2. CASE UNCHANGED <<coidToOid, oidToCoid>>
    <3>1. \E s \in {"OrderRejectedError", "ok"} : pc' = [pc EXCEPT ![a] = s]
      BY <1>14 DEF PlaceAnswered
    <3> QED BY <1>k, <2>1, <2>2, <3>1, MovesOn DEF Ends, Untold
  <2>3. CASE reply[a] # NoOrder /\ pc' = [pc EXCEPT ![a] = "ok"] /\ KeyOf(a) # NoKey /\ Remember(a)
    <3>1. call[a] \in Args
      BY <1>t, <2>1 DEF TypeOK, NoArgs
    <3>2. KeyOf(a) \in Keys /\ reply[a] \in DOMAIN book /\ reply[a] \in Ids
      BY <1>t, <1>k, <2>1, <2>3, <3>1 DEF KeyOf, Args, Known
    <3>3. /\ coidToOid' \in [Keys -> Ids \cup {NoOrder}] /\ oidToCoid' \in [Ids -> Keys \cup {NoKey}]
          /\ \A k \in Keys : coidToOid'[k] = IF k = KeyOf(a) THEN reply[a] ELSE coidToOid[k]
          /\ \A b \in Apps : pc'[b] = IF b = a THEN "ok" ELSE pc[b]
          /\ pc' \in [Apps -> {"idle", "resolve", "account", "lookup", "list", "read", "cancel",
                               "canceled", "place", "placed"} \cup Ends]
      BY <1>t, <2>3, <3>2 DEF TypeOK, Remember, Ends
    <3>4. TypeOK'
      BY <1>t, <2>1, <3>3 DEF TypeOK
    <3>5. Phases'
      BY <1>t, <2>1, <3>3 DEF Phases
    <3>6. Known'
      BY <1>t, <2>1, <3>2, <3>3 DEF Known
    <3> QED BY <3>4, <3>5, <3>6 DEF TypeInv
  <2> QED BY <1>14, <2>2, <2>3 DEF PlaceAnswered
<1>15. ASSUME UNCHANGED vars PROVE TypeInv'
  BY <1>15, <1>t DEF vars, TypeInv, TypeOK, Phases, Known
<1> QED BY <1>1, <1>2, <1>3, <1>4, <1>5, <1>6, <1>7, <1>8, <1>9, <1>10, <1>11, <1>12, <1>13,
           <1>14, <1>15 DEF Next, Finished

(* orders.py:118: in every reachable state the variables have their types;   *)
(* each cancel names an order that the venue has.                            *)
THEOREM OrdersTypeCorrect == Spec => []TypeOK
<1>1. TypeInv => TypeOK
  BY DEF TypeInv
<1> QED BY <1>1, TypeInvInit, TypeInvStep, PTL DEF Spec

-----------------------------------------------------------------------------
(* What each coroutine did to the book.                                      *)

\* An order is canceled once, and does not change any more.
CanceledOnce == \A o \in DOMAIN book : book[o].canceler # NoKey => book[o].status = "CANCELED"

\* A coroutine makes one order, with its key, and its answer names it.
Makes(a) ==
    \A o \in DOMAIN book : book[o].maker = a =>
        /\ call[a].op \in Places
        /\ book[o].key = KeyOf(a)
        /\ late[a] # "place"
        /\ pc[a] \in {"placed", "ok", "NetworkError", "APIError"}
        /\ pc[a] = "placed" => reply[a] # NoOrder

\* The order of an answered cancel has ended, by this cancel if the answer says so.
CancelsOwn(a) ==
    /\ \A o \in DOMAIN book : book[o].canceler = a => call[a].op \in Cancels
    /\ pc[a] = "canceled" => /\ book[cur[a]].status \in Terminal
                             /\ reply[a] # NoOrder => book[cur[a]].canceler = a

\* modify comes to its place only with its own cancel done.
Replaces(a) ==
    /\ call[a].op = "modify"
    /\ \/ pc[a] \in {"resolve", "place", "placed"} \/ late[a] = "place"
       \/ \E o \in DOMAIN book : book[o].maker = a
    => book[cur[a]].canceler = a

\* cancel_all counts what it canceled before it goes on, and leaves no order it has passed
\* open.
Reports(a) ==
    call[a].op = "cancel_all" =>
        /\ \A o \in got[a] : book[o].canceler = a
        /\ got[a] \cap todo[a] = {}
        /\ \A o \in listed[a] \ todo[a] : book[o].status \in Terminal
        /\ pc[a] = "ok" => todo[a] = {}
        /\ pc[a] \in {"list", "account", "cancel", "ok"} \/ (pc[a] = "canceled" /\ reply[a] = NoOrder)
             => \A o \in DOMAIN book : book[o].canceler = a => o \in got[a]
        /\ \A o \in DOMAIN book : book[o].canceler = a => o \in got[a] \cup {cur[a]}

Did(a) == Makes(a) /\ CancelsOwn(a) /\ Replaces(a) /\ Reports(a)
DidInv == TypeInv /\ CanceledOnce /\ \A a \in Apps : Did(a)

\* What another coroutine, or the market, may do to the book in the eyes of a.
Untouched(a) ==
    /\ DOMAIN book \subseteq DOMAIN book'
    /\ \A o \in DOMAIN book :
         /\ book'[o].key = book[o].key /\ book'[o].maker = book[o].maker
         /\ book[o].status \in Terminal => book'[o].status \in Terminal
         /\ book'[o].canceler = a <=> book[o].canceler = a
    /\ \A o \in DOMAIN book' \ DOMAIN book : book'[o].maker # a /\ book'[o].canceler # a

\* Then what a did stands.
LEMMA DidStays ==
    ASSUME TypeInv, NEW a \in Apps, Did(a), Untouched(a),
           call'[a] = call[a], pc'[a] = pc[a], cur'[a] = cur[a], reply'[a] = reply[a],
           listed'[a] = listed[a], todo'[a] = todo[a], got'[a] = got[a], late'[a] = late[a]
    PROVE  Did(a)'
<1>1. KeyOf(a)' = KeyOf(a)
  BY DEF KeyOf
<1>2. /\ pc[a] = "canceled" => cur[a] \in DOMAIN book
      /\ call[a].op = "modify" => cur[a] \in DOMAIN book
      /\ listed[a] \subseteq DOMAIN book /\ got[a] \subseteq DOMAIN book
  BY DEF TypeInv, TypeOK, Phases
<1>3. Makes(a)'
  BY <1>1 DEF Did, Makes, Untouched
<1>4. CancelsOwn(a)'
  BY <1>2 DEF Did, CancelsOwn, Untouched
<1>5. Replaces(a)'
  BY <1>2 DEF Did, Replaces, Untouched
<1>6. Reports(a)'
  BY <1>2 DEF Did, Reports, Untouched
<1> QED BY <1>3, <1>4, <1>5, <1>6 DEF Did

\* An unchanged book is untouched; so is one with another's cancel, order or a fill.
LEMMA UntouchedBySame == ASSUME UNCHANGED book, NEW a PROVE Untouched(a)
BY DEF Untouched

\* A fill has neither a maker nor a canceler.
LEMMA UntouchedByFill ==
    ASSUME TypeOK, Fill, NEW a \in Apps
    PROVE  Untouched(a)
<1>1. PICK f \in DOMAIN book, s \in {"PARTIALLY_FILLED", "FILLED"} :
        /\ book[f].status \in Open /\ DOMAIN book' = DOMAIN book
        /\ \A o \in DOMAIN book :
             book'[o] = IF o = f THEN [book[o] EXCEPT !.status = s] ELSE book[o]
  BY FillShape
<1>2. \A o \in DOMAIN book :
        /\ book'[o].key = book[o].key /\ book'[o].maker = book[o].maker
        /\ book'[o].canceler = book[o].canceler
        /\ o # f => book'[o] = book[o]
  BY <1>1, BookShape DEF Order
<1> QED BY <1>1, <1>2 DEF Untouched, Open, Terminal

\* Another coroutine's cancel has that one as its canceler.
LEMMA UntouchedByCancel ==
    ASSUME TypeOK, CanceledOnce, NEW b \in Apps, cur[b] \in DOMAIN book, CancelInBook(b),
           NEW a \in Apps, a # b
    PROVE  Untouched(a)
<1>1. /\ DOMAIN book' = DOMAIN book
      /\ \A o \in DOMAIN book :
           IF o = cur[b] /\ book[o].status \in Open
             THEN book'[o] = [book[o] EXCEPT !.status = "CANCELED", !.canceler = b]
             ELSE book'[o] = book[o]
  BY CancelShape
<1>2. \A o \in DOMAIN book :
        \/ book'[o] = book[o]
        \/ /\ book[o].status \in Open /\ book'[o].status = "CANCELED"
           /\ book'[o].key = book[o].key /\ book'[o].maker = book[o].maker
           /\ book'[o].canceler = b
  BY <1>1, BookShape DEF Order
<1>3. \A o \in DOMAIN book : book[o].status \in Open => book[o].canceler # a
  BY OrdersAssumption DEF CanceledOnce, Open
<1> QED BY <1>1, <1>2, <1>3 DEF Untouched, Open, Terminal

\* Another coroutine's order has that one as its maker.
LEMMA UntouchedByPlace ==
    ASSUME TypeOK, NEW b \in Apps, call[b].op \in Places, Len(book) < MaxOrders,
           book' = Append(book, Placed(b)), NEW a \in Apps, a # b
    PROVE  Untouched(a)
<1>1. /\ DOMAIN book' = DOMAIN book \cup {Len(book) + 1}
      /\ \A o \in DOMAIN book : book'[o] = book[o]
      /\ book'[Len(book) + 1] = Placed(b)
  BY AppendShape DEF Places
<1>2. Placed(b).maker = b /\ Placed(b).canceler = NoKey
  BY DEF Placed
<1> QED BY <1>1, <1>2, OrdersAssumption DEF Untouched

\* Nothing was done at the beginning.
LEMMA DidInit == Init => DidInv
<1> SUFFICES ASSUME Init PROVE DidInv
  OBVIOUS
<1>1. TypeInv
  BY TypeInvInit
<1>2. \A o \in DOMAIN book : book[o].maker = NoKey /\ book[o].canceler = NoKey
  BY DEF Init
<1>3. \A a \in Apps : call[a].op = "none" /\ pc[a] = "idle" /\ late[a] = "none"
  BY DEF Init, NoArgs
<1>4. \A a \in Apps : Did(a)
  BY <1>2, <1>3, OrdersAssumption DEF Did, Makes, CancelsOwn, Replaces, Reports
<1>5. CanceledOnce
  BY <1>2 DEF CanceledOnce
<1> QED BY <1>1, <1>4, <1>5 DEF DidInv

\* A record of the book keeps saying who canceled it.
LEMMA CanceledOnceStep == TypeInv /\ CanceledOnce /\ [Next]_vars => CanceledOnce'
<1> SUFFICES ASSUME TypeInv, CanceledOnce, [Next]_vars PROVE CanceledOnce'
  OBVIOUS
<1>t. TypeOK
  BY DEF TypeInv
<1>1. CASE UNCHANGED book
  BY <1>1 DEF CanceledOnce
<1>2. CASE Fill
  <2>1. PICK f \in DOMAIN book, s \in {"PARTIALLY_FILLED", "FILLED"} :
          /\ book[f].status \in Open /\ DOMAIN book' = DOMAIN book
          /\ \A o \in DOMAIN book :
               book'[o] = IF o = f THEN [book[o] EXCEPT !.status = s] ELSE book[o]
    BY <1>2, <1>t, FillShape
  <2>2. book'[f].canceler = book[f].canceler /\ book[f].canceler = NoKey
    BY <1>t, <2>1, BookShape DEF Order, CanceledOnce, Open
  <2> QED BY <2>1, <2>2 DEF CanceledOnce
<1>3. ASSUME NEW a \in Apps, cur[a] \in DOMAIN book, CancelInBook(a) PROVE CanceledOnce'
  <2>1. /\ DOMAIN book' = DOMAIN book
        /\ \A o \in DOMAIN book :
             IF o = cur[a] /\ book[o].status \in Open
               THEN book'[o] = [book[o] EXCEPT !.status = "CANCELED", !.canceler = a]
               ELSE book'[o] = book[o]
    BY <1>3, <1>t, CancelShape
  <2>2. \A o \in DOMAIN book : book'[o] = book[o] \/ book'[o].status = "CANCELED"
    BY <1>t, <2>1, BookShape DEF Order
  <2> QED BY <2>1, <2>2 DEF CanceledOnce
<1>4. ASSUME NEW a \in Apps, call[a].op \in Places, Len(book) < MaxOrders,
             book' = Append(book, Placed(a))
      PROVE  CanceledOnce'
  <2>1. /\ DOMAIN book' = DOMAIN book \cup {Len(book) + 1}
        /\ \A o \in DOMAIN book : book'[o] = book[o]
        /\ book'[Len(book) + 1] = Placed(a)
    BY <1>4, <1>t, AppendShape DEF Places
  <2>2. Placed(a).canceler = NoKey
    BY DEF Placed
  <2> QED BY <2>1, <2>2 DEF CanceledOnce
<1>5. ASSUME NEW a \in Apps, CancelAtVenue(a) \/ PlaceAtVenue(a) \/ Arrives(a) PROVE CanceledOnce'
  <2>1. CASE CancelAtVenue(a)
    BY <1>3, <1>t, <2>1 DEF CancelAtVenue, TypeOK
  <2>2. CASE PlaceAtVenue(a)
    BY <1>1, <1>4, <2>2 DEF PlaceAtVenue, TypeInv, Phases
  <2>3. CASE Arrives(a)
    <3>1. late[a] \in {"cancel", "place"}
      BY <1>t, <2>3 DEF Arrives, TypeOK
    <3>2. CASE late[a] = "cancel"
      BY <1>3, <2>3, <3>2 DEF Arrives, TypeInv, Phases
    <3>3. CASE late[a] = "place"
      BY <1>1, <1>4, <2>3, <3>3 DEF Arrives, TypeInv, Phases
    <3> QED BY <3>1, <3>2, <3>3
  <2> QED BY <1>5, <2>1, <2>2, <2>3
<1>6. CASE UNCHANGED vars
  BY <1>1, <1>6 DEF vars
<1>7. ASSUME NEW a \in Apps,
             \/ Start(a) \/ FailsEarly(a) \/ Lookup(a) \/ List(a) \/ Read(a) \/ PostCancel(a)
             \/ PostPlace(a) \/ Refused(a) \/ Lost(a) \/ CancelAnswered(a) \/ PlaceAnswered(a)
      PROVE  CanceledOnce'
  BY <1>1, <1>7 DEF Start, FailsEarly, Lookup, List, Read, PostCancel, PostPlace, Refused, Lost,
                    CancelAnswered, PlaceAnswered
<1> QED BY <1>2, <1>5, <1>6, <1>7 DEF Next, Finished

\* A step of a leaves the others' state alone, and the book as they see it.
LEMMA OthersStand ==
    ASSUME TypeInv, CanceledOnce, NEW a \in Apps, NEW b \in Apps, b # a,
           \/ Start(a) \/ FailsEarly(a) \/ Lookup(a) \/ List(a) \/ Read(a)
           \/ PostCancel(a) \/ PostPlace(a) \/ CancelAtVenue(a) \/ PlaceAtVenue(a)
           \/ Arrives(a) \/ Refused(a) \/ Lost(a) \/ CancelAnswered(a) \/ PlaceAnswered(a)
    PROVE  /\ Untouched(b)
           /\ call'[b] = call[b] /\ pc'[b] = pc[b] /\ cur'[b] = cur[b] /\ reply'[b] = reply[b]
           /\ listed'[b] = listed[b] /\ todo'[b] = todo[b] /\ got'[b] = got[b] /\ late'[b] = late[b]
<1> DEFINE Stands == /\ call'[b] = call[b] /\ pc'[b] = pc[b] /\ cur'[b] = cur[b] /\ reply'[b] = reply[b]
                     /\ listed'[b] = listed[b] /\ todo'[b] = todo[b] /\ got'[b] = got[b]
                     /\ late'[b] = late[b]
<1> USE DEF Goes, scratch, index
<1>t. TypeOK
  BY DEF TypeInv
<1>1. CASE Start(a) \/ FailsEarly(a) \/ Lookup(a) \/ List(a) \/ Read(a)
  <2>1. UNCHANGED book /\ Stands
    BY <1>1, <1>t DEF Start, FailsEarly, Lookup, List, Read, TypeOK
  <2> QED BY <2>1, UntouchedBySame
<1>2. CASE \/ PostCancel(a) \/ PostPlace(a) \/ Refused(a) \/ Lost(a) \/ CancelAnswered(a)
           \/ PlaceAnswered(a)
  <2>1. UNCHANGED book /\ Stands
    BY <1>2, <1>t DEF PostCancel, PostPlace, Refused, Lost, CancelAnswered, PlaceAnswered,
                      Count, NextCancel, TypeOK
  <2> QED BY <2>1, UntouchedBySame
<1>3. CASE CancelAtVenue(a)
  <2>1. Stands /\ CancelInBook(a) /\ cur[a] \in DOMAIN book
    BY <1>3, <1>t DEF CancelAtVenue, TypeOK
  <2> QED BY <1>t, <2>1, UntouchedByCancel
<1>4. CASE PlaceAtVenue(a)
  <2>1. Stands /\ call[a].op \in Places
    BY <1>4, <1>t DEF PlaceAtVenue, TypeOK, TypeInv, Phases
  <2>2. book' = book \/ (Len(book) < MaxOrders /\ book' = Append(book, Placed(a)))
    BY <1>4 DEF PlaceAtVenue
  <2> QED BY <1>t, <2>1, <2>2, UntouchedBySame, UntouchedByPlace
<1>5. CASE Arrives(a)
  <2>1. Stands
    BY <1>5, <1>t DEF Arrives, TypeOK
  <2>2. CASE late[a] = "cancel"
    <3>1. CancelInBook(a) /\ cur[a] \in DOMAIN book
      BY <1>5, <2>2 DEF Arrives, TypeInv, Phases
    <3> QED BY <1>t, <2>1, <3>1, UntouchedByCancel
  <2>3. CASE late[a] # "cancel"
    <3>1. book' = book \/ (Len(book) < MaxOrders /\ book' = Append(book, Placed(a)))
      BY <1>5, <2>3 DEF Arrives
    <3>2. call[a].op \in Places
      BY <1>5, <1>t, <2>3 DEF Arrives, TypeInv, TypeOK, Phases
    <3> QED BY <1>t, <2>1, <3>1, <3>2, UntouchedBySame, UntouchedByPlace
  <2> QED BY <2>2, <2>3
<1> QED BY <1>1, <1>2, <1>3, <1>4, <1>5

\* Before its first request a coroutine has done nothing to the book.
LEMMA DidNothing ==
    ASSUME TypeInv, NEW a \in Apps, Did(a), pc[a] \in {"idle", "lookup", "read"}
    PROVE  \A o \in DOMAIN book : book[o].maker # a /\ (pc[a] = "idle" => book[o].canceler # a)
BY DEF TypeInv, Phases, Did, Makes, CancelsOwn, Cancels

\* The steps of a before its request is answered.
LEMMA DidEarly ==
    ASSUME TypeInv, NEW a \in Apps, Did(a),
           \/ FailsEarly(a) \/ Lookup(a) \/ Read(a) \/ PostCancel(a) \/ PostPlace(a)
           \/ Refused(a) \/ Lost(a)
    PROVE  Did(a)'
<1> USE DEF Goes, scratch, index
<1>t. TypeOK /\ Phases
  BY DEF TypeInv
<1>1. UNCHANGED <<book, call, reply, listed, todo, got>>
  BY DEF FailsEarly, Lookup, Read, PostCancel, PostPlace, Refused, Lost
<1>2. /\ pc'[a] \notin {"canceled", "placed", "list", "ok", "resolve"}
      /\ pc'[a] = "account" => pc[a] \in {"lookup", "read"}
      /\ pc'[a] = "cancel" => pc[a] = "account"
      /\ pc'[a] = "place" => pc[a] = "resolve"
      /\ pc[a] \notin {"idle", "ok", "NetworkError", "APIError"}
  BY <1>t DEF FailsEarly, Lookup, Read, PostCancel, PostPlace, Refused, Lost, Untold, TypeOK
<1>3. /\ pc[a] = "placed" => pc'[a] \in {"NetworkError", "APIError"}
      /\ late'[a] = "place" => pc[a] = "place"
      /\ cur'[a] = cur[a] \/ pc[a] = "lookup"
  BY <1>t DEF FailsEarly, Lookup, Read, PostCancel, PostPlace, Refused, Lost, Untold, TypeOK, Phases
<1>4. KeyOf(a)' = KeyOf(a)
  BY <1>1 DEF KeyOf
<1>5. Makes(a)'
  BY <1>1, <1>2, <1>3, <1>4, <1>t DEF Did, Makes
<1>6. CancelsOwn(a)'
  BY <1>1, <1>2 DEF Did, CancelsOwn
<1>7. Replaces(a)'
  BY <1>1, <1>2, <1>3, <1>t DEF Did, Makes, Replaces, Phases
<1>8. Reports(a)'
  BY <1>1, <1>2, <1>3, <1>t DEF Did, Reports, Phases
<1> QED BY <1>5, <1>6, <1>7, <1>8 DEF Did

\* The first step of an operation, and the listing of cancel_all.
LEMMA DidStart ==
    ASSUME TypeInv, NEW a \in Apps, Did(a), Start(a)
    PROVE  Did(a)'
<1>1. UNCHANGED <<book, reply, listed, todo, got, late>> /\ pc[a] = "idle"
  BY DEF Start, scratch
<1>2. \A o \in DOMAIN book : book[o].maker # a /\ book[o].canceler # a
  BY <1>1, DidNothing
<1>3. listed[a] = {} /\ todo[a] = {} /\ got[a] = {} /\ late[a] = "none"
  BY <1>1 DEF TypeInv, TypeOK, Phases
<1>4. PICK args \in Args : Goes(a, CASE args.op = "place" -> "resolve"
                                     [] args.op = "cancel" -> "account"
                                     [] args.op = "cancel_by_client_id" -> "lookup"
                                     [] args.op = "cancel_all" -> "list"
                                     [] args.op = "modify" -> "read")
                           /\ call' = [call EXCEPT ![a] = args]
  BY DEF Start
<1>5. call'[a].op = "modify" => pc'[a] = "read"
  BY <1>4 DEF Goes, TypeInv, TypeOK
<1>6. pc'[a] \notin {"canceled", "ok"}
  BY <1>4 DEF Goes, TypeInv, TypeOK, Args, Ops
<1> QED BY <1>1, <1>2, <1>3, <1>5, <1>6 DEF Did, Makes, CancelsOwn, Replaces, Reports

\* cancel_all reads the open orders, none of which it has canceled yet.
LEMMA DidList ==
    ASSUME TypeInv, NEW a \in Apps, Did(a), List(a)
    PROVE  Did(a)'
<1>1. /\ UNCHANGED <<book, call, reply, got, late>> /\ pc[a] = "list" /\ call[a].op = "cancel_all"
      /\ listed'[a] = OpenIds /\ todo'[a] = OpenIds
      /\ pc'[a] = (IF OpenIds = {} THEN "ok" ELSE "account")
  BY DEF List, Goes, TypeInv, TypeOK, Phases
<1>2. got[a] = {} /\ late[a] = "none"
  BY <1>1 DEF TypeInv, TypeOK, Phases
<1>3. \A o \in DOMAIN book : book[o].maker # a /\ book[o].canceler # a
  BY <1>1, <1>2 DEF Did, Makes, Reports
<1> QED BY <1>1, <1>2, <1>3 DEF Did, Makes, CancelsOwn, Replaces, Reports, Cancels

\* Its cancel, in time or late.
LEMMA DidCancelInBook ==
    ASSUME TypeInv, NEW a \in Apps, Did(a), CancelInBook(a), cur[a] \in DOMAIN book
    PROVE  /\ DOMAIN book' = DOMAIN book
           /\ \A o \in DOMAIN book :
                /\ book'[o].key = book[o].key /\ book'[o].maker = book[o].maker
                /\ book[o].canceler = a => book'[o].canceler = a
                /\ book'[o].canceler = a => book[o].canceler = a \/ o = cur[a]
                /\ book[o].status \in Terminal => book'[o].status \in Terminal
           /\ book'[cur[a]].status \in Terminal
           /\ cur[a] \in OpenIds => book'[cur[a]].canceler = a
           /\ cur[a] \notin OpenIds => book' = book
<1>t. TypeOK
  BY DEF TypeInv
<1>1. /\ DOMAIN book' = DOMAIN book
      /\ \A o \in DOMAIN book :
           IF o = cur[a] /\ book[o].status \in Open
             THEN book'[o] = [book[o] EXCEPT !.status = "CANCELED", !.canceler = a]
             ELSE book'[o] = book[o]
  BY <1>t, CancelShape
<1>2. \A o \in DOMAIN book :
        /\ o = cur[a] /\ book[o].status \in Open
             => /\ book'[o].status = "CANCELED" /\ book'[o].canceler = a
                /\ book'[o].key = book[o].key /\ book'[o].maker = book[o].maker
        /\ ~(o = cur[a] /\ book[o].status \in Open) => book'[o] = book[o]
        /\ book[o].status \in Open \cup Terminal
  BY <1>t, <1>1, BookShape DEF Order
<1>3. cur[a] \notin OpenIds => book' = book
  BY DEF CancelInBook
<1> QED BY <1>1, <1>2, <1>3 DEF Open, Terminal, OpenIds

\* Its cancel in time: the order has ended when the answer comes.
LEMMA DidCancelAtVenue ==
    ASSUME TypeInv, NEW a \in Apps, Did(a), CancelAtVenue(a)
    PROVE  Did(a)'
<1>1. /\ UNCHANGED <<call, cur, listed, todo, got, late>> /\ pc[a] = "cancel" /\ pc'[a] = "canceled"
      /\ CancelInBook(a) /\ cur[a] \in DOMAIN book /\ call[a].op \in Cancels
      /\ reply'[a] = IF cur[a] \in OpenIds THEN cur[a] ELSE NoOrder
      /\ late[a] = "none"
  BY DEF CancelAtVenue, Goes, scratch, TypeInv, TypeOK, Phases
<1>2. \A o \in DOMAIN book : book[o].maker # a
  BY <1>1 DEF Did, Makes
<1>3. listed[a] \subseteq DOMAIN book /\ got[a] \subseteq DOMAIN book
      /\ cur[a] # NoOrder
  BY <1>1, BookShape, OrdersAssumption DEF TypeInv, TypeOK, Ids, NoOrder
<1>b. /\ DOMAIN book' = DOMAIN book
      /\ \A o \in DOMAIN book :
           /\ book'[o].key = book[o].key /\ book'[o].maker = book[o].maker
           /\ book[o].canceler = a => book'[o].canceler = a
           /\ book'[o].canceler = a => book[o].canceler = a \/ o = cur[a]
           /\ book[o].status \in Terminal => book'[o].status \in Terminal
      /\ book'[cur[a]].status \in Terminal
      /\ cur[a] \in OpenIds => book'[cur[a]].canceler = a
      /\ cur[a] \notin OpenIds => book' = book
  BY <1>1, DidCancelInBook
<1>4. Makes(a)' /\ CancelsOwn(a)' /\ Replaces(a)'
  BY <1>1, <1>2, <1>b DEF Makes, CancelsOwn, Replaces
<1>5. Reports(a)'
  BY <1>1, <1>3, <1>b DEF Did, Reports
<1> QED BY <1>4, <1>5 DEF Did

\* The answer to its cancel: what is counted is what it canceled.
LEMMA DidCancelAnswered ==
    ASSUME TypeInv, NEW a \in Apps, Did(a), CancelAnswered(a)
    PROVE  Did(a)'
<1>1. /\ UNCHANGED <<book, call, reply, listed, late>> /\ pc[a] = "canceled"
      /\ cur[a] \in DOMAIN book /\ late[a] = "none"
  BY DEF CancelAnswered, TypeInv, TypeOK, Phases
<1>2. \A o \in DOMAIN book : book[o].maker # a
  BY <1>1 DEF Did, Makes
<1>3. /\ book[cur[a]].status \in Terminal
      /\ reply[a] # NoOrder => book[cur[a]].canceler = a
  BY <1>1 DEF Did, CancelsOwn
<1>4. CASE call[a].op \in {"cancel", "cancel_by_client_id"}
  <2>1. pc'[a] \in {"ok", "OrderRejectedError"}
    BY <1>4 DEF CancelAnswered, Goes, TypeInv, TypeOK
  <2> QED BY <1>1, <1>2, <1>4, <2>1 DEF Did, Makes, CancelsOwn, Replaces, Reports
<1>5. CASE call[a].op = "modify"
  <2>1. UNCHANGED cur /\ pc'[a] = AfterCancel(a)
    BY <1>5 DEF CancelAnswered, Goes, TypeInv, TypeOK
  <2> QED BY <1>1, <1>2, <1>3, <1>5, <2>1 DEF Did, Makes, CancelsOwn, Replaces, Reports, AfterCancel
<1>6. CASE call[a].op = "cancel_all"
  <2>1. /\ todo'[a] = todo[a] \ {cur[a]}
        /\ got'[a] = IF reply[a] = NoOrder THEN got[a] ELSE got[a] \cup {cur[a]}
        /\ pc'[a] = IF todo'[a] = {} THEN "ok" ELSE "account"
    BY <1>6 DEF CancelAnswered, Count, NextCancel, Goes, TypeInv, TypeOK
  <2>2. Makes(a)' /\ CancelsOwn(a)' /\ Replaces(a)'
    BY <1>1, <1>2, <1>6, <2>1 DEF Did, Makes, CancelsOwn, Replaces
  <2>3. Reports(a)'
    BY <1>1, <1>3, <1>6, <2>1 DEF Did, Reports
  <2> QED BY <2>2, <2>3 DEF Did
<1> QED BY <1>4, <1>5, <1>6 DEF CancelAnswered

\* Its order, in time or late.
LEMMA DidPlaceInBook ==
    ASSUME TypeInv, NEW a \in Apps, call[a].op \in Places,
           Len(book) < MaxOrders, book' = Append(book, Placed(a))
    PROVE  /\ DOMAIN book' = DOMAIN book \cup {Len(book) + 1} /\ Len(book) + 1 \notin DOMAIN book
           /\ Len(book) + 1 \in Ids /\ Len(book) + 1 # NoOrder
           /\ \A o \in DOMAIN book : book'[o] = book[o]
           /\ book'[Len(book) + 1].maker = a /\ book'[Len(book) + 1].canceler = NoKey
           /\ book'[Len(book) + 1].key = KeyOf(a)
<1>1. /\ DOMAIN book' = DOMAIN book \cup {Len(book) + 1} /\ Len(book) + 1 \notin DOMAIN book
      /\ Len(book) + 1 \in Ids
      /\ \A o \in DOMAIN book : book'[o] = book[o]
      /\ book'[Len(book) + 1] = Placed(a)
  BY AppendShape DEF Places, TypeInv
<1>2. Len(book) + 1 # NoOrder
  BY <1>1, OrdersAssumption DEF Ids, NoOrder
<1> QED BY <1>1, <1>2 DEF Placed

\* Its order in time: the first that it makes.
LEMMA DidPlaceAtVenue ==
    ASSUME TypeInv, NEW a \in Apps, Did(a), PlaceAtVenue(a)
    PROVE  Did(a)'
<1>1. /\ UNCHANGED <<call, cur, listed, todo, got, late>> /\ pc[a] = "place" /\ pc'[a] = "placed"
      /\ call[a].op \in Places /\ late[a] = "none"
      /\ call[a].op = "modify" => cur[a] \in DOMAIN book
  BY DEF PlaceAtVenue, Goes, scratch, TypeInv, TypeOK, Phases
<1>2. \A o \in DOMAIN book : book[o].maker # a
  BY <1>1 DEF Did, Makes
<1>3. KeyOf(a)' = KeyOf(a)
  BY <1>1 DEF KeyOf
<1>4. CASE UNCHANGED book
  BY <1>1, <1>2, <1>4 DEF Did, Makes, CancelsOwn, Replaces, Reports, Places
<1>5. CASE /\ Len(book) < MaxOrders /\ book' = Append(book, Placed(a))
           /\ reply' = [reply EXCEPT ![a] = Len(book) + 1]
  <2>1. /\ DOMAIN book' = DOMAIN book \cup {Len(book) + 1} /\ Len(book) + 1 \notin DOMAIN book
        /\ Len(book) + 1 \in Ids /\ Len(book) + 1 # NoOrder
        /\ \A o \in DOMAIN book : book'[o] = book[o]
        /\ book'[Len(book) + 1].maker = a /\ book'[Len(book) + 1].canceler = NoKey
        /\ book'[Len(book) + 1].key = KeyOf(a)
    BY <1>1, <1>5, DidPlaceInBook
  <2>2. reply'[a] # NoOrder
    BY <1>5, <2>1 DEF TypeInv, TypeOK
  <2>3. Makes(a)'
    BY <1>1, <1>2, <1>3, <2>1, <2>2 DEF Makes
  <2>4. CancelsOwn(a)'
    BY <1>1, <2>1, OrdersAssumption DEF Did, CancelsOwn
  <2>5. Replaces(a)'
    BY <1>1, <2>1 DEF Did, Replaces
  <2>6. Reports(a)'
    BY <1>1 DEF Reports, Places
  <2> QED BY <2>3, <2>4, <2>5, <2>6 DEF Did
<1> QED BY <1>4, <1>5 DEF PlaceAtVenue

\* The answer to its placement.
LEMMA DidPlaceAnswered ==
    ASSUME TypeInv, NEW a \in Apps, Did(a), PlaceAnswered(a)
    PROVE  Did(a)'
<1>1. /\ UNCHANGED <<book, call, cur, reply, listed, todo, got, late>> /\ pc[a] = "placed"
      /\ pc'[a] = IF reply[a] = NoOrder THEN "OrderRejectedError" ELSE "ok"
      /\ call[a].op \in Places
  BY DEF PlaceAnswered, Goes, scratch, TypeInv, TypeOK, Phases
<1>2. KeyOf(a)' = KeyOf(a)
  BY <1>1 DEF KeyOf
<1> QED BY <1>1, <1>2 DEF Did, Makes, CancelsOwn, Replaces, Reports, Places

\* A late request: its coroutine has ended, and takes it for lost.
LEMMA DidArrives ==
    ASSUME TypeInv, NEW a \in Apps, Did(a), Arrives(a)
    PROVE  Did(a)'
<1>1. /\ UNCHANGED <<call, pc, cur, reply, listed, todo, got>> /\ pc[a] \in {"NetworkError", "APIError"}
      /\ late'[a] = "none" /\ late[a] \in {"cancel", "place"}
      /\ call[a].op = "modify" => cur[a] \in DOMAIN book
      /\ listed[a] \subseteq DOMAIN book /\ got[a] \subseteq DOMAIN book
  BY DEF Arrives, scratch, TypeInv, TypeOK, Phases
<1>2. KeyOf(a)' = KeyOf(a)
  BY <1>1 DEF KeyOf
<1>3. CASE late[a] = "cancel"
  <2>1. CancelInBook(a) /\ cur[a] \in DOMAIN book /\ call[a].op \in Cancels
    BY <1>3 DEF Arrives, TypeInv, Phases
  <2>2. /\ DOMAIN book' = DOMAIN book
        /\ \A o \in DOMAIN book :
             /\ book'[o].key = book[o].key /\ book'[o].maker = book[o].maker
             /\ book[o].canceler = a => book'[o].canceler = a
             /\ book'[o].canceler = a => book[o].canceler = a \/ o = cur[a]
             /\ book[o].status \in Terminal => book'[o].status \in Terminal
    BY <2>1, DidCancelInBook
  <2> QED BY <1>1, <1>2, <2>1, <2>2 DEF Did, Makes, CancelsOwn, Replaces, Reports
<1>4. CASE late[a] = "place"
  <2>1. call[a].op \in Places
    BY <1>4 DEF TypeInv, Phases
  <2>2. \A o \in DOMAIN book : book[o].maker # a
    BY <1>4 DEF Did, Makes
  <2>3. CASE UNCHANGED book
    BY <1>1, <1>2, <2>1, <2>2, <2>3 DEF Did, Makes, CancelsOwn, Replaces, Reports, Places
  <2>4. CASE Len(book) < MaxOrders /\ book' = Append(book, Placed(a))
    <3>1. /\ DOMAIN book' = DOMAIN book \cup {Len(book) + 1} /\ Len(book) + 1 \notin DOMAIN book
          /\ \A o \in DOMAIN book : book'[o] = book[o]
          /\ book'[Len(book) + 1].maker = a /\ book'[Len(book) + 1].canceler = NoKey
          /\ book'[Len(book) + 1].key = KeyOf(a)
      BY <2>1, <2>4, DidPlaceInBook
    <3>2. Makes(a)'
      BY <1>1, <1>2, <2>1, <2>2, <3>1 DEF Makes
    <3>3. CancelsOwn(a)'
      BY <1>1, <3>1, OrdersAssumption DEF Did, CancelsOwn
    <3>4. Replaces(a)'
      BY <1>1, <1>4, <3>1 DEF Did, Replaces
    <3>5. Reports(a)'
      BY <1>1, <2>1 DEF Reports, Places
    <3> QED BY <3>2, <3>3, <3>4, <3>5 DEF Did
  <2> QED BY <1>4, <2>3, <2>4 DEF Arrives
<1> QED BY <1>1, <1>3, <1>4

\* Every step keeps what each coroutine did.
LEMMA DidStep == DidInv /\ [Next]_vars => DidInv'
<1> SUFFICES ASSUME DidInv, [Next]_vars PROVE DidInv'
  OBVIOUS
<1>t. TypeInv /\ TypeOK /\ CanceledOnce /\ \A b \in Apps : Did(b)
  BY DEF DidInv, TypeInv
<1>1. TypeInv' /\ CanceledOnce'
  BY <1>t, TypeInvStep, CanceledOnceStep
<1>2. ASSUME NEW a \in Apps, NEW b \in Apps,
             \/ Start(a) \/ FailsEarly(a) \/ Lookup(a) \/ List(a) \/ Read(a)
             \/ PostCancel(a) \/ PostPlace(a) \/ CancelAtVenue(a) \/ PlaceAtVenue(a)
             \/ Arrives(a) \/ Refused(a) \/ Lost(a) \/ CancelAnswered(a) \/ PlaceAnswered(a)
      PROVE  Did(b)'
  <2>1. CASE b = a
    BY <1>2, <1>t, <2>1, DidStart, DidEarly, DidList, DidCancelAtVenue, DidPlaceAtVenue, DidArrives,
       DidCancelAnswered, DidPlaceAnswered
  <2>2. CASE b # a
    BY <1>2, <1>t, <2>2, OthersStand, DidStays
  <2> QED BY <2>1, <2>2
<1>3. ASSUME NEW b \in Apps, Fill PROVE Did(b)'
  <2>1. UNCHANGED <<call, pc, cur, reply, listed, todo, got, late>> /\ Untouched(b)
    BY <1>3, <1>t, UntouchedByFill DEF Fill, scratch
  <2> QED BY <1>t, <2>1, DidStays
<1>4. ASSUME NEW b \in Apps, UNCHANGED vars PROVE Did(b)'
  <2>1. UNCHANGED <<book, call, pc, cur, reply, listed, todo, got, late>>
    BY <1>4 DEF vars
  <2> QED BY <1>t, <2>1, UntouchedBySame, DidStays
<1>5. \A b \in Apps : Did(b)'
  BY <1>2, <1>3, <1>4 DEF Next, Finished
<1> QED BY <1>1, <1>5 DEF DidInv

(* orders.py:331: modify makes a replacement, in time or late, only for an   *)
(* order that its own cancel ended, so both are never open at once.          *)
THEOREM ReplacementNeedsCancel == Spec => []ReplacesOwnCancel
<1>1. DidInv => ReplacesOwnCancel
  BY DEF DidInv, Did, Replaces, ReplacesOwnCancel, TypeInv, Phases
<1> QED BY <1>1, DidInit, DidStep, PTL DEF Spec

(* orders.py:305: cancel_all returns with every order it listed ended, and   *)
(* reports those that its own requests canceled, and no other.               *)
THEOREM CancelAllIsExact == Spec => []CancelAllReport
<1>1. ASSUME DidInv PROVE CancelAllReport
  <2> SUFFICES ASSUME NEW a \in Apps, call[a].op = "cancel_all"
               PROVE  /\ pc[a] = "ok"
                           => /\ \A o \in listed[a] : book[o].status \in Terminal
                              /\ got[a] = {o \in listed[a] : book[o].canceler = a}
                      /\ \A o \in DOMAIN book : book[o].canceler = a => o \in got[a] \cup {cur[a]}
    BY DEF CancelAllReport
  <2>1. Reports(a)
    BY <1>1 DEF DidInv, Did
  <2>2. got[a] \subseteq listed[a] /\ listed[a] \subseteq DOMAIN book
    BY <1>1 DEF DidInv, TypeInv, TypeOK
  <2> QED BY <2>1, <2>2 DEF Reports
<1> QED BY <1>1, DidInit, DidStep, PTL DEF Spec

-----------------------------------------------------------------------------
(* The client's index of order ids.                                          *)

\* A key names one order, and the answer to a placement with a key names that one.
Keyed == \A o, p \in DOMAIN book : book[o].key # NoKey /\ book[o].key = book[p].key => o = p
Named ==
    \A a \in Apps : pc[a] = "placed" /\ reply[a] # NoOrder /\ KeyOf(a) # NoKey
        => reply[a] \in DOMAIN book /\ book[reply[a]].key = KeyOf(a)

\* The two dicts agree, and have what the calls returned.
Agree ==
    /\ \A k \in Keys : coidToOid[k] # NoOrder
         => /\ coidToOid[k] \in DOMAIN book
            /\ book[coidToOid[k]].key = k
            /\ oidToCoid[coidToOid[k]] = k
    /\ \A o \in Ids : oidToCoid[o] # NoKey => coidToOid[oidToCoid[o]] = o
Returned ==
    \A a \in Apps : call[a].op \in Places /\ pc[a] = "ok" /\ KeyOf(a) # NoKey
        => reply[a] # NoOrder /\ coidToOid[KeyOf(a)] = reply[a]

\* What is not tracked was made by a placement whose answer is out, was lost, or was an error status.
Untracked ==
    \A o \in DOMAIN book : book[o].key # NoKey /\ coidToOid[book[o].key] = NoOrder
        => book[o].maker \in Apps /\ pc[book[o].maker] \in {"placed", "NetworkError", "APIError"}

IndexInv == DidInv /\ Keyed /\ Named /\ Agree /\ Returned /\ Untracked

\* The order placed earlier is tracked.
LEMMA IndexInit == Init => IndexInv
<1> SUFFICES ASSUME Init PROVE IndexInv
  OBVIOUS
<1>1. PICK post \in {"yes", "no"}, key \in Keys :
          /\ book = <<[status |-> "OPEN", post |-> post, key |-> key, maker |-> NoKey,
                       canceler |-> NoKey]>>
          /\ coidToOid = [k \in Keys |-> IF k = key THEN 1 ELSE NoOrder]
          /\ oidToCoid = [o \in Ids |-> IF o = 1 THEN key ELSE NoKey]
  BY DEF Init
<1>2. DOMAIN book = {1} /\ book[1].key = key /\ 1 \in Ids /\ key # NoKey /\ 1 # NoOrder
  BY <1>1, OrdersAssumption DEF Ids, NoOrder
<1>3. \A a \in Apps : call[a].op = "none" /\ pc[a] = "idle"
  BY DEF Init, NoArgs
<1>4. Agree
  BY <1>1, <1>2 DEF Agree
<1>5. Untracked
  BY <1>1, <1>2 DEF Untracked
<1> QED BY <1>2, <1>3, <1>4, <1>5, DidInit DEF IndexInv, Keyed, Named, Returned

\* A step that changes neither the index nor what the book says of keys and makers, and
\* in which no placement is answered.
LEMMA IndexStands ==
    ASSUME IndexInv, DidInv', UNCHANGED <<coidToOid, oidToCoid>>, DOMAIN book' = DOMAIN book,
           \A o \in DOMAIN book : book'[o].key = book[o].key /\ book'[o].maker = book[o].maker,
           \A b \in Apps : \/ /\ call'[b] = call[b] /\ pc'[b] = pc[b] /\ reply'[b] = reply[b]
                           \/ /\ pc'[b] # "placed" /\ ~(call'[b].op \in Places /\ pc'[b] = "ok")
                              /\ pc[b] \in {"placed", "NetworkError", "APIError"} => pc'[b] \in {"NetworkError", "APIError"}
    PROVE  IndexInv'
<1>1. \A b \in Apps : call'[b] = call[b] => KeyOf(b)' = KeyOf(b)
  BY DEF KeyOf
<1>2. Keyed' /\ Agree'
  BY DEF IndexInv, Keyed, Agree
<1>3. Named' /\ Returned'
  BY <1>1 DEF IndexInv, Named, Returned
<1>4. Untracked'
  BY DEF IndexInv, Untracked
<1> QED BY <1>2, <1>3, <1>4 DEF IndexInv

\* A new order has a key that no order had.
LEMMA IndexGrows ==
    ASSUME IndexInv, DidInv', UNCHANGED <<coidToOid, oidToCoid, call>>,
           NEW a \in Apps, call[a].op \in Places, SameKey(a) = {}, Len(book) < MaxOrders,
           book' = Append(book, Placed(a)),
           pc'[a] \in {"placed", "NetworkError", "APIError"},
           pc'[a] = "placed" => reply'[a] = Len(book) + 1,
           \A b \in Apps : b # a => pc'[b] = pc[b] /\ reply'[b] = reply[b]
    PROVE  IndexInv'
<1>t. TypeInv
  BY DEF IndexInv, DidInv
<1>1. /\ DOMAIN book' = DOMAIN book \cup {Len(book) + 1} /\ Len(book) + 1 \notin DOMAIN book
      /\ \A o \in DOMAIN book : book'[o] = book[o]
      /\ book'[Len(book) + 1].maker = a /\ book'[Len(book) + 1].key = KeyOf(a)
  BY <1>t, DidPlaceInBook
<1> DEFINE new == Len(book) + 1
<1> HIDE DEF new
<1>2. /\ DOMAIN book' = DOMAIN book \cup {new} /\ new \notin DOMAIN book
      /\ \A o \in DOMAIN book : book'[o] = book[o]
      /\ book'[new].maker = a /\ book'[new].key = KeyOf(a)
      /\ pc'[a] = "placed" => reply'[a] = new
  BY <1>1 DEF new
<1>3. \A o \in DOMAIN book : KeyOf(a) # NoKey => book[o].key # KeyOf(a)
  BY DEF SameKey
<1>4. \A b \in Apps : KeyOf(b)' = KeyOf(b)
  BY DEF KeyOf
<1>5. Keyed'
  BY <1>2, <1>3 DEF IndexInv, Keyed
<1>6. Named'
  BY <1>2, <1>4 DEF IndexInv, Named
<1>7. Agree'
  BY <1>2 DEF IndexInv, Agree
<1>8. Returned'
  BY <1>4 DEF IndexInv, Returned
<1>9. Untracked'
  BY <1>2 DEF IndexInv, Untracked
<1> QED BY <1>5, <1>6, <1>7, <1>8, <1>9 DEF IndexInv

\* The venue answers a placement.
LEMMA IndexPlaceAtVenue ==
    ASSUME IndexInv, DidInv', NEW a \in Apps, PlaceAtVenue(a)
    PROVE  IndexInv'
<1>t. TypeInv /\ TypeOK
  BY DEF IndexInv, DidInv, TypeInv
<1>1. /\ UNCHANGED <<call, coidToOid, oidToCoid>> /\ pc[a] = "place" /\ pc'[a] = "placed"
      /\ call[a].op \in Places
      /\ \A b \in Apps : b # a => pc'[b] = pc[b] /\ reply'[b] = reply[b]
  BY <1>t DEF PlaceAtVenue, Goes, index, TypeOK, TypeInv, Phases
<1>2. CASE /\ SameKey(a) = {} /\ Len(book) < MaxOrders /\ book' = Append(book, Placed(a))
           /\ reply' = [reply EXCEPT ![a] = Len(book) + 1]
  <2>1. reply'[a] = Len(book) + 1
    BY <1>2, <1>t DEF TypeOK
  <2> QED BY <1>1, <1>2, <2>1, IndexGrows
<1>3. CASE UNCHANGED book /\ (\/ SameKey(a) # {} /\ reply' = [reply EXCEPT ![a] = Min(SameKey(a))]
                              \/ reply' = [reply EXCEPT ![a] = NoOrder])
  <2>1. reply'[a] # NoOrder => reply'[a] \in SameKey(a)
    <3>1. SameKey(a) \in SUBSET Ids
      BY <1>t, BookShape DEF SameKey
    <3>2. SameKey(a) # {} => Min(SameKey(a)) \in SameKey(a)
      BY <3>1, Least
    <3> QED BY <1>3, <1>t, <3>2 DEF TypeOK
  <2>2. \A b \in Apps : KeyOf(b)' = KeyOf(b)
    BY <1>1 DEF KeyOf
  <2>3. Keyed' /\ Agree' /\ Returned' /\ Untracked'
    BY <1>1, <1>3, <2>2 DEF IndexInv, Keyed, Agree, Returned, Untracked
  <2>4. Named'
    BY <1>1, <1>3, <2>1, <2>2 DEF IndexInv, Named, SameKey
  <2> QED BY <2>3, <2>4 DEF IndexInv
<1> QED BY <1>2, <1>3 DEF PlaceAtVenue

\* The client hears of it.
LEMMA IndexPlaceAnswered ==
    ASSUME IndexInv, DidInv', NEW a \in Apps, PlaceAnswered(a)
    PROVE  IndexInv'
<1>t. TypeInv /\ TypeOK /\ Makes(a) /\ Keyed /\ Named /\ Agree /\ Returned /\ Untracked
  BY DEF IndexInv, DidInv, Did, TypeInv
<1>1. /\ UNCHANGED <<book, call, reply>> /\ pc[a] = "placed" /\ call[a].op \in Places
      /\ pc'[a] = IF reply[a] = NoOrder THEN "OrderRejectedError" ELSE "ok"
      /\ \A b \in Apps : b # a => pc'[b] = pc[b]
  BY <1>t DEF PlaceAnswered, Goes, TypeOK, TypeInv, Phases
<1>2. \A b \in Apps : KeyOf(b)' = KeyOf(b)
  BY <1>1 DEF KeyOf
<1>3. Keyed' /\ Named'
  BY <1>t, <1>1, <1>2 DEF Keyed, Named
<1>4. CASE (reply[a] = NoOrder \/ KeyOf(a) = NoKey) /\ UNCHANGED <<coidToOid, oidToCoid>>
  <2>1. Agree' /\ Returned'
    BY <1>t, <1>1, <1>2, <1>4 DEF Agree, Returned
  <2>2. \A o \in DOMAIN book : book[o].key # NoKey => book[o].maker # a
    BY <1>t, <1>1, <1>4 DEF Makes
  <2>3. Untracked'
    BY <1>t, <1>1, <1>4, <2>2 DEF Untracked
  <2> QED BY <1>3, <2>1, <2>3 DEF IndexInv
<1>5. CASE reply[a] # NoOrder /\ KeyOf(a) # NoKey /\ Remember(a)
  <2>1. KeyOf(a) \in Keys
    BY <1>t, <1>1, <1>5 DEF KeyOf, TypeOK, NoArgs, Args, Places
  <2>2. /\ reply[a] \in DOMAIN book /\ reply[a] \in Ids /\ book[reply[a]].key = KeyOf(a)
    BY <1>t, <1>1, <1>5, BookShape DEF Named
  <2>3. /\ \A k \in Keys : coidToOid'[k] = IF k = KeyOf(a) THEN reply[a] ELSE coidToOid[k]
        /\ \A o \in Ids : oidToCoid'[o] = IF o = reply[a] THEN KeyOf(a) ELSE oidToCoid[o]
    BY <1>t, <1>5, <2>1, <2>2 DEF Remember, TypeOK
  <2>4. DOMAIN book \subseteq Ids /\ coidToOid \in [Keys -> Ids \cup {NoOrder}]
        /\ oidToCoid \in [Ids -> Keys \cup {NoKey}]
    BY <1>t, BookShape DEF TypeOK
  <2>5. \A k \in Keys : coidToOid'[k] # NoOrder
          => /\ coidToOid'[k] \in DOMAIN book'
             /\ book'[coidToOid'[k]].key = k
             /\ oidToCoid'[coidToOid'[k]] = k
    BY <1>t, <1>1, <2>2, <2>3, <2>4 DEF Agree
  <2>6. ASSUME NEW o \in Ids, oidToCoid'[o] # NoKey PROVE coidToOid'[oidToCoid'[o]] = o
    <3>1. CASE o = reply[a]
      BY <2>1, <2>3, <3>1
    <3>2. CASE o # reply[a]
      <4>1. oidToCoid[o] \in Keys /\ coidToOid[oidToCoid[o]] = o /\ oidToCoid'[o] = oidToCoid[o]
        BY <1>t, <2>3, <2>4, <2>6, <3>2 DEF Agree
      <4>2. o # NoOrder
        BY OrdersAssumption DEF Ids, NoOrder
      <4>3. o \in DOMAIN book /\ book[o].key = oidToCoid[o]
        BY <1>t, <4>1, <4>2 DEF Agree
      <4>4. oidToCoid[o] # KeyOf(a)
        BY <1>t, <1>5, <2>2, <3>2, <4>3 DEF Keyed
      <4> QED BY <2>3, <4>1, <4>4
    <3> QED BY <3>1, <3>2
  <2>7. Agree'
    BY <2>5, <2>6 DEF Agree
  <2>8. ASSUME NEW b \in Apps, call[b].op \in Places, pc'[b] = "ok", KeyOf(b) # NoKey
        PROVE  reply[b] # NoOrder /\ coidToOid'[KeyOf(b)] = reply[b]
    <3>1. KeyOf(b) \in Keys
      BY <1>t, <2>8 DEF KeyOf, TypeOK, NoArgs, Args, Places
    <3>2. CASE b = a
      BY <1>5, <2>1, <2>3, <3>2
    <3>3. CASE b # a
      <4>1. reply[b] # NoOrder /\ coidToOid[KeyOf(b)] = reply[b]
        BY <1>t, <1>1, <2>8, <3>3 DEF Returned
      <4>2. reply[b] \in DOMAIN book /\ book[reply[b]].key = KeyOf(b)
        BY <1>t, <3>1, <4>1 DEF Agree
      <4>3. KeyOf(b) = KeyOf(a) => reply[b] = reply[a]
        BY <1>t, <1>5, <2>2, <4>2 DEF Keyed
      <4> QED BY <2>3, <3>1, <4>1, <4>3
    <3> QED BY <3>2, <3>3
  <2>9. Returned'
    BY <1>1, <1>2, <2>8 DEF Returned
  <2>10. ASSUME NEW o \in DOMAIN book, book[o].key # NoKey, coidToOid'[book[o].key] = NoOrder
         PROVE  book[o].maker \in Apps /\ pc'[book[o].maker] \in {"placed", "NetworkError", "APIError"}
    <3>1. book[o].key \in Keys
      BY <1>t, <2>10, BookShape DEF Order
    <3>2. book[o].key # KeyOf(a) /\ coidToOid[book[o].key] = NoOrder
      BY <1>5, <2>3, <2>10, <3>1
    <3>3. book[o].maker # a
      BY <1>t, <3>2 DEF Makes
    <3> QED BY <1>t, <1>1, <2>10, <3>2, <3>3 DEF Untracked
  <2>11. Untracked'
    BY <1>1, <2>10 DEF Untracked
  <2> QED BY <1>3, <2>7, <2>9, <2>11 DEF IndexInv
<1> QED BY <1>4, <1>5 DEF PlaceAnswered, index

\* Every step keeps the index.
LEMMA IndexStep == IndexInv /\ [Next]_vars => IndexInv'
<1> SUFFICES ASSUME IndexInv, [Next]_vars PROVE IndexInv'
  OBVIOUS
<1> USE DEF Goes, scratch, index
<1>t. DidInv /\ TypeInv /\ TypeOK /\ Phases /\ \A b \in Apps : Did(b)
  BY DEF IndexInv, DidInv, TypeInv
<1>d. DidInv'
  BY <1>t, DidStep
<1>1. ASSUME NEW a \in Apps,
             \/ Start(a) \/ FailsEarly(a) \/ Lookup(a) \/ List(a) \/ Read(a) \/ PostCancel(a)
             \/ PostPlace(a) \/ Refused(a) \/ Lost(a)
      PROVE  IndexInv'
  <2>1. /\ UNCHANGED <<book, reply, coidToOid, oidToCoid>>
        /\ \A b \in Apps : b # a => call'[b] = call[b] /\ pc'[b] = pc[b]
    BY <1>1, <1>t DEF Start, FailsEarly, Lookup, List, Read, PostCancel, PostPlace, Refused, Lost,
                      TypeOK
  <2>2. /\ pc'[a] # "placed" /\ ~(call'[a].op \in Places /\ pc'[a] = "ok")
        /\ pc[a] \in {"placed", "NetworkError", "APIError"} => pc'[a] \in {"NetworkError", "APIError"}
    <3>1. CASE Start(a)
      BY <1>t, <3>1 DEF Start, TypeOK, Args, Ops
    <3>2. CASE List(a)
      BY <1>t, <3>2 DEF List, TypeOK, Phases, Places
    <3>3. CASE \/ FailsEarly(a) \/ Lookup(a) \/ Read(a) \/ PostCancel(a) \/ PostPlace(a)
               \/ Refused(a) \/ Lost(a)
      BY <1>t, <3>3 DEF FailsEarly, Lookup, Read, PostCancel, PostPlace, Refused, Lost, Untold, TypeOK
    <3> QED BY <1>1, <3>1, <3>2, <3>3
  <2> QED BY <1>d, <2>1, <2>2, IndexStands
<1>2. ASSUME NEW a \in Apps, CancelAnswered(a) PROVE IndexInv'
  <2>1. /\ UNCHANGED <<book, call, reply, coidToOid, oidToCoid>> /\ pc[a] = "canceled"
        /\ \A b \in Apps : b # a => pc'[b] = pc[b]
    BY <1>2, <1>t DEF CancelAnswered, NextCancel, TypeOK
  <2>2. pc'[a] # "placed" /\ ~(call[a].op \in Places /\ pc'[a] = "ok")
    BY <1>2, <1>t DEF CancelAnswered, NextCancel, AfterCancel, TypeOK, Places
  <2> QED BY <1>d, <2>1, <2>2, IndexStands
<1>3. ASSUME NEW a \in Apps, CancelInBook(a), cur[a] \in DOMAIN book
      PROVE  /\ DOMAIN book' = DOMAIN book
             /\ \A o \in DOMAIN book : book'[o].key = book[o].key /\ book'[o].maker = book[o].maker
  BY <1>3, <1>t, DidCancelInBook
<1>4. ASSUME NEW a \in Apps, CancelAtVenue(a) PROVE IndexInv'
  <2>1. /\ UNCHANGED <<call, coidToOid, oidToCoid>> /\ pc[a] = "cancel" /\ pc'[a] = "canceled"
        /\ \A b \in Apps : b # a => pc'[b] = pc[b] /\ reply'[b] = reply[b]
        /\ CancelInBook(a) /\ cur[a] \in DOMAIN book
    BY <1>4, <1>t DEF CancelAtVenue, TypeOK
  <2> QED BY <1>d, <1>3, <2>1, IndexStands
<1>5. ASSUME NEW a \in Apps, Arrives(a) PROVE IndexInv'
  <2>1. UNCHANGED <<call, pc, reply, coidToOid, oidToCoid>> /\ pc[a] \in {"NetworkError", "APIError"}
        /\ late[a] \in {"cancel", "place"}
    BY <1>5, <1>t DEF Arrives, TypeOK, Phases
  <2>2. CASE late[a] = "cancel"
    <3>1. CancelInBook(a) /\ cur[a] \in DOMAIN book
      BY <1>5, <1>t, <2>2 DEF Arrives, Phases
    <3> QED BY <1>d, <1>3, <2>1, <3>1, IndexStands
  <2>3. CASE UNCHANGED book
    BY <1>d, <2>1, <2>3, IndexStands
  <2>4. CASE /\ late[a] = "place" /\ SameKey(a) = {} /\ Len(book) < MaxOrders
             /\ book' = Append(book, Placed(a))
    <3>1. call[a].op \in Places
      BY <1>t, <2>4 DEF Phases
    <3> QED BY <1>d, <2>1, <2>4, <3>1, IndexGrows
  <2> QED BY <1>5, <2>1, <2>2, <2>3, <2>4 DEF Arrives
<1>6. CASE Fill
  <2>1. UNCHANGED <<call, pc, reply, coidToOid, oidToCoid>>
    BY <1>6 DEF Fill
  <2>2. PICK f \in DOMAIN book, s \in {"PARTIALLY_FILLED", "FILLED"} :
          /\ DOMAIN book' = DOMAIN book
          /\ \A o \in DOMAIN book :
               book'[o] = IF o = f THEN [book[o] EXCEPT !.status = s] ELSE book[o]
    BY <1>6, <1>t, FillShape
  <2>3. \A o \in DOMAIN book : book'[o].key = book[o].key /\ book'[o].maker = book[o].maker
    BY <1>t, <2>2, BookShape DEF Order
  <2> QED BY <1>d, <2>1, <2>2, <2>3, IndexStands
<1>7. CASE UNCHANGED vars
  <2>1. UNCHANGED <<book, call, pc, reply, coidToOid, oidToCoid>>
    BY <1>7 DEF vars
  <2> QED BY <1>d, <2>1, IndexStands
<1>8. ASSUME NEW a \in Apps, PlaceAtVenue(a) \/ PlaceAnswered(a) PROVE IndexInv'
  BY <1>8, <1>d, IndexPlaceAtVenue, IndexPlaceAnswered
<1> QED BY <1>1, <1>2, <1>4, <1>5, <1>6, <1>7, <1>8 DEF Next, Finished

(* orders.py:420: the two dicts agree with each other and with the venue; a  *)
(* key stays the order it was used for; an order that is not tracked was     *)
(* made by a placement that is under way, got no answer, or got an error     *)
(* status that a gateway may send after the venue acted.                     *)
THEOREM IndexIsSound == Spec => []IndexSound
<1>1. IndexInv => IndexSound
  BY DEF IndexInv, Agree, Returned, Untracked, IndexSound, Places, Untold
<1> QED BY <1>1, IndexInit, IndexStep, PTL DEF Spec
=============================================================================
