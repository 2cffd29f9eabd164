------------------------------- MODULE Pages -------------------------------
(* Lists that the server hands out page by page (collect_pages,              *)
(* src/umbra/utils/pagination.py), as get_orders, get_open_orders,           *)
(* get_order_history, get_fills and get_fee_history read them, while the     *)
(* list changes between two pages.                                           *)
(*                                                                           *)
(* A cursor stands for the last item of the page it came with, and 0 for the *)
(* empty cursor.  The server may serve fewer items than a request asks for,  *)
(* or more, so the page size of a request does not matter here.              *)
EXTENDS Naturals, Sequences, FiniteSets, SequencesExt

CONSTANTS
    MaxItems,   \* bound: no more items are made
    Limits,     \* the limits callers pass
    NoLimit     \* limit=None

ASSUME PagesAssumption == MaxItems \in Nat /\ Limits \subseteq Nat /\ NoLimit \notin Nat

VARIABLES
    items,      \* the items in the order they were made, each open or closed
    read,       \* what is read: a kind of list, its order and the caller's limit
    stage,      \* the request for a page, or how the read ended
    cursor,     \* collect_pages: cursor
    collected,  \* collect_pages: collected, each item with its state when it was served
    page,       \* the page that the server sends
    result,     \* what the read returned
    steady      \* the items that belonged to the list throughout the read

pageVars == <<items, read, stage, cursor, collected, page, result, steady>>

States == {"open", "closed"}
Bounds == Limits \cup {NoLimit}

\* The lists: get_orders, get_open_orders and get_order_history, whose order is the
\* server's choice; get_fills; get_fee_history, whose caller names an order.
OrderReads == [kind : {"all", "open", "history"}, order : {"newest", "oldest"}, limit : Bounds]
FillReads == [kind : {"all"}, order : {"newest"}, limit : Bounds]
FeeReads == [kind : {"all"}, order : {"newest", "oldest"}, limit : Bounds]
Reads == OrderReads \cup FillReads \cup FeeReads

Rows == [item : 1..MaxItems, state : States]
Over == {"idle", "returned", "failed"}
NoPage == [rows |-> <<>>, next |-> 0]

PagesInit ==
    /\ items \in BoundedSeq(States, MaxItems)
    /\ read = [kind |-> "all", order |-> "newest", limit |-> NoLimit]
    /\ stage = "idle"
    /\ cursor = 0
    /\ collected = <<>>
    /\ page = NoPage
    /\ result = <<>>
    /\ steady = {}

-----------------------------------------------------------------------------
\* The server's filter, open_only; the filter of get_order_history.
Shown(r, s) == r.kind = "open" => s = "open"
Closed(row) == row.state = "closed"

\* The list that r asks for holds an item in state s.
Belongs(r, s) == Shown(r, s) /\ (r.kind = "history" => s = "closed")

Ahead(r, i, j) == IF r.order = "newest" THEN i > j ELSE i < j

\* The limit that collect_pages gets: get_order_history reads every page.
PageLimit(r) == IF r.kind = "history" THEN NoLimit ELSE r.limit

Uncut(s, limit) == s
Cut(s, limit) == IF limit # NoLimit /\ limit < Len(s) THEN SubSeq(s, 1, limit) ELSE s

\* The members of S in a sequence, one that comes Before another ahead of it.
Arranged(S, Before(_, _)) ==
    {seq \in SetToSeqs(S) : \A k, m \in DOMAIN seq : k < m => Before(seq[k], seq[m])}

\* The read returns: the items up to its limit; of a history, the closed ones of all.
Returns(rows) ==
    /\ stage' = "returned"
    /\ \/ read.kind # "history" /\ result' = Cut(rows, read.limit)
       \/ /\ read.kind = "history"
          /\ \E kept \in Arranged({k \in DOMAIN rows : Closed(rows[k])}, <) :
               result' = Cut([m \in DOMAIN kept |-> rows[kept[m]]], read.limit)

\* collect_pages is called: with a limit of 0 it makes no request.
Collect ==
    /\ stage \in Over
    /\ read' \in Reads
    /\ cursor' = 0
    /\ collected' = <<>>
    /\ page' = NoPage
    /\ result' = <<>>
    /\ stage' = IF PageLimit(read') = 0 THEN "returned" ELSE "asked"
    /\ steady' = {i \in DOMAIN items : Belongs(read', items[i])}
    /\ UNCHANGED items

\* The items after the cursor.
Rest == {i \in DOMAIN items : Shown(read, items[i]) /\ (cursor # 0 => Ahead(read, cursor, i))}

Row(i) == [item |-> i, state |-> items[i]]

\* The server sends the first of them.  Only the last page may have no cursor, and only
\* the last page may be empty.
ServePage ==
    /\ stage = "asked"
    /\ stage' = "served"
    /\ \E sent \in SUBSET Rest :
         /\ sent = {} => Rest = {}
         /\ \A i \in sent, j \in Rest \ sent : Ahead(read, i, j)
         /\ \E ids \in Arranged(sent, LAMBDA i, j : Ahead(read, i, j)),
               next \in {0} \cup (IF sent = {} THEN {cursor} ELSE sent) :
              /\ next = 0 => sent = Rest
              /\ next # 0 => \A i \in sent : i = next \/ Ahead(read, i, next)
              /\ page' = [rows |-> [k \in DOMAIN ids |-> Row(ids[k])], next |-> next]
    /\ UNCHANGED <<items, read, cursor, collected, result, steady>>

\* The tests after a page: no cursor, no items, limit reached.
Enough(rows) == PageLimit(read) # NoLimit /\ Len(rows) >= PageLimit(read)
CursorOnly(rows) == page.next = 0 \/ Enough(rows)
OneShort(rows) == page.next = 0 \/ page.rows = <<>> \/ Enough(Append(rows, 0))
LastPage(rows) == page.next = 0 \/ page.rows = <<>> \/ Enough(rows)

CursorForgotten == 0
NextCursor == page.next

ReceivePage ==
    /\ stage = "served"
    /\ LET rows == collected \o page.rows IN
       /\ collected' = rows
       /\ IF LastPage(rows) THEN Returns(rows) ELSE stage' = "asked" /\ UNCHANGED result
    /\ cursor' = NextCursor
    /\ page' = NoPage
    /\ UNCHANGED <<items, read, steady>>

\* A request fails: its error leaves collect_pages, with the pages read so far.
PageFails ==
    /\ stage \in {"asked", "served"}
    /\ stage' = "failed"
    /\ page' = NoPage
    /\ UNCHANGED <<items, read, cursor, collected, result, steady>>

-----------------------------------------------------------------------------
\* The account's other activity: an order is placed, or ends.
Make ==
    /\ Len(items) < MaxItems
    /\ \E s \in States : items' = Append(items, s)
    /\ UNCHANGED <<read, stage, cursor, collected, page, result, steady>>

End(i) ==
    /\ items[i] = "open"
    /\ items' = [items EXCEPT ![i] = "closed"]
    /\ steady' = IF stage \in Over \/ Belongs(read, "closed") THEN steady ELSE steady \ {i}
    /\ UNCHANGED <<read, stage, cursor, collected, page, result>>

PagesNext ==
    \/ Collect \/ ServePage \/ ReceivePage \/ PageFails
    \/ Make \/ \E i \in DOMAIN items : End(i)

PagesSpec == PagesInit /\ [][PagesNext]_pageVars /\ WF_pageVars(ServePage) /\ WF_pageVars(ReceivePage)

-----------------------------------------------------------------------------
PagesTypeOK ==
    /\ items \in BoundedSeq(States, MaxItems)
    /\ read \in Reads
    /\ stage \in Over \cup {"asked", "served"}
    /\ cursor \in 0..Len(items)
    /\ collected \in Seq(Rows)
    /\ page.rows \in Seq(Rows) /\ page.next \in 0..Len(items)
    /\ result \in Seq(Rows) /\ (read.limit # NoLimit => Len(result) <= read.limit)
    /\ steady \subseteq DOMAIN items

Returned == {result[k].item : k \in DOMAIN result}

(* A returned list is in order and names no item twice, although items were  *)
(* made and orders ended between two pages.                                  *)
ItemsInOrder ==
    stage = "returned" =>
        \A k, m \in DOMAIN result : k < m => Ahead(read, result[k].item, result[m].item)

(* A returned list has no gaps: an item that belonged to it throughout the   *)
(* read is missing only if the limit was reached with items ahead of it.  So *)
(* with limit=None, as cancel_all and get_order read, none is missing.       *)
NoGaps ==
    stage = "returned" =>
        \A i \in steady \ Returned :
            /\ Len(result) = read.limit
            /\ \A j \in Returned : Ahead(read, j, i)

(* A read of pages ends, even if the server answers the end of its list with *)
(* an empty page and a cursor.                                               *)
ReadEnds == stage = "asked" ~> stage \in Over
=============================================================================
