--------------------------- MODULE DispatchProofs ---------------------------
(* The dispatch of frames, for any number of handlers, feeds and frames.     *)
EXTENDS Dispatch, SequenceTheorems, FiniteSetTheorems, TLAPS

-----------------------------------------------------------------------------
(* The sequences that dispatch keeps.                                        *)

Kind == {"nbbo", "order", "kindless", "error"}
Entry == [who : Subs, since : [Subs -> Nat]]
Made == [frame : Nat, event : Topics, entry : Nat]

\* What may still be emitted of a frame.
Pending(kind) ==
    CASE kind = "order" -> {<<"user", "order">>, <<"order">>, <<>>}
      [] kind = "kindless" -> {<<"user">>, <<>>}
      [] OTHER -> {<<kind>>, <<>>}

Shape ==
    /\ topic \in [Subs -> Topics]
    /\ sub \in [Subs -> {"idle", "resolving", "live", "failed"}]
    /\ handlers \in [Topics -> Seq(Entry)]
    /\ feed \in [Subs -> Task]
    /\ kinds \in [Subs -> Seq(Kind)]
    /\ calls \in [Subs -> Seq(Made)]
    /\ next \in [Subs -> Nat \ {0}]
    /\ busy \in [Subs -> BOOLEAN] /\ again \in [Subs -> BOOLEAN]
    /\ DOMAIN events = Subs

\* A feed handles its last frame; before its subscription is through it has none.
Holds(f) ==
    /\ feed[f] = "handling" => Len(kinds[f]) > 0 /\ events[f] \in Pending(InHand(f))
    /\ busy[f] => feed[f] = "handling" /\ events[f] # <<>>
    /\ sub[f] # "live" => feed[f] = NoFeed /\ kinds[f] = <<>> /\ calls[f] = <<>>

ShapeInv == Shape /\ \A f \in Subs : Holds(f)

\* The sequences' facts, where a proof needs them.
LEMMA Shapes ==
    ASSUME Shape, NEW f \in Subs
    PROVE  /\ Len(kinds[f]) \in Nat /\ DOMAIN kinds[f] = 1..Len(kinds[f])
           /\ kinds[f] \in Seq(Kind) /\ \A n \in 1..Len(kinds[f]) : kinds[f][n] \in Kind
           /\ Len(calls[f]) \in Nat /\ DOMAIN calls[f] = 1..Len(calls[f])
           /\ calls[f] \in Seq(Made) /\ \A c \in 1..Len(calls[f]) : calls[f][c] \in Made
           /\ \A e \in Topics : /\ handlers[e] \in Seq(Entry)
                                /\ Len(handlers[e]) \in Nat
                                /\ DOMAIN handlers[e] = 1..Len(handlers[e])
                                /\ \A i \in DOMAIN handlers[e] : handlers[e][i] \in Entry
<1>1. kinds[f] \in Seq(Kind) /\ calls[f] \in Seq(Made)
      /\ \A e \in Topics : handlers[e] \in Seq(Entry)
  BY DEF Shape
<1> QED BY <1>1, LenProperties, ElementOfSeq

\* At the beginning there are no entries, no feeds and no frames.
LEMMA ShapeInvInit == Init => ShapeInv
<1> SUFFICES ASSUME Init PROVE ShapeInv
  OBVIOUS
<1>1. Shape
  BY EmptySeq DEF Init, Shape, Task, NoFeed
<1>2. \A f \in Subs : Holds(f)
  BY DEF Init, Holds, NoFeed
<1> QED BY <1>1, <1>2 DEF ShapeInv

\* An entry at the end of a list remembers the frames so far.
LEMMA OnShape ==
    ASSUME Shape, NEW s \in Subs, On(s)
    PROVE  /\ handlers' \in [Topics -> Seq(Entry)]
           /\ \A e \in Topics : \A i \in DOMAIN handlers'[e] :
                \/ i \in DOMAIN handlers[e] /\ handlers'[e][i] = handlers[e][i]
                \/ \A f \in Subs : handlers'[e][i].since[f] = Len(kinds[f])
           /\ \A e \in Topics : DOMAIN handlers[e] \subseteq DOMAIN handlers'[e]
<1> DEFINE new == [who |-> s, since |-> [f \in Subs |-> Len(kinds[f])]]
<1>1. new \in Entry
  BY Shapes DEF Entry
<1>2. \A f \in Subs : new.since[f] = Len(kinds[f])
  OBVIOUS
<1>3. handlers' = [handlers EXCEPT ![topic[s]] = Append(@, new)]
  BY DEF On
<1> HIDE DEF new
<1>4. topic[s] \in Topics
  BY DEF Shape
<1>5. ASSUME NEW e \in Topics
      PROVE  /\ handlers'[e] \in Seq(Entry)
             /\ \A i \in DOMAIN handlers'[e] :
                  \/ i \in DOMAIN handlers[e] /\ handlers'[e][i] = handlers[e][i]
                  \/ handlers'[e][i] = new
             /\ DOMAIN handlers[e] \subseteq DOMAIN handlers'[e]
  <2>1. handlers[e] \in Seq(Entry) /\ Len(handlers[e]) \in Nat
        /\ DOMAIN handlers[e] = 1..Len(handlers[e])
    BY Shapes
  <2>2. CASE e = topic[s]
    <3>1. handlers'[e] = Append(handlers[e], new)
      BY <1>3, <2>2 DEF Shape
    <3>2. /\ handlers'[e] \in Seq(Entry) /\ Len(handlers'[e]) = Len(handlers[e]) + 1
          /\ \A i \in 1..Len(handlers[e]) : handlers'[e][i] = handlers[e][i]
          /\ handlers'[e][Len(handlers[e]) + 1] = new
      BY <1>1, <2>1, <3>1, AppendProperties
    <3>3. DOMAIN handlers'[e] = 1..(Len(handlers[e]) + 1)
      BY <3>2, LenProperties
    <3>4. \A i \in 1..(Len(handlers[e]) + 1) : i \in 1..Len(handlers[e]) \/ i = Len(handlers[e]) + 1
      BY <2>1
    <3>5. 1..Len(handlers[e]) \subseteq 1..(Len(handlers[e]) + 1)
      BY <2>1
    <3> QED BY <2>1, <3>2, <3>3, <3>4, <3>5
  <2>3. CASE e # topic[s]
    BY <1>3, <2>1, <2>3 DEF Shape
  <2> QED BY <2>2, <2>3
<1>6. handlers' \in [Topics -> Seq(Entry)]
  BY <1>3, <1>5 DEF Shape
<1> QED BY <1>2, <1>5, <1>6

\* A frame, and a call, at the end of their sequences.
LEMMA TakeShape ==
    ASSUME Shape, NEW f \in Subs, Take(f)
    PROVE  \E kind \in Kind :
             /\ \A g \in Subs : g # f => /\ kinds'[g] = kinds[g] /\ events'[g] = events[g]
                                         /\ next'[g] = next[g] /\ feed'[g] = feed[g]
             /\ kinds'[f] \in Seq(Kind) /\ Len(kinds'[f]) = Len(kinds[f]) + 1
             /\ \A n \in 1..Len(kinds[f]) : kinds'[f][n] = kinds[f][n]
             /\ kinds'[f][Len(kinds[f]) + 1] = kind
             /\ events'[f] = Events(kind) /\ next'[f] = 1 /\ feed'[f] = "handling"
<1>1. PICK kind \in Kinds(f) : /\ kinds' = [kinds EXCEPT ![f] = Append(@, kind)]
                               /\ events' = [events EXCEPT ![f] = Events(kind)]
  BY DEF Take
<1>2. kind \in Kind
  BY DEF Kinds, Kind
<1>3. kinds'[f] = Append(kinds[f], kind) /\ kinds[f] \in Seq(Kind)
  BY <1>1 DEF Shape
<1>4. /\ kinds'[f] \in Seq(Kind) /\ Len(kinds'[f]) = Len(kinds[f]) + 1
      /\ \A n \in 1..Len(kinds[f]) : kinds'[f][n] = kinds[f][n]
      /\ kinds'[f][Len(kinds[f]) + 1] = kind
  BY <1>2, <1>3, AppendProperties
<1>5. /\ \A g \in Subs : g # f => /\ kinds'[g] = kinds[g] /\ events'[g] = events[g]
                                  /\ next'[g] = next[g] /\ feed'[g] = feed[g]
      /\ events'[f] = Events(kind) /\ next'[f] = 1 /\ feed'[f] = "handling"
  BY <1>1 DEF Take, Shape
<1> QED BY <1>2, <1>4, <1>5

\* The call that the loop makes, and the entry it makes next.
LEMMA CallShape ==
    ASSUME ShapeInv, NEW f \in Subs, Call(f)
    PROVE  LET e == Head(events[f])
               call == [frame |-> Len(kinds[f]), event |-> e, entry |-> next[f]] IN
           /\ \A g \in Subs : g # f => calls'[g] = calls[g] /\ next'[g] = next[g]
           /\ calls'[f] \in Seq(Made) /\ Len(calls'[f]) = Len(calls[f]) + 1
           /\ \A c \in 1..Len(calls[f]) : calls'[f][c] = calls[f][c]
           /\ calls'[f][Len(calls[f]) + 1] = call
           /\ next'[f] = next[f] + 1 /\ next[f] \in DOMAIN handlers[e] /\ e \in Topics
<1> DEFINE e == Head(events[f])
           call == [frame |-> Len(kinds[f]), event |-> e, entry |-> next[f]]
<1>1. Shape /\ Holds(f)
  BY DEF ShapeInv
<1>2. e \in Topics
  <2>1. feed[f] = "handling" /\ events[f] # <<>> /\ events[f] \in Pending(InHand(f))
        /\ Len(kinds[f]) > 0
    BY <1>1 DEF Call, Holds
  <2>2. InHand(f) \in Kind
    BY <1>1, <2>1, Shapes DEF InHand
  <2> QED BY <2>1, <2>2 DEF Pending, Kind, Topics, Public, Private
<1>3. call \in Made
  BY <1>1, <1>2, Shapes DEF Made, Shape
<1>4. calls'[f] = Append(calls[f], call) /\ next[f] \in DOMAIN handlers[e]
  BY <1>1 DEF Call, Shape
<1>5. /\ \A g \in Subs : g # f => calls'[g] = calls[g] /\ next'[g] = next[g]
      /\ next'[f] = next[f] + 1
  BY <1>1 DEF Call, Shape
<1>6. calls[f] \in Seq(Made)
  BY <1>1, Shapes
<1> HIDE DEF call, e
<1>7. /\ calls'[f] \in Seq(Made) /\ Len(calls'[f]) = Len(calls[f]) + 1
      /\ \A c \in 1..Len(calls[f]) : calls'[f][c] = calls[f][c]
      /\ calls'[f][Len(calls[f]) + 1] = call
  BY <1>3, <1>4, <1>6, AppendProperties
<1> QED BY <1>2, <1>4, <1>5, <1>7 DEF call, e

\* The rest of a frame's events.
LEMMA Tails ==
    ASSUME NEW kind, NEW q \in Pending(kind), q # <<>>
    PROVE  /\ Tail(q) \in Pending(kind)
           /\ Tail(q) # <<>> => q = <<"user", "order">> /\ Tail(q) = <<"order">>
<1>1. /\ Tail(<<"user", "order">>) = <<"order">> /\ Tail(<<"order">>) = <<>>
      /\ Tail(<<"user">>) = <<>> /\ Tail(<<kind>>) = <<>>
  OBVIOUS
<1>2. CASE kind = "order"
  <2>1. q = <<"user", "order">> \/ q = <<"order">>
    BY <1>2 DEF Pending
  <2> QED BY <1>1, <1>2, <2>1 DEF Pending
<1>3. CASE kind = "kindless"
  <2>1. q = <<"user">>
    BY <1>3 DEF Pending
  <2> QED BY <1>1, <1>3, <2>1 DEF Pending
<1>4. CASE kind \notin {"order", "kindless"}
  <2>1. q = <<kind>>
    BY <1>4 DEF Pending
  <2> QED BY <1>1, <1>4, <2>1 DEF Pending
<1> QED BY <1>2, <1>3, <1>4

\* Every step keeps the shapes.
LEMMA ShapeInvStep == ShapeInv /\ [Next]_vars => ShapeInv'
<1> SUFFICES ASSUME ShapeInv, [Next]_vars PROVE ShapeInv'
  OBVIOUS
<1>t. Shape /\ \A f \in Subs : Holds(f)
  BY DEF ShapeInv
<1> USE DEF emitting
<1>1. ASSUME NEW s \in Subs, Subscribe(s) \/ Resolved(s) \/ ResolveFails(s) PROVE ShapeInv'
  <2>1. UNCHANGED <<topic, kinds, events, next, busy, again, calls>>
    BY <1>1 DEF Subscribe, Resolved, ResolveFails
  <2>2. sub[s] # "live"
    BY <1>1 DEF Subscribe, Resolved, ResolveFails
  <2>3. /\ sub' \in [Subs -> {"idle", "resolving", "live", "failed"}]
        /\ feed' \in [Subs -> Task]
        /\ \A f \in Subs : f # s => sub'[f] = sub[f] /\ feed'[f] = feed[f]
        /\ feed'[s] # "handling" /\ (sub'[s] # "live" => feed'[s] = NoFeed)
    BY <1>1, <1>t, <2>2 DEF Subscribe, Resolved, ResolveFails, StartFeed, Shape, Task, NoFeed, Holds
  <2>4. handlers' \in [Topics -> Seq(Entry)]
    <3>1. CASE Subscribe(s)
      BY <1>t, <3>1, OnShape DEF Subscribe
    <3>2. CASE Resolved(s) \/ ResolveFails(s)
      BY <1>t, <3>2 DEF Resolved, ResolveFails, Shape
    <3> QED BY <1>1, <3>1, <3>2
  <2>5. Shape'
    BY <1>t, <2>1, <2>3, <2>4 DEF Shape
  <2>6. \A f \in Subs : Holds(f)'
    BY <1>t, <2>1, <2>2, <2>3 DEF Holds, InHand, Pending, NoFeed
  <2> QED BY <2>5, <2>6 DEF ShapeInv
<1>2. ASSUME NEW f \in Subs, Take(f) PROVE ShapeInv'
  <2>1. PICK kind \in Kind :
          /\ \A g \in Subs : g # f => /\ kinds'[g] = kinds[g] /\ events'[g] = events[g]
                                      /\ next'[g] = next[g] /\ feed'[g] = feed[g]
          /\ kinds'[f] \in Seq(Kind) /\ Len(kinds'[f]) = Len(kinds[f]) + 1
          /\ \A n \in 1..Len(kinds[f]) : kinds'[f][n] = kinds[f][n]
          /\ kinds'[f][Len(kinds[f]) + 1] = kind
          /\ events'[f] = Events(kind) /\ next'[f] = 1 /\ feed'[f] = "handling"
    BY <1>2, <1>t, TakeShape
  <2>2. UNCHANGED <<topic, sub, handlers, busy, again, calls>> /\ feed[f] = "reading"
        /\ DOMAIN kinds' = Subs /\ DOMAIN events' = Subs /\ DOMAIN next' = Subs /\ DOMAIN feed' = Subs
    BY <1>2, <1>t DEF Take, Shape
  <2>3. feed' \in [Subs -> Task] /\ next' \in [Subs -> Nat \ {0}] /\ kinds' \in [Subs -> Seq(Kind)]
    <3>1. kinds' = [g \in Subs |-> kinds'[g]] /\ next' = [g \in Subs |-> next'[g]]
          /\ feed' = [g \in Subs |-> feed'[g]]
      BY <1>2, <1>t, <2>2 DEF Take, Shape
    <3>2. ASSUME NEW g \in Subs
          PROVE  kinds'[g] \in Seq(Kind) /\ next'[g] \in Nat \ {0} /\ feed'[g] \in Task
      <4>1. kinds[g] \in Seq(Kind) /\ next[g] \in Nat \ {0} /\ feed[g] \in Task
        BY <1>t DEF Shape
      <4> QED BY <2>1, <4>1 DEF Task
    <3> QED BY <3>1, <3>2
  <2>4. Shape'
    BY <1>t, <2>2, <2>3 DEF Shape
  <2>5. Events(kind) \in Pending(kind)
    BY DEF Events, Pending
  <2>6. ASSUME NEW g \in Subs PROVE Holds(g)'
    <3>1. CASE g = f
      <4>1. Len(kinds'[f]) > 0 /\ InHand(f)' = kind /\ sub[f] = "live"
        BY <1>t, <2>1, <2>2, Shapes DEF InHand, Holds, NoFeed
      <4>2. ~busy'[f]
        BY <1>t, <2>2 DEF Holds
      <4> QED BY <2>1, <2>2, <2>5, <3>1, <4>1, <4>2 DEF Holds
    <3>2. CASE g # f
      <4>1. InHand(g)' = InHand(g)
        BY <2>1, <3>2 DEF InHand
      <4> QED BY <1>t, <2>1, <2>2, <3>2, <4>1 DEF Holds
    <3> QED BY <3>1, <3>2
  <2> QED BY <2>4, <2>6 DEF ShapeInv
<1>3. ASSUME NEW f \in Subs, Call(f) PROVE ShapeInv'
  <2>1. /\ \A g \in Subs : g # f => calls'[g] = calls[g] /\ next'[g] = next[g]
        /\ calls'[f] \in Seq(Made) /\ next'[f] = next[f] + 1
    BY <1>3, CallShape
  <2>2. UNCHANGED <<topic, sub, handlers, feed, kinds, events, again>> /\ feed[f] = "handling"
        /\ events[f] # <<>>
        /\ busy' \in {busy, [busy EXCEPT ![f] = TRUE]}
        /\ DOMAIN calls' = Subs /\ DOMAIN next' = Subs
    BY <1>3, <1>t DEF Call, Shape
  <2>3. calls' = [g \in Subs |-> calls'[g]] /\ next' = [g \in Subs |-> next'[g]]
    BY <1>3, <1>t DEF Call, Shape
  <2>4. ASSUME NEW g \in Subs PROVE calls'[g] \in Seq(Made) /\ next'[g] \in Nat \ {0}
    <3>1. calls[g] \in Seq(Made) /\ next[g] \in Nat \ {0}
      BY <1>t DEF Shape
    <3> QED BY <2>1, <3>1
  <2>5. calls' \in [Subs -> Seq(Made)] /\ next' \in [Subs -> Nat \ {0}]
    BY <2>3, <2>4
  <2>6. busy' \in [Subs -> BOOLEAN] /\ \A g \in Subs : busy'[g] => busy[g] \/ g = f
    BY <1>t, <2>2 DEF Shape
  <2>7. Shape'
    BY <1>t, <2>2, <2>5, <2>6 DEF Shape
  <2>8. sub[f] = "live"
    BY <1>t, <2>2 DEF Holds, NoFeed
  <2>9. ASSUME NEW g \in Subs PROVE Holds(g)'
    <3>1. InHand(g)' = InHand(g)
      BY <2>2 DEF InHand
    <3> QED BY <1>t, <2>1, <2>2, <2>6, <2>8, <3>1 DEF Holds
  <2> QED BY <2>7, <2>9 DEF ShapeInv
<1>4. ASSUME NEW f \in Subs, Returns(f) \/ Raises(f) \/ RegistersAgain(f) PROVE ShapeInv'
  <2>1. UNCHANGED <<topic, sub, handlers, feed, kinds, events, next, calls>>
        /\ busy' = [busy EXCEPT ![f] = FALSE]
        /\ again' \in {again, [again EXCEPT ![f] = TRUE]}
    BY <1>4 DEF Returns, Raises, RegistersAgain, GoesOn
  <2>2. Shape'
    BY <1>t, <2>1 DEF Shape
  <2>3. ASSUME NEW g \in Subs PROVE Holds(g)'
    <3>1. InHand(g)' = InHand(g)
      BY <2>1 DEF InHand
    <3>2. Holds(g) /\ feed' = feed /\ events' = events /\ kinds' = kinds /\ sub' = sub
          /\ calls' = calls
      BY <1>t, <2>1
    <3>3. CASE busy'[g]
      <4>1. busy[g]
        BY <1>t, <2>1, <3>3 DEF Shape
      <4> QED BY <3>1, <3>2, <4>1 DEF Holds
    <3>4. CASE ~busy'[g]
      BY <3>1, <3>2, <3>4 DEF Holds
    <3> QED BY <3>3, <3>4
  <2> QED BY <2>2, <2>3 DEF ShapeInv
<1>5. ASSUME NEW f \in Subs, NextEvent(f) PROVE ShapeInv'
  <2>1. /\ UNCHANGED <<topic, sub, handlers, feed, kinds, busy, again, calls>>
        /\ feed[f] = "handling"
        /\ ~busy[f]
        /\ \A g \in Subs : events'[g] = IF g = f THEN Tail(events[g]) ELSE events[g]
        /\ DOMAIN events' = Subs /\ next' = [next EXCEPT ![f] = 1] /\ events[f] # <<>>
    BY <1>5, <1>t DEF NextEvent, FirstEntry, Shape
  <2>2. Shape'
    BY <1>t, <2>1 DEF Shape
  <2>3. Tail(events[f]) \in Pending(InHand(f))
    <3>1. events[f] \in Pending(InHand(f))
      BY <1>t, <2>1 DEF Holds
    <3> QED BY <2>1, <3>1, Tails
  <2>4. ASSUME NEW g \in Subs PROVE Holds(g)'
    <3>1. InHand(g)' = InHand(g)
      BY <2>1 DEF InHand
    <3> QED BY <1>t, <2>1, <2>3, <3>1 DEF Holds
  <2> QED BY <2>2, <2>4 DEF ShapeInv
<1>6. ASSUME NEW f \in Subs, Done(f) \/ Ends(f) PROVE ShapeInv'
  <2>1. /\ UNCHANGED <<topic, sub, handlers, kinds, events, next, calls>>
        /\ feed[f] \in {"handling", "reading"} /\ feed'[f] \in {"gone", "reading"}
        /\ feed' \in [Subs -> Task] /\ \A g \in Subs : g # f => feed'[g] = feed[g]
        /\ busy' \in [Subs -> BOOLEAN] /\ \A g \in Subs : g # f => busy'[g] = busy[g]
        /\ again' \in [Subs -> BOOLEAN]
        /\ busy'[f] => busy[f] /\ Done(f)
    BY <1>6, <1>t DEF Done, Ends, Shape, Task, Holds
  <2>2. Shape'
    BY <1>t, <2>1 DEF Shape
  <2>3. ASSUME NEW g \in Subs PROVE Holds(g)'
    <3>1. InHand(g)' = InHand(g)
      BY <2>1 DEF InHand
    <3>2. CASE g = f
      <4>1. sub[f] = "live"
        BY <1>t, <2>1 DEF Holds, NoFeed
      <4>2. ~busy'[f]
        BY <1>6, <1>t, <2>1 DEF Done, Ends, Shape, Holds
      <4> QED BY <2>1, <3>2, <4>1, <4>2 DEF Holds
    <3>3. CASE g # f
      BY <1>t, <2>1, <3>1, <3>3 DEF Holds
    <3> QED BY <3>2, <3>3
  <2> QED BY <2>2, <2>3 DEF ShapeInv
<1>7. CASE UNCHANGED vars
  <2>1. Shape'
    BY <1>7, <1>t DEF vars, Shape
  <2>2. \A g \in Subs : Holds(g)'
    BY <1>7, <1>t DEF vars, Holds, InHand, Pending
  <2> QED BY <2>1, <2>2 DEF ShapeInv
<1>8. ASSUME NEW f \in Subs, CallAgain(f) PROVE ShapeInv'
  <2>1. /\ UNCHANGED <<topic, sub, handlers, feed, kinds, events, next, calls>>
        /\ feed[f] = "handling" /\ events[f] # <<>>
        /\ busy' \in [Subs -> BOOLEAN] /\ again' \in [Subs -> BOOLEAN]
        /\ \A g \in Subs : busy'[g] => busy[g] \/ g = f
    BY <1>8, <1>t DEF CallAgain, Shape
  <2>2. Shape'
    BY <1>t, <2>1 DEF Shape
  <2>3. ASSUME NEW g \in Subs PROVE Holds(g)'
    <3>1. InHand(g)' = InHand(g)
      BY <2>1 DEF InHand
    <3> QED BY <1>t, <2>1, <3>1 DEF Holds
  <2> QED BY <2>2, <2>3 DEF ShapeInv
<1> QED BY <1>1, <1>2, <1>3, <1>4, <1>5, <1>6, <1>7, <1>8 DEF Next, Emit, Leaves, Quiet

-----------------------------------------------------------------------------
(* The calls of a feed are in order, and a frame in hand is called as far as *)
(* the loop has come.                                                        *)

Before(x, y) ==
    \/ x.frame < y.frame
    \/ /\ x.frame = y.frame
       /\ \/ x.event = y.event /\ x.entry < y.entry
          \/ x.event = "user" /\ y.event # "user"

\* The calls made come before the one that the loop makes next.
UpTo(f) ==
    \A c \in 1..Len(calls[f]) :
        /\ calls[f][c].frame <= Len(kinds[f])
        /\ feed[f] = "handling" /\ events[f] # <<>>
             => Before(calls[f][c],
                       [frame |-> Len(kinds[f]), event |-> Head(events[f]), entry |-> next[f]])

Sorted(f) ==
    \A c, d \in 1..Len(calls[f]) : c < d => Before(calls[f][c], calls[f][d])

OrderInv == ShapeInv /\ \A f \in Subs : UpTo(f) /\ Sorted(f)

\* A feed that is not at work keeps its calls in order.
LEMMA SortedStays ==
    ASSUME NEW f \in Subs, UpTo(f), Sorted(f), calls'[f] = calls[f], kinds'[f] = kinds[f],
           \/ feed'[f] # "handling"
           \/ feed'[f] = feed[f] /\ events'[f] = events[f] /\ next'[f] = next[f]
    PROVE  UpTo(f)' /\ Sorted(f)'
BY DEF UpTo, Sorted

\* No call has been made.
LEMMA OrderInit == Init => OrderInv
<1> SUFFICES ASSUME Init PROVE OrderInv
  OBVIOUS
<1>1. \A f \in Subs : 1..Len(calls[f]) = {}
  BY DEF Init
<1> QED BY <1>1, ShapeInvInit DEF OrderInv, UpTo, Sorted

\* Every step keeps the order: a new frame comes after all calls, a call is the one the
\* loop has come to.
LEMMA OrderStep == OrderInv /\ [Next]_vars => OrderInv'
<1> SUFFICES ASSUME OrderInv, [Next]_vars PROVE OrderInv'
  OBVIOUS
<1> USE DEF emitting
<1>t. Shape /\ ShapeInv /\ \A f \in Subs : Holds(f) /\ UpTo(f) /\ Sorted(f)
  BY DEF OrderInv, ShapeInv
<1>s. ShapeInv'
  BY <1>t, ShapeInvStep
<1>1. ASSUME NEW s \in Subs, Subscribe(s) \/ Resolved(s) \/ ResolveFails(s), NEW f \in Subs
      PROVE  UpTo(f)' /\ Sorted(f)'
  <2>1. UNCHANGED <<kinds, events, next, calls>>
    BY <1>1 DEF Subscribe, Resolved, ResolveFails
  <2>2. feed'[f] = feed[f] \/ feed'[f] = "reading"
    BY <1>1, <1>t DEF Subscribe, Resolved, ResolveFails, StartFeed, Shape
  <2> QED BY <1>t, <2>1, <2>2, SortedStays
<1>2. ASSUME NEW g \in Subs, Take(g), NEW f \in Subs PROVE UpTo(f)' /\ Sorted(f)'
  <2>1. PICK kind \in Kind :
          /\ \A h \in Subs : h # g => /\ kinds'[h] = kinds[h] /\ events'[h] = events[h]
                                      /\ next'[h] = next[h] /\ feed'[h] = feed[h]
          /\ Len(kinds'[g]) = Len(kinds[g]) + 1
    BY <1>2, <1>t, TakeShape
  <2>2. UNCHANGED calls
    BY <1>2 DEF Take
  <2>3. CASE f = g
    <3>1. \A c \in 1..Len(calls[f]) : calls[f][c] \in Made /\ calls[f][c].frame <= Len(kinds[f])
      BY <1>t, Shapes DEF UpTo
    <3>2. \A c \in 1..Len(calls[f]) :
            calls[f][c].frame < Len(kinds[f]) + 1 /\ calls[f][c].frame <= Len(kinds[f]) + 1
      BY <1>t, <3>1, Shapes DEF Made
    <3>3. UpTo(f)'
      BY <2>1, <2>2, <2>3, <3>2 DEF UpTo, Before
    <3> QED BY <1>t, <2>2, <3>3 DEF Sorted
  <2>4. CASE f # g
    BY <1>t, <2>1, <2>2, <2>4, SortedStays
  <2> QED BY <2>3, <2>4
<1>3. ASSUME NEW g \in Subs, Call(g), NEW f \in Subs PROVE UpTo(f)' /\ Sorted(f)'
  <2> DEFINE e == Head(events[g])
             call == [frame |-> Len(kinds[g]), event |-> e, entry |-> next[g]]
             n == Len(calls[g])
  <2>1. /\ \A h \in Subs : h # g => calls'[h] = calls[h] /\ next'[h] = next[h]
        /\ Len(calls'[g]) = n + 1
        /\ \A c \in 1..n : calls'[g][c] = calls[g][c]
        /\ calls'[g][n + 1] = call
        /\ next'[g] = next[g] + 1 /\ e \in Topics
    BY <1>3, <1>t, CallShape
  <2>2. UNCHANGED <<feed, kinds, events>> /\ feed[g] = "handling" /\ events[g] # <<>>
    BY <1>3 DEF Call
  <2>3. CASE f # g
    BY <1>t, <2>1, <2>2, <2>3, SortedStays
  <2>4. CASE f = g
    <3>1. n \in Nat /\ Len(kinds[g]) \in Nat /\ next[g] \in Nat
      BY <1>t, Shapes DEF Shape
    <3>2. \A c \in 1..(n + 1) : c \in 1..n \/ c = n + 1
      BY <3>1
    <3>3. \A c \in 1..n : Before(calls[g][c], call) /\ calls[g][c].frame <= Len(kinds[g])
                          /\ calls[g][c] \in Made
      BY <1>t, <2>2, Shapes DEF UpTo
    <3>4. Sorted(f)'
      <4> SUFFICES ASSUME NEW c \in 1..(n + 1), NEW d \in 1..(n + 1), c < d
                   PROVE  Before(calls'[g][c], calls'[g][d])
        BY <2>1, <2>4 DEF Sorted
      <4>1. c \in 1..n
        BY <3>1
      <4>2. CASE d \in 1..n
        BY <1>t, <2>1, <4>1, <4>2 DEF Sorted
      <4>3. CASE d = n + 1
        <5>1. calls'[g][c] = calls[g][c] /\ calls'[g][d] = call
          BY <2>1, <4>1, <4>3
        <5> QED BY <3>3, <4>1, <5>1
      <4> QED BY <3>2, <4>2, <4>3
    <3>5. UpTo(f)'
      <4> DEFINE after == [frame |-> Len(kinds[g]), event |-> e, entry |-> next[g] + 1]
      <4> SUFFICES ASSUME NEW c \in 1..(n + 1)
                   PROVE  calls'[g][c].frame <= Len(kinds[g]) /\ Before(calls'[g][c], after)
        BY <2>1, <2>2, <2>4 DEF UpTo
      <4>1. CASE c \in 1..n
        <5>1. calls[g][c].entry < next[g] => calls[g][c].entry < next[g] + 1
          BY <3>1, <3>3, <4>1 DEF Made
        <5> QED BY <2>1, <3>3, <4>1, <5>1 DEF Before
      <4>2. CASE c = n + 1
        <5>1. next[g] < next[g] + 1 /\ Len(kinds[g]) <= Len(kinds[g])
          BY <3>1
        <5> QED BY <2>1, <4>2, <5>1 DEF Before
      <4> QED BY <3>2, <4>1, <4>2
    <3> QED BY <3>4, <3>5
  <2> QED BY <2>3, <2>4
<1>4. ASSUME NEW g \in Subs, Returns(g) \/ Raises(g) \/ RegistersAgain(g) \/ CallAgain(g),
             NEW f \in Subs
      PROVE  UpTo(f)' /\ Sorted(f)'
  <2>1. UNCHANGED <<feed, kinds, events, next, calls>>
    BY <1>4 DEF Returns, Raises, RegistersAgain, CallAgain, GoesOn
  <2> QED BY <1>t, <2>1, SortedStays
<1>5. ASSUME NEW g \in Subs, NextEvent(g), NEW f \in Subs PROVE UpTo(f)' /\ Sorted(f)'
  <2>1. /\ UNCHANGED <<feed, kinds, calls>> /\ feed[g] = "handling" /\ events[g] # <<>>
        /\ \A h \in Subs : events'[h] = IF h = g THEN Tail(events[h]) ELSE events[h]
        /\ \A h \in Subs : h # g => next'[h] = next[h]
    BY <1>5, <1>t DEF NextEvent, FirstEntry, Shape
  <2>2. CASE f # g
    BY <1>t, <2>1, <2>2, SortedStays
  <2>3. CASE f = g
    <3>1. Sorted(f)'
      BY <1>t, <2>1 DEF Sorted
    <3>2. UpTo(f)'
      <4>1. \A c \in 1..Len(calls[f]) :
              /\ calls[f][c].frame <= Len(kinds[f])
              /\ Before(calls[f][c], [frame |-> Len(kinds[f]), event |-> Head(events[f]),
                                      entry |-> next[f]])
        BY <1>t, <2>1, <2>3 DEF UpTo
      <4>2. CASE Tail(events[f]) = <<>>
        BY <2>1, <2>3, <4>1, <4>2 DEF UpTo
      <4>3. CASE Tail(events[f]) # <<>>
        <5>1. events[f] \in Pending(InHand(f))
          BY <1>t, <2>1, <2>3 DEF Holds
        <5>2. events[f] = <<"user", "order">> /\ events'[f] = <<"order">>
          BY <2>1, <2>3, <4>3, <5>1, Tails
        <5>3. Head(events[f]) = "user" /\ Head(events'[f]) = "order"
          BY <5>2
        <5>4. \A c \in 1..Len(calls[f]) :
                \/ calls[f][c].frame < Len(kinds[f])
                \/ calls[f][c].frame = Len(kinds[f]) /\ calls[f][c].event = "user"
          BY <4>1, <5>3 DEF Before
        <5>5. \A c \in 1..Len(calls[f]) :
                Before(calls[f][c], [frame |-> Len(kinds[f]), event |-> Head(events'[f]),
                                     entry |-> next'[f]])
          BY <5>3, <5>4 DEF Before
        <5> QED BY <2>1, <4>1, <5>5 DEF UpTo
      <4> QED BY <4>2, <4>3
    <3> QED BY <3>1, <3>2
  <2> QED BY <2>2, <2>3
<1>6. ASSUME NEW g \in Subs, Done(g) \/ Ends(g), NEW f \in Subs PROVE UpTo(f)' /\ Sorted(f)'
  <2>1. UNCHANGED <<kinds, events, next, calls>>
        /\ (feed'[f] = feed[f] \/ feed'[f] \in {"gone", "reading"})
    BY <1>6, <1>t DEF Done, Ends, Shape
  <2> QED BY <1>t, <2>1, SortedStays
<1>7. ASSUME UNCHANGED vars, NEW f \in Subs PROVE UpTo(f)' /\ Sorted(f)'
  BY <1>7, <1>t, SortedStays DEF vars
<1>8. \A f \in Subs : UpTo(f)' /\ Sorted(f)'
  BY <1>1, <1>2, <1>3, <1>4, <1>5, <1>6, <1>7 DEF Next, Emit, Leaves, Quiet
<1> QED BY <1>s, <1>8 DEF OrderInv

(* websocket.py:289-293: a feed's calls come in the order of its frames, the *)
(* user handlers of a frame before those of its kind, and each list in the   *)
(* order of registration, for any number of feeds, handlers and frames.      *)
THEOREM CallsInOrder == Spec => []InOrder
<1>1. ASSUME OrderInv PROVE InOrder
  <2>1. \A f \in Subs : DOMAIN calls[f] = 1..Len(calls[f])
    BY <1>1, Shapes DEF OrderInv, ShapeInv
  <2> QED BY <1>1, <2>1 DEF OrderInv, Sorted, Before, InOrder
<1> QED BY <1>1, OrderInit, OrderStep, PTL DEF Spec

-----------------------------------------------------------------------------
(* Every entry is called.                                                    *)

Called(f, n, e, i) ==
    \E c \in 1..Len(calls[f]) : calls[f][c] = [frame |-> n, event |-> e, entry |-> i]

\* The loop still comes to entry i of e for the frame in hand.
Ahead(f, e, i) ==
    /\ events[f] # <<>>
    /\ \/ e = Head(events[f]) /\ i >= next[f]
       \/ Tail(events[f]) # <<>> /\ e = Head(Tail(events[f]))

\* An entry does not remember a frame to come; one that was there when a frame came has
\* been called for it, or is ahead, or the feed ended with the frame in hand.
Serves(f) ==
    \A e \in Topics : \A i \in DOMAIN handlers[e] :
        /\ handlers[e][i].since[f] <= Len(kinds[f])
        /\ \A n \in 1..Len(kinds[f]) :
             n > handlers[e][i].since[f] /\ e \in Emitted(kinds[f][n])
             => \/ Called(f, n, e, i)
                \/ n = Len(kinds[f]) /\ feed[f] = "handling" /\ Ahead(f, e, i)
                \/ n = Len(kinds[f]) /\ feed[f] \notin {"handling", "reading"} /\ events[f] # <<>>

ServesInv == OrderInv /\ \A f \in Subs : Serves(f)

\* There are no entries.
LEMMA ServesInit == Init => ServesInv
<1> SUFFICES ASSUME Init PROVE ServesInv
  OBVIOUS
<1>1. \A e \in Topics : DOMAIN handlers[e] = {}
  BY DEF Init
<1> QED BY <1>1, OrderInit DEF ServesInv, Serves

\* A feed that is not at work, in the eyes of the entries there were.
LEMMA ServesStays ==
    ASSUME Shape, NEW f \in Subs, Serves(f), kinds'[f] = kinds[f], calls'[f] = calls[f],
           handlers' = handlers, events'[f] = events[f],
           \/ feed'[f] \notin {"handling", "reading"}
           \/ feed'[f] = feed[f] /\ next'[f] = next[f]
    PROVE  Serves(f)'
<1>1. \A n, e, i : Called(f, n, e, i)' <=> Called(f, n, e, i)
  BY DEF Called
<1>3. \A e, i : Ahead(f, e, i) => events[f] # <<>>
  BY DEF Ahead
<1>2. feed'[f] = feed[f] /\ events'[f] = events[f] /\ next'[f] = next[f]
        => \A e, i : Ahead(f, e, i)' <=> Ahead(f, e, i)
  BY DEF Ahead
<1> QED BY <1>1, <1>2, <1>3 DEF Serves

\* Every step serves the entries: the loop leaves none out, and one made later waits for
\* the next frame.
LEMMA ServesStep == ServesInv /\ [Next]_vars => ServesInv'
<1> SUFFICES ASSUME ServesInv, [Next]_vars PROVE ServesInv'
  OBVIOUS
<1> USE DEF emitting
<1>t. OrderInv /\ ShapeInv /\ Shape /\ \A f \in Subs : Holds(f) /\ Serves(f)
  BY DEF ServesInv, OrderInv, ShapeInv
<1>s. OrderInv'
  BY <1>t, OrderStep
<1>1. ASSUME NEW s \in Subs, Subscribe(s) \/ Resolved(s) \/ ResolveFails(s), NEW f \in Subs
      PROVE  Serves(f)'
  <2>1. UNCHANGED <<kinds, events, next, calls>> /\ Len(kinds[f]) \in Nat /\ sub[s] # "live"
    BY <1>1, <1>t, Shapes DEF Subscribe, Resolved, ResolveFails
  <2>2. feed'[f] = feed[f] \/ (kinds[f] = <<>> /\ Len(kinds[f]) = 0)
    BY <1>1, <1>t, <2>1 DEF Subscribe, Resolved, ResolveFails, StartFeed, Shape, Holds
  <2>3. \A e \in Topics : \A i \in DOMAIN handlers'[e] :
          \/ i \in DOMAIN handlers[e] /\ handlers'[e][i] = handlers[e][i]
          \/ handlers'[e][i].since[f] = Len(kinds[f])
    <3>1. CASE Subscribe(s)
      BY <1>t, <3>1, OnShape DEF Subscribe
    <3>2. CASE Resolved(s) \/ ResolveFails(s)
      BY <3>2 DEF Resolved, ResolveFails
    <3> QED BY <1>1, <3>1, <3>2
  <2>4. \A n, e, i : /\ Called(f, n, e, i)' <=> Called(f, n, e, i)
                     /\ Ahead(f, e, i)' <=> Ahead(f, e, i)
    BY <2>1 DEF Called, Ahead
  <2> SUFFICES ASSUME NEW e \in Topics, NEW i \in DOMAIN handlers'[e]
               PROVE  /\ handlers'[e][i].since[f] <= Len(kinds[f])
                      /\ \A n \in 1..Len(kinds[f]) :
                           n > handlers'[e][i].since[f] /\ e \in Emitted(kinds[f][n])
                           => \/ Called(f, n, e, i)
                              \/ n = Len(kinds[f]) /\ feed'[f] = "handling" /\ Ahead(f, e, i)
                              \/ n = Len(kinds[f]) /\ feed'[f] \notin {"handling", "reading"}
                                 /\ events[f] # <<>>
    BY <2>1, <2>4 DEF Serves
  <2>5. CASE handlers'[e][i].since[f] = Len(kinds[f])
    BY <2>1, <2>5
  <2>6. CASE i \in DOMAIN handlers[e] /\ handlers'[e][i] = handlers[e][i]
    BY <1>t, <2>1, <2>2, <2>6 DEF Serves
  <2> QED BY <2>3, <2>5, <2>6
<1>2. ASSUME NEW g \in Subs, Take(g), NEW f \in Subs PROVE Serves(f)'
  <2>1. PICK kind \in Kind :
          /\ \A h \in Subs : h # g => /\ kinds'[h] = kinds[h] /\ events'[h] = events[h]
                                      /\ next'[h] = next[h] /\ feed'[h] = feed[h]
          /\ Len(kinds'[g]) = Len(kinds[g]) + 1
          /\ \A n \in 1..Len(kinds[g]) : kinds'[g][n] = kinds[g][n]
          /\ kinds'[g][Len(kinds[g]) + 1] = kind
          /\ events'[g] = Events(kind) /\ next'[g] = 1 /\ feed'[g] = "handling"
    BY <1>2, <1>t, TakeShape
  <2>2. UNCHANGED <<calls, handlers>> /\ feed[g] = "reading"
    BY <1>2 DEF Take
  <2>3. CASE f # g
    BY <1>t, <2>1, <2>2, <2>3, ServesStays
  <2>4. CASE f = g
    <3>1. Len(kinds[f]) \in Nat
      BY <1>t, Shapes
    <3>2. \A n, e, i : Called(f, n, e, i)' <=> Called(f, n, e, i)
      BY <2>2 DEF Called
    <3>3. ASSUME NEW e \in Topics, NEW i \in DOMAIN handlers[e], e \in Emitted(kind)
          PROVE  Ahead(f, e, i)'
      <4>1. i >= 1
        BY <1>t, Shapes
      <4>2. CASE kind = "order"
        <5>1. events'[f] = <<"user", "order">>
          BY <2>1, <2>4, <4>2 DEF Events
        <5>2. /\ Head(<<"user", "order">>) = "user" /\ Tail(<<"user", "order">>) = <<"order">>
              /\ Head(<<"order">>) = "order" /\ <<"order">> # <<>> /\ <<"user", "order">> # <<>>
          OBVIOUS
        <5>3. e \in {"user", "order"}
          BY <3>3, <4>2 DEF Emitted, Events
        <5> QED BY <2>1, <2>4, <4>1, <5>1, <5>2, <5>3 DEF Ahead
      <4>3. CASE kind # "order"
        <5>1. PICK x : Events(kind) = <<x>>
          BY <4>3 DEF Events
        <5>2. Head(<<x>>) = x /\ <<x>> # <<>>
          OBVIOUS
        <5>3. e = x
          BY <3>3, <5>1 DEF Emitted
        <5> QED BY <2>1, <2>4, <4>1, <5>1, <5>2, <5>3 DEF Ahead
      <4> QED BY <4>2, <4>3
    <3> SUFFICES ASSUME NEW e \in Topics, NEW i \in DOMAIN handlers[e]
                 PROVE  /\ handlers[e][i].since[f] <= Len(kinds[f]) + 1
                        /\ \A n \in 1..(Len(kinds[f]) + 1) :
                             n > handlers[e][i].since[f] /\ e \in Emitted(kinds'[f][n])
                             => \/ Called(f, n, e, i)
                                \/ n = Len(kinds[f]) + 1 /\ Ahead(f, e, i)'
      BY <2>1, <2>2, <2>4, <3>2 DEF Serves
    <3>4. handlers[e][i].since[f] <= Len(kinds[f]) /\ handlers[e][i].since[f] \in Nat
      <4>1. handlers[e][i] \in Entry
        BY <1>t, Shapes
      <4> QED BY <1>t, <4>1 DEF Serves, Entry
    <3>5. ASSUME NEW n \in 1..(Len(kinds[f]) + 1), n > handlers[e][i].since[f],
                 e \in Emitted(kinds'[f][n])
          PROVE  Called(f, n, e, i) \/ (n = Len(kinds[f]) + 1 /\ Ahead(f, e, i)')
      <4>1. CASE n \in 1..Len(kinds[f])
        <5>1. kinds'[f][n] = kinds[f][n]
          BY <2>1, <2>4, <4>1
        <5> QED BY <1>t, <2>2, <2>4, <3>5, <4>1, <5>1 DEF Serves
      <4>2. CASE n = Len(kinds[f]) + 1
        BY <2>1, <2>4, <3>3, <3>5, <4>2
      <4> QED BY <3>1, <4>1, <4>2
    <3> QED BY <3>1, <3>4, <3>5
  <2> QED BY <2>3, <2>4
<1>3. ASSUME NEW g \in Subs, Call(g), NEW f \in Subs PROVE Serves(f)'
  <2> DEFINE e0 == Head(events[g])
             call == [frame |-> Len(kinds[g]), event |-> e0, entry |-> next[g]]
             m == Len(calls[g])
  <2>1. /\ \A h \in Subs : h # g => calls'[h] = calls[h] /\ next'[h] = next[h]
        /\ Len(calls'[g]) = m + 1
        /\ \A c \in 1..m : calls'[g][c] = calls[g][c]
        /\ calls'[g][m + 1] = call
        /\ next'[g] = next[g] + 1
    BY <1>3, <1>t, CallShape
  <2>2. UNCHANGED <<feed, kinds, events, handlers>> /\ feed[g] = "handling"
    BY <1>3 DEF Call
  <2>3. CASE f # g
    BY <1>t, <2>1, <2>2, <2>3, ServesStays
  <2>4. CASE f = g
    <3>1. m \in Nat /\ next[g] \in Nat
      BY <1>t, Shapes DEF Shape
    <3>2. 1..m \subseteq 1..(m + 1) /\ m + 1 \in 1..(m + 1)
      BY <3>1
    <3>3. ASSUME NEW n, NEW e, NEW i, Called(f, n, e, i) PROVE Called(f, n, e, i)'
      BY <2>1, <2>4, <3>2, <3>3 DEF Called
    <3>4. ASSUME NEW n, NEW e, NEW i, n = Len(kinds[f]), e = e0, i = next[f]
          PROVE  Called(f, n, e, i)'
      BY <2>1, <2>4, <3>2, <3>4 DEF Called
    <3>5. ASSUME NEW e \in Topics, NEW i \in DOMAIN handlers[e], Ahead(f, e, i)
          PROVE  Ahead(f, e, i)' \/ (e = e0 /\ i = next[f])
      <4>1. i \in Nat
        BY <1>t, Shapes
      <4>2. events'[f] = events[f] /\ next'[f] = next[f] + 1 /\ e0 = Head(events[f])
        BY <2>1, <2>2, <2>4
      <4>3. i >= next[f] => i >= next[f] + 1 \/ i = next[f]
        BY <2>4, <3>1, <4>1
      <4> HIDE DEF e0
      <4> QED BY <3>5, <4>2, <4>3 DEF Ahead
    <3> HIDE DEF e0, call
    <3> QED BY <1>t, <2>2, <2>4, <3>3, <3>4, <3>5 DEF Serves
  <2> QED BY <2>3, <2>4
<1>4. ASSUME NEW g \in Subs, Returns(g) \/ Raises(g) \/ RegistersAgain(g) \/ CallAgain(g),
             NEW f \in Subs
      PROVE  Serves(f)'
  <2>1. UNCHANGED <<feed, kinds, events, next, calls, handlers>>
    BY <1>4 DEF Returns, Raises, RegistersAgain, CallAgain, GoesOn
  <2> QED BY <1>t, <2>1, ServesStays
<1>5. ASSUME NEW g \in Subs, NextEvent(g), NEW f \in Subs PROVE Serves(f)'
  <2>1. /\ UNCHANGED <<feed, kinds, calls, handlers>> /\ events[g] # <<>>
        /\ \A h \in Subs : events'[h] = IF h = g THEN Tail(events[h]) ELSE events[h]
        /\ \A h \in Subs : next'[h] = IF h = g THEN 1 ELSE next[h]
        /\ next[g] \notin DOMAIN handlers[Head(events[g])] /\ feed[g] = "handling"
    BY <1>5, <1>t DEF NextEvent, FirstEntry, Exhausted, Shape
  <2>2. CASE f # g
    BY <1>t, <2>1, <2>2, ServesStays
  <2>3. CASE f = g
    <3>1. \A n, e, i : Called(f, n, e, i)' <=> Called(f, n, e, i)
      BY <2>1 DEF Called
    <3>2. ASSUME NEW e \in Topics, NEW i \in DOMAIN handlers[e], Ahead(f, e, i)
          PROVE  Ahead(f, e, i)'
      <4>1. DOMAIN handlers[e] = 1..Len(handlers[e]) /\ Len(handlers[e]) \in Nat
            /\ next[f] \in Nat \ {0}
        BY <1>t, Shapes DEF Shape
      <4>2. ~(e = Head(events[f]) /\ i >= next[f])
        BY <2>1, <2>3, <4>1
      <4>3. Tail(events[f]) # <<>> /\ e = Head(Tail(events[f]))
        BY <3>2, <4>2 DEF Ahead
      <4>4. events'[f] = Tail(events[f]) /\ next'[f] = 1 /\ i >= 1
        BY <2>1, <2>3, <4>1
      <4>5. events'[f] # <<>> /\ e = Head(events'[f]) /\ i >= next'[f]
        BY <4>3, <4>4
      <4> QED BY <4>5 DEF Ahead
    <3> QED BY <1>t, <2>1, <2>3, <3>1, <3>2 DEF Serves
  <2> QED BY <2>2, <2>3
<1>6. ASSUME NEW g \in Subs, Done(g) \/ Ends(g), NEW f \in Subs PROVE Serves(f)'
  <2>1. UNCHANGED <<kinds, events, next, calls, handlers>>
        /\ \A h \in Subs : h # g => feed'[h] = feed[h]
    BY <1>6, <1>t DEF Done, Ends, Shape
  <2>2. CASE f # g
    BY <1>t, <2>1, <2>2, ServesStays
  <2>3. CASE f = g /\ Ends(g)
    <3>1. feed'[f] = "gone"
      BY <1>t, <2>3 DEF Ends, Shape
    <3> QED BY <1>t, <2>1, <3>1, ServesStays
  <2>4. CASE f = g /\ Done(g)
    <3>1. events[f] = <<>> /\ feed[f] = "handling"
      BY <2>4 DEF Done
    <3>2. \A n, e, i : Called(f, n, e, i)' <=> Called(f, n, e, i)
      BY <2>1 DEF Called
    <3> QED BY <1>t, <2>1, <3>1, <3>2 DEF Serves, Ahead
  <2> QED BY <1>6, <2>2, <2>3, <2>4
<1>7. ASSUME UNCHANGED vars, NEW f \in Subs PROVE Serves(f)'
  BY <1>7, <1>t, ServesStays DEF vars
<1>8. \A f \in Subs : Serves(f)'
  BY <1>1, <1>2, <1>3, <1>4, <1>5, <1>6, <1>7 DEF Next, Emit, Leaves, Quiet
<1> QED BY <1>s, <1>8 DEF ServesInv

(* websocket.py:298-307: every entry that was registered when a frame came   *)
(* is called for it once and only once, for any number of feeds, handlers    *)
(* and frames.                                                               *)
THEOREM EveryEntryIsCalledOnce == Spec => []EveryEntryOnce
<1>1. ASSUME ServesInv PROVE EveryEntryOnce
  <2> SUFFICES ASSUME NEW f \in Subs, NEW e \in Topics, NEW i \in DOMAIN handlers[e],
                      NEW n \in 1..Len(kinds[f])
               PROVE  /\ Cardinality(CallsOf(f, n, e, i)) <= 1
                      /\ n > handlers[e][i].since[f] /\ n <= Completed(f)
                           /\ e \in Emitted(kinds[f][n])
                         => CallsOf(f, n, e, i) # {}
    BY DEF EveryEntryOnce
  <2>1. Shape /\ Sorted(f) /\ Serves(f)
    BY <1>1 DEF ServesInv, OrderInv, ShapeInv
  <2>2. DOMAIN calls[f] = 1..Len(calls[f]) /\ Len(kinds[f]) \in Nat /\ Len(calls[f]) \in Nat
    BY <2>1, Shapes
  <2>3. ASSUME NEW c \in CallsOf(f, n, e, i), NEW d \in CallsOf(f, n, e, i), c < d PROVE FALSE
    <3>1. Before(calls[f][c], calls[f][d]) /\ calls[f][c] = calls[f][d]
      BY <2>1, <2>2, <2>3 DEF Sorted, CallsOf
    <3>2. i \in Nat /\ calls[f][c] = [frame |-> n, event |-> e, entry |-> i]
      BY <2>1, <2>3, Shapes DEF CallsOf
    <3> QED BY <3>1, <3>2 DEF Before
  <2>4. CallsOf(f, n, e, i) \subseteq Nat
    BY <2>2 DEF CallsOf
  <2>5. Cardinality(CallsOf(f, n, e, i)) <= 1
    <3>1. CASE CallsOf(f, n, e, i) = {}
      BY <3>1, FS_EmptySet
    <3>2. CASE CallsOf(f, n, e, i) # {}
      <4>1. PICK c : c \in CallsOf(f, n, e, i)
        BY <3>2
      <4>2. CallsOf(f, n, e, i) = {c}
        BY <2>3, <2>4, <4>1
      <4>3. Cardinality({c}) = 1
        BY FS_Singleton
      <4> QED BY <4>2, <4>3
    <3> QED BY <3>1, <3>2
  <2>6. ASSUME n > handlers[e][i].since[f], n <= Completed(f), e \in Emitted(kinds[f][n])
        PROVE  CallsOf(f, n, e, i) # {}
    <3>1. events[f] = <<>> \/ n # Len(kinds[f])
      BY <2>2, <2>6 DEF Completed
    <3>2. Called(f, n, e, i)
      BY <2>1, <2>6, <3>1 DEF Serves, Ahead
    <3> QED BY <2>2, <3>2 DEF Called, CallsOf
  <2> QED BY <2>5, <2>6
<1> QED BY <1>1, ServesInit, ServesStep, PTL DEF Spec
-----------------------------------------------------------------------------
(* Types, and the bounds on tries, events and frames.                        *)

\* What may be left of the events of any frame.
Lists == {<<"user", "order">>, <<"order">>, <<"user">>, <<"nbbo">>, <<"error">>, <<>>}

Counted ==
    /\ tries \in [Subs -> 0..MaxTries]
    /\ \A e \in Topics : \A i \in DOMAIN handlers[e] : topic[handlers[e][i].who] = e
    /\ \A f \in Subs : events[f] \in Lists
    /\ IsFiniteSet(Received) /\ Cardinality(Received) <= MaxFrames

CountInv == ShapeInv /\ Counted

\* No event list is longer than two, and none is longer for being gone through.
LEMMA ListsShrink == \A q \in Lists : Len(q) <= 2 /\ (q # <<>> => Tail(q) \in Lists)
<1>1. /\ Tail(<<"user", "order">>) = <<"order">> /\ Tail(<<"order">>) = <<>>
      /\ Tail(<<"user">>) = <<>> /\ Tail(<<"nbbo">>) = <<>> /\ Tail(<<"error">>) = <<>>
  OBVIOUS
<1>2. /\ Len(<<"user", "order">>) = 2 /\ Len(<<"order">>) = 1 /\ Len(<<"user">>) = 1
      /\ Len(<<"nbbo">>) = 1 /\ Len(<<"error">>) = 1 /\ Len(<<>>) = 0
  OBVIOUS
<1> SUFFICES ASSUME NEW q \in Lists PROVE Len(q) <= 2 /\ (q # <<>> => Tail(q) \in Lists)
  OBVIOUS
<1>3. \/ q = <<"user", "order">> \/ q = <<"order">> \/ q = <<"user">>
      \/ q = <<"nbbo">> \/ q = <<"error">> \/ q = <<>>
  BY DEF Lists
<1>4. Len(q) \in {0, 1, 2}
  BY <1>2, <1>3, Zenon
<1>5. q # <<>> => Tail(q) = <<"order">> \/ Tail(q) = <<>>
  BY <1>1, <1>3, Zenon
<1>6. \A n \in {0, 1, 2} : n <= 2
  OBVIOUS
<1>7. <<"order">> \in Lists /\ <<>> \in Lists
  BY DEF Lists
<1> QED BY <1>4, <1>5, <1>6, <1>7, Zenon

\* A frame that a feed takes is one more frame received.
LEMMA OneMoreReceived ==
    ASSUME Shape, NEW f \in Subs, Take(f), IsFiniteSet(Received), Cardinality(Received) \in Nat
    PROVE  IsFiniteSet(Received') /\ Cardinality(Received') = Cardinality(Received) + 1
<1>1. PICK kind \in Kind :
        /\ \A g \in Subs : g # f => kinds'[g] = kinds[g]
        /\ kinds'[f] \in Seq(Kind) /\ Len(kinds'[f]) = Len(kinds[f]) + 1
  BY TakeShape
<1> DEFINE n == Len(kinds[f]) + 1
<1>2. DOMAIN kinds[f] = 1..Len(kinds[f]) /\ Len(kinds[f]) \in Nat
  BY Shapes
<1>3. DOMAIN kinds'[f] = DOMAIN kinds[f] \cup {n}
  <2>1. DOMAIN kinds'[f] = 1..n
    BY <1>1, LenProperties
  <2> QED BY <1>2, <2>1
<1>4. <<f, n>> \notin Received
  <2>1. n \notin DOMAIN kinds[f]
    BY <1>2
  <2> QED BY <2>1 DEF Received
<1> HIDE DEF n
<1>5. Received' = Received \cup {<<f, n>>}
  <2>1. \A g \in Subs : {g} \X DOMAIN kinds'[g] =
                        IF g = f THEN ({g} \X DOMAIN kinds[g]) \cup {<<f, n>>}
                                 ELSE {g} \X DOMAIN kinds[g]
    BY <1>1, <1>3
  <2> QED BY <2>1 DEF Received
<1> QED BY <1>4, <1>5, FS_AddElement

\* At the beginning nothing is registered or received.
LEMMA CountInit == Init => CountInv
<1> SUFFICES ASSUME Init PROVE CountInv
  OBVIOUS
<1>1. Received = {}
  BY DEF Init, Received
<1>2. IsFiniteSet(Received) /\ Cardinality(Received) <= MaxFrames
  BY <1>1, FS_EmptySet, DispatchAssumption
<1>3. tries \in [Subs -> 0..MaxTries] /\ \A f \in Subs : events[f] \in Lists
  BY DispatchAssumption DEF Init, Lists
<1>4. \A e \in Topics : \A i \in DOMAIN handlers[e] : topic[handlers[e][i].who] = e
  BY DEF Init
<1> QED BY <1>2, <1>3, <1>4, ShapeInvInit DEF CountInv, Counted

\* An entry is for the topic of the list it is in.
LEMMA OnKeepsTopics ==
    ASSUME Shape, NEW s \in Subs, On(s),
           \A e \in Topics : \A i \in DOMAIN handlers[e] : topic[handlers[e][i].who] = e
    PROVE  \A e \in Topics : \A i \in DOMAIN handlers'[e] : topic[handlers'[e][i].who] = e
<1> DEFINE new == [who |-> s, since |-> [f \in Subs |-> Len(kinds[f])]]
<1>1. handlers' = [handlers EXCEPT ![topic[s]] = Append(@, new)] /\ new.who = s
  BY DEF On
<1>2. new \in Entry
  BY Shapes DEF Entry
<1> HIDE DEF new
<1> SUFFICES ASSUME NEW e \in Topics, NEW i \in DOMAIN handlers'[e]
             PROVE  topic[handlers'[e][i].who] = e
  OBVIOUS
<1>3. handlers[e] \in Seq(Entry) /\ DOMAIN handlers[e] = 1..Len(handlers[e])
      /\ Len(handlers[e]) \in Nat
  BY Shapes
<1>4. CASE e = topic[s]
  <2>1. handlers'[e] = Append(handlers[e], new)
    BY <1>1, <1>4 DEF Shape
  <2>2. /\ handlers'[e] \in Seq(Entry) /\ Len(handlers'[e]) = Len(handlers[e]) + 1
        /\ \A j \in 1..Len(handlers[e]) : handlers'[e][j] = handlers[e][j]
        /\ handlers'[e][Len(handlers[e]) + 1] = new
    BY <1>2, <1>3, <2>1, AppendProperties
  <2>3. i \in 1..Len(handlers[e]) \/ i = Len(handlers[e]) + 1
    BY <1>3, <2>2, LenProperties
  <2> QED BY <1>1, <1>3, <1>4, <2>2, <2>3
<1>5. CASE e # topic[s]
  BY <1>1, <1>5 DEF Shape
<1> QED BY <1>4, <1>5

\* Every step keeps the counts.
LEMMA CountStep == CountInv /\ [Next]_vars => CountInv'
<1> SUFFICES ASSUME CountInv, [Next]_vars PROVE Counted'
  BY ShapeInvStep DEF CountInv
<1>t. Shape /\ Counted
  BY DEF CountInv, ShapeInv
<1>n. Cardinality(Received) \in Nat
  BY <1>t, FS_CardinalityType DEF Counted
<1> USE DEF emitting
<1>1. ASSUME NEW s \in Subs, Subscribe(s) PROVE Counted'
  <2>1. UNCHANGED <<topic, kinds, events>> /\ On(s)
        /\ tries' = [tries EXCEPT ![s] = @ + 1] /\ tries[s] < MaxTries
    BY <1>1 DEF Subscribe
  <2>2. Received' = Received
    BY <2>1 DEF Received
  <2>3. tries' \in [Subs -> 0..MaxTries]
    BY <1>t, <2>1, DispatchAssumption DEF Counted
  <2>4. \A e \in Topics : \A i \in DOMAIN handlers'[e] : topic[handlers'[e][i].who] = e
    BY <1>t, <2>1, OnKeepsTopics DEF Counted
  <2> QED BY <1>t, <2>1, <2>2, <2>3, <2>4 DEF Counted
<1>2. ASSUME NEW s \in Subs, Resolved(s) \/ ResolveFails(s) PROVE Counted'
  <2>1. UNCHANGED <<topic, tries, handlers, kinds, events>>
    BY <1>2 DEF Resolved, ResolveFails
  <2>2. Received' = Received
    BY <2>1 DEF Received
  <2> QED BY <1>t, <2>1, <2>2 DEF Counted
<1>3. ASSUME NEW f \in Subs, Take(f) PROVE Counted'
  <2>1. /\ UNCHANGED <<topic, tries, handlers>>
        /\ \E kind \in Kinds(f) : events' = [events EXCEPT ![f] = Events(kind)]
        /\ Cardinality(Received) < MaxFrames
    BY <1>3 DEF Take
  <2>2. \A kind \in Kinds(f) : Events(kind) \in Lists
    BY DEF Kinds, Events, Lists
  <2>3. \A g \in Subs : events'[g] \in Lists
    BY <1>t, <2>1, <2>2 DEF Counted, Shape
  <2>4. IsFiniteSet(Received') /\ Cardinality(Received') <= MaxFrames
    BY <1>3, <1>t, <1>n, <2>1, OneMoreReceived, DispatchAssumption DEF Counted
  <2> QED BY <1>t, <2>1, <2>3, <2>4 DEF Counted
<1>4. ASSUME NEW f \in Subs, NextEvent(f) PROVE Counted'
  <2>1. /\ UNCHANGED <<topic, tries, handlers, kinds>> /\ events[f] # <<>>
        /\ events' = [events EXCEPT ![f] = Tail(@)]
    BY <1>4 DEF NextEvent, FirstEntry
  <2>2. \A g \in Subs : events'[g] \in Lists
    BY <1>t, <2>1, ListsShrink DEF Counted, Shape
  <2>3. Received' = Received
    BY <2>1 DEF Received
  <2> QED BY <1>t, <2>1, <2>2, <2>3 DEF Counted
<1>5. ASSUME NEW f \in Subs, Call(f) \/ CallAgain(f) \/ Done(f) \/ Leaves(f)
      PROVE  Counted'
  <2>1. UNCHANGED <<topic, tries, handlers, kinds, events>>
    BY <1>5 DEF Call, CallAgain, Done, Leaves, Returns, Raises, RegistersAgain, Ends, GoesOn
  <2>2. Received' = Received
    BY <2>1 DEF Received
  <2> QED BY <1>t, <2>1, <2>2 DEF Counted
<1>6. CASE Quiet \/ UNCHANGED vars
  <2>1. UNCHANGED <<topic, tries, handlers, kinds, events>>
    BY <1>6 DEF vars, Quiet
  <2>2. Received' = Received
    BY <2>1 DEF Received
  <2> QED BY <1>t, <2>1, <2>2 DEF Counted
<1> QED BY <1>1, <1>2, <1>3, <1>4, <1>5, <1>6 DEF Next, Emit

(* Every variable keeps its type: no subscription is tried, and no frame     *)
(* taken, beyond the bounds, a frame has two events at most, and an entry is *)
(* in the list of its own topic.                                             *)
THEOREM DispatchTypeCorrect == Spec => []TypeOK
<1>1. CountInv => TypeOK
  BY ListsShrink DEF CountInv, Counted, ShapeInv, Shape, TypeOK
<1> QED BY <1>1, CountInit, CountStep, PTL DEF Spec

=============================================================================
