--------------------------- MODULE SessionProofs ---------------------------
(* One session used by any finite number of calls and the private feed.      *)
EXTENDS Session, FiniteSetTheorems, TLAPS

-----------------------------------------------------------------------------
(* Type correctness.                                                         *)

\* The number of tokens is one more than that of their users.
LEMMA UsersFinite == IsFiniteSet(Users) /\ Cardinality(Users) \in Nat
BY SessionAssumption, FS_AddElement, FS_CardinalityType DEF Users

\* A login finds a token that is not in use: the user that logs in holds none, so that
\* the session and the other users hold fewer than there are.
LEMMA TokenFree ==
    ASSUME TypeOK, NEW u \in Users, held[u] = NoToken
    PROVE  NewToken \in Tokens /\ NewToken \notin InUse /\ NewToken # NoToken
<1>1. Tokens \ InUse # {}
  <2> SUFFICES ASSUME Tokens \subseteq InUse PROVE FALSE
    OBVIOUS
  <2> DEFINE Holds(t, v) == IF v = u THEN session = t ELSE held[v] = t
             holder == [t \in Tokens |-> CHOOSE v \in Users : Holds(t, v)]
  <2>1. \A t \in Tokens : t \in Nat /\ t # NoToken
    BY UsersFinite DEF Tokens, NoToken
  <2>2. \A t \in Tokens : \E v \in Users : Holds(t, v)
    BY <2>1 DEF InUse
  <2>3. \A t \in Tokens : holder[t] \in Users /\ Holds(t, holder[t])
    BY <2>2
  <2>4. holder \in [Tokens -> Users]
    BY <2>3
  <2>5. IsFiniteSet(Tokens) /\ Cardinality(Tokens) = Cardinality(Users) + 1
    BY UsersFinite, FS_Interval DEF Tokens
  <2>6. PICK s, t \in Tokens : s # t /\ holder[s] = holder[t]
    <3>1. Cardinality(Users) < Cardinality(Tokens)
      BY UsersFinite, <2>5
    <3> HIDE DEF holder
    <3> QED BY UsersFinite, <2>4, <2>5, <3>1, FS_PigeonHole
  <2> QED BY <2>3, <2>6
<1>2. \A t \in Tokens : t # NoToken
  BY UsersFinite DEF Tokens, NoToken
<1> QED BY <1>1, <1>2 DEF NewToken

\* What a step does to one user keeps UsersOK, if it takes and gives back the lock.
LEMMA OneMoves ==
    ASSUME UsersOK, NEW u \in Users, NEW s, NEW h \in Tokens \cup {NoToken},
           NEW a \in Ids \cup {NoId},
           pc' = [pc EXCEPT ![u] = s],
           held' = [held EXCEPT ![u] = h],
           account' = [account EXCEPT ![u] = a],
           IF u = Feed THEN s \in FeedStates ELSE s \in CallStates,
           h = NoToken \/ s \in {"sent", "served", "denied", "dialing"},
           \/ s \notin LoggingIn /\ pc[u] \notin LoggingIn /\ lock' = lock
           \/ s \notin LoggingIn /\ pc[u] \in LoggingIn /\ lock' = NoOne
           \/ s \in LoggingIn /\ lock = NoOne /\ lock' = u
    PROVE  UsersOK'
<1>1. /\ pc' \in [Users -> CallStates \cup FeedStates]
      /\ pc'[u] = s /\ \A v \in Users \ {u} : pc'[v] = pc[v]
  BY DEF UsersOK
<1>2. pc'[Feed] \in FeedStates /\ \A c \in Calls : pc'[c] \in CallStates
  BY <1>1, SessionAssumption DEF UsersOK, Users
<1>3. lock' \in Users \cup {NoOne}
  BY DEF UsersOK
<1>4. \A v \in Users : lock' = v <=> pc'[v] \in LoggingIn
  BY <1>1, SessionAssumption DEF UsersOK, Users
<1>5. /\ held' \in [Users -> Tokens \cup {NoToken}]
      /\ \A v \in Users :
           held'[v] # NoToken => pc'[v] \in {"sent", "served", "denied", "dialing"}
  BY <1>1 DEF UsersOK
<1>6. account' \in [Users -> Ids \cup {NoId}]
  BY DEF UsersOK
<1> QED BY <1>1, <1>2, <1>3, <1>4, <1>5, <1>6 DEF UsersOK

\* The same when only its state changes.
LEMMA OneGoes ==
    ASSUME UsersOK, NEW u \in Users, NEW s,
           pc' = [pc EXCEPT ![u] = s], UNCHANGED <<held, account>>,
           IF u = Feed THEN s \in FeedStates ELSE s \in CallStates,
           held[u] = NoToken \/ s \in {"sent", "served", "denied", "dialing"},
           \/ s \notin LoggingIn /\ pc[u] \notin LoggingIn /\ lock' = lock
           \/ s \notin LoggingIn /\ pc[u] \in LoggingIn /\ lock' = NoOne
           \/ s \in LoggingIn /\ lock = NoOne /\ lock' = u
    PROVE  UsersOK'
<1>1. /\ held[u] \in Tokens \cup {NoToken} /\ account[u] \in Ids \cup {NoId}
      /\ held' = [held EXCEPT ![u] = held[u]]
      /\ account' = [account EXCEPT ![u] = account[u]]
  BY DEF UsersOK
<1> QED BY <1>1, OneMoves

\* A call is no feed, and which states are whose.
LEMMA Whose ==
    ASSUME UsersOK, NEW u \in Users
    PROVE  /\ u = Feed <=> u \notin Calls
           /\ pc[u] \in {"token", "login"} => u \in Calls
           /\ pc[u] \in {"subscribe", "subscribe login", "connect", "connect login"} => u = Feed
           /\ pc[u] \in WantsToken => pc[u] \notin LoggingIn
           /\ pc[u] \in WantsToken \cup LoggingIn => held[u] = NoToken
BY SessionAssumption
DEF UsersOK, Users, CallStates, FeedStates, WantsToken, LoggingIn

\* A call that ends without a login under way, or because its login failed.
LEMMA EndsType ==
    ASSUME UsersOK, NEW c \in Calls, NEW s \in {"ok", "raised", "NotFoundError"}, Ends(c, s),
           again \in [Calls -> BOOLEAN],
           \/ pc[c] \notin LoggingIn /\ lock' = lock
           \/ pc[c] \in LoggingIn /\ lock' = NoOne
    PROVE  UsersOK' /\ again' \in [Calls -> BOOLEAN]
<1>1. c \in Users /\ c # Feed
  BY SessionAssumption DEF Users
<1>2. s \in CallStates /\ s \notin LoggingIn
  BY DEF CallStates, LoggingIn
<1> QED BY <1>1, <1>2, OneMoves DEF Ends, Goes

\* What follows token().
LEMMA ProceedsType ==
    ASSUME UsersOK, NEW u \in Users, NEW t \in Tokens, UserId' \in Ids, Proceeds(u, t),
           again \in [Calls -> BOOLEAN],
           \/ pc[u] \notin LoggingIn /\ lock' = lock
           \/ pc[u] \in LoggingIn /\ lock' = NoOne
    PROVE  UsersOK' /\ again' \in [Calls -> BOOLEAN]
<1>1. CASE pc[u] \in {"token", "login"} /\ NotFound(u)
  <2>1. u \in Calls /\ Ends(u, "NotFoundError")
    BY <1>1, Whose DEF Proceeds
  <2> QED BY <2>1, EndsType
<1>2. CASE pc[u] \in {"token", "login"} /\ ~NotFound(u)
  <2>1. /\ pc' = [pc EXCEPT ![u] = "sent"]
        /\ held' = [held EXCEPT ![u] = t]
        /\ UNCHANGED again
        /\ \E a \in Ids \cup {NoId} : account' = [account EXCEPT ![u] = a]
    <3>1. /\ account[u] \in Ids \cup {NoId}
          /\ account = [account EXCEPT ![u] = account[u]]
      BY DEF UsersOK
    <3> QED BY <1>2, <3>1 DEF Proceeds, Goes, RequireUserId
  <2>2. u # Feed
    BY <1>2, Whose
  <2>3. "sent" \in CallStates /\ "sent" \notin LoggingIn
    BY DEF CallStates, LoggingIn
  <2> QED BY <2>1, <2>2, <2>3, OneMoves
<1>3. CASE pc[u] \in {"subscribe", "subscribe login"}
  <2>1. /\ pc' = [pc EXCEPT ![u] = "connect"]
        /\ account' = [account EXCEPT ![u] = UserId']
        /\ UNCHANGED <<held, again>>
    BY <1>3 DEF Proceeds, Goes, RequireUserId
  <2>2. u = Feed /\ held[u] = NoToken
    BY <1>3, Whose DEF WantsToken, LoggingIn
  <2>3. held' = [held EXCEPT ![u] = NoToken]
    BY <2>1, <2>2 DEF UsersOK
  <2>4. "connect" \in FeedStates /\ "connect" \notin LoggingIn
    BY DEF FeedStates, LoggingIn
  <2> QED BY <2>1, <2>2, <2>3, <2>4, OneMoves
<1>4. CASE pc[u] \in {"connect", "connect login"}
  <2>1. /\ pc' = [pc EXCEPT ![u] = "dialing"]
        /\ held' = [held EXCEPT ![u] = t]
        /\ UNCHANGED <<account, again>>
    BY <1>4 DEF Proceeds, Goes
  <2>2. u = Feed
    BY <1>4, Whose
  <2>3. account[u] \in Ids \cup {NoId} /\ account' = [account EXCEPT ![u] = account[u]]
    BY <2>1 DEF UsersOK
  <2>4. "dialing" \in FeedStates /\ "dialing" \notin LoggingIn
    BY DEF FeedStates, LoggingIn
  <2> QED BY <2>1, <2>2, <2>3, <2>4, OneMoves
<1> QED BY <1>1, <1>2, <1>3, <1>4 DEF Proceeds

\* user_id is one of three.
LEMMA UserIdType == UserId' \in Ids
BY DEF UserId, Ids

\* The initial states have the declared types.
LEMMA SessionTypeInit == Init => TypeOK
<1>1. 1 \in Tokens
  BY UsersFinite DEF Tokens
<1> SUFFICES ASSUME Init PROVE TypeOK
  OBVIOUS
<1>2. \A u \in Users : pc[u] = "idle" /\ lock # u /\ held[u] = NoToken
  BY SessionAssumption DEF Init, Users
<1>3. "idle" \in CallStates /\ "idle" \in FeedStates /\ "idle" \notin LoggingIn
  BY DEF CallStates, FeedStates, LoggingIn
<1>4. UsersOK
  <2>1. Feed \in Users /\ Calls \subseteq Users
    BY DEF Users
  <2> QED BY <1>2, <1>3, <2>1 DEF Init, UsersOK
<1>5. valid \subseteq Tokens /\ session \in Tokens \cup {NoToken}
  BY <1>1 DEF Init
<1>6. /\ call \in [Calls -> [op : Ops, key : Keys] \cup {NoCall}]
      /\ again \in [Calls -> BOOLEAN] /\ dropped \in [Calls -> BOOLEAN]
      /\ faults \in 0..MaxFaults
  BY SessionAssumption DEF Init
<1> QED BY <1>4, <1>5, <1>6 DEF Init, TypeOK

\* Every step keeps them.
LEMMA SessionTypeStep == TypeOK /\ [Next]_vars => TypeOK'
<1> SUFFICES ASSUME TypeOK, [Next]_vars PROVE TypeOK'
  OBVIOUS
<1>a. UsersOK /\ again \in [Calls -> BOOLEAN]
  BY DEF TypeOK
<1>b. Feed \in Users /\ \A c \in Calls : c \in Users /\ c # Feed
  BY SessionAssumption DEF Users
<1> USE DEF auth, sent
<1>1. ASSUME NEW u \in Users, Token(u) PROVE TypeOK'
  <2>1. /\ session \in Tokens
        /\ Proceeds(u, session)
        /\ UNCHANGED <<client, session, lasting, expiring, valid, lock, call, filed, dropped, faults>>
    BY <1>1 DEF TypeOK, Token, Usable
  <2>2. UsersOK' /\ again' \in [Calls -> BOOLEAN]
    BY <1>1, <1>a, <2>1, Whose, UserIdType, ProceedsType DEF Token
  <2> QED BY <2>1, <2>2 DEF TypeOK
<1>2. ASSUME NEW u \in Users, Acquire(u) PROVE TypeOK'
  <2>1. /\ pc[u] \in WantsToken /\ pc[u] \notin LoggingIn /\ held[u] = NoToken
        /\ UNCHANGED <<client, session, lasting, expiring, valid, call, filed, dropped, faults>>
    BY <1>2, <1>a, Whose DEF Acquire
  <2>2. CASE client.signer
    <3>1. /\ lock = NoOne /\ lock' = u
          /\ pc' = [pc EXCEPT ![u] = LogsIn(pc[u])]
          /\ UNCHANGED <<held, account, again>>
      BY <1>2, <2>2 DEF Acquire, Goes
    <3>2. /\ LogsIn(pc[u]) \in LoggingIn
          /\ IF u = Feed THEN LogsIn(pc[u]) \in FeedStates ELSE LogsIn(pc[u]) \in CallStates
      BY <1>a, <2>1, Whose DEF LogsIn, WantsToken, LoggingIn, FeedStates, CallStates
    <3>3. UsersOK'
      BY <1>a, <2>1, <3>1, <3>2, OneGoes
    <3> QED BY <2>1, <3>1, <3>3 DEF TypeOK
  <2>3. CASE ~client.signer
    <3>1. /\ UNCHANGED lock
          /\ Proceeds(u, session)
          /\ session \in Tokens
      BY <1>2, <2>3 DEF Acquire, TypeOK
    <3>2. UsersOK' /\ again' \in [Calls -> BOOLEAN]
      BY <1>a, <2>1, <3>1, UserIdType, ProceedsType
    <3> QED BY <2>1, <3>1, <3>2 DEF TypeOK
  <2> QED BY <2>2, <2>3
<1>3. ASSUME NEW u \in Users, LoggedIn(u) PROVE TypeOK'
  <2>1. held[u] = NoToken
    BY <1>3, <1>a, Whose DEF LoggedIn
  <2>2. NewToken \in Tokens /\ NewToken # NoToken
    BY <2>1, TokenFree
  <2>3. /\ Proceeds(u, NewToken)
        /\ pc[u] \in LoggingIn
        /\ session' = NewToken /\ lock' = NoOne /\ lasting' \in BOOLEAN /\ expiring' = FALSE
        /\ valid' \subseteq Tokens
        /\ UNCHANGED <<client, call, filed, dropped, faults>>
    BY <1>3, <2>2 DEF LoggedIn, SessionFromApi, TypeOK
  <2>4. UsersOK' /\ again' \in [Calls -> BOOLEAN]
    BY <1>a, <2>2, <2>3, UserIdType, ProceedsType
  <2> QED BY <2>2, <2>3, <2>4 DEF TypeOK
<1>4. ASSUME NEW u \in Users, LoginFails(u) PROVE TypeOK'
  <2>1. /\ pc[u] \in LoggingIn /\ lock' = NoOne
        /\ faults' \in 0..MaxFaults
        /\ UNCHANGED <<client, session, lasting, expiring, valid, call, filed, dropped>>
    <3>1. faults \in 0..MaxFaults /\ faults < MaxFaults /\ faults' = faults + 1
      BY <1>4 DEF LoginFails, Fault, TypeOK
    <3>2. faults' \in 0..MaxFaults
      BY <3>1, SessionAssumption
    <3> QED BY <1>4, <3>2 DEF LoginFails, LockAfterRaise
  <2>2. CASE u = Feed
    <3>1. /\ \E s \in {"backoff", "idle"} : pc' = [pc EXCEPT ![u] = s]
          /\ UNCHANGED <<held, account, again>>
      BY <1>4, <2>2 DEF LoginFails, Goes
    <3>2. {"backoff", "idle"} \subseteq FeedStates \ LoggingIn
      BY DEF FeedStates, LoggingIn
    <3>3. UsersOK'
      BY <1>a, <1>b, <2>1, <2>2, <3>1, <3>2, Whose, OneGoes
    <3> QED BY <2>1, <3>1, <3>3 DEF TypeOK
  <2>3. CASE u # Feed
    <3>1. u \in Calls /\ Ends(u, "raised")
      BY <1>4, <1>a, <2>3, Whose DEF LoginFails
    <3>2. UsersOK' /\ again' \in [Calls -> BOOLEAN]
      BY <1>a, <2>1, <3>1, EndsType
    <3> QED BY <2>1, <3>2 DEF TypeOK
  <2> QED BY <2>2, <2>3
<1>5. ASSUME NEW c \in Calls, Begin(c) PROVE TypeOK'
  <2>1. /\ pc[c] = "idle" /\ pc' = [pc EXCEPT ![c] = "token"]
        /\ call' \in [Calls -> [op : Ops, key : Keys] \cup {NoCall}]
        /\ UNCHANGED <<client, session, lasting, expiring, valid, lock, held, account, again, filed,
                       dropped, faults>>
    BY <1>5 DEF Begin, Goes, TypeOK
  <2>2. held[c] = NoToken
    BY <1>a, <1>b, <2>1 DEF UsersOK
  <2>3. "token" \in CallStates /\ "token" \notin LoggingIn /\ "idle" \notin LoggingIn
    BY DEF CallStates, LoggingIn
  <2>4. UsersOK'
    BY <1>a, <1>b, <2>1, <2>2, <2>3, OneGoes
  <2> QED BY <2>1, <2>4 DEF TypeOK
<1>6. ASSUME NEW c \in Calls, Serve(c) PROVE TypeOK'
  <2>1. /\ pc[c] = "sent"
        /\ \E s \in {"served", "denied"} : pc' = [pc EXCEPT ![c] = s]
        /\ UNCHANGED <<client, session, lasting, expiring, valid, lock, call, held, account, again,
                       filed, dropped, faults>>
    BY <1>6 DEF Serve, Goes
  <2>2. {"served", "denied"} \subseteq CallStates \ LoggingIn /\ "sent" \notin LoggingIn
    BY DEF CallStates, LoggingIn
  <2>3. UsersOK'
    BY <1>a, <1>b, <2>1, <2>2, OneGoes
  <2> QED BY <2>1, <2>3 DEF TypeOK
<1>7. ASSUME NEW c \in Calls, Receive(c) PROVE TypeOK'
  <2>1. /\ Ends(c, "ok") /\ pc[c] = "served"
        /\ UNCHANGED <<client, session, lasting, expiring, valid, lock, call, dropped, faults>>
    BY <1>7 DEF Receive
  <2>2. filed' \subseteq Ids \X Keys
    <3>1. UserId \in Ids
      BY DEF UserId, Ids
    <3>2. call[c].op = "place" => call[c].key \in Keys
      BY DEF TypeOK, NoCall
    <3>3. filed' = filed \/ (call[c].op = "place" /\ filed' = filed \cup {<<UserId, call[c].key>>})
      BY <1>7 DEF Receive
    <3> QED BY <3>1, <3>2, <3>3 DEF TypeOK
  <2>3. UsersOK' /\ again' \in [Calls -> BOOLEAN]
    BY <1>a, <2>1, EndsType DEF LoggingIn
  <2> QED BY <2>1, <2>2, <2>3 DEF TypeOK
<1>8. ASSUME NEW c \in Calls, ReceiveUnauthorized(c) PROVE TypeOK'
  <2>1. pc[c] = "denied" /\ UNCHANGED <<client, valid, lock, call, filed, faults>>
    BY <1>8 DEF ReceiveUnauthorized
  <2>2. CASE again[c]
    <3>1. Ends(c, "raised") /\ UNCHANGED <<session, lasting, expiring, dropped>>
      BY <1>8, <2>2 DEF ReceiveUnauthorized
    <3>2. UsersOK' /\ again' \in [Calls -> BOOLEAN]
      BY <1>a, <2>1, <3>1, EndsType DEF LoggingIn
    <3> QED BY <2>1, <3>1, <3>2 DEF TypeOK
  <2>3. CASE ~again[c]
    <3>1. /\ Drop(c)
          /\ pc' = [pc EXCEPT ![c] = "token"]
          /\ held' = [held EXCEPT ![c] = NoToken]
          /\ again' = [again EXCEPT ![c] = TRUE]
          /\ account' = account
      BY <1>8, <2>3 DEF ReceiveUnauthorized, Goes
    <3>2. /\ session' \in {session, NoToken} /\ (session' # session => client.signer)
          /\ lasting' \in BOOLEAN /\ expiring' \in BOOLEAN /\ (lasting' => ~expiring')
          /\ dropped' \in [Calls -> BOOLEAN]
      BY <3>1 DEF Drop, TypeOK
    <3>3. account[c] \in Ids \cup {NoId} /\ account' = [account EXCEPT ![c] = account[c]]
      BY <1>a, <1>b, <3>1 DEF UsersOK
    <3>4. "token" \in CallStates /\ "token" \notin LoggingIn /\ "denied" \notin LoggingIn
      BY DEF CallStates, LoggingIn
    <3>5. UsersOK'
      BY <1>a, <1>b, <2>1, <3>1, <3>3, <3>4, OneMoves
    <3> QED BY <2>1, <3>1, <3>2, <3>5 DEF TypeOK
  <2> QED BY <2>2, <2>3
<1>9. ASSUME NEW c \in Calls, Lost(c) PROVE TypeOK'
  <2>1. /\ Ends(c, "raised") /\ pc[c] \in {"sent", "served", "denied"}
        /\ UNCHANGED <<client, session, lasting, expiring, valid, lock, call, filed, dropped, faults>>
    BY <1>9 DEF Lost
  <2>2. UsersOK' /\ again' \in [Calls -> BOOLEAN]
    BY <1>a, <2>1, EndsType DEF LoggingIn
  <2> QED BY <2>1, <2>2 DEF TypeOK
<1>10. ASSUME NEW s \in {"subscribe", "connect"}, Subscribe \/ Wake,
              pc' = [pc EXCEPT ![Feed] = s]
       PROVE  TypeOK'
  <2>1. /\ pc[Feed] \in {"idle", "backoff"}
        /\ UNCHANGED <<client, session, lasting, expiring, valid, lock, call, held, account, again,
                       filed, dropped, faults>>
    BY <1>10 DEF Subscribe, Wake
  <2>2. s \in FeedStates /\ s \notin LoggingIn /\ pc[Feed] \notin LoggingIn
    BY <2>1 DEF FeedStates, LoggingIn
  <2>3. held[Feed] = NoToken
    BY <1>a, <1>b, <2>1 DEF UsersOK
  <2>4. UsersOK'
    BY <1>10, <1>a, <1>b, <2>1, <2>2, <2>3, OneGoes
  <2> QED BY <2>1, <2>4 DEF TypeOK
<1>11. ASSUME Dial \/ Breaks PROVE TypeOK'
  <2>1. /\ pc[Feed] \in {"dialing", "live"}
        /\ \E s \in {"live", "backoff", "connect"} : pc' = [pc EXCEPT ![Feed] = s]
        /\ held' = [held EXCEPT ![Feed] = NoToken]
        /\ faults' \in 0..MaxFaults
        /\ UNCHANGED <<client, session, lasting, expiring, valid, lock, call, account, again, filed,
                       dropped>>
    BY <1>11, SessionAssumption DEF Dial, Breaks, Fault, Goes, TypeOK
  <2>2. {"live", "backoff", "connect"} \subseteq FeedStates \ LoggingIn
        /\ pc[Feed] \notin LoggingIn
    BY <2>1 DEF FeedStates, LoggingIn
  <2>3. account[Feed] \in Ids \cup {NoId} /\ account' = [account EXCEPT ![Feed] = account[Feed]]
    BY <1>a, <1>b, <2>1 DEF UsersOK
  <2>4. UsersOK'
    BY <1>a, <1>b, <2>1, <2>2, <2>3, OneMoves
  <2> QED BY <2>1, <2>4 DEF TypeOK
<1>12. ASSUME Age PROVE TypeOK'
  BY <1>12 DEF Age, TypeOK, UsersOK
<1>13. ASSUME Revoke PROVE TypeOK'
  <2>1. /\ valid' \subseteq Tokens
        /\ faults' \in 0..MaxFaults
        /\ UNCHANGED <<client, session, lasting, expiring, lock, call, held, account, again, filed,
                       dropped>>
    BY <1>13, SessionAssumption DEF Revoke, Fault, TypeOK
  <2>2. pc' = pc \/ (pc[Feed] = "live" /\ pc' = [pc EXCEPT ![Feed] = "backoff"])
    BY <1>13, <1>a, <1>b DEF Revoke, UsersOK
  <2>3. UsersOK'
    <3>1. CASE pc' = pc
      BY <1>a, <2>1, <3>1 DEF UsersOK
    <3>2. CASE pc[Feed] = "live" /\ pc' = [pc EXCEPT ![Feed] = "backoff"]
      <4>1. held[Feed] = NoToken
        BY <1>a, <1>b, <3>2 DEF UsersOK
      <4>2. "backoff" \in FeedStates /\ "backoff" \notin LoggingIn /\ "live" \notin LoggingIn
        BY DEF FeedStates, LoggingIn
      <4> QED BY <1>a, <1>b, <2>1, <3>2, <4>1, <4>2, OneGoes
    <3> QED BY <2>2, <3>1, <3>2
  <2> QED BY <2>1, <2>3 DEF TypeOK
<1>14. ASSUME UNCHANGED vars PROVE TypeOK'
  BY <1>14 DEF vars, TypeOK, UsersOK
<1>15. (Subscribe => pc' = [pc EXCEPT ![Feed] = "subscribe"])
       /\ (Wake => pc' = [pc EXCEPT ![Feed] = "connect"])
  BY DEF Subscribe, Wake, Goes
<1> QED BY <1>1, <1>2, <1>3, <1>4, <1>5, <1>6, <1>7, <1>8, <1>9, <1>10, <1>11, <1>12, <1>13,
           <1>14, <1>15 DEF Next, Quiet

(* auth.py:122: in every reachable state the variables have their types and  *)
(* the lock is held by exactly the user whose login is under way.            *)
THEOREM SessionTypeCorrect == Spec => []TypeOK
BY SessionTypeInit, SessionTypeStep, PTL DEF Spec

-----------------------------------------------------------------------------
(* The account's id.                                                         *)

\* Once the request of a call is out the session is known, unless another call dropped
\* it: the reason why a placement is filed under the account's id.
KnownUnlessDropped ==
    \A c \in Calls : pc[c] \in {"sent", "served"} /\ ~dropped[c] => session # NoToken

\* Each coroutine makes one call, so that what it asked for stays.
AsksOnce == \A c \in Calls : pc[c] = "idle" => call[c] = NoCall

AccountInv == TypeOK /\ OwnAccount /\ KnownUnlessDropped /\ AsksOnce

\* With a session the account's id is known.
LEMMA KnownIsOwn ==
    ASSUME UNCHANGED client, session' # NoToken
    PROVE  UserId' = Own /\ Own' = Own
BY DEF UserId, Own

\* What a step has to do for the invariant, when it files nothing.
LEMMA FilesNothing ==
    ASSUME AccountInv, TypeOK', UNCHANGED <<client, filed>>,
           \A v \in Users : account'[v] \in {account[v], NoId, Own},
           \A c \in Calls : dropped[c] => dropped'[c],
           \A c \in Calls : pc'[c] = "ok" => pc[c] = "ok",
           \A c \in Calls : pc'[c] = "idle" => pc[c] = "idle" /\ call'[c] = call[c],
           \A c \in Calls : call'[c] = call[c] \/ pc[c] = "idle",
           \A c \in Calls : pc'[c] \in {"sent", "served"} /\ ~dropped'[c] => session' # NoToken
    PROVE  AccountInv'
<1>1. Own' = Own
  BY DEF Own
<1>2. OwnOnTheWire'
  BY <1>1 DEF AccountInv, OwnAccount, OwnOnTheWire
<1>3. FiledUnlessDropped'
  BY <1>1 DEF AccountInv, OwnAccount, FiledUnlessDropped
<1>4. MisfiledOnlyByDrop'
  <2> SUFFICES ASSUME NEW e \in filed, e[1] # Own
               PROVE  /\ client.signer /\ ~client.explicit
                      /\ \E c \in Calls : call'[c] = [op |-> "place", key |-> e[2]] /\ dropped'[c]
    BY <1>1 DEF MisfiledOnlyByDrop
  <2>1. client.signer /\ ~client.explicit
    BY DEF AccountInv, OwnAccount, MisfiledOnlyByDrop
  <2>2. PICK c \in Calls : call[c] = [op |-> "place", key |-> e[2]] /\ dropped[c]
    BY DEF AccountInv, OwnAccount, MisfiledOnlyByDrop
  <2>3. call[c] # NoCall
    BY <2>2 DEF NoCall
  <2>4. call'[c] = call[c]
    BY <2>3 DEF AccountInv, AsksOnce
  <2> QED BY <2>1, <2>2, <2>4
<1>5. KnownUnlessDropped'
  BY DEF KnownUnlessDropped
<1>6. AsksOnce'
  BY DEF AccountInv, AsksOnce
<1> QED BY <1>2, <1>3, <1>4, <1>5, <1>6 DEF AccountInv, OwnAccount

\* What follows token(), the session being known by then.
LEMMA ProceedsOwn ==
    ASSUME AccountInv, TypeOK', NEW u \in Users, NEW t, Proceeds(u, t), session' # NoToken,
           UNCHANGED <<client, call, filed, dropped>>
    PROVE  AccountInv'
<1>1. UserId' = Own
  BY KnownIsOwn
<1>2. /\ \E s \in {"NotFoundError", "sent", "connect", "dialing"} : pc' = [pc EXCEPT ![u] = s]
      /\ \E a \in {account[u], NoId, Own} : account' = [account EXCEPT ![u] = a]
  <2>1. account = [account EXCEPT ![u] = account[u]]
    BY DEF AccountInv, TypeOK, UsersOK
  <2> QED BY <1>1, <2>1 DEF Proceeds, Goes, Ends, RequireUserId
<1>3. \A v \in Users : account'[v] \in {account[v], NoId, Own}
  BY <1>2 DEF AccountInv, TypeOK, UsersOK
<1>4. \A c \in Calls : pc'[c] \in {"ok", "idle"} => pc'[c] = pc[c]
  BY <1>2 DEF AccountInv, TypeOK, UsersOK, Users
<1> QED BY <1>3, <1>4, FilesNothing

\* One user moves on and the session stays, or goes with every request that is out noted.
LEMMA MovesKnown ==
    ASSUME AccountInv, TypeOK', NEW u \in Users, NEW s, s \notin {"ok", "idle"} \/ u \notin Calls,
           s = "served" => pc[u] = "sent",
           s # "sent", pc' = [pc EXCEPT ![u] = s], UNCHANGED <<client, filed, session, dropped>>,
           \E a \in {account[u], NoId} : account' = [account EXCEPT ![u] = a],
           call' = call \/ (pc[u] = "idle" /\ \E a : call' = [call EXCEPT ![u] = a])
    PROVE  AccountInv'
<1>1. \A v \in Users : account'[v] \in {account[v], NoId, Own}
  BY DEF AccountInv, TypeOK, UsersOK
<1>2. \A c \in Calls : pc'[c] \in {"ok", "idle"} => pc'[c] = pc[c] /\ c # u
  BY DEF AccountInv, TypeOK, UsersOK, Users
<1>3. \A c \in Calls : call'[c] = call[c] \/ (c = u /\ pc[c] = "idle")
  BY DEF AccountInv, TypeOK
<1>4. \A c \in Calls : pc'[c] \in {"sent", "served"} => pc[c] \in {"sent", "served"}
  BY DEF AccountInv, TypeOK, UsersOK, Users
<1>5. \A c \in Calls : pc'[c] \in {"sent", "served"} /\ ~dropped'[c] => session' # NoToken
  BY <1>4 DEF AccountInv, KnownUnlessDropped
<1> QED BY <1>1, <1>2, <1>3, <1>5, FilesNothing

\* Nothing was sent or filed at the beginning.
LEMMA AccountInit == Init => AccountInv
<1> SUFFICES ASSUME Init PROVE AccountInv
  OBVIOUS
<1>1. TypeOK
  BY SessionTypeInit
<1>2. \A u \in Users : account[u] = NoId /\ pc[u] = "idle"
  BY DEF Init
<1>3. filed = {} /\ \A c \in Calls : pc[c] = "idle" /\ call[c] = NoCall
  BY <1>2 DEF Init, Users
<1>4. OwnAccount
  BY <1>2, <1>3 DEF OwnAccount, OwnOnTheWire, FiledUnlessDropped, MisfiledOnlyByDrop
<1> QED BY <1>1, <1>3, <1>4 DEF AccountInv, KnownUnlessDropped, AsksOnce

\* An answer to a placement: its order is filed under the account's id if the session is
\* known, and otherwise the session was dropped while it was out.
LEMMA ReceiveOwn ==
    ASSUME AccountInv, TypeOK', NEW c \in Calls, Receive(c)
    PROVE  AccountInv'
<1>1. /\ pc[c] = "served"
      /\ pc' = [pc EXCEPT ![c] = "ok"]
      /\ account' = [account EXCEPT ![c] = NoId]
      /\ UNCHANGED <<client, session, call, dropped>>
  BY DEF Receive, Ends, Goes, auth
<1>2. TypeOK /\ UsersOK /\ c \in Users
  BY DEF AccountInv, TypeOK, Users
<1>3. Own' = Own
  BY <1>1 DEF Own
<1>4. /\ pc'[c] = "ok"
      /\ \A d \in Calls \ {c} : pc'[d] = pc[d]
  BY <1>1, <1>2 DEF UsersOK, Users
<1>5. UserId = Own \/ (session = NoToken /\ dropped[c] /\ client.signer /\ ~client.explicit)
  BY <1>1, <1>2 DEF UserId, Own, AccountInv, KnownUnlessDropped, TypeOK
<1>6. filed \subseteq filed'
  BY DEF Receive
<1>7. OwnOnTheWire'
  BY <1>1, <1>2, <1>3 DEF AccountInv, OwnAccount, OwnOnTheWire, UsersOK
<1>8. FiledUnlessDropped'
  <2> SUFFICES ASSUME NEW d \in Calls, call[d].op = "place", pc'[d] = "ok", ~dropped[d]
               PROVE  <<Own, call[d].key>> \in filed'
    BY <1>1, <1>3 DEF FiledUnlessDropped
  <2>1. CASE d = c
    <3>1. UserId = Own
      BY <1>1, <2>1 DEF AccountInv, KnownUnlessDropped, UserId, Own
    <3> QED BY <2>1, <3>1 DEF Receive
  <2>2. CASE d # c
    BY <1>4, <1>6, <2>2 DEF AccountInv, OwnAccount, FiledUnlessDropped
  <2> QED BY <2>1, <2>2
<1>9. MisfiledOnlyByDrop'
  <2> SUFFICES ASSUME NEW e \in filed', e[1] # Own
               PROVE  /\ client.signer /\ ~client.explicit
                      /\ \E d \in Calls : call[d] = [op |-> "place", key |-> e[2]] /\ dropped[d]
    BY <1>1, <1>3 DEF MisfiledOnlyByDrop
  <2>1. CASE e \in filed
    BY <2>1 DEF AccountInv, OwnAccount, MisfiledOnlyByDrop
  <2>2. CASE e \notin filed
    <3>1. call[c].op = "place" /\ e = <<UserId, call[c].key>>
      BY <2>2 DEF Receive
    <3>2. call[c] \in [op : Ops, key : Keys]
      BY <1>2, <3>1 DEF TypeOK, NoCall
    <3>3. call[c] = [op |-> "place", key |-> e[2]]
      BY <3>1, <3>2
    <3> QED BY <1>5, <3>1, <3>3
  <2> QED BY <2>1, <2>2
<1>10. KnownUnlessDropped'
  BY <1>1, <1>4 DEF AccountInv, KnownUnlessDropped
<1>11. AsksOnce'
  BY <1>1, <1>4 DEF AccountInv, AsksOnce
<1> QED BY <1>7, <1>8, <1>9, <1>10, <1>11 DEF AccountInv, OwnAccount

\* A call that ends otherwise.
LEMMA EndsOwn ==
    ASSUME AccountInv, TypeOK', NEW c \in Calls, NEW s \in {"raised", "NotFoundError"}, Ends(c, s),
           UNCHANGED <<client, session, call, filed, dropped>>
    PROVE  AccountInv'
<1>1. c \in Users
  BY DEF Users
<1> QED BY <1>1, MovesKnown DEF Ends, Goes

\* The first 401 of a call.
LEMMA DropOwn ==
    ASSUME AccountInv, TypeOK', NEW c \in Calls, Drop(c), pc' = [pc EXCEPT ![c] = "token"],
           UNCHANGED <<client, account, call, filed>>
    PROVE  AccountInv'
<1>1. \A d \in Calls : pc'[d] = IF d = c THEN "token" ELSE pc[d]
  BY DEF AccountInv, TypeOK, UsersOK, Users
<1>2. \A d \in Calls : dropped[d] => dropped'[d]
  BY DEF Drop, AccountInv, TypeOK
<1>3. \A d \in Calls : pc'[d] \in {"sent", "served"} /\ ~dropped'[d] => session' # NoToken
  BY <1>1 DEF Drop, AccountInv, KnownUnlessDropped
<1> QED BY <1>1, <1>2, <1>3, FilesNothing

\* Every step keeps the invariant.
LEMMA AccountStep == AccountInv /\ [Next]_vars => AccountInv'
<1> SUFFICES ASSUME AccountInv, [Next]_vars PROVE AccountInv'
  OBVIOUS
<1>t. TypeOK /\ UsersOK /\ TypeOK'
  BY SessionTypeStep DEF AccountInv, TypeOK
<1>b. Feed \in Users /\ Feed \notin Calls /\ Calls \subseteq Users
  BY SessionAssumption DEF Users
<1> USE DEF auth, sent
<1>1. ASSUME NEW u \in Users, Token(u) PROVE AccountInv'
  <2>1. /\ Proceeds(u, session) /\ session' # NoToken
        /\ UNCHANGED <<client, call, filed, dropped>>
    BY <1>1 DEF Token, Usable
  <2> QED BY <1>t, <2>1, ProceedsOwn
<1>2. ASSUME NEW u \in Users, Acquire(u) PROVE AccountInv'
  <2>1. UNCHANGED <<client, session, call, filed, dropped>> /\ pc[u] \in WantsToken
    BY <1>2 DEF Acquire
  <2>2. CASE client.signer
    <3>1. pc' = [pc EXCEPT ![u] = LogsIn(pc[u])] /\ UNCHANGED account
      BY <1>2, <2>2 DEF Acquire, Goes
    <3>2. LogsIn(pc[u]) \notin {"ok", "idle", "sent", "served"}
      BY <2>1 DEF LogsIn, WantsToken
    <3>3. account' = [account EXCEPT ![u] = account[u]]
      BY <1>t, <3>1 DEF UsersOK
    <3> QED BY <1>t, <2>1, <3>1, <3>2, <3>3, MovesKnown
  <2>3. CASE ~client.signer
    <3>1. Proceeds(u, session) /\ session' # NoToken
      BY <1>2, <1>t, <2>3 DEF Acquire, TypeOK
    <3> QED BY <1>t, <2>1, <3>1, ProceedsOwn
  <2> QED BY <2>2, <2>3
<1>3. ASSUME NEW u \in Users, LoggedIn(u) PROVE AccountInv'
  <2>1. held[u] = NoToken
    BY <1>3, <1>t, Whose DEF LoggedIn
  <2>2. NewToken # NoToken
    BY <1>t, <2>1, TokenFree
  <2>3. /\ Proceeds(u, NewToken) /\ session' # NoToken
        /\ UNCHANGED <<client, call, filed, dropped>>
    BY <1>3, <2>2 DEF LoggedIn, SessionFromApi
  <2> QED BY <1>t, <2>3, ProceedsOwn
<1>4. ASSUME NEW u \in Users, LoginFails(u) PROVE AccountInv'
  <2>1. UNCHANGED <<client, session, call, filed, dropped>>
    BY <1>4 DEF LoginFails
  <2>2. CASE u = Feed
    <3>1. /\ \E s \in {"backoff", "idle"} : pc' = [pc EXCEPT ![u] = s]
          /\ UNCHANGED account
      BY <1>4, <2>2 DEF LoginFails, Goes
    <3>2. account' = [account EXCEPT ![u] = account[u]]
      BY <1>t, <3>1 DEF UsersOK
    <3> QED BY <1>t, <1>b, <2>1, <2>2, <3>1, <3>2, MovesKnown
  <2>3. CASE u # Feed
    <3>1. u \in Calls /\ Ends(u, "raised")
      BY <1>4, <2>3 DEF LoginFails, Users
    <3> QED BY <1>t, <2>1, <3>1, EndsOwn
  <2> QED BY <2>2, <2>3
<1>5. ASSUME NEW c \in Calls, Begin(c) PROVE AccountInv'
  <2>1. /\ pc[c] = "idle" /\ pc' = [pc EXCEPT ![c] = "token"]
        /\ \E a : call' = [call EXCEPT ![c] = a]
        /\ UNCHANGED <<client, session, account, filed, dropped>>
    BY <1>5 DEF Begin, Goes
  <2>2. c \in Users /\ account' = [account EXCEPT ![c] = account[c]]
    BY <1>t, <1>b, <2>1 DEF UsersOK
  <2> QED BY <1>t, <2>1, <2>2, MovesKnown
<1>6. ASSUME NEW c \in Calls, Serve(c) PROVE AccountInv'
  <2>1. /\ pc[c] = "sent"
        /\ \E s \in {"served", "denied"} : pc' = [pc EXCEPT ![c] = s]
        /\ UNCHANGED <<client, session, call, account, filed, dropped>>
    BY <1>6 DEF Serve, Goes
  <2>2. c \in Users /\ account' = [account EXCEPT ![c] = account[c]]
    BY <1>t, <1>b, <2>1 DEF UsersOK
  <2> QED BY <1>t, <2>1, <2>2, MovesKnown
<1>7. ASSUME NEW c \in Calls, Receive(c) PROVE AccountInv'
  BY <1>7, <1>t, ReceiveOwn
<1>8. ASSUME NEW c \in Calls, ReceiveUnauthorized(c) PROVE AccountInv'
  <2>1. CASE again[c]
    <3>1. Ends(c, "raised") /\ UNCHANGED <<client, session, call, filed, dropped>>
      BY <1>8, <2>1 DEF ReceiveUnauthorized
    <3> QED BY <1>t, <3>1, EndsOwn
  <2>2. CASE ~again[c]
    <3>1. /\ Drop(c) /\ pc' = [pc EXCEPT ![c] = "token"]
          /\ UNCHANGED <<client, account, call, filed>>
      BY <1>8, <2>2 DEF ReceiveUnauthorized, Goes
    <3> QED BY <1>t, <3>1, DropOwn
  <2> QED BY <2>1, <2>2
<1>9. ASSUME NEW c \in Calls, Lost(c) PROVE AccountInv'
  <2>1. Ends(c, "raised") /\ UNCHANGED <<client, session, call, filed, dropped>>
    BY <1>9 DEF Lost
  <2> QED BY <1>t, <2>1, EndsOwn
<1>10. ASSUME Subscribe \/ Dial \/ Breaks \/ Wake PROVE AccountInv'
  <2>1. /\ \E s \in {"subscribe", "connect", "live", "backoff"} : pc' = [pc EXCEPT ![Feed] = s]
        /\ UNCHANGED <<client, session, call, account, filed, dropped>>
    BY <1>10 DEF Subscribe, Dial, Breaks, Wake, Goes
  <2>2. account' = [account EXCEPT ![Feed] = account[Feed]]
    BY <1>t, <2>1 DEF UsersOK
  <2> QED BY <1>t, <1>b, <2>1, <2>2, MovesKnown
<1>11. ASSUME Age \/ Revoke \/ UNCHANGED vars PROVE AccountInv'
  <2>1. /\ UNCHANGED <<client, session, call, account, filed, dropped>>
        /\ \A c \in Calls : pc'[c] = pc[c]
    BY <1>11, <1>t, <1>b DEF Age, Revoke, vars, UsersOK
  <2>2. \A c \in Calls : pc'[c] \in {"sent", "served"} /\ ~dropped'[c] => session' # NoToken
    BY <2>1 DEF AccountInv, KnownUnlessDropped
  <2> QED BY <1>t, <2>1, <2>2, FilesNothing
<1> QED BY <1>1, <1>2, <1>3, <1>4, <1>5, <1>6, <1>7, <1>8, <1>9, <1>10, <1>11 DEF Next, Quiet

(* auth.py:138, orders.py:420: for any number of calls and keys, however     *)
(* many logins, 401s and faults there are, the account's own id is the only  *)
(* one that is sent, and an order is filed under another one only by a       *)
(* placement during which another call's 401 dropped the session.            *)
THEOREM AccountIsOwn == Spec => []OwnAccount
<1>1. AccountInv => OwnAccount
  BY DEF AccountInv
<1> QED BY <1>1, AccountInit, AccountStep, PTL DEF Spec
=============================================================================
