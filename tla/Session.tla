------------------------------ MODULE Session -------------------------------
(* One session used by everything at once: requests of src/umbra/orders.py   *)
(* that need the account id (auth.py), the dict that files an order under    *)
(* account and client order id, and the private feed (websocket.py), which   *)
(* asks for a token whenever it connects.  The retry loop of a request is in *)
(* Transport, a feed's other endings in Feeds, the dict's orders in Orders.  *)
EXTENDS Naturals, FiniteSets

CONSTANTS
    Calls,      \* coroutines, each makes one call
    Keys,       \* client order ids
    Feed,       \* the private feed's subscription and task
    NoOne,      \* not a coroutine: holds the lock when it is free
    MaxFaults   \* bound: revocations, drops and failures, all together

ASSUME SessionAssumption ==
    /\ IsFiniteSet(Calls)
    /\ Feed \notin Calls /\ NoOne \notin Calls \cup {Feed}
    /\ MaxFaults \in Nat

VARIABLES
    client,     \* how the client was made
    session,    \* Authenticator._session: its token, or NoToken
    lasting,    \* the session has no expires_at
    expiring,   \* the session is within its last minute
    valid,      \* the tokens that the server accepts
    lock,       \* Authenticator._lock
    call,       \* what each coroutine asked for
    pc,         \* the await that each coroutine, or the feed, is in
    held,       \* the token it sent
    account,    \* the account id it sent
    again,      \* its request is the second one, after a 401
    filed,      \* the keys of Orders._coid_to_oid: account id, client order id
    dropped,    \* history: the session was dropped while this call's request was out
    faults      \* how many faults there were

vars == <<client, session, lasting, expiring, valid, lock, call, pc, held, account, again,
          filed, dropped, faults>>
auth == <<session, lasting, expiring, valid, lock>>
sent == <<held, account>>

Users == Calls \cup {Feed}

\* A token that nobody holds any longer is forgotten, and its number used again.
NoToken == 0
Tokens == 1..(Cardinality(Users) + 1)
InUse == {session} \cup {held[u] : u \in Users}
NewToken == CHOOSE t \in Tokens : t \notin InUse

Ops == {"place", "cancel_by_client_id", "read"}
NoCall == [op |-> "none", key |-> "none"]
Ids == {"explicit", "account", "address"}
NoId == "none"

\* A client has a signer or a token, or both; and perhaps an explicit user_id.  A token's
\* claims may lack exp, as the answer to a login may lack expires_at.
Init ==
    /\ client \in [signer : BOOLEAN, explicit : BOOLEAN]
    /\ session \in {NoToken, 1}
    /\ client.signer \/ session # NoToken
    /\ lasting \in {FALSE, session # NoToken}
    /\ expiring = FALSE
    /\ valid = {session} \ {NoToken}
    /\ lock = NoOne
    /\ call = [c \in Calls |-> NoCall]
    /\ pc = [u \in Users |-> "idle"]
    /\ held = [u \in Users |-> NoToken]
    /\ account = [u \in Users |-> NoId]
    /\ again = [c \in Calls |-> FALSE]
    /\ filed = {}
    /\ dropped = [c \in Calls |-> FALSE]
    /\ faults = 0

Goes(u, s) == pc' = [pc EXCEPT ![u] = s]

\* A call ends: its request, if it made one, is out no longer.
Ends(c, s) ==
    /\ Goes(c, s)
    /\ held' = [held EXCEPT ![c] = NoToken]
    /\ account' = [account EXCEPT ![c] = NoId]
    /\ again' = [again EXCEPT ![c] = FALSE]

Fault == faults < MaxFaults /\ faults' = faults + 1

-----------------------------------------------------------------------------
(* The Authenticator.                                                        *)

\* user_id: with no session, the wallet address stands in for the account id.
UserId ==
    IF client.explicit THEN "explicit"
    ELSE IF session # NoToken THEN "account" ELSE "address"

\* What require_user_id returns: user_id, read once token() has returned.
ReadBeforeToken(u) == account' = [account EXCEPT ![u] = UserId]
RequireUserId(u) == account' = [account EXCEPT ![u] = UserId']

\* cancel_order_by_client_id, before it sends anything.
NotFound(c) ==
    /\ call[c].op = "cancel_by_client_id" /\ ~again[c]
    /\ <<UserId', call[c].key>> \notin filed

Usable == session # NoToken /\ ~expiring

\* What follows token(), up to the next await, with the token t: the request, after the
\* look in the dict that cancel_order_by_client_id begins with; the start of the feed;
\* its connection.
Proceeds(u, t) ==
    \/ /\ pc[u] \in {"token", "login"}
       /\ IF NotFound(u)
            THEN Ends(u, "NotFoundError")
            ELSE /\ Goes(u, "sent")
                 /\ held' = [held EXCEPT ![u] = t]
                 /\ IF call[u].op = "place" \/ again[u] THEN UNCHANGED account ELSE RequireUserId(u)
                 /\ UNCHANGED again
    \/ /\ pc[u] \in {"subscribe", "subscribe login"}
       /\ RequireUserId(u)
       /\ Goes(u, "connect")
       /\ UNCHANGED <<held, again>>
    \/ /\ pc[u] \in {"connect", "connect login"}
       /\ Goes(u, "dialing")
       /\ held' = [held EXCEPT ![u] = t]
       /\ UNCHANGED <<account, again>>

WantsToken == {"token", "subscribe", "connect"}
LogsIn(s) == CASE s = "token" -> "login"
               [] s = "subscribe" -> "subscribe login"
               [] s = "connect" -> "connect login"
LoggingIn == {"login", "subscribe login", "connect login"}

Token(u) ==
    /\ pc[u] \in WantsToken
    /\ Usable
    /\ UNCHANGED <<client, call, filed, dropped, faults>>
    /\ UNCHANGED auth
    /\ Proceeds(u, session)

\* Inside the lock: a token that cannot be renewed is used as it is, else a login begins.
Acquire(u) ==
    /\ pc[u] \in WantsToken
    /\ ~Usable /\ lock = NoOne
    /\ UNCHANGED <<client, call, filed, dropped, faults>>
    /\ IF client.signer
         THEN /\ lock' = u
              /\ Goes(u, LogsIn(pc[u]))
              /\ UNCHANGED <<session, lasting, expiring, valid, sent, again>>
         ELSE UNCHANGED auth /\ Proceeds(u, session)

\* async with gives the lock back, also when the login raises.
KeptByRaise(u) == UNCHANGED lock
LockAfterRaise(u) == lock' = NoOne

\* The session made of the answer to /auth/verify, which may lack expires_at.
SessionFromApi ==
    /\ session' = NewToken
    /\ lasting' \in BOOLEAN
    /\ expiring' = FALSE

LoggedIn(u) ==
    /\ pc[u] \in LoggingIn
    /\ UNCHANGED <<client, call, filed, dropped, faults>>
    /\ SessionFromApi
    /\ valid' = (valid \cap InUse) \cup {NewToken}
    /\ lock' = NoOne
    /\ Proceeds(u, NewToken)

\* The call raises, the subscription too; a feed's task backs off.
LoginFails(u) ==
    /\ pc[u] \in LoggingIn
    /\ Fault
    /\ LockAfterRaise(u)
    /\ IF u = Feed
         THEN /\ Goes(u, IF pc[u] = "connect login" THEN "backoff" ELSE "idle")
              /\ UNCHANGED <<sent, again>>
         ELSE Ends(u, "raised")
    /\ UNCHANGED <<client, session, lasting, expiring, valid, call, filed, dropped>>

\* invalidate, which keeps what it cannot replace; the other requests that are out are
\* noted.
Drop(c) ==
    IF client.signer /\ session # NoToken
      THEN /\ session' = NoToken
           /\ lasting' = FALSE /\ expiring' = FALSE
           /\ dropped' = [d \in Calls |-> \/ dropped[d]
                                          \/ d # c /\ pc[d] \in {"sent", "served", "denied"}]
      ELSE UNCHANGED <<session, lasting, expiring, dropped>>

-----------------------------------------------------------------------------
(* Calls.                                                                    *)

Begin(c) ==
    /\ pc[c] = "idle"
    /\ \E op \in Ops, k \in Keys : call' = [call EXCEPT ![c] = [op |-> op, key |-> k]]
    /\ Goes(c, "token")
    /\ UNCHANGED <<client, auth, sent, again, filed, dropped, faults>>

Serve(c) ==
    /\ pc[c] = "sent"
    /\ Goes(c, IF held[c] \in valid THEN "served" ELSE "denied")
    /\ UNCHANGED <<client, auth, call, sent, again, filed, dropped, faults>>

\* _remember files an order under the account id as it is known by then.
Receive(c) ==
    /\ pc[c] = "served"
    /\ Ends(c, "ok")
    /\ filed' = IF call[c].op = "place" THEN filed \cup {<<UserId, call[c].key>>} ELSE filed
    /\ UNCHANGED <<client, auth, call, dropped, faults>>

\* A 401: once, the session is dropped and the request made again.
ReceiveUnauthorized(c) ==
    /\ pc[c] = "denied"
    /\ IF again[c]
         THEN Ends(c, "raised") /\ UNCHANGED <<session, lasting, expiring, dropped>>
         ELSE /\ Drop(c)
              /\ Goes(c, "token")
              /\ held' = [held EXCEPT ![c] = NoToken]
              /\ again' = [again EXCEPT ![c] = TRUE]
              /\ UNCHANGED account
    /\ UNCHANGED <<client, valid, lock, call, filed, faults>>

Lost(c) ==
    /\ pc[c] \in {"sent", "served", "denied"}
    /\ Ends(c, "raised")
    /\ UNCHANGED <<client, auth, call, filed, dropped, faults>>

-----------------------------------------------------------------------------
(* The private feed.                                                         *)

Subscribe ==
    /\ pc[Feed] = "idle"
    /\ Goes(Feed, "subscribe")
    /\ UNCHANGED <<client, auth, call, sent, again, filed, dropped, faults>>

\* The server looks at the token when a connection is opened.
Dial ==
    /\ pc[Feed] = "dialing"
    /\ Goes(Feed, IF held[Feed] \in valid THEN "live" ELSE "backoff")
    /\ held' = [held EXCEPT ![Feed] = NoToken]
    /\ UNCHANGED <<client, auth, call, account, again, filed, dropped, faults>>

\* No connection, or the one there is breaks, or is silent and closed without a delay.
Breaks ==
    /\ pc[Feed] \in {"dialing", "live"}
    /\ Fault
    /\ \/ Goes(Feed, "backoff")
       \/ pc[Feed] = "live" /\ Goes(Feed, "connect")
    /\ held' = [held EXCEPT ![Feed] = NoToken]
    /\ UNCHANGED <<client, auth, call, account, again, filed, dropped>>

Wake ==
    /\ pc[Feed] = "backoff"
    /\ Goes(Feed, "connect")
    /\ UNCHANGED <<client, auth, call, sent, again, filed, dropped, faults>>

-----------------------------------------------------------------------------
(* Time and the server.                                                      *)

\* _is_expiring: a session without expires_at never is.
Age ==
    /\ session # NoToken /\ ~lasting /\ ~expiring
    /\ expiring' = TRUE
    /\ UNCHANGED <<client, session, lasting, valid, lock, call, pc, sent, again, filed, dropped,
                   faults>>

\* A token is revoked; the server may close a feed that was opened with it.
Revoke ==
    /\ Fault
    /\ \E t \in valid \cap InUse : valid' = valid \ {t}
    /\ pc' \in {pc} \cup {[pc EXCEPT ![Feed] = IF @ = "live" THEN "backoff" ELSE @]}
    /\ UNCHANGED <<client, session, lasting, expiring, lock, call, sent, again, filed, dropped>>

Quiet == UNCHANGED vars

Request(c) == Serve(c) \/ Receive(c) \/ ReceiveUnauthorized(c)
TokenSteps(u) == Token(u) \/ Acquire(u)

Next ==
    \/ \E u \in Users : Token(u) \/ Acquire(u) \/ LoggedIn(u) \/ LoginFails(u)
    \/ \E c \in Calls :
         Begin(c) \/ Serve(c) \/ Receive(c) \/ ReceiveUnauthorized(c) \/ Lost(c)
    \/ Subscribe \/ Dial \/ Breaks \/ Wake
    \/ Age \/ Revoke
    \/ Quiet

\* Requests and logins are answered, the loop runs what can run, and a session that has an
\* expires_at grows old.
Fairness ==
    /\ \A u \in Users : WF_vars(TokenSteps(u)) /\ WF_vars(LoggedIn(u))
    /\ \A c \in Calls : WF_vars(Request(c))
    /\ WF_vars(Dial) /\ WF_vars(Wake) /\ WF_vars(Age)

Spec == Init /\ [][Next]_vars /\ Fairness

-----------------------------------------------------------------------------
CallStates == {"idle", "token", "login", "sent", "served", "denied", "ok", "raised",
               "NotFoundError"}
FeedStates == {"idle", "subscribe", "subscribe login", "connect", "connect login", "dialing",
               "live", "backoff"}

\* What each user is doing, and the lock.
UsersOK ==
    /\ pc \in [Users -> CallStates \cup FeedStates]
    /\ pc[Feed] \in FeedStates
    /\ \A c \in Calls : pc[c] \in CallStates
    /\ lock \in Users \cup {NoOne}
    /\ \A u \in Users : lock = u <=> pc[u] \in LoggingIn
    /\ held \in [Users -> Tokens \cup {NoToken}]
    /\ \A u \in Users : held[u] # NoToken => pc[u] \in {"sent", "served", "denied", "dialing"}
    /\ account \in [Users -> Ids \cup {NoId}]

TypeOK ==
    /\ UsersOK
    /\ client \in [signer : BOOLEAN, explicit : BOOLEAN]
    /\ session \in Tokens \cup {NoToken}
    /\ client.signer \/ session # NoToken
    /\ lasting \in BOOLEAN /\ expiring \in BOOLEAN
    /\ lasting => ~expiring
    /\ valid \subseteq Tokens
    /\ call \in [Calls -> [op : Ops, key : Keys] \cup {NoCall}]
    /\ again \in [Calls -> BOOLEAN]
    /\ filed \subseteq Ids \X Keys
    /\ dropped \in [Calls -> BOOLEAN]
    /\ faults \in 0..MaxFaults

\* The account's id on this client.
Own == IF client.explicit THEN "explicit" ELSE "account"

\* auth.py:138: every account id that is sent is the account's, whatever the session was
\* when the call or the subscription began.
OwnOnTheWire == \A u \in Users : account[u] \in {NoId, Own}

\* orders.py:420: an order that was placed can be canceled by its client order id, unless
\* another call's 401 dropped the session while the placement was out.
FiledUnlessDropped ==
    \A c \in Calls :
        call[c].op = "place" /\ pc[c] = "ok" /\ ~dropped[c] => <<Own, call[c].key>> \in filed

\* Nothing else files an order under another id, and with an explicit user_id, or a token
\* that cannot be replaced, nothing does.
MisfiledOnlyByDrop ==
    \A e \in filed : e[1] # Own =>
        /\ client.signer /\ ~client.explicit
        /\ \E c \in Calls : call[c] = [op |-> "place", key |-> e[2]] /\ dropped[c]

(* auth.py:105-144 with orders.py:415-422 and websocket.py:255: the three    *)
(* uses of the account id agree on it across logins, 401s of other calls and *)
(* concurrent calls, with the one exception that MisfiledOnlyByDrop names.   *)
OwnAccount == OwnOnTheWire /\ FiledUnlessDropped /\ MisfiledOnlyByDrop

\* A session that the server accepts no longer, and that no client replaces by itself.
Stale == lasting /\ session \notin valid

=============================================================================
