----------------------------- MODULE Transport -----------------------------
(* The request path that every API call of the SDK goes through:            *)
(* AsyncHTTP.request (src/umbra/_http.py) with its retries, the one          *)
(* re-authentication after a 401, and Authenticator (src/umbra/auth.py),     *)
(* which shares one cached session and one asyncio.Lock between all calls.   *)
(*                                                                           *)
(* Each member of Calls is one coroutine started by the application.  A step *)
(* of the model is what a coroutine does between two awaits; the network and *)
(* the API server move in between.  A back-off sleep only lets others run,   *)
(* as waiting to send does, so it is not a state of its own.                 *)
EXTENDS Naturals

CONSTANTS
    Calls,      \* coroutines that use the client
    Retries,    \* ClientConfig.retries
    NoCall      \* nobody holds the authenticator's lock

ASSUME RetriesAssumption == Retries \in Nat
ASSUME NoCallAssumption == NoCall \notin Calls

VARIABLES
    canSign,    \* a private key or a signer was given
    hasWallet,  \* the wallet address is known
    kind,       \* what each call asks for
    pc,         \* where each coroutine is, or how it ended
    req,        \* the request its retry loop is working on
    attempt,    \* that loop's attempt counter
    tok,        \* token in the Authorization header, or in /auth/verify's answer
    rejected,   \* token the first 401 rejected: once set, _reauthed is True
    session,    \* the cached session's token, NoToken if there is none
    aging,      \* the cached session is within the refresh leeway
    lock,       \* holder of Authenticator._lock
    minted,     \* tokens the server has issued: 1..minted, in that order
    revoked,    \* tokens the server rejects
    effects,    \* how often the server has carried out each call's POST
    late        \* calls with an abandoned POST the server may yet get

NoToken == 0

\* "get" stands for what may be repeated: GET, DELETE, and a POST that carries a
\* client_order_id; "post" for a POST that may not; "public" for auth=False;
\* "login" for Authenticator.authenticate.
Kinds == {"get", "post", "public", "login"}

\* ConnectFailed is the NetworkError of a request that never left.
Errors == {"AuthenticationError", "ConfigurationError", "SignerError", "ConnectFailed",
           "NetworkError", "RateLimitError", "APIError", "ClientError", "CancelledError"}
Outcomes == {"ok"} \cup Errors
Awaiting == {"lock", "send", "sent", "served"}

creds == <<canSign, hasWallet, kind>>
loop == <<req, attempt, tok, rejected>>
server == <<minted, revoked, effects, late>>
vars == <<canSign, hasWallet, kind, pc, req, attempt, tok, rejected, session, aging, lock,
          minted, revoked, effects, late>>

(* Authenticator.__init__: a pre-minted token is a session from the start.   *)
Init ==
    /\ canSign \in BOOLEAN
    /\ hasWallet \in BOOLEAN
    /\ kind \in [Calls -> Kinds]
    /\ session \in {NoToken, 1}
    /\ minted = session
    /\ aging = FALSE
    /\ lock = NoCall
    /\ revoked = {}
    /\ pc = [c \in Calls |-> "new"]
    /\ req = [c \in Calls |-> "api"]
    /\ attempt = [c \in Calls |-> 0]
    /\ tok = [c \in Calls |-> NoToken]
    /\ rejected = [c \in Calls |-> NoToken]
    /\ effects = [c \in Calls |-> 0]
    /\ late = {}

Live(c) == pc[c] \in Awaiting
Authed(c) == kind[c] \in {"get", "post"}

\* Mutants of the definition that follows each, for the checks of the properties.
RepeatAnything(c) == TRUE
Idempotent(c) == req[c] = "api" /\ kind[c] \in {"get", "public"}

LockIgnored == TRUE
LockFree == lock = NoCall

KeptByRaise(c) == lock
LockAfter(c) == IF lock = c THEN NoCall ELSE lock

OneRetryTooMany(c) == attempt[c] <= Retries
MayRetry(c) == attempt[c] < Retries

SessionKept == session
\* Authenticator.invalidate: a session that cannot be replaced is kept.
Invalidated == IF canSign THEN NoToken ELSE session

Held == {session} \cup {tok[c] : c \in Calls}

(* request() is over: it returns, or an exception leaves it and, if it was   *)
(* raised by a login's request, also _login and the async with.  The         *)
(* coroutine's locals are gone.                                              *)
End(c, outcome) ==
    /\ pc' = [pc EXCEPT ![c] = outcome]
    /\ req' = [req EXCEPT ![c] = "api"]
    /\ attempt' = [attempt EXCEPT ![c] = 0]
    /\ tok' = [tok EXCEPT ![c] = NoToken]
    /\ rejected' = [rejected EXCEPT ![c] = NoToken]
    /\ lock' = LockAfter(c)

\* Enter the retry loop for the request r with the token t in its header.
Enter(c, r, t) ==
    /\ pc' = [pc EXCEPT ![c] = "send"]
    /\ req' = [req EXCEPT ![c] = r]
    /\ attempt' = [attempt EXCEPT ![c] = 0]
    /\ tok' = [tok EXCEPT ![c] = t]

Resend(c) ==
    /\ pc' = [pc EXCEPT ![c] = "send"]
    /\ attempt' = [attempt EXCEPT ![c] = @ + 1]
    /\ UNCHANGED <<req, tok, rejected, lock>>

RetryOrRaise(c, safe, error) ==
    IF safe /\ MayRetry(c) THEN Resend(c) ELSE End(c, error)

(* request() up to its first await, when it finds the session s and gets old *)
(* as the token already rejected: no token for auth=False; an error without  *)
(* any credential; the cached token unless it is about to expire; else the   *)
(* lock.                                                                     *)
Begin(c, s, old) ==
    \/ /\ kind[c] = "public"
       /\ Enter(c, "api", NoToken)
       /\ UNCHANGED <<rejected, lock>>
    \/ /\ Authed(c)
       /\ s = NoToken /\ ~canSign
       /\ End(c, "AuthenticationError")
    \/ /\ Authed(c)
       /\ s # NoToken /\ ~aging
       /\ Enter(c, "api", s)
       /\ rejected' = [rejected EXCEPT ![c] = old]
       /\ UNCHANGED lock
    \/ /\ kind[c] = "login" \/ (Authed(c) /\ IF s = NoToken THEN canSign ELSE aging)
       /\ pc' = [pc EXCEPT ![c] = "lock"]
       /\ attempt' = [attempt EXCEPT ![c] = 0]
       /\ tok' = [tok EXCEPT ![c] = NoToken]
       /\ rejected' = [rejected EXCEPT ![c] = old]
       /\ UNCHANGED <<req, lock>>

Start(c) ==
    /\ pc[c] = "new"
    /\ Begin(c, session, NoToken)
    /\ UNCHANGED <<creds, session, aging, server>>

(* token() and authenticate() from the moment they get the lock: look at the *)
(* session again, keep one that cannot be refreshed, else start a login.     *)
Acquire(c) ==
    /\ pc[c] = "lock"
    /\ LockFree
    /\ IF kind[c] # "login" /\ session # NoToken /\ (~aging \/ ~canSign)
         THEN Enter(c, "api", session) /\ UNCHANGED <<rejected, lock>>
         ELSE \/ ~hasWallet /\ End(c, "ConfigurationError")
              \/ hasWallet /\ ~canSign /\ End(c, "AuthenticationError")
              \/ /\ hasWallet /\ canSign
                 /\ Enter(c, "nonce", NoToken)
                 /\ lock' = c
                 /\ UNCHANGED rejected
    /\ UNCHANGED <<creds, session, aging, server>>

-----------------------------------------------------------------------------
(* The network and the API server.                                           *)

Send(c) ==
    /\ pc[c] = "send"
    /\ pc' = [pc EXCEPT ![c] = "sent"]
    /\ UNCHANGED <<creds, loop, session, aging, lock, server>>

\* Only the effects of a POST that may not be repeated are counted.
CarryOut(c) ==
    effects' = [effects EXCEPT ![c] = IF kind[c] = "post" THEN @ + 1 ELSE @]

Serve(c) ==
    /\ pc[c] = "sent"
    /\ pc' = [pc EXCEPT ![c] = "served"]
    /\ \/ /\ req[c] = "api"
          /\ Authed(c) => tok[c] \notin revoked
          /\ CarryOut(c)
          /\ UNCHANGED <<tok, minted>>
       \/ /\ req[c] = "nonce"
          /\ UNCHANGED <<tok, minted, effects>>
       \/ /\ req[c] = "verify"
          /\ minted' = minted + 1
          /\ tok' = [tok EXCEPT ![c] = minted + 1]
          /\ UNCHANGED effects
    /\ UNCHANGED <<creds, req, attempt, rejected, session, aging, lock, revoked, late>>

\* A request the client gave up on reaches the server after all.
ServeLate(c) ==
    /\ c \in late
    /\ late' = late \ {c}
    /\ CarryOut(c)
    /\ UNCHANGED <<creds, pc, loop, session, aging, lock, minted, revoked>>

\* The server stops accepting a token: it expired or was revoked.
Revoke ==
    /\ \E t \in Held \ (revoked \cup {NoToken}) : revoked' = revoked \cup {t}
    /\ UNCHANGED <<creds, pc, loop, session, aging, lock, minted, effects, late>>

\* The clock reaches the session's expires_at minus the leeway.
Age ==
    /\ session # NoToken
    /\ ~aging
    /\ aging' = TRUE
    /\ UNCHANGED <<creds, pc, loop, session, lock, server>>

-----------------------------------------------------------------------------
(* What the retry loop does with each result of an attempt.                  *)

\* httpx.ConnectError, ConnectTimeout: never delivered, any request is retried.
ConnectError(c) ==
    /\ pc[c] = "send"
    /\ RetryOrRaise(c, TRUE, "ConnectFailed")
    /\ UNCHANGED <<creds, session, aging, server>>

\* The client stops waiting for a POST that the server may still get.
Abandon(c) ==
    /\ late' = IF pc[c] = "sent" /\ req[c] = "api" /\ kind[c] = "post"
                 THEN late \cup {c} ELSE late
    /\ UNCHANGED <<minted, revoked, effects>>

TimeoutTakenForConnect(c) ==
    /\ pc[c] \in {"sent", "served"}
    /\ Abandon(c)
    /\ RetryOrRaise(c, Idempotent(c), "ConnectFailed")
    /\ UNCHANGED <<creds, session, aging>>

\* httpx.TimeoutException: only an idempotent request is sent again.
Timeout(c) ==
    /\ pc[c] \in {"sent", "served"}
    /\ Abandon(c)
    /\ RetryOrRaise(c, Idempotent(c), "NetworkError")
    /\ UNCHANGED <<creds, session, aging>>

\* Any other httpx.HTTPError is final.
TransportError(c) ==
    /\ pc[c] \in {"sent", "served"}
    /\ Abandon(c)
    /\ End(c, "NetworkError")
    /\ UNCHANGED <<creds, session, aging>>

\* The challenge is signed and sent to /auth/verify; the signer may raise.
ReceiveNonce(c) ==
    /\ pc[c] = "served"
    /\ req[c] = "nonce"
    /\ \/ Enter(c, "verify", NoToken) /\ UNCHANGED <<rejected, lock>>
       \/ End(c, "SignerError")
    /\ UNCHANGED <<creds, session, aging, server>>

\* The session is installed, the lock released and, unless the call was a forced
\* login, the API request goes out with the new token.
ReceiveSession(c) ==
    /\ pc[c] = "served"
    /\ req[c] = "verify"
    /\ session' = tok[c]
    /\ aging' = FALSE
    /\ IF kind[c] = "login"
         THEN End(c, "ok")
         ELSE Enter(c, "api", tok[c]) /\ lock' = LockAfter(c) /\ UNCHANGED rejected
    /\ UNCHANGED <<creds, server>>

ReceiveOk(c) ==
    /\ pc[c] = "served"
    /\ req[c] = "api"
    /\ End(c, "ok")
    /\ UNCHANGED <<creds, session, aging, server>>

\* A 401: the first one of an authenticated request drops the session and starts
\* the request over.
ReceiveUnauthorized(c) ==
    /\ pc[c] = "sent"
    /\ req[c] = "api" => Authed(c) /\ tok[c] \in revoked
    /\ IF req[c] = "api" /\ rejected[c] = NoToken
         THEN /\ session' = Invalidated
              /\ aging' = (aging /\ ~canSign)
              /\ Begin(c, Invalidated, tok[c])
         ELSE /\ End(c, "AuthenticationError")
              /\ UNCHANGED <<session, aging>>
    /\ UNCHANGED <<creds, server>>

\* A 429: retried whatever the request is, the server has not acted on it.
ReceiveLimited(c) ==
    /\ pc[c] = "sent"
    /\ RetryOrRaise(c, TRUE, "RateLimitError")
    /\ UNCHANGED <<creds, session, aging, server>>

\* A 500, 502, 503 or 504: the server may or may not have acted.
ReceiveFailed(c) ==
    /\ pc[c] \in {"sent", "served"}
    /\ RetryOrRaise(c, Idempotent(c), "APIError")
    /\ UNCHANGED <<creds, session, aging, server>>

\* Any other status of 400 and above that refuses the request.
ReceiveRefused(c) ==
    /\ pc[c] = "sent"
    /\ End(c, "ClientError")
    /\ UNCHANGED <<creds, session, aging, server>>

\* The application cancels the coroutine (asyncio.wait_for, Task.cancel).
Cancel(c) ==
    /\ Live(c)
    /\ Abandon(c)
    /\ End(c, "CancelledError")
    /\ UNCHANGED <<creds, session, aging>>

-----------------------------------------------------------------------------
Receive(c) ==
    \/ ReceiveNonce(c) \/ ReceiveSession(c) \/ ReceiveOk(c) \/ ReceiveUnauthorized(c)
    \/ ReceiveLimited(c) \/ ReceiveFailed(c) \/ ReceiveRefused(c)

Advance(c) ==
    \/ Acquire(c) \/ Send(c) \/ ConnectError(c) \/ Receive(c) \/ Timeout(c)
    \/ TransportError(c)

Finished == (\A c \in Calls : pc[c] \in Outcomes) /\ UNCHANGED vars

Next ==
    \/ \E c \in Calls :
         Start(c) \/ Advance(c) \/ Cancel(c) \/ Serve(c) \/ ServeLate(c)
    \/ Revoke
    \/ Age
    \/ Finished

\* The event loop runs every coroutine that can run, and httpx bounds each wait
\* for the network by its timeout.
Fairness == \A c \in Calls : WF_vars(Advance(c))

Spec == Init /\ [][Next]_vars /\ Fairness

-----------------------------------------------------------------------------
TypeOK ==
    /\ canSign \in BOOLEAN
    /\ hasWallet \in BOOLEAN
    /\ kind \in [Calls -> Kinds]
    /\ pc \in [Calls -> {"new"} \cup Awaiting \cup Outcomes]
    /\ req \in [Calls -> {"api", "nonce", "verify"}]
    /\ attempt \in [Calls -> 0..Retries]
    /\ tok \in [Calls -> 0..minted]
    /\ rejected \in [Calls -> 0..minted]
    /\ session \in 0..minted
    /\ aging \in BOOLEAN
    /\ lock \in Calls \cup {NoCall}
    /\ minted \in Nat
    /\ revoked \subseteq 1..minted
    /\ effects \in [Calls -> Nat]
    /\ late \subseteq Calls

(* The server never carries out a POST twice, not even when one that the     *)
(* client gave up on arrives late: the loop repeats it only after a refused  *)
(* connection, a 429 or a 401 (AsyncHTTP.request).                           *)
AtMostOnce ==
    \A c \in Calls : kind[c] = "post" => effects[c] + (IF c \in late THEN 1 ELSE 0) <= 1

Refusals == {"AuthenticationError", "ConfigurationError", "SignerError", "ConnectFailed",
             "RateLimitError", "ClientError"}

(* What a POST tells its caller is what happened: it returns only after it   *)
(* was carried out, and an error that says it was refused or never left is   *)
(* raised only if it was not carried out and no copy of it is under way.     *)
OutcomeTruthful ==
    \A c \in Calls : kind[c] = "post" =>
        /\ pc[c] = "ok" => effects[c] = 1
        /\ pc[c] \in Refusals => effects[c] = 0 /\ c \notin late

LoggingIn(c) == Live(c) /\ req[c] # "api"

(* A login's nonce and verify requests are in progress for the holder of     *)
(* Authenticator._lock and for nobody else, and nobody holds the lock for    *)
(* anything else: after an error, a cancellation or a login it is free.      *)
OneLogin == \A c \in Calls : LoggingIn(c) <=> lock = c

(* Logins never install a token older than one a request already carries: a  *)
(* slow login cannot put an old session over a newer one.                    *)
SessionNewest ==
    session # NoToken => \A c \in Calls : req[c] = "api" => tok[c] <= session

(* With a signer the second round after a 401 carries a newer token than the *)
(* rejected one, so an AuthenticationError means that two tokens failed,     *)
(* however the logins and 401s of other calls interleave with it.            *)
FreshRetry ==
    \A c \in Calls :
        canSign /\ rejected[c] # NoToken /\ tok[c] # NoToken /\ req[c] = "api"
            => rejected[c] < tok[c]

(* Every call that is started ends: no call waits for ever for the lock, the *)
(* network or another call's login, and the retries run out.                 *)
Settles == \A c \in Calls : pc[c] # "new" ~> pc[c] \in Outcomes

Verdict(c) ==
    CASE pc[c] = "ok" -> "ok"
      [] pc[c] \in Refusals -> "refused"
      [] pc[c] \in {"NetworkError", "APIError", "CancelledError"} -> "unknown"
      [] OTHER -> "open"

(* The request path implements RemoteCall.                                   *)
Remote == INSTANCE RemoteCall WITH
    posts <- {c \in Calls : kind[c] = "post"},
    verdict <- [c \in Calls |-> Verdict(c)]

RemoteSpec == Remote!Spec
=============================================================================
