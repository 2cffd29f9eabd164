-------------------------- MODULE TransportProofs --------------------------
(* The safety properties of Transport, for any set of calls and any number   *)
(* of retries.                                                               *)
EXTENDS Transport, TLAPS

USE DEF NoToken

(* The variables every step of request() takes its next values from: three   *)
(* ways to leave an action.                                                  *)
LEMMA EndType ==
    ASSUME TypeOK, NEW c \in Calls, NEW o \in Outcomes, End(c, o)
    PROVE  /\ pc' \in [Calls -> {"new"} \cup Awaiting \cup Outcomes]
           /\ req' \in [Calls -> {"api", "nonce", "verify"}]
           /\ attempt' \in [Calls -> 0..Retries]
           /\ tok' \in [Calls -> 0..minted]
           /\ rejected' \in [Calls -> 0..minted]
           /\ lock' \in Calls \cup {NoCall}
BY RetriesAssumption DEF TypeOK, End, LockAfter

\* Entering the retry loop keeps the types.
LEMMA EnterType ==
    ASSUME TypeOK, NEW c \in Calls, NEW r \in {"api", "nonce", "verify"},
           NEW t \in 0..minted, Enter(c, r, t)
    PROVE  /\ pc' \in [Calls -> {"new"} \cup Awaiting \cup Outcomes]
           /\ req' \in [Calls -> {"api", "nonce", "verify"}]
           /\ attempt' \in [Calls -> 0..Retries]
           /\ tok' \in [Calls -> 0..minted]
BY RetriesAssumption DEF TypeOK, Enter, Awaiting

\* Retrying or giving up keeps the types: the counter only grows below Retries.
LEMMA RetryType ==
    ASSUME TypeOK, NEW c \in Calls, NEW safe, NEW o \in Outcomes, RetryOrRaise(c, safe, o)
    PROVE  /\ pc' \in [Calls -> {"new"} \cup Awaiting \cup Outcomes]
           /\ req' \in [Calls -> {"api", "nonce", "verify"}]
           /\ attempt' \in [Calls -> 0..Retries]
           /\ tok' \in [Calls -> 0..minted]
           /\ rejected' \in [Calls -> 0..minted]
           /\ lock' \in Calls \cup {NoCall}
<1>1. CASE safe /\ MayRetry(c)
  BY <1>1, RetriesAssumption DEF TypeOK, RetryOrRaise, Resend, MayRetry, Awaiting
<1>2. CASE ~(safe /\ MayRetry(c))
  BY <1>2, EndType DEF RetryOrRaise
<1> QED BY <1>1, <1>2

\* The start of request() keeps the types, whatever session it finds.
LEMMA BeginType ==
    ASSUME TypeOK, NEW c \in Calls, NEW s \in 0..minted, NEW old \in 0..minted,
           Begin(c, s, old)
    PROVE  /\ pc' \in [Calls -> {"new"} \cup Awaiting \cup Outcomes]
           /\ req' \in [Calls -> {"api", "nonce", "verify"}]
           /\ attempt' \in [Calls -> 0..Retries]
           /\ tok' \in [Calls -> 0..minted]
           /\ rejected' \in [Calls -> 0..minted]
           /\ lock' \in Calls \cup {NoCall}
<1> 0 \in 0..minted
  BY DEF TypeOK
<1>1. CASE kind[c] = "public" /\ Enter(c, "api", NoToken) /\ UNCHANGED <<rejected, lock>>
  BY <1>1, EnterType DEF TypeOK
<1>2. CASE End(c, "AuthenticationError")
  BY <1>2, EndType DEF Outcomes, Errors
<1>3. CASE /\ Enter(c, "api", s)
           /\ rejected' = [rejected EXCEPT ![c] = old]
           /\ UNCHANGED lock
  BY <1>3, EnterType DEF TypeOK
<1>4. CASE /\ pc' = [pc EXCEPT ![c] = "lock"]
           /\ attempt' = [attempt EXCEPT ![c] = 0]
           /\ tok' = [tok EXCEPT ![c] = NoToken]
           /\ rejected' = [rejected EXCEPT ![c] = old]
           /\ UNCHANGED <<req, lock>>
  BY <1>4, RetriesAssumption DEF TypeOK, Awaiting
<1> QED BY <1>1, <1>2, <1>3, <1>4 DEF Begin

\* The initial states have the declared types.
LEMMA TypeInit == Init => TypeOK
<1> SUFFICES ASSUME Init PROVE TypeOK
  OBVIOUS
<1>1. minted \in Nat /\ session \in 0..minted /\ 0 \in 0..minted /\ 0 \in 0..Retries
  BY RetriesAssumption DEF Init
<1>2. revoked \subseteq 1..minted /\ late \subseteq Calls /\ lock \in Calls \cup {NoCall}
  BY DEF Init
<1> QED BY <1>1, <1>2 DEF Init, TypeOK

\* Every step keeps the types.
LEMMA TypeStep == TypeOK /\ [Next]_vars => TypeOK'
<1> SUFFICES ASSUME TypeOK, [Next]_vars PROVE TypeOK'
  OBVIOUS
<1> USE DEF creds, loop, server
<1>a. Outcomes = {"ok", "AuthenticationError", "ConfigurationError", "SignerError",
                  "ConnectFailed", "NetworkError", "RateLimitError", "APIError",
                  "ClientError", "CancelledError"}
  BY DEF Outcomes, Errors
<1>b. 0 \in 0..minted /\ session \in 0..minted /\ Invalidated \in 0..minted
  BY DEF TypeOK, Invalidated
<1>1. ASSUME NEW c \in Calls, Start(c) PROVE TypeOK'
  <2>1. Begin(c, session, NoToken) /\ UNCHANGED <<creds, session, aging, server>>
    BY <1>1 DEF Start
  <2> QED BY <2>1, BeginType, <1>b DEF TypeOK
<1>2. ASSUME NEW c \in Calls, Acquire(c) PROVE TypeOK'
  <2>1. UNCHANGED <<creds, session, aging, server>>
    BY <1>2 DEF Acquire
  <2>2. CASE Enter(c, "api", session) /\ UNCHANGED <<rejected, lock>>
    BY <2>1, <2>2, EnterType, <1>b DEF TypeOK
  <2>3. CASE End(c, "ConfigurationError") \/ End(c, "AuthenticationError")
    BY <2>1, <2>3, EndType, <1>a DEF TypeOK
  <2>4. CASE Enter(c, "nonce", NoToken) /\ lock' = c /\ UNCHANGED rejected
    BY <2>1, <2>4, EnterType, <1>b DEF TypeOK
  <2> QED BY <1>2, <2>2, <2>3, <2>4 DEF Acquire
<1>3. ASSUME NEW c \in Calls, Send(c) PROVE TypeOK'
  BY <1>3 DEF TypeOK, Send, Awaiting
<1>4. ASSUME NEW c \in Calls, Serve(c) PROVE TypeOK'
  <2>1. pc' \in [Calls -> {"new"} \cup Awaiting \cup Outcomes]
    BY <1>4 DEF TypeOK, Serve, Awaiting
  <2>2. effects' \in [Calls -> Nat]
    BY <1>4 DEF TypeOK, Serve, CarryOut
  <2>3. minted' \in Nat /\ minted <= minted' /\ tok' \in [Calls -> 0..minted']
    BY <1>4 DEF TypeOK, Serve
  <2> QED BY <1>4, <2>1, <2>2, <2>3 DEF TypeOK, Serve
<1>5. ASSUME NEW c \in Calls, ServeLate(c) PROVE TypeOK'
  BY <1>5 DEF TypeOK, ServeLate, CarryOut
<1>6. CASE Revoke
  <2>1. Held \ {NoToken} \subseteq 1..minted
    BY DEF Held, TypeOK
  <2> QED BY <1>6, <2>1 DEF TypeOK, Revoke
<1>7. CASE Age
  BY <1>7 DEF TypeOK, Age
<1>8. ASSUME NEW c \in Calls, ConnectError(c) PROVE TypeOK'
  BY <1>8, RetryType, <1>a DEF TypeOK, ConnectError
<1>9. ASSUME NEW c \in Calls, Timeout(c) PROVE TypeOK'
  BY <1>9, RetryType, <1>a DEF TypeOK, Timeout, Abandon
<1>10. ASSUME NEW c \in Calls, TransportError(c) PROVE TypeOK'
  BY <1>10, EndType, <1>a DEF TypeOK, TransportError, Abandon
<1>11. ASSUME NEW c \in Calls, ReceiveNonce(c) PROVE TypeOK'
  BY <1>11, EndType, EnterType, <1>a, <1>b DEF TypeOK, ReceiveNonce
<1>12. ASSUME NEW c \in Calls, ReceiveSession(c) PROVE TypeOK'
  <2>1. tok[c] \in 0..minted
    BY DEF TypeOK
  <2>2. LockAfter(c) \in Calls \cup {NoCall}
    BY DEF TypeOK, LockAfter
  <2> QED BY <1>12, <2>1, <2>2, EndType, EnterType, <1>a DEF TypeOK, ReceiveSession
<1>13. ASSUME NEW c \in Calls, ReceiveOk(c) PROVE TypeOK'
  BY <1>13, EndType, <1>a DEF TypeOK, ReceiveOk
<1>14. ASSUME NEW c \in Calls, ReceiveUnauthorized(c) PROVE TypeOK'
  <2>1. tok[c] \in 0..minted
    BY DEF TypeOK
  <2>2. session' \in 0..minted /\ aging' \in BOOLEAN
    BY <1>14, <1>b DEF TypeOK, ReceiveUnauthorized
  <2> QED BY <1>14, <2>1, <2>2, EndType, BeginType, <1>a, <1>b DEF TypeOK, ReceiveUnauthorized
<1>15. ASSUME NEW c \in Calls, ReceiveLimited(c) PROVE TypeOK'
  BY <1>15, RetryType, <1>a DEF TypeOK, ReceiveLimited
<1>16. ASSUME NEW c \in Calls, ReceiveFailed(c) PROVE TypeOK'
  BY <1>16, RetryType, <1>a DEF TypeOK, ReceiveFailed
<1>17. ASSUME NEW c \in Calls, ReceiveRefused(c) PROVE TypeOK'
  BY <1>17, EndType, <1>a DEF TypeOK, ReceiveRefused
<1>18. ASSUME NEW c \in Calls, Cancel(c) PROVE TypeOK'
  BY <1>18, EndType, <1>a DEF TypeOK, Cancel, Abandon
<1>19. CASE UNCHANGED vars
  BY <1>19 DEF TypeOK, vars
<1> QED
  BY <1>1, <1>2, <1>3, <1>4, <1>5, <1>6, <1>7, <1>8, <1>9, <1>10, <1>11, <1>12, <1>13,
     <1>14, <1>15, <1>16, <1>17, <1>18, <1>19
  DEF Next, Advance, Receive, Finished

(* Every variable keeps its type.                                            *)
THEOREM TypeCorrect == Spec => []TypeOK
BY TypeInit, TypeStep, PTL DEF Spec

-----------------------------------------------------------------------------
(* The lock.  A call is busy with an API request whenever it is not logging  *)
(* in, so the lock's holder can be read off pc and req.                      *)
LockInv ==
    /\ OneLogin
    /\ \A c \in Calls : ~Live(c) \/ pc[c] = "lock" => req[c] = "api"

\* A call that ends gives the lock back if it holds it, and no other call's.
LEMMA EndLock ==
    ASSUME TypeOK, LockInv, NEW c \in Calls, NEW o \in Outcomes, End(c, o)
    PROVE  LockInv'
<1>1. o \notin Awaiting
  BY DEF Outcomes, Errors, Awaiting
<1>2. \A d \in Calls : lock' = d <=> lock = d /\ d # c
  BY NoCallAssumption DEF End, LockAfter
<1> QED BY <1>1, <1>2 DEF TypeOK, LockInv, OneLogin, LoggingIn, Live, End

\* A call that goes on to its API request has given the lock back.
LEMMA EnterApiLock ==
    ASSUME TypeOK, LockInv, NEW c \in Calls, NEW t, Enter(c, "api", t),
           lock' = LockAfter(c)
    PROVE  LockInv'
<1>1. \A d \in Calls : lock' = d <=> lock = d /\ d # c
  BY NoCallAssumption DEF LockAfter
<1> QED BY <1>1 DEF TypeOK, LockInv, OneLogin, LoggingIn, Live, Enter, Awaiting

\* A retry keeps the lock as it is, an error gives it back.
LEMMA RetryLock ==
    ASSUME TypeOK, LockInv, NEW c \in Calls, NEW safe, NEW o \in Outcomes,
           pc[c] \in {"send", "sent", "served"}, RetryOrRaise(c, safe, o)
    PROVE  LockInv'
<1>1. CASE Resend(c)
  BY <1>1 DEF TypeOK, LockInv, OneLogin, LoggingIn, Live, Resend, Awaiting
<1>2. CASE End(c, o)
  BY <1>2, EndLock
<1> QED BY <1>1, <1>2 DEF RetryOrRaise

\* The start of request() leaves the lock alone.
LEMMA BeginLock ==
    ASSUME TypeOK, LockInv, NEW c \in Calls, req[c] = "api", NEW s, NEW old,
           Begin(c, s, old)
    PROVE  LockInv'
<1>0. lock # c
  BY DEF LockInv, OneLogin, LoggingIn
<1>1. CASE \E t : Enter(c, "api", t) /\ UNCHANGED lock
  BY <1>0, <1>1, EnterApiLock DEF LockAfter
<1>2. CASE End(c, "AuthenticationError")
  BY <1>2, EndLock DEF Outcomes, Errors
<1>3. CASE pc' = [pc EXCEPT ![c] = "lock"] /\ UNCHANGED <<req, lock>>
  BY <1>0, <1>3 DEF TypeOK, LockInv, OneLogin, LoggingIn, Live, Awaiting
<1> QED BY <1>1, <1>2, <1>3 DEF Begin

\* Initially nobody logs in.
LEMMA LockInit == Init => LockInv
BY NoCallAssumption DEF Init, LockInv, OneLogin, LoggingIn, Live, Awaiting

\* Every step keeps the lock invariant.
LEMMA LockStep == TypeOK /\ LockInv /\ [Next]_vars => LockInv'
<1> SUFFICES ASSUME TypeOK, LockInv, [Next]_vars PROVE LockInv'
  OBVIOUS
<1> USE DEF creds, loop, server
<1>a. Outcomes = {"ok", "AuthenticationError", "ConfigurationError", "SignerError",
                  "ConnectFailed", "NetworkError", "RateLimitError", "APIError",
                  "ClientError", "CancelledError"}
  BY DEF Outcomes, Errors
<1>1. ASSUME NEW c \in Calls, Start(c) PROVE LockInv'
  <2>1. req[c] = "api"
    BY <1>1 DEF Start, LockInv, Live, Awaiting
  <2> QED BY <1>1, <2>1, BeginLock DEF Start
<1>2. ASSUME NEW c \in Calls, Acquire(c) PROVE LockInv'
  <2>1. pc[c] = "lock" /\ lock = NoCall /\ req[c] = "api" /\ lock # c
    BY <1>2, NoCallAssumption DEF Acquire, LockFree, LockInv
  <2>2. CASE Enter(c, "api", session) /\ UNCHANGED <<rejected, lock>>
    BY <2>1, <2>2, EnterApiLock DEF LockAfter
  <2>3. CASE End(c, "ConfigurationError") \/ End(c, "AuthenticationError")
    BY <2>3, EndLock, <1>a
  <2>4. CASE Enter(c, "nonce", NoToken) /\ lock' = c
    BY <2>1, <2>4, NoCallAssumption
    DEF TypeOK, LockInv, OneLogin, LoggingIn, Live, Enter, Awaiting
  <2> QED BY <1>2, <2>2, <2>3, <2>4 DEF Acquire
<1>3. ASSUME NEW c \in Calls, Send(c) PROVE LockInv'
  BY <1>3 DEF TypeOK, Send, LockInv, OneLogin, LoggingIn, Live, Awaiting
<1>4. ASSUME NEW c \in Calls, Serve(c) PROVE LockInv'
  BY <1>4 DEF TypeOK, Serve, LockInv, OneLogin, LoggingIn, Live, Awaiting
<1>5. ASSUME NEW c \in Calls, ServeLate(c) PROVE LockInv'
  BY <1>5 DEF ServeLate, LockInv, OneLogin, LoggingIn, Live
<1>6. CASE Revoke \/ Age \/ UNCHANGED vars
  BY <1>6 DEF Revoke, Age, vars, LockInv, OneLogin, LoggingIn, Live
<1>8. ASSUME NEW c \in Calls, ConnectError(c) PROVE LockInv'
  BY <1>8, RetryLock, <1>a DEF ConnectError
<1>9. ASSUME NEW c \in Calls, Timeout(c) PROVE LockInv'
  BY <1>9, RetryLock, <1>a DEF Timeout
<1>10. ASSUME NEW c \in Calls, TransportError(c) PROVE LockInv'
  BY <1>10, EndLock, <1>a DEF TransportError
<1>11. ASSUME NEW c \in Calls, ReceiveNonce(c) PROVE LockInv'
  <2>1. CASE End(c, "SignerError")
    BY <2>1, EndLock, <1>a
  <2>2. CASE Enter(c, "verify", NoToken) /\ UNCHANGED lock
    BY <1>11, <2>2
    DEF ReceiveNonce, TypeOK, LockInv, OneLogin, LoggingIn, Live, Enter, Awaiting
  <2> QED BY <1>11, <2>1, <2>2 DEF ReceiveNonce
<1>12. ASSUME NEW c \in Calls, ReceiveSession(c) PROVE LockInv'
  BY <1>12, EndLock, EnterApiLock, <1>a DEF ReceiveSession
<1>13. ASSUME NEW c \in Calls, ReceiveOk(c) PROVE LockInv'
  BY <1>13, EndLock, <1>a DEF ReceiveOk
<1>14. ASSUME NEW c \in Calls, ReceiveUnauthorized(c) PROVE LockInv'
  BY <1>14, EndLock, BeginLock, <1>a DEF ReceiveUnauthorized
<1>15. ASSUME NEW c \in Calls, ReceiveLimited(c) PROVE LockInv'
  BY <1>15, RetryLock, <1>a DEF ReceiveLimited
<1>16. ASSUME NEW c \in Calls, ReceiveFailed(c) PROVE LockInv'
  BY <1>16, RetryLock, <1>a DEF ReceiveFailed
<1>17. ASSUME NEW c \in Calls, ReceiveRefused(c) PROVE LockInv'
  BY <1>17, EndLock, <1>a DEF ReceiveRefused
<1>18. ASSUME NEW c \in Calls, Cancel(c) PROVE LockInv'
  BY <1>18, EndLock, <1>a DEF Cancel
<1> QED
  BY <1>1, <1>2, <1>3, <1>4, <1>5, <1>6, <1>8, <1>9, <1>10, <1>11, <1>12, <1>13,
     <1>14, <1>15, <1>16, <1>17, <1>18
  DEF Next, Advance, Receive, Finished

\* The lock invariant holds in every reachable state.
LEMMA LockAlways == Spec => []LockInv
BY TypeCorrect, LockInit, LockStep, PTL DEF Spec

(* Only the holder of the lock is logging in, and the lock is held for       *)
(* nothing else.                                                             *)
THEOREM LoginExclusive == Spec => []OneLogin
<1>1. LockInv => OneLogin
  BY DEF LockInv
<1> QED BY <1>1, LockAlways, PTL

-----------------------------------------------------------------------------
(* A POST that must not be repeated.  Its effect is there from the moment    *)
(* the server has served the API request, and an abandoned copy exists only  *)
(* after the call has ended without knowing.                                 *)
Unknown == {"NetworkError", "APIError", "CancelledError"}

PostOK(c) ==
    /\ c \in late => kind[c] = "post" /\ effects[c] = 0 /\ pc[c] \in Unknown
    /\ kind[c] = "post" =>
         /\ effects[c] \in {0, 1}
         /\ pc[c] = "served" /\ req[c] = "api" => effects[c] = 1
         /\ pc[c] = "ok" => effects[c] = 1
         /\ effects[c] = 1 => \/ pc[c] = "served" /\ req[c] = "api"
                              \/ pc[c] \in {"ok"} \cup Unknown

PostInv == \A c \in Calls : PostOK(c)

\* No effect yet, and no copy left behind.
Clean(c) == effects[c] = 0 /\ c \notin late

\* Until the server has served a POST, it has no effect and no copy.
LEMMA CleanWhileWaiting ==
    ASSUME PostInv, NEW c \in Calls, kind[c] = "post",
           pc[c] \in {"new", "lock", "send", "sent"} \/ (pc[c] = "served" /\ req[c] # "api")
    PROVE  Clean(c)
BY DEF PostInv, PostOK, Clean, Unknown

(* A step of one call that neither carries anything out nor leaves a copy.   *)
LEMMA QuietStep ==
    ASSUME PostInv, NEW c \in Calls, UNCHANGED <<kind, effects, late>>,
           \A d \in Calls \ {c} : pc'[d] = pc[d] /\ req'[d] = req[d],
           \/ kind[c] # "post"
           \/ Clean(c) /\ pc'[c] \notin {"ok", "served"}
           \/ effects[c] = 1 /\ c \notin late /\ pc'[c] \in {"ok"} \cup Unknown
    PROVE  PostInv'
<1> SUFFICES ASSUME NEW d \in Calls PROVE PostOK(d)'
  BY DEF PostInv
<1>1. CASE d # c
  BY <1>1 DEF PostInv, PostOK
<1>2. CASE d = c
  BY <1>2 DEF PostInv, PostOK, Clean, Unknown
<1> QED BY <1>1, <1>2

(* Which locals the ways to leave an action touch.                           *)
LEMMA OthersKeep ==
    ASSUME TypeOK, NEW c \in Calls,
           \/ \E o : End(c, o)
           \/ \E r, t : Enter(c, r, t)
           \/ Resend(c)
           \/ \E p : pc' = [pc EXCEPT ![c] = p] /\ UNCHANGED req
    PROVE  \A d \in Calls \ {c} : pc'[d] = pc[d] /\ req'[d] = req[d]
BY DEF TypeOK, End, Enter, Resend

\* Where the ways to leave an action leave the coroutine.
LEMMA NewPC ==
    ASSUME TypeOK, NEW c \in Calls
    PROVE  /\ \A o : End(c, o) => pc'[c] = o
           /\ \A r, t : Enter(c, r, t) => pc'[c] = "send"
           /\ Resend(c) => pc'[c] = "send"
           /\ \A p : pc' = [pc EXCEPT ![c] = p] => pc'[c] = p
BY DEF TypeOK, End, Enter, Resend

(* Raising an error that admits that the outcome is not known, with or       *)
(* without leaving a copy.                                                   *)
LEMMA AbandonStep ==
    ASSUME TypeOK, PostInv, NEW c \in Calls, pc[c] \in Awaiting, UNCHANGED kind,
           Abandon(c), NEW o \in Unknown, End(c, o)
    PROVE  PostInv'
<1> SUFFICES ASSUME NEW d \in Calls PROVE PostOK(d)'
  BY DEF PostInv
<1>1. CASE d # c
  BY <1>1 DEF TypeOK, PostInv, PostOK, Abandon, End
<1>2. CASE d = c
  BY <1>2 DEF TypeOK, PostInv, PostOK, Abandon, End, Awaiting, Unknown
<1> QED BY <1>1, <1>2

\* While a call is waiting for a POST nothing was left behind.
LEMMA NothingLateWhileLive ==
    ASSUME PostInv, NEW c \in Calls, pc[c] \in Awaiting
    PROVE  c \notin late
BY DEF PostInv, PostOK, Unknown, Awaiting

\* A retry keeps the promises of a POST, if it is only tried for a clean one.
LEMMA RetryPost ==
    ASSUME TypeOK, PostInv, NEW c \in Calls, UNCHANGED <<kind, effects, late>>,
           pc[c] \in {"send", "sent", "served"},
           NEW safe \in BOOLEAN, NEW o \in Errors, RetryOrRaise(c, safe, o),
           \/ kind[c] # "post"
           \/ Clean(c)
           \/ ~safe /\ o \in Unknown
    PROVE  PostInv'
<1>1. kind[c] # "post" \/ Clean(c) \/ (effects[c] = 1 /\ c \notin late)
  BY NothingLateWhileLive DEF PostInv, PostOK, Clean, Awaiting
<1>2. o \notin {"ok", "served"}
  BY DEF Errors
<1>3. CASE safe /\ Resend(c)
  <2>1. kind[c] # "post" \/ Clean(c)
    BY <1>3
  <2> QED BY <1>3, <2>1, QuietStep, OthersKeep, NewPC
<1>4. CASE End(c, o)
  <2>1. kind[c] # "post" \/ Clean(c) \/ (effects[c] = 1 /\ c \notin late /\ o \in Unknown)
    BY <1>1, <1>2, NothingLateWhileLive DEF PostInv, PostOK, Clean, Awaiting
  <2> QED BY <1>2, <1>4, <2>1, QuietStep, OthersKeep, NewPC
<1> QED BY <1>3, <1>4 DEF RetryOrRaise

\* So does the start of request(), for a new call or one that got a 401.
LEMMA BeginPost ==
    ASSUME TypeOK, PostInv, NEW c \in Calls, UNCHANGED <<kind, effects, late>>,
           pc[c] \in {"new", "sent"}, NEW s, NEW old, Begin(c, s, old)
    PROVE  PostInv'
<1>1. kind[c] # "post" \/ Clean(c)
  BY CleanWhileWaiting
<1>2. CASE \E t : Enter(c, "api", t)
  BY <1>1, <1>2, QuietStep, OthersKeep, NewPC
<1>3. CASE End(c, "AuthenticationError")
  BY <1>1, <1>3, QuietStep, OthersKeep, NewPC
<1>4. CASE pc' = [pc EXCEPT ![c] = "lock"] /\ UNCHANGED req
  BY <1>1, <1>4, QuietStep, OthersKeep, NewPC
<1> QED BY <1>2, <1>3, <1>4 DEF Begin

\* Initially nothing was carried out and nothing is late.
LEMMA PostInit == Init => PostInv
<1> SUFFICES ASSUME Init, NEW c \in Calls PROVE PostOK(c)
  BY DEF PostInv
<1>1. pc[c] = "new" /\ effects[c] = 0 /\ c \notin late
  BY DEF Init
<1> QED BY <1>1 DEF PostOK

\* Every step keeps the promises of every POST.
LEMMA PostStep == TypeOK /\ PostInv /\ [Next]_vars => PostInv'
<1> SUFFICES ASSUME TypeOK, PostInv, [Next]_vars PROVE PostInv'
  OBVIOUS
<1> USE DEF creds, loop, server
<1>1. ASSUME NEW c \in Calls, Start(c) PROVE PostInv'
  BY <1>1, BeginPost DEF Start
<1>2. ASSUME NEW c \in Calls, Acquire(c) PROVE PostInv'
  <2>1. kind[c] # "post" \/ Clean(c)
    BY <1>2, CleanWhileWaiting DEF Acquire
  <2>2. CASE \E r, t : Enter(c, r, t)
    BY <1>2, <2>1, <2>2, QuietStep, OthersKeep, NewPC DEF Acquire
  <2>3. CASE End(c, "ConfigurationError") \/ End(c, "AuthenticationError")
    BY <1>2, <2>1, <2>3, QuietStep, OthersKeep, NewPC DEF Acquire
  <2> QED BY <1>2, <2>2, <2>3 DEF Acquire
<1>3. ASSUME NEW c \in Calls, Send(c) PROVE PostInv'
  <2>1. kind[c] # "post" \/ Clean(c)
    BY <1>3, CleanWhileWaiting DEF Send
  <2> QED BY <1>3, <2>1, QuietStep, OthersKeep, NewPC DEF Send
<1>4. ASSUME NEW c \in Calls, Serve(c) PROVE PostInv'
  <2>1. kind[c] # "post" \/ Clean(c)
    BY <1>4, CleanWhileWaiting DEF Serve
  <2> SUFFICES ASSUME NEW d \in Calls PROVE PostOK(d)'
    BY DEF PostInv
  <2>2. CASE d # c
    BY <1>4, <2>2 DEF TypeOK, PostInv, PostOK, Serve, CarryOut
  <2>3. CASE d = c
    BY <1>4, <2>1, <2>3 DEF TypeOK, PostInv, PostOK, Clean, Serve, CarryOut, Unknown
  <2> QED BY <2>2, <2>3
<1>5. ASSUME NEW c \in Calls, ServeLate(c) PROVE PostInv'
  BY <1>5 DEF TypeOK, PostInv, PostOK, ServeLate, CarryOut
<1>6. CASE Revoke \/ Age \/ UNCHANGED vars
  BY <1>6 DEF Revoke, Age, vars, PostInv, PostOK
<1>8. ASSUME NEW c \in Calls, ConnectError(c) PROVE PostInv'
  <2>1. kind[c] # "post" \/ Clean(c)
    BY <1>8, CleanWhileWaiting DEF ConnectError
  <2> QED BY <1>8, <2>1, RetryPost DEF ConnectError, Errors
<1>9. ASSUME NEW c \in Calls, Timeout(c) PROVE PostInv'
  <2>1. CASE kind[c] = "post"
    <3>1. End(c, "NetworkError")
      BY <1>9, <2>1 DEF Timeout, RetryOrRaise, Idempotent
    <3> QED BY <1>9, <3>1, AbandonStep DEF Timeout, Awaiting, Unknown
  <2>2. CASE kind[c] # "post"
    <3>1. UNCHANGED <<kind, effects, late>> /\ Idempotent(c) \in BOOLEAN
      BY <1>9, <2>2 DEF Timeout, Abandon, Idempotent
    <3> QED BY <1>9, <2>2, <3>1, RetryPost DEF Timeout, Errors
  <2> QED BY <2>1, <2>2
<1>10. ASSUME NEW c \in Calls, TransportError(c) PROVE PostInv'
  BY <1>10, AbandonStep DEF TransportError, Awaiting, Unknown
<1>11. ASSUME NEW c \in Calls, ReceiveNonce(c) PROVE PostInv'
  <2>1. kind[c] # "post" \/ Clean(c)
    BY <1>11, CleanWhileWaiting DEF ReceiveNonce
  <2> QED BY <1>11, <2>1, QuietStep, OthersKeep, NewPC DEF ReceiveNonce
<1>12. ASSUME NEW c \in Calls, ReceiveSession(c) PROVE PostInv'
  <2>1. kind[c] # "post" \/ Clean(c)
    BY <1>12, CleanWhileWaiting DEF ReceiveSession
  <2> QED BY <1>12, <2>1, QuietStep, OthersKeep, NewPC DEF ReceiveSession
<1>13. ASSUME NEW c \in Calls, ReceiveOk(c) PROVE PostInv'
  <2>1. kind[c] # "post" \/ (effects[c] = 1 /\ c \notin late)
    BY <1>13, NothingLateWhileLive DEF ReceiveOk, PostInv, PostOK, Awaiting
  <2> QED BY <1>13, <2>1, QuietStep, OthersKeep, NewPC DEF ReceiveOk
<1>14. ASSUME NEW c \in Calls, ReceiveUnauthorized(c) PROVE PostInv'
  <2>1. kind[c] # "post" \/ Clean(c)
    BY <1>14, CleanWhileWaiting DEF ReceiveUnauthorized
  <2>2. CASE Begin(c, Invalidated, tok[c])
    BY <1>14, <2>2, BeginPost DEF ReceiveUnauthorized
  <2>3. CASE End(c, "AuthenticationError")
    BY <1>14, <2>1, <2>3, QuietStep, OthersKeep, NewPC DEF ReceiveUnauthorized
  <2> QED BY <1>14, <2>2, <2>3 DEF ReceiveUnauthorized
<1>15. ASSUME NEW c \in Calls, ReceiveLimited(c) PROVE PostInv'
  <2>1. kind[c] # "post" \/ Clean(c)
    BY <1>15, CleanWhileWaiting DEF ReceiveLimited
  <2> QED BY <1>15, <2>1, RetryPost DEF ReceiveLimited, Errors
<1>16. ASSUME NEW c \in Calls, ReceiveFailed(c) PROVE PostInv'
  <2>1. Idempotent(c) \in BOOLEAN /\ (kind[c] = "post" => ~Idempotent(c))
    BY DEF Idempotent
  <2> QED BY <1>16, <2>1, RetryPost DEF ReceiveFailed, Errors, Unknown
<1>17. ASSUME NEW c \in Calls, ReceiveRefused(c) PROVE PostInv'
  <2>1. kind[c] # "post" \/ Clean(c)
    BY <1>17, CleanWhileWaiting DEF ReceiveRefused
  <2> QED BY <1>17, <2>1, QuietStep, OthersKeep, NewPC DEF ReceiveRefused
<1>18. ASSUME NEW c \in Calls, Cancel(c) PROVE PostInv'
  BY <1>18, AbandonStep DEF Cancel, Live, Unknown
<1> QED
  BY <1>1, <1>2, <1>3, <1>4, <1>5, <1>6, <1>8, <1>9, <1>10, <1>11, <1>12, <1>13,
     <1>14, <1>15, <1>16, <1>17, <1>18
  DEF Next, Advance, Receive, Finished

\* The promises of a POST hold in every reachable state.
LEMMA PostAlways == Spec => []PostInv
BY TypeCorrect, PostInit, PostStep, PTL DEF Spec

(* A POST that must not be repeated is carried out at most once, now and by  *)
(* any copy still under way.                                                 *)
THEOREM PostAtMostOnce == Spec => []AtMostOnce
<1>1. PostInv => AtMostOnce
  BY DEF PostInv, PostOK, AtMostOnce
<1> QED BY <1>1, PostAlways, PTL

(* The outcome a POST reports agrees with what the server did.               *)
THEOREM PostTruthful == Spec => []OutcomeTruthful
<1>1. PostInv => OutcomeTruthful
  BY DEF PostInv, PostOK, OutcomeTruthful, Refusals, Unknown
<1> QED BY <1>1, PostAlways, PTL

-----------------------------------------------------------------------------
(* Tokens.  The holder of the lock is the only one who can get a new token,  *)
(* so the one in /auth/verify's answer is the newest there is, and any       *)
(* session installed after a 401 is newer than what the 401 rejected.        *)
NewToken(c) == pc[c] = "served" /\ req[c] = "verify"

TokenInv ==
    /\ SessionNewest
    /\ FreshRetry
    /\ \A c \in Calls : canSign /\ rejected[c] # NoToken /\ session # NoToken
                            => rejected[c] < session
    /\ \A c, d \in Calls : NewToken(c) => /\ session < tok[c]
                                          /\ rejected[d] < tok[c]
                                          /\ d # c => tok[d] < tok[c]

\* Two calls that are logging in are the same call.
LEMMA OneNewToken ==
    ASSUME LockInv, NEW c \in Calls, NEW d \in Calls, LoggingIn(c), LoggingIn(d)
    PROVE  c = d
BY DEF LockInv, OneLogin

(* A step that leaves the session alone and gives a call no token but the    *)
(* session's.                                                                *)
LEMMA TokenStep ==
    ASSUME TypeOK, TokenInv, NEW c \in Calls, UNCHANGED <<canSign, session>>,
           \A d \in Calls \ {c} : /\ pc'[d] = pc[d] /\ req'[d] = req[d]
                                  /\ tok'[d] = tok[d] /\ rejected'[d] = rejected[d],
           rejected'[c] \in {NoToken, rejected[c]},
           ~NewToken(c)',
           \/ tok'[c] = NoToken
           \/ tok'[c] = tok[c] /\ (req[c] = "api" \/ req'[c] # "api")
           \/ tok'[c] = session /\ session # NoToken
    PROVE  TokenInv'
<1>1. SessionNewest'
  BY DEF TypeOK, TokenInv, SessionNewest
<1>2. FreshRetry'
  BY DEF TypeOK, TokenInv, FreshRetry
<1>3. (\A e \in Calls : canSign /\ rejected[e] # NoToken /\ session # NoToken
                            => rejected[e] < session)'
  BY DEF TypeOK, TokenInv
<1>4. ASSUME NEW e \in Calls, NEW d \in Calls, NewToken(e)'
      PROVE  (session < tok[e] /\ rejected[d] < tok[e] /\ (d # e => tok[d] < tok[e]))'
  <2>1. e # c /\ NewToken(e)
    BY <1>4 DEF NewToken
  <2>2. session < tok[e] /\ 0 < tok[e] /\ rejected[d] < tok[e] /\ (d # e => tok[d] < tok[e])
    BY <2>1 DEF TokenInv, TypeOK
  <2> QED BY <2>1, <2>2 DEF TypeOK
<1> QED BY <1>1, <1>2, <1>3, <1>4 DEF TokenInv

\* A call that ends drops its token.
LEMMA EndToken ==
    ASSUME TypeOK, TokenInv, NEW c \in Calls, NEW o \in Outcomes, End(c, o),
           UNCHANGED <<canSign, session>>
    PROVE  TokenInv'
<1>1. o # "served"
  BY DEF Outcomes, Errors
<1>2. /\ \A d \in Calls \ {c} : /\ pc'[d] = pc[d] /\ req'[d] = req[d]
                                /\ tok'[d] = tok[d] /\ rejected'[d] = rejected[d]
      /\ pc'[c] = o /\ tok'[c] = NoToken /\ rejected'[c] = NoToken
  BY DEF TypeOK, End
<1> QED BY <1>1, <1>2, TokenStep DEF NewToken

\* A call that enters its loop carries no token or the session's.
LEMMA EnterToken ==
    ASSUME TypeOK, TokenInv, NEW c \in Calls, NEW r, NEW t, Enter(c, r, t),
           t = NoToken \/ (t = session /\ session # NoToken),
           rejected' \in {rejected, [rejected EXCEPT ![c] = NoToken]},
           UNCHANGED <<canSign, session>>
    PROVE  TokenInv'
<1>1. /\ \A d \in Calls \ {c} : /\ pc'[d] = pc[d] /\ req'[d] = req[d]
                                /\ tok'[d] = tok[d] /\ rejected'[d] = rejected[d]
      /\ pc'[c] = "send" /\ tok'[c] = t /\ rejected'[c] \in {NoToken, rejected[c]}
  BY DEF TypeOK, Enter
<1> QED BY <1>1, TokenStep DEF NewToken

\* A retry carries the token of the attempt before.
LEMMA RetryToken ==
    ASSUME TypeOK, TokenInv, NEW c \in Calls, NEW safe, NEW o \in Outcomes,
           RetryOrRaise(c, safe, o), UNCHANGED <<canSign, session>>
    PROVE  TokenInv'
<1>1. CASE Resend(c)
  <2>1. /\ \A d \in Calls \ {c} : /\ pc'[d] = pc[d] /\ req'[d] = req[d]
                                  /\ tok'[d] = tok[d] /\ rejected'[d] = rejected[d]
        /\ pc'[c] = "send" /\ tok'[c] = tok[c] /\ rejected'[c] = rejected[c]
        /\ req'[c] = req[c]
    BY <1>1 DEF TypeOK, Resend
  <2> QED BY <2>1, TokenStep DEF NewToken
<1>2. CASE End(c, o)
  BY <1>2, EndToken
<1> QED BY <1>1, <1>2 DEF RetryOrRaise

\* Initially no request carries a token.
LEMMA TokenInit == Init => TokenInv
BY DEF Init, TokenInv, SessionNewest, FreshRetry, NewToken

\* Every step keeps the order of the tokens.
LEMMA TokenNext == TypeOK /\ LockInv /\ TokenInv /\ [Next]_vars => TokenInv'
<1> SUFFICES ASSUME TypeOK, LockInv, TokenInv, [Next]_vars PROVE TokenInv'
  OBVIOUS
<1> USE DEF creds, loop, server
<1>a. Outcomes = {"ok", "AuthenticationError", "ConfigurationError", "SignerError",
                  "ConnectFailed", "NetworkError", "RateLimitError", "APIError",
                  "ClientError", "CancelledError"}
  BY DEF Outcomes, Errors
<1>1. ASSUME NEW c \in Calls, Start(c) PROVE TokenInv'
  <2>0. UNCHANGED <<canSign, session>>
    BY <1>1 DEF Start
  <2>1. CASE End(c, "AuthenticationError")
    BY <2>0, <2>1, EndToken, <1>a
  <2>2. CASE /\ \/ Enter(c, "api", NoToken)
                \/ session # NoToken /\ Enter(c, "api", session)
             /\ rejected' \in {rejected, [rejected EXCEPT ![c] = NoToken]}
    BY <2>0, <2>2, EnterToken
  <2>3. CASE /\ pc' = [pc EXCEPT ![c] = "lock"]
             /\ tok' = [tok EXCEPT ![c] = NoToken]
             /\ rejected' = [rejected EXCEPT ![c] = NoToken]
             /\ UNCHANGED req
    BY <2>0, <2>3, TokenStep DEF NewToken, TypeOK
  <2> QED BY <1>1, <2>1, <2>2, <2>3 DEF Start, Begin
<1>2. ASSUME NEW c \in Calls, Acquire(c) PROVE TokenInv'
  BY <1>2, EndToken, EnterToken, <1>a DEF Acquire
<1>3. ASSUME NEW c \in Calls, Send(c) PROVE TokenInv'
  BY <1>3, TokenStep DEF Send, NewToken, TypeOK
<1>4. ASSUME NEW c \in Calls, Serve(c) PROVE TokenInv'
  <2>0. /\ \A d \in Calls \ {c} : pc'[d] = pc[d]
        /\ UNCHANGED <<canSign, session, req, rejected>>
        /\ pc[c] = "sent"
    BY <1>4 DEF Serve, TypeOK
  <2>1. CASE UNCHANGED tok /\ req[c] # "verify"
    BY <2>0, <2>1, TokenStep DEF NewToken
  <2>2. CASE req[c] = "verify" /\ minted' = minted + 1 /\ tok' = [tok EXCEPT ![c] = minted + 1]
    <3>1. \A d \in Calls \ {c} : ~NewToken(d)
      BY <2>0, <2>2, OneNewToken DEF NewToken, LoggingIn, Live, Awaiting
    <3>2. \A d \in Calls : NewToken(d)' => d = c
      BY <2>0, <3>1, <2>2 DEF NewToken
    <3>3. /\ minted \in Nat /\ session <= minted /\ tok'[c] = minted + 1
          /\ \A d \in Calls : rejected[d] <= minted /\ (d # c => tok'[d] = tok[d] /\ tok[d] <= minted)
      BY <2>2 DEF TypeOK
    <3>4. session \in Nat /\ \A d \in Calls : rejected[d] \in Nat /\ tok[d] \in Nat
      BY DEF TypeOK
    <3>5. (\A e, d \in Calls : NewToken(e) => /\ session < tok[e]
                                              /\ rejected[d] < tok[e]
                                              /\ d # e => tok[d] < tok[e])'
      BY <2>0, <3>2, <3>3, <3>4
    <3>6. SessionNewest' /\ FreshRetry'
      BY <2>0, <2>2, <3>3 DEF TokenInv, SessionNewest, FreshRetry
    <3> QED BY <2>0, <3>5, <3>6 DEF TokenInv
  <2> QED BY <1>4, <2>1, <2>2 DEF Serve
<1>5. ASSUME NEW c \in Calls, ServeLate(c) PROVE TokenInv'
  BY <1>5 DEF ServeLate, TokenInv, SessionNewest, FreshRetry, NewToken
<1>6. CASE Revoke \/ Age \/ UNCHANGED vars
  BY <1>6 DEF Revoke, Age, vars, TokenInv, SessionNewest, FreshRetry, NewToken
<1>8. ASSUME NEW c \in Calls, ConnectError(c) PROVE TokenInv'
  BY <1>8, RetryToken, <1>a DEF ConnectError
<1>9. ASSUME NEW c \in Calls, Timeout(c) PROVE TokenInv'
  BY <1>9, RetryToken, <1>a DEF Timeout
<1>10. ASSUME NEW c \in Calls, TransportError(c) PROVE TokenInv'
  BY <1>10, EndToken, <1>a DEF TransportError
<1>11. ASSUME NEW c \in Calls, ReceiveNonce(c) PROVE TokenInv'
  BY <1>11, EndToken, EnterToken, <1>a DEF ReceiveNonce
<1>12. ASSUME NEW c \in Calls, ReceiveSession(c) PROVE TokenInv'
  <2>0. /\ \A d \in Calls \ {c} : /\ pc'[d] = pc[d] /\ req'[d] = req[d]
                                  /\ tok'[d] = tok[d] /\ rejected'[d] = rejected[d]
        /\ pc'[c] \in {"ok", "send"} /\ tok'[c] \in {NoToken, tok[c]}
        /\ rejected'[c] \in {NoToken, rejected[c]}
        /\ session' = tok[c]
        /\ UNCHANGED canSign
    BY <1>12 DEF ReceiveSession, Enter, End, TypeOK
  <2>1. NewToken(c)
    BY <1>12 DEF ReceiveSession, NewToken
  <2>2. \A d \in Calls \ {c} : ~NewToken(d)
    BY <2>1, OneNewToken DEF NewToken, LoggingIn, Live, Awaiting
  <2>3. \A d \in Calls : ~NewToken(d)'
    BY <2>0, <2>2 DEF NewToken
  <2>4. \A d \in Calls : rejected[d] < tok[c] /\ tok[d] <= tok[c] /\ tok[d] \in Nat /\ rejected[d] \in Nat
    BY <2>1 DEF TokenInv, TypeOK
  <2>5. SessionNewest'
    BY <2>0, <2>4 DEF SessionNewest
  <2>6. FreshRetry'
    BY <2>0, <2>4 DEF FreshRetry, TokenInv
  <2> QED BY <2>0, <2>3, <2>4, <2>5, <2>6 DEF TokenInv
<1>13. ASSUME NEW c \in Calls, ReceiveOk(c) PROVE TokenInv'
  BY <1>13, EndToken, <1>a DEF ReceiveOk
<1>14. ASSUME NEW c \in Calls, ReceiveUnauthorized(c) PROVE TokenInv'
  <2>1. CASE End(c, "AuthenticationError") /\ session' = session
    BY <1>14, <2>1, EndToken, <1>a DEF ReceiveUnauthorized
  <2>2. CASE req[c] = "api" /\ session' = Invalidated /\ Begin(c, Invalidated, tok[c])
    <3>0. UNCHANGED canSign /\ Authed(c)
      BY <1>14, <2>2 DEF ReceiveUnauthorized
    <3>1. CASE canSign
      <4>1. /\ \A d \in Calls \ {c} : /\ pc'[d] = pc[d] /\ req'[d] = req[d]
                                      /\ tok'[d] = tok[d] /\ rejected'[d] = rejected[d]
            /\ pc'[c] = "lock" /\ tok'[c] = NoToken /\ rejected'[c] = tok[c]
            /\ session' = NoToken
        BY <2>2, <3>0, <3>1 DEF Begin, Invalidated, Authed, TypeOK
      <4>2. \A d \in Calls : NewToken(d)' => NewToken(d) /\ d # c
        BY <4>1 DEF NewToken
      <4>3. \A e, d \in Calls : NewToken(e)' => /\ session' < tok'[e]
                                                /\ rejected'[d] < tok'[e]
                                                /\ d # e => tok'[d] < tok'[e]
        BY <4>1, <4>2 DEF TokenInv, TypeOK
      <4> QED BY <3>0, <4>1, <4>3 DEF TokenInv, SessionNewest, FreshRetry
    <3>2. CASE ~canSign
      <4>0. session' = session
        BY <2>2, <3>2 DEF Invalidated
      <4>1. /\ \A d \in Calls \ {c} : /\ pc'[d] = pc[d] /\ req'[d] = req[d]
                                      /\ tok'[d] = tok[d] /\ rejected'[d] = rejected[d]
            /\ pc'[c] \in {"lock", "send", "AuthenticationError"}
            /\ rejected'[c] \in {NoToken, tok[c]}
            /\ req'[c] = "api"
            /\ tok'[c] = NoToken \/ (tok'[c] = session /\ session # NoToken)
        <5>0. Begin(c, session, tok[c])
          BY <2>2, <3>2 DEF Invalidated
        <5>1. CASE End(c, "AuthenticationError")
          BY <5>1 DEF End, TypeOK
        <5>2. CASE /\ session # NoToken
                   /\ Enter(c, "api", session)
                   /\ rejected' = [rejected EXCEPT ![c] = tok[c]]
          BY <5>2 DEF Enter, TypeOK
        <5>3. CASE /\ pc' = [pc EXCEPT ![c] = "lock"]
                   /\ tok' = [tok EXCEPT ![c] = NoToken]
                   /\ rejected' = [rejected EXCEPT ![c] = tok[c]]
                   /\ UNCHANGED req
          BY <2>2, <5>3 DEF TypeOK
        <5> QED BY <3>0, <5>0, <5>1, <5>2, <5>3 DEF Begin, Authed
      <4>2. SessionNewest'
        BY <4>0, <4>1 DEF TokenInv, SessionNewest, TypeOK
      <4>3. FreshRetry'
        BY <3>0, <3>2 DEF FreshRetry
      <4>4. ASSUME NEW e \in Calls, NEW d \in Calls, NewToken(e)'
            PROVE  (session < tok[e] /\ rejected[d] < tok[e] /\ (d # e => tok[d] < tok[e]))'
        <5>1. e # c /\ NewToken(e)
          BY <4>1, <4>4 DEF NewToken
        <5>2. /\ session < tok[e] /\ 0 < tok[e] /\ rejected[d] < tok[e]
              /\ d # e => tok[d] < tok[e]
              /\ tok[c] < tok[e]
          BY <5>1 DEF TokenInv, TypeOK
        <5> QED BY <4>0, <4>1, <5>1, <5>2
      <4> QED BY <3>0, <3>2, <4>2, <4>3, <4>4 DEF TokenInv
    <3> QED BY <3>1, <3>2 DEF TypeOK
  <2> QED BY <1>14, <2>1, <2>2 DEF ReceiveUnauthorized
<1>15. ASSUME NEW c \in Calls, ReceiveLimited(c) PROVE TokenInv'
  BY <1>15, RetryToken, <1>a DEF ReceiveLimited
<1>16. ASSUME NEW c \in Calls, ReceiveFailed(c) PROVE TokenInv'
  BY <1>16, RetryToken, <1>a DEF ReceiveFailed
<1>17. ASSUME NEW c \in Calls, ReceiveRefused(c) PROVE TokenInv'
  BY <1>17, EndToken, <1>a DEF ReceiveRefused
<1>18. ASSUME NEW c \in Calls, Cancel(c) PROVE TokenInv'
  BY <1>18, EndToken, <1>a DEF Cancel
<1> QED
  BY <1>1, <1>2, <1>3, <1>4, <1>5, <1>6, <1>8, <1>9, <1>10, <1>11, <1>12, <1>13,
     <1>14, <1>15, <1>16, <1>17, <1>18
  DEF Next, Advance, Receive, Finished

\* The order of the tokens holds in every reachable state.
LEMMA TokenAlways == Spec => []TokenInv
BY TypeCorrect, LockAlways, TokenInit, TokenNext, PTL DEF Spec

(* No login puts an older session over a newer one.                          *)
THEOREM SessionMonotonic == Spec => []SessionNewest
<1>1. TokenInv => SessionNewest
  BY DEF TokenInv
<1> QED BY <1>1, TokenAlways, PTL

(* With a signer, a request refused with a 401 is sent again with a newer    *)
(* token only.                                                               *)
THEOREM RetryIsFresh == Spec => []FreshRetry
<1>1. TokenInv => FreshRetry
  BY DEF TokenInv
<1> QED BY <1>1, TokenAlways, PTL

-----------------------------------------------------------------------------
(* Refinement.  A step of Transport is a step of RemoteCall when the server  *)
(* carries a POST out or a call ends, and leaves its variables alone         *)
(* otherwise.                                                                *)
posts == {c \in Calls : kind[c] = "post"}
verdict == [c \in Calls |-> Verdict(c)]
Open == {"new"} \cup Awaiting

\* What a call has told its caller, read off its pc.
LEMMA VerdictOf ==
    ASSUME NEW c \in Calls
    PROVE  /\ pc[c] = "ok" => Verdict(c) = "ok"
           /\ pc[c] \in Refusals => Verdict(c) = "refused"
           /\ pc[c] \in Unknown => Verdict(c) = "unknown"
           /\ pc[c] \in Open => Verdict(c) = "open"
BY DEF Verdict, Refusals, Unknown, Open, Awaiting

\* The same in the next state.
LEMMA VerdictOfNext ==
    ASSUME NEW c \in Calls
    PROVE  /\ pc'[c] = "ok" => Verdict(c)' = "ok"
           /\ pc'[c] \in Refusals => Verdict(c)' = "refused"
           /\ pc'[c] \in Unknown => Verdict(c)' = "unknown"
           /\ pc'[c] \in Open => Verdict(c)' = "open"
BY DEF Verdict, Refusals, Unknown, Open, Awaiting

\* A call that does not move tells its caller nothing new.
LEMMA SameVerdict ==
    ASSUME NEW d \in Calls, pc'[d] = pc[d]
    PROVE  Verdict(d)' = Verdict(d)
BY DEF Verdict

(* A call that goes on changes nothing its caller or the server can see.     *)
LEMMA Silent ==
    ASSUME NEW c \in Calls, UNCHANGED <<kind, effects>>,
           \A d \in Calls \ {c} : pc'[d] = pc[d], pc[c] \in Open, pc'[c] \in Open
    PROVE  UNCHANGED <<posts, effects, verdict>>
<1>1. \A d \in Calls : Verdict(d)' = Verdict(d)
  BY VerdictOf, VerdictOfNext, SameVerdict
<1> QED BY <1>1 DEF posts, verdict

(* A call that ends reports what PostInv says it may.                        *)
LEMMA Reporting ==
    ASSUME PostInv', NEW c \in Calls, UNCHANGED <<kind, effects>>, pc[c] \in Open,
           NEW o \in Outcomes, \A d \in Calls \ {c} : pc'[d] = pc[d], pc'[c] = o
    PROVE  Remote!Next
<1>1. \A d \in Calls \ {c} : Verdict(d)' = Verdict(d)
  BY SameVerdict
<1>2. o = "ok" \/ o \in Refusals \/ o \in Unknown
  BY DEF Outcomes, Errors, Refusals, Unknown
<1>3. Verdict(c) = "open" /\ Verdict(c)' \in {"ok", "refused", "unknown"}
  BY <1>2, VerdictOf, VerdictOfNext
<1>4. kind[c] = "post" =>
        /\ Verdict(c)' = "ok" => effects[c] = 1
        /\ Verdict(c)' = "refused" => effects[c] = 0
  BY <1>2, VerdictOfNext DEF PostInv, PostOK, Refusals, Unknown
<1>5. Remote!Report(c, Verdict(c)')
  <2>1. verdict' = [verdict EXCEPT ![c] = Verdict(c)']
    BY <1>1 DEF verdict
  <2>2. posts' = posts
    BY DEF posts
  <2> QED BY <1>3, <1>4, <2>1, <2>2 DEF Remote!Report, posts, verdict
<1> QED BY <1>3, <1>5 DEF Remote!Next, Remote!Verdicts

RemoteStep == Remote!Next \/ UNCHANGED <<posts, effects, verdict>>

\* A call that ends is a report.
LEMMA EndRemote ==
    ASSUME TypeOK, PostInv', NEW c \in Calls, UNCHANGED <<kind, effects>>, pc[c] \in Open,
           NEW o \in Outcomes, End(c, o)
    PROVE  RemoteStep
BY Reporting, OthersKeep, NewPC DEF RemoteStep

\* Entering the retry loop is a stutter.
LEMMA EnterRemote ==
    ASSUME TypeOK, NEW c \in Calls, UNCHANGED <<kind, effects>>, pc[c] \in Open,
           NEW r, NEW t, Enter(c, r, t)
    PROVE  RemoteStep
BY Silent, OthersKeep, NewPC DEF RemoteStep, Open, Awaiting

\* A retry is a stutter, giving up a report.
LEMMA RetryRemote ==
    ASSUME TypeOK, PostInv', NEW c \in Calls, UNCHANGED <<kind, effects>>, pc[c] \in Open,
           NEW safe, NEW o \in Outcomes, RetryOrRaise(c, safe, o)
    PROVE  RemoteStep
<1>1. CASE Resend(c)
  BY <1>1, Silent, OthersKeep, NewPC DEF RemoteStep, Open, Awaiting
<1>2. CASE End(c, o)
  BY <1>2, EndRemote
<1> QED BY <1>1, <1>2 DEF RetryOrRaise

\* The start of request() is a stutter or a report.
LEMMA BeginRemote ==
    ASSUME TypeOK, PostInv', NEW c \in Calls, UNCHANGED <<kind, effects>>, pc[c] \in Open,
           NEW s, NEW old, Begin(c, s, old)
    PROVE  RemoteStep
<1>1. CASE \E t : Enter(c, "api", t)
  BY <1>1, EnterRemote
<1>2. CASE End(c, "AuthenticationError")
  BY <1>2, EndRemote DEF Outcomes, Errors
<1>3. CASE pc' = [pc EXCEPT ![c] = "lock"] /\ UNCHANGED req
  BY <1>3, Silent, OthersKeep, NewPC DEF RemoteStep, Open, Awaiting
<1> QED BY <1>1, <1>2, <1>3 DEF Begin

(* The server carries out a POST it has not carried out before.              *)
LEMMA CarryOutRemote ==
    ASSUME TypeOK, NEW c \in Calls, CarryOut(c), UNCHANGED kind,
           kind[c] = "post" => effects[c] = 0,
           Verdict(c) \in {"open", "unknown"},
           \A d \in Calls : Verdict(d)' = Verdict(d)
    PROVE  RemoteStep
<1>1. UNCHANGED <<posts, verdict>>
  BY DEF posts, verdict
<1>2. CASE kind[c] = "post"
  <2>1. effects' = [effects EXCEPT ![c] = 1]
    BY <1>2 DEF CarryOut, TypeOK
  <2>2. Remote!CarryOut(c)
    BY <1>1, <1>2, <2>1 DEF Remote!CarryOut, posts, verdict
  <2> QED BY <2>2 DEF RemoteStep, Remote!Next
<1>3. CASE kind[c] # "post"
  <2>1. UNCHANGED effects
    BY <1>3 DEF CarryOut, TypeOK
  <2> QED BY <1>1, <2>1 DEF RemoteStep
<1> QED BY <1>2, <1>3

\* Every step is a step of RemoteCall or leaves its variables alone.
LEMMA RemoteSimulation == TypeOK /\ PostInv /\ PostInv' /\ [Next]_vars => RemoteStep
<1> SUFFICES ASSUME TypeOK, PostInv, PostInv', [Next]_vars PROVE RemoteStep
  OBVIOUS
<1> USE DEF creds, loop, server
<1>a. Outcomes = {"ok", "AuthenticationError", "ConfigurationError", "SignerError",
                  "ConnectFailed", "NetworkError", "RateLimitError", "APIError",
                  "ClientError", "CancelledError"}
  BY DEF Outcomes, Errors
<1>b. Open = {"new", "lock", "send", "sent", "served"}
  BY DEF Open, Awaiting
<1>1. ASSUME NEW c \in Calls, Start(c) PROVE RemoteStep
  BY <1>1, <1>b, BeginRemote DEF Start
<1>2. ASSUME NEW c \in Calls, Acquire(c) PROVE RemoteStep
  BY <1>2, <1>a, <1>b, EndRemote, EnterRemote DEF Acquire
<1>3. ASSUME NEW c \in Calls, Send(c) PROVE RemoteStep
  BY <1>3, <1>b, Silent, OthersKeep, NewPC DEF Send, RemoteStep
<1>4. ASSUME NEW c \in Calls, Serve(c) PROVE RemoteStep
  <2>0. /\ pc[c] = "sent" /\ pc'[c] = "served" /\ UNCHANGED kind
        /\ \A d \in Calls \ {c} : pc'[d] = pc[d]
    BY <1>4 DEF Serve, TypeOK
  <2>1. CASE UNCHANGED effects
    BY <2>0, <2>1, <1>b, Silent DEF RemoteStep
  <2>2. CASE CarryOut(c)
    <3>1. \A d \in Calls : Verdict(d)' = Verdict(d)
      BY <2>0, <1>b, VerdictOf, VerdictOfNext, SameVerdict
    <3>2. kind[c] = "post" => effects[c] = 0
      BY <2>0, CleanWhileWaiting DEF Clean
    <3>3. Verdict(c) = "open"
      BY <2>0, <1>b, VerdictOf
    <3> QED BY <2>0, <2>2, <3>1, <3>2, <3>3, CarryOutRemote
  <2> QED BY <1>4, <2>1, <2>2 DEF Serve
<1>5. ASSUME NEW c \in Calls, ServeLate(c) PROVE RemoteStep
  <2>1. effects[c] = 0 /\ Verdict(c) = "unknown"
    BY <1>5, VerdictOf DEF ServeLate, PostInv, PostOK
  <2>2. \A d \in Calls : Verdict(d)' = Verdict(d)
    BY <1>5, SameVerdict DEF ServeLate
  <2> QED BY <1>5, <2>1, <2>2, CarryOutRemote DEF ServeLate
<1>6. CASE Revoke \/ Age \/ UNCHANGED vars
  BY <1>6 DEF Revoke, Age, vars, RemoteStep, posts, verdict, Verdict
<1>8. ASSUME NEW c \in Calls, ConnectError(c) PROVE RemoteStep
  BY <1>8, <1>a, <1>b, RetryRemote DEF ConnectError
<1>9. ASSUME NEW c \in Calls, Timeout(c) PROVE RemoteStep
  BY <1>9, <1>a, <1>b, RetryRemote DEF Timeout, Abandon
<1>10. ASSUME NEW c \in Calls, TransportError(c) PROVE RemoteStep
  BY <1>10, <1>a, <1>b, EndRemote DEF TransportError, Abandon
<1>11. ASSUME NEW c \in Calls, ReceiveNonce(c) PROVE RemoteStep
  BY <1>11, <1>a, <1>b, EndRemote, EnterRemote DEF ReceiveNonce
<1>12. ASSUME NEW c \in Calls, ReceiveSession(c) PROVE RemoteStep
  BY <1>12, <1>a, <1>b, EndRemote, EnterRemote DEF ReceiveSession
<1>13. ASSUME NEW c \in Calls, ReceiveOk(c) PROVE RemoteStep
  BY <1>13, <1>a, <1>b, EndRemote DEF ReceiveOk
<1>14. ASSUME NEW c \in Calls, ReceiveUnauthorized(c) PROVE RemoteStep
  BY <1>14, <1>a, <1>b, EndRemote, BeginRemote DEF ReceiveUnauthorized
<1>15. ASSUME NEW c \in Calls, ReceiveLimited(c) PROVE RemoteStep
  BY <1>15, <1>a, <1>b, RetryRemote DEF ReceiveLimited
<1>16. ASSUME NEW c \in Calls, ReceiveFailed(c) PROVE RemoteStep
  BY <1>16, <1>a, <1>b, RetryRemote DEF ReceiveFailed
<1>17. ASSUME NEW c \in Calls, ReceiveRefused(c) PROVE RemoteStep
  BY <1>17, <1>a, <1>b, EndRemote DEF ReceiveRefused
<1>18. ASSUME NEW c \in Calls, Cancel(c) PROVE RemoteStep
  BY <1>18, <1>a, <1>b, EndRemote DEF Cancel, Live, Abandon, Open
<1> QED
  BY <1>1, <1>2, <1>3, <1>4, <1>5, <1>6, <1>8, <1>9, <1>10, <1>11, <1>12, <1>13,
     <1>14, <1>15, <1>16, <1>17, <1>18
  DEF Next, Advance, Receive, Finished

\* Initial states are initial states of RemoteCall.
LEMMA RemoteInit == Init => Remote!Init
<1> SUFFICES ASSUME Init PROVE Remote!Init
  OBVIOUS
<1>1. \A c \in Calls : Verdict(c) = "open"
  BY VerdictOf DEF Init, Open
<1> QED BY <1>1 DEF Init, Remote!Init

(* The request path implements RemoteCall: every step of it is a step of     *)
(* the abstract call or leaves what the caller and the server see alone.     *)
THEOREM Implements == Spec => RemoteSpec
<1>1. RemoteStep => [Remote!Next]_<<posts, effects, verdict>>
  BY DEF RemoteStep
<1>2. TypeOK /\ PostInv /\ PostInv' /\ [Next]_vars
        => [Remote!Next]_<<posts, effects, verdict>>
  BY <1>1, RemoteSimulation
<1> QED
  BY <1>2, RemoteInit, TypeCorrect, PostAlways, PTL DEF Spec, RemoteSpec, Remote!Spec, posts, verdict

-----------------------------------------------------------------------------
(* How many requests a call sends.  It goes through retry loops, one after   *)
(* the other, and each sends at most Retries + 1 requests.                   *)

\* The loops that come before the API request's, with it; a forced login has none.
Login(c) == IF kind[c] = "login" THEN 2 ELSE 3

\* The loops of the round that c is in, begun or to come.
ThisRound(c) ==
    IF pc[c] = "new" THEN IF kind[c] = "public" THEN 1 ELSE Login(c)
    ELSE IF pc[c] = "lock" \/ req[c] = "nonce" THEN Login(c)
    ELSE IF req[c] = "verify" THEN Login(c) - 1 ELSE 1

\* The loops that a 401 would add.
NextRound(c) == IF Authed(c) /\ rejected[c] = NoToken THEN 3 ELSE 0

\* The requests that the loop c is in has sent, or given up before they left.
Spent(c) ==
    IF pc[c] \in {"new", "lock"} THEN 0
    ELSE IF pc[c] = "send" THEN attempt[c] ELSE attempt[c] + 1

\* The requests that c may yet send.
Budget(c) ==
    IF pc[c] \in Outcomes THEN 0
    ELSE (ThisRound(c) + NextRound(c)) * (Retries + 1) - Spent(c)

SpendsOnly ==
    \A c \in Calls : Budget(c)' <= Budget(c) /\ (Send(c) => Budget(c)' < Budget(c))

\* A loop less makes up for all that one loop sends.
LEMMA OneLoop ==
    ASSUME NEW n \in 0..6, NEW m \in 0..6
    PROVE  /\ n * (Retries + 1) \in 0..6 * (Retries + 1)
           /\ n < m => n * (Retries + 1) + (Retries + 1) <= m * (Retries + 1)
<1>1. Retries + 1 \in Nat
  BY RetriesAssumption
<1> DEFINE p == Retries + 1
<1>2. /\ 0 * p = 0 /\ 1 * p = p /\ 2 * p = p + p /\ 3 * p = p + p + p
      /\ 4 * p = p + p + p + p /\ 5 * p = p + p + p + p + p
      /\ 6 * p = p + p + p + p + p + p
  BY <1>1
<1>3. \A k \in 0..6 : k \in {0, 1, 2, 3, 4, 5, 6}
  OBVIOUS
<1> HIDE DEF p
<1>4. p \in Nat
  BY <1>1 DEF p
<1>5. n * p \in 0..6 * p /\ (n < m => n * p + p <= m * p)
  BY <1>2, <1>3, <1>4
<1> QED BY <1>5 DEF p

\* The parts of the budget.
Parts ==
    \A c \in Calls :
        /\ ThisRound(c) + NextRound(c) \in 1..6
        /\ Spent(c) \in 0..Retries + 1
        /\ Budget(c) \in 0..6 * (Retries + 1)

\* They have their bounds in every typed state.
LEMMA BudgetParts == TypeOK => Parts
<1> SUFFICES ASSUME TypeOK, NEW c \in Calls
             PROVE  /\ ThisRound(c) + NextRound(c) \in 1..6
                    /\ Spent(c) \in 0..Retries + 1
                    /\ Budget(c) \in 0..6 * (Retries + 1)
  BY DEF Parts
<1>1. ThisRound(c) \in 1..3 /\ NextRound(c) \in {0, 3}
  BY DEF ThisRound, NextRound, Login
<1>2. ThisRound(c) + NextRound(c) \in 1..6
  BY <1>1
<1>3. Spent(c) \in 0..Retries + 1
  <2>1. attempt[c] \in 0..Retries
    BY DEF TypeOK
  <2> QED BY <2>1, RetriesAssumption DEF Spent
<1>4. Budget(c) \in 0..6 * (Retries + 1)
  <2> DEFINE n == ThisRound(c) + NextRound(c)
             b == n * (Retries + 1)
             top == 6 * (Retries + 1)
  <2>1. b \in 0..top
    BY <1>2, OneLoop
  <2>2. 0 * (Retries + 1) + (Retries + 1) <= b
    BY <1>2, OneLoop
  <2>3. Retries + 1 <= b /\ top \in Nat /\ 0 \in 0..top
    BY <2>2, RetriesAssumption
  <2>4. Budget(c) = IF pc[c] \in Outcomes THEN 0 ELSE b - Spent(c)
    BY DEF Budget
  <2> HIDE DEF b, top
  <2>5. b - Spent(c) \in 0..top
    BY <1>3, <2>1, <2>3, RetriesAssumption
  <2>6. Budget(c) \in 0..top
    BY <2>3, <2>4, <2>5
  <2> QED BY <2>6 DEF top
<1> QED BY <1>2, <1>3, <1>4

\* So they have after a step.
LEMMA BudgetPartsNext == TypeOK' => Parts'
BY BudgetParts, PTL

\* A call that has ended sends nothing more.
LEMMA EndBudget ==
    ASSUME TypeOK, NEW c \in Calls, NEW o \in Outcomes, End(c, o)
    PROVE  Budget(c)' <= Budget(c)
<1>1. pc'[c] \in Outcomes
  BY DEF End, TypeOK
<1>2. Budget(c)' = 0
  BY <1>1 DEF Budget
<1>3. Budget(c) \in Nat
  BY BudgetParts, RetriesAssumption DEF Parts
<1> QED BY <1>2, <1>3

\* A new loop is at the expense of the loops to come, whatever the last one left.
LEMMA LoopBudget ==
    ASSUME TypeOK, TypeOK', NEW c \in Calls, pc[c] \notin Outcomes,
           (ThisRound(c) + NextRound(c))' < ThisRound(c) + NextRound(c)
    PROVE  Budget(c)' <= Budget(c)
<1> DEFINE n == ThisRound(c) + NextRound(c)
<1>1. n \in 0..6 /\ Spent(c) \in 0..Retries + 1 /\ Budget(c) \in Nat
  BY BudgetParts, RetriesAssumption DEF Parts
<1>2. n' \in 0..6 /\ Spent(c)' \in 0..Retries + 1
  BY BudgetPartsNext DEF Parts
<1>3. n' * (Retries + 1) + (Retries + 1) <= n * (Retries + 1)
  BY <1>1, <1>2, OneLoop
<1>4. n * (Retries + 1) \in Nat /\ n' * (Retries + 1) \in Nat
  BY <1>1, <1>2, OneLoop, RetriesAssumption
<1>5. /\ Budget(c) = n * (Retries + 1) - Spent(c)
      /\ Budget(c)' = IF pc'[c] \in Outcomes THEN 0 ELSE n' * (Retries + 1) - Spent(c)'
  BY DEF Budget
<1> DEFINE b == n * (Retries + 1)
           next == n' * (Retries + 1)
<1>6. next + (Retries + 1) <= b /\ b \in Nat /\ next \in Nat /\ Budget(c) = b - Spent(c)
  BY <1>3, <1>4, <1>5
<1>7. Budget(c)' = IF pc'[c] \in Outcomes THEN 0 ELSE next - Spent(c)'
  BY <1>5
<1> HIDE DEF b, next, n
<1> QED BY <1>1, <1>2, <1>6, <1>7, RetriesAssumption

\* Within a loop nothing is given back.
LEMMA SameLoop ==
    ASSUME TypeOK, TypeOK', NEW c \in Calls, pc[c] \notin Outcomes, pc'[c] \notin Outcomes,
           ThisRound(c)' = ThisRound(c), NextRound(c)' = NextRound(c)
    PROVE  /\ Spent(c) <= Spent(c)' => Budget(c)' <= Budget(c)
           /\ Spent(c) < Spent(c)' => Budget(c)' < Budget(c)
<1> DEFINE b == (ThisRound(c) + NextRound(c)) * (Retries + 1)
<1>1. Budget(c) = b - Spent(c) /\ Budget(c)' = b - Spent(c)'
  BY DEF Budget
<1>2. Spent(c) \in Nat /\ Spent(c)' \in Nat
  BY BudgetParts, BudgetPartsNext, RetriesAssumption DEF Parts
<1>3. b \in Nat
  <2>1. ThisRound(c) + NextRound(c) \in 0..6
    BY BudgetParts DEF Parts
  <2> QED BY <2>1, OneLoop, RetriesAssumption
<1> HIDE DEF b
<1> QED BY <1>1, <1>2, <1>3

\* A call whose locals stay has the budget it had.
LEMMA SameLocals ==
    ASSUME NEW d \in Calls, UNCHANGED kind, pc'[d] = pc[d], req'[d] = req[d],
           attempt'[d] = attempt[d], rejected'[d] = rejected[d]
    PROVE  Budget(d)' = Budget(d)
BY DEF Budget, ThisRound, NextRound, Login, Spent, Authed

\* What c does is no expense of the others.
LEMMA OthersBudget ==
    ASSUME TypeOK, NEW c \in Calls, UNCHANGED kind,
           \/ \E o : End(c, o)
           \/ \E r, t : Enter(c, r, t) /\ UNCHANGED rejected
           \/ \E r, t, old : Enter(c, r, t) /\ rejected' = [rejected EXCEPT ![c] = old]
           \/ Resend(c)
    PROVE  \A d \in Calls \ {c} : Budget(d)' = Budget(d)
<1> SUFFICES ASSUME NEW d \in Calls \ {c} PROVE Budget(d)' = Budget(d)
  OBVIOUS
<1>1. /\ pc'[d] = pc[d] /\ req'[d] = req[d]
      /\ attempt'[d] = attempt[d] /\ rejected'[d] = rejected[d]
  BY DEF TypeOK, End, Enter, Resend
<1> QED BY <1>1, SameLocals

\* A retry is a request that the loop has left.
LEMMA RetryBudget ==
    ASSUME TypeOK, TypeOK', NEW c \in Calls, NEW safe, NEW o \in Outcomes,
           pc[c] \in {"send", "sent", "served"}, UNCHANGED kind, RetryOrRaise(c, safe, o)
    PROVE  \A d \in Calls : Budget(d)' <= Budget(d)
<1>0. \A d \in Calls : Budget(d) \in Nat
  BY BudgetParts, RetriesAssumption DEF Parts
<1>1. CASE End(c, o)
  BY <1>0, <1>1, EndBudget, OthersBudget
<1>2. CASE Resend(c)
  <2>1. /\ pc'[c] = "send" /\ req'[c] = req[c] /\ attempt'[c] = attempt[c] + 1
        /\ rejected'[c] = rejected[c] /\ attempt[c] \in Nat
    BY <1>2, RetriesAssumption DEF TypeOK, Resend
  <2>2. ThisRound(c)' = ThisRound(c) /\ NextRound(c)' = NextRound(c)
    BY <2>1 DEF ThisRound, NextRound, Login, Authed
  <2>3. Spent(c) <= Spent(c)'
    BY <2>1 DEF Spent
  <2>4. pc[c] \notin Outcomes /\ pc'[c] \notin Outcomes
    BY <2>1 DEF Outcomes, Errors
  <2>5. Budget(c)' <= Budget(c)
    BY <2>2, <2>3, <2>4, SameLoop
  <2> QED BY <1>0, <1>2, <2>5, OthersBudget
<1> QED BY <1>1, <1>2 DEF RetryOrRaise

\* A loop that is entered is one of those to come.
LEMMA EnterBudget ==
    ASSUME TypeOK, TypeOK', NEW c \in Calls, NEW r, NEW t, Enter(c, r, t), UNCHANGED kind,
           \/ UNCHANGED rejected
           \/ \E old : rejected' = [rejected EXCEPT ![c] = old],
           pc[c] \notin Outcomes,
           (ThisRound(c) + NextRound(c))' <= ThisRound(c) + NextRound(c),
           pc[c] \in {"new", "lock"} \/
               (ThisRound(c) + NextRound(c))' < ThisRound(c) + NextRound(c)
    PROVE  \A d \in Calls : Budget(d)' <= Budget(d)
<1>0. \A d \in Calls : Budget(d) \in Nat
  BY BudgetParts, RetriesAssumption DEF Parts
<1> SUFFICES Budget(c)' <= Budget(c)
  BY <1>0, OthersBudget
<1> DEFINE n == ThisRound(c) + NextRound(c)
<1>1. n \in 0..6 /\ n' \in 0..6
  BY BudgetParts, BudgetPartsNext DEF Parts
<1>2. CASE n' < n
  BY <1>2, LoopBudget
<1>3. CASE n' = n /\ pc[c] \in {"new", "lock"}
  <2>1. pc'[c] = "send" /\ attempt'[c] = 0
    BY DEF TypeOK, Enter
  <2>2. Spent(c) = 0 /\ Spent(c)' = 0
    BY <1>3, <2>1 DEF Spent
  <2>3. pc'[c] \notin Outcomes
    BY <2>1 DEF Outcomes, Errors
  <2>4. Budget(c)' = Budget(c)
    BY <1>3, <2>2, <2>3 DEF Budget
  <2> QED BY <1>0, <2>4
<1> HIDE DEF n
<1>4. n' < n \/ (n' = n /\ pc[c] \in {"new", "lock"})
  BY <1>1 DEF n
<1> QED BY <1>2, <1>3, <1>4

\* A call that has not started has seen no 401.
Unrejected == \A c \in Calls : pc[c] = "new" => rejected[c] = NoToken

\* Only a call that goes on is given a rejected token.
LEMMA UnrejectedStep == TypeOK /\ Unrejected /\ [Next]_vars => Unrejected'
<1> SUFFICES ASSUME TypeOK, Unrejected, [Next]_vars, NEW c \in Calls, pc'[c] = "new"
             PROVE  rejected'[c] = NoToken
  BY DEF Unrejected
<1> USE DEF creds, loop, server
<1>1. Outcomes = {"ok", "AuthenticationError", "ConfigurationError", "SignerError",
                  "ConnectFailed", "NetworkError", "RateLimitError", "APIError",
                  "ClientError", "CancelledError"}
  BY DEF Outcomes, Errors
<1>2. ASSUME NEW d \in Calls,
             \/ \E o \in Outcomes : End(d, o)
             \/ \E r, t : Enter(d, r, t) /\ UNCHANGED rejected
             \/ \E r, t, old : Enter(d, r, t) /\ rejected' = [rejected EXCEPT ![d] = old]
             \/ Resend(d)
             \/ \E p \in {"lock", "sent", "served"} :
                  /\ pc' = [pc EXCEPT ![d] = p]
                  /\ \/ UNCHANGED rejected
                     \/ \E old : rejected' = [rejected EXCEPT ![d] = old]
      PROVE  rejected'[c] = NoToken
  BY <1>1, <1>2 DEF TypeOK, Unrejected, End, Enter, Resend
<1>3. ASSUME NEW d \in Calls, NEW t, NEW old, Begin(d, t, old) PROVE rejected'[c] = NoToken
  BY <1>1, <1>2, <1>3 DEF Begin
<1>4. ASSUME NEW d \in Calls, NEW safe, NEW o \in Outcomes, RetryOrRaise(d, safe, o)
      PROVE  rejected'[c] = NoToken
  BY <1>2, <1>4 DEF RetryOrRaise
<1>5. ASSUME NEW d \in Calls, Start(d) \/ ReceiveUnauthorized(d) PROVE rejected'[c] = NoToken
  BY <1>1, <1>2, <1>3, <1>5 DEF Start, ReceiveUnauthorized
<1>6. ASSUME NEW d \in Calls, Acquire(d) \/ ReceiveNonce(d) \/ ReceiveSession(d)
      PROVE  rejected'[c] = NoToken
  BY <1>1, <1>2, <1>6 DEF Acquire, ReceiveNonce, ReceiveSession
<1>7. ASSUME NEW d \in Calls,
             ConnectError(d) \/ Timeout(d) \/ ReceiveLimited(d) \/ ReceiveFailed(d)
      PROVE  rejected'[c] = NoToken
  BY <1>1, <1>4, <1>7 DEF ConnectError, Timeout, ReceiveLimited, ReceiveFailed
<1>8. ASSUME NEW d \in Calls,
             TransportError(d) \/ ReceiveOk(d) \/ ReceiveRefused(d) \/ Cancel(d)
      PROVE  rejected'[c] = NoToken
  BY <1>1, <1>2, <1>8 DEF TransportError, ReceiveOk, ReceiveRefused, Cancel
<1>9. ASSUME NEW d \in Calls, Send(d) \/ Serve(d) PROVE rejected'[c] = NoToken
  BY <1>2, <1>9 DEF Send, Serve
<1>10. CASE (\E d \in Calls : ServeLate(d)) \/ Revoke \/ Age \/ UNCHANGED vars
  BY <1>10 DEF ServeLate, Revoke, Age, vars, Unrejected
<1> QED
  BY <1>5, <1>6, <1>7, <1>8, <1>9, <1>10 DEF Next, Advance, Receive, Finished

\* The start of request(), at first and after a 401.
LEMMA BeginBudget ==
    ASSUME TypeOK, TypeOK', NEW c \in Calls, NEW t, NEW old \in Nat, Begin(c, t, old),
           UNCHANGED kind,
           \/ pc[c] = "new" /\ rejected[c] = NoToken /\ old = NoToken
           \/ /\ pc[c] = "sent" /\ req[c] = "api" /\ Authed(c)
              /\ rejected[c] = NoToken /\ old # NoToken
    PROVE  \A d \in Calls : Budget(d)' <= Budget(d)
<1>0. \A d \in Calls : Budget(d) \in Nat
  BY BudgetParts, RetriesAssumption DEF Parts
<1>a. pc[c] \notin Outcomes
  BY DEF Outcomes, Errors
<1>1. CASE kind[c] = "public" /\ Enter(c, "api", NoToken) /\ UNCHANGED <<rejected, lock>>
  <2>1. pc[c] = "new" /\ pc'[c] = "send" /\ req'[c] = "api" /\ rejected'[c] = rejected[c]
    BY <1>1 DEF TypeOK, Enter, Authed
  <2>2. (ThisRound(c) + NextRound(c))' = ThisRound(c) + NextRound(c)
    BY <1>1, <2>1 DEF ThisRound, NextRound, Login, Authed
  <2>3. ThisRound(c) + NextRound(c) \in Nat
    BY BudgetParts DEF Parts
  <2> QED BY <1>1, <1>a, <2>1, <2>2, <2>3, EnterBudget
<1>2. CASE End(c, "AuthenticationError")
  <2>1. Budget(c)' <= Budget(c)
    BY <1>2, EndBudget DEF Outcomes, Errors
  <2> QED BY <1>0, <1>2, <2>1, OthersBudget
<1>3. CASE /\ Authed(c) /\ Enter(c, "api", t)
           /\ rejected' = [rejected EXCEPT ![c] = old]
  <2>1. pc'[c] = "send" /\ req'[c] = "api" /\ rejected'[c] = old
    BY <1>3 DEF TypeOK, Enter
  <2>2. (ThisRound(c) + NextRound(c))' < ThisRound(c) + NextRound(c)
    BY <1>3, <2>1 DEF ThisRound, NextRound, Login, Authed
  <2>3. (ThisRound(c) + NextRound(c))' <= ThisRound(c) + NextRound(c)
    BY <2>2, BudgetParts, BudgetPartsNext DEF Parts
  <2> QED BY <1>3, <1>a, <2>2, <2>3, EnterBudget
<1>4. CASE /\ kind[c] = "login" \/ Authed(c)
           /\ pc' = [pc EXCEPT ![c] = "lock"]
           /\ attempt' = [attempt EXCEPT ![c] = 0]
           /\ rejected' = [rejected EXCEPT ![c] = old]
           /\ UNCHANGED req
  <2>1. pc'[c] = "lock" /\ rejected'[c] = old /\ pc'[c] \notin Outcomes
    BY <1>4 DEF TypeOK, Outcomes, Errors
  <2>a. \A d \in Calls \ {c} : /\ pc'[d] = pc[d] /\ req'[d] = req[d]
                               /\ attempt'[d] = attempt[d] /\ rejected'[d] = rejected[d]
    BY <1>4 DEF TypeOK
  <2>b. \A d \in Calls \ {c} : Budget(d)' = Budget(d)
    BY <2>a, SameLocals
  <2>2. CASE pc[c] = "new"
    <3>1. ThisRound(c)' = ThisRound(c) /\ NextRound(c)' = NextRound(c)
      BY <1>4, <2>1, <2>2 DEF ThisRound, NextRound, Login, Authed
    <3>2. Spent(c)' = 0 /\ Spent(c) = 0
      BY <2>1, <2>2 DEF Spent
    <3>3. Budget(c)' <= Budget(c)
      BY <1>a, <2>1, <3>1, <3>2, SameLoop
    <3> QED BY <1>0, <2>b, <3>3
  <2>3. CASE pc[c] = "sent"
    <3>1. (ThisRound(c) + NextRound(c))' < ThisRound(c) + NextRound(c)
      BY <1>4, <2>1, <2>3 DEF ThisRound, NextRound, Login, Authed
    <3>2. Budget(c)' <= Budget(c)
      BY <1>a, <3>1, LoopBudget
    <3> QED BY <1>0, <2>b, <3>2
  <2> QED BY <2>2, <2>3
<1> QED BY <1>1, <1>2, <1>3, <1>4 DEF Begin

\* No step gives a call more requests, and a request that is sent is one less.
LEMMA BudgetStep == TypeOK /\ TypeOK' /\ Unrejected /\ [Next]_vars => [SpendsOnly]_vars
<1> SUFFICES ASSUME TypeOK, TypeOK', Unrejected, Next PROVE SpendsOnly
  OBVIOUS
<1> USE DEF creds, loop, server
<1>0. \A d \in Calls : Budget(d) \in Nat
  BY BudgetParts, RetriesAssumption DEF Parts
<1>a. Outcomes = {"ok", "AuthenticationError", "ConfigurationError", "SignerError",
                  "ConnectFailed", "NetworkError", "RateLimitError", "APIError",
                  "ClientError", "CancelledError"}
  BY DEF Outcomes, Errors
<1>b. ASSUME NEW c \in Calls, NEW o \in Outcomes, End(c, o), UNCHANGED kind
      PROVE  \A d \in Calls : Budget(d)' <= Budget(d)
  BY <1>0, <1>b, EndBudget, OthersBudget
<1>1. ASSUME NEW c \in Calls, Start(c) PROVE \A d \in Calls : Budget(d)' <= Budget(d)
  <2>1. /\ pc[c] = "new" /\ rejected[c] = NoToken /\ UNCHANGED kind
        /\ Begin(c, session, NoToken)
    BY <1>1 DEF Start, Unrejected
  <2> QED BY <2>1, BeginBudget
<1>2. ASSUME NEW c \in Calls, Acquire(c) PROVE \A d \in Calls : Budget(d)' <= Budget(d)
  <2>1. pc[c] = "lock" /\ UNCHANGED kind
    BY <1>2 DEF Acquire
  <2>2. CASE kind[c] # "login" /\ Enter(c, "api", session) /\ UNCHANGED rejected
    <3>1. pc'[c] = "send" /\ req'[c] = "api" /\ rejected'[c] = rejected[c]
      BY <2>2 DEF TypeOK, Enter
    <3>2. (ThisRound(c) + NextRound(c))' < ThisRound(c) + NextRound(c)
      BY <2>1, <2>2, <3>1 DEF ThisRound, NextRound, Login, Authed
    <3>3. (ThisRound(c) + NextRound(c))' <= ThisRound(c) + NextRound(c)
      BY <3>2, BudgetParts, BudgetPartsNext DEF Parts
    <3> QED BY <1>a, <2>1, <2>2, <3>2, <3>3, EnterBudget
  <2>3. CASE End(c, "ConfigurationError") \/ End(c, "AuthenticationError")
    BY <1>a, <1>b, <2>1, <2>3
  <2>4. CASE Enter(c, "nonce", NoToken) /\ UNCHANGED rejected
    <3>1. pc'[c] = "send" /\ req'[c] = "nonce" /\ rejected'[c] = rejected[c]
      BY <2>4 DEF TypeOK, Enter
    <3>2. (ThisRound(c) + NextRound(c))' = ThisRound(c) + NextRound(c)
      BY <2>1, <2>4, <3>1 DEF ThisRound, NextRound, Login, Authed
    <3>3. ThisRound(c) + NextRound(c) \in Nat
      BY BudgetParts DEF Parts
    <3> QED BY <1>a, <2>1, <2>4, <3>2, <3>3, EnterBudget
  <2> QED BY <1>2, <2>2, <2>3, <2>4 DEF Acquire
<1>3. ASSUME NEW c \in Calls, Send(c)
      PROVE  Budget(c)' < Budget(c) /\ \A d \in Calls : Budget(d)' <= Budget(d)
  <2>1. /\ pc[c] = "send" /\ pc'[c] = "sent" /\ UNCHANGED <<kind, req, attempt, rejected>>
        /\ \A d \in Calls \ {c} : pc'[d] = pc[d]
    BY <1>3 DEF TypeOK, Send
  <2>2. ThisRound(c)' = ThisRound(c) /\ NextRound(c)' = NextRound(c)
    BY <2>1 DEF ThisRound, NextRound, Login, Authed
  <2>3. Spent(c) < Spent(c)'
    BY <2>1, RetriesAssumption DEF Spent, TypeOK
  <2>4. Budget(c)' < Budget(c)
    BY <1>a, <2>1, <2>2, <2>3, SameLoop
  <2>5. Budget(c)' <= Budget(c)
    BY <2>4, BudgetParts, BudgetPartsNext, RetriesAssumption DEF Parts
  <2>6. \A d \in Calls \ {c} : Budget(d)' = Budget(d)
    BY <2>1, SameLocals
  <2> QED BY <1>0, <2>4, <2>5, <2>6
<1>4. ASSUME NEW c \in Calls, Serve(c) PROVE \A d \in Calls : Budget(d)' <= Budget(d)
  <2>1. /\ pc[c] = "sent" /\ pc'[c] = "served" /\ UNCHANGED <<kind, req, attempt, rejected>>
        /\ \A d \in Calls \ {c} : pc'[d] = pc[d]
    BY <1>4 DEF TypeOK, Serve
  <2>2. Budget(c)' = Budget(c)
    BY <1>a, <2>1 DEF Budget, ThisRound, NextRound, Login, Spent, Authed
  <2>3. \A d \in Calls \ {c} : Budget(d)' = Budget(d)
    BY <2>1, SameLocals
  <2> QED BY <1>0, <2>2, <2>3
<1>5. ASSUME NEW c \in Calls,
             ConnectError(c) \/ Timeout(c) \/ ReceiveLimited(c) \/ ReceiveFailed(c)
      PROVE  \A d \in Calls : Budget(d)' <= Budget(d)
  <2>1. /\ pc[c] \in {"send", "sent", "served"} /\ UNCHANGED kind
        /\ \E safe : \E o \in Outcomes : RetryOrRaise(c, safe, o)
    BY <1>a, <1>5 DEF ConnectError, Timeout, ReceiveLimited, ReceiveFailed
  <2> QED BY <2>1, RetryBudget
<1>6. ASSUME NEW c \in Calls,
             TransportError(c) \/ ReceiveOk(c) \/ ReceiveRefused(c) \/ Cancel(c)
      PROVE  \A d \in Calls : Budget(d)' <= Budget(d)
  BY <1>a, <1>b, <1>6 DEF TransportError, ReceiveOk, ReceiveRefused, Cancel
<1>7. ASSUME NEW c \in Calls, ReceiveNonce(c) PROVE \A d \in Calls : Budget(d)' <= Budget(d)
  <2>1. pc[c] = "served" /\ req[c] = "nonce" /\ UNCHANGED kind
    BY <1>7 DEF ReceiveNonce
  <2>2. CASE Enter(c, "verify", NoToken) /\ UNCHANGED rejected
    <3>1. pc'[c] = "send" /\ req'[c] = "verify" /\ rejected'[c] = rejected[c]
      BY <2>2 DEF TypeOK, Enter
    <3>2. (ThisRound(c) + NextRound(c))' < ThisRound(c) + NextRound(c)
      BY <2>1, <3>1 DEF ThisRound, NextRound, Login, Authed
    <3>3. (ThisRound(c) + NextRound(c))' <= ThisRound(c) + NextRound(c)
      BY <3>2, BudgetParts, BudgetPartsNext DEF Parts
    <3> QED BY <1>a, <2>1, <2>2, <3>2, <3>3, EnterBudget
  <2> QED BY <1>7, <1>a, <1>b, <2>1, <2>2 DEF ReceiveNonce
<1>8. ASSUME NEW c \in Calls, ReceiveSession(c) PROVE \A d \in Calls : Budget(d)' <= Budget(d)
  <2>1. pc[c] = "served" /\ req[c] = "verify" /\ UNCHANGED kind
    BY <1>8 DEF ReceiveSession
  <2>2. CASE kind[c] # "login" /\ Enter(c, "api", tok[c]) /\ UNCHANGED rejected
    <3>1. pc'[c] = "send" /\ req'[c] = "api" /\ rejected'[c] = rejected[c]
      BY <2>2 DEF TypeOK, Enter
    <3>2. (ThisRound(c) + NextRound(c))' < ThisRound(c) + NextRound(c)
      BY <2>1, <2>2, <3>1 DEF ThisRound, NextRound, Login, Authed
    <3>3. (ThisRound(c) + NextRound(c))' <= ThisRound(c) + NextRound(c)
      BY <3>2, BudgetParts, BudgetPartsNext DEF Parts
    <3> QED BY <1>a, <2>1, <2>2, <3>2, <3>3, EnterBudget
  <2> QED BY <1>8, <1>a, <1>b, <2>1, <2>2 DEF ReceiveSession
<1>9. ASSUME NEW c \in Calls, ReceiveUnauthorized(c)
      PROVE  \A d \in Calls : Budget(d)' <= Budget(d)
  <2>1. CASE req[c] = "api" /\ rejected[c] = NoToken
    <3>1. /\ pc[c] = "sent" /\ UNCHANGED kind /\ Authed(c) /\ tok[c] \in revoked
          /\ Begin(c, Invalidated, tok[c])
      BY <1>9, <2>1 DEF ReceiveUnauthorized
    <3>2. tok[c] \in Nat /\ tok[c] # NoToken
      BY <3>1 DEF TypeOK
    <3> QED BY <2>1, <3>1, <3>2, BeginBudget
  <2>2. CASE ~(req[c] = "api" /\ rejected[c] = NoToken)
    BY <1>9, <1>a, <1>b, <2>2 DEF ReceiveUnauthorized
  <2> QED BY <2>1, <2>2
<1>10. ASSUME (\E c \in Calls : ServeLate(c)) \/ Revoke \/ Age \/ UNCHANGED vars
       PROVE  \A d \in Calls : Budget(d)' <= Budget(d)
  <2>1. UNCHANGED <<kind, pc, req, attempt, rejected>>
    BY <1>10 DEF ServeLate, Revoke, Age, vars
  <2>2. \A d \in Calls : Budget(d)' = Budget(d)
    BY <2>1, SameLocals
  <2> QED BY <1>0, <2>2
<1>11. \A d \in Calls : Budget(d)' <= Budget(d)
  BY <1>1, <1>2, <1>3, <1>4, <1>5, <1>6, <1>7, <1>8, <1>9, <1>10
  DEF Next, Advance, Receive, Finished
<1> QED BY <1>3, <1>11 DEF SpendsOnly

\* What a call has at first, and never more than it has.
Budgeted ==
    \A c \in Calls :
        Budget(c) = (CASE kind[c] = "public" -> 1 [] kind[c] = "login" -> 2 [] OTHER -> 6)
                        * (Retries + 1)
NeverOverdrawn == \A c \in Calls : Budget(c) \in Nat

(* A call sends at most 6 * (Retries + 1) requests, the restart after a 401  *)
(* and the logins before each round included; a forced login sends at most   *)
(* 2 * (Retries + 1), and a public call Retries + 1.  That is what it may    *)
(* send at first; what it may still send never grows, and shrinks with each  *)
(* request that it sends (AsyncHTTP.request, Authenticator._login).          *)
THEOREM RequestsRunOut == Spec => Budgeted /\ []NeverOverdrawn /\ [][SpendsOnly]_vars
<1>1. Init => Unrejected
  BY DEF Init, Unrejected
<1>2. Init => Budgeted
  <2> SUFFICES ASSUME Init, NEW c \in Calls
               PROVE  Budget(c) = (CASE kind[c] = "public" -> 1 [] kind[c] = "login" -> 2
                                     [] OTHER -> 6) * (Retries + 1)
    BY DEF Budgeted
  <2>1. pc[c] = "new" /\ rejected[c] = NoToken /\ kind[c] \in Kinds
    BY DEF Init
  <2>2. pc[c] \notin Outcomes /\ Spent(c) = 0
    BY <2>1 DEF Outcomes, Errors, Spent
  <2>3. ThisRound(c) + NextRound(c) =
            CASE kind[c] = "public" -> 1 [] kind[c] = "login" -> 2 [] OTHER -> 6
    BY <2>1 DEF ThisRound, NextRound, Login, Authed, Kinds
  <2>4. ThisRound(c) + NextRound(c) \in 0..6
    BY <2>1 DEF ThisRound, NextRound, Login
  <2>5. (ThisRound(c) + NextRound(c)) * (Retries + 1) \in Nat
    BY <2>4, OneLoop, RetriesAssumption
  <2>6. Budget(c) = (ThisRound(c) + NextRound(c)) * (Retries + 1)
    BY <2>2, <2>5 DEF Budget
  <2> QED BY <2>3, <2>6
<1>3. TypeOK => NeverOverdrawn
  <2> SUFFICES ASSUME TypeOK, NEW c \in Calls PROVE Budget(c) \in Nat
    BY DEF NeverOverdrawn
  <2>1. Budget(c) \in 0..6 * (Retries + 1)
    BY BudgetParts DEF Parts
  <2> QED BY <2>1, RetriesAssumption
<1>4. Spec => []TypeOK
  BY TypeCorrect
<1>5. Spec => []Unrejected
  BY <1>1, <1>4, UnrejectedStep, PTL DEF Spec
<1>6. Spec => [][SpendsOnly]_vars
  BY <1>4, <1>5, BudgetStep, PTL DEF Spec
<1>7. Spec => Budgeted
  BY <1>2 DEF Spec
<1>8. Spec => []NeverOverdrawn
  BY <1>3, <1>4, PTL
<1> QED BY <1>6, <1>7, <1>8
=============================================================================
