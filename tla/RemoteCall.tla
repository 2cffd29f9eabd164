----------------------------- MODULE RemoteCall -----------------------------
(* What the request path promises about a POST that must not be repeated:    *)
(* the server carries it out at most once, a call that returns was carried   *)
(* out, a call that reports a refusal was not and will not be, and after any *)
(* other error it may have been, or may still be.                            *)
EXTENDS Naturals

CONSTANT Calls

VARIABLES
    posts,      \* the calls that must not be repeated
    effects,    \* how often the server carried out each of them
    verdict     \* what each call has told its caller

Verdicts == {"ok", "refused", "unknown"}

Init ==
    /\ posts \in SUBSET Calls
    /\ effects = [c \in Calls |-> 0]
    /\ verdict = [c \in Calls |-> "open"]

CarryOut(c) ==
    /\ c \in posts
    /\ effects[c] = 0
    /\ verdict[c] \in {"open", "unknown"}
    /\ effects' = [effects EXCEPT ![c] = 1]
    /\ UNCHANGED <<posts, verdict>>

Report(c, v) ==
    /\ verdict[c] = "open"
    /\ c \in posts /\ v = "ok" => effects[c] = 1
    /\ c \in posts /\ v = "refused" => effects[c] = 0
    /\ verdict' = [verdict EXCEPT ![c] = v]
    /\ UNCHANGED <<posts, effects>>

Next == \E c \in Calls : CarryOut(c) \/ \E v \in Verdicts : Report(c, v)

Spec == Init /\ [][Next]_<<posts, effects, verdict>>
=============================================================================
