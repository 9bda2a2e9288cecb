------------------------------ MODULE EngineRpc -----------------------------
(***************************************************************************)
(* One call of EngineClient._rpc (src/mock_cl/engine.py) against the clock:*)
(* attempts that time out, fail to connect or are answered by -32002 are   *)
(* made again with a new JWT until the call's wall-clock budget is spent.  *)
(* The caller sees the call as ExecutionLayer has it, without the clock.   *)
(*                                                                         *)
(* Time is counted in ticks of 1/Second seconds, from the start of the     *)
(* call; it passes only while _rpc waits for the EL or sleeps.  The        *)
(* timeout given to requests.post is not one of the attempt: it bounds the *)
(* wait for the connection, and then every wait for the next part of the   *)
(* answer.  The secret the JWTs are signed with is known by its length in  *)
(* bytes.                                                                  *)
(***************************************************************************)
EXTENDS Integers

CONSTANTS
    Second,          \* ticks in a second
    Budget,          \* EngineClient.timeout, in ticks
    MaxCopies,       \* bound on the count of attempts
    MaxParts,        \* signs of life of the EL in one attempt: the connection
                     \* and the parts its finite answer comes in
    Window,          \* how old a JWT the EL accepts, in ticks
    SecretLengths,   \* lengths of the secrets given to load_secret
    NotHex           \* a secret that is not a hex string

ASSUME TimeAssumption ==
    /\ Second \in Nat \ {0}
    /\ Budget \in Nat \ {0}
    /\ MaxCopies \in Nat \ {0}
    /\ MaxParts \in Nat
    /\ Window \in Nat /\ Window >= Second
ASSUME SecretAssumption == SecretLengths \subseteq Nat /\ NotHex \notin Nat

VARIABLES
    pc,          \* where the call is
    secret,      \* the secret given, by length
    now,         \* ticks since the start of the call
    iat,         \* issued-at of the JWT of the current attempt
    sentAt,      \* when the current attempt was posted
    reqTimeout,  \* the timeout given to requests.post for it
    heard,       \* when the EL was last heard of in it (at first, its start)
    parts,       \* signs of life the EL has given in it
    wakeAt,      \* when the sleep before the next attempt ends
    attempts     \* attempts posted: copies of the request the EL may execute

attempt == <<sentAt, reqTimeout, heard, parts>>
vars == <<pc, secret, now, iat, attempt, wakeAt, attempts>>

Ended == {"refused", "returned", "raised"}

TypeOK ==
    /\ pc \in {"load", "mint", "check", "post", "sleep"} \cup Ended
    /\ secret \in SecretLengths \cup {NotHex}
    /\ now \in Nat /\ iat \in Nat /\ sentAt \in Nat
    /\ reqTimeout \in Nat /\ wakeAt \in Nat /\ attempts \in Nat
    /\ heard \in Nat /\ parts \in 0..MaxParts

Init ==
    /\ pc = "load"
    /\ secret \in SecretLengths \cup {NotHex}
    /\ now = 0 /\ iat = 0 /\ sentAt = 0
    /\ reqTimeout = 0 /\ wakeAt = 0 /\ attempts = 0
    /\ heard = 0 /\ parts = 0

\* int(time.time()): the fraction of the second is dropped.
WholeSeconds(t) == t - (t % Second)

\* The longer of two spans of time.
Longer(a, b) == IF a >= b THEN a ELSE b

\* The count of attempts stops at MaxCopies.
OneMore(n) == IF n < MaxCopies THEN n + 1 ELSE n

-----------------------------------------------------------------------------
\* load_secret: once per process, before the first call.
LoadSecret ==
    /\ pc = "load"
    /\ pc' = IF secret = NotHex \/ secret = 0 THEN "refused" ELSE "mint"
    /\ UNCHANGED <<secret, now, iat, attempt, wakeAt, attempts>>

\* Mutant: one JWT for the whole call.
MintJwt_Once ==
    /\ pc = "mint"
    /\ iat' = IF attempts = 0 THEN WholeSeconds(now) ELSE iat
    /\ pc' = "check"
    /\ UNCHANGED <<secret, now, attempt, wakeAt, attempts>>

\* make_jwt: a new token for every attempt.
MintJwt ==
    /\ pc = "mint"
    /\ iat' = WholeSeconds(now)
    /\ pc' = "check"
    /\ UNCHANGED <<secret, now, attempt, wakeAt, attempts>>

\* Mutant: every attempt is given the whole budget.
Post_FullBudget ==
    /\ pc = "check"
    /\ now < Budget
    /\ sentAt' = now /\ heard' = now /\ parts' = 0
    /\ reqTimeout' = Budget
    /\ attempts' = OneMore(attempts)
    /\ pc' = "post"
    /\ UNCHANGED <<secret, now, iat, wakeAt>>

Post ==
    /\ pc = "check"
    /\ now < Budget
    /\ sentAt' = now /\ heard' = now /\ parts' = 0
    /\ reqTimeout' = Longer(Second, Budget - now)
    /\ attempts' = OneMore(attempts)
    /\ pc' = "post"
    /\ UNCHANGED <<secret, now, iat, wakeAt>>

BudgetSpent ==
    /\ pc = "check"
    /\ now >= Budget
    /\ pc' = "raised"
    /\ UNCHANGED <<secret, now, iat, attempt, wakeAt, attempts>>

-----------------------------------------------------------------------------
\* Mutant: the next attempt follows at once.
SleepThenRetry_AtOnce ==
    /\ wakeAt' = now
    /\ pc' = "sleep"
    /\ UNCHANGED <<secret, now, iat, attempt, attempts>>

SleepThenRetry ==
    /\ wakeAt' = now + Second
    /\ pc' = "sleep"
    /\ UNCHANGED <<secret, now, iat, attempt, attempts>>

\* The connection is made, or a part of the answer comes: the timeout starts
\* anew.
Progress ==
    /\ pc = "post"
    /\ parts < MaxParts
    /\ heard' = now
    /\ parts' = parts + 1
    /\ UNCHANGED <<pc, secret, now, iat, sentAt, reqTimeout, wakeAt, attempts>>

\* The timeout strikes, or the connection fails at any moment.
TransportError ==
    /\ pc = "post"
    /\ SleepThenRetry

EndCall(how) ==
    /\ pc = "post"
    /\ pc' = how
    /\ UNCHANGED <<secret, now, iat, attempt, wakeAt, attempts>>

\* A status other than 200, a JSON-RPC error other than -32002, or an answer
\* that breaks off and cannot be parsed.
EngineError == EndCall("raised")

Result == EndCall("returned")

\* The EL answers -32002: retried only while the budget lasts.
ServerTimeout ==
    \/ pc = "post" /\ now < Budget /\ SleepThenRetry
    \/ now >= Budget /\ EndCall("raised")

\* Mutant: the budget starts afresh when the call wakes up.
Wake_Restart ==
    /\ pc = "sleep" /\ now >= wakeAt
    /\ now' = 0
    /\ pc' = "mint"
    /\ UNCHANGED <<secret, iat, attempt, wakeAt, attempts>>

Wake ==
    /\ pc = "sleep" /\ now >= wakeAt
    /\ pc' = "mint"
    /\ UNCHANGED <<secret, now, iat, attempt, wakeAt, attempts>>

\* Time passes while the call waits for the EL or sleeps; a silence of the EL
\* never outlasts the timeout, nor a sleep its end.
Tick ==
    /\ \/ pc = "post" /\ now < heard + reqTimeout
       \/ pc = "sleep" /\ now < wakeAt
    /\ now' = now + 1
    /\ UNCHANGED <<pc, secret, iat, attempt, wakeAt, attempts>>

Next ==
    \/ LoadSecret \/ MintJwt \/ Post \/ BudgetSpent
    \/ Progress \/ TransportError \/ EngineError \/ Result \/ ServerTimeout
    \/ Wake \/ Tick

\* The HTTP client honours the timeout it is given, an answer has an end, and
\* time passes.
Spec == Init /\ [][Next]_vars
FairSpec == Spec /\ WF_vars(Next)

-----------------------------------------------------------------------------
\* Properties.

\* A call that must end by its budget may overrun it by the floor of one
\* second on the last attempt, the sleep after it, and one more timeout of
\* that attempt for every sign of life the EL gives in it, but by no more: an
\* EL that trickles can hold a call beyond its budget, a silent one cannot.
OverrunBounded == now < Budget + 2 * Second + parts * reqTimeout

\* Every attempt is posted with a JWT the EL will accept (jwt_auth.py:24-25),
\* however long the call has been retried.
TokenFresh == pc = "post" => sentAt - iat < Window

\* An EL that executes every copy of a request gets as many as there are
\* seconds in the budget at most, and the caller sees the call as EngineCall
\* has it: sent once, retried, over.
Call == INSTANCE EngineCall
    WITH MaxAttempts <- (Budget + Second - 1) \div Second,
         open <- attempts > 0 /\ pc \notin Ended, tries <- attempts

ImplementsCall == Call!Spec

\* Every call ends.
CallEnds == <>(pc \in Ended)
=============================================================================
