------------------------------ MODULE EngineCall -----------------------------
(***************************************************************************)
(* What an engine call is to the driver that makes it, without clock, JWT  *)
(* or sleep: one request, posted a bounded number of times, until the call *)
(* returns or raises.  ExecutionLayer's channel is built on it (Send,      *)
(* Retry, and EndCall or Abandon).                                         *)
(***************************************************************************)
EXTENDS Naturals

CONSTANT MaxAttempts   \* attempts that fit in the budget of one call

VARIABLES
    open,    \* a call is under way
    tries    \* attempts made in it

callVars == <<open, tries>>

Init == open = FALSE /\ tries = 0

Send ==
    /\ ~open
    /\ open' = TRUE /\ tries' = 1

Retry ==
    /\ open /\ tries < MaxAttempts
    /\ tries' = tries + 1
    /\ UNCHANGED open

Over ==
    /\ open
    /\ open' = FALSE
    /\ UNCHANGED tries

Next == Send \/ Retry \/ Over

Spec == Init /\ [][Next]_callVars
=============================================================================
