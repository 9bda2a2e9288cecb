---------------------------- MODULE BlockWindow -----------------------------
(***************************************************************************)
(* The block window of the load test (src/load_tests/locustfile.py): the   *)
(* recent blocks that requests are pinned to.  on_test_start bisects for   *)
(* the depth to which the node still serves state and pins a window; a     *)
(* background thread pins it again and again, because the served band      *)
(* slides forward while the replay advances the head.                      *)
(*                                                                         *)
(* The node and the thread interleave call by call.  The node serves state *)
(* from block edge up; a call may go unanswered, Hiccups times in all.     *)
(***************************************************************************)
EXTENDS Integers, FiniteSets

CONSTANTS
    StartHeads,    \* heads the node may have at test start
    MaxHead,       \* bound on the head
    Window,        \* load_test.recent_block_window
    MinPinned,     \* load_test.min_pinned_window
    Margin,        \* _safety_margin()
    MaxAdvance,    \* blocks processed between the head fetch a window is
                   \* derived from and the window that replaces it
    Hiccups        \* bound on unanswered calls

ASSUME WindowAssumption ==
    /\ MaxHead \in Nat
    /\ StartHeads \subseteq 0..MaxHead
    /\ Window \in Nat \ {0}
    /\ MinPinned \in Nat /\ MinPinned >= 2
    /\ Margin \in Nat
    /\ MaxAdvance \in Nat
    /\ Hiccups \in Nat

VARIABLES
    head, edge,    \* the node: its head, and the first block it serves
    running,       \* the test is running
    pc,            \* where on_test_start, then the refresher thread, is
    fetched,       \* the head it fetched
    lo, hi,        \* the bisection
    pinned,        \* RECENT_BLOCKS; {} is ["latest"]
    clamped,       \* the pinned window was derived from a retention edge
    sincePin,      \* blocks processed since the pinned window's head fetch
    sinceFetch,    \* ... since the last head fetch
    hiccups,
    quiet          \* history: nothing has disturbed this probe

nodeVars == <<head, edge>>
vars == <<head, edge, running, pc, fetched, lo, hi, pinned, clamped,
          sincePin, sinceFetch, hiccups, quiet>>

Latest == {}
Probing == {"depth", "bisect", "derive"}
Lesser(m, n) == IF m < n THEN m ELSE n
Greater(m, n) == IF m > n THEN m ELSE n

TypeOK ==
    /\ head \in 0..MaxHead /\ edge \in 0..MaxHead /\ edge <= head
    /\ running \in BOOLEAN
    /\ pc \in {"boot", "latest", "head", "loop", "sleep", "done", "aborted"} \cup Probing
    /\ fetched \in 0..head
    /\ lo \in Nat /\ hi \in Nat /\ lo <= hi /\ hi <= fetched
    /\ pinned \subseteq 0..MaxHead
    /\ clamped \in BOOLEAN
    /\ sincePin \in 0..MaxAdvance
    /\ sinceFetch \in 0..MaxAdvance
    /\ hiccups \in 0..Hiccups
    /\ quiet \in BOOLEAN

Init ==
    /\ head \in StartHeads /\ edge \in 0..head
    /\ running = TRUE
    /\ pc = "boot"
    /\ fetched = 0 /\ lo = 0 /\ hi = 0
    /\ pinned = Latest /\ clamped = FALSE
    /\ sincePin = 0 /\ sinceFetch = 0
    /\ hiccups = 0 /\ quiet = FALSE

-----------------------------------------------------------------------------
\* A block is processed; the band may slide with it.
Process ==
    /\ head < MaxHead
    /\ pinned = Latest \/ sincePin < MaxAdvance
    /\ pc \in {"latest", "head"} \cup Probing => sinceFetch < MaxAdvance
    /\ head' = head + 1
    /\ edge' \in {edge, edge + 1}
    /\ sincePin' = IF pinned = Latest THEN 0 ELSE sincePin + 1
    /\ sinceFetch' = IF pc \in {"latest", "head"} \cup Probing THEN sinceFetch + 1 ELSE 0
    /\ quiet' = FALSE
    /\ UNCHANGED <<running, pc, fetched, lo, hi, pinned, clamped, hiccups>>

\* An RPC call, answered or not.
Answered == UNCHANGED <<hiccups, quiet>>
Unanswered ==
    /\ hiccups < Hiccups
    /\ hiccups' = hiccups + 1
    /\ quiet' = FALSE

\* _state_available: an unanswered call is a block without state.
Available(b) == b >= edge /\ Answered
NotAvailable(b) == (b < edge /\ Answered) \/ Unanswered

-----------------------------------------------------------------------------
\* _fetch_head, at test start and by the refresher.  hi is set for the probe:
\* the depth of the window asked for, less one.
Requested(h) == Greater(1, Lesser(Window, h))

Fetch ==
    /\ fetched' = head /\ sinceFetch' = 0
    /\ lo' = 0 /\ hi' = Lesser(Requested(head) - 1, head)
    /\ quiet' = TRUE
    /\ UNCHANGED <<nodeVars, running, pinned, clamped, sincePin, hiccups>>

KeepWindow == UNCHANGED <<pinned, clamped, sincePin>>
UseLatest == pinned' = Latest /\ clamped' = FALSE /\ sincePin' = 0

StartFetch == pc = "boot" /\ pc' = "latest" /\ Fetch

StartFetchFails ==
    /\ pc = "boot" /\ Unanswered
    /\ pc' = "loop" /\ UseLatest
    /\ UNCHANGED <<nodeVars, running, fetched, lo, hi, sinceFetch>>

\* A node without state at "latest" aborts the test.
LatestServed ==
    /\ pc = "latest" /\ Answered
    /\ pc' = "head"
    /\ UNCHANGED <<nodeVars, running, fetched, lo, hi, sinceFetch>> /\ KeepWindow

AbortTest ==
    /\ pc = "latest" /\ Unanswered
    /\ pc' = "aborted" /\ running' = FALSE
    /\ UNCHANGED <<nodeVars, fetched, lo, hi, sinceFetch>> /\ KeepWindow

HeadServed ==
    /\ pc = "head" /\ Available(fetched)
    /\ pc' = "depth"
    /\ UNCHANGED <<nodeVars, running, fetched, lo, hi, sinceFetch>> /\ KeepWindow

HeadGone ==
    /\ pc = "head" /\ NotAvailable(fetched)
    /\ pc' = "loop" /\ UseLatest
    /\ UNCHANGED <<nodeVars, running, fetched, lo, hi, sinceFetch>>

\* _probe_state_depth: the whole window first, then the bisection.
WholeWindow ==
    /\ pc = "depth"
    /\ (hi = 0 /\ Answered) \/ Available(fetched - hi)
    /\ lo' = hi /\ pc' = "derive"
    /\ UNCHANGED <<nodeVars, running, fetched, hi, sinceFetch>> /\ KeepWindow

EdgeInside ==
    /\ pc = "depth" /\ hi # 0 /\ NotAvailable(fetched - hi)
    /\ pc' = "bisect"
    /\ UNCHANGED <<nodeVars, running, fetched, lo, hi, sinceFetch>> /\ KeepWindow

Mid == (lo + hi) \div 2

\* Mutant: the loop goes on while the two ends differ, for ever.
BisectEnds_WhenEqual ==
    /\ pc = "bisect" /\ hi = lo
    /\ pc' = "derive"
    /\ UNCHANGED <<nodeVars, running, fetched, lo, hi, sinceFetch, hiccups, quiet>> /\ KeepWindow

\* Mutant: the upper end is taken, which was never seen to be served.
BisectEnds_Hi ==
    /\ pc = "bisect" /\ hi - lo <= 1
    /\ lo' = hi /\ pc' = "derive"
    /\ UNCHANGED <<nodeVars, running, fetched, hi, sinceFetch, hiccups, quiet>> /\ KeepWindow

Bisect ==
    /\ pc = "bisect" /\ hi - lo > 1
    /\ \/ Available(fetched - Mid) /\ lo' = Mid /\ UNCHANGED hi
       \/ NotAvailable(fetched - Mid) /\ hi' = Mid /\ UNCHANGED lo
    /\ UNCHANGED <<nodeVars, running, pc, fetched, sinceFetch>> /\ KeepWindow

BisectEnds ==
    /\ pc = "bisect" /\ hi - lo <= 1
    /\ pc' = "derive"
    /\ UNCHANGED <<nodeVars, running, fetched, lo, hi, sinceFetch, hiccups, quiet>> /\ KeepWindow

-----------------------------------------------------------------------------
\* _compute_block_window, from the depth found (lo), and what is pinned.
EdgeFound == lo < Requested(fetched) - 1

\* Mutant: the window reaches to the edge.
UsableWindow_NoMargin == IF EdgeFound THEN lo + 1 ELSE Requested(fetched)

UsableWindow == IF EdgeFound THEN Greater(1, lo + 1 - Margin) ELSE Requested(fetched)

\* Mutant: the margin is taken off twice.
TooShallow_TwiceMargin == EdgeFound /\ UsableWindow - Margin < MinPinned

TooShallow == EdgeFound /\ UsableWindow < MinPinned

Pin ==
    /\ pc = "derive" /\ ~TooShallow
    /\ pinned' = (fetched - UsableWindow + 1)..fetched
    /\ clamped' = EdgeFound
    /\ sincePin' = sinceFetch
    /\ pc' = "loop"
    /\ UNCHANGED <<nodeVars, running, fetched, lo, hi, sinceFetch, hiccups, quiet>>

FallBack ==
    /\ pc = "derive" /\ TooShallow
    /\ UseLatest
    /\ pc' = "loop"
    /\ UNCHANGED <<nodeVars, running, fetched, lo, hi, sinceFetch, hiccups, quiet>>

\* _block_window_refresher.
LoopCheck ==
    /\ pc = "loop"
    /\ pc' = IF running THEN "sleep" ELSE "done"
    /\ UNCHANGED <<nodeVars, running, fetched, lo, hi, sinceFetch, hiccups, quiet>> /\ KeepWindow

Refetch ==
    /\ pc = "sleep"
    /\ pc' = IF pinned = Latest THEN "loop" ELSE "depth"
    /\ Fetch

RefetchFails ==
    /\ pc = "sleep" /\ Unanswered
    /\ pc' = "loop"
    /\ UNCHANGED <<nodeVars, running, fetched, lo, hi, sinceFetch>> /\ KeepWindow

\* Locust ends the test.
TestStop ==
    /\ running /\ running' = FALSE
    /\ UNCHANGED <<nodeVars, pc, fetched, lo, hi, pinned, clamped, sincePin,
                   sinceFetch, hiccups, quiet>>

WindowStep ==
    \/ StartFetch \/ StartFetchFails \/ LatestServed \/ AbortTest
    \/ HeadServed \/ HeadGone
    \/ WholeWindow \/ EdgeInside \/ Bisect \/ BisectEnds
    \/ Pin \/ FallBack \/ LoopCheck \/ Refetch \/ RefetchFails

Next == WindowStep \/ Process \/ TestStop

\* Locust's thread runs on, and every call has a timeout of five seconds.
Spec == Init /\ [][Next]_vars
FairSpec == Spec /\ WF_vars(WindowStep) /\ WF_vars(TestStop)

-----------------------------------------------------------------------------
(* Properties.                                                             *)

\* A window clamped to a retention edge stays servable until the next one is
\* pinned, however the node's progress falls between the calls of a probe, as
\* long as no more than Margin blocks are processed meanwhile ("excludes a
\* safety margin off the edge, since the band slides forward").
ClampedServable == clamped => \A b \in pinned : b >= edge

\* _probe_state_depth is exact on a node that holds still: it finds the
\* deepest block served, for every window and every edge.
DepthIsExact == pc = "derive" /\ quiet => lo = Lesser(Requested(fetched) - 1, fetched - edge)

\* "If the band shrinks below MIN_PINNED_WINDOW mid-run, fall back to the
\* latest tag" (locustfile.py:202-203), and only then: with every call answered,
\* pinned blocks are given up only when the band, less the margin, is too
\* narrow, wherever the node moves between the calls of a probe.
FallBackOnlyIfShrunk ==
    [][pinned # Latest /\ pinned' = Latest /\ hiccups = 0 =>
          fetched - edge + 1 - Margin < MinPinned]_vars

\* The refresher ends with the test, whatever the node answers.
RefresherEnds == <>(pc \in {"done", "aborted"})
=============================================================================
