------------------------- MODULE BlockWindow_proofs -------------------------
(***************************************************************************)
(* What the block window promises, for every window, margin and band: the  *)
(* bisection is exact on a node that holds still, and a window clamped to  *)
(* a retention edge stays servable for Margin blocks.                      *)
(***************************************************************************)
EXTENDS BlockWindow, TLAPS

\* The assumption on the node: what it processes between the head fetch a
\* window is derived from and the next window fits the margin.
Paced == MaxAdvance <= Margin

\* The two halves of the type invariant: what is a number, and what is not.
NumbersOK ==
    /\ head \in 0..MaxHead /\ edge \in 0..MaxHead /\ edge <= head
    /\ fetched \in 0..head
    /\ lo \in Nat /\ hi \in Nat /\ lo <= hi /\ hi <= fetched
    /\ pinned \subseteq 0..MaxHead
    /\ sincePin \in 0..MaxAdvance
    /\ sinceFetch \in 0..MaxAdvance
    /\ hiccups \in 0..Hiccups

FlagsOK ==
    /\ running \in BOOLEAN /\ clamped \in BOOLEAN /\ quiet \in BOOLEAN
    /\ pc \in {"boot", "latest", "head", "loop", "sleep", "done", "aborted"} \cup Probing

\* While a probe is under way, the deepest block seen to be served was at or
\* above the edge as it then was: the edge has moved by no more than the
\* blocks processed since the fetch.
ProbeInv ==
    pc \in {"latest", "head"} \cup Probing => fetched - lo >= edge - sinceFetch

\* A clamped window starts Margin above the edge, less what was processed.
PinInv ==
    clamped => \A b \in pinned : b >= edge + Margin - sincePin

\* The bisection: its lower end is served, its upper end is not.
DepthInv ==
    /\ pc \in {"latest", "head", "depth"} =>
          lo = 0 /\ hi = Lesser(Requested(fetched) - 1, fetched)
    /\ pc \in {"latest", "head"} \cup Probing /\ quiet => edge <= fetched - lo
    /\ pc = "bisect" => lo < hi /\ hi <= Requested(fetched) - 1
    /\ pc = "bisect" /\ quiet => fetched - hi < edge
    /\ DepthIsExact

IInv == NumbersOK /\ FlagsOK /\ ProbeInv /\ PinInv /\ DepthInv

-----------------------------------------------------------------------------
\* A call, answered or not, moves the two history counters within their types.
LEMMA CallBounds ==
    ASSUME NumbersOK, FlagsOK, Answered \/ Unanswered
    PROVE  hiccups' \in 0..Hiccups /\ quiet' \in BOOLEAN /\ (quiet' => quiet)
<1>1. hiccups' \in 0..Hiccups
    BY WindowAssumption DEF Answered, Unanswered, NumbersOK
<1>2. quiet' \in BOOLEAN /\ (quiet' => quiet)
  <2>1. CASE Answered
    <3>1. quiet' = quiet
        BY <2>1 DEF Answered
    <3> QED BY <3>1 DEF FlagsOK
  <2>2. CASE Unanswered
    <3>1. quiet' = FALSE
        BY <2>2 DEF Unanswered
    <3> QED BY <3>1
  <2> QED BY <2>1, <2>2
<1> QED BY <1>1, <1>2

\* A block not available, in a probe nothing disturbs, is below the edge.
LEMMA NotAvailableBounds ==
    ASSUME NumbersOK, FlagsOK, NEW b \in Int, NotAvailable(b)
    PROVE  /\ hiccups' \in 0..Hiccups
           /\ quiet' \in BOOLEAN
           /\ quiet' => quiet /\ b < edge
<1>1. (Answered \/ Unanswered) /\ (b < edge \/ Unanswered)
    BY DEF NotAvailable
<1>2. hiccups' \in 0..Hiccups /\ quiet' \in BOOLEAN /\ (quiet' => quiet)
    BY <1>1, CallBounds
<1>3. quiet' => b < edge
    BY <1>1, Zenon DEF Unanswered
<1> QED BY <1>2, <1>3

\* The window asked for is at least one block, and reaches no further back
\* than genesis.
LEMMA RequestedBounds ==
    ASSUME NEW h \in Nat
    PROVE  Requested(h) \in Nat /\ 1 <= Requested(h) /\ Requested(h) <= h + 1
BY WindowAssumption DEF Requested, Greater, Lesser

\* Between two ends more than one apart, the middle is strictly inside.
LEMMA MidBounds ==
    ASSUME NEW l \in Nat, NEW h \in Nat, h - l > 1
    PROVE  (l + h) \div 2 \in Nat /\ l < (l + h) \div 2 /\ (l + h) \div 2 < h
OBVIOUS

\* The invariant holds before the first probe.
LEMMA Start == Init => IInv
<1> SUFFICES ASSUME Init PROVE IInv
    OBVIOUS
<1>1. NumbersOK /\ FlagsOK
  <2>1. NumbersOK
      BY WindowAssumption DEF Init, NumbersOK, Latest
  <2>2. FlagsOK
      BY DEF Init, FlagsOK
  <2> QED BY <2>1, <2>2
<1>2. ProbeInv /\ PinInv /\ DepthInv
    BY DEF Init, ProbeInv, PinInv, DepthInv, DepthIsExact, Probing
<1> QED BY <1>1, <1>2 DEF IInv

\* A block processed: both counters grow at least as fast as the edge.
LEMMA ProcessKeeps == IInv /\ Process => IInv'
<1> SUFFICES ASSUME IInv, Process PROVE IInv'
    OBVIOUS
<1>0. /\ NumbersOK /\ FlagsOK /\ ProbeInv /\ PinInv /\ DepthInv
      /\ edge' \in {edge, edge + 1}
    BY DEF IInv, Process, NumbersOK
<1>a. \E d \in {0, 1} : edge' = edge + d
  <2>1. edge \in Int /\ edge + 0 = edge
      BY <1>0, WindowAssumption DEF NumbersOK
  <2>2. edge' = edge \/ edge' = edge + 1
      BY <1>0
  <2> QED BY <2>1, <2>2
<1>1. NumbersOK' /\ FlagsOK'
  <2>1. NumbersOK'
      BY <1>0, WindowAssumption DEF Process, Latest, NumbersOK
  <2>2. FlagsOK'
      BY <1>0, WindowAssumption DEF Process, Latest, FlagsOK, Probing
  <2> QED BY <2>1, <2>2
<1>2. ProbeInv'
  <2> SUFFICES ASSUME pc' \in {"latest", "head"} \cup Probing
               PROVE  fetched' - lo' >= edge' - sinceFetch'
      BY DEF ProbeInv
  <2>1. /\ sinceFetch' = sinceFetch + 1 /\ fetched' = fetched /\ lo' = lo
        /\ fetched - lo >= edge - sinceFetch
      BY <1>0 DEF Process, ProbeInv
  <2>2. fetched \in Int /\ lo \in Int /\ edge \in Int /\ sinceFetch \in Int
      BY <1>0, WindowAssumption DEF NumbersOK
  <2>3. PICK d \in {0, 1} : edge' = edge + d
      BY <1>a
  <2> QED BY <2>1, <2>2, <2>3
<1>3. PinInv'
  <2> SUFFICES ASSUME clamped', NEW b \in pinned' PROVE b >= edge' + Margin - sincePin'
      BY DEF PinInv
  <2>1. pinned # Latest /\ clamped /\ b \in pinned /\ b \in Nat
      BY <1>0 DEF Process, Latest, NumbersOK
  <2>2. sincePin' = sincePin + 1 /\ b >= edge + Margin - sincePin
      BY <2>1, <1>0 DEF Process, PinInv
  <2>3. b \in Int /\ edge \in Int /\ sincePin \in Int /\ Margin \in Int
      BY <2>1, <1>0, WindowAssumption DEF NumbersOK
  <2>4. PICK d \in {0, 1} : edge' = edge + d
      BY <1>a
  <2> QED BY <2>2, <2>3, <2>4
<1>4. DepthInv'
    BY <1>0 DEF Process, DepthInv, DepthIsExact, NumbersOK, Requested, Lesser, Greater
<1> QED BY <1>1, <1>2, <1>3, <1>4 DEF IInv

\* A head fetched: the probe starts from depth zero, which is served.
LEMMA FetchKeeps ==
    ASSUME IInv, Fetch, pc' \in {"latest", "loop", "depth"},
           pc' = "loop" => pinned = Latest
    PROVE  IInv'
<1>0. /\ NumbersOK /\ FlagsOK /\ PinInv
      /\ Requested(head) \in Nat /\ 1 <= Requested(head) /\ Requested(head) <= head + 1
    BY RequestedBounds DEF IInv, NumbersOK
<1>1. NumbersOK' /\ FlagsOK'
  <2>1. NumbersOK'
    <3>1. /\ head' = head /\ edge' = edge /\ fetched' = head /\ lo' = 0
          /\ hi' = Lesser(Requested(head) - 1, head) /\ sinceFetch' = 0
          /\ pinned' = pinned /\ sincePin' = sincePin /\ hiccups' = hiccups
        BY DEF Fetch, nodeVars
    <3>2. hi' \in Nat /\ hi' <= head
        BY <1>0, <3>1, WindowAssumption DEF NumbersOK, Lesser
    <3> QED BY <1>0, <3>1, <3>2, WindowAssumption DEF NumbersOK
  <2>2. FlagsOK'
      BY <1>0 DEF Fetch, nodeVars, Lesser, FlagsOK, Probing
  <2> QED BY <2>1, <2>2
<1>2. ProbeInv'
    BY <1>0 DEF Fetch, NumbersOK, nodeVars, ProbeInv
<1>3. PinInv'
    BY <1>0 DEF Fetch, nodeVars, PinInv
<1>4. DepthInv'
  <2>1. lo' = 0 /\ fetched' = head /\ hi' = Lesser(Requested(head) - 1, head)
        /\ edge' = edge /\ edge <= head
      BY <1>0 DEF Fetch, nodeVars, NumbersOK
  <2>2. Requested(fetched') = Requested(fetched)'
      BY DEF Requested, Lesser, Greater
  <2> QED BY <2>1, <2>2, <1>0 DEF DepthInv, DepthIsExact, Probing, NumbersOK, Lesser
<1> QED BY <1>1, <1>2, <1>3, <1>4 DEF IInv

\* The probe's own steps leave the node and the pinned window alone.
LEMMA ProbeKeeps ==
    ASSUME IInv, LatestServed \/ HeadServed \/ WholeWindow \/ EdgeInside \/ Bisect \/ BisectEnds
    PROVE  IInv'
<1>0. /\ NumbersOK /\ FlagsOK /\ ProbeInv /\ PinInv /\ DepthInv
      /\ Requested(fetched) \in Nat /\ 1 <= Requested(fetched)
    BY RequestedBounds DEF IInv, NumbersOK
<1>1. CASE LatestServed
  <2>1. NumbersOK' /\ FlagsOK' /\ PinInv'
    <3>1. NumbersOK'
        BY <1>0, <1>1 DEF LatestServed, KeepWindow, Answered, nodeVars, NumbersOK
    <3>2. FlagsOK'
        BY <1>0, <1>1 DEF LatestServed, KeepWindow, Answered, nodeVars, FlagsOK, Probing
    <3>3. PinInv'
        BY <1>0, <1>1 DEF LatestServed, KeepWindow, Answered, nodeVars, PinInv
    <3> QED BY <3>1, <3>2, <3>3
  <2>2. ProbeInv' /\ DepthInv'
      BY <1>0, <1>1 DEF LatestServed, KeepWindow, Answered, nodeVars, ProbeInv, DepthInv, DepthIsExact, Probing, Requested, Lesser, Greater
  <2> QED BY <2>1, <2>2 DEF IInv
<1>2. CASE HeadServed
  <2>1. NumbersOK' /\ FlagsOK' /\ PinInv'
    <3>1. NumbersOK'
        BY <1>0, <1>2 DEF HeadServed, Available, KeepWindow, Answered, nodeVars, NumbersOK
    <3>2. FlagsOK'
        BY <1>0, <1>2 DEF HeadServed, Available, KeepWindow, Answered, nodeVars, FlagsOK, Probing
    <3>3. PinInv'
        BY <1>0, <1>2 DEF HeadServed, Available, KeepWindow, Answered, nodeVars, PinInv
    <3> QED BY <3>1, <3>2, <3>3
  <2>2. ProbeInv' /\ DepthInv'
      BY <1>0, <1>2 DEF HeadServed, Available, KeepWindow, Answered, nodeVars, ProbeInv, DepthInv, DepthIsExact, Probing, Requested, Lesser, Greater
  <2> QED BY <2>1, <2>2 DEF IInv
<1>3. CASE WholeWindow
  <2>0. /\ pc = "depth" /\ pc' = "derive" /\ lo' = hi /\ hi' = hi
        /\ fetched' = fetched /\ edge' = edge /\ head' = head /\ sinceFetch' = sinceFetch
        /\ hi = 0 \/ fetched - hi >= edge
        /\ quiet' = quiet /\ hiccups' = hiccups /\ running' = running
        /\ pinned' = pinned /\ clamped' = clamped /\ sincePin' = sincePin
      BY <1>3 DEF WholeWindow, Available, Answered, KeepWindow, nodeVars
  <2>1. NumbersOK' /\ FlagsOK' /\ PinInv'
    <3>1. NumbersOK'
        BY <1>0, <2>0 DEF NumbersOK
    <3>2. FlagsOK'
        BY <1>0, <2>0 DEF FlagsOK, Probing
    <3>3. PinInv'
        BY <1>0, <2>0 DEF PinInv
    <3> QED BY <3>1, <3>2, <3>3
  <2>2. ProbeInv'
      BY <1>0, <2>0 DEF ProbeInv, NumbersOK, Probing
  <2>3. hi = Lesser(Requested(fetched) - 1, fetched) /\ lo = 0
      BY <1>0, <2>0 DEF DepthInv
  <2>4. quiet => edge <= fetched - hi
      BY <1>0, <2>0, <2>3 DEF DepthInv, Probing
  <2>5. quiet => hi = Lesser(Requested(fetched) - 1, fetched - edge)
      BY <1>0, <2>0, <2>3, <2>4 DEF NumbersOK, Lesser
  <2>6. Requested(fetched)' = Requested(fetched)
      BY <2>0 DEF Requested, Lesser, Greater
  <2>7. DepthIsExact'
      BY <2>0, <2>5, <2>6 DEF DepthIsExact, Lesser
  <2>8. DepthInv'
      BY <2>0, <2>4, <2>7 DEF DepthInv
  <2> QED BY <2>1, <2>2, <2>8 DEF IInv
<1>4. CASE EdgeInside
  <2>0. /\ pc = "depth" /\ pc' = "bisect" /\ hi # 0 /\ lo' = lo /\ hi' = hi
        /\ fetched' = fetched /\ edge' = edge /\ head' = head /\ sinceFetch' = sinceFetch
        /\ running' = running /\ NotAvailable(fetched - hi)
        /\ pinned' = pinned /\ clamped' = clamped /\ sincePin' = sincePin
      BY <1>4 DEF EdgeInside, KeepWindow, nodeVars
  <2>a. fetched - hi \in Int
      BY <1>0, WindowAssumption DEF NumbersOK
  <2>b. /\ hiccups' \in 0..Hiccups
        /\ quiet' \in BOOLEAN /\ (quiet' => quiet /\ fetched - hi < edge)
      BY <2>0, <2>a, <1>0, NotAvailableBounds
  <2>1. NumbersOK' /\ FlagsOK' /\ PinInv'
    <3>1. NumbersOK'
        BY <1>0, <2>0, <2>b DEF NumbersOK
    <3>2. FlagsOK'
        BY <1>0, <2>0, <2>b DEF FlagsOK, Probing
    <3>3. PinInv'
        BY <1>0, <2>0, <2>b DEF PinInv
    <3> QED BY <3>1, <3>2, <3>3
  <2>2. ProbeInv'
      BY <1>0, <2>0, <2>b DEF ProbeInv, NumbersOK, Probing
  <2>3. hi = Lesser(Requested(fetched) - 1, fetched) /\ lo = 0
      BY <1>0, <2>0, <2>b DEF DepthInv
  <2>4. lo < hi /\ hi <= Requested(fetched) - 1
      BY <2>0, <2>b, <2>3, <1>0 DEF NumbersOK, Lesser
  <2>5. Requested(fetched)' = Requested(fetched)
      BY <2>0, <2>b DEF Requested, Lesser, Greater
  <2>6. quiet' => edge <= fetched - lo
      BY <1>0, <2>0, <2>b DEF DepthInv, Probing
  <2>7. DepthInv'
      BY <2>0, <2>b, <2>4, <2>5, <2>6 DEF DepthInv, DepthIsExact
  <2> QED BY <2>1, <2>2, <2>7 DEF IInv
<1>5. CASE Bisect
  <2>0. /\ pc = "bisect" /\ pc' = "bisect" /\ hi - lo > 1
        /\ fetched' = fetched /\ edge' = edge /\ head' = head /\ sinceFetch' = sinceFetch
        /\ running' = running
        /\ pinned' = pinned /\ clamped' = clamped /\ sincePin' = sincePin
      BY <1>5 DEF Bisect, KeepWindow, nodeVars
  <2>1. Mid \in Nat /\ lo < Mid /\ Mid < hi
      BY <1>0, <2>0, MidBounds DEF Mid, NumbersOK
  <2>2. \/ /\ fetched - Mid >= edge /\ lo' = Mid /\ hi' = hi
           /\ quiet' = quiet /\ hiccups' = hiccups
        \/ /\ hi' = Mid /\ lo' = lo /\ hiccups' \in 0..Hiccups
           /\ quiet' \in BOOLEAN /\ (quiet' => quiet /\ fetched - Mid < edge)
    <3>1. fetched - Mid \in Int
        BY <2>1, <1>0, WindowAssumption DEF NumbersOK
    <3>2. \/ Available(fetched - Mid) /\ lo' = Mid /\ hi' = hi
          \/ NotAvailable(fetched - Mid) /\ hi' = Mid /\ lo' = lo
        BY <1>5 DEF Bisect
    <3>3. Available(fetched - Mid) =>
             fetched - Mid >= edge /\ quiet' = quiet /\ hiccups' = hiccups
        BY DEF Available, Answered
    <3> QED BY <3>1, <3>2, <3>3, <1>0, NotAvailableBounds
  <2>3. NumbersOK' /\ FlagsOK' /\ PinInv'
    <3>1. NumbersOK'
        BY <1>0, <2>0, <2>1, <2>2 DEF NumbersOK
    <3>2. FlagsOK'
        BY <1>0, <2>0, <2>1, <2>2 DEF FlagsOK, Probing
    <3>3. PinInv'
        BY <1>0, <2>0, <2>1, <2>2 DEF PinInv
    <3> QED BY <3>1, <3>2, <3>3
  <2>4. ProbeInv'
      BY <1>0, <2>0, <2>1, <2>2 DEF ProbeInv, NumbersOK, Probing
  <2>5. Requested(fetched)' = Requested(fetched)
      BY <2>0 DEF Requested, Lesser, Greater
  <2>6. lo < hi /\ hi <= Requested(fetched) - 1 /\ (quiet => edge <= fetched - lo)
        /\ (quiet => fetched - hi < edge)
      BY <1>0, <2>0 DEF DepthInv, Probing
  <2>7. lo' < hi' /\ hi' <= Requested(fetched) - 1 /\ (quiet' => edge <= fetched - lo')
        /\ (quiet' => fetched - hi' < edge)
      BY <1>0, <2>1, <2>2, <2>6 DEF NumbersOK
  <2>8. DepthInv'
      BY <2>0, <2>5, <2>7 DEF DepthInv, DepthIsExact
  <2> QED BY <2>3, <2>4, <2>8 DEF IInv
<1>6. CASE BisectEnds
  <2>0. /\ pc = "bisect" /\ pc' = "derive" /\ hi - lo <= 1 /\ lo' = lo /\ hi' = hi
        /\ fetched' = fetched /\ edge' = edge /\ head' = head /\ sinceFetch' = sinceFetch
        /\ quiet' = quiet /\ hiccups' = hiccups /\ running' = running
        /\ pinned' = pinned /\ clamped' = clamped /\ sincePin' = sincePin
      BY <1>6 DEF BisectEnds, KeepWindow, nodeVars
  <2>1. NumbersOK' /\ FlagsOK' /\ PinInv'
    <3>1. NumbersOK'
        BY <1>0, <2>0 DEF NumbersOK
    <3>2. FlagsOK'
        BY <1>0, <2>0 DEF FlagsOK, Probing
    <3>3. PinInv'
        BY <1>0, <2>0 DEF PinInv
    <3> QED BY <3>1, <3>2, <3>3
  <2>2. ProbeInv'
      BY <1>0, <2>0 DEF ProbeInv, NumbersOK, Probing
  <2>3. lo < hi /\ hi <= Requested(fetched) - 1 /\ (quiet => edge <= fetched - lo)
        /\ (quiet => fetched - hi < edge)
      BY <1>0, <2>0 DEF DepthInv, Probing
  <2>4. quiet => lo = Lesser(Requested(fetched) - 1, fetched - edge)
      BY <1>0, <2>0, <2>3 DEF NumbersOK, Lesser
  <2>5. Requested(fetched)' = Requested(fetched)
      BY <2>0 DEF Requested, Lesser, Greater
  <2>6. DepthIsExact'
      BY <2>0, <2>4, <2>5 DEF DepthIsExact, Lesser
  <2>7. DepthInv'
      BY <2>0, <2>3, <2>6 DEF DepthInv
  <2> QED BY <2>1, <2>2, <2>7 DEF IInv
<1> QED BY <1>1, <1>2, <1>3, <1>4, <1>5, <1>6

\* The window pinned from a probe's result.
LEMMA PinKeeps == IInv /\ Pin => IInv'
<1> SUFFICES ASSUME IInv, Pin PROVE IInv'
    OBVIOUS
<1>0. /\ NumbersOK /\ FlagsOK /\ ProbeInv
      /\ Requested(fetched) \in Nat /\ 1 <= Requested(fetched) /\ Requested(fetched) <= fetched + 1
    BY RequestedBounds DEF IInv, NumbersOK
<1>1. /\ pc = "derive" /\ pc' = "loop" /\ ~TooShallow
      /\ pinned' = (fetched - UsableWindow + 1)..fetched
      /\ clamped' = EdgeFound /\ sincePin' = sinceFetch
      /\ head' = head /\ edge' = edge /\ running' = running /\ fetched' = fetched
      /\ lo' = lo /\ hi' = hi /\ sinceFetch' = sinceFetch /\ hiccups' = hiccups /\ quiet' = quiet
    BY DEF Pin, nodeVars
<1>2. UsableWindow \in Nat /\ 1 <= UsableWindow /\ UsableWindow <= fetched + 1
    BY <1>0, WindowAssumption DEF UsableWindow, Greater, NumbersOK
<1>3. clamped' \in BOOLEAN
    BY <1>1 DEF EdgeFound
<1>4. pinned' \subseteq 0..MaxHead
    BY <1>0, <1>1, <1>2, WindowAssumption DEF NumbersOK
<1>5. NumbersOK' /\ FlagsOK'
  <2>1. NumbersOK'
      BY <1>0, <1>1, <1>3, <1>4 DEF NumbersOK
  <2>2. FlagsOK'
      BY <1>0, <1>1, <1>3, <1>4 DEF FlagsOK, Probing
  <2> QED BY <2>1, <2>2
<1>6. PinInv'
  <2> SUFFICES ASSUME EdgeFound, NEW b \in pinned' PROVE b >= edge + Margin - sinceFetch
      BY <1>1 DEF PinInv
  <2>1. UsableWindow >= 2
      BY <1>1, WindowAssumption, <1>2 DEF TooShallow
  <2>2. UsableWindow = lo + 1 - Margin
      BY <2>1, <1>0, WindowAssumption DEF UsableWindow, Greater, NumbersOK
  <2>3. b \in Int /\ b >= fetched - lo + Margin
      BY <1>0, <1>1, <2>2, WindowAssumption DEF NumbersOK
  <2>4. fetched - lo >= edge - sinceFetch
      BY <1>0, <1>1 DEF ProbeInv, Probing
  <2> QED BY <2>3, <2>4, <1>0, WindowAssumption DEF NumbersOK
<1>7. ProbeInv' /\ DepthInv'
    BY <1>1 DEF ProbeInv, DepthInv, DepthIsExact, Probing
<1> QED BY <1>5, <1>6, <1>7 DEF IInv

\* The steps that end a probe, or the thread, without a new window.
LEMMA RestKeeps ==
    ASSUME IInv, StartFetchFails \/ AbortTest \/ HeadGone \/ FallBack \/ LoopCheck
                 \/ RefetchFails \/ TestStop
    PROVE  IInv'
<1>0. NumbersOK /\ FlagsOK /\ ProbeInv /\ PinInv /\ DepthInv
    BY DEF IInv
<1>1. CASE StartFetchFails \/ HeadGone \/ FallBack
  <2>1. /\ pc' = "loop" /\ pinned' = {} /\ clamped' = FALSE /\ sincePin' = 0
        /\ head' = head /\ edge' = edge /\ running' = running /\ fetched' = fetched
        /\ lo' = lo /\ hi' = hi /\ sinceFetch' = sinceFetch
        /\ Answered \/ Unanswered
      BY <1>1 DEF StartFetchFails, HeadGone, FallBack, UseLatest, Latest, nodeVars,
                  NotAvailable, Answered
  <2>a. hiccups' \in 0..Hiccups /\ quiet' \in BOOLEAN
      BY <1>0, <2>1, CallBounds
  <2>2. NumbersOK' /\ FlagsOK'
    <3>1. NumbersOK'
        BY <1>0, <2>1, <2>a, WindowAssumption DEF NumbersOK
    <3>2. FlagsOK'
        BY <1>0, <2>1, <2>a, WindowAssumption DEF FlagsOK, Probing
    <3> QED BY <3>1, <3>2
  <2>3. ProbeInv' /\ PinInv' /\ DepthInv'
      BY <2>1 DEF ProbeInv, PinInv, DepthInv, DepthIsExact, Probing
  <2> QED BY <2>2, <2>3 DEF IInv
<1>2. CASE AbortTest \/ LoopCheck \/ RefetchFails
  <2>1. /\ pc' \in {"aborted", "sleep", "done", "loop"} /\ running' \in BOOLEAN
        /\ pinned' = pinned /\ clamped' = clamped /\ sincePin' = sincePin
        /\ head' = head /\ edge' = edge /\ fetched' = fetched
        /\ lo' = lo /\ hi' = hi /\ sinceFetch' = sinceFetch
        /\ Answered \/ Unanswered
      BY <1>0, <1>2 DEF AbortTest, LoopCheck, RefetchFails, KeepWindow, nodeVars, Answered, FlagsOK
  <2>a. hiccups' \in 0..Hiccups /\ quiet' \in BOOLEAN
      BY <1>0, <2>1, CallBounds
  <2>2. NumbersOK' /\ FlagsOK' /\ PinInv'
    <3>1. NumbersOK'
        BY <1>0, <2>1, <2>a DEF NumbersOK
    <3>2. FlagsOK'
        BY <1>0, <2>1, <2>a DEF FlagsOK, Probing
    <3>3. PinInv'
        BY <1>0, <2>1, <2>a DEF PinInv
    <3> QED BY <3>1, <3>2, <3>3
  <2>3. ProbeInv' /\ DepthInv'
      BY <2>1 DEF ProbeInv, DepthInv, DepthIsExact, Probing
  <2> QED BY <2>2, <2>3 DEF IInv
<1>3. CASE TestStop
  <2>1. NumbersOK' /\ FlagsOK' /\ PinInv'
    <3>1. NumbersOK'
        BY <1>0, <1>3 DEF TestStop, nodeVars, NumbersOK
    <3>2. FlagsOK'
        BY <1>0, <1>3 DEF TestStop, nodeVars, FlagsOK, Probing
    <3>3. PinInv'
        BY <1>0, <1>3 DEF TestStop, nodeVars, PinInv
    <3> QED BY <3>1, <3>2, <3>3
  <2>2. ProbeInv' /\ DepthInv'
      BY <1>0, <1>3 DEF TestStop, nodeVars, ProbeInv, DepthInv, DepthIsExact, Probing, Requested, Lesser, Greater
  <2> QED BY <2>1, <2>2 DEF IInv
<1> QED BY <1>1, <1>2, <1>3

\* Every step of the probe, the refresher and the node keeps the invariant.
LEMMA Kept == IInv /\ [Next]_vars => IInv'
<1> SUFFICES ASSUME IInv, [Next]_vars PROVE IInv'
    OBVIOUS
<1>1. CASE Process
    BY <1>1, ProcessKeeps
<1>2. CASE StartFetch
    BY <1>2, FetchKeeps DEF StartFetch
<1>3. CASE Refetch
    BY <1>3, FetchKeeps DEF Refetch
<1>4. CASE LatestServed \/ HeadServed \/ WholeWindow \/ EdgeInside \/ Bisect \/ BisectEnds
    BY <1>4, ProbeKeeps
<1>5. CASE Pin
    BY <1>5, PinKeeps
<1>6. CASE StartFetchFails \/ AbortTest \/ HeadGone \/ FallBack \/ LoopCheck
           \/ RefetchFails \/ TestStop
    BY <1>6, RestKeeps
<1>7. CASE UNCHANGED vars
  <2>1. NumbersOK'
      BY <1>7 DEF vars, IInv, NumbersOK
  <2>2. FlagsOK'
      BY <1>7 DEF vars, IInv, FlagsOK, Probing
  <2>3. ProbeInv' /\ PinInv'
      BY <1>7 DEF vars, IInv, ProbeInv, PinInv, Probing
  <2>4. DepthInv'
      BY <1>7 DEF vars, IInv, DepthInv, DepthIsExact, Probing, Requested, Lesser, Greater
  <2> QED BY <2>1, <2>2, <2>3, <2>4 DEF IInv
<1> QED BY <1>1, <1>2, <1>3, <1>4, <1>5, <1>6, <1>7 DEF Next, WindowStep

-----------------------------------------------------------------------------
\* The inductive invariant of the block window.
THEOREM Inductive == Spec => []IInv
<1> QED BY Start, Kept, PTL DEF Spec

\* Type correctness of the block window.
THEOREM TypeCorrect == Spec => []TypeOK
<1>1. IInv => TypeOK
    BY DEF IInv, NumbersOK, FlagsOK, TypeOK
<1> QED BY <1>1, Inductive, PTL

\* _probe_state_depth's bisection finds the deepest block served, for every
\* window, head and retention edge, on a node that holds still meanwhile.
THEOREM BisectionExact == Spec => []DepthIsExact
<1>1. IInv => DepthIsExact
    BY DEF IInv, DepthInv
<1> QED BY <1>1, Inductive, PTL

\* A clamped window is servable until it is replaced, provided the node
\* processes no more than _safety_margin() blocks meanwhile.
THEOREM ClampedStaysServable == Paced => (Spec => []ClampedServable)
<1> SUFFICES ASSUME Paced PROVE Spec => []ClampedServable
    OBVIOUS
<1>1. IInv => ClampedServable
  <2> SUFFICES ASSUME IInv, clamped, NEW b \in pinned PROVE b >= edge
      BY DEF ClampedServable
  <2>1. b >= edge + Margin - sincePin /\ b \in Nat
      BY DEF IInv, PinInv, NumbersOK
  <2> QED BY <2>1, WindowAssumption DEF IInv, NumbersOK, Paced
<1> QED BY <1>1, Inductive, PTL

-----------------------------------------------------------------------------
\* What a probe with every call answered knows of the edge it found: it was
\* there when the probe saw it, and only moves forward.
NarrowInv ==
    /\ pc \in {"boot", "latest", "head"} => pinned = Latest
    /\ hiccups = 0 /\ pc = "bisect" => fetched - hi < edge
    /\ hiccups = 0 /\ pc = "derive" /\ EdgeFound => fetched - lo - 1 < edge

LEMMA NarrowStep == IInv /\ NarrowInv /\ [Next]_vars => NarrowInv'
<1> SUFFICES ASSUME IInv, NarrowInv, [Next]_vars PROVE NarrowInv'
    OBVIOUS
<1> USE DEF NarrowInv
<1>0. /\ head \in Nat /\ edge \in Nat /\ fetched \in Nat /\ lo \in Nat /\ hi \in Nat
      /\ lo <= hi /\ hi <= fetched /\ hiccups \in Nat
    BY WindowAssumption DEF IInv, NumbersOK
<1>1. CASE Process
  <2>1. edge' >= edge /\ edge' \in Nat
      BY <1>0, <1>1 DEF Process
  <2>2. UNCHANGED <<pc, fetched, lo, hi, pinned, hiccups>>
      BY <1>1 DEF Process
  <2>3. EdgeFound' <=> EdgeFound
      BY <2>2 DEF EdgeFound
  <2> QED BY <1>0, <2>1, <2>2, <2>3
<1>2. CASE TestStop
    BY <1>2 DEF TestStop, EdgeFound, nodeVars
<1>3. CASE StartFetch \/ LatestServed
    BY <1>3 DEF StartFetch, LatestServed, Fetch, KeepWindow
<1>4. CASE StartFetchFails \/ AbortTest \/ HeadServed \/ HeadGone \/ Pin \/ FallBack \/ LoopCheck
           \/ Refetch \/ RefetchFails
    BY <1>4 DEF StartFetchFails, AbortTest, HeadServed, HeadGone, Pin, FallBack, LoopCheck,
                Refetch, RefetchFails
<1>5. CASE WholeWindow
  <2>1. Requested(fetched) \in Nat /\ Requested(fetched) <= fetched + 1 /\ 1 <= Requested(fetched)
      BY <1>0, RequestedBounds
  <2>2. hi = Requested(fetched) - 1
      BY <1>0, <1>5, <2>1 DEF WholeWindow, IInv, DepthInv, Lesser
  <2>3. lo' = hi /\ fetched' = fetched /\ pc' = "derive"
      BY <1>5 DEF WholeWindow
  <2>4. ~EdgeFound'
      BY <2>1, <2>2, <2>3 DEF EdgeFound
  <2> QED BY <2>3, <2>4
<1>6. CASE EdgeInside
  <2>1. hiccups' = 0 => fetched - hi < edge
      BY <1>0, <1>6 DEF EdgeInside, NotAvailable, Unanswered
  <2> QED BY <1>6, <2>1 DEF EdgeInside, nodeVars
<1>7. CASE Bisect
  <2>1. pc = "bisect" /\ pc' = "bisect" /\ UNCHANGED <<fetched, edge>>
      BY <1>7 DEF Bisect, nodeVars
  <2>2. CASE Available(fetched - Mid) /\ UNCHANGED hi
      BY <2>1, <2>2 DEF Available, Answered
  <2>3. CASE NotAvailable(fetched - Mid) /\ hi' = Mid
    <3>1. hiccups' = 0 => fetched - Mid < edge
        BY <1>0, <2>3 DEF NotAvailable, Unanswered
    <3> QED BY <2>1, <2>3, <3>1
  <2> QED BY <1>7, <2>2, <2>3 DEF Bisect
<1>8. CASE BisectEnds
  <2>1. /\ pc = "bisect" /\ hi - lo <= 1
        /\ UNCHANGED <<fetched, edge, lo, hi, hiccups>> /\ pc' = "derive"
      BY <1>8 DEF BisectEnds, nodeVars
  <2> QED BY <1>0, <2>1
<1>9. CASE UNCHANGED vars
    BY <1>9 DEF vars, EdgeFound
<1> QED BY <1>1, <1>2, <1>3, <1>4, <1>5, <1>6, <1>7, <1>8, <1>9 DEF Next, WindowStep

\* locustfile.py:202-203: with every call answered, pinned blocks are given up
\* for "latest" only where the band is too narrow for them, for every window,
\* margin and way the band moves during a probe.
THEOREM FallsBackOnlyIfShrunk == Spec => FallBackOnlyIfShrunk
<1>1. Init => NarrowInv
    BY DEF Init, NarrowInv
<1>2. IInv /\ NarrowInv /\ [Next]_vars =>
        [pinned # Latest /\ pinned' = Latest /\ hiccups = 0 =>
            fetched - edge + 1 - Margin < MinPinned]_vars
  <2> SUFFICES ASSUME IInv, NarrowInv, Next, pinned # Latest, pinned' = Latest, hiccups = 0
               PROVE  fetched - edge + 1 - Margin < MinPinned
      BY DEF vars
  <2>0. edge \in Nat /\ fetched \in Nat /\ lo \in Nat
      BY WindowAssumption DEF IInv, NumbersOK
  <2>1. CASE FallBack
    <3>1. EdgeFound /\ UsableWindow < MinPinned /\ pc = "derive"
        BY <2>1 DEF FallBack, TooShallow
    <3>2. lo + 1 - Margin <= UsableWindow
        BY <2>0, <3>1, WindowAssumption DEF UsableWindow, Greater
    <3>3. UsableWindow \in Int
        BY <2>0, <3>1, WindowAssumption DEF UsableWindow, Greater
    <3>4. fetched - lo - 1 < edge
        BY <3>1 DEF NarrowInv
    <3> QED BY <2>0, <3>1, <3>2, <3>3, <3>4, WindowAssumption
  <2>2. CASE Pin
    <3>1. Requested(fetched) \in Nat /\ 1 <= Requested(fetched)
        BY <2>0, RequestedBounds
    <3>2. UsableWindow \in Int /\ UsableWindow >= 1
        BY <2>0, <3>1, WindowAssumption DEF UsableWindow, Greater
    <3>3. fetched \in (fetched - UsableWindow + 1)..fetched
        BY <2>0, <3>2
    <3>4. pinned' # Latest
        BY <2>2, <3>3 DEF Pin, Latest
    <3> QED BY <3>4
  <2>3. CASE StartFetchFails \/ HeadGone
      BY <2>3 DEF StartFetchFails, HeadGone, NarrowInv
  <2>4. CASE UNCHANGED pinned
      BY <2>4
  <2> QED BY <2>1, <2>2, <2>3, <2>4 DEF Next, WindowStep, StartFetch, LatestServed, AbortTest,
             HeadServed, WholeWindow, EdgeInside, Bisect, BisectEnds, LoopCheck, Refetch,
             RefetchFails, Process, TestStop, Fetch, KeepWindow
<1> QED BY <1>1, <1>2, NarrowStep, Inductive, PTL DEF Spec, FallBackOnlyIfShrunk

-----------------------------------------------------------------------------
(* RefresherEnds, but for fairness: a probe goes through its stages, and a  *)
(* bisection halves what it searches.  Only the refresher's loop goes round.*)

StagesLeft ==
    CASE pc = "sleep"  -> 8 [] pc = "boot"   -> 7 [] pc = "latest" -> 6
      [] pc = "head"   -> 5 [] pc = "depth"  -> 4 [] pc = "bisect" -> 3
      [] pc = "derive" -> 2 [] pc = "loop"   -> 1 [] OTHER         -> 0
Open == hi - lo

Nearer == StagesLeft' < StagesLeft \/ (UNCHANGED StagesLeft /\ Open' < Open)
Halves == 2 * Open' <= Open + 1
GoesRound == LoopCheck /\ running

LEMMA ProbeNearer ==
    IInv /\ [Next]_vars =>
        /\ WindowStep /\ ~GoesRound => Nearer
        /\ Bisect => Halves
        /\ WindowStep \/ UNCHANGED <<StagesLeft, Open>>
<1> SUFFICES ASSUME IInv, [Next]_vars
             PROVE  /\ WindowStep /\ ~GoesRound => Nearer
                    /\ Bisect => Halves
                    /\ WindowStep \/ UNCHANGED <<StagesLeft, Open>>
    OBVIOUS
<1>0. lo \in Nat /\ hi \in Nat /\ lo <= hi
    BY DEF IInv, NumbersOK
<1>1. Bisect => Halves /\ Nearer
  <2> SUFFICES ASSUME Bisect PROVE Halves /\ Nearer
      OBVIOUS
  <2>1. hi - lo > 1 /\ pc' = pc
      BY DEF Bisect
  <2>2. Mid \in Nat /\ lo < Mid /\ Mid < hi
      BY <1>0, <2>1, MidBounds DEF Mid
  <2>3. lo + hi - 1 <= 2 * Mid /\ 2 * Mid <= lo + hi
      BY <1>0 DEF Mid
  <2>4. (lo' = Mid /\ hi' = hi) \/ (lo' = lo /\ hi' = Mid)
      BY DEF Bisect
  <2>5. Halves
      BY <1>0, <2>2, <2>3, <2>4 DEF Halves, Open
  <2>6. Open' < Open /\ StagesLeft' = StagesLeft
      BY <1>0, <2>1, <2>2, <2>4 DEF Open, StagesLeft
  <2> QED BY <2>5, <2>6 DEF Nearer
<1>2. WindowStep /\ ~GoesRound /\ ~Bisect => Nearer
  <2>1. CASE StartFetch \/ StartFetchFails
      BY <2>1 DEF StartFetch, StartFetchFails, StagesLeft, Nearer
  <2>2. CASE LatestServed \/ AbortTest
      BY <2>2 DEF LatestServed, AbortTest, StagesLeft, Nearer
  <2>3. CASE HeadServed \/ HeadGone
      BY <2>3 DEF HeadServed, HeadGone, StagesLeft, Nearer
  <2>4. CASE WholeWindow \/ EdgeInside
      BY <2>4 DEF WholeWindow, EdgeInside, StagesLeft, Nearer
  <2>5. CASE BisectEnds \/ Pin \/ FallBack
      BY <2>5 DEF BisectEnds, Pin, FallBack, StagesLeft, Nearer
  <2>6. CASE LoopCheck /\ ~running
      BY <2>6 DEF LoopCheck, StagesLeft, Nearer
  <2>7. CASE Refetch \/ RefetchFails
      BY <2>7 DEF Refetch, RefetchFails, StagesLeft, Nearer
  <2> QED BY <2>1, <2>2, <2>3, <2>4, <2>5, <2>6, <2>7 DEF WindowStep, GoesRound
<1>3. WindowStep \/ UNCHANGED <<StagesLeft, Open>>
  <2>1. CASE Process \/ TestStop \/ UNCHANGED vars
      BY <2>1 DEF Process, TestStop, vars, StagesLeft, Open
  <2> QED BY <2>1 DEF Next
<1> QED BY <1>1, <1>2, <1>3

\* The safety half of RefresherEnds: whatever the node answers and wherever it
\* moves, a probe comes nearer to its end with every call, a call of the
\* bisection halves the depths in question, and once the test has stopped
\* nothing sends the thread round its loop again.
THEOREM ProbesAreFinite ==
    Spec => /\ [](StagesLeft \in Nat /\ Open \in Nat)
            /\ [][/\ WindowStep /\ ~GoesRound => Nearer
                  /\ Bisect => Halves
                  /\ WindowStep \/ UNCHANGED <<StagesLeft, Open>>]_vars
<1>1. IInv => StagesLeft \in Nat /\ Open \in Nat
  <2> SUFFICES ASSUME IInv PROVE StagesLeft \in Nat /\ Open \in Nat
      OBVIOUS
  <2>1. StagesLeft \in Nat
      BY DEF StagesLeft
  <2>2. Open \in Nat
      BY DEF IInv, NumbersOK, Open
  <2> QED BY <2>1, <2>2
<1>2. IInv /\ [Next]_vars =>
        [/\ WindowStep /\ ~GoesRound => Nearer
         /\ Bisect => Halves
         /\ WindowStep \/ UNCHANGED <<StagesLeft, Open>>]_vars
    BY ProbeNearer
<1> QED BY <1>1, <1>2, Inductive, PTL DEF Spec
=============================================================================
