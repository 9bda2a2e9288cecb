---------------------------- MODULE MockCl_proofs ---------------------------
(***************************************************************************)
(* Proofs about the mock CL's files and calls: PayloadFile, for streams    *)
(* and recordings of any length, and EngineRpc, for every budget, JWT      *)
(* window and clock rate.                                                  *)
(***************************************************************************)
EXTENDS PayloadFile, EngineRpc, SequenceTheorems, WellFoundedInduction, TLAPS

-----------------------------------------------------------------------------
(* Induction, stated over a set of numbers: the library's theorems take an *)
(* operator, which no prover here instantiates.                            *)

\* A set of numbers has a smallest one.
LEMMA Smallest ==
    ASSUME NEW T \in SUBSET Nat, T # {}
    PROVE  \E n \in T : \A m \in T : ~(m < n)
<1>1. \E n \in T : \A m \in T : ~(<<m, n>> \in OpToRel(<, Nat))
  BY NatLessThanWellFounded, WFMin
<1>2. QED
  BY <1>1 DEF OpToRel

\* A set that holds 0, and with a number the next one, holds all of them.
LEMMA Induct ==
    ASSUME NEW S \in SUBSET Nat, 0 \in S, \A n \in S : n + 1 \in S
    PROVE  S = Nat
<1> DEFINE T == Nat \ S
<1>1. SUFFICES ASSUME T # {} PROVE FALSE
  OBVIOUS
<1>2. PICK n \in T : \A m \in T : ~(m < n)
  <2>1. T \in SUBSET Nat
    OBVIOUS
  <2> HIDE DEF T
  <2>2. QED
    BY <1>1, <2>1, Smallest
<1>3. n # 0 /\ n - 1 \in Nat
  OBVIOUS
<1>4. n - 1 \in S
  BY <1>2, <1>3
<1>5. (n - 1) + 1 = n
  OBVIOUS
<1>6. QED
  BY <1>4, <1>5

\* What is computed one step at a time, as far as N, is a function.
LEMMA Steps ==
    ASSUME NEW S, NEW first \in S, NEW N \in Nat, NEW step \in [1..N -> [S -> S]]
    PROVE  \E f \in [0..N -> S] : f[0] = first /\ \A i \in 1..N : f[i] = step[i][f[i - 1]]
<1> DEFINE F(n) == {f \in [0..n -> S] : f[0] = first /\ \A i \in 1..n : f[i] = step[i][f[i - 1]]}
           T == {n \in Nat : n <= N => F(n) # {}}
<1>1. 0 \in T
  <2>1. [i \in 0..0 |-> first] \in F(0)
    OBVIOUS
  <2>2. QED
    BY <2>1
<1>2. ASSUME NEW n \in T PROVE n + 1 \in T
  <2>1. SUFFICES ASSUME n + 1 <= N PROVE F(n + 1) # {}
    OBVIOUS
  <2>2. PICK f : f \in F(n)
    BY <2>1
  <2> DEFINE g == [i \in 0..(n + 1) |-> IF i = n + 1 THEN step[i][f[i - 1]] ELSE f[i]]
  <2>3. g \in [0..(n + 1) -> S]
    BY <2>1, <2>2
  <2>4. \A i \in 1..(n + 1) : g[i] = step[i][g[i - 1]]
    BY <2>1, <2>2
  <2>5. g[0] = first
    BY <2>1, <2>2
  <2>6. QED
    BY <2>3, <2>4, <2>5
<1>3. T = Nat
  <2>1. T \in SUBSET Nat
    OBVIOUS
  <2> HIDE DEF T
  <2>2. QED
    BY <1>1, <1>2, <2>1, Induct
<1>4. PICK f : f \in F(N)
  BY <1>3
<1>5. QED
  BY <1>4

-----------------------------------------------------------------------------
(* The bytes of a stream.                                                  *)

\* int.from_bytes adds one byte after another.
LEMMA BigEndianSteps ==
    ASSUME NEW b \in Seq(Byte)
    PROVE  \E value \in [0..Len(b) -> Nat] :
              /\ value[0] = 0
              /\ \A i \in 1..Len(b) : value[i] = 256 * value[i - 1] + b[i]
              /\ BigEndian(b) = value[Len(b)]
<1> DEFINE step == [i \in 1..Len(b) |-> [v \in Nat |-> 256 * v + b[i]]]
           value[i \in 0..Len(b)] == IF i = 0 THEN 0 ELSE 256 * value[i - 1] + b[i]
<1>1. Len(b) \in Nat /\ \A i \in 1..Len(b) : b[i] \in Nat
  <2>1. \A i \in 1..Len(b) : b[i] \in Byte
    BY ElementOfSeq
  <2>2. Len(b) \in Nat
    BY LenProperties
  <2>3. Byte \subseteq Nat
    BY DEF Byte
  <2>4. QED
    BY <2>1, <2>2, <2>3
<1>2. step \in [1..Len(b) -> [Nat -> Nat]]
  BY <1>1
<1>3. PICK f \in [0..Len(b) -> Nat] : f[0] = 0 /\ \A i \in 1..Len(b) : f[i] = step[i][f[i - 1]]
  <2> DEFINE N == Len(b)
             W == Nat
             zero == 0
  <2>1. N \in Nat /\ zero \in W /\ step \in [1..N -> [W -> W]]
    BY <1>1, <1>2
  <2> HIDE DEF N, W, zero, step
  <2>2. PICK f \in [0..N -> W] : f[0] = zero /\ \A i \in 1..N : f[i] = step[i][f[i - 1]]
    BY <2>1, Steps
  <2>3. f \in [0..Len(b) -> Nat] /\ f[0] = 0
    BY <2>2 DEF N, W, zero
  <2>4. \A i \in 1..Len(b) : f[i] = step[i][f[i - 1]]
    BY <2>2 DEF N
  <2>5. QED
    BY <2>3, <2>4
<1>4. f = [i \in 0..Len(b) |-> IF i = 0 THEN 0 ELSE 256 * f[i - 1] + b[i]]
  <2>1. ASSUME NEW i \in 1..Len(b) PROVE f[i] = 256 * f[i - 1] + b[i]
    <3>1. f[i - 1] \in Nat
      BY <1>1
    <3>2. step[i][f[i - 1]] = 256 * f[i - 1] + b[i]
      BY <3>1
    <3> HIDE DEF step
    <3>3. QED
      BY <1>3, <3>2
  <2> HIDE DEF step
  <2>2. \A i \in 0..Len(b) : f[i] = IF i = 0 THEN 0 ELSE 256 * f[i - 1] + b[i]
    BY <1>1, <1>3, <2>1
  <2>3. QED
    BY <2>2
<1>5. value = [i \in 0..Len(b) |-> IF i = 0 THEN 0 ELSE 256 * value[i - 1] + b[i]]
  BY <1>4
<1>6. BigEndian(b) = value[Len(b)]
  BY DEF BigEndian
<1> HIDE DEF value, step
<1>7. \A i \in 0..Len(b) : value[i] \in Nat
  <2> DEFINE T == {i \in Nat : i <= Len(b) => value[i] \in Nat}
  <2>1. 0 \in T
    BY <1>1, <1>5
  <2>2. ASSUME NEW i \in T PROVE i + 1 \in T
    BY <1>1, <2>2, <1>5
  <2>3. T = Nat
    <3>1. T \in SUBSET Nat
      OBVIOUS
    <3> HIDE DEF T
    <3>2. QED
      BY <2>1, <2>2, <3>1, Induct
  <2>4. QED
    BY <2>3
<1>8. value \in [0..Len(b) -> Nat]
  BY <1>5, <1>7
<1>9. value[0] = 0 /\ \A i \in 1..Len(b) : value[i] = 256 * value[i - 1] + b[i]
  BY <1>1, <1>5
<1>10. QED
  BY <1>6, <1>8, <1>9

\* The bytes of a length are a number.
LEMMA BigEndianNat == ASSUME NEW b \in Seq(Byte) PROVE BigEndian(b) \in Nat
<1>1. Len(b) \in Nat
  BY LenProperties
<1>2. QED
  BY <1>1, BigEndianSteps

\* A slice of a stream is a string of bytes, cut short at the end of it.
LEMMA SliceProperties ==
    ASSUME NEW b \in Seq(Byte), NEW from \in Nat, NEW to \in Nat
    PROVE  /\ Slice(b, from, to) \in Seq(Byte)
           /\ Len(Slice(b, from, to)) =
                 LET end == IF to < Len(b) THEN to ELSE Len(b)
                 IN IF from < end THEN end - from ELSE 0
<1> DEFINE end == IF to < Len(b) THEN to ELSE Len(b)
<1>1. Len(b) \in Nat /\ end \in Nat /\ end <= Len(b)
  BY LenProperties
<1>2. \A i \in (from + 1)..end : b[i] \in Byte
  BY <1>1, ElementOfSeq
<1>3. Slice(b, from, to) = SubSeq(b, from + 1, end)
  BY DEF Slice
<1> HIDE DEF end
<1>4. /\ SubSeq(b, from + 1, end) \in Seq(Byte)
      /\ Len(SubSeq(b, from + 1, end)) = IF from + 1 <= end THEN end - (from + 1) + 1 ELSE 0
  BY <1>1, <1>2, SubSeqProperties
<1>5. QED
  BY <1>1, <1>3, <1>4 DEF end

\* Where iter_records can be, after some turns of its loop.
Cursors == [off : Nat, bodies : Seq(Seq(Byte)), raised : BOOLEAN]
AtStart == [off |-> 0, bodies |-> <<>>, raised |-> FALSE]

\* The streaming reader's next record is the next turn of iter_records.
LEMMA ReadIsTurn ==
    ASSUME NEW data \in Seq(Byte), NEW at \in Cursors, ~at.raised, at.off <= Len(data),
           NEW r, r = ReadRecord(data, at.off)
    PROVE  /\ r.state \in {"end", "truncated", "record"}
           /\ r.state = "end" => IterTurn(data, at) = at
           /\ r.state = "truncated" => /\ at.off < Len(data)
                                       /\ IterTurn(data, at) = [at EXCEPT !.raised = TRUE]
           /\ r.state = "record" =>
                 /\ r.next \in Nat /\ at.off < r.next /\ r.next <= Len(data)
                 /\ r.body \in Seq(Byte)
                 /\ IterTurn(data, at) =
                       [off |-> r.next, bodies |-> Append(at.bodies, r.body), raised |-> FALSE]
<1> DEFINE N == Len(data)
           place == at.off
           prefix == Slice(data, place, place + 4)
           length == BigEndian(prefix)
           end == place + 4 + length
           body == Slice(data, place + 4, end)
<1>1. N \in Nat /\ place \in Nat /\ place + 4 \in Nat /\ place <= N
  BY LenProperties DEF Cursors
<1>2. /\ prefix \in Seq(Byte)
      /\ Len(prefix) = LET e == IF place + 4 < N THEN place + 4 ELSE N IN IF place < e THEN e - place ELSE 0
  BY <1>1, SliceProperties
<1>3. length \in Nat /\ end \in Nat
  BY <1>1, <1>2, BigEndianNat
<1>4. /\ body \in Seq(Byte)
      /\ Len(body) = LET e == IF end < N THEN end ELSE N IN IF place + 4 < e THEN e - (place + 4) ELSE 0
  BY <1>1, <1>3, SliceProperties
<1>5. prefix = <<>> <=> Len(prefix) = 0
  BY <1>2, EmptySeq
<1>6. r = [state |-> IF prefix = <<>> THEN "end"
                     ELSE IF Len(prefix) < 4 \/ Len(body) < length THEN "truncated" ELSE "record",
           body |-> body, next |-> end]
  BY DEF ReadRecord
<1>7. IterTurn(data, at) =
        IF at.raised \/ place >= N THEN at
        ELSE IF place + 4 > N \/ end > N THEN [at EXCEPT !.raised = TRUE]
        ELSE [off |-> end, bodies |-> Append(at.bodies, body), raised |-> FALSE]
  BY DEF IterTurn
<1> HIDE DEF N, place, prefix, length, end, body
<1>8. prefix = <<>> <=> place >= N
  BY <1>1, <1>2, <1>5
<1>9. place < N => (Len(prefix) < 4 <=> place + 4 > N)
  BY <1>1, <1>2
<1>10. place + 4 <= N => (Len(body) < length <=> end > N)
  BY <1>1, <1>3, <1>4 DEF end
<1>11. end > place
  BY <1>1, <1>3 DEF end
<1>12. QED
  BY <1>1, <1>3, <1>4, <1>6, <1>7, <1>8, <1>9, <1>10, <1>11 DEF place, N

\* A turn leads from cursor to cursor, keeps the bodies and adds one at most.
LEMMA TurnProperties ==
    ASSUME NEW data \in Seq(Byte), NEW at \in Cursors
    PROVE  /\ IterTurn(data, at) \in Cursors
           /\ \/ IterTurn(data, at).bodies = at.bodies
              \/ \E body \in Seq(Byte) : IterTurn(data, at).bodies = Append(at.bodies, body)
<1>1. Len(data) \in Nat
  BY LenProperties
<1>2. CASE at.raised \/ at.off > Len(data)
  BY <1>1, <1>2 DEF IterTurn, Cursors
<1>3. CASE ~at.raised /\ at.off <= Len(data)
  <2> DEFINE r == ReadRecord(data, at.off)
  <2>1. CASE r.state = "end"
    BY <1>3, <2>1, ReadIsTurn
  <2>2. CASE r.state = "truncated"
    <3>1. IterTurn(data, at) = [at EXCEPT !.raised = TRUE]
      BY <1>3, <2>2, ReadIsTurn
    <3>2. QED
      BY <3>1 DEF Cursors
  <2>3. CASE r.state = "record"
    <3>1. /\ r.next \in Nat /\ r.body \in Seq(Byte)
          /\ IterTurn(data, at) =
                [off |-> r.next, bodies |-> Append(at.bodies, r.body), raised |-> FALSE]
      BY <1>3, <2>3, ReadIsTurn
    <3>2. Append(at.bodies, r.body) \in Seq(Seq(Byte))
      BY <3>1, AppendProperties DEF Cursors
    <3> HIDE DEF r
    <3>3. QED
      BY <3>1, <3>2 DEF Cursors
  <2>4. QED
    BY <1>3, <2>1, <2>2, <2>3, ReadIsTurn
<1>4. QED
  BY <1>1, <1>2, <1>3 DEF Cursors

\* iter_records is its turns, from the start of the stream.
LEMMA IterTurnsSteps ==
    ASSUME NEW data \in Seq(Byte)
    PROVE  /\ IterTurns(data) \in [0..Len(data) -> Cursors]
           /\ IterTurns(data)[0] = AtStart
           /\ \A k \in 1..Len(data) : IterTurns(data)[k] = IterTurn(data, IterTurns(data)[k - 1])
<1> DEFINE N == Len(data)
           step == [k \in 1..N |-> [at \in Cursors |-> IterTurn(data, at)]]
           after[k \in 0..Len(data)] == IF k = 0 THEN AtStart ELSE IterTurn(data, after[k - 1])
<1>1. N \in Nat
  BY LenProperties
<1>2. step \in [1..N -> [Cursors -> Cursors]]
  BY TurnProperties
<1>3. AtStart \in Cursors
  BY EmptySeq DEF AtStart, Cursors
<1>4. PICK f \in [0..N -> Cursors] :
          f[0] = AtStart /\ \A k \in 1..N : f[k] = step[k][f[k - 1]]
  <2> HIDE DEF step, N
  <2>1. QED
    BY <1>1, <1>2, <1>3, Steps
<1>5. \A k \in 1..N : f[k] = IterTurn(data, f[k - 1])
  <2>1. ASSUME NEW k \in 1..N PROVE f[k - 1] \in Cursors
    BY <1>1
  <2>2. ASSUME NEW k \in 1..N, NEW at \in Cursors PROVE step[k][at] = IterTurn(data, at)
    OBVIOUS
  <2> HIDE DEF step, N
  <2>3. QED
    BY <1>4, <2>1, <2>2
<1>6. f = [k \in 0..N |-> IF k = 0 THEN AtStart ELSE IterTurn(data, f[k - 1])]
  <2> HIDE DEF step
  <2>1. \A k \in 0..N : f[k] = IF k = 0 THEN AtStart ELSE IterTurn(data, f[k - 1])
    BY <1>1, <1>4, <1>5
  <2>2. QED
    BY <2>1
<1>7. after = [k \in 0..N |-> IF k = 0 THEN AtStart ELSE IterTurn(data, after[k - 1])]
  BY <1>6
<1>8. IterTurns(data) = after
  BY DEF IterTurns, AtStart
<1> HIDE DEF after, step, N
<1>9. /\ after[0] = AtStart
      /\ \A k \in 1..N : after[k] = IterTurn(data, after[k - 1])
  BY <1>1, <1>7
<1>10. \A k \in 0..N : after[k] \in Cursors
  <2> DEFINE T == {k \in Nat : k <= N => after[k] \in Cursors}
  <2>1. 0 \in T
    BY <1>3, <1>9
  <2>2. ASSUME NEW k \in T PROVE k + 1 \in T
    <3>1. SUFFICES ASSUME k + 1 <= N PROVE after[k + 1] \in Cursors
      OBVIOUS
    <3>2. after[k + 1] = IterTurn(data, after[k]) /\ after[k] \in Cursors
      BY <1>1, <1>9, <3>1
    <3>3. QED
      BY <3>2, TurnProperties
  <2>3. T = Nat
    <3>1. T \in SUBSET Nat
      OBVIOUS
    <3> HIDE DEF T
    <3>2. QED
      BY <2>1, <2>2, <3>1, Induct
  <2>4. QED
    BY <2>3
<1>11. QED
  BY <1>7, <1>8, <1>9, <1>10 DEF N

\* What a prefix is, element by element.
LEMMA PrefixPointwise ==
    ASSUME NEW S, NEW s \in Seq(S), NEW t \in Seq(S)
    PROVE  IsPrefix(s, t) <=> Len(s) <= Len(t) /\ \A i \in 1..Len(s) : s[i] = t[i]
<1>1. Len(s) \in Nat /\ Len(t) \in Nat
  BY LenProperties
<1>2. SUFFICES ASSUME Len(s) <= Len(t)
      PROVE SubSeq(s, 1, Len(s)) = SubSeq(t, 1, Len(s)) <=> \A i \in 1..Len(s) : s[i] = t[i]
  BY DEF IsPrefix
<1>3. \A i \in 1..Len(s) : s[i] \in S /\ t[i] \in S
  BY <1>1, <1>2, ElementOfSeq
<1>4. SubSeq(s, 1, Len(s)) = s
  BY SubSeqFull
<1>5. /\ SubSeq(t, 1, Len(s)) \in Seq(S) /\ Len(SubSeq(t, 1, Len(s))) = Len(s)
      /\ \A i \in 1..Len(s) : SubSeq(t, 1, Len(s))[i] = t[i]
  <2>1. /\ SubSeq(t, 1, Len(s)) \in Seq(S)
        /\ Len(SubSeq(t, 1, Len(s))) = IF 1 <= Len(s) THEN Len(s) - 1 + 1 ELSE 0
        /\ \A i \in 1..(Len(s) - 1 + 1) : SubSeq(t, 1, Len(s))[i] = t[1 + i - 1]
    BY <1>1, <1>3, SubSeqProperties
  <2>2. QED
    BY <1>1, <2>1
<1>6. QED
  BY <1>1, <1>3, <1>4, <1>5, SeqEqual

\* Prefixes of prefixes, and of what has grown by an element.
LEMMA PrefixGrows ==
    ASSUME NEW S, NEW s \in Seq(S), NEW t \in Seq(S), NEW u \in Seq(S), NEW e \in S
    PROVE  /\ IsPrefix(s, s)
           /\ IsPrefix(s, t) => IsPrefix(s, Append(t, e))
           /\ IsPrefix(s, t) /\ IsPrefix(t, u) => IsPrefix(s, u)
<1>1. Len(s) \in Nat /\ Len(t) \in Nat /\ Len(u) \in Nat
  BY LenProperties
<1>2. /\ Append(t, e) \in Seq(S) /\ Len(Append(t, e)) = Len(t) + 1
      /\ \A i \in 1..Len(t) : Append(t, e)[i] = t[i]
  BY AppendProperties
<1>3. IsPrefix(s, s)
  BY <1>1, PrefixPointwise
<1>4. ASSUME IsPrefix(s, t) PROVE IsPrefix(s, Append(t, e))
  <2>1. Len(s) <= Len(t) /\ \A i \in 1..Len(s) : s[i] = t[i]
    BY <1>4, PrefixPointwise
  <2>2. Len(s) <= Len(Append(t, e)) /\ \A i \in 1..Len(s) : s[i] = Append(t, e)[i]
    BY <1>1, <1>2, <2>1
  <2>3. QED
    BY <1>2, <2>2, PrefixPointwise
<1>5. ASSUME IsPrefix(s, t), IsPrefix(t, u) PROVE IsPrefix(s, u)
  <2>1. /\ Len(s) <= Len(t) /\ \A i \in 1..Len(s) : s[i] = t[i]
        /\ Len(t) <= Len(u) /\ \A i \in 1..Len(t) : t[i] = u[i]
    BY <1>5, PrefixPointwise
  <2>2. Len(s) <= Len(u) /\ \A i \in 1..Len(s) : s[i] = u[i]
    BY <1>1, <2>1
  <2>3. QED
    BY <2>2, PrefixPointwise
<1>6. QED
  BY <1>3, <1>4, <1>5

\* A sequence that has grown element by element goes on from what it was.
LEMMA Growing ==
    ASSUME NEW S, NEW N \in Nat, NEW f \in [0..N -> Seq(S)], NEW k \in 0..N,
           \A i \in 1..N : f[i] = f[i - 1] \/ \E e \in S : f[i] = Append(f[i - 1], e)
    PROVE  IsPrefix(f[k], f[N])
<1> DEFINE T == {d \in Nat : k + d <= N => IsPrefix(f[k], f[k + d])}
<1>1. k \in Nat
  OBVIOUS
<1>2. 0 \in T
  <2>1. k + 0 = k /\ f[k] \in Seq(S) /\ Len(f[k]) \in Nat
    BY LenProperties
  <2>2. IsPrefix(f[k], f[k])
    BY <2>1, PrefixPointwise
  <2>3. QED
    BY <2>1, <2>2
<1>3. ASSUME NEW d \in T PROVE d + 1 \in T
  <2>1. SUFFICES ASSUME k + (d + 1) <= N PROVE IsPrefix(f[k], f[k + (d + 1)])
    OBVIOUS
  <2>2. /\ k \in 0..N /\ k + d \in 0..N /\ k + (d + 1) \in 1..N
        /\ (k + (d + 1)) - 1 = k + d
    BY <1>1, <2>1
  <2>3. IsPrefix(f[k], f[k + d]) /\ f[k] \in Seq(S) /\ f[k + d] \in Seq(S)
    BY <2>2
  <2>4. f[k + (d + 1)] = f[k + d] \/ \E e \in S : f[k + (d + 1)] = Append(f[k + d], e)
    BY <2>2
  <2>5. ASSUME NEW e \in S, f[k + (d + 1)] = Append(f[k + d], e) PROVE IsPrefix(f[k], f[k + (d + 1)])
    <3>1. IsPrefix(f[k], Append(f[k + d], e))
      BY <2>3, PrefixGrows
    <3>2. QED
      BY <2>5, <3>1
  <2>6. QED
    BY <2>3, <2>4, <2>5
<1>4. T = Nat
  <2>1. T \in SUBSET Nat
    OBVIOUS
  <2> HIDE DEF T
  <2>2. QED
    BY <1>2, <1>3, <2>1, Induct
<1>5. N - k \in Nat /\ k + (N - k) = N
  OBVIOUS
<1>6. N - k \in T
  BY <1>4, <1>5
<1>7. QED
  BY <1>5, <1>6

\* A turn that changes nothing is the last that matters.
LEMMA TurnsStay ==
    ASSUME NEW data \in Seq(Byte), NEW k \in 0..Len(data),
           IterTurn(data, IterTurns(data)[k]) = IterTurns(data)[k]
    PROVE  IterTurns(data)[Len(data)] = IterTurns(data)[k]
<1> DEFINE N == Len(data)
           after == IterTurns(data)
           T == {d \in Nat : k + d <= N => after[k + d] = after[k]}
<1>1. N \in Nat /\ k \in Nat
  BY LenProperties
<1>2. /\ \A i \in 1..N : after[i] = IterTurn(data, after[i - 1])
      /\ IterTurn(data, after[k]) = after[k]
  BY IterTurnsSteps
<1> HIDE DEF N, after
<1>3. 0 \in T
  BY <1>1
<1>4. ASSUME NEW d \in T PROVE d + 1 \in T
  <2>1. SUFFICES ASSUME k + (d + 1) <= N PROVE after[k + (d + 1)] = after[k]
    OBVIOUS
  <2>2. k + d <= N /\ k + (d + 1) \in 1..N /\ (k + (d + 1)) - 1 = k + d
    BY <1>1, <2>1
  <2>3. QED
    BY <1>2, <2>2
<1>5. T = Nat
  <2>1. T \in SUBSET Nat
    OBVIOUS
  <2> HIDE DEF T
  <2>2. QED
    BY <1>3, <1>4, <2>1, Induct
<1>6. N - k \in Nat /\ k + (N - k) = N
  BY <1>1 DEF N
<1>7. N - k \in T
  BY <1>5, <1>6
<1>8. QED
  BY <1>6, <1>7 DEF N, after

\* A turn reads a length of four bytes, so that the turns IterRecords takes
\* are all there are.
LEMMA TurnReads ==
    ASSUME NEW data \in Seq(Byte), NEW at \in Cursors, NEW i \in Nat,
           at.raised \/ at.off >= Len(data) \/ 4 * i <= at.off
    PROVE  LET next == IterTurn(data, at)
           IN next.raised \/ next.off >= Len(data) \/ 4 * (i + 1) <= next.off
<1> DEFINE start == at.off + 4
           length == BigEndian(Slice(data, at.off, start))
<1>1. Len(data) \in Nat /\ at.off \in Nat /\ 4 * i \in Nat
  BY LenProperties DEF Cursors
<1>2. start \in Nat
  BY <1>1
<1>3. length \in Nat
  <2>1. Slice(data, at.off, start) \in Seq(Byte)
    BY <1>1, <1>2, SliceProperties
  <2>2. QED
    BY <2>1, BigEndianNat
<1>4. IterTurn(data, at) =
        IF at.raised \/ at.off >= Len(data) THEN at
        ELSE IF start > Len(data) \/ start + length > Len(data) THEN [at EXCEPT !.raised = TRUE]
        ELSE [off |-> start + length, bodies |-> Append(at.bodies, Slice(data, start, start + length)),
              raised |-> FALSE]
  BY DEF IterTurn
<1>5. CASE at.raised \/ at.off >= Len(data)
  BY <1>4, <1>5
<1>6. CASE ~(at.raised \/ at.off >= Len(data))
  <2> HIDE DEF length
  <2>1. 4 * (i + 1) <= start + length
    BY <1>1, <1>3, <1>6
  <2> HIDE DEF start
  <2>2. [at EXCEPT !.raised = TRUE].raised
    BY DEF Cursors
  <2>3. QED
    BY <1>4, <1>6, <2>1, <2>2
<1>7. QED
  BY <1>5, <1>6

LEMMA TurnsSuffice ==
    ASSUME NEW data \in Seq(Byte)
    PROVE  IterRecords(data) = IterTurns(data)[Len(data)]
<1> DEFINE N == Len(data)
           K == (N + 3) \div 4
           after == IterTurns(data)
           Reads(i) == after[i].raised \/ after[i].off >= N \/ 4 * i <= after[i].off
           T == {i \in Nat : i <= N => Reads(i)}
<1>1. N \in Nat
  BY LenProperties
<1>2. K \in Nat /\ K <= N /\ N <= 4 * K
  <2> HIDE DEF N
  <2>1. QED
    BY <1>1
<1>3. /\ after[0] = AtStart /\ \A i \in 0..N : after[i] \in Cursors
      /\ \A i \in 1..N : after[i] = IterTurn(data, after[i - 1])
  BY IterTurnsSteps
<1> HIDE DEF K, after
<1>4. 0 \in T
  BY <1>3 DEF AtStart
<1>5. ASSUME NEW i \in T PROVE i + 1 \in T
  <2>1. SUFFICES ASSUME i + 1 <= N PROVE Reads(i + 1)
    OBVIOUS
  <2>2. i \in 0..N /\ i \in Nat /\ i + 1 \in 1..N /\ (i + 1) - 1 = i /\ Reads(i)
    BY <1>1, <2>1
  <2>3. after[i] \in Cursors /\ after[i + 1] = IterTurn(data, after[i])
    BY <1>3, <2>2
  <2> HIDE DEF T
  <2>4. QED
    BY <2>2, <2>3, TurnReads
<1>6. T = Nat
  <2>1. T \in SUBSET Nat
    OBVIOUS
  <2> HIDE DEF T
  <2>2. QED
    BY <1>4, <1>5, <2>1, Induct
<1>7. after[K].raised \/ after[K].off >= N
  <2>1. after[K] \in Cursors /\ K \in T
    BY <1>1, <1>2, <1>3, <1>6
  <2>2. Reads(K) /\ after[K].off \in Nat /\ 4 * K \in Nat
    BY <1>2, <2>1 DEF Cursors
  <2>3. QED
    BY <1>1, <1>2, <2>2
<1>8. IterTurn(data, after[K]) = after[K]
  BY <1>7 DEF IterTurn
<1>9. after[N] = after[K]
  BY <1>1, <1>2, <1>8, TurnsStay DEF after
<1>10. QED
  BY <1>9 DEF IterRecords, K, after

LEMMA TurnsStop ==
    ASSUME NEW data \in Seq(Byte), NEW k \in 0..Len(data),
           IterTurn(data, IterTurns(data)[k]) = IterTurns(data)[k]
    PROVE  IterRecords(data) = IterTurns(data)[k]
BY TurnsStay, TurnsSuffice

\* The bodies of later turns go on from those of earlier ones.
LEMMA TurnsGrow ==
    ASSUME NEW data \in Seq(Byte), NEW k \in 0..Len(data)
    PROVE  IsPrefix(IterTurns(data)[k].bodies, IterRecords(data).bodies)
<1> DEFINE N == Len(data)
           f == [i \in 0..N |-> IterTurns(data)[i].bodies]
           S == Seq(Byte)
<1>1. N \in Nat /\ k \in 0..N /\ N \in 0..N
  BY LenProperties
<1>2. f \in [0..N -> Seq(S)]
  BY IterTurnsSteps DEF Cursors
<1>3. \A i \in 1..N : f[i] = f[i - 1] \/ \E e \in S : f[i] = Append(f[i - 1], e)
  <2>1. SUFFICES ASSUME NEW i \in 1..N
        PROVE f[i] = f[i - 1] \/ \E e \in S : f[i] = Append(f[i - 1], e)
    OBVIOUS
  <2>2. i - 1 \in 0..N /\ i \in 0..N
    BY <1>1
  <2>3. /\ IterTurns(data)[i] = IterTurn(data, IterTurns(data)[i - 1])
        /\ IterTurns(data)[i - 1] \in Cursors
    BY <2>2, IterTurnsSteps
  <2>4. QED
    BY <2>2, <2>3, TurnProperties
<1>4. f[k] = IterTurns(data)[k].bodies /\ f[N] = IterRecords(data).bodies
  BY <1>1, TurnsSuffice
<1> HIDE DEF f, N, S
<1>5. QED
  BY <1>1, <1>2, <1>3, <1>4, Growing

-----------------------------------------------------------------------------
(* What a writer frames is what the readers find.                          *)

\* A record of a stream: "a 4-byte big-endian length followed by the RLP
\* encoding" (rlp_to_mocks.py:6-7).
Prefix(n) == <<((n \div 256) \div 256) \div 256, ((n \div 256) \div 256) % 256,
               (n \div 256) % 256, n % 256>>
Frame(body) == Prefix(Len(body)) \o body

\* The streams of the first records, one after another.
Framed(records) ==
    LET stream[i \in 0..Len(records)] ==
            IF i = 0 THEN <<>> ELSE stream[i - 1] \o Frame(records[i])
    IN stream

\* What fits in a record.
Bodies == {body \in Seq(Byte) : Len(body) < 256 * 256 * 256 * 256}

\* The prefix of a length has four bytes, and they read as the length.
LEMMA PrefixReads ==
    ASSUME NEW n \in Nat, n < 256 * 256 * 256 * 256
    PROVE  Prefix(n) \in Seq(Byte) /\ Len(Prefix(n)) = 4 /\ BigEndian(Prefix(n)) = n
<1> DEFINE c == n \div 256
           b == c \div 256
           a == b \div 256
           p == <<a, b % 256, c % 256, n % 256>>
<1>1. c \in Nat /\ n = 256 * c + (n % 256) /\ n % 256 \in Byte /\ c < 256 * 256 * 256
  BY DEF Byte
<1> HIDE DEF c
<1>2. b \in Nat /\ c = 256 * b + (c % 256) /\ c % 256 \in Byte /\ b < 256 * 256
  BY <1>1 DEF Byte
<1> HIDE DEF b
<1>3. a \in Byte /\ b = 256 * a + (b % 256) /\ b % 256 \in Byte
  BY <1>2 DEF Byte
<1> HIDE DEF a
<1>4. /\ p \in Seq(Byte) /\ Len(p) = 4
      /\ p[1] = a /\ p[2] = b % 256 /\ p[3] = c % 256 /\ p[4] = n % 256
  BY <1>1, <1>2, <1>3
<1>5. Prefix(n) = p
  BY DEF Prefix, a, b, c
<1> HIDE DEF p
<1>6. PICK value \in [0..4 -> Nat] :
          /\ value[0] = 0 /\ BigEndian(p) = value[4]
          /\ \A i \in 1..4 : value[i] = 256 * value[i - 1] + p[i]
  <2>1. PICK value \in [0..Len(p) -> Nat] :
            /\ value[0] = 0 /\ BigEndian(p) = value[Len(p)]
            /\ \A i \in 1..Len(p) : value[i] = 256 * value[i - 1] + p[i]
    <3>1. p \in Seq(Byte)
      BY <1>4, Zenon
    <3>2. QED
      BY <3>1, BigEndianSteps, Zenon
  <2>2. Len(p) = 4
    BY <1>4, Zenon
  <2>3. /\ value \in [0..4 -> Nat] /\ value[0] = 0 /\ BigEndian(p) = value[4]
        /\ \A i \in 1..4 : value[i] = 256 * value[i - 1] + p[i]
    BY <2>1, <2>2, Zenon
  <2>4. QED
    BY <2>3, Zenon
<1>7. /\ value[1] = a
      /\ value[2] = 256 * value[1] + (b % 256)
      /\ value[3] = 256 * value[2] + (c % 256)
      /\ value[4] = 256 * value[3] + (n % 256)
  BY <1>3, <1>4, <1>6 DEF Byte
<1>8. value[2] = b /\ value[3] = c /\ value[4] = n
  BY <1>1, <1>2, <1>3, <1>7 DEF Byte
<1>9. QED
  BY <1>4, <1>5, <1>6, <1>8

LEMMA FrameProperties ==
    ASSUME NEW body \in Bodies
    PROVE  /\ Frame(body) \in Seq(Byte) /\ Len(Frame(body)) = 4 + Len(body)
           /\ \A i \in 1..4 : Frame(body)[i] = Prefix(Len(body))[i]
           /\ \A i \in 1..Len(body) : Frame(body)[4 + i] = body[i]
<1> DEFINE p == Prefix(Len(body))
<1>1. body \in Seq(Byte) /\ Len(body) \in Nat
  BY LenProperties DEF Bodies
<1>2. p \in Seq(Byte) /\ Len(p) = 4
  BY <1>1, PrefixReads DEF Bodies
<1>3. Frame(body) = p \o body
  BY DEF Frame
<1> HIDE DEF p
<1>4. /\ p \o body \in Seq(Byte) /\ Len(p \o body) = 4 + Len(body)
      /\ \A i \in 1..(4 + Len(body)) : (p \o body)[i] = IF i <= 4 THEN p[i] ELSE body[i - 4]
  <2>1. /\ p \o body \in Seq(Byte) /\ Len(p \o body) = Len(p) + Len(body)
        /\ \A i \in 1..(Len(p) + Len(body)) :
              (p \o body)[i] = IF i <= Len(p) THEN p[i] ELSE body[i - Len(p)]
    BY <1>1, <1>2, ConcatProperties, Zenon
  <2>2. QED
    BY <1>2, <2>1, Zenon
<1>5. \A i \in 1..4 : (p \o body)[i] = p[i]
  BY <1>1, <1>4
<1>6. ASSUME NEW i \in 1..Len(body) PROVE (p \o body)[4 + i] = body[i]
  <2>1. 4 + i \in 1..(4 + Len(body)) /\ ~(4 + i <= 4) /\ (4 + i) - 4 = i
    BY <1>1
  <2>2. QED
    BY <1>4, <2>1
<1>7. QED
  BY <1>3, <1>4, <1>5, <1>6 DEF p

\* A stream goes on from the stream of fewer records by the next record.
LEMMA FramedSteps ==
    ASSUME NEW records \in Seq(Bodies)
    PROVE  /\ Framed(records) \in [0..Len(records) -> Seq(Byte)]
           /\ Framed(records)[0] = <<>>
           /\ \A i \in 1..Len(records) :
                 Framed(records)[i] = Framed(records)[i - 1] \o Frame(records[i])
<1> DEFINE N == Len(records)
           S == Seq(Byte)
           step == [i \in 1..N |-> [s \in S |-> s \o Frame(records[i])]]
           stream[i \in 0..Len(records)] ==
               IF i = 0 THEN <<>> ELSE stream[i - 1] \o Frame(records[i])
<1>1. N \in Nat
  BY LenProperties
<1>2. ASSUME NEW i \in 1..N, NEW s \in S PROVE s \o Frame(records[i]) \in S
  <2>1. records[i] \in Bodies
    BY ElementOfSeq
  <2>2. Frame(records[i]) \in Seq(Byte)
    BY <2>1, FrameProperties
  <2>3. QED
    BY <2>2, ConcatProperties
<1>3. step \in [1..N -> [S -> S]]
  <2> HIDE DEF S, N
  <2>1. QED
    BY <1>2
<1>4. <<>> \in S
  BY EmptySeq
<1>5. PICK f \in [0..N -> S] : f[0] = <<>> /\ \A i \in 1..N : f[i] = step[i][f[i - 1]]
  <2> DEFINE first == <<>>
  <2>1. first \in S
    BY <1>4
  <2> HIDE DEF step, N, S, first
  <2>2. PICK f \in [0..N -> S] : f[0] = first /\ \A i \in 1..N : f[i] = step[i][f[i - 1]]
    BY <1>1, <1>3, <2>1, Steps
  <2>3. QED
    BY <2>2 DEF first
<1>6. ASSUME NEW i \in 1..N PROVE f[i] = f[i - 1] \o Frame(records[i])
  <2>1. f[i - 1] \in S
    BY <1>1
  <2>2. step[i][f[i - 1]] = f[i - 1] \o Frame(records[i])
    BY <2>1
  <2> HIDE DEF step, N, S
  <2>3. QED
    BY <1>5, <2>2
<1>7. f = [i \in 0..N |-> IF i = 0 THEN <<>> ELSE f[i - 1] \o Frame(records[i])]
  <2> HIDE DEF step, S
  <2>1. ASSUME NEW i \in 0..N
        PROVE f[i] = IF i = 0 THEN <<>> ELSE f[i - 1] \o Frame(records[i])
    <3>1. i = 0 \/ (i # 0 /\ i \in 1..N)
      BY <1>1
    <3>2. QED
      BY <1>5, <1>6, <3>1, Zenon
  <2>2. QED
    BY <2>1
<1>8. stream = [i \in 0..N |-> IF i = 0 THEN <<>> ELSE stream[i - 1] \o Frame(records[i])]
  BY <1>7
<1>9. Framed(records) = stream
  BY DEF Framed
<1> HIDE DEF stream, step, N, S
<1>10. stream[0] = <<>> /\ \A i \in 1..N : stream[i] = stream[i - 1] \o Frame(records[i])
  <2>1. 0 \in 0..N /\ \A i \in 1..N : i \in 0..N /\ i # 0
    BY <1>1
  <2>2. QED
    BY <1>8, <2>1, Zenon
<1>11. \A i \in 0..N : stream[i] \in S
  <2> DEFINE T == {i \in Nat : i <= N => stream[i] \in S}
  <2>1. 0 \in T
    BY <1>4, <1>10
  <2>2. ASSUME NEW i \in T PROVE i + 1 \in T
    <3>1. SUFFICES ASSUME i + 1 <= N PROVE stream[i + 1] \in S
      OBVIOUS
    <3>2. i + 1 \in 1..N /\ (i + 1) - 1 = i /\ stream[i] \in S
      BY <1>1, <3>1
    <3>3. QED
      BY <1>2, <1>10, <3>2
  <2>3. T = Nat
    <3>1. T \in SUBSET Nat
      OBVIOUS
    <3> HIDE DEF T
    <3>2. QED
      BY <2>1, <2>2, <3>1, Induct
  <2>4. QED
    BY <1>1, <2>3
<1>12. stream \in [0..N -> S]
  BY <1>8, <1>11
<1>13. QED
  BY <1>9, <1>10, <1>12 DEF N, S

\* Where the next record is in a stream.
After(s, r, t) ==
    /\ s \in Seq(Byte) /\ t \in Seq(Byte) /\ r \in Bodies
    /\ Len(s) \in Nat /\ Len(r) \in Nat /\ Len(t) = Len(s) + 4 + Len(r)
    /\ \A x \in 1..Len(s) : t[x] = s[x]
    /\ \A x \in 1..4 : t[Len(s) + x] = Prefix(Len(r))[x]
    /\ \A x \in 1..Len(r) : t[Len(s) + 4 + x] = r[x]

LEMMA FrameAfter ==
    ASSUME NEW s \in Seq(Byte), NEW r \in Bodies
    PROVE  After(s, r, s \o Frame(r))
<1> DEFINE e == Frame(r)
           t == s \o e
<1>1. r \in Seq(Byte) /\ Len(r) \in Nat /\ Len(s) \in Nat
  BY LenProperties DEF Bodies
<1>2. /\ e \in Seq(Byte) /\ Len(e) = 4 + Len(r)
      /\ \A x \in 1..4 : e[x] = Prefix(Len(r))[x]
      /\ \A x \in 1..Len(r) : e[4 + x] = r[x]
  BY FrameProperties
<1> HIDE DEF e
<1>3. /\ t \in Seq(Byte) /\ Len(t) = Len(s) + Len(e)
      /\ \A x \in 1..(Len(s) + Len(e)) : t[x] = IF x <= Len(s) THEN s[x] ELSE e[x - Len(s)]
  <2>1. e \in Seq(Byte)
    BY <1>2
  <2>2. QED
    BY <2>1, ConcatProperties, Zenon
<1> HIDE DEF t
<1>4. Len(t) = Len(s) + 4 + Len(r)
  BY <1>1, <1>2, <1>3
<1>5. ASSUME NEW x \in 1..Len(s) PROVE t[x] = s[x]
  <2>1. x \in 1..(Len(s) + Len(e)) /\ x <= Len(s)
    BY <1>1, <1>2
  <2>2. QED
    BY <1>3, <2>1
<1>6. ASSUME NEW x \in 1..(4 + Len(r)) PROVE t[Len(s) + x] = e[x]
  <2>1. Len(s) + x \in 1..(Len(s) + Len(e)) /\ ~(Len(s) + x <= Len(s)) /\ (Len(s) + x) - Len(s) = x
    BY <1>1, <1>2
  <2>2. QED
    BY <1>3, <2>1
<1>7. ASSUME NEW x \in 1..4 PROVE t[Len(s) + x] = Prefix(Len(r))[x]
  BY <1>1, <1>2, <1>6
<1>8. ASSUME NEW x \in 1..Len(r) PROVE t[Len(s) + 4 + x] = r[x]
  <2>1. 4 + x \in 1..(4 + Len(r)) /\ Len(s) + (4 + x) = Len(s) + 4 + x
    BY <1>1
  <2>2. t[Len(s) + (4 + x)] = e[4 + x]
    BY <1>6, <2>1
  <2>3. QED
    BY <1>2, <2>1, <2>2
<1>9. QED
  BY <1>1, <1>3, <1>4, <1>5, <1>7, <1>8 DEF After, t, e

LEMMA FramedNext ==
    ASSUME NEW records \in Seq(Bodies), NEW i \in 1..Len(records)
    PROVE  After(Framed(records)[i - 1], records[i], Framed(records)[i])
<1>1. i - 1 \in 0..Len(records) /\ records[i] \in Bodies
  BY LenProperties, ElementOfSeq
<1>2. /\ Framed(records)[i - 1] \in Seq(Byte)
      /\ Framed(records)[i] = Framed(records)[i - 1] \o Frame(records[i])
  BY <1>1, FramedSteps
<1>3. QED
  BY <1>1, <1>2, FrameAfter

\* One stream is at the start of another, at least d records longer.
Grown(s, t, d) ==
    /\ Len(s) + 4 * d <= Len(t)
    /\ \A x \in 1..Len(s) : t[x] = s[x]

LEMMA GrownByOne ==
    ASSUME NEW s \in Seq(Byte), NEW d \in Nat, NEW t, NEW r, NEW u, Grown(s, t, d), After(t, r, u)
    PROVE  Grown(s, u, d + 1)
<1>1. Len(s) \in Nat
  BY LenProperties
<1>2. /\ Len(t) \in Nat /\ Len(r) \in Nat /\ Len(u) = Len(t) + 4 + Len(r)
      /\ \A x \in 1..Len(t) : u[x] = t[x]
  BY DEF After
<1>3. Len(s) + 4 * d <= Len(t) /\ \A x \in 1..Len(s) : t[x] = s[x]
  BY DEF Grown
<1>4. 4 * d \in Nat /\ 4 * (d + 1) = 4 * d + 4
  OBVIOUS
<1>5. Len(s) + 4 * (d + 1) <= Len(u)
  BY <1>1, <1>2, <1>3, <1>4
<1>6. ASSUME NEW x \in 1..Len(s) PROVE u[x] = s[x]
  <2>1. x \in 1..Len(t)
    BY <1>1, <1>2, <1>3, <1>4
  <2>2. QED
    BY <1>2, <1>3, <2>1
<1>7. QED
  BY <1>5, <1>6 DEF Grown

\* The stream of fewer records is at the start of that of more.
LEMMA FramedGrows ==
    ASSUME NEW records \in Seq(Bodies), NEW i \in 0..Len(records), NEW j \in i..Len(records)
    PROVE  Grown(Framed(records)[i], Framed(records)[j], j - i)
<1> DEFINE N == Len(records)
           F == Framed(records)
           T == {d \in Nat : i + d <= N => Grown(F[i], F[i + d], d)}
<1>1. N \in Nat /\ i \in Nat /\ i <= N
  BY LenProperties
<1>2. F[i] \in Seq(Byte) /\ Len(F[i]) \in Nat
  BY FramedSteps, LenProperties
<1>3. ASSUME NEW d \in 1..N PROVE After(F[d - 1], records[d], F[d])
  BY FramedNext
<1> HIDE DEF F, N
<1>4. 0 \in T
  <2>1. i + 0 = i
    BY <1>1
  <2>2. Grown(F[i], F[i], 0)
    BY <1>2 DEF Grown
  <2>3. QED
    BY <2>1, <2>2
<1>5. ASSUME NEW d \in T PROVE d + 1 \in T
  <2>1. SUFFICES ASSUME i + (d + 1) <= N PROVE Grown(F[i], F[i + (d + 1)], d + 1)
    OBVIOUS
  <2>2. d \in Nat /\ i + d <= N /\ i + (d + 1) \in 1..N /\ (i + (d + 1)) - 1 = i + d
    BY <1>1, <2>1
  <2>3. Grown(F[i], F[i + d], d)
    BY <2>2
  <2>4. After(F[i + d], records[i + (d + 1)], F[i + (d + 1)])
    BY <1>3, <2>2
  <2> HIDE DEF T
  <2>5. QED
    BY <1>2, <2>2, <2>3, <2>4, GrownByOne
<1>6. T = Nat
  <2>1. T \in SUBSET Nat
    OBVIOUS
  <2> HIDE DEF T
  <2>2. QED
    BY <1>4, <1>5, <2>1, Induct
<1>7. j - i \in Nat /\ i + (j - i) = j /\ j <= N
  BY <1>1 DEF N
<1>8. Grown(F[i], F[i + (j - i)], j - i)
  BY <1>6, <1>7
<1>9. QED
  BY <1>7, <1>8 DEF F

\* What is read from a place on.
LEMMA PartOf ==
    ASSUME NEW data \in Seq(Byte), NEW m \in Nat, NEW n \in Nat, m + n <= Len(data)
    PROVE  /\ SubSeq(data, m + 1, m + n) \in Seq(Byte) /\ Len(SubSeq(data, m + 1, m + n)) = n
           /\ \A x \in 1..n : SubSeq(data, m + 1, m + n)[x] = data[m + x]
<1>1. Len(data) \in Nat
  BY LenProperties
<1>2. \A x \in (m + 1)..(m + n) : data[x] \in Byte
  BY <1>1, ElementOfSeq
<1>3. m + 1 \in Int /\ m + n \in Int /\ (m + n) - (m + 1) + 1 = n
  OBVIOUS
<1>4. /\ SubSeq(data, m + 1, m + n) \in Seq(Byte)
      /\ Len(SubSeq(data, m + 1, m + n)) = IF m + 1 <= m + n THEN (m + n) - (m + 1) + 1 ELSE 0
      /\ \A x \in 1..((m + n) - (m + 1) + 1) : SubSeq(data, m + 1, m + n)[x] = data[(m + 1) + x - 1]
  BY <1>2, <1>3, SubSeqProperties
<1>5. \A x \in 1..n : (m + 1) + x - 1 = m + x
  OBVIOUS
<1>6. Len(SubSeq(data, m + 1, m + n)) = n
  BY <1>3, <1>4
<1>7. QED
  BY <1>3, <1>4, <1>5, <1>6

\* The prefix of a record, where it is whole, reads as the record's length.
LEMMA PrefixWhole ==
    ASSUME NEW s, NEW r, NEW t, After(s, r, t), NEW data \in Seq(Byte), Len(s) + 4 <= Len(data),
           \A x \in 1..4 : data[Len(s) + x] = t[Len(s) + x]
    PROVE  BigEndian(Slice(data, Len(s), Len(s) + 4)) = Len(r)
<1> DEFINE N == Len(data)
           m == Len(s)
           n == Len(r)
           prefix == SubSeq(data, m + 1, m + 4)
<1>1. m \in Nat /\ n \in Nat /\ r \in Bodies /\ \A x \in 1..4 : t[m + x] = Prefix(n)[x]
  BY DEF After
<1>2. Prefix(n) \in Seq(Byte) /\ Len(Prefix(n)) = 4 /\ BigEndian(Prefix(n)) = n
  BY <1>1, PrefixReads DEF Bodies
<1>3. N \in Nat /\ m + 4 <= N /\ \A x \in 1..N : data[x] \in Byte
  BY LenProperties, ElementOfSeq
<1>4. \A x \in 1..4 : data[m + x] = Prefix(n)[x]
  BY <1>1
<1>5. Slice(data, m, m + 4) = SubSeq(data, m + 1, IF m + 4 < N THEN m + 4 ELSE N)
  BY DEF Slice
<1> HIDE DEF N, m, n
<1>6. (IF m + 4 < N THEN m + 4 ELSE N) = m + 4
  BY <1>1, <1>3
<1>7. /\ prefix \in Seq(Byte) /\ Len(prefix) = 4
      /\ \A x \in 1..4 : prefix[x] = data[m + x]
  BY <1>1, <1>3, PartOf DEF N
<1>8. prefix = Prefix(n)
  <2> HIDE DEF prefix
  <2>1. QED
    BY <1>2, <1>4, <1>7, SeqEqual
<1>9. QED
  BY <1>2, <1>5, <1>6, <1>8 DEF m, n

\* A reader at the start of a record that is whole reads it.
LEMMA WholeTurn ==
    ASSUME NEW s, NEW r, NEW t, After(s, r, t),
           NEW data \in Seq(Byte), Grown(t, data, 0),
           NEW at \in Cursors, ~at.raised, at.off = Len(s)
    PROVE  IterTurn(data, at) = [off |-> Len(t), bodies |-> Append(at.bodies, r), raised |-> FALSE]
<1> DEFINE N == Len(data)
           m == Len(s)
           n == Len(r)
           body == SubSeq(data, m + 5, Len(t))
<1>1. /\ t \in Seq(Byte) /\ r \in Bodies
      /\ m \in Nat /\ n \in Nat /\ Len(t) = m + 4 + n
      /\ \A x \in 1..n : t[m + 4 + x] = r[x]
  BY DEF After
<1>2. N \in Nat /\ Len(t) <= N /\ \A x \in 1..Len(t) : data[x] = t[x]
  <2>1. N \in Nat /\ Len(t) \in Nat
    BY <1>1, LenProperties
  <2>2. Len(t) + 4 * 0 <= N /\ \A x \in 1..Len(t) : data[x] = t[x]
    BY DEF Grown
  <2> HIDE DEF N
  <2>3. QED
    BY <2>1, <2>2
<1>3. \A x \in 1..N : data[x] \in Byte
  BY ElementOfSeq
<1>4. BigEndian(Slice(data, m, m + 4)) = n
  <2>1. m + 4 <= N /\ \A x \in 1..4 : m + x \in 1..Len(t)
    BY <1>1, <1>2
  <2>2. QED
    BY <1>2, <2>1, PrefixWhole
<1>5. Slice(data, m + 4, m + 4 + n) = body
  <2>1. Slice(data, m + 4, Len(t)) = SubSeq(data, (m + 4) + 1, IF Len(t) < N THEN Len(t) ELSE N)
    BY DEF Slice
  <2> HIDE DEF N, m, n
  <2>2. (IF Len(t) < N THEN Len(t) ELSE N) = Len(t) /\ (m + 4) + 1 = m + 5
    BY <1>1, <1>2
  <2>3. QED
    BY <1>1, <2>1, <2>2
<1>6. at.off = m
  OBVIOUS
<1> HIDE DEF N, m, n
<1>7. body = r
  <2>1. \A x \in (m + 5)..Len(t) : data[x] \in Byte
    BY <1>1, <1>2, <1>3
  <2>2. /\ body \in Seq(Byte) /\ Len(body) = n
        /\ \A x \in 1..n : body[x] = data[m + 4 + x]
    <3>1. /\ m + 5 \in Int /\ Len(t) \in Int /\ Len(t) - (m + 5) + 1 = n
          /\ m + 5 <= Len(t) <=> n # 0
      BY <1>1
    <3>2. \A x \in 1..n : (m + 5) + x - 1 = m + 4 + x
      BY <1>1
    <3>3. QED
      BY <1>1, <2>1, <3>1, <3>2, SubSeqProperties
  <2>3. \A x \in 1..n : data[m + 4 + x] = r[x]
    <3>1. \A x \in 1..n : m + 4 + x \in 1..Len(t)
      BY <1>1
    <3>2. QED
      BY <1>1, <1>2, <3>1
  <2> HIDE DEF body
  <2>4. r \in Seq(Byte) /\ Len(r) = n
    BY <1>1 DEF Bodies, n
  <2>5. QED
    BY <2>2, <2>3, <2>4, SeqEqual
<1>8. ~(m >= N) /\ ~(m + 4 > N) /\ ~(m + 4 + n > N)
  BY <1>1, <1>2
<1>9. IterTurn(data, at) = [off |-> m + 4 + n, bodies |-> Append(at.bodies, r), raised |-> FALSE]
  BY <1>4, <1>5, <1>6, <1>7, <1>8 DEF IterTurn, N
<1>10. QED
  BY <1>1, <1>9

\* A reader at the start of a record that is cut short raises.
LEMMA CutTurn ==
    ASSUME NEW s, NEW r, NEW t, After(s, r, t),
           NEW data \in Seq(Byte), Len(s) < Len(data), Len(data) < Len(t),
           \A x \in 1..Len(data) : data[x] = t[x],
           NEW at \in Cursors, ~at.raised, at.off = Len(s)
    PROVE  IterTurn(data, at) = [at EXCEPT !.raised = TRUE]
<1> DEFINE N == Len(data)
           m == Len(s)
           n == Len(r)
<1>1. N \in Nat /\ m \in Nat /\ n \in Nat /\ Len(t) = m + 4 + n
  BY LenProperties DEF After
<1>2. ~(m >= N) /\ m + 4 + n > N
  BY <1>1
<1>3. m + 4 <= N => BigEndian(Slice(data, m, m + 4)) = n
  <2>1. ASSUME m + 4 <= N PROVE \A x \in 1..4 : m + x \in 1..N
    BY <1>1, <2>1
  <2>2. QED
    BY <2>1, PrefixWhole
<1>4. at.off = m
  OBVIOUS
<1> HIDE DEF m, n, N
<1>5. CASE m + 4 > N
  BY <1>2, <1>4, <1>5 DEF IterTurn, N
<1>6. CASE m + 4 <= N
  BY <1>2, <1>3, <1>4, <1>6 DEF IterTurn, N
<1>7. QED
  BY <1>1, <1>5, <1>6

\* The first records of a file, and one more.
LEMMA FirstRecords ==
    ASSUME NEW S, NEW q \in Seq(S), NEW i \in 1..Len(q)
    PROVE  SubSeq(q, 1, i) = Append(SubSeq(q, 1, i - 1), q[i])
<1>1. Len(q) \in Nat /\ i \in Nat
  BY LenProperties
<1>2. \A x \in 1..Len(q) : q[x] \in S
  BY ElementOfSeq
<1>3. /\ SubSeq(q, 1, i) \in Seq(S) /\ Len(SubSeq(q, 1, i)) = i
      /\ \A x \in 1..i : SubSeq(q, 1, i)[x] = q[x]
  BY <1>1, <1>2, SubSeqProperties
<1>4. /\ SubSeq(q, 1, i - 1) \in Seq(S) /\ Len(SubSeq(q, 1, i - 1)) = i - 1
      /\ \A x \in 1..(i - 1) : SubSeq(q, 1, i - 1)[x] = q[x]
  <2>1. /\ 1 \in Int /\ i - 1 \in Int /\ i - 1 \in Nat /\ (1 <= i - 1 <=> i - 1 # 0)
        /\ (i - 1) - 1 + 1 = i - 1
    BY <1>1
  <2>2. \A x \in 1..(i - 1) : q[x] \in S
    BY <1>1, <1>2
  <2>3. /\ SubSeq(q, 1, i - 1) \in Seq(S)
        /\ Len(SubSeq(q, 1, i - 1)) = IF 1 <= i - 1 THEN (i - 1) - 1 + 1 ELSE 0
        /\ \A x \in 1..((i - 1) - 1 + 1) : SubSeq(q, 1, i - 1)[x] = q[1 + x - 1]
    BY <2>1, <2>2, SubSeqProperties
  <2>4. \A x \in 1..(i - 1) : 1 + x - 1 = x
    OBVIOUS
  <2>5. QED
    BY <2>1, <2>3, <2>4
<1> DEFINE less == SubSeq(q, 1, i - 1)
           more == SubSeq(q, 1, i)
<1> HIDE DEF less, more
<1>5. /\ Append(less, q[i]) \in Seq(S) /\ Len(Append(less, q[i])) = i
      /\ \A x \in 1..i : Append(less, q[i])[x] = IF x = i THEN q[i] ELSE less[x]
  <2>1. less \in Seq(S) /\ Len(less) = i - 1 /\ q[i] \in S /\ (i - 1) + 1 = i
    BY <1>1, <1>2, <1>4 DEF less
  <2>2. QED
    BY <2>1, AppendProperties
<1>6. \A x \in 1..i : more[x] = Append(less, q[i])[x]
  BY <1>1, <1>3, <1>4, <1>5 DEF more, less
<1>7. more = Append(less, q[i])
  BY <1>3, <1>5, <1>6, SeqEqual DEF more
<1>8. QED
  BY <1>7 DEF more, less

LEMMA GrownTrans ==
    ASSUME NEW s \in Seq(Byte), NEW t \in Seq(Byte), NEW u, NEW d \in Nat,
           Grown(s, t, d), Grown(t, u, 0), Len(u) \in Nat
    PROVE  Grown(s, u, 0)
<1>1. Len(s) \in Nat /\ Len(t) \in Nat /\ 4 * d \in Nat
  BY LenProperties
<1>2. /\ Len(s) + 4 * d <= Len(t) /\ \A x \in 1..Len(s) : t[x] = s[x]
      /\ Len(t) <= Len(u) /\ \A x \in 1..Len(t) : u[x] = t[x]
  BY <1>1 DEF Grown
<1>3. Len(s) <= Len(t) /\ Len(s) + 4 * 0 <= Len(u)
  BY <1>1, <1>2
<1>4. ASSUME NEW x \in 1..Len(s) PROVE u[x] = s[x]
  <2>1. x \in 1..Len(t)
    BY <1>1, <1>3
  <2>2. QED
    BY <1>2, <2>1
<1>5. QED
  BY <1>3, <1>4 DEF Grown

LEMMA FramedLengths ==
    ASSUME NEW records \in Seq(Bodies)
    PROVE  /\ Framed(records)[0] = <<>> /\ Len(Framed(records)[0]) = 0
           /\ \A i \in 0..Len(records) :
                 Framed(records)[i] \in Seq(Byte) /\ Len(Framed(records)[i]) \in Nat
<1> DEFINE F == Framed(records)
           N == Len(records)
<1>1. F[0] = <<>> /\ F \in [0..N -> Seq(Byte)]
  BY FramedSteps
<1> HIDE DEF F, N
<1>2. \A i \in 0..N : F[i] \in Seq(Byte)
  BY <1>1
<1>3. \A s \in Seq(Byte) : Len(s) \in Nat
  BY LenProperties
<1>4. Len(F[0]) = 0
  BY <1>1, EmptySeq
<1>5. QED
  BY <1>1, <1>2, <1>3, <1>4 DEF F, N

\* While the records are whole, iter_records reads one a turn.
LEMMA ReadsWhole ==
    ASSUME NEW records \in Seq(Bodies), NEW data \in Seq(Byte), NEW k \in 0..Len(records),
           Grown(Framed(records)[k], data, 0)
    PROVE  /\ k <= Len(Framed(records)[k]) /\ k <= Len(data)
           /\ IterTurns(data)[k] =
                 [off |-> Len(Framed(records)[k]), bodies |-> SubSeq(records, 1, k), raised |-> FALSE]
<1> DEFINE N == Len(records)
           F == Framed(records)
           M == Len(data)
           turns == IterTurns(data)
           Read(i) == [off |-> Len(F[i]), bodies |-> SubSeq(records, 1, i), raised |-> FALSE]
           T == {i \in Nat : i <= k => turns[i] = Read(i)}
<1>1. N \in Nat /\ k \in Nat /\ k <= N /\ M \in Nat
  BY LenProperties
<1>2. /\ F[0] = <<>> /\ Len(F[0]) = 0
      /\ \A i \in 0..N : F[i] \in Seq(Byte) /\ Len(F[i]) \in Nat
  BY FramedLengths
<1>3. ASSUME NEW i \in 0..k PROVE Grown(F[i], data, 0)
  <2>1. k \in i..N /\ i \in 0..N
    BY <1>1
  <2>2. k - i \in Nat /\ Grown(F[i], F[k], k - i)
    BY <1>1, <2>1, FramedGrows
  <2> HIDE DEF F
  <2>3. QED
    BY <1>1, <1>2, <2>1, <2>2, GrownTrans DEF F
<1>4. k <= Len(F[k]) /\ k <= M
  <2>1. Grown(F[0], F[k], k - 0) /\ k - 0 = k
    BY <1>1, FramedGrows
  <2>2. Len(F[0]) + 4 * k <= Len(F[k])
    BY <2>1 DEF Grown
  <2>3. Len(F[k]) + 4 * 0 <= M
    BY <1>3 DEF Grown
  <2> HIDE DEF F, M
  <2>4. Len(F[k]) \in Nat /\ 4 * k \in Nat
    BY <1>1, <1>2
  <2>5. QED
    BY <1>1, <1>2, <2>2, <2>3, <2>4
<1>5. /\ turns[0] = AtStart /\ \A i \in 0..M : turns[i] \in Cursors
      /\ \A i \in 1..M : turns[i] = IterTurn(data, turns[i - 1])
  BY IterTurnsSteps
<1>6. \A i \in 1..N : After(F[i - 1], records[i], F[i])
  BY FramedNext
<1>7. \A i \in 1..N : SubSeq(records, 1, i) = Append(SubSeq(records, 1, i - 1), records[i])
  BY FirstRecords
<1>8. SubSeq(records, 1, 0) = <<>>
  BY SubSeqEmpty
<1> HIDE DEF N, F, M, turns
<1>9. 0 \in T
  BY <1>2, <1>5, <1>8 DEF AtStart
<1>10. ASSUME NEW i \in T PROVE i + 1 \in T
  <2>1. SUFFICES ASSUME i + 1 <= k PROVE turns[i + 1] = Read(i + 1)
    OBVIOUS
  <2>2. /\ i \in Nat /\ i <= k /\ i + 1 \in 1..N /\ i + 1 \in 1..M /\ i + 1 \in 0..k /\ i \in 0..M
        /\ (i + 1) - 1 = i
    BY <1>1, <1>4, <2>1
  <2>3. turns[i] = Read(i) /\ turns[i] \in Cursors
    BY <1>5, <2>2
  <2>4. After(F[i], records[i + 1], F[i + 1]) /\ Grown(F[i + 1], data, 0)
    BY <1>3, <1>6, <2>2
  <2>5. ~turns[i].raised /\ turns[i].off = Len(F[i]) /\ turns[i].bodies = SubSeq(records, 1, i)
    BY <2>3
  <2> DEFINE at == turns[i]
  <2> HIDE DEF T, at
  <2>6. IterTurn(data, at) =
           [off |-> Len(F[i + 1]), bodies |-> Append(at.bodies, records[i + 1]), raised |-> FALSE]
    <3>1. at \in Cursors /\ ~at.raised /\ at.off = Len(F[i])
      BY <2>3, <2>5 DEF at
    <3> HIDE DEF Read
    <3>2. QED
      BY <2>4, <3>1, WholeTurn
  <2>7. QED
    BY <1>5, <1>7, <2>2, <2>5, <2>6 DEF at
<1>11. T = Nat
  <2>1. T \in SUBSET Nat
    OBVIOUS
  <2> HIDE DEF T
  <2>2. QED
    BY <1>9, <1>10, <2>1, Induct
<1>12. turns[k] = Read(k)
  <2> HIDE DEF Read
  <2>1. k \in T
    BY <1>1, <1>11
  <2>2. QED
    BY <1>1, <2>1
<1>13. QED
  BY <1>4, <1>12 DEF M, F, turns

\* Whatever a writer frames, a record after a 4-byte length, iter_records
\* finds: of a stream cut anywhere it yields exactly the records that are whole,
\* as they were written, and raises unless the cut is between two records
\* (rlp_to_mocks.py:142-158; the streaming reader by FramingsAlwaysAgree).
THEOREM FramesAreRead ==
    ASSUME NEW records \in Seq(Bodies), NEW cut \in 0..Len(Framed(records)[Len(records)])
    PROVE  LET stream == Framed(records)
               read == IterRecords(SubSeq(stream[Len(records)], 1, cut))
           IN \E k \in 0..Len(records) :
                 /\ Len(stream[k]) <= cut
                 /\ k < Len(records) => cut < Len(stream[k + 1])
                 /\ read.bodies = SubSeq(records, 1, k)
                 /\ read.raised <=> cut # Len(stream[k])
<1> DEFINE N == Len(records)
           F == Framed(records)
           data == SubSeq(F[N], 1, cut)
           T == {i \in Nat : i >= N \/ cut < Len(F[i + 1])}
<1>1. N \in Nat /\ cut \in Nat /\ cut <= Len(F[N])
  <2>1. N \in Nat
    BY LenProperties
  <2>2. Len(F[N]) \in Nat
    BY <2>1, FramedLengths
  <2>3. QED
    BY <2>1, <2>2
<1>2. Len(F[0]) = 0 /\ \A i \in 0..N : F[i] \in Seq(Byte) /\ Len(F[i]) \in Nat
  BY FramedLengths
<1>3. data \in Seq(Byte) /\ Len(data) = cut /\ \A x \in 1..cut : data[x] = F[N][x]
  <2>1. F[N] \in Seq(Byte) /\ 0 \in Nat /\ 0 + cut <= Len(F[N])
    BY <1>1, <1>2
  <2>2. 0 + 1 = 1 /\ 0 + cut = cut /\ \A x \in 1..cut : 0 + x = x
    BY <1>1
  <2> HIDE DEF F, N
  <2>3. /\ SubSeq(F[N], 0 + 1, 0 + cut) \in Seq(Byte) /\ Len(SubSeq(F[N], 0 + 1, 0 + cut)) = cut
        /\ \A x \in 1..cut : SubSeq(F[N], 0 + 1, 0 + cut)[x] = F[N][0 + x]
    BY <1>1, <2>1, PartOf
  <2>4. QED
    BY <2>2, <2>3
<1>4. ASSUME NEW i \in 0..N PROVE \A x \in 1..Len(F[i]) : F[N][x] = F[i][x]
  <2>1. N \in i..N
    BY <1>1
  <2>2. Grown(F[i], F[N], N - i)
    BY <2>1, FramedGrows
  <2>3. QED
    BY <2>2 DEF Grown
<1>5. \A i \in 1..N : After(F[i - 1], records[i], F[i])
  BY FramedNext
<1>6. ASSUME NEW i \in 0..N, Grown(F[i], data, 0)
      PROVE  /\ i <= Len(F[i]) /\ i <= Len(data)
             /\ IterTurns(data)[i] =
                   [off |-> Len(F[i]), bodies |-> SubSeq(records, 1, i), raised |-> FALSE]
  <2>1. data \in Seq(Byte)
    BY <1>3
  <2> HIDE DEF data
  <2>2. QED
    BY <1>6, <2>1, ReadsWhole
<1> HIDE DEF N, F, data
\* k is the number of whole records.
<1>7. PICK k \in T : \A i \in T : ~(i < k)
  <2>1. T \in SUBSET Nat /\ N \in T
    BY <1>1
  <2> HIDE DEF T
  <2>2. QED
    BY <2>1, Smallest
<1>8. k \in 0..N /\ (k < N => cut < Len(F[k + 1]))
  <2>1. N \in T
    BY <1>1
  <2>2. k \in Nat /\ ~(N < k)
    BY <1>7, <2>1
  <2>3. QED
    BY <1>1, <2>2
<1>9. Len(F[k]) <= cut
  <2>1. CASE k = 0
    BY <1>1, <1>2, <2>1
  <2>2. CASE k # 0
    <3>1. k - 1 \in Nat /\ k - 1 < k /\ (k - 1) + 1 = k
      BY <1>8, <2>2
    <3>2. k - 1 \notin T
      BY <1>7, <3>1
    <3>3. ~(cut < Len(F[k]))
      BY <3>1, <3>2
    <3>4. QED
      BY <1>1, <1>2, <1>8, <3>3
  <2>3. QED
    BY <2>1, <2>2
<1> HIDE DEF T
<1>10. Grown(F[k], data, 0)
  <2>1. Len(F[k]) + 4 * 0 <= Len(data)
    BY <1>2, <1>3, <1>8, <1>9
  <2>2. \A x \in 1..Len(F[k]) : x \in 1..cut
    BY <1>1, <1>2, <1>8, <1>9
  <2>3. QED
    BY <1>3, <1>4, <1>8, <2>1, <2>2 DEF Grown
<1> DEFINE at == IterTurns(data)[k]
           cutoff == [at EXCEPT !.raised = TRUE]
<1>11. /\ k <= Len(F[k]) /\ k \in 0..Len(data) /\ at \in Cursors
       /\ ~at.raised /\ at.off = Len(F[k]) /\ at.bodies = SubSeq(records, 1, k)
  <2>1. k <= Len(F[k]) /\ k <= Len(data)
    BY <1>6, <1>8, <1>10
  <2>2. k \in 0..Len(data)
    BY <1>1, <1>3, <1>8, <2>1
  <2>3. at = [off |-> Len(F[k]), bodies |-> SubSeq(records, 1, k), raised |-> FALSE]
    BY <1>6, <1>8, <1>10
  <2>4. at \in Cursors
    BY <1>3, <2>2, IterTurnsSteps
  <2>5. QED
    BY <2>1, <2>2, <2>3, <2>4
<1>12. /\ IterRecords(data).bodies = SubSeq(records, 1, k)
       /\ IterRecords(data).raised <=> cut # Len(F[k])
  <2>1. CASE cut = Len(F[k])
    <3>1. IterTurn(data, at) = at
      <4>1. at.off >= Len(data)
        BY <1>1, <1>3, <1>11, <2>1
      <4>2. QED
        BY <4>1 DEF IterTurn
    <3>2. IterRecords(data) = at
      BY <1>3, <1>11, <3>1, TurnsStop
    <3>3. QED
      BY <1>11, <2>1, <3>2
  <2>2. CASE cut # Len(F[k])
    <3>1. k < N /\ k + 1 \in 1..N /\ k + 1 \in 0..N /\ (k + 1) - 1 = k /\ cut < Len(F[k + 1])
      <4>1. k # N
        BY <1>1, <1>2, <1>9, <2>2
      <4>2. QED
        BY <1>1, <1>8, <4>1
    <3>2. k + 1 \in 1..Len(data) /\ k + 1 \in 0..Len(data)
      BY <1>1, <1>2, <1>3, <1>8, <1>9, <1>11, <2>2
    <3>3. \A x \in 1..cut : data[x] = F[k + 1][x]
      <4>1. \A x \in 1..cut : x \in 1..Len(F[k + 1])
        BY <1>1, <1>2, <3>1
      <4>2. QED
        BY <1>3, <1>4, <3>1, <4>1
    <3>4. IterTurn(data, at) = cutoff
      <4>1. After(F[k], records[k + 1], F[k + 1])
        BY <1>5, <3>1
      <4>2. Len(F[k]) < Len(data) /\ Len(data) < Len(F[k + 1])
        BY <1>1, <1>2, <1>3, <1>8, <1>9, <2>2, <3>1
      <4>3. data \in Seq(Byte) /\ \A x \in 1..Len(data) : data[x] = F[k + 1][x]
        BY <1>3, <3>3
      <4>4. at \in Cursors /\ ~at.raised /\ at.off = Len(F[k])
        BY <1>11
      <4> DEFINE less == F[k]
                 more == F[k + 1]
                 next == records[k + 1]
      <4>5. /\ After(less, next, more) /\ data \in Seq(Byte)
            /\ Len(less) < Len(data) /\ Len(data) < Len(more)
            /\ \A x \in 1..Len(data) : data[x] = more[x]
            /\ at \in Cursors /\ ~at.raised /\ at.off = Len(less)
        BY <4>1, <4>2, <4>3, <4>4
      <4> HIDE DEF at, less, more, next
      <4>6. QED
        BY <4>5, CutTurn
    <3>5. IterTurns(data)[k + 1] = cutoff
      BY <1>3, <3>1, <3>2, <3>4, IterTurnsSteps
    <3>6. cutoff.raised /\ cutoff.bodies = at.bodies
      <4> HIDE DEF at
      <4>1. QED
        BY <1>11 DEF Cursors
    <3>7. IterTurn(data, cutoff) = cutoff
      <4> HIDE DEF cutoff
      <4>1. QED
        BY <3>6 DEF IterTurn
    <3> HIDE DEF cutoff
    <3>8. IterRecords(data) = cutoff
      BY <1>3, <3>2, <3>5, <3>7, TurnsStop
    <3>9. QED
      BY <1>11, <2>2, <3>6, <3>8
  <2>3. QED
    BY <2>1, <2>2
<1>13. QED
  BY <1>8, <1>9, <1>12 DEF N, F, data

-----------------------------------------------------------------------------
(* The inductive invariant.                                                *)

\* The streaming reader, while it reads, is where iter_records is after some
\* turns.
FramingInv ==
    /\ FramingsAgree
    /\ job.kind = "convert" /\ stage = "read" =>
          /\ off <= Len(job.bytes)
          /\ \E k \in 0..off :
                IterTurns(job.bytes)[k] = [off |-> off, bodies |-> bodies, raised |-> FALSE]

\* A conversion has consumed some blocks, and kept those wanted of them; or
\* all, and a record after them that is no payload.
SliceInv ==
    /\ ConvertedIsSlice
    /\ job.kind = "convert" /\ stage = "read" =>
          /\ ~Enough
          /\ \/ /\ Len(bodies) <= Len(job.blocks) /\ off = job.at[Len(bodies) + 1]
                /\ Written = WantedOf(job)[Len(bodies)]
             \/ /\ job.broken = "bad" /\ ReadRecord(job.bytes, off).state = "end"
                /\ Written = Wanted

\* What a recording has seen of the node's branch at a block stays true: a
\* block goes from branch "a" to "b", and never back.
ChainInv ==
    /\ RecordedIsChain
    /\ job.kind = "record" =>
          /\ Len(file) = off - job.start /\ off <= job.start + job.count
          /\ \A i \in DOMAIN file :
                LET p == file[i].payload
                IN /\ p.hash[1] = p.number /\ (p.hash[2] = "b" => branch[p.number] = "b")
                   /\ p.number > 0 => /\ p.parent[1] = p.number - 1
                                      /\ p.parent[2] = "b" => branch[p.number - 1] = "b"
                                      /\ p.parent[2] = "a" /\ i > 1 => file[i - 1].payload.hash[2] = "a"
                   /\ p.fields = Optional(Fork[p.number])

FileInv == FileTypeOK /\ FramingInv /\ SliceInv /\ ChainInv

\* Every conversion is of a stream that holds its blocks.
LEMMA JobShape ==
    ASSUME job \in Jobs
    PROVE  /\ job.kind \in {"convert", "record"}
           /\ job.kind = "record" => job.start \in Nat /\ job.count \in Nat
           /\ job.kind = "convert" => /\ HoldsBlocks(job)
                                      /\ job.start \in Nat \cup {None}
                                      /\ job.count \in Nat \cup {None}
                                      /\ job.bytes \in Seq(Byte)
BY PayloadAssumption DEF HoldsBlocks

\* The blocks wanted of a stream, one block after the other.
LEMMA WantedSteps ==
    ASSUME NEW j \in Jobs, j.kind = "convert"
    PROVE  /\ WantedOf(j) \in [0..Len(j.blocks) -> Seq(ToSet(j.blocks))]
           /\ WantedOf(j)[0] = <<>>
           /\ \A i \in 1..Len(j.blocks) :
                 /\ j.blocks[i] \in ToSet(j.blocks)
                 /\ WantedOf(j)[i] = IF j.start = None \/ Number(j.blocks[i]) >= j.start
                                     THEN Append(WantedOf(j)[i - 1], j.blocks[i])
                                     ELSE WantedOf(j)[i - 1]
<1> DEFINE N == Len(j.blocks)
           P == ToSet(j.blocks)
           S == Seq(P)
           keep(i) == j.start = None \/ Number(j.blocks[i]) >= j.start
           step == [i \in 1..N |-> [s \in S |-> IF keep(i) THEN Append(s, j.blocks[i]) ELSE s]]
           wanted[i \in 0..Len(j.blocks)] ==
              IF i = 0 THEN <<>>
              ELSE IF j.start = None \/ Number(j.blocks[i]) >= j.start
              THEN Append(wanted[i - 1], j.blocks[i]) ELSE wanted[i - 1]
           none == <<>>
<1>1. N \in Nat /\ \A i \in 1..N : j.blocks[i] \in P
  <2>1. j.blocks \in Seq(P)
    BY PayloadAssumption DEF HoldsBlocks
  <2>2. QED
    BY <2>1, LenProperties, ElementOfSeq
<1>2. step \in [1..N -> [S -> S]]
  <2>1. ASSUME NEW i \in 1..N, NEW s \in S
        PROVE (IF keep(i) THEN Append(s, j.blocks[i]) ELSE s) \in S
    BY <1>1, AppendProperties
  <2> HIDE DEF keep, S
  <2>2. QED
    BY <2>1
<1>3. none \in S
  BY EmptySeq
<1> HIDE DEF N, P, S, step, keep, none
<1>4. PICK f \in [0..N -> S] : f[0] = none /\ \A i \in 1..N : f[i] = step[i][f[i - 1]]
  <2>1. N \in Nat
    BY <1>1
  <2>2. QED
    BY <1>2, <1>3, <2>1, Steps
<1>5. \A i \in 1..N : f[i] = IF keep(i) THEN Append(f[i - 1], j.blocks[i]) ELSE f[i - 1]
  <2>1. ASSUME NEW i \in 1..N PROVE f[i - 1] \in S
    BY <1>1, <1>4
  <2>2. ASSUME NEW i \in 1..N, NEW s \in S
        PROVE step[i][s] = IF keep(i) THEN Append(s, j.blocks[i]) ELSE s
    BY DEF step
  <2>3. QED
    BY <1>4, <2>1, <2>2
<1>6. f = [i \in 0..N |-> IF i = 0 THEN <<>> ELSE IF keep(i) THEN Append(f[i - 1], j.blocks[i]) ELSE f[i - 1]]
  <2>1. ASSUME NEW i \in 0..N
        PROVE f[i] = IF i = 0 THEN <<>> ELSE IF keep(i) THEN Append(f[i - 1], j.blocks[i]) ELSE f[i - 1]
    <3>1. CASE i = 0
      BY <1>4, <3>1 DEF none
    <3>2. CASE i # 0
      <4>1. i \in 1..N
        BY <1>1, <3>2
      <4>2. QED
        BY <1>5, <3>2, <4>1
    <3>3. QED
      BY <3>1, <3>2
  <2>2. QED
    BY <1>4, <2>1
<1>7. wanted = [i \in 0..N |-> IF i = 0 THEN <<>> ELSE IF keep(i) THEN Append(wanted[i - 1], j.blocks[i]) ELSE wanted[i - 1]]
  BY <1>6 DEF N, keep
<1>8. WantedOf(j) = wanted
  BY DEF WantedOf
<1> HIDE DEF wanted
<1>9. /\ wanted[0] = <<>>
      /\ \A i \in 1..N : wanted[i] = IF keep(i) THEN Append(wanted[i - 1], j.blocks[i]) ELSE wanted[i - 1]
  <2>1. 0 \in 0..N
    BY <1>1
  <2>2. ASSUME NEW i \in 1..N PROVE i \in 0..N /\ i # 0
    BY <1>1
  <2>3. QED
    BY <1>7, <2>1, <2>2
<1>10. \A i \in 0..N : wanted[i] \in S
  <2> DEFINE T == {i \in Nat : i <= N => wanted[i] \in S}
  <2>1. 0 \in T
    BY <1>3, <1>9 DEF none
  <2>2. ASSUME NEW i \in T PROVE i + 1 \in T
    <3>1. SUFFICES ASSUME i + 1 <= N PROVE wanted[i + 1] \in S
      OBVIOUS
    <3>2. i + 1 \in 1..N /\ (i + 1) - 1 = i /\ wanted[i] \in S
      BY <1>1, <3>1
    <3>3. Append(wanted[i], j.blocks[i + 1]) \in S
      BY <1>1, <3>2, AppendProperties DEF S
    <3>4. QED
      BY <1>9, <3>2, <3>3
  <2>3. T = Nat
    <3>1. T \in SUBSET Nat
      OBVIOUS
    <3> HIDE DEF T
    <3>2. QED
      BY <2>1, <2>2, <3>1, Induct
  <2>4. QED
    BY <2>3
<1>11. QED
  BY <1>1, <1>7, <1>8, <1>9, <1>10 DEF N, P, S, keep

\* What is wanted of the first blocks is a prefix of what is wanted of all.
LEMMA WantedGrows ==
    ASSUME NEW j \in Jobs, j.kind = "convert", NEW k \in 0..Len(j.blocks)
    PROVE  IsPrefix(WantedOf(j)[k], WantedOf(j)[Len(j.blocks)])
<1> DEFINE N == Len(j.blocks)
           P == ToSet(j.blocks)
           f == WantedOf(j)
<1>1. N \in Nat
  BY PayloadAssumption, LenProperties DEF HoldsBlocks
<1>2. /\ f \in [0..N -> Seq(P)]
      /\ \A i \in 1..N : f[i] = f[i - 1] \/ \E e \in P : f[i] = Append(f[i - 1], e)
  BY WantedSteps
<1> HIDE DEF N, P, f
<1>3. k \in 0..N
  BY DEF N
<1>4. IsPrefix(f[k], f[N])
  BY <1>1, <1>2, <1>3, Growing
<1>5. QED
  BY <1>4 DEF f, N

\* Records written one by one are their payloads one by one.
LEMMA PayloadsAppend ==
    ASSUME NEW P, NEW T, NEW f \in Seq([payload : P, stamped : T]),
           NEW r \in [payload : P, stamped : T]
    PROVE  /\ [i \in DOMAIN f |-> f[i].payload] \in Seq(P)
           /\ [i \in DOMAIN Append(f, r) |-> Append(f, r)[i].payload]
                 = Append([i \in DOMAIN f |-> f[i].payload], r.payload)
<1> DEFINE R == [payload : P, stamped : T]
           g == Append(f, r)
           ps == [i \in DOMAIN f |-> f[i].payload]
           qs == [i \in DOMAIN g |-> g[i].payload]
<1>1. /\ Len(f) \in Nat /\ DOMAIN f = 1..Len(f) /\ \A i \in 1..Len(f) : f[i] \in R
  BY LenProperties, ElementOfSeq
<1>2. /\ g \in Seq(R) /\ Len(g) = Len(f) + 1
      /\ \A i \in 1..Len(f) : g[i] = f[i]
      /\ g[Len(f) + 1] = r
  BY AppendProperties
<1>3. DOMAIN g = 1..(Len(f) + 1)
  BY <1>2, LenProperties
<1>4. ps \in [1..Len(f) -> P] /\ r.payload \in P
  BY <1>1
<1>5. ps \in Seq(P) /\ Len(ps) = Len(f)
  BY <1>1, <1>4, SeqDef, LenProperties
<1>6. /\ Append(ps, r.payload) \in Seq(P) /\ Len(Append(ps, r.payload)) = Len(f) + 1
      /\ \A i \in 1..Len(f) : Append(ps, r.payload)[i] = f[i].payload
      /\ Append(ps, r.payload)[Len(f) + 1] = r.payload
  BY <1>1, <1>4, <1>5, AppendProperties
<1>7. DOMAIN Append(ps, r.payload) = 1..(Len(f) + 1)
  BY <1>6, LenProperties
<1> HIDE DEF ps, g, R
<1>8. \A i \in 1..(Len(f) + 1) : Append(ps, r.payload)[i] = g[i].payload
  <2>1. ASSUME NEW i \in 1..(Len(f) + 1) PROVE i \in 1..Len(f) \/ i = Len(f) + 1
    BY <1>1
  <2>2. QED
    BY <1>2, <1>6, <2>1
<1>9. Append(ps, r.payload) = [i \in 1..(Len(f) + 1) |-> Append(ps, r.payload)[i]]
  <2>1. Append(ps, r.payload) \in [1..(Len(f) + 1) -> P]
    BY <1>6, LenProperties
  <2>2. QED
    BY <2>1
<1>10. qs = Append(ps, r.payload)
  BY <1>3, <1>8, <1>9
<1>11. QED
  BY <1>5, <1>10 DEF ps, g

\* What a conversion that reads a record finds: its next block; or, after the
\* last, the one record that is no payload.
LEMMA CurrentRecord ==
    ASSUME FileInv, Converting("record")
    PROVE  \/ /\ Len(bodies) < Len(job.blocks)
              /\ Next1.next = job.at[Len(bodies) + 2]
              /\ Number(job.blocks[Len(bodies) + 1]) \in Nat
              /\ BlockNumberOf(Next1.body) = Number(job.blocks[Len(bodies) + 1])
              /\ PayloadOk(BlockIn(Next1.body))
              /\ PayloadFromRlp(BlockIn(Next1.body)) = job.blocks[Len(bodies) + 1]
              /\ Written = WantedOf(job)[Len(bodies)]
           \/ /\ job.broken = "bad" /\ Written = Wanted
              /\ ~PayloadOk(BlockIn(Next1.body))
              /\ ReadRecord(job.bytes, Next1.next).state = "end"
<1> DEFINE n == Len(bodies)
           N == Len(job.blocks)
<1>1. n \in Nat /\ N \in Nat
  BY JobShape, LenProperties DEF FileInv, FileTypeOK, HoldsBlocks, Converting
<1>2. /\ n <= N /\ off = job.at[n + 1] /\ Written = WantedOf(job)[n]
  BY DEF FileInv, SliceInv, Converting, Next1
<1>3. CASE n < N
  <2>1. n + 1 \in 1..N /\ (n + 1) + 1 = n + 2
    BY <1>1, <1>3
  <2>2. n + 1 \in 1..(N + 1)
    BY <1>1, <1>3
  <2>3. HoldsBlocks(job)
    BY JobShape DEF FileInv, FileTypeOK, Converting
  <2> HIDE DEF n, N
  <2>4. QED
    BY <1>2, <1>3, <2>1, <2>2, <2>3 DEF HoldsBlocks, Next1, N, n
<1>4. CASE n = N
  <2>1. N + 1 \in 1..(N + 1)
    BY <1>1
  <2>2. HoldsBlocks(job)
    BY JobShape DEF FileInv, FileTypeOK, Converting
  <2>3. ReadRecord(job.bytes, job.at[N + 1]) = Next1 /\ Next1.state = "record"
    BY <1>2, <1>4 DEF Next1, Converting
  <2>4. /\ job.broken = "bad" /\ ~PayloadOk(BlockIn(Next1.body))
        /\ ReadRecord(job.bytes, Next1.next).state = "end"
    BY <2>1, <2>2, <2>3 DEF HoldsBlocks, N
  <2>5. QED
    BY <1>2, <1>4, <2>4 DEF Wanted
<1>5. QED
  BY <1>1, <1>2, <1>3, <1>4

\* Reading a record is a turn of iter_records.
LEMMA ConsumeTurn ==
    ASSUME FileInv, Converting("record")
    PROVE  /\ Next1.next \in Nat /\ Next1.next <= Len(job.bytes)
           /\ Append(bodies, Next1.body) \in Seq(Seq(Byte))
           /\ IsPrefix(Append(bodies, Next1.body), IterRecords(job.bytes).bodies)
           /\ \E k \in 0..Next1.next :
                 IterTurns(job.bytes)[k] =
                    [off |-> Next1.next, bodies |-> Append(bodies, Next1.body), raised |-> FALSE]
<1> DEFINE data == job.bytes
           at == [off |-> off, bodies |-> bodies, raised |-> FALSE]
<1>1. /\ data \in Seq(Byte) /\ Len(data) \in Nat
      /\ off \in Nat /\ bodies \in Seq(Seq(Byte)) /\ off <= Len(data)
  BY JobShape, LenProperties DEF FileInv, FileTypeOK, FramingInv, Converting
<1>2. PICK k \in 0..off : IterTurns(data)[k] = at
  BY DEF FileInv, FramingInv, Converting
<1>3. /\ at \in Cursors /\ ~at.raised /\ at.off = off /\ at.bodies = bodies
      /\ Next1 = ReadRecord(data, at.off)
  BY <1>1 DEF Cursors, Next1
<1>4. /\ Next1.next \in Nat /\ off < Next1.next /\ Next1.next <= Len(data)
      /\ Next1.body \in Seq(Byte)
      /\ IterTurn(data, at) =
            [off |-> Next1.next, bodies |-> Append(bodies, Next1.body), raised |-> FALSE]
  <2>1. Next1.state = "record"
    BY DEF Converting
  <2> HIDE DEF data, at
  <2>2. QED
    BY <1>1, <1>3, <2>1, ReadIsTurn
<1>5. /\ k + 1 \in 1..Len(data) /\ (k + 1) - 1 = k /\ k + 1 \in 0..Next1.next
      /\ k + 1 \in 0..Len(data)
  BY <1>1, <1>4
<1>6. IterTurns(data)[k + 1] = IterTurn(data, IterTurns(data)[k])
  BY <1>1, <1>5, IterTurnsSteps
<1> HIDE DEF data, at
<1>7. IsPrefix(IterTurns(data)[k + 1].bodies, IterRecords(data).bodies)
  BY <1>1, <1>5, TurnsGrow
<1>8. IterTurns(data)[k + 1] =
         [off |-> Next1.next, bodies |-> Append(bodies, Next1.body), raised |-> FALSE]
  BY <1>2, <1>4, <1>6
<1>9. Append(bodies, Next1.body) \in Seq(Seq(Byte))
  BY <1>1, <1>4, AppendProperties
<1>10. QED
  BY <1>4, <1>5, <1>7, <1>8, <1>9 DEF data

-----------------------------------------------------------------------------
\* Nothing has been read or written when a job starts.
LEMMA FileInvInit == FileInit => FileInv
<1> SUFFICES ASSUME FileInit PROVE FileInv
  OBVIOUS
<1>1. file = <<>> /\ bodies = <<>> /\ stage = "read" /\ job \in Jobs
  BY DEF FileInit
<1>2. Len(file) = 0 /\ Len(bodies) = 0 /\ DOMAIN file = {}
  BY <1>1
<1>3. FileTypeOK
  BY <1>1, JobShape, PayloadAssumption, EmptySeq DEF FileInit, FileTypeOK
<1>4. Written = <<>>
  BY <1>1 DEF Written
<1>5. ASSUME job.kind = "convert" PROVE FramingInv /\ SliceInv
  <2>1. job.bytes \in Seq(Byte) /\ Len(job.bytes) \in Nat /\ Len(job.blocks) \in Nat
    BY <1>1, <1>5, JobShape, LenProperties DEF HoldsBlocks
  <2>2. off = 0 /\ 0 \in 0..Len(job.bytes) /\ 0 \in 0..Len(job.blocks)
    BY <1>5, <2>1 DEF FileInit
  <2>3. IterTurns(job.bytes)[0] = [off |-> off, bodies |-> bodies, raised |-> FALSE]
    BY <1>1, <2>1, <2>2, IterTurnsSteps DEF AtStart
  <2>4. IsPrefix(bodies, IterRecords(job.bytes).bodies)
    BY <2>1, <2>2, <2>3, TurnsGrow
  <2>5. FramingInv
    BY <1>1, <2>1, <2>2, <2>3, <2>4 DEF FramingInv, FramingsAgree
  <2>6. ~Enough
    BY <1>1, <1>2, <1>5, JobShape DEF Enough, AtLeastOne
  <2>7. /\ Written = WantedOf(job)[0] /\ off = job.at[0 + 1]
        /\ IsPrefix(Written, Wanted)
    BY <1>1, <1>4, <1>5, <2>2, JobShape, WantedSteps, WantedGrows DEF Wanted, HoldsBlocks
  <2>8. job.count # None => Len(file) <= AtLeastOne(job.count)
    BY <1>1, <1>2, <1>5, JobShape DEF AtLeastOne
  <2>9. SliceInv
    BY <1>1, <1>2, <2>1, <2>6, <2>7, <2>8 DEF SliceInv, ConvertedIsSlice
  <2>10. QED
    BY <2>5, <2>9
<1>6. ASSUME job.kind # "convert" PROVE FramingInv /\ SliceInv
  BY <1>6 DEF FramingInv, FramingsAgree, SliceInv, ConvertedIsSlice
<1>7. ChainInv
  BY <1>1, <1>2, JobShape DEF FileInit, ChainInv, RecordedIsChain
<1>8. QED
  BY <1>3, <1>5, <1>6, <1>7 DEF FileInv

\* A block that is wanted and written, with what is written then.
LEMMA WriteEffect ==
    ASSUME FileInv, WriteRecord
    PROVE  LET p == job.blocks[Len(bodies) + 1]
           IN /\ Len(bodies) < Len(job.blocks) /\ p \in ToSet(job.blocks)
              /\ file' = Append(file, [payload |-> p, stamped |-> TRUE])
              /\ file' \in Seq(Records(job)) /\ Len(file') = Len(file) + 1
              /\ Written' = Append(Written, p)
              /\ Written' = WantedOf(job)[Len(bodies) + 1]
<1> DEFINE p == job.blocks[Len(bodies) + 1]
           r == [payload |-> p, stamped |-> TRUE]
<1>1. /\ Converting("record") /\ ~Below /\ PayloadOk(BlockIn(Next1.body))
      /\ file' = Append(file, [payload |-> PayloadFromRlp(BlockIn(Next1.body)), stamped |-> TRUE])
  BY DEF WriteRecord
<1>2. /\ Len(bodies) < Len(job.blocks)
      /\ Number(p) \in Nat /\ BlockNumberOf(Next1.body) = Number(p)
      /\ PayloadFromRlp(BlockIn(Next1.body)) = p
      /\ Written = WantedOf(job)[Len(bodies)]
  BY <1>1, CurrentRecord
<1>3. /\ job \in Jobs /\ job.kind = "convert" /\ HoldsBlocks(job)
      /\ job.start \in Nat \cup {None}
      /\ Len(bodies) \in Nat /\ Len(job.blocks) \in Nat
  BY <1>1, JobShape, LenProperties DEF FileInv, FileTypeOK, Converting, HoldsBlocks
<1>4. Len(bodies) + 1 \in 1..Len(job.blocks) /\ (Len(bodies) + 1) - 1 = Len(bodies)
  BY <1>2, <1>3
<1>5. job.start = None \/ Number(p) >= job.start
  BY <1>1, <1>2, <1>3 DEF Below
<1>6. p \in ToSet(job.blocks) /\ WantedOf(job)[Len(bodies) + 1] = Append(WantedOf(job)[Len(bodies)], p)
  BY <1>3, <1>4, <1>5, WantedSteps
<1>7. r \in [payload : ToSet(job.blocks), stamped : {TRUE}] /\ r.payload = p
  BY <1>6
<1>8. file \in Seq([payload : ToSet(job.blocks), stamped : {TRUE}])
  BY <1>3 DEF FileInv, FileTypeOK, Records
<1>9. file' = Append(file, r)
  BY <1>1, <1>2
<1>10. Written' = [i \in DOMAIN Append(file, r) |-> Append(file, r)[i].payload]
  BY <1>9 DEF Written
<1> HIDE DEF r, p
<1>11. [i \in DOMAIN Append(file, r) |-> Append(file, r)[i].payload] = Append(Written, p)
  BY <1>7, <1>8, PayloadsAppend DEF Written
<1>12. file' \in Seq(Records(job)) /\ Len(file') = Len(file) + 1
  <2> DEFINE R == [payload : ToSet(job.blocks), stamped : {TRUE}]
  <2>1. Records(job) = R
    BY <1>3 DEF Records
  <2> HIDE DEF R
  <2>2. r \in R /\ file \in Seq(R)
    BY <1>7, <1>8 DEF R
  <2>3. QED
    BY <1>9, <2>1, <2>2, AppendProperties
<1>13. QED
  BY <1>2, <1>6, <1>9, <1>10, <1>11, <1>12 DEF r, p

\* Every step of a job keeps the types.
LEMMA FileTypeStep == FileInv /\ [FileNext]_fileVars => FileTypeOK'
<1> SUFFICES ASSUME FileInv, [FileNext]_fileVars PROVE FileTypeOK'
  OBVIOUS
<1>0. FileTypeOK
  BY DEF FileInv
<1>1. CASE EndOfStream \/ Truncated \/ Unavailable \/ AllRecorded
  BY <1>0, <1>1 DEF EndOfStream, Truncated, Unavailable, AllRecorded, FileTypeOK
<1>2. CASE SkipRecord
  BY <1>0, <1>2, ConsumeTurn DEF SkipRecord, Consume, FileTypeOK
<1>3. CASE WriteRecord
  <2>1. Next1.next \in Nat /\ Append(bodies, Next1.body) \in Seq(Seq(Byte))
    BY <1>3, ConsumeTurn DEF WriteRecord
  <2>2. file' \in Seq(Records(job)) /\ job' = job /\ branch' = branch
    BY <1>3, WriteEffect DEF WriteRecord
  <2>3. stage' \in {"read", "done"} /\ off' = Next1.next /\ bodies' = Append(bodies, Next1.body)
    BY <1>3 DEF WriteRecord, Consume
  <2>4. QED
    BY <1>0, <2>1, <2>2, <2>3 DEF FileTypeOK
<1>4. CASE BadRecord
  BY <1>0, <1>4, ConsumeTurn DEF BadRecord, Consume, FileTypeOK
<1>5. CASE RecordBlock
  <2>1. /\ job \in Jobs /\ job.kind = "record" /\ off \in 0..Tip
        /\ branch \in [0..Tip -> {"a", "b"}]
    BY <1>0, <1>5, PayloadAssumption DEF RecordBlock, Recording, FileTypeOK
  <2>2. Fork[off] \in Forks /\ off > 0 => off - 1 \in 0..Tip
    BY <2>1, PayloadAssumption
  <2>3. BlockToPayload(off) \in
           [number : 0..Tip, hash : (0..Tip) \X {"a", "b"},
            parent : ((0..Tip) \X {"a", "b"}) \cup {None},
            fields : {Optional(fork) : fork \in Forks}]
    BY <2>1, <2>2, PayloadAssumption DEF BlockToPayload
  <2>4. [payload |-> BlockToPayload(off), stamped |-> FALSE] \in Records(job)
    BY <2>1, <2>3 DEF Records
  <2>5. file' \in Seq(Records(job))
    BY <1>0, <1>5, <2>4, AppendProperties DEF RecordBlock, FileTypeOK
  <2>6. QED
    BY <1>0, <1>5, <2>5 DEF RecordBlock, FileTypeOK
<1>6. CASE Reorg
  BY <1>0, <1>6 DEF Reorg, FileTypeOK
<1>7. CASE UNCHANGED fileVars
  BY <1>0, <1>7 DEF fileVars, FileTypeOK
<1>8. QED
  BY <1>1, <1>2, <1>3, <1>4, <1>5, <1>6, <1>7 DEF FileNext

\* Where a conversion finds no further record, it has gone through all blocks.
LEMMA StreamStops ==
    ASSUME FileInv, stage = "read", job.kind = "convert", Next1.state # "record"
    PROVE  /\ Written = Wanted
           /\ Next1.state = "end" => job.broken # "torn"
           /\ Next1.state = "truncated" => job.broken = "torn"
<1> DEFINE n == Len(bodies)
           N == Len(job.blocks)
<1>1. HoldsBlocks(job) /\ n \in Nat /\ N \in Nat
  BY JobShape, LenProperties DEF FileInv, FileTypeOK, HoldsBlocks
<1>2. CASE job.broken = "bad" /\ Next1.state = "end" /\ Written = Wanted
  BY <1>2
<1>3. CASE n <= N /\ off = job.at[n + 1] /\ Written = WantedOf(job)[n]
  <2>1. n + 1 \in 1..(N + 1)
    BY <1>1, <1>3
  <2>2. ~(n < N)
    <3>1. SUFFICES ASSUME n < N PROVE FALSE
      OBVIOUS
    <3>2. n + 1 \in 1..N
      BY <1>1, <3>1
    <3> HIDE DEF n, N
    <3>3. QED
      BY <1>1, <1>3, <2>1, <3>2 DEF HoldsBlocks, Next1, N
  <2>3. n = N
    BY <1>1, <1>3, <2>2
  <2>4. ReadRecord(job.bytes, job.at[N + 1]) = Next1 /\ N + 1 \in 1..(N + 1)
    BY <1>1, <1>3, <2>3 DEF Next1
  <2>5. \/ job.broken = "no" /\ Next1.state = "end"
        \/ job.broken = "torn" /\ Next1.state = "truncated"
        \/ job.broken = "bad" /\ Next1.state = "record"
    BY <1>1, <2>4 DEF HoldsBlocks
  <2>6. QED
    BY <1>3, <2>3, <2>5 DEF Wanted
<1>4. QED
  BY <1>2, <1>3 DEF FileInv, SliceInv, Next1

\* Every step keeps the reader in step with iter_records.
LEMMA FramingStep == FileInv /\ [FileNext]_fileVars => FramingInv'
<1> SUFFICES ASSUME FileInv, [FileNext]_fileVars PROVE FramingInv'
  OBVIOUS
<1>0. FramingInv
  BY DEF FileInv
<1>1. ASSUME EndOfStream \/ Truncated PROVE FramingInv'
  <2> DEFINE data == job.bytes
             at == [off |-> off, bodies |-> bodies, raised |-> FALSE]
  <2>1. /\ job.kind = "convert" /\ stage = "read" /\ Next1.state \in {"end", "truncated"}
        /\ stage' = IF Next1.state = "end" THEN "done" ELSE "raised"
        /\ UNCHANGED <<job, off, file, bodies, branch>>
    BY <1>1 DEF EndOfStream, Truncated, Converting
  <2>2. /\ data \in Seq(Byte) /\ Len(data) \in Nat
        /\ off \in Nat /\ bodies \in Seq(Seq(Byte)) /\ off <= Len(data)
    BY <2>1, JobShape, LenProperties DEF FileInv, FileTypeOK, FramingInv
  <2>3. PICK k \in 0..off : IterTurns(data)[k] = at
    BY <2>1, <1>0 DEF FramingInv
  <2>4. k \in 0..Len(data)
    BY <2>2
  <2>5. /\ at \in Cursors /\ ~at.raised /\ at.off = off /\ at.bodies = bodies
        /\ Next1 = ReadRecord(data, at.off)
    BY <2>2 DEF Cursors, Next1
  <2>6. IsPrefix(bodies, IterRecords(data).bodies)
    BY <2>1, <1>0 DEF FramingInv, FramingsAgree
  <2>7. CASE Next1.state = "end"
    <3>1. IterTurn(data, at) = at
      <4> HIDE DEF data, at
      <4>1. QED
        BY <2>2, <2>5, <2>7, ReadIsTurn
    <3>2. IterRecords(data) = at
      BY <2>2, <2>3, <2>4, <3>1, TurnsStop
    <3>3. QED
      BY <2>1, <2>6, <2>7, <3>2 DEF FramingInv, FramingsAgree, Enough
  <2>8. CASE Next1.state = "truncated"
    <3>1. off < Len(data) /\ IterTurn(data, at) = [at EXCEPT !.raised = TRUE]
      <4> HIDE DEF data, at
      <4>1. QED
        BY <2>2, <2>5, <2>8, ReadIsTurn
    <3>2. k + 1 \in 1..Len(data) /\ (k + 1) - 1 = k /\ k + 1 \in 0..Len(data)
      BY <2>2, <3>1
    <3>3. IterTurns(data)[k + 1] = [at EXCEPT !.raised = TRUE]
      BY <2>2, <2>3, <3>1, <3>2, IterTurnsSteps
    <3>4. IterTurn(data, IterTurns(data)[k + 1]) = IterTurns(data)[k + 1]
      BY <3>3 DEF IterTurn
    <3>5. IterRecords(data) = [at EXCEPT !.raised = TRUE]
      BY <2>2, <3>2, <3>3, <3>4, TurnsStop
    <3>6. QED
      BY <2>1, <2>6, <2>8, <3>5 DEF FramingInv, FramingsAgree, Enough
  <2>9. QED
    BY <2>1, <2>7, <2>8
<1>2. ASSUME SkipRecord \/ WriteRecord \/ BadRecord PROVE FramingInv'
  <2>1. /\ Converting("record") /\ job' = job
        /\ off' = Next1.next /\ bodies' = Append(bodies, Next1.body)
    BY <1>2 DEF SkipRecord, WriteRecord, BadRecord, Consume
  <2>2. /\ off' <= Len(job.bytes) /\ IsPrefix(bodies', IterRecords(job.bytes).bodies)
        /\ \E k \in 0..off' :
              IterTurns(job.bytes)[k] = [off |-> off', bodies |-> bodies', raised |-> FALSE]
    BY <2>1, ConsumeTurn
  <2>3. stage' = "done" => Enough'
    BY <1>2, <2>1, JobShape DEF SkipRecord, WriteRecord, BadRecord, Converting, Enough, AtLeastOne,
       FileInv, FileTypeOK
  <2>4. stage' = "raised" => job.broken # "torn"
    BY <1>2, <2>1, CurrentRecord DEF SkipRecord, WriteRecord, BadRecord, Converting, Bad
  <2>5. QED
    BY <2>1, <2>2, <2>3, <2>4 DEF FramingInv, FramingsAgree
<1>3. ASSUME RecordBlock \/ Unavailable \/ AllRecorded \/ Reorg PROVE FramingInv'
  BY <1>3 DEF RecordBlock, Unavailable, AllRecorded, Reorg, Recording, FramingInv, FramingsAgree
<1>4. CASE UNCHANGED fileVars
  BY <1>0, <1>4 DEF fileVars, FramingInv, FramingsAgree, Enough
<1>5. QED
  BY <1>1, <1>2, <1>3, <1>4 DEF FileNext

\* Every step keeps what is written a slice of the stream.
LEMMA SliceStep == FileInv /\ [FileNext]_fileVars => SliceInv'
<1> SUFFICES ASSUME FileInv, [FileNext]_fileVars PROVE SliceInv'
  OBVIOUS
<1> DEFINE n == Len(bodies)
<1>0. SliceInv /\ FileTypeOK
  BY DEF FileInv
<1>1. ASSUME EndOfStream \/ Truncated PROVE SliceInv'
  <2>1. /\ job.kind = "convert" /\ stage = "read" /\ Next1.state \in {"end", "truncated"}
        /\ stage' = IF Next1.state = "end" THEN "done" ELSE "raised"
        /\ UNCHANGED <<job, off, file, bodies, branch>>
    BY <1>1 DEF EndOfStream, Truncated, Converting
  <2>2. /\ Written = Wanted
        /\ Next1.state = "end" => job.broken # "torn"
        /\ Next1.state = "truncated" => job.broken = "torn"
    BY <2>1, StreamStops
  <2>3. /\ ~Enough /\ IsPrefix(Written, Wanted)
        /\ job.count # None => Len(file) <= AtLeastOne(job.count)
    BY <1>0, <2>1 DEF SliceInv, ConvertedIsSlice
  <2>4. Written' = Written /\ Wanted' = Wanted /\ Enough' = Enough
    BY <2>1 DEF Written, Wanted, Enough
  <2>5. QED
    BY <2>1, <2>2, <2>3, <2>4 DEF SliceInv, ConvertedIsSlice
<1>2. ASSUME Converting("record"), job' = job, bodies' = Append(bodies, Next1.body)
      PROVE  /\ job \in Jobs /\ job.kind = "convert" /\ HoldsBlocks(job)
             /\ job.start \in Nat \cup {None} /\ job.count \in Nat \cup {None}
             /\ n \in Nat /\ Len(job.blocks) \in Nat /\ Len(file) \in Nat
             /\ Len(bodies') = n + 1
             /\ ~Enough /\ IsPrefix(Written, Wanted) /\ Wanted' = Wanted
             /\ job.count # None => Len(file) <= AtLeastOne(job.count)
  <2>1. Len(bodies') = n + 1
    BY <1>0, <1>2 DEF FileTypeOK
  <2>2. QED
    BY <1>0, <1>2, <2>1, JobShape, LenProperties
       DEF FileTypeOK, Converting, HoldsBlocks, SliceInv, ConvertedIsSlice, Wanted
<1>3. ASSUME SkipRecord PROVE SliceInv'
  <2>1. /\ Converting("record") /\ Below /\ ~Bad /\ stage = "read" /\ job.kind = "convert"
        /\ off' = Next1.next /\ bodies' = Append(bodies, Next1.body)
        /\ UNCHANGED <<job, stage, file, branch>>
    BY <1>3 DEF SkipRecord, Consume, Converting
  <2>2. Written' = Written /\ Wanted' = Wanted /\ Enough' = Enough
    BY <2>1 DEF Written, Wanted, Enough
  <2>3. \/ /\ Len(bodies') <= Len(job'.blocks) /\ off' = job'.at[Len(bodies') + 1]
           /\ Written' = WantedOf(job')[Len(bodies')]
        \/ /\ job'.broken = "bad" /\ ReadRecord(job'.bytes, off').state = "end"
           /\ Written' = Wanted'
    <3>1. CASE /\ n < Len(job.blocks) /\ Next1.next = job.at[n + 2]
               /\ Number(job.blocks[n + 1]) \in Nat
               /\ BlockNumberOf(Next1.body) = Number(job.blocks[n + 1])
               /\ Written = WantedOf(job)[n]
      <4>1. n + 1 \in 1..Len(job.blocks) /\ (n + 1) - 1 = n /\ (n + 1) + 1 = n + 2
        BY <1>2, <2>1, <3>1
      <4>2. ~(job.start = None \/ Number(job.blocks[n + 1]) >= job.start)
        BY <1>2, <2>1, <3>1 DEF Below
      <4>3. WantedOf(job)[n + 1] = WantedOf(job)[n]
        BY <1>2, <2>1, <4>1, <4>2, WantedSteps
      <4>4. QED
        BY <1>2, <2>1, <2>2, <3>1, <4>1, <4>3
    <3>2. CASE job.broken = "bad" /\ Written = Wanted /\ ReadRecord(job.bytes, Next1.next).state = "end"
      BY <2>1, <2>2, <3>2
    <3>3. QED
      BY <2>1, <3>1, <3>2, CurrentRecord
  <2>4. QED
    BY <1>2, <2>1, <2>2, <2>3 DEF SliceInv, ConvertedIsSlice
<1>4. ASSUME WriteRecord PROVE SliceInv'
  <2>1. /\ Converting("record") /\ job' = job /\ job.kind = "convert"
        /\ off' = Next1.next /\ bodies' = Append(bodies, Next1.body)
        /\ stage' = IF job.count # None /\ Len(file') >= job.count THEN "done" ELSE "read"
        /\ PayloadOk(BlockIn(Next1.body))
    BY <1>4 DEF WriteRecord, Consume, Converting
  <2>2. /\ n < Len(job.blocks) /\ Len(file') = Len(file) + 1
        /\ Written' = WantedOf(job)[n + 1]
    BY <1>4, WriteEffect
  <2>3. Next1.next = job.at[n + 2]
    BY <2>1, CurrentRecord
  <2>4. /\ n + 1 \in 0..Len(job.blocks) /\ (n + 1) + 1 = n + 2
        /\ n + 1 <= Len(job.blocks)
    BY <1>2, <2>1, <2>2
  <2>5. IsPrefix(Written', Wanted')
    BY <1>2, <2>1, <2>2, <2>4, WantedGrows DEF Wanted
  <2>6. /\ job.count # None => Len(file') <= AtLeastOne(job.count)
        /\ stage' = "done" => Enough'
        /\ stage' = "read" => ~Enough'
    BY <1>2, <2>1, <2>2 DEF Enough, AtLeastOne
  <2>7. /\ Len(bodies') <= Len(job'.blocks) /\ off' = job'.at[Len(bodies') + 1]
        /\ Written' = WantedOf(job')[Len(bodies')]
    BY <1>2, <2>1, <2>2, <2>3, <2>4
  <2>8. stage' \in {"done", "read"}
    BY <2>1
  <2>9. QED
    BY <2>1, <2>5, <2>6, <2>7, <2>8 DEF SliceInv, ConvertedIsSlice
<1>5. ASSUME BadRecord PROVE SliceInv'
  <2>1. /\ Converting("record") /\ job' = job /\ job.kind = "convert" /\ file' = file
        /\ bodies' = Append(bodies, Next1.body) /\ stage' = "raised"
        /\ Bad \/ (~Below /\ ~PayloadOk(BlockIn(Next1.body)))
    BY <1>5 DEF BadRecord, Consume, Converting
  <2>2. job.broken = "bad" /\ Written = Wanted
    BY <2>1, CurrentRecord DEF Bad
  <2>3. Written' = Written /\ Wanted' = Wanted /\ Enough' = Enough
    BY <2>1 DEF Written, Wanted, Enough
  <2>4. QED
    BY <1>2, <2>1, <2>2, <2>3 DEF SliceInv, ConvertedIsSlice
<1>6. ASSUME RecordBlock \/ Unavailable \/ AllRecorded \/ Reorg PROVE SliceInv'
  BY <1>6 DEF RecordBlock, Unavailable, AllRecorded, Reorg, Recording, SliceInv, ConvertedIsSlice
<1>7. CASE UNCHANGED fileVars
  <2>1. Written' = Written /\ Wanted' = Wanted /\ Enough' = Enough
    BY <1>7 DEF fileVars, Written, Wanted, Enough
  <2>2. QED
    BY <1>0, <1>7, <2>1 DEF fileVars, SliceInv, ConvertedIsSlice
<1>8. QED
  BY <1>1, <1>3, <1>4, <1>5, <1>6, <1>7 DEF FileNext

\* A node that reorganises its chain only moves blocks to the other branch.
LEMMA ReorgMoves ==
    ASSUME FileTypeOK, Reorg
    PROVE  \A n \in 0..Tip : branch[n] = "b" => branch'[n] = "b"
BY DEF FileTypeOK, Reorg

\* Every step keeps what is recorded a chain, as far as the node kept its own.
LEMMA ChainStep == FileInv /\ [FileNext]_fileVars => ChainInv'
<1> SUFFICES ASSUME FileInv, [FileNext]_fileVars PROVE ChainInv'
  OBVIOUS
<1>0. FileTypeOK /\ ChainInv
  BY DEF FileInv
<1>1. ASSUME EndOfStream \/ Truncated \/ SkipRecord \/ WriteRecord \/ BadRecord PROVE ChainInv'
  <2>1. job.kind = "convert" /\ job' = job
    BY <1>1 DEF EndOfStream, Truncated, SkipRecord, WriteRecord, BadRecord, Converting
  <2>2. QED
    BY <2>1 DEF ChainInv, RecordedIsChain
<1>2. ASSUME RecordBlock PROVE ChainInv'
  <2> DEFINE p == BlockToPayload(off)
             r == [payload |-> p, stamped |-> FALSE]
             k == Len(file)
  <2>1. /\ job.kind = "record" /\ job \in Jobs /\ job.start \in Nat /\ job.count \in Nat
        /\ off \in 0..Tip /\ off < job.start + job.count
        /\ file' = Append(file, r) /\ off' = off + 1 /\ UNCHANGED <<job, branch>>
    BY <1>0, <1>2, JobShape, PayloadAssumption DEF RecordBlock, Recording, Asked, FileTypeOK
  <2>2. /\ k \in Nat /\ DOMAIN file = 1..k /\ k = off - job.start
    BY <1>0, <2>1, LenProperties DEF FileTypeOK, ChainInv
  <2>3. /\ Len(file') = k + 1 /\ DOMAIN file' = 1..(k + 1)
        /\ \A i \in 1..k : file'[i] = file[i]
        /\ file'[k + 1] = r
    <3>1. r \in Records(job) \cup {r} /\ file \in Seq(Records(job) \cup {r})
      BY <1>0, SeqMonotonic DEF FileTypeOK
    <3> HIDE DEF r
    <3>2. QED
      BY <2>1, <3>1, AppendProperties, LenProperties
  <2>4. /\ p.number = off /\ p.hash[1] = off /\ p.hash[2] = branch[off]
        /\ p.hash = <<off, branch[off]>>
        /\ off > 0 => p.parent = <<off - 1, branch[off - 1]>>
        /\ p.fields = Optional(Fork[off])
    BY <2>1, PayloadAssumption DEF BlockToPayload
  <2>5. /\ \A i \in 1..k : file[i].payload.number = job.start + i - 1
        /\ \A i \in 2..k : file[i].payload.parent = file[i - 1].payload.hash
                             \/ branch[job.start + i - 2] = "b"
    BY <1>0, <2>1, <2>2 DEF ChainInv, RecordedIsChain
  <2>6. \A i \in 1..k :
           LET q == file[i].payload
           IN /\ q.hash[1] = q.number /\ (q.hash[2] = "b" => branch[q.number] = "b")
              /\ q.number > 0 => /\ q.parent[1] = q.number - 1
                                 /\ q.parent[2] = "b" => branch[q.number - 1] = "b"
                                 /\ q.parent[2] = "a" /\ i > 1 => file[i - 1].payload.hash[2] = "a"
              /\ q.fields = Optional(Fork[q.number])
    BY <1>0, <2>1, <2>2 DEF ChainInv
  <2>7. ASSUME k > 0
        PROVE LET q == file[k].payload
              IN /\ q.number = off - 1 /\ q.hash \in (0..Tip) \X {"a", "b"}
                 /\ q.hash = <<off - 1, q.hash[2]>>
                 /\ q.hash[2] = "b" => branch[off - 1] = "b"
    <3>1. k \in 1..k
      BY <2>2, <2>7
    <3>2. file[k].payload.hash \in (0..Tip) \X {"a", "b"}
      <4>1. file[k] \in Records(job)
        BY <1>0, <3>1, ElementOfSeq DEF FileTypeOK
      <4>2. QED
        BY <2>1, <4>1 DEF Records
    <3>3. file[k].payload.number = off - 1
      BY <2>1, <2>2, <2>5, <3>1
    <3>4. QED
      BY <2>6, <3>1, <3>2, <3>3
  <2>8. branch \in [0..Tip -> {"a", "b"}] /\ (k > 0 => off > 0 /\ off - 1 \in 0..Tip)
    <3>1. branch \in [0..Tip -> {"a", "b"}]
      BY <1>0 DEF FileTypeOK
    <3>2. k > 0 => off > 0 /\ off - 1 \in 0..Tip
      <4> HIDE DEF k
      <4>1. Tip \in Nat
        BY PayloadAssumption
      <4>2. QED
        BY <2>1, <2>2, <4>1
    <3>3. QED
      BY <3>1, <3>2
  <2> HIDE DEF p, r, k
  <2>9. r.payload = p
    BY DEF r
  <2>10. \A i \in 1..(k + 1) : file'[i].payload.number = job.start + i - 1
    <3>1. ASSUME NEW i \in 1..k PROVE file'[i].payload.number = job.start + i - 1
      BY <2>3, <2>5
    <3>2. file'[k + 1].payload.number = off /\ off = job.start + (k + 1) - 1
      BY <2>1, <2>2, <2>3, <2>4, <2>9
    <3>3. \A i \in 1..(k + 1) : i \in 1..k \/ i = k + 1
      BY <2>2
    <3>4. QED
      BY <3>1, <3>2, <3>3
  <2>11. \A i \in 2..(k + 1) : file'[i].payload.parent = file'[i - 1].payload.hash
                                \/ branch[job.start + i - 2] = "b"
    <3>1. ASSUME NEW i \in 2..(k + 1), i # k + 1
          PROVE file'[i].payload.parent = file'[i - 1].payload.hash \/ branch[job.start + i - 2] = "b"
      <4>1. i \in 2..k /\ i \in 1..k /\ i - 1 \in 1..k
        BY <2>2, <3>1
      <4>2. QED
        BY <2>3, <2>5, <4>1
    <3>2. ASSUME k + 1 \in 2..(k + 1)
          PROVE file'[k + 1].payload.parent = file'[k].payload.hash \/ branch[off - 1] = "b"
      <4>1. k > 0 /\ k \in 1..k
        BY <2>2, <3>2
      <4>2. QED
        BY <2>3, <2>4, <2>7, <2>8, <2>9, <4>1
    <3>3. job.start + (k + 1) - 2 = off - 1 /\ (k + 1) - 1 = k
      BY <2>1, <2>2
    <3>4. QED
      BY <3>1, <3>2, <3>3
  <2>12. ASSUME NEW i \in 1..(k + 1)
         PROVE LET q == file'[i].payload
               IN /\ q.hash[1] = q.number /\ (q.hash[2] = "b" => branch[q.number] = "b")
                  /\ q.number > 0 => /\ q.parent[1] = q.number - 1
                                     /\ q.parent[2] = "b" => branch[q.number - 1] = "b"
                                     /\ q.parent[2] = "a" /\ i > 1 => file'[i - 1].payload.hash[2] = "a"
                  /\ q.fields = Optional(Fork[q.number])
    <3>1. CASE i # k + 1
      <4>1. i \in 1..k /\ (i > 1 => i - 1 \in 1..k)
        BY <2>2, <3>1
      <4>2. QED
        BY <2>3, <2>6, <4>1
    <3>2. CASE i = k + 1
      <4>1. k + 1 > 1 => k > 0 /\ k \in 1..k /\ (k + 1) - 1 = k
        BY <2>2
      <4>2. file'[i].payload = p
        BY <2>3, <2>9, <3>2
      <4>3. k > 0 /\ branch[off - 1] = "a" => file[k].payload.hash[2] = "a"
        BY <2>7, <2>8
      <4>4. off > 0 => p.parent[1] = off - 1 /\ p.parent[2] = branch[off - 1]
        BY <2>4
      <4>5. i > 1 /\ branch[off - 1] = "a" => file'[i - 1].payload.hash[2] = "a"
        BY <2>3, <3>2, <4>1, <4>3
      <4>6. QED
        BY <2>4, <4>2, <4>4, <4>5
    <3>3. QED
      BY <3>1, <3>2
  <2>13. Len(file') = off' - job.start /\ off' <= job.start + job.count /\ Len(file') <= job.count
    BY <2>1, <2>2, <2>3
  <2>14. QED
    BY <2>1, <2>3, <2>10, <2>11, <2>12, <2>13 DEF ChainInv, RecordedIsChain
<1>3. ASSUME Unavailable \/ AllRecorded PROVE ChainInv'
  BY <1>0, <1>3 DEF Unavailable, AllRecorded, ChainInv, RecordedIsChain
<1>4. ASSUME Reorg PROVE ChainInv'
  <2>1. job.kind = "record" /\ job \in Jobs /\ UNCHANGED <<job, off, file>>
    BY <1>0, <1>4 DEF Reorg, Recording, FileTypeOK
  <2>2. \A n \in 0..Tip : branch[n] = "b" => branch'[n] = "b"
    BY <1>0, <1>4, ReorgMoves
  <2>3. \A i \in DOMAIN file :
           /\ file[i].payload.number \in 0..Tip
           /\ file[i].payload.number = job.start + i - 1
    <3>1. \A i \in DOMAIN file : file[i] \in Records(job)
      BY <1>0, LenProperties, ElementOfSeq DEF FileTypeOK
    <3>2. QED
      BY <1>0, <2>1, <3>1 DEF Records, ChainInv, RecordedIsChain
  <2>4. job.start \in Nat /\ Len(file) \in Nat /\ DOMAIN file = 1..Len(file) /\ Tip \in Nat
    BY <1>0, <2>1, JobShape, LenProperties, PayloadAssumption DEF FileTypeOK
  <2>5. \A i \in 2..Len(file) : i - 1 \in DOMAIN file /\ job.start + (i - 1) - 1 = job.start + i - 2
    BY <2>4
  <2>6. \A i \in 2..Len(file) : job.start + i - 2 \in 0..Tip
    BY <2>3, <2>5
  <2>7. \A i \in 2..Len(file) : file[i].payload.parent = file[i - 1].payload.hash
                                \/ branch'[job.start + i - 2] = "b"
    BY <1>0, <2>1, <2>2, <2>6 DEF ChainInv, RecordedIsChain
  <2>8. RecordedIsChain'
    BY <1>0, <2>1, <2>7 DEF ChainInv, RecordedIsChain
  <2>9. ASSUME NEW i \in DOMAIN file
        PROVE LET q == file[i].payload
              IN /\ q.hash[1] = q.number /\ (q.hash[2] = "b" => branch'[q.number] = "b")
                 /\ q.number > 0 => /\ q.parent[1] = q.number - 1
                                    /\ q.parent[2] = "b" => branch'[q.number - 1] = "b"
                                    /\ q.parent[2] = "a" /\ i > 1 => file[i - 1].payload.hash[2] = "a"
                 /\ q.fields = Optional(Fork[q.number])
    <3>1. /\ file[i].payload.number \in 0..Tip
          /\ file[i].payload.number > 0 => file[i].payload.number - 1 \in 0..Tip
      <4>1. file[i].payload.number \in 0..Tip
        BY <2>3
      <4>2. \A m \in 0..Tip : m > 0 => m - 1 \in 0..Tip
        BY <2>4
      <4>3. QED
        BY <4>1, <4>2
    <3>2. QED
      BY <1>0, <2>1, <2>2, <3>1 DEF ChainInv
  <2>10. QED
    BY <1>0, <2>1, <2>8, <2>9 DEF ChainInv
<1>5. CASE UNCHANGED fileVars
  BY <1>0, <1>5 DEF fileVars, ChainInv, RecordedIsChain
<1>6. QED
  BY <1>1, <1>2, <1>3, <1>4, <1>5 DEF FileNext

\* A record of a block goes out with the version of its fork.
LEMMA VersionOfRecord ==
    ASSUME NEW r, NEW fork \in Forks, r.payload.fields = Optional(fork), r.stamped = FALSE
    PROVE  Version(None, Load(r)) = IF fork = "prague" THEN 3 ELSE VersionForFork(fork)
<1>1. None \notin Forks \cup Nat \cup {<<>>}
  BY PayloadAssumption
<1>2. /\ Load(r).fields = Optional(fork) /\ Load(r).requests = None
      /\ Load(r).version = None /\ Load(r).fork = None
  BY DEF Load
<1>3. VersionForFork(None) = None
  BY <1>1 DEF VersionForFork, Forks
<1>4. Version(None, Load(r)) = AutoPick(Load(r))
  BY <1>2, <1>3 DEF Version
<1>5. CASE fork = "paris"
  BY <1>2, <1>4, <1>5 DEF AutoPick, Optional, VersionForFork
<1>6. CASE fork = "shanghai"
  BY <1>2, <1>4, <1>6 DEF AutoPick, Optional, VersionForFork
<1>7. CASE fork = "cancun"
  BY <1>2, <1>4, <1>7 DEF AutoPick, Optional, VersionForFork
<1>8. CASE fork = "prague"
  BY <1>2, <1>4, <1>8 DEF AutoPick, Optional
<1>9. QED
  BY <1>5, <1>6, <1>7, <1>8 DEF Forks

\* In every state of a job its records go out with the version of their fork.
LEMMA VersionsFit == FileInv => VersionFitsFork
<1> SUFFICES ASSUME FileInv, NEW i \in DOMAIN file
    PROVE Version(None, Load(file[i])) =
             IF file[i].stamped THEN 4
             ELSE IF Fork[file[i].payload.number] = "prague" THEN 3
             ELSE VersionForFork(Fork[file[i].payload.number])
  BY DEF VersionFitsFork, ToSet
<1>1. job \in Jobs /\ file[i] \in Records(job)
  BY LenProperties, ElementOfSeq DEF FileInv, FileTypeOK
<1>2. CASE job.kind = "convert"
  <2>1. file[i].stamped = TRUE
    BY <1>1, <1>2 DEF Records
  <2>2. Load(file[i]).version = 4
    BY <2>1 DEF Load
  <2>3. Load(file[i]).version # None
    BY <2>2, PayloadAssumption
  <2>4. Version(None, Load(file[i])) = Load(file[i]).version
    BY <2>3 DEF Version
  <2>5. QED
    BY <2>1, <2>2, <2>4
<1>3. CASE job.kind = "record"
  <2>1. file[i].stamped = FALSE /\ file[i].payload.number \in 0..Tip
    BY <1>1, <1>3 DEF Records
  <2>2. Fork[file[i].payload.number] \in Forks
    BY <2>1, PayloadAssumption
  <2>3. file[i].payload.fields = Optional(Fork[file[i].payload.number])
    BY <1>3 DEF FileInv, ChainInv
  <2>4. QED
    BY <2>1, <2>2, <2>3, VersionOfRecord
<1>4. QED
  BY <1>1, <1>2, <1>3, JobShape

\* The inductive invariant of conversions and recordings.
THEOREM FileInductive == FileSpec => []FileInv
<1>1. FileInv /\ [FileNext]_fileVars => FileInv'
  BY FileTypeStep, FramingStep, SliceStep, ChainStep DEF FileInv
<1>2. QED
  BY <1>1, FileInvInit, PTL DEF FileSpec

\* Type correctness of conversions and recordings: what is written is blocks
\* of the stream, or blocks the node can have.
THEOREM FileTypeCorrect == FileSpec => []FileTypeOK
BY FileInductive, PTL DEF FileInv

\* The streaming reader and the one in memory cut a stream of any length, whole
\* or torn anywhere, into the same records.
THEOREM FramingsAlwaysAgree == FileSpec => []FramingsAgree
BY FileInductive, PTL DEF FileInv, FramingInv

\* Of a stream of any length, convert writes exactly the window asked for.
THEOREM ConversionIsSlice == FileSpec => []ConvertedIsSlice
BY FileInductive, PTL DEF FileInv, SliceInv

\* A recording of any length is consecutive, and a gap in its parent hashes is
\* a reorganisation of the node.
THEOREM RecordingIsChain == FileSpec => []RecordedIsChain
BY FileInductive, PTL DEF FileInv, ChainInv

\* Every record is sent with the newPayload version of its fork.
THEOREM VersionsAlwaysFit == FileSpec => []VersionFitsFork
BY FileInductive, VersionsFit, PTL

-----------------------------------------------------------------------------
(* One engine call.                                                        *)

\* The attempts of a call are a second apart, and all within its budget.
CopiesBounded == attempts > 0 => (attempts - 1) * Second <= sentAt /\ sentAt < Budget

\* The time the signs of life of the last attempt can have cost.
Extra == parts * reqTimeout

\* Ending the call a floor and a sleep after the budget, but for the signs of
\* life, needs to know, in each place, how the clock stands to the last attempt,
\* to the last sign of life in it and to the sleep.
IInv ==
    /\ TypeOK
    /\ reqTimeout <= Longer(Second, Budget)
    /\ now < Budget + 2 * Second + Extra
    /\ pc = "load" => attempts = 0
    /\ pc = "check" => iat <= now /\ now - iat < Second
    /\ pc = "post" =>
        /\ attempts > 0
        /\ iat <= sentAt /\ sentAt - iat < Second
        /\ sentAt <= now /\ heard <= now /\ now <= heard + reqTimeout
        /\ heard <= sentAt + Extra
        /\ sentAt + reqTimeout < Budget + Second
    /\ pc = "sleep" => now <= wakeAt /\ wakeAt < Budget + 2 * Second + Extra
    /\ pc = "sleep" => attempts > 0 /\ sentAt + Second <= wakeAt
    /\ pc \in {"mint", "check"} /\ attempts > 0 => sentAt + Second <= now
    /\ CopiesBounded

\* The issued-at time of a token is at most a second behind the clock.
LEMMA WholeSecondsBounds ==
    ASSUME NEW t \in Nat
    PROVE  /\ WholeSeconds(t) \in Nat
           /\ WholeSeconds(t) <= t
           /\ t - WholeSeconds(t) < Second
<1>1. t % Second \in 0..(Second - 1)
  BY TimeAssumption
<1>2. t % Second <= t
  BY TimeAssumption
<1>3. QED
  BY <1>1, <1>2, TimeAssumption DEF WholeSeconds

\* One more attempt, a second or more after the last, keeps the bound.
LEMMA OneMoreCopy ==
    ASSUME NEW n \in Nat, NEW s \in Nat, NEW t \in Nat,
           n > 0 => (n - 1) * Second <= s /\ s + Second <= t
    PROVE  /\ OneMore(n) \in Nat
           /\ OneMore(n) > 0 => (OneMore(n) - 1) * Second <= t
<1> Second \in Nat /\ MaxCopies \in Nat
  BY TimeAssumption
<1>1. CASE n = 0
  BY <1>1 DEF OneMore
<1>2. CASE n > 0
  <2>1. n * Second = (n - 1) * Second + Second
    OBVIOUS
  <2>2. n * Second <= t /\ (n - 1) * Second <= t
    BY <1>2, <2>1
  <2>3. OneMore(n) \in {n, n + 1}
    BY DEF OneMore
  <2>4. (n + 1) - 1 = n
    OBVIOUS
  <2>5. QED
    BY <1>2, <2>2, <2>3, <2>4
<1>3. QED
  BY <1>1, <1>2

\* The time the signs of life can cost is a number, and what one more adds.
LEMMA ExtraProperties ==
    ASSUME NEW n \in Nat, NEW t \in Nat
    PROVE  /\ n * t \in Nat
           /\ (n + 1) * t = n * t + t
           /\ 0 * t = 0
OBVIOUS

\* The invariant of a call holds when it starts.
LEMMA InductiveInit == Init => IInv
<1> SUFFICES ASSUME Init PROVE IInv
  OBVIOUS
<1>1. Extra = 0
  BY DEF Init, Extra
<1>2. QED
  BY <1>1, TimeAssumption DEF Init, IInv, TypeOK, CopiesBounded, Ended, Longer

\* Every step of _rpc, and every step of the clock, keeps the invariant.
LEMMA InductiveStep == IInv /\ [Next]_vars => IInv'
<1> SUFFICES ASSUME IInv, [Next]_vars PROVE IInv'
  OBVIOUS
<1>0. /\ now \in Nat /\ iat \in Nat /\ sentAt \in Nat /\ reqTimeout \in Nat
      /\ heard \in Nat /\ parts \in 0..MaxParts /\ MaxParts \in Nat
      /\ wakeAt \in Nat /\ attempts \in Nat /\ Second \in Nat \ {0} /\ Budget \in Nat \ {0}
  BY TimeAssumption DEF IInv, TypeOK
<1>00. Extra \in Nat
  BY <1>0, ExtraProperties DEF Extra
<1>000. UNCHANGED attempt => Extra' = Extra
  BY DEF attempt, Extra
<1>1. CASE LoadSecret
  BY <1>0, <1>00, <1>000, <1>1 DEF LoadSecret, attempt, IInv, TypeOK, CopiesBounded, Ended
<1>2. CASE MintJwt
  BY <1>0, <1>00, <1>000, <1>2, WholeSecondsBounds
     DEF MintJwt, attempt, IInv, TypeOK, CopiesBounded, Ended
<1>3. CASE Post
  <2>1. /\ reqTimeout' \in Nat
        /\ reqTimeout' <= Longer(Second, Budget)
        /\ now + reqTimeout' < Budget + Second
    BY <1>0, <1>3 DEF Post, Longer
  <2>2. /\ attempts' \in Nat
        /\ attempts' > 0 => (attempts' - 1) * Second <= now
    BY <1>0, <1>3, OneMoreCopy DEF Post, IInv, CopiesBounded
  <2>3. attempts' > 0
    BY <1>0, <1>3, TimeAssumption DEF Post, OneMore, IInv
  <2>4. Extra' = 0
    BY <2>1, <1>3 DEF Post, Extra
  <2>5. QED
    BY <1>0, <1>3, <2>1, <2>2, <2>3, <2>4 DEF Post, IInv, TypeOK, CopiesBounded, Ended
<1>4. CASE BudgetSpent
  BY <1>0, <1>00, <1>000, <1>4 DEF BudgetSpent, attempt, IInv, TypeOK, CopiesBounded, Ended
<1>5. ASSUME pc = "post", SleepThenRetry PROVE IInv'
  BY <1>0, <1>00, <1>000, <1>5 DEF SleepThenRetry, attempt, IInv, TypeOK, CopiesBounded, Ended
<1>6. ASSUME NEW how \in {"raised", "returned"}, EndCall(how) PROVE IInv'
  BY <1>0, <1>00, <1>000, <1>6 DEF EndCall, attempt, IInv, TypeOK, CopiesBounded, Ended
<1>7. CASE TransportError
  BY <1>5, <1>7 DEF TransportError
<1>8. CASE EngineError \/ Result
  BY <1>6, <1>8 DEF EngineError, Result
<1>9. CASE ServerTimeout
  BY <1>5, <1>6, <1>9 DEF ServerTimeout
<1>10. CASE Wake
  BY <1>0, <1>00, <1>000, <1>10 DEF Wake, attempt, IInv, TypeOK, CopiesBounded, Ended
<1>11. CASE Tick
  BY <1>0, <1>00, <1>000, <1>11 DEF Tick, attempt, IInv, TypeOK, CopiesBounded, Ended
<1>12. CASE Progress
  <2>1. parts' = parts + 1 /\ reqTimeout' = reqTimeout
    BY <1>12 DEF Progress
  <2>2. Extra' = Extra + reqTimeout
    BY <1>0, <2>1, ExtraProperties DEF Extra
  <2>3. QED
    BY <1>0, <1>00, <1>12, <2>2 DEF Progress, IInv, TypeOK, CopiesBounded, Ended
<1>13. CASE UNCHANGED vars
  BY <1>000, <1>13 DEF vars, attempt, IInv, TypeOK, CopiesBounded
<1>14. QED
  BY <1>1, <1>2, <1>3, <1>4, <1>7, <1>8, <1>9, <1>10, <1>11, <1>12, <1>13 DEF Next

\* The inductive invariant of one engine call: the clock, the deadline and the
\* attempts made are bounded together in every reachable state.
THEOREM Inductive == Spec => []IInv
BY InductiveInit, InductiveStep, PTL DEF Spec

\* Type correctness of one engine call, its clock included.
THEOREM TypeCorrect == Spec => []TypeOK
BY Inductive, PTL DEF IInv

\* A call ends within a second and a sleep of its budget, and one more timeout
\* for every sign of life in its last attempt; against a silent EL, within a
\* second and a sleep of it.
THEOREM Overrun == Spec => []OverrunBounded
BY Inductive, PTL DEF IInv, Extra, OverrunBounded

\* The EL never sees a JWT it has to refuse for its age.
THEOREM FreshTokens == Spec => []TokenFresh
<1>1. IInv => TokenFresh
  BY TimeAssumption DEF IInv, TypeOK, TokenFresh
<1>2. QED
  BY <1>1, Inductive, PTL

\* However an attempt fails, the EL is left with a bounded number of copies
\* of the request.
THEOREM Copies == Spec => []CopiesBounded
BY Inductive, PTL DEF IInv

\* There is an attempt left in the budget of a call that has time left.
LEMMA AttemptFits ==
    ASSUME NEW n \in Nat, NEW t \in Nat, n * Second <= t, t < Budget
    PROVE  n < (Budget + Second - 1) \div Second
<1> DEFINE q == (Budget + Second - 1) \div Second
           r == (Budget + Second - 1) % Second
<1>1. Second \in Nat \ {0} /\ Budget \in Nat
  BY TimeAssumption
<1>2. /\ q \in Nat /\ r \in 0..(Second - 1)
      /\ Budget + Second - 1 = q * Second + r
  BY <1>1
<1> HIDE DEF q, r
<1>3. SUFFICES ASSUME q <= n PROVE FALSE
  BY <1>1, <1>2 DEF q
<1>4. q * Second <= n * Second
  BY <1>1, <1>2, <1>3
<1>5. q * Second \in Nat /\ n * Second \in Nat
  BY <1>1, <1>2
<1>6. QED
  BY <1>1, <1>2, <1>4, <1>5

\* A step of _rpc, or of the clock, is one of EngineCall or leaves the caller's
\* view of the call as it was.
LEMMA CallStep == IInv /\ [Next]_vars => [Call!Next]_(Call!callVars)
<1> SUFFICES ASSUME IInv, [Next]_vars PROVE [Call!Next]_(Call!callVars)
  OBVIOUS
<1>0. attempts \in Nat /\ now \in Nat /\ sentAt \in Nat /\ Second \in Nat \ {0}
  BY TimeAssumption DEF IInv, TypeOK
<1>1. CASE Post
  <2>1. CASE attempts = 0
    <3>1. attempts' = 1 /\ pc' = "post"
      BY <1>1, <2>1, TimeAssumption DEF Post, OneMore
    <3>2. QED
      BY <2>1, <3>1 DEF Call!Next, Call!Send, Ended
  <2>2. CASE attempts > 0
    <3>1. (attempts - 1) * Second <= sentAt /\ sentAt + Second <= now /\ now < Budget
      BY <1>1, <2>2 DEF Post, IInv, CopiesBounded
    <3>2. attempts * Second = (attempts - 1) * Second + Second
      BY <1>0
    <3>3. attempts * Second <= now
      BY <1>0, <2>2, <3>1, <3>2
    <3>4. attempts < (Budget + Second - 1) \div Second
      BY <1>0, <3>1, <3>3, AttemptFits
    <3>5. attempts' \in {attempts, attempts + 1} /\ attempts' > 0
      BY <1>0, <1>1, <2>2 DEF Post, OneMore
    <3>6. pc \notin Ended /\ pc' \notin Ended
      BY <1>1 DEF Post, Ended
    <3>7. QED
      BY <2>2, <3>4, <3>5, <3>6 DEF Call!Next, Call!Retry, Call!callVars
  <2>3. QED
    BY <1>0, <2>1, <2>2
<1>2. CASE pc' \in Ended /\ attempts' = attempts
  BY <1>2 DEF Call!Next, Call!Over, Call!callVars
<1>3. CASE pc \notin Ended /\ pc' \notin Ended /\ attempts' = attempts
  BY <1>3 DEF Call!callVars
<1>4. CASE UNCHANGED vars
  BY <1>4 DEF vars, Call!callVars
<1>5. CASE LoadSecret
  BY <1>2, <1>3, <1>5 DEF LoadSecret, Ended
<1>6. CASE MintJwt \/ Wake \/ Tick \/ Progress \/ TransportError
  BY <1>3, <1>6 DEF MintJwt, Wake, Tick, Progress, TransportError, SleepThenRetry, Ended
<1>7. CASE BudgetSpent \/ EngineError \/ Result
  BY <1>2, <1>7 DEF BudgetSpent, EngineError, Result, EndCall, Ended
<1>8. CASE ServerTimeout
  BY <1>2, <1>3, <1>8 DEF ServerTimeout, SleepThenRetry, EndCall, Ended
<1>9. QED
  BY <1>1, <1>4, <1>5, <1>6, <1>7, <1>8 DEF Next

\* An engine call is to its caller what EngineCall says: one request, posted
\* again and again, no more often than there are seconds in its budget, and
\* no longer once the call is over.  What ExecutionLayer does on its channel,
\* _rpc does against the clock.
THEOREM CallIsImplemented == Spec => ImplementsCall
<1>1. Init => Call!Init
  BY DEF Init, Call!Init
<1>2. QED
  BY <1>1, CallStep, Inductive, PTL DEF Spec, ImplementsCall, Call!Spec

-----------------------------------------------------------------------------
\* How many steps a call has left at most, those of the clock included: for a
\* tick of the time to its deadline, the signs of life of an attempt and the
\* steps of a turn of the retry loop, which costs a second.
Deadline == Budget + 2 * Second + MaxParts * Longer(Second, Budget)
PerTick == MaxParts + 6
TicksLeft(t) == PerTick * (Deadline - t) + MaxParts
StepsLeft ==
    CASE pc = "load"  -> TicksLeft(0) + 6
      [] pc = "mint"  -> TicksLeft(now) + 5
      [] pc = "check" -> TicksLeft(now) + 4
      [] pc = "post"  -> TicksLeft(now) + 3 - parts
      [] pc = "sleep" -> TicksLeft(wakeAt) + (wakeAt - now) + 6
      [] OTHER        -> 0

\* The signs of life cost no more than the longest timeout each.
LEMMA ExtraBounded ==
    ASSUME NEW n \in Nat, NEW m \in Nat, NEW t \in Nat, NEW u \in Nat, n <= m, t <= u
    PROVE  n * t <= m * u
<1>1. n * t <= n * u
  OBVIOUS
<1>2. n * u <= m * u
  OBVIOUS
<1>3. n * t \in Nat /\ n * u \in Nat /\ m * u \in Nat
  OBVIOUS
<1>4. QED
  BY <1>1, <1>2, <1>3

\* Time runs out before the deadline.
LEMMA BeforeDeadline ==
    IInv => /\ Deadline \in Nat /\ Extra \in Nat
            /\ now < Deadline
            /\ pc = "sleep" => wakeAt < Deadline
<1> SUFFICES ASSUME IInv
    PROVE  /\ Deadline \in Nat /\ Extra \in Nat
           /\ now < Deadline
           /\ pc = "sleep" => wakeAt < Deadline
  OBVIOUS
<1> DEFINE u == Longer(Second, Budget)
           cost == MaxParts * u
<1>1. /\ parts \in Nat /\ MaxParts \in Nat /\ parts <= MaxParts
      /\ reqTimeout \in Nat /\ reqTimeout <= u /\ u \in Nat
      /\ now \in Nat /\ wakeAt \in Nat /\ Second \in Nat /\ Budget \in Nat
  BY TimeAssumption DEF IInv, TypeOK, Longer
<1> HIDE DEF u
<1>2. parts * reqTimeout <= MaxParts * u /\ parts * reqTimeout \in Nat /\ MaxParts * u \in Nat
  BY <1>1, ExtraBounded, ExtraProperties
<1>3. Extra <= cost /\ Extra \in Nat /\ cost \in Nat
  BY <1>2 DEF Extra
<1>4. Deadline = Budget + 2 * Second + cost
  BY DEF Deadline, u
<1>5. /\ now < Budget + 2 * Second + Extra
      /\ pc = "sleep" => wakeAt < Budget + 2 * Second + Extra
  BY DEF IInv
<1> HIDE DEF cost
<1>6. QED
  BY <1>1, <1>3, <1>4, <1>5

\* What is left shrinks with the time, by more than a turn's steps in a second.
LEMMA AfterProperties ==
    ASSUME NEW t \in Nat, Deadline \in Nat
    PROVE  /\ TicksLeft(t) \in Int
           /\ t <= Deadline => TicksLeft(t) \in Nat /\ TicksLeft(t) >= MaxParts
           /\ TicksLeft(t) <= TicksLeft(0)
           /\ TicksLeft(t + 1) = TicksLeft(t) - PerTick
           /\ TicksLeft(t + Second) + Second + 5 + MaxParts <= TicksLeft(t)
<1> DEFINE K == PerTick
           d == Deadline
<1>1. K \in Nat /\ K > 0 /\ MaxParts \in Nat /\ K = MaxParts + 6 /\ d \in Nat /\ Second \in Nat \ {0}
  BY TimeAssumption DEF PerTick
<1>2. /\ \A x \in Nat : TicksLeft(x) = K * (d - x) + MaxParts
      /\ TicksLeft(t + 1) = K * (d - (t + 1)) + MaxParts
      /\ TicksLeft(t + Second) = K * (d - (t + Second)) + MaxParts
  BY DEF TicksLeft
<1> HIDE DEF K, d
<1>3. K * (d - t) \in Int /\ (t <= d => K * (d - t) \in Nat)
  BY <1>1
<1>4. K * (d - 0) = K * (d - t) + K * t /\ K * t \in Nat
  BY <1>1
<1>5. K * (d - (t + 1)) = K * (d - t) - K
  BY <1>1
<1>6. K * (d - (t + Second)) = K * (d - t) - K * Second
  BY <1>1
<1>7. K * Second >= Second + 5 + MaxParts
  <2>1. K * Second = (K - 1) * Second + Second
    BY <1>1
  <2>2. (K - 1) * Second >= (K - 1)
    BY <1>1
  <2>3. (K - 1) * Second \in Nat
    BY <1>1
  <2>4. QED
    BY <1>1, <2>1, <2>2, <2>3
<1>8. TicksLeft(0) = K * (d - 0) + MaxParts /\ TicksLeft(t) = K * (d - t) + MaxParts
  BY <1>2
<1>9. K * Second \in Nat
  BY <1>1
<1>10. TicksLeft(t) \in Int /\ TicksLeft(t) <= TicksLeft(0)
  BY <1>1, <1>3, <1>4, <1>8
<1>11. t <= d => TicksLeft(t) \in Nat /\ TicksLeft(t) >= MaxParts
  BY <1>1, <1>3, <1>8
<1>12. TicksLeft(t + 1) = TicksLeft(t) - K
  BY <1>1, <1>2, <1>3, <1>5, <1>8
<1>13. TicksLeft(t + Second) + Second + 5 + MaxParts <= TicksLeft(t)
  BY <1>1, <1>2, <1>3, <1>6, <1>7, <1>8, <1>9
<1>14. QED
  BY <1>10, <1>11, <1>12, <1>13 DEF K, d

\* The count is a number, and 0 only at the end.
LEMMA StepsLeftNat == IInv => StepsLeft \in Nat /\ (pc \notin Ended => StepsLeft > 0)
<1> SUFFICES ASSUME IInv PROVE StepsLeft \in Nat /\ (pc \notin Ended => StepsLeft > 0)
  OBVIOUS
<1>1. /\ now \in Nat /\ wakeAt \in Nat /\ parts \in 0..MaxParts /\ MaxParts \in Nat
      /\ pc = "sleep" => now <= wakeAt
  BY TimeAssumption DEF IInv, TypeOK
<1>2. /\ Deadline \in Nat /\ now < Deadline
      /\ pc = "sleep" => wakeAt < Deadline
  BY BeforeDeadline
<1>3. /\ TicksLeft(0) \in Nat
      /\ TicksLeft(now) \in Nat /\ TicksLeft(now) >= MaxParts
      /\ pc = "sleep" => TicksLeft(wakeAt) \in Nat
  BY <1>1, <1>2, AfterProperties
<1>4. QED
  BY <1>1, <1>3 DEF StepsLeft, IInv, TypeOK, Ended

\* Each step of _rpc and each tick of the clock brings the end nearer.
LEMMA StepNearsEnd == IInv /\ Next => StepsLeft' < StepsLeft
<1> SUFFICES ASSUME IInv, Next PROVE StepsLeft' < StepsLeft
  OBVIOUS
<1>0. /\ now \in Nat /\ wakeAt \in Nat /\ Second \in Nat \ {0}
      /\ parts \in 0..MaxParts /\ MaxParts \in Nat
      /\ pc = "sleep" => now <= wakeAt
  BY TimeAssumption DEF IInv, TypeOK
<1>00. /\ Deadline \in Nat /\ now < Deadline
       /\ pc = "sleep" => wakeAt < Deadline
  BY BeforeDeadline
<1>000. /\ TicksLeft(0) \in Int /\ TicksLeft(now) \in Nat /\ TicksLeft(now) >= MaxParts
        /\ TicksLeft(now) <= TicksLeft(0)
        /\ TicksLeft(now + 1) = TicksLeft(now) - PerTick
        /\ TicksLeft(now + Second) \in Int
        /\ TicksLeft(now + Second) + Second + 5 + MaxParts <= TicksLeft(now)
        /\ pc = "sleep" => TicksLeft(wakeAt) \in Nat
        /\ PerTick = MaxParts + 6
  BY <1>0, <1>00, AfterProperties DEF PerTick
<1>1. CASE LoadSecret
  <2>1. now' = now
    BY <1>1 DEF LoadSecret
  <2>2. TicksLeft(now)' = TicksLeft(now)
    BY <2>1 DEF TicksLeft, Deadline, PerTick
  <2>3. QED
    BY <1>0, <1>000, <1>1, <2>2 DEF LoadSecret, StepsLeft
<1>2. CASE MintJwt
  <2>1. now' = now
    BY <1>2 DEF MintJwt
  <2>2. TicksLeft(now)' = TicksLeft(now)
    BY <2>1 DEF TicksLeft, Deadline, PerTick
  <2>3. QED
    BY <1>0, <1>000, <1>2, <2>2 DEF MintJwt, StepsLeft
<1>3. CASE Post
  <2>1. now' = now
    BY <1>3 DEF Post
  <2>2. TicksLeft(now)' = TicksLeft(now)
    BY <2>1 DEF TicksLeft, Deadline, PerTick
  <2>3. QED
    BY <1>0, <1>000, <1>3, <2>2 DEF Post, StepsLeft
<1>4. CASE BudgetSpent
  BY <1>0, <1>000, <1>4 DEF BudgetSpent, StepsLeft
<1>5. ASSUME pc = "post", SleepThenRetry PROVE StepsLeft' < StepsLeft
  <2>1. wakeAt' = now + Second
    BY <1>5 DEF SleepThenRetry
  <2>2. TicksLeft(wakeAt)' = TicksLeft(now + Second)
    BY <2>1 DEF TicksLeft, Deadline, PerTick
  <2>3. QED
    BY <1>0, <1>000, <1>5, <2>2 DEF SleepThenRetry, StepsLeft
<1>6. ASSUME NEW how \in {"raised", "returned"}, EndCall(how) PROVE StepsLeft' < StepsLeft
  BY <1>0, <1>000, <1>6 DEF EndCall, StepsLeft
<1>7. CASE TransportError
  BY <1>5, <1>7 DEF TransportError
<1>8. CASE EngineError \/ Result
  BY <1>6, <1>8 DEF EngineError, Result
<1>9. CASE ServerTimeout
  BY <1>5, <1>6, <1>9 DEF ServerTimeout
<1>10. CASE Wake
  <2>1. now' = now /\ now = wakeAt
    BY <1>0, <1>10 DEF Wake
  <2>2. TicksLeft(now)' = TicksLeft(wakeAt)
    BY <2>1 DEF TicksLeft, Deadline, PerTick
  <2>3. QED
    BY <1>0, <1>000, <1>10, <2>2 DEF Wake, StepsLeft
<1>11. CASE Tick
  <2>1. now' = now + 1 /\ wakeAt' = wakeAt /\ parts' = parts
    BY <1>11 DEF Tick, attempt
  <2>2. TicksLeft(now)' = TicksLeft(now + 1) /\ TicksLeft(wakeAt)' = TicksLeft(wakeAt)
    BY <2>1 DEF TicksLeft, Deadline, PerTick
  <2>3. QED
    BY <1>0, <1>000, <1>11, <2>1, <2>2 DEF Tick, StepsLeft
<1>12. CASE Progress
  <2>1. now' = now
    BY <1>12 DEF Progress
  <2>2. TicksLeft(now)' = TicksLeft(now)
    BY <2>1 DEF TicksLeft, Deadline, PerTick
  <2>3. QED
    BY <1>0, <1>000, <1>12, <2>2 DEF Progress, StepsLeft
<1>13. QED
  BY <1>1, <1>2, <1>3, <1>4, <1>7, <1>8, <1>9, <1>10, <1>11, <1>12 DEF Next

\* The safety half of CallEnds: no retry loop and no wait of a call goes on for
\* ever, because every step brings it nearer to a fixed number of steps; what
\* is left to fairness is that the call takes a step at all.
THEOREM CallIsFinite == Spec => [](StepsLeft \in Nat) /\ [][StepsLeft' < StepsLeft]_vars
<1>1. IInv /\ [Next]_vars => [StepsLeft' < StepsLeft]_vars
  BY StepNearsEnd
<1>2. QED
  BY <1>1, Inductive, StepsLeftNat, PTL DEF Spec
=============================================================================
