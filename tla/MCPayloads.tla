----------------------------- MODULE MCPayloads -----------------------------
(***************************************************************************)
(* Small instances of PayloadFile: streams of up to three payloads, cut at *)
(* every byte, encoded as tests/unit/test_rlp_to_mocks.py encodes them;    *)
(* and recordings from a node of five blocks.                              *)
(***************************************************************************)
EXTENDS PayloadFile

\* The reference encoder: minimal integers, and lengths short or long.
RECURSIVE EncQty(_)
EncQty(n) == IF n = 0 THEN <<>> ELSE Append(EncQty(n \div 256), n % 256)
EncLen(n, base) ==
    IF n < 56 THEN <<base + n>> ELSE <<base + 55 + Len(EncQty(n))>> \o EncQty(n)
EncBytes(b) == IF Len(b) = 1 /\ b[1] < 128 THEN b ELSE EncLen(Len(b), 128) \o b
EncList(parts) == EncLen(Len(FlattenSeq(parts)), 192) \o FlattenSeq(parts)

EncWithdrawal(w) ==
    EncList(<<EncBytes(EncQty(w.index)), EncBytes(EncQty(w.validator)),
              EncBytes(w.address), EncBytes(EncQty(w.amount))>>)
EncField(p, i) ==
    IF i \in Quantities THEN EncBytes(EncQty(p[i]))
    ELSE IF i = Transactions THEN EncList([t \in DOMAIN p[i] |-> EncBytes(p[i][t])])
    ELSE IF i = Withdrawals THEN EncList([w \in DOMAIN p[i] |-> EncWithdrawal(p[i][w])])
    ELSE EncBytes(p[i])
EncFields(p, n) == EncList([i \in 1..n |-> EncField(p, i)])
Prefixed(body) == <<0, 0, Len(body) \div 256, Len(body) % 256>> \o body

\* A small block whose list has the short form, one with a long bloom and a
\* long list, and one with a transaction and a withdrawal.
Tiny(n) ==
    [i \in 1..17 |-> IF i = 7 THEN n ELSE IF i \in Quantities THEN 0
                     ELSE IF i \in {Transactions, Withdrawals} THEN <<>> ELSE <<i>>]
Long(n) == [Tiny(n) EXCEPT ![5] = [k \in 1..60 |-> 0], ![6] = <<200>>, ![9] = 300]
Full(n) == [Tiny(n) EXCEPT ![11] = <<>>, ![Transactions] = <<(<<2, 171>>), <<5>>>>,
                ![Withdrawals] = <<[index |-> 1, validator |-> 200, address |-> <<0, 7>>, amount |-> 0]>>]

Chain == <<Tiny(127), Long(128), Full(300)>>
Encoded(p) == Prefixed(EncFields(p, 17))

\* A stream cut after a number of bytes, and what is whole in it.
Stream == FlattenSeq([j \in 1..3 |-> Encoded(Chain[j])])
Boundary == [k \in 0..3 |-> Len(FlattenSeq([j \in 1..k |-> Encoded(Chain[j])]))]
WholeIn(cut) == CHOOSE i \in 0..3 : Boundary[i] <= cut /\ (i = 3 \/ cut < Boundary[i + 1])
Offsets(k) == [i \in 1..(k + 1) |-> Boundary[i - 1]]
Cut(n) ==
    [bytes |-> SubSeq(Stream, 1, n), blocks |-> SubSeq(Chain, 1, WholeIn(n)), at |-> Offsets(WholeIn(n)),
     broken |-> IF n = Boundary[WholeIn(n)] THEN "no" ELSE "torn"]

\* A payload of an older fork, with 15 fields; one that ends early; no bytes.
Foreign(body) ==
    [bytes |-> Encoded(Chain[1]) \o Prefixed(body), blocks |-> <<Chain[1]>>,
     at |-> Offsets(1), broken |-> "bad"]
Streams ==
    {Cut(n) : n \in 0..Len(Stream)}
    \cup {Foreign(EncFields(Tiny(128), 15)), Foreign(<<255>>), Foreign(<<>>), Foreign(<<193>>)}

Conversions ==
    {[kind |-> "convert", bytes |-> s.bytes, blocks |-> s.blocks, at |-> s.at, broken |-> s.broken,
      start |-> a, count |-> c] : s \in Streams, a \in {None, 0, 128, 129, 400}, c \in {None, 0, 1, 2}}
Recordings == [kind : {"record"}, start : {0, 1, 3}, count : {0, 2, 5}]
AllJobs == Conversions \cup Recordings

Forks5 == [n \in 0..4 |-> CASE n = 0 -> "paris" [] n = 1 -> "shanghai" [] n = 2 -> "cancun"
                            [] OTHER -> "prague"]
=============================================================================
