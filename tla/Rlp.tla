--------------------------------- MODULE Rlp --------------------------------
(***************************************************************************)
(* scripts/rlp_to_mocks.py: the RLP decoder, the two ways of framing a     *)
(* stream of length-prefixed records, and the ExecutionPayloadV3 fields.   *)
(* Offsets are Python's (from 0); a slice past the end is just shorter.    *)
(***************************************************************************)
EXTENDS Integers, Sequences, SequencesExt

Byte == 0..255
Slice(b, from, to) == SubSeq(b, from + 1, IF to < Len(b) THEN to ELSE Len(b))
BigEndian(b) ==
    LET value[i \in 0..Len(b)] == IF i = 0 THEN 0 ELSE 256 * value[i - 1] + b[i]
    IN value[Len(b)]

\* An item is a byte string, a list of items, or an exception.
Bytes(b) == [kind |-> "bytes", value |-> b]
List(items) == [kind |-> "list", value |-> items]
Raised == [kind |-> "raised", value |-> <<>>]

\* Where the payload of the item at o starts, and its length.  The two long
\* forms carry the length in 1 to 8 bytes of their own.
Header(b, o) ==
    LET code == b[o + 1] - (IF b[o + 1] < 192 THEN 128 ELSE 192)
        lenLen == IF code < 56 THEN 0 ELSE code - 55
    IN [start |-> o + 1 + lenLen,
        length |-> IF code < 56 THEN code ELSE BigEndian(Slice(b, o + 1, o + 1 + lenLen))]

\* _decode of the item at o, given the items of every slice of b.
DecodeItem(b, o, items) ==
    LET h == Header(b, o)
        end == h.start + h.length
    IN IF o >= Len(b) THEN [item |-> Raised, next |-> o]
       ELSE IF b[o + 1] < 128 THEN [item |-> Bytes(<<b[o + 1]>>), next |-> o + 1]
       ELSE [item |-> IF b[o + 1] < 192 THEN Bytes(Slice(b, h.start, end)) ELSE items[h.start, end],
             next |-> end]

\* The items from a cursor on; one may reach past the end of its list.
DecodeItems(b) ==
    LET items[cursor \in Nat, end \in Nat] ==
            LET first == DecodeItem(b, cursor, items)
                rest == items[first.next, end]
            IN IF cursor >= end THEN List(<<>>)
               ELSE IF first.item = Raised \/ rest = Raised THEN Raised
               ELSE List(<<first.item>> \o rest.value)
    IN items

Decode(b, o) == DecodeItem(b, o, DecodeItems(b))

\* int.from_bytes: an empty item is 0, and a list cannot be read.
ToQty(item) ==
    IF item.value = <<>> THEN 0 ELSE BigEndian(item.value)
IsBytes(item) == item.kind = "bytes" \/ (item.kind = "list" /\ item.value = <<>>)

\* The cursor after skipping k items, or -1.
SkipItems(b, from, k) ==
    FoldLeft(LAMBDA cursor, i : IF cursor < 0 \/ Decode(b, cursor).item = Raised THEN -1
                                ELSE Decode(b, cursor).next,
             from, [i \in 1..k |-> i])

\* block_number_of: only the first seven fields are decoded.  -1 is a raise.
BlockNumberOf(body) ==
    LET first == IF body = <<>> \/ body[1] < 248 THEN 1 ELSE 1 + (body[1] - 247)
        at == SkipItems(body, first, 6)
        field == IF at < 0 THEN Raised ELSE Decode(body, at).item
    IN IF body = <<>> \/ field = Raised \/ ~IsBytes(field) THEN -1 ELSE ToQty(field)

-----------------------------------------------------------------------------
\* payload_from_rlp: the 17 fields by position, DATA as bytes and QUANTITY as
\* a number; transactions and withdrawals have their own form.
Quantities == {7, 8, 9, 10, 12, 16, 17}
Transactions == 14
Withdrawals == 15

WithdrawalOk(w) == w.kind = "list" /\ Len(w.value) = 4 /\ \A i \in 1..4 : IsBytes(w.value[i])
PayloadOk(item) ==
    /\ item.kind = "list" /\ Len(item.value) >= 17
    /\ \A i \in 1..17 :
          IF i = Transactions
          THEN \A t \in ToSet(item.value[i].value) : item.value[i].kind = "list" /\ t.kind = "bytes"
          ELSE IF i = Withdrawals
          THEN \A w \in ToSet(item.value[i].value) : item.value[i].kind = "list" /\ WithdrawalOk(w)
          ELSE item.value[i].kind = "bytes" \/ (i \in Quantities /\ item.value[i].value = <<>>)

WithdrawalToObj(w) ==
    [index |-> ToQty(w.value[1]), validator |-> ToQty(w.value[2]),
     address |-> w.value[3].value, amount |-> ToQty(w.value[4])]

PayloadFromRlp(item) ==
    [i \in 1..17 |->
        IF i \in Quantities THEN ToQty(item.value[i])
        ELSE IF i = Transactions THEN [t \in DOMAIN item.value[i].value |-> item.value[i].value[t].value]
        ELSE IF i = Withdrawals
        THEN [w \in DOMAIN item.value[i].value |-> WithdrawalToObj(item.value[i].value[w])]
        ELSE item.value[i].value]

-----------------------------------------------------------------------------
\* iter_record_bodies: the next record of a file read to offset off.
ReadRecord(data, off) ==
    LET prefix == Slice(data, off, off + 4)
        length == BigEndian(prefix)
        body == Slice(data, off + 4, off + 4 + length)
    IN [state |-> IF prefix = <<>> THEN "end"
                  ELSE IF Len(prefix) < 4 \/ Len(body) < length THEN "truncated" ELSE "record",
        body |-> body, next |-> off + 4 + length]

\* iter_records, one turn of its loop.
IterTurn(data, at) ==
    LET start == at.off + 4
        end == start + BigEndian(Slice(data, at.off, start))
    IN IF at.raised \/ at.off >= Len(data) THEN at
       ELSE IF start > Len(data) \/ end > Len(data) THEN [at EXCEPT !.raised = TRUE]
       ELSE [off |-> end, bodies |-> Append(at.bodies, Slice(data, start, end)), raised |-> FALSE]

\* The turns of its loop; one reads four bytes or more, or is the last.
IterTurns(data) ==
    LET after[k \in 0..Len(data)] ==
            IF k = 0 THEN [off |-> 0, bodies |-> <<>>, raised |-> FALSE]
                     ELSE IterTurn(data, after[k - 1])
    IN after

\* iter_records: all bodies of a stream in memory, and whether it raised.
IterRecords(data) == IterTurns(data)[(Len(data) + 3) \div 4]
=============================================================================
