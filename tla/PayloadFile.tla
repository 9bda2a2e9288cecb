----------------------------- MODULE PayloadFile ----------------------------
(***************************************************************************)
(* Where payload files come from, and what they turn into: convert of      *)
(* scripts/rlp_to_mocks.py over a stream whose writer may have died, or    *)
(* record_from_el of mock_cl/payloads.py from a live node; then            *)
(* load_payloads and the choice of the newPayload version.                 *)
(***************************************************************************)
EXTENDS Rlp

CONSTANTS
    Jobs,      \* conversions [kind, bytes, start, count] of streams that hold
               \* [blocks, at, broken], and recordings [kind, start, count]
    Fork,      \* the fork each block of the live node belongs to
    Tip,       \* its last block
    None

Forks == {"paris", "shanghai", "cancun", "prague"}

Number(p) == p[7]
BlockIn(body) == Decode(body, 0).item

\* The bytes of a conversion hold its blocks, each in the record that starts
\* at its offset; after the last the stream stops, or stops in the middle of a
\* record, or has one record that is no payload.
HoldsBlocks(j) ==
    LET record == [i \in 1..(Len(j.blocks) + 1) |-> ReadRecord(j.bytes, j.at[i])]
        last == record[Len(j.blocks) + 1]
    IN /\ j.bytes \in Seq(Byte)
       /\ j.blocks \in Seq(ToSet(j.blocks))
       /\ j.at \in [1..(Len(j.blocks) + 1) -> 0..Len(j.bytes)] /\ j.at[1] = 0
       /\ \A i \in 1..Len(j.blocks) :
             /\ record[i].state = "record" /\ record[i].next = j.at[i + 1]
             /\ Number(j.blocks[i]) \in Nat
             /\ Number(j.blocks[i]) = BlockNumberOf(record[i].body)
             /\ PayloadOk(BlockIn(record[i].body))
             /\ j.blocks[i] = PayloadFromRlp(BlockIn(record[i].body))
       /\ \/ j.broken = "no" /\ last.state = "end"
          \/ j.broken = "torn" /\ last.state = "truncated"
          \/ /\ j.broken = "bad" /\ last.state = "record"
             /\ ~PayloadOk(BlockIn(last.body))
             /\ ReadRecord(j.bytes, last.next).state = "end"

ASSUME PayloadAssumption ==
    /\ Tip \in Nat /\ Fork \in [0..Tip -> Forks]
    /\ None \notin Forks \cup Nat \cup {<<>>}
    /\ \A j \in Jobs :
          \/ j.kind = "record" /\ j.start \in Nat /\ j.count \in Nat
          \/ /\ j.kind = "convert" /\ HoldsBlocks(j)
             /\ j.start \in Nat \cup {None} /\ j.count \in Nat \cup {None}

VARIABLES
    job,       \* what is asked for
    stage,     \* "read", or how it ended: "done", "raised"
    off,       \* convert: the read offset; record_from_el: the next block
    file,      \* the records written
    bodies,    \* history: the bodies read
    branch     \* the live node's branch, by block

fileVars == <<job, stage, off, file, bodies, branch>>

FileInit ==
    /\ job \in Jobs
    /\ stage = "read"
    /\ off = IF job.kind = "convert" THEN 0 ELSE job.start
    /\ file = <<>> /\ bodies = <<>>
    /\ branch = [n \in 0..Tip |-> "a"]

-----------------------------------------------------------------------------
(* convert.                                                                *)
Next1 == ReadRecord(job.bytes, off)
Converting(state) == stage = "read" /\ job.kind = "convert" /\ Next1.state = state

EndOfStream ==
    /\ Converting("end")
    /\ stage' = "done"
    /\ UNCHANGED <<job, off, file, bodies, branch>>

\* Mutant: a stream that stops in the middle of a record just ends.
Truncated_Ends ==
    /\ Converting("truncated")
    /\ stage' = "done"
    /\ UNCHANGED <<job, off, file, bodies, branch>>

\* The output is closed with what was written.
Truncated ==
    /\ Converting("truncated")
    /\ stage' = "raised"
    /\ UNCHANGED <<job, off, file, bodies, branch>>

Below == job.start # None /\ BlockNumberOf(Next1.body) < job.start
Bad == job.start # None /\ BlockNumberOf(Next1.body) = -1
Consume == off' = Next1.next /\ bodies' = Append(bodies, Next1.body)

SkipRecord ==
    /\ Converting("record") /\ Below /\ ~Bad
    /\ Consume
    /\ UNCHANGED <<job, stage, file, branch>>

\* Mutant: the count is looked at before the record is counted.
WriteRecord_OneMore ==
    /\ Converting("record") /\ ~Below
    /\ LET item == BlockIn(Next1.body)
       IN /\ PayloadOk(item)
          /\ file' = Append(file, [payload |-> PayloadFromRlp(item), stamped |-> TRUE])
    /\ stage' = IF job.count # None /\ Len(file) >= job.count THEN "done" ELSE "read"
    /\ Consume
    /\ UNCHANGED <<job, branch>>

WriteRecord ==
    /\ Converting("record") /\ ~Below
    /\ LET item == BlockIn(Next1.body)
       IN /\ PayloadOk(item)
          /\ file' = Append(file, [payload |-> PayloadFromRlp(item), stamped |-> TRUE])
    /\ stage' = IF job.count # None /\ Len(file') >= job.count THEN "done" ELSE "read"
    /\ Consume
    /\ UNCHANGED <<job, branch>>

BadRecord ==
    /\ Converting("record")
    /\ Bad \/ (~Below /\ ~PayloadOk(BlockIn(Next1.body)))
    /\ stage' = "raised"
    /\ Consume
    /\ UNCHANGED <<job, file, branch>>

-----------------------------------------------------------------------------
(* record_from_el.                                                         *)
Recording == stage = "read" /\ job.kind = "record"
Asked == off < job.start + job.count

\* The optional fields of a block of a fork.
Optional(fork) ==
    (IF fork = "paris" THEN {} ELSE {"withdrawals"})
    \cup (IF fork \in {"cancun", "prague"} THEN {"blobGasUsed", "excessBlobGas"} ELSE {})

\* _block_to_payload, from whatever branch the node is on at this call.
BlockToPayload(n) ==
    [number |-> n, hash |-> <<n, branch[n]>>,
     parent |-> IF n = 0 THEN None ELSE <<n - 1, branch[n - 1]>>, fields |-> Optional(Fork[n])]

RecordBlock ==
    /\ Recording /\ Asked /\ off <= Tip
    /\ file' = Append(file, [payload |-> BlockToPayload(off), stamped |-> FALSE])
    /\ off' = off + 1
    /\ UNCHANGED <<job, stage, bodies, branch>>

\* Mutant: a block that cannot be had is left out.
Unavailable_Skipped ==
    /\ Recording /\ Asked
    /\ off' = off + 1
    /\ UNCHANGED <<job, stage, file, bodies, branch>>

\* Past the tip, an HTTP error, or no answer: the recording stops there.
Unavailable ==
    /\ Recording /\ Asked
    /\ stage' = "done"
    /\ UNCHANGED <<job, off, file, bodies, branch>>

AllRecorded ==
    /\ Recording /\ ~Asked
    /\ stage' = "done"
    /\ UNCHANGED <<job, off, file, bodies, branch>>

\* The node reorganises its chain from a block on.
Reorg ==
    /\ Recording
    /\ \E n \in 1..Tip :
          /\ branch[n] = "a"
          /\ branch' = [m \in 0..Tip |-> IF m >= n THEN "b" ELSE branch[m]]
    /\ UNCHANGED <<job, stage, off, file, bodies>>

FileNext ==
    \/ EndOfStream \/ Truncated \/ SkipRecord \/ WriteRecord \/ BadRecord
    \/ RecordBlock \/ Unavailable \/ AllRecorded \/ Reorg

FileSpec == FileInit /\ [][FileNext]_fileVars

-----------------------------------------------------------------------------
(* load_payloads, ReplayDriver.run and EngineClient.new_payload.           *)

\* convert stamps the extras and a fork name; record_from_el has neither.
Load(r) ==
    [fields |-> IF r.stamped THEN {"withdrawals", "blobGasUsed", "excessBlobGas"}
                             ELSE r.payload.fields,
     hashes |-> IF r.stamped THEN <<>> ELSE None,
     beaconRoot |-> "zero",
     requests |-> IF r.stamped THEN <<>> ELSE None,
     version |-> IF r.stamped THEN 4 ELSE None,
     fork |-> IF r.stamped THEN "prague" ELSE None]

VersionForFork(fork) ==
    CASE fork = "paris" -> 1 [] fork = "shanghai" -> 2
      [] fork = "cancun" -> 3 [] fork = "prague" -> 4 [] OTHER -> None

\* Mutant: a record without a blob gas field is taken for Paris.
AutoPick_NoShanghai(l) ==
    IF l.requests # None THEN 4
    ELSE IF {"blobGasUsed", "excessBlobGas"} \cap l.fields # {} THEN 3 ELSE 1

AutoPick(l) ==
    IF l.requests # None THEN 4
    ELSE IF {"blobGasUsed", "excessBlobGas"} \cap l.fields # {} THEN 3
    ELSE IF "withdrawals" \in l.fields THEN 2 ELSE 1

\* --newpayload-version, the record's, its fork's, its shape's.
Version(override, l) ==
    IF override # None THEN override
    ELSE IF l.version # None THEN l.version
    ELSE IF VersionForFork(l.fork) # None THEN VersionForFork(l.fork)
    ELSE AutoPick(l)

-----------------------------------------------------------------------------
(* Properties.                                                             *)

\* What a job writes: the blocks of its stream, or what the node answers.
Records(j) ==
    IF j.kind = "convert" THEN [payload : ToSet(j.blocks), stamped : {TRUE}]
    ELSE LET hashes == (0..Tip) \X {"a", "b"}
         IN [payload : [number : 0..Tip, hash : hashes, parent : hashes \cup {None},
                        fields : {Optional(fork) : fork \in Forks}],
             stamped : {FALSE}]

FileTypeOK ==
    /\ job \in Jobs
    /\ stage \in {"read", "done", "raised"}
    /\ off \in Nat
    /\ file \in Seq(Records(job))
    /\ bodies \in Seq(Seq(Byte))
    /\ branch \in [0..Tip -> {"a", "b"}]

AtLeastOne(n) == IF n = 0 THEN 1 ELSE n

\* The blocks from start_block on, of the first i of the stream.
WantedOf(j) ==
    LET wanted[i \in 0..Len(j.blocks)] ==
            IF i = 0 THEN <<>>
            ELSE IF j.start = None \/ Number(j.blocks[i]) >= j.start
            THEN Append(wanted[i - 1], j.blocks[i]) ELSE wanted[i - 1]
    IN wanted
Wanted == WantedOf(job)[Len(job.blocks)]
Written == [i \in DOMAIN file |-> file[i].payload]
Enough == job.count # None /\ Len(file) >= AtLeastOne(job.count)

\* "Together they slice a small window out of a huge ordered stream ...
\* without fully decoding all of it" (rlp_to_mocks.py:192-197): the file holds
\* exactly the blocks from start_block on, field by field as they were
\* encoded, up to count; and those before the break when the stream is torn
\* or holds a record that is no payload, unless that one is below start_block
\* and never decoded.  (A count of 0 writes one block.)
ConvertedIsSlice ==
    job.kind = "convert" =>
        /\ IsPrefix(Written, Wanted)
        /\ job.count # None => Len(file) <= AtLeastOne(job.count)
        /\ stage = "done" => Enough \/ (Written = Wanted /\ job.broken # "torn")
        /\ stage = "raised" => ~Enough /\ Written = Wanted /\ job.broken # "no"

\* The streaming reader and the one in memory (iter_records) cut any stream,
\* whole or torn, into the same records, and raise on the same streams.
FramingsAgree ==
    job.kind = "convert" =>
        LET whole == IterRecords(job.bytes)
        IN /\ IsPrefix(bodies, whole.bodies)
           /\ stage = "done" /\ ~Enough => bodies = whole.bodies /\ ~whole.raised
           /\ stage = "raised" /\ job.broken = "torn" => bodies = whole.bodies /\ whole.raised

\* A recording is consecutive from its first block, so that the first gap in
\* its parent hashes, at which the replay stops, can only be a reorganisation
\* of the node between two calls; and it is never longer than asked for.
RecordedIsChain ==
    job.kind = "record" =>
        /\ Len(file) <= job.count
        /\ \A i \in DOMAIN file : file[i].payload.number = job.start + i - 1
        /\ \A i \in 2..Len(file) :
              file[i].payload.parent = file[i - 1].payload.hash \/ branch[job.start + i - 2] = "b"

\* Every record is sent with the newPayload version of its fork, whichever
\* tool wrote it; a recorded Prague block, which looks like a Cancun one, is
\* the exception that engine.py:138-144 names.
VersionFitsFork ==
    \A r \in ToSet(file) :
        Version(None, Load(r)) =
            IF r.stamped THEN 4
            ELSE IF Fork[r.payload.number] = "prague" THEN 3
            ELSE VersionForFork(Fork[r.payload.number])
=============================================================================
