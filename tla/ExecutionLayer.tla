--------------------------- MODULE ExecutionLayer ---------------------------
(***************************************************************************)
(* The execution client (EL) at the other end of the Engine API, and the   *)
(* JSON-RPC channel through which EngineClient._rpc reaches it.            *)
(*                                                                         *)
(* The EL is not part of the repository: it is modelled from what the      *)
(* drivers of src/mock_cl rely on.  It holds a set of imported blocks and  *)
(* a head, answers newPayload and forkchoiceUpdated, may queue a block and *)
(* import it later, may restart, and executes a request whose caller has   *)
(* given up ("the EL keeps executing the request either way, so a retried  *)
(* call just blocks on the chain lock", engine.py:49-53): the requests     *)
(* that were abandoned are executed before the live one, in order.         *)
(*                                                                         *)
(* The channel is _rpc seen without its clock, which module EngineRpc has: *)
(* an attempt may be lost, answered, or abandoned and retried at any time, *)
(* and the call may raise at any time.                                     *)
(***************************************************************************)
EXTENDS Naturals, Sequences

CONSTANTS
    Hash,            \* block hashes
    Known,           \* the blocks the snapshot already holds
    SnapshotHead,    \* the EL's head when it starts on the snapshot
    MaxAttempts,     \* attempts that fit in the budget of one call
    MaxRestarts      \* bound on EL restarts

ASSUME ChainAssumption == Known \subseteq Hash /\ SnapshotHead \in Known
ASSUME ChannelAssumption == MaxAttempts \in Nat \ {0} /\ MaxRestarts \in Nat

VARIABLES
    imported,   \* blocks the EL has executed and accepted
    queued,     \* blocks it holds for later: [hash, parent]
    refused,    \* blocks it executed and found invalid
    elHead,     \* its canonical head
    restarts,   \* how often it was restarted
    call,       \* the request of the driver's current call
    attempt,    \* where the current attempt of that call is
    reply,      \* the answer to it, once there is one
    tries,      \* attempts made in this call
    orphans     \* abandoned attempts the EL has not executed yet

elVars == <<imported, queued, refused, elHead, restarts>>
rpcVars == <<call, attempt, reply, tries, orphans>>

Pending == [hash : Hash, parent : Hash]
Request == [kind : {"newPayload", "fcu"}, hash : Hash, parent : Hash]
NewPayload(h, p) == [kind |-> "newPayload", hash |-> h, parent |-> p]
Fcu(h) == [kind |-> "fcu", hash |-> h, parent |-> h]

\* "OTHER" is a null result, or any status the driver does not know.
Status == {"VALID", "ACCEPTED", "SYNCING", "INVALID", "OTHER"}
NoReply == "none"

ELTypeOK ==
    /\ imported \subseteq Hash
    /\ queued \subseteq Pending
    /\ refused \subseteq Hash
    /\ elHead \in Hash
    /\ restarts \in 0..MaxRestarts
    /\ call \in Request
    /\ attempt \in {"idle", "sent", "lost", "answered"}
    /\ reply \in Status \cup {NoReply}
    /\ tries \in 0..MaxAttempts
    /\ orphans \in Seq(Request)

ELInit ==
    /\ imported = Known
    /\ queued = {}
    /\ refused = {}
    /\ elHead = SnapshotHead
    /\ restarts = 0
    /\ call = Fcu(SnapshotHead)
    /\ attempt = "idle"
    /\ reply = NoReply
    /\ tries = 0
    /\ orphans = <<>>

-----------------------------------------------------------------------------
\* What executing a request does to the EL, and the status it answers.

Executable(b) == b.hash \notin imported \cup refused /\ b.parent \in imported

Import(b) ==
    /\ imported' = imported \cup {b.hash}
    /\ queued' = queued \ {b}
    /\ UNCHANGED refused

Refuse(b) ==
    /\ refused' = refused \cup {b.hash}
    /\ queued' = queued \ {b}
    /\ UNCHANGED imported

Enqueue(b) ==
    /\ queued' = queued \cup {b}
    /\ UNCHANGED <<imported, refused>>

Unmoved == UNCHANGED <<imported, queued, refused>>

Block(req) == [hash |-> req.hash, parent |-> req.parent]

ExecuteNewPayload(req, ans) ==
    LET b == Block(req) IN
    /\ UNCHANGED elHead
    /\ \/ b.hash \in imported /\ ans = "VALID" /\ Unmoved
       \/ b.hash \in refused /\ ans = "INVALID" /\ Unmoved
       \/ Executable(b) /\ ans = "VALID" /\ Import(b)
       \/ Executable(b) /\ ans = "INVALID" /\ Refuse(b)
       \/ Executable(b) /\ ans \in {"SYNCING", "ACCEPTED"} /\ Enqueue(b)
       \/ b.parent \notin imported /\ ans = "SYNCING" /\ Enqueue(b)
       \/ ans = "OTHER" /\ Unmoved

ExecuteFcu(req, ans) ==
    \/ /\ req.hash \in imported /\ ans = "VALID"
       /\ elHead' = req.hash
       /\ Unmoved
    \/ \E b \in queued :
          /\ b.hash = req.hash /\ Executable(b)
          /\ \/ ans = "VALID" /\ Import(b) /\ elHead' = req.hash
             \/ ans = "INVALID" /\ Refuse(b) /\ UNCHANGED elHead
    \/ req.hash \in refused /\ ans = "INVALID" /\ Unmoved /\ UNCHANGED elHead
    \/ /\ req.hash \notin imported \cup refused /\ ans = "SYNCING"
       /\ Unmoved /\ UNCHANGED elHead
    \/ ans = "OTHER" /\ Unmoved /\ UNCHANGED elHead

Execute(req, ans) ==
    \/ req.kind = "newPayload" /\ ExecuteNewPayload(req, ans)
    \/ req.kind = "fcu" /\ ExecuteFcu(req, ans)

-----------------------------------------------------------------------------
\* Steps of the EL.

\* An abandoned attempt is executed; nobody hears the answer.
ExecuteOrphan ==
    /\ orphans # <<>>
    /\ \E ans \in Status : Execute(Head(orphans), ans)
    /\ orphans' = Tail(orphans)
    /\ UNCHANGED <<restarts, call, attempt, reply, tries>>

ExecuteLive ==
    /\ attempt = "sent" /\ orphans = <<>>
    /\ \E ans \in Status : Execute(call, ans) /\ reply' = ans
    /\ attempt' = "answered"
    /\ UNCHANGED <<restarts, call, tries, orphans>>

\* A queued block whose parent is there is executed in the background.
ImportQueued ==
    /\ \E b \in queued : Executable(b) /\ (Import(b) \/ Refuse(b))
    /\ UNCHANGED <<elHead, restarts, rpcVars>>

\* A restart forgets what was queued or in flight, and keeps the chain.
Restart ==
    /\ restarts < MaxRestarts
    /\ restarts' = restarts + 1
    /\ queued' = {}
    /\ orphans' = <<>>
    /\ attempt' = IF attempt = "idle" THEN "idle" ELSE "lost"
    /\ reply' = NoReply
    /\ UNCHANGED <<imported, refused, elHead, call, tries>>

\* The request never reaches the EL.
LoseAttempt ==
    /\ attempt = "sent"
    /\ attempt' = "lost"
    /\ UNCHANGED <<elVars, call, reply, tries, orphans>>

ELStep == ExecuteOrphan \/ ExecuteLive \/ ImportQueued \/ Restart \/ LoseAttempt

-----------------------------------------------------------------------------
\* The caller's side of the channel: _rpc without its clock.

Orphaned == IF attempt = "sent" THEN Append(orphans, call) ELSE orphans

Send(req) ==
    /\ call' = req
    /\ attempt' = "sent"
    /\ reply' = NoReply
    /\ tries' = 1
    /\ UNCHANGED orphans

\* The answer is used: the call is over.
Receive(status) ==
    /\ attempt = "answered"
    /\ reply = status

\* The attempt times out, loses its connection, or is answered by -32002
\* while the EL still executes it: the same request is sent once more.
Retry ==
    /\ attempt # "idle"
    /\ tries < MaxAttempts
    /\ tries' = tries + 1
    /\ orphans' = Orphaned
    /\ attempt' = "sent"
    /\ reply' = NoReply
    /\ UNCHANGED <<elVars, call>>

\* The call raises: its budget is spent, or the EL answered with an error.
Abandon ==
    /\ orphans' = Orphaned
    /\ attempt' = "idle"
    /\ reply' = NoReply
    /\ UNCHANGED <<elVars, call, tries>>

EndCall ==
    /\ attempt' = "idle"
    /\ reply' = NoReply
    /\ UNCHANGED <<call, tries, orphans>>
=============================================================================
