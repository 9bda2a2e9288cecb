--------------------------- MODULE BenchmarkScript --------------------------
(***************************************************************************)
(* templates/<client>/run_benchmark.sh: the mock-CL replay in the          *)
(* background of the runner, and the exit trap that stops it.  A sweep     *)
(* runs one script at a time, and payloads are there: it has looked.  A    *)
(* script outlives a sweep that is killed alone, and its runner and replay *)
(* outlive a script that is killed with SIGKILL, by whoever is short of    *)
(* memory.                                                                 *)
(***************************************************************************)
EXTENDS Integers, Sequences, FiniteSets

CONSTANTS
    Milestones, NoRun, NoFile,
    MaxSweeps,     \* bound on sweeps
    MaxKilled      \* bound on scripts killed with SIGKILL

Sweeps == 1..MaxSweeps

VARIABLES
    bpc,       \* where the script of a sweep is
    run,       \* the run it is
    replays,   \* the runs whose replay process is alive
    runners,   \* the runs whose runner is alive, without its script
    killed,    \* history: the runs whose script was killed with SIGKILL
    metrics    \* metrics_<client>.json by milestone: what it was measured on

scriptVars == <<bpc, run, replays, runners, killed, metrics>>

ScriptInit ==
    /\ bpc = [s \in Sweeps |-> "off"] /\ run = [s \in Sweeps |-> NoRun]
    /\ replays = {} /\ runners = {} /\ killed = {}
    /\ metrics = [m \in Milestones |-> NoFile]

Goes(s, from, to) == bpc[s] = from /\ bpc' = [bpc EXCEPT ![s] = to]
Ends(s, from) == Goes(s, from, "off") /\ run' = [run EXCEPT ![s] = NoRun]

StartScript(s, r) ==
    /\ Goes(s, "off", "preflight")
    /\ run' = [run EXCEPT ![s] = r]
    /\ UNCHANGED <<replays, runners, killed, metrics>>

Preflight(s) ==
    /\ Goes(s, "preflight", "launch")
    /\ UNCHANGED <<run, replays, runners, killed, metrics>>

\* Prometheus or the node does not answer: exit 1, before the trap is set.
PreflightFails(s) ==
    /\ Ends(s, "preflight")
    /\ UNCHANGED <<replays, runners, killed, metrics>>

LaunchReplay(s) ==
    /\ Goes(s, "launch", "sanity")
    /\ replays' = replays \cup {run[s]}
    /\ UNCHANGED <<run, runners, killed, metrics>>

SanityOk(s) ==
    /\ run[s] \in replays /\ Goes(s, "sanity", "runner")
    /\ UNCHANGED <<run, replays, runners, killed, metrics>>

\* The child is gone after a second: exit 1, with REPLAY_PID unset.
SanityFails(s) ==
    /\ run[s] \notin replays /\ Ends(s, "sanity")
    /\ UNCHANGED <<replays, runners, killed, metrics>>

\* The aggregator writes the file of the run's milestone.
Writes(r, measured) == metrics' = [metrics EXCEPT ![<<r.block, r.dur>>] = measured]

RunnerEnds(s, measured) ==
    /\ Goes(s, "runner", "exit")
    /\ Writes(run[s], measured)
    /\ UNCHANGED <<run, replays, runners, killed>>

\* Mutant: the trap does not run when set -e ends the script.
RunnerFails_NoTrap(s) ==
    /\ Ends(s, "runner")
    /\ UNCHANGED <<replays, runners, killed, metrics>>

RunnerFails(s) ==
    /\ Goes(s, "runner", "exit")
    /\ UNCHANGED <<run, replays, runners, killed, metrics>>

\* cleanup_replay: TERM, and wait for it.
CleanupReplay(s) ==
    /\ Ends(s, "exit")
    /\ replays' = replays \ {run[s]}
    /\ UNCHANGED <<runners, killed, metrics>>

ScriptStep(s) ==
    \/ Preflight(s) \/ PreflightFails(s) \/ LaunchReplay(s) \/ SanityOk(s) \/ SanityFails(s)
    \/ RunnerFails(s) \/ CleanupReplay(s)

\* A replay comes to the end of its file, or fails.
ReplayExits ==
    /\ \E r \in replays : replays' = replays \ {r}
    /\ UNCHANGED <<bpc, run, runners, killed, metrics>>

\* A signal to the process group of the script: before the trap is set it
\* ends the script; later the command it was at dies, and with set -e the
\* script.  Between two commands the handler runs and, as it does not exit,
\* the script goes on.
Signalled(s) ==
    /\ \/ Ends(s, "preflight") /\ UNCHANGED replays
       \/ /\ \E at \in {"launch", "sanity", "runner", "exit"} : Goes(s, at, "exit")
          /\ UNCHANGED <<run, replays>>
       \/ /\ bpc[s] \in {"launch", "sanity", "runner"} /\ UNCHANGED <<bpc, run>>
          /\ replays' = replays \ {run[s]}
    /\ UNCHANGED <<runners, killed, metrics>>

\* SIGKILL runs no trap: replay and runner live on.
ScriptKilled(s) ==
    /\ bpc[s] # "off" /\ Ends(s, bpc[s])
    /\ Cardinality(killed) < MaxKilled
    /\ killed' = killed \cup {run[s]}
    /\ runners' = IF bpc[s] = "runner" THEN runners \cup {run[s]} ELSE runners
    /\ UNCHANGED <<replays, metrics>>

\* The runner of such a script comes to an end: with a report, or without.
RunnerLeftEnds(r, measured) ==
    /\ r \in runners /\ runners' = runners \ {r}
    /\ Writes(r, measured) \/ UNCHANGED metrics
    /\ UNCHANGED <<bpc, run, replays, killed>>
=============================================================================
