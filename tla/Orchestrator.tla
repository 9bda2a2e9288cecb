---------------------------- MODULE Orchestrator ----------------------------
(***************************************************************************)
(* src/orchestrator/runner.py: the client matrix.  For every client        *)
(* start_infrastructure, the run, and (with --stop-monitoring)             *)
(* stop_infrastructure, around the overlay, the client containers and the  *)
(* pivot driver in the background.  A runner process may be killed, the    *)
(* host may reboot, and another runner process be started later.           *)
(*                                                                         *)
(* infrastructure.manage is true; the sync wait, the load test and the     *)
(* aggregator are one step here (see SyncPhase).                           *)
(***************************************************************************)
EXTENDS Overlay

CONSTANTS
    Matrix,          \* the clients to run, in order
    OverlayEnabled,  \* overlay.enabled
    Settings         \* how the matrix may be run: the host's faults, what
                     \* --stop-monitoring may be, and consensus_mode = "mock"

ASSUME MatrixAssumption ==
    /\ Matrix \in Seq(Clients) /\ Matrix # <<>>
    /\ OverlayEnabled \in BOOLEAN
    /\ Settings \subseteq [faults : SUBSET HostFaults,
                           stops : (SUBSET BOOLEAN) \ {{}}, mock : BOOLEAN]

VARIABLES
    setting,       \* the setting of this behaviour; no step changes it
    pc,            \* where the runner is
    stopMonitoring, \* --stop-monitoring of this runner
    turn,          \* index of the current client
    failing,       \* an exception is on its way to main
    failed,        \* indices of the clients that failed
    mockClProc,    \* MOCK_CL_PROC: the driver it started, by turn; 0 is None
    drivers,       \* pivot drivers alive: <<runner, turn>>
    runners,       \* runner processes so far
    strays,        \* compose commands of killed runners that still run
    crossed,       \* history: a turn began beside a command of a killed runner
    faulty         \* history: turns in which something went wrong on the host

lifeVars == <<runners, strays, crossed>>
runnerVars == <<pc, stopMonitoring, turn, failing, failed, mockClProc, drivers, lifeVars, faulty>>
vars == <<faults, setting, overlayVars, runnerVars>>

Turns == 1..Len(Matrix)
Cur == Matrix[turn]

\* The compose commands a runner waits for, which outlive it.
Commands == [cmd : {"up", "down"}, client : Clients]

TypeOK ==
    /\ OverlayTypeOK
    /\ setting \in Settings /\ faults = setting.faults
    /\ pc \in {"client", "overlay", "compose", "driver", "run",
               "stop_driver", "stop_clients", "stop_overlay", "next", "exit", "dead"}
    /\ stopMonitoring \in setting.stops
    /\ turn \in Turns
    /\ failing \in BOOLEAN
    /\ failed \subseteq Turns
    /\ mockClProc \in 0..Len(Matrix)
    /\ drivers \subseteq Runners \X Turns
    /\ runners \in Runners
    /\ strays \subseteq Commands
    /\ crossed \in BOOLEAN
    /\ faulty \subseteq Turns

Init ==
    /\ setting \in Settings /\ faults = setting.faults
    /\ OverlayInit
    /\ pc = "client" /\ turn = 1
    /\ stopMonitoring \in setting.stops
    /\ failing = FALSE /\ failed = {}
    /\ mockClProc = 0 /\ drivers = {}
    /\ runners = 1
    /\ strays = {} /\ crossed = FALSE
    /\ faulty = {}

Blame == faulty' = faulty \cup {turn}

\* An exception in start_infrastructure or in the run: on to the finally.
Raise ==
    /\ failing' = TRUE
    /\ pc' = "stop_driver"

-----------------------------------------------------------------------------
(* start_infrastructure.                                                   *)

\* A command of a runner that was killed is still at work.
Intruder ==
    \/ \E r \in Runners \ {runners} : opc[r] \notin {"off", "done", "failed"}
    \/ strays # {}

StartOverlay ==
    /\ pc = "client"
    /\ IF OverlayEnabled THEN pc' = "overlay" /\ opc' = [opc EXCEPT ![runners] = "up_umount"]
                         ELSE pc' = "compose" /\ UNCHANGED opc
    /\ crossed' = (crossed \/ Intruder)
    /\ UNCHANGED <<mounts, gens, layer, scratch, bind, attempt, liveWiped,
                   stopMonitoring, turn, failing, failed, mockClProc, drivers, runners,
                   strays, faulty>>

OverlayUp ==
    /\ pc = "overlay" /\ opc[runners] = "done"
    /\ opc' = [opc EXCEPT ![runners] = "off"] /\ pc' = "compose"
    /\ UNCHANGED <<mounts, gens, layer, scratch, bind, attempt, liveWiped,
                   stopMonitoring, turn, failing, failed, mockClProc, drivers, lifeVars,
                   faulty>>

OverlayFailed ==
    /\ pc = "overlay" /\ opc[runners] = "failed"
    /\ opc' = [opc EXCEPT ![runners] = "off"] /\ Raise /\ Blame
    /\ UNCHANGED <<mounts, gens, layer, scratch, bind, attempt, liveWiped,
                   stopMonitoring, turn, failed, mockClProc, drivers, lifeVars>>

\* Every client publishes the same host ports.
PortsTaken(c) == \E d \in Clients \ {c} : Running(d)

\* A container binds what is visible at merged (with a killed runner's command
\* about, this may be no mount); one that runs already is left alone.
Started(c) ==
    IF Running(c) THEN bind
    ELSE [bind EXCEPT ![c] = IF OverlayEnabled /\ IsMounted THEN Last(mounts) ELSE RawDir]

\* Mutant: the exit code of compose is not looked at.
ComposeUp_Unchecked ==
    /\ pc = "compose"
    /\ bind' = IF PortsTaken(Cur) THEN bind ELSE Started(Cur)
    /\ pc' = "driver"
    /\ UNCHANGED <<mounts, gens, layer, scratch, opc, attempt, liveWiped,
                   stopMonitoring, turn, failing, failed, mockClProc, drivers, lifeVars,
                   faulty>>

\* compose up -d.
ComposeUp ==
    /\ pc = "compose" /\ ~PortsTaken(Cur)
    /\ bind' = Started(Cur)
    /\ pc' = "driver"
    /\ UNCHANGED <<mounts, gens, layer, scratch, opc, attempt, liveWiped,
                   stopMonitoring, turn, failing, failed, mockClProc, drivers, lifeVars,
                   faulty>>

PortConflict ==
    /\ pc = "compose" /\ PortsTaken(Cur)
    /\ Raise
    /\ UNCHANGED <<overlayVars, stopMonitoring, turn, failed, mockClProc, drivers,
                   lifeVars, faulty>>

ComposeFails ==
    /\ Fault("start")
    /\ pc = "compose"
    /\ Raise /\ Blame
    /\ UNCHANGED <<overlayVars, stopMonitoring, turn, failed, mockClProc, drivers,
                   lifeVars>>

StartDriver ==
    /\ pc = "driver"
    /\ IF setting.mock THEN mockClProc' = turn /\ drivers' = drivers \cup {<<runners, turn>>}
                   ELSE UNCHANGED <<mockClProc, drivers>>
    /\ pc' = "run"
    /\ UNCHANGED <<overlayVars, stopMonitoring, turn, failing, failed, lifeVars, faulty>>

-----------------------------------------------------------------------------
(* The rest of run_benchmark_for_client.                                   *)
RunEnds ==
    /\ pc = "run" /\ Running(Cur)
    /\ pc' = "stop_driver"
    /\ UNCHANGED <<overlayVars, stopMonitoring, turn, failing, failed, mockClProc,
                   drivers, lifeVars, faulty>>

RunFails ==
    /\ pc = "run"
    /\ Fault("work") \/ ~Running(Cur)
    /\ Raise /\ Blame
    /\ UNCHANGED <<overlayVars, stopMonitoring, turn, failed, mockClProc, drivers,
                   lifeVars>>

\* finally: stop_infrastructure, with --stop-monitoring only.
LeaveRunning ==
    /\ pc = "stop_driver" /\ ~stopMonitoring
    /\ pc' = "next"
    /\ UNCHANGED <<overlayVars, stopMonitoring, turn, failing, failed, mockClProc,
                   drivers, lifeVars, faulty>>

\* Mutant: the driver of a run that failed is not stopped.
StopMockCl_NotOnError ==
    /\ pc = "stop_driver" /\ stopMonitoring
    /\ drivers' = IF mockClProc = 0 \/ failing THEN drivers ELSE drivers \ {<<runners, mockClProc>>}
    /\ mockClProc' = 0
    /\ pc' = "stop_clients"
    /\ UNCHANGED <<overlayVars, stopMonitoring, turn, failing, failed, lifeVars, faulty>>

StopMockCl ==
    /\ pc = "stop_driver" /\ stopMonitoring
    /\ drivers' = IF mockClProc = 0 THEN drivers ELSE drivers \ {<<runners, mockClProc>>}
    /\ mockClProc' = 0
    /\ pc' = "stop_clients"
    /\ UNCHANGED <<overlayVars, stopMonitoring, turn, failing, failed, lifeVars, faulty>>

\* Mutant: the overlay of a failed run is kept for a look at it.
ToOverlayDown_NotOnError ==
    IF OverlayEnabled /\ ~failing
    THEN pc' = "stop_overlay" /\ opc' = [opc EXCEPT ![runners] = "down_umount"]
    ELSE pc' = "next" /\ UNCHANGED opc

\* compose down, whose failure is ignored.
ToOverlayDown ==
    IF OverlayEnabled
    THEN pc' = "stop_overlay" /\ opc' = [opc EXCEPT ![runners] = "down_umount"]
    ELSE pc' = "next" /\ UNCHANGED opc

\* Mutant: the containers of a failed run are kept for a look at them.
ClientsDown_NotOnError ==
    /\ pc = "stop_clients"
    /\ bind' = IF failing THEN bind ELSE [c \in Clients |-> NoContainer]
    /\ ToOverlayDown
    /\ UNCHANGED <<mounts, gens, layer, scratch, attempt, liveWiped,
                   stopMonitoring, turn, failing, failed, mockClProc, drivers, lifeVars,
                   faulty>>

ClientsDown ==
    /\ pc = "stop_clients"
    /\ bind' = [c \in Clients |-> NoContainer]
    /\ ToOverlayDown
    /\ UNCHANGED <<mounts, gens, layer, scratch, attempt, liveWiped,
                   stopMonitoring, turn, failing, failed, mockClProc, drivers, lifeVars,
                   faulty>>

ClientsDownFails ==
    /\ Fault("down")
    /\ pc = "stop_clients"
    /\ Blame
    /\ ToOverlayDown
    /\ UNCHANGED <<mounts, gens, layer, scratch, bind, attempt, liveWiped,
                   stopMonitoring, turn, failing, failed, mockClProc, drivers, lifeVars>>

\* The overlay's exit code is logged and ignored.
OverlayDown ==
    /\ pc = "stop_overlay" /\ opc[runners] \in {"done", "failed"}
    /\ opc' = [opc EXCEPT ![runners] = "off"] /\ pc' = "next"
    /\ UNCHANGED <<mounts, gens, layer, scratch, bind, attempt, liveWiped,
                   stopMonitoring, turn, failing, failed, mockClProc, drivers, lifeVars,
                   faulty>>

\* main: a failing client is recorded, and the matrix goes on.
NextClient ==
    /\ pc = "next"
    /\ failed' = IF failing THEN failed \cup {turn} ELSE failed
    /\ failing' = FALSE
    /\ IF turn < Len(Matrix) THEN turn' = turn + 1 /\ pc' = "client"
                             ELSE turn' = turn /\ pc' = "exit"
    /\ UNCHANGED <<overlayVars, stopMonitoring, mockClProc, drivers, lifeVars, faulty>>

-----------------------------------------------------------------------------
\* The command the runner waits for: subprocess.run, here or over ssh.
Waited ==
    IF pc = "compose" THEN {[cmd |-> "up", client |-> Cur]}
    ELSE IF pc = "stop_clients" THEN {[cmd |-> "down", client |-> Cur]}
    ELSE {}

\* SIGKILL or SIGTERM of the runner alone: its command goes on.
Kill ==
    /\ Fault("kill") /\ pc \notin {"exit", "dead"}
    /\ pc' = "dead"
    /\ strays' = strays \cup Waited
    /\ UNCHANGED <<overlayVars, stopMonitoring, turn, failing, failed, mockClProc,
                   drivers, runners, crossed, faulty>>

\* A signal to the whole process group, or a lost session: the command dies too.
KillGroup ==
    /\ Fault("kill") /\ pc \notin {"exit", "dead"}
    /\ pc' = "dead"
    /\ opc' = [opc EXCEPT ![runners] = "off"]
    /\ attempt' = [attempt EXCEPT ![runners] = 0]
    /\ UNCHANGED <<mounts, gens, layer, scratch, bind, liveWiped, stopMonitoring, turn,
                   failing, failed, mockClProc, drivers, lifeVars, faulty>>

\* A stray compose command does its work, or fails, or was never begun.
StrayEnds ==
    \E s \in strays :
        /\ strays' = strays \ {s}
        /\ \/ s.cmd = "up" /\ ~PortsTaken(s.client) /\ bind' = Started(s.client)
           \/ s.cmd = "down" /\ bind' = [c \in Clients |-> NoContainer]
           \/ UNCHANGED bind
        /\ UNCHANGED <<mounts, gens, layer, scratch, opc, attempt, liveWiped, pc,
                       stopMonitoring, turn, failing, failed, mockClProc, drivers,
                       runners, crossed, faulty>>

\* A reboot takes processes, containers and mounts; scratch stays.
Reboot ==
    /\ Fault("reboot") /\ runners < MaxRunners
    /\ pc' = "dead"
    /\ opc' = [r \in Runners |-> "off"]
    /\ attempt' = [r \in Runners |-> 0]
    /\ strays' = {}
    /\ bind' = [c \in Clients |-> NoContainer]
    /\ mounts' = <<>>
    /\ drivers' = {}
    /\ UNCHANGED <<gens, layer, scratch, liveWiped, stopMonitoring, turn, failing, failed,
                   mockClProc, runners, crossed, faulty>>

NewRunner ==
    /\ pc \in {"exit", "dead"} /\ runners < MaxRunners
    /\ runners' = runners + 1
    /\ stopMonitoring' \in setting.stops
    /\ pc' = "client" /\ turn' = 1
    /\ failing' = FALSE /\ failed' = {} /\ faulty' = {}
    /\ mockClProc' = 0
    /\ UNCHANGED <<overlayVars, drivers, strays, crossed>>

\* PivotDriver.run ends by itself once its pivot is reached.
DriverEnds ==
    /\ \E d \in drivers : drivers' = drivers \ {d}
    /\ UNCHANGED <<overlayVars, pc, stopMonitoring, turn, failing, failed, mockClProc,
                   lifeVars, faulty>>

RunnerStep ==
    \/ StartOverlay \/ OverlayUp \/ OverlayFailed
    \/ ComposeUp \/ PortConflict \/ ComposeFails \/ StartDriver
    \/ RunEnds \/ RunFails
    \/ LeaveRunning \/ StopMockCl \/ ClientsDown \/ ClientsDownFails \/ OverlayDown
    \/ NextClient

Next ==
    /\ UNCHANGED <<faults, setting>>
    /\ \/ RunnerStep
       \/ OverlayStep /\ UNCHANGED runnerVars
       \/ HostStep /\ UNCHANGED runnerVars
       \/ Kill \/ KillGroup \/ StrayEnds \/ Reboot \/ NewRunner \/ DriverEnds

Spec == Init /\ [][Next]_vars

-----------------------------------------------------------------------------
(* Properties.  The code promises most of them for a host it was allowed   *)
(* to tidy: every runner stopped what it had started, and could.           *)

TidyHost == setting.stops = {TRUE} /\ ~Fault("down") /\ ~Fault("kill")

\* "Proceeding to rm -rf on a live overlay would wreck the upper dir"
\* (overlay.py:169-172): no layer is wiped while a container writes to it.
NoLiveWipe == TidyHost => ~liveWiped

\* The same of every host, which the code does not achieve.
NeverLiveWipe == ~liveWiped

\* Nor is a second overlay ever stacked on one that could not be released,
\* however many runs fail or die half way (overlay.py:169-172): only a runner
\* that was begun beside a command of a killed one can come to that.
NoStackedMounts == crossed \/ Len(mounts) <= 1

\* The node that answers at RPC_URL during a client's run is that client's:
\* no result is recorded for a client while another one is up (but for the
\* same exception).
AttributedToItsClient ==
    crossed \/ (pc = "run" => \A c \in Clients : Running(c) => c = Cur)

\* No pivot driver of an earlier turn, or of an earlier runner, is still
\* driving the engine port when a client is being measured.
DriverServesCurrent == TidyHost /\ pc = "run" => drivers \subseteq {<<runners, turn>>}

\* A client fails only when something goes wrong on the host in its own turn.
OnlyOwnFaults == TidyHost => failed \subseteq faulty

\* The same of every host: "A failing client is logged and skipped; the rest
\* of the client matrix still runs" (architecture.md:7).
OthersStillRun == failed \subseteq faulty

\* --stop-monitoring leaves nothing: no container, mount, scratch data or
\* driver is left when the matrix has run, whichever clients failed
\* (README.md:352, "leaving the snapshot pristine for the next client and
\* freeing the scratch disk").
StoppedLeavesNothing ==
    TidyHost /\ ~Fault("lazy") /\ ~Fault("wipe") /\ pc = "exit" =>
        /\ \A c \in Clients : ~Running(c)
        /\ ~IsMounted /\ scratch = 0
        /\ drivers = {}

\* The snapshot as its tenants have it.  A layer counts from when a container
\* is started on it, or from when none will be.
Tenants == {[client |-> c, layer |-> bind[c], data |-> layer[bind[c]]] :
               c \in {d \in Clients : Running(d)}}
Pending == (pc = "overlay" /\ opc[runners] = "done") \/ pc = "compose"
Layers == IF Pending THEN gens - 1 ELSE gens

Tenancy == INSTANCE TenantPromise
    WITH Client <- Clients, tenants <- Tenants, layers <- Layers

\* "Every run starts from the pristine snapshot regardless of how the
\* previous run ended" (overlay.py:31-33), of the matrix as a whole: where
\* rm -rf works, on a tidy host clients have the snapshot one after another,
\* each on a new, clean layer of its own that nobody else touches meanwhile.
KeepsTenancies ==
    [][OverlayEnabled /\ TidyHost /\ ~Fault("wipe") => [Tenancy!Next]_<<Tenants, Layers>>]_vars
=============================================================================
