------------------------------- MODULE Overlay ------------------------------
(***************************************************************************)
(* src/orchestrator/overlay.py: the overlay mount that keeps a snapshot    *)
(* pristine, with the Docker host it works on.                             *)
(*                                                                         *)
(* Every mount is a new generation with a writable layer of its own in the *)
(* scratch directory.  A container that was started on a generation keeps  *)
(* it, mounted or not: a lazy umount only takes it off the mount table.    *)
(* A command runs as a process of its own, and ends "done" or "failed" (an *)
(* exception, a non-zero exit).  Every runner has at most one at a time;   *)
(* the command of a runner that was killed goes on beside the others.      *)
(***************************************************************************)
EXTENDS Integers, Sequences, SequencesExt

CONSTANTS
    Clients,       \* nodes.clients
    MaxGens,       \* bound on mounts
    Attempts,      \* umount attempts before the lazy one (5)
    MaxRunners     \* bound on runner processes

ASSUME OverlayAssumption ==
    /\ MaxGens \in Nat \ {0}
    /\ Attempts \in Nat \ {0}
    /\ MaxRunners \in Nat \ {0}

\* What may go wrong on the host.
HostFaults == {"lazy", "wipe", "mount", "start", "work", "down", "kill", "reboot"}

VARIABLES
    faults,        \* what may go wrong in this behaviour; no step changes it
    mounts,        \* generations mounted at merged, the visible one last
    gens,          \* generations so far
    layer,         \* the writable layer of each generation
    scratch,       \* the generation whose layer scratch holds; 0 when wiped
    bind,          \* the generation a running container writes to
    opc,           \* where the overlay process of each runner is
    attempt,       \* umount attempts of its command
    liveWiped      \* history: a layer was wiped under a running container

overlayVars == <<mounts, gens, layer, scratch, bind, opc, attempt, liveWiped>>

\* No container, and one bound to a directory that is no mount.
NoContainer == -1
RawDir == 0

\* The runner processes, and so the overlay processes.
Runners == 1..MaxRunners

\* What "mount" may show at merged.
Stacks == Seq(1..MaxGens)

OverlayTypeOK ==
    /\ faults \subseteq HostFaults
    /\ mounts \in Stacks
    /\ gens \in 0..MaxGens
    /\ layer \in [1..MaxGens -> {"clean", "dirty", "wiped"}]
    /\ scratch \in 0..MaxGens
    /\ bind \in [Clients -> -1..MaxGens]
    /\ opc \in [Runners -> {"off", "up_umount", "up_wipe", "up_mount",
                            "down_umount", "down_wipe", "done", "failed"}]
    /\ attempt \in [Runners -> 0..Attempts]
    /\ liveWiped \in BOOLEAN

OverlayInit ==
    /\ mounts = <<>>
    /\ gens = 0
    /\ layer = [g \in 1..MaxGens |-> "clean"]
    /\ scratch = 0
    /\ bind = [c \in Clients |-> NoContainer]
    /\ opc = [r \in Runners |-> "off"]
    /\ attempt = [r \in Runners |-> 0]
    /\ liveWiped = FALSE

Fault(f) == f \in faults
Running(c) == bind[c] # NoContainer
InUse(g) == \E c \in Clients : bind[c] = g
IsMounted == mounts # <<>>

-----------------------------------------------------------------------------
\* restore: _umount_with_retry, only when something is mounted, then rm -rf.
\* An umount and the look at /proc/mounts after it are one step.
AfterUmount(cmd) == IF cmd = "up_umount" THEN "up_wipe" ELSE "down_wipe"

\* Nothing to unmount, from the start or any more.
NothingMounted(r, cmd) ==
    /\ opc[r] = cmd /\ ~IsMounted
    /\ opc' = [opc EXCEPT ![r] = AfterUmount(cmd)]
    /\ attempt' = [attempt EXCEPT ![r] = 0]
    /\ UNCHANGED <<mounts, gens, layer, scratch, bind, liveWiped>>

\* One attempt takes the visible mount away; another below it counts as a
\* failed attempt.
Umount(r, cmd) ==
    /\ opc[r] = cmd /\ IsMounted /\ attempt[r] < Attempts
    /\ mounts' = Front(mounts)
    /\ IF mounts' = <<>>
       THEN opc' = [opc EXCEPT ![r] = AfterUmount(cmd)] /\ attempt' = [attempt EXCEPT ![r] = 0]
       ELSE opc' = opc /\ attempt' = [attempt EXCEPT ![r] = @ + 1]
    /\ UNCHANGED <<gens, layer, scratch, bind, liveWiped>>

\* "target is busy", "while a container (or a lagging containerd shim) still
\* holds the merged dir": a shim may hold it with no container running.
UmountBusy(r, cmd) ==
    /\ opc[r] = cmd /\ IsMounted /\ attempt[r] < Attempts
    /\ attempt' = [attempt EXCEPT ![r] = @ + 1]
    /\ UNCHANGED <<mounts, gens, layer, scratch, bind, opc, liveWiped>>

LazyUmount(r, cmd) ==
    /\ opc[r] = cmd /\ IsMounted /\ attempt[r] = Attempts
    /\ mounts' = Front(mounts)
    /\ opc' = [opc EXCEPT ![r] = IF mounts' = <<>> THEN AfterUmount(cmd) ELSE "failed"]
    /\ attempt' = [attempt EXCEPT ![r] = 0]
    /\ UNCHANGED <<gens, layer, scratch, bind, liveWiped>>

\* Mutant: the mount that could not be released is left behind.
LazyFails_GoOn(r, cmd) ==
    /\ Fault("lazy")
    /\ opc[r] = cmd /\ IsMounted /\ attempt[r] = Attempts
    /\ opc' = [opc EXCEPT ![r] = AfterUmount(cmd)]
    /\ attempt' = [attempt EXCEPT ![r] = 0]
    /\ UNCHANGED <<mounts, gens, layer, scratch, bind, liveWiped>>

LazyFails(r, cmd) ==
    /\ Fault("lazy")
    /\ opc[r] = cmd /\ IsMounted /\ attempt[r] = Attempts
    /\ opc' = [opc EXCEPT ![r] = "failed"]
    /\ attempt' = [attempt EXCEPT ![r] = 0]
    /\ UNCHANGED <<mounts, gens, layer, scratch, bind, liveWiped>>

AfterWipe(cmd) == IF cmd = "up_wipe" THEN "up_mount" ELSE "done"

WipeScratch ==
    /\ scratch' = 0
    /\ layer' = IF scratch = 0 THEN layer ELSE [layer EXCEPT ![scratch] = "wiped"]
    /\ liveWiped' = (liveWiped \/ (scratch # 0 /\ InUse(scratch)))

\* Mutant: nothing is wiped by "up"; "down" is trusted to have done it.
Wipe_NotUp(r, cmd) ==
    /\ opc[r] = cmd
    /\ opc' = [opc EXCEPT ![r] = AfterWipe(cmd)]
    /\ IF cmd = "up_wipe" THEN UNCHANGED <<layer, scratch, liveWiped>> ELSE WipeScratch
    /\ UNCHANGED <<mounts, gens, bind, attempt>>

Wipe(r, cmd) ==
    /\ opc[r] = cmd
    /\ opc' = [opc EXCEPT ![r] = AfterWipe(cmd)]
    /\ WipeScratch
    /\ UNCHANGED <<mounts, gens, bind, attempt>>

\* rm -rf fails half way: nobody looks at its exit code (check=False).
WipeFails(r, cmd) ==
    /\ Fault("wipe")
    /\ opc[r] = cmd
    /\ opc' = [opc EXCEPT ![r] = AfterWipe(cmd)]
    /\ UNCHANGED <<mounts, gens, layer, scratch, bind, attempt, liveWiped>>

\* prepare_dirs and mount: the new generation starts with what scratch holds.
Mount(r) ==
    /\ opc[r] = "up_mount" /\ gens < MaxGens
    /\ gens' = gens + 1
    /\ mounts' = Append(mounts, gens + 1)
    /\ layer' = IF scratch = 0 THEN layer
                ELSE [layer EXCEPT ![gens + 1] = layer[scratch]]
    /\ scratch' = gens + 1
    /\ opc' = [opc EXCEPT ![r] = "done"]
    /\ UNCHANGED <<bind, attempt, liveWiped>>

MountFails(r) ==
    /\ Fault("mount")
    /\ opc[r] = "up_mount"
    /\ opc' = [opc EXCEPT ![r] = "failed"]
    /\ UNCHANGED <<mounts, gens, layer, scratch, bind, attempt, liveWiped>>

OverlayProcess(r) ==
    \/ \E cmd \in {"up_umount", "down_umount"} :
          \/ NothingMounted(r, cmd) \/ Umount(r, cmd) \/ UmountBusy(r, cmd)
          \/ LazyUmount(r, cmd) \/ LazyFails(r, cmd)
    \/ \E cmd \in {"up_wipe", "down_wipe"} : Wipe(r, cmd) \/ WipeFails(r, cmd)
    \/ Mount(r) \/ MountFails(r)

OverlayStep == \E r \in Runners : OverlayProcess(r)

-----------------------------------------------------------------------------
(* The host.                                                               *)

\* A running client writes to the layer it was started on.
Write(c) ==
    /\ bind[c] > 0
    /\ layer[bind[c]] = "clean"
    /\ layer' = [layer EXCEPT ![bind[c]] = "dirty"]
    /\ UNCHANGED <<mounts, gens, scratch, bind, opc, attempt, liveWiped>>

\* A client crashes: compose gives it no restart policy.
Exit(c) ==
    /\ Running(c)
    /\ bind' = [bind EXCEPT ![c] = NoContainer]
    /\ UNCHANGED <<mounts, gens, layer, scratch, opc, attempt, liveWiped>>

HostStep == \E c \in Clients : Write(c) \/ Exit(c)
=============================================================================
