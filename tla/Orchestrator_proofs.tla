------------------------ MODULE Orchestrator_proofs ------------------------
(***************************************************************************)
(* Proofs about Orchestrator, for every set of clients, matrix, setting of *)
(* the host and number of mounts, umount attempts and runner processes:    *)
(* every property MCMatrix checks.                                         *)
(***************************************************************************)
EXTENDS Orchestrator, SequenceTheorems, TLAPS

USE DEF lifeVars

UpStates == {"up_umount", "up_wipe", "up_mount", "done", "failed"}
DownStates == {"down_umount", "down_wipe", "done", "failed"}
Idle == {"off", "done", "failed"}

\* An overlay command runs while its runner waits for it, or since that was
\* killed; a runner that is still to come has none.
CommandInv ==
    /\ pc = "overlay" => OverlayEnabled /\ opc[runners] \in UpStates
    /\ pc = "stop_overlay" => OverlayEnabled /\ opc[runners] \in DownStates
    /\ pc \notin {"overlay", "stop_overlay", "dead"} => opc[runners] = "off"
    /\ \A r \in Runners : r > runners \/ ~OverlayEnabled => opc[r] = "off"

\* As long as no turn began beside a stray command, one command runs at a
\* time, and what outlived its runner ends before the next turn begins.
SoleInv ==
    ~crossed =>
        /\ \A r, s \in Runners : opc[r] \notin Idle /\ opc[s] \notin Idle => r = s
        /\ pc \notin {"client", "dead"} => ~Intruder

\* As long at most one generation is mounted: it was mounted on nothing, and
\* rm -rf ran under nothing.
MountInv ==
    ~crossed =>
        /\ mounts = <<>> \/ \E g \in 1..gens : mounts = <<g>>
        /\ \A r \in Runners : opc[r] \in {"up_wipe", "up_mount", "down_wipe"} => mounts = <<>>
        /\ pc = "overlay" /\ opc[runners] = "done" => mounts # <<>>
        /\ pc = "compose" /\ OverlayEnabled => mounts # <<>>

\* Nothing refers to a generation that is still to come.
GenerationInv ==
    /\ mounts \in Seq(1..gens)
    /\ scratch \in 0..gens
    /\ \A c \in Clients : bind[c] <= gens
    /\ \A g \in 1..MaxGens : g > gens => layer[g] = "clean"
    /\ ~OverlayEnabled => mounts = <<>> /\ scratch = 0

\* The client whose turn it is has the ports for itself.
AloneInv ==
    ~crossed /\ pc \in {"driver", "run"} => \A c \in Clients : Running(c) => c = Cur

\* A tidy host: no runner is killed, so no command outlives its runner.
QuietInv ==
    /\ strays = {} /\ ~crossed
    /\ \A r \in Runners : r # runners \/ pc = "dead" => opc[r] = "off"

\* Where nothing is up: a tidy host was cleared by the run before, and only
\* the client whose turn it is can be up elsewhere.
Cleared == {"client", "overlay", "compose", "stop_overlay", "next", "exit", "dead"}

ClearedInv == \A c \in Clients : Running(c) => pc \notin Cleared /\ c = Cur

\* And its drivers with it, which the runner knows by the current turn.
DriverInv ==
    /\ pc \in Cleared \cup {"driver", "stop_clients"} => drivers = {}
    /\ pc \in {"run", "stop_driver"} =>
          drivers = {} \/ (drivers = {<<runners, turn>>} /\ mockClProc = turn)

\* A failure is of the host, in the turn of the client it fails.
BlameInv == failed \subseteq faulty /\ (failing => turn \in faulty)

\* With rm -rf at work as well, what is about to be started is on a new layer.
FreshInv ==
    /\ opc[runners] = "up_mount" => scratch = 0
    /\ OverlayEnabled /\ ((pc = "overlay" /\ opc[runners] = "done") \/ pc = "compose") =>
          mounts = <<gens>> /\ layer[gens] = "clean"

\* And when the lazy umount works too, what was up is taken down for good.
GoneInv ==
    /\ pc = "stop_overlay" => opc[runners] # "failed"
    /\ (pc = "stop_overlay" /\ opc[runners] = "done") \/ pc \in {"next", "exit"} =>
          mounts = <<>> /\ scratch = 0

HostInv == TypeOK /\ CommandInv /\ SoleInv /\ MountInv /\ GenerationInv /\ AloneInv

IInv ==
    /\ HostInv
    /\ TidyHost => QuietInv /\ ClearedInv /\ ~liveWiped /\ DriverInv /\ BlameInv
    /\ TidyHost /\ ~Fault("wipe") => FreshInv
    /\ TidyHost /\ ~Fault("wipe") /\ ~Fault("lazy") => GoneInv

-----------------------------------------------------------------------------
LEMMA NoMount == <<>> \in Stacks /\ \A n : <<>> \in Seq(1..n)
BY DEF Stacks

\* What is mounted, and what an umount leaves.
LEMMA StackTop ==
    ASSUME NEW n \in Nat, NEW s \in Seq(1..n), s # <<>>
    PROVE  Last(s) \in 1..n /\ Front(s) \in Seq(1..n)
<1>1. Len(s) \in Nat \ {0} /\ \A i \in 1..Len(s) : s[i] \in 1..n
  BY EmptySeq, ElementOfSeq, LenProperties
<1>2. Last(s) \in 1..n
  BY <1>1 DEF Last
<1>3. SubSeq(s, 1, Len(s) - 1) \in Seq(1..n)
  BY <1>1, SubSeqProperties
<1>4. QED
  BY <1>2, <1>3 DEF Front

LEMMA Wider ==
    ASSUME NEW n \in Nat, NEW m \in Nat, n <= m, NEW s \in Seq(1..n)
    PROVE  s \in Seq(1..m)
<1>1. 1..n \subseteq 1..m
  OBVIOUS
<1>2. QED
  BY <1>1, SeqMonotonic

LEMMA Generations ==
    ASSUME HostInv
    PROVE  gens \in Nat /\ gens <= MaxGens /\ MaxGens \in Nat
BY OverlayAssumption DEF HostInv, TypeOK, OverlayTypeOK

LEMMA Visible ==
    ASSUME HostInv, ~crossed, mounts # <<>>
    PROVE  Len(mounts) = 1 /\ Front(mounts) = <<>>
<1>1. PICK g \in 1..gens : mounts = <<g>>
  BY DEF HostInv, MountInv
<1>2. Len(mounts) = 1
  BY <1>1
<1>3. Front(mounts) = <<>>
  BY <1>1, <1>2 DEF Front
<1>4. QED
  BY <1>2, <1>3

\* What Mount does.
Mounted(r) ==
    /\ gens \in Nat /\ gens' = gens + 1 /\ gens' \in 1..MaxGens
    /\ mounts' \in Seq(1..gens') /\ mounts' \in Stacks
    /\ layer' \in [1..MaxGens -> {"clean", "dirty", "wiped"}]
    /\ \A g \in 1..MaxGens : g # gens' => layer'[g] = layer[g]
    /\ scratch = 0 => layer' = layer
    /\ scratch' = gens' /\ opc[r] = "up_mount" /\ opc' = [opc EXCEPT ![r] = "done"]
    /\ UNCHANGED <<bind, attempt, liveWiped>>

LEMMA NewMount ==
    ASSUME HostInv, NEW r \in Runners, Mount(r)
    PROVE  Mounted(r) /\ (~crossed => mounts' = <<gens'>>)
<1>1. /\ gens \in 0..MaxGens /\ scratch \in 0..MaxGens
      /\ layer \in [1..MaxGens -> {"clean", "dirty", "wiped"}]
      /\ mounts \in Seq(1..gens)
  BY DEF HostInv, TypeOK, OverlayTypeOK, GenerationInv
<1>2. gens \in Nat /\ gens' = gens + 1 /\ gens' \in 1..MaxGens /\ MaxGens \in Nat
  <2>1. gens < MaxGens /\ gens' = gens + 1
    BY DEF Mount
  <2>2. QED
    BY <1>1, <2>1, OverlayAssumption
<1>3. mounts' = Append(mounts, gens')
  BY <1>2 DEF Mount
<1>4. mounts' \in Seq(1..gens')
  <2>1. mounts \in Seq(1..gens') /\ gens' \in 1..gens'
    BY <1>1, <1>2, Wider
  <2>2. QED
    BY <1>3, <2>1, AppendProperties
<1>5. mounts' \in Stacks
  BY <1>2, <1>4, Wider DEF Stacks
<1>6. ~crossed => mounts' = <<gens'>>
  <2>1. ~crossed => mounts = <<>>
    BY DEF Mount, HostInv, MountInv
  <2>2. QED
    BY <1>3, <2>1
<1>7. layer' = IF scratch = 0 THEN layer ELSE [layer EXCEPT ![gens'] = layer[scratch]]
  BY <1>2 DEF Mount
<1>8. layer' \in [1..MaxGens -> {"clean", "dirty", "wiped"}]
  BY <1>1, <1>2, <1>7
<1>9. \A g \in 1..MaxGens : g # gens' => layer'[g] = layer[g]
  BY <1>1, <1>2, <1>7
<1>10. QED
  BY <1>2, <1>4, <1>5, <1>6, <1>7, <1>8, <1>9 DEF Mount, Mounted

(* The host: TypeOK, CommandInv, SoleInv, MountInv, GenerationInv and      *)
(* AloneInv.                                                               *)

\* A step of an overlay process moves that process on, and no container.
LEMMA ProcessFrame ==
    ASSUME TypeOK, NEW r \in Runners, OverlayProcess(r)
    PROVE  /\ opc[r] \notin Idle
           /\ opc' \in [Runners -> {"off", "up_umount", "up_wipe", "up_mount",
                                    "down_umount", "down_wipe", "done", "failed"}]
           /\ \A s \in Runners : s # r => opc'[s] = opc[s]
           /\ opc[r] \in UpStates => opc'[r] \in UpStates
           /\ opc[r] \in DownStates => opc'[r] \in DownStates
           /\ UNCHANGED bind
<1> DEFINE All == {"off", "up_umount", "up_wipe", "up_mount",
                   "down_umount", "down_wipe", "done", "failed"}
<1> USE DEF TypeOK, OverlayTypeOK, UpStates, DownStates, Idle
<1>1. \E new \in All :
         /\ opc' = [opc EXCEPT ![r] = new] /\ opc[r] \notin Idle
         /\ opc[r] \in UpStates => new \in UpStates
         /\ opc[r] \in DownStates => new \in DownStates
         /\ UNCHANGED bind
  <2>1. ASSUME NEW cmd \in {"up_umount", "down_umount"},
               \/ NothingMounted(r, cmd) \/ Umount(r, cmd) \/ UmountBusy(r, cmd)
               \/ LazyUmount(r, cmd) \/ LazyFails(r, cmd)
        PROVE  /\ UNCHANGED bind /\ opc[r] = cmd
               /\ \/ opc' = [opc EXCEPT ![r] = cmd]
                  \/ opc' = [opc EXCEPT ![r] = AfterUmount(cmd)]
                  \/ opc' = [opc EXCEPT ![r] = "failed"]
    BY <2>1 DEF NothingMounted, Umount, UmountBusy, LazyUmount, LazyFails
  <2>2. ASSUME NEW cmd \in {"up_wipe", "down_wipe"}, Wipe(r, cmd) \/ WipeFails(r, cmd)
        PROVE  /\ UNCHANGED bind /\ opc[r] = cmd
               /\ opc' = [opc EXCEPT ![r] = AfterWipe(cmd)]
    BY <2>2 DEF Wipe, WipeFails
  <2>3. ASSUME Mount(r) \/ MountFails(r)
        PROVE  /\ UNCHANGED bind /\ opc[r] = "up_mount"
               /\ \/ opc' = [opc EXCEPT ![r] = "done"]
                  \/ opc' = [opc EXCEPT ![r] = "failed"]
    BY <2>3 DEF Mount, MountFails
  <2>4. QED
    BY <2>1, <2>2, <2>3 DEF OverlayProcess, AfterUmount, AfterWipe
<1>2. QED
  BY <1>1

LEMMA ProcessKeepsControl ==
    ASSUME HostInv, NEW r \in Runners, OverlayProcess(r), UNCHANGED runnerVars
    PROVE  CommandInv' /\ SoleInv' /\ AloneInv'
<1>1. /\ opc[r] \notin Idle
      /\ \A s \in Runners : s # r => opc'[s] = opc[s]
      /\ opc[r] \in UpStates => opc'[r] \in UpStates
      /\ opc[r] \in DownStates => opc'[r] \in DownStates
      /\ UNCHANGED bind
  BY ProcessFrame DEF HostInv
<1>2. UNCHANGED <<pc, turn, runners, strays, crossed>>
  BY DEF runnerVars
<1>3. runners \in Runners
  BY DEF HostInv, TypeOK
<1>4. CommandInv'
  BY <1>1, <1>2, <1>3 DEF HostInv, CommandInv, Idle, UpStates, DownStates
<1>5. \A s \in Runners : opc'[s] \notin Idle => opc[s] \notin Idle
  BY <1>1
<1>6. Intruder' => Intruder
  BY <1>2, <1>5 DEF Intruder, Idle
<1>7. SoleInv'
  BY <1>2, <1>5, <1>6 DEF HostInv, SoleInv
<1>8. AloneInv'
  BY <1>1, <1>2 DEF HostInv, AloneInv, Running, Cur
<1>9. QED
  BY <1>4, <1>7, <1>8

\* Only one process is at work, so what it leaves mounted is all there is.
LEMMA ProcessKeepsMount ==
    ASSUME HostInv, NEW r \in Runners, OverlayProcess(r), UNCHANGED runnerVars, ~crossed,
           \/ UNCHANGED mounts
              /\ (opc'[r] \in {"up_wipe", "up_mount", "down_wipe"} => mounts = <<>>)
              /\ (opc'[r] # "done" \/ opc[r] = "down_wipe")
           \/ mounts' = <<>> /\ opc'[r] # "done"
           \/ mounts' = <<gens'>> /\ gens' \in Nat \ {0} /\ opc'[r] = "done",
           gens' = gens \/ mounts' = <<gens'>>
    PROVE  MountInv'
<1>1. /\ opc[r] \notin Idle
      /\ \A s \in Runners : s # r => opc'[s] = opc[s]
      /\ opc[r] \in UpStates => opc'[r] \in UpStates
      /\ opc[r] \in DownStates => opc'[r] \in DownStates
  BY ProcessFrame DEF HostInv
<1>2. UNCHANGED <<pc, runners, strays, crossed>>
  BY DEF runnerVars
<1>3. \A s \in Runners : s # r => opc'[s] \in Idle
  BY <1>1 DEF HostInv, SoleInv
<1>4. pc \notin {"client", "dead"} => r = runners
  BY <1>1 DEF HostInv, SoleInv, Intruder, Idle
<1>5. pc = "compose" => opc[runners] = "off"
  BY DEF HostInv, CommandInv
<1>6. mounts' = <<>> \/ \E g \in 1..gens' : mounts' = <<g>>
  BY DEF HostInv, MountInv
<1>7. \A s \in Runners : opc'[s] \in {"up_wipe", "up_mount", "down_wipe"} => mounts' = <<>>
  BY <1>3 DEF Idle
<1>8. pc = "overlay" /\ opc'[runners] = "done" => mounts' # <<>>
  <2>1. \A x : <<x>> # <<>>
    OBVIOUS
  <2>2. pc = "overlay" => r = runners /\ opc[r] \in UpStates
    BY <1>4 DEF HostInv, CommandInv
  <2>3. QED
    BY <2>1, <2>2 DEF UpStates
<1>9. pc # "compose"
  BY <1>1, <1>4, <1>5 DEF Idle
<1>10. QED
  BY <1>2, <1>6, <1>7, <1>8, <1>9 DEF MountInv

LEMMA OverlayKeepsHost ==
    ASSUME HostInv, OverlayStep, UNCHANGED runnerVars, UNCHANGED <<faults, setting>>
    PROVE  HostInv'
<1>1. PICK r \in Runners : OverlayProcess(r)
  BY DEF OverlayStep
<1>2. CommandInv' /\ SoleInv' /\ AloneInv'
  BY <1>1, ProcessKeepsControl
<1>3. /\ opc[r] \notin Idle
      /\ opc' \in [Runners -> {"off", "up_umount", "up_wipe", "up_mount",
                               "down_umount", "down_wipe", "done", "failed"}]
      /\ OverlayEnabled
  BY <1>1, ProcessFrame DEF HostInv, CommandInv, Idle
<1>4. /\ opc \in [Runners -> {"off", "up_umount", "up_wipe", "up_mount",
                              "down_umount", "down_wipe", "done", "failed"}]
      /\ attempt \in [Runners -> 0..Attempts] /\ Attempts \in Nat
      /\ layer \in [1..MaxGens -> {"clean", "dirty", "wiped"}]
      /\ gens \in Nat /\ gens <= MaxGens /\ MaxGens \in Nat
      /\ mounts \in Seq(1..gens) /\ scratch \in 0..gens
      /\ ~crossed <=> ~crossed'
  BY OverlayAssumption DEF HostInv, TypeOK, OverlayTypeOK, GenerationInv, runnerVars
\* It is enough to look at mounts, layers, scratch and the attempts.
<1>5. ASSUME mounts' \in Seq(1..gens'), mounts' \in Stacks, scratch' \in 0..gens',
             gens' \in Nat, gens <= gens', gens' <= MaxGens,
             layer' \in [1..MaxGens -> {"clean", "dirty", "wiped"}],
             \A g \in 1..MaxGens : g > gens' => layer'[g] = "clean",
             attempt' \in [Runners -> 0..Attempts], liveWiped' \in BOOLEAN,
             ~crossed => MountInv'
      PROVE  HostInv'
  <2>1. UNCHANGED bind
    BY <1>1, ProcessFrame DEF HostInv
  <2>2. scratch' \in 0..MaxGens /\ gens' \in 0..MaxGens
    BY <1>4, <1>5
  <2>3. TypeOK'
    BY <1>3, <1>5, <2>1, <2>2 DEF HostInv, TypeOK, OverlayTypeOK, runnerVars
  <2>4. \A c \in Clients : bind[c] \in Int /\ bind[c] <= gens
    BY OverlayAssumption DEF HostInv, TypeOK, OverlayTypeOK, GenerationInv
  <2>5. GenerationInv'
    BY <1>3, <1>4, <1>5, <2>1, <2>4 DEF GenerationInv
  <2>6. MountInv'
    BY <1>4, <1>5 DEF MountInv
  <2>7. QED
    BY <1>2, <2>3, <2>5, <2>6 DEF HostInv
<1>6. ASSUME NEW cmd \in {"up_umount", "down_umount"},
             NothingMounted(r, cmd) \/ UmountBusy(r, cmd) \/ LazyFails(r, cmd)
      PROVE  HostInv'
  <2>1. UNCHANGED <<mounts, gens, layer, scratch, liveWiped>> /\ opc[r] = cmd
    BY <1>6 DEF NothingMounted, UmountBusy, LazyFails
  <2>2. attempt' \in [Runners -> 0..Attempts]
    <3>1. CASE UmountBusy(r, cmd)
      BY <1>4, <3>1 DEF UmountBusy
    <3>2. CASE ~UmountBusy(r, cmd)
      <4>1. attempt' = [attempt EXCEPT ![r] = 0]
        BY <1>6, <3>2 DEF NothingMounted, LazyFails
      <4>2. QED
        BY <1>4, <4>1
    <3>3. QED
      BY <3>1, <3>2
  <2>3. /\ opc'[r] # "done"
        /\ opc'[r] \in {"up_wipe", "up_mount", "down_wipe"} => mounts = <<>>
    BY <1>4, <1>6 DEF NothingMounted, UmountBusy, LazyFails, AfterUmount, IsMounted
  <2>4. ~crossed => MountInv'
    BY <1>1, <2>1, <2>3, ProcessKeepsMount
  <2>5. mounts \in Stacks /\ liveWiped \in BOOLEAN /\ \A g \in 1..MaxGens : g > gens => layer[g] = "clean"
    BY DEF HostInv, TypeOK, OverlayTypeOK, GenerationInv
  <2>6. QED
    BY <1>4, <1>5, <2>1, <2>2, <2>4, <2>5
<1>7. ASSUME NEW cmd \in {"up_umount", "down_umount"}, Umount(r, cmd) \/ LazyUmount(r, cmd)
      PROVE  HostInv'
  <2>1. UNCHANGED <<gens, layer, scratch, liveWiped>> /\ mounts # <<>> /\ mounts' = Front(mounts)
    BY <1>7 DEF Umount, LazyUmount, IsMounted
  <2>2. attempt' \in [Runners -> 0..Attempts]
    <3>1. \/ attempt' = [attempt EXCEPT ![r] = 0]
          \/ attempt[r] < Attempts /\ attempt' = [attempt EXCEPT ![r] = @ + 1]
      BY <1>7 DEF Umount, LazyUmount
    <3>2. QED
      BY <1>4, <3>1
  <2>3. mounts' \in Seq(1..gens) /\ mounts' \in Stacks
    BY <1>4, <2>1, StackTop, Wider DEF Stacks
  <2>4. ~crossed => MountInv'
    <3>1. SUFFICES ASSUME ~crossed PROVE MountInv'
      OBVIOUS
    <3>2. mounts' = <<>>
      BY <2>1, <3>1, Visible
    <3>3. opc'[r] # "done"
      BY <1>4, <1>7, <3>2 DEF Umount, LazyUmount, AfterUmount
    <3>4. QED
      BY <1>1, <2>1, <3>1, <3>2, <3>3, ProcessKeepsMount
  <2>5. liveWiped \in BOOLEAN /\ \A g \in 1..MaxGens : g > gens => layer[g] = "clean"
    BY DEF HostInv, TypeOK, OverlayTypeOK, GenerationInv
  <2>6. QED
    BY <1>4, <1>5, <2>1, <2>2, <2>3, <2>4, <2>5
<1>8. ASSUME NEW cmd \in {"up_wipe", "down_wipe"}, Wipe(r, cmd) \/ WipeFails(r, cmd)
      PROVE  HostInv'
  <2>1. /\ liveWiped' \in BOOLEAN /\ scratch' \in {0, scratch}
        /\ layer' = layer \/ (scratch # 0 /\ layer' = [layer EXCEPT ![scratch] = "wiped"])
        /\ UNCHANGED <<mounts, gens, attempt>>
    BY <1>8 DEF Wipe, WipeFails, WipeScratch, HostInv, TypeOK, OverlayTypeOK
  <2>2. layer' \in [1..MaxGens -> {"clean", "dirty", "wiped"}]
    BY <1>4, <2>1
  <2>3. \A g \in 1..MaxGens : g > gens => layer'[g] = "clean"
    <3>1. SUFFICES ASSUME NEW g \in 1..MaxGens, g > gens PROVE layer'[g] = "clean"
      OBVIOUS
    <3>2. layer[g] = "clean" /\ g # scratch
      BY <1>4, <3>1 DEF HostInv, GenerationInv
    <3>3. QED
      BY <1>4, <2>1, <3>2
  <2>4. scratch' \in 0..gens
    BY <1>4, <2>1
  <2>5. ~crossed => MountInv'
    <3>1. SUFFICES ASSUME ~crossed PROVE MountInv'
      OBVIOUS
    <3>2. mounts = <<>> /\ opc'[r] = AfterWipe(cmd) /\ opc[r] = cmd
      BY <1>4, <1>8, <3>1 DEF Wipe, WipeFails, HostInv, MountInv
    <3>3. opc'[r] # "done" \/ opc[r] = "down_wipe"
      BY <3>2 DEF AfterWipe
    <3>4. QED
      BY <1>1, <2>1, <3>1, <3>2, <3>3, ProcessKeepsMount
  <2>6. mounts \in Stacks
    BY DEF HostInv, TypeOK, OverlayTypeOK
  <2>7. QED
    BY <1>4, <1>5, <2>1, <2>2, <2>3, <2>4, <2>5, <2>6
<1>9. CASE Mount(r)
  <2>1. Mounted(r) /\ (~crossed => mounts' = <<gens'>>)
    BY <1>9, NewMount
  <2>2. gens' \in Nat \ {0} /\ gens <= gens' /\ opc'[r] = "done" /\ gens' <= MaxGens
    BY <1>4, <2>1 DEF Mounted
  <2>3. \A g \in 1..MaxGens : g > gens' => layer'[g] = "clean"
    BY <2>1, <2>2 DEF Mounted, HostInv, GenerationInv
  <2>4. ~crossed => MountInv'
    BY <1>1, <2>1, <2>2, ProcessKeepsMount
  <2>5. liveWiped \in BOOLEAN
    BY DEF HostInv, TypeOK, OverlayTypeOK
  <2>6. scratch' \in 0..gens'
    BY <2>1, <2>2 DEF Mounted
  <2>7. QED
    BY <1>4, <1>5, <2>1, <2>2, <2>3, <2>4, <2>5, <2>6 DEF Mounted
<1>10. CASE MountFails(r)
  <2>1. UNCHANGED <<mounts, gens, layer, scratch, attempt, liveWiped>> /\ opc'[r] = "failed"
    BY <1>4, <1>10 DEF MountFails
  <2>2. ~crossed => MountInv'
    BY <1>1, <2>1, ProcessKeepsMount
  <2>3. mounts \in Stacks /\ liveWiped \in BOOLEAN /\ \A g \in 1..MaxGens : g > gens => layer[g] = "clean"
    BY DEF HostInv, TypeOK, OverlayTypeOK, GenerationInv
  <2>4. QED
    BY <1>4, <1>5, <2>1, <2>2, <2>3
<1>11. QED
  BY <1>1, <1>6, <1>7, <1>8, <1>9, <1>10 DEF OverlayProcess

LEMMA ClientsKeepHost ==
    ASSUME HostInv, HostStep, UNCHANGED runnerVars, UNCHANGED <<faults, setting>>
    PROVE  HostInv'
<1> USE DEF HostInv, runnerVars
<1>1. ASSUME NEW c \in Clients, Write(c)
      PROVE  HostInv'
  <2> USE <1>1 DEF Write
  <2>1. bind[c] \in 1..gens /\ bind[c] \in 1..MaxGens
    BY DEF GenerationInv, TypeOK, OverlayTypeOK
  <2>2. TypeOK'
    BY <2>1 DEF TypeOK, OverlayTypeOK
  <2>3. CommandInv' /\ MountInv' /\ SoleInv'
    BY DEF CommandInv, MountInv, SoleInv, Intruder
  <2>4. GenerationInv' /\ AloneInv'
    BY <2>1 DEF GenerationInv, AloneInv, Running, Cur, TypeOK, OverlayTypeOK
  <2>5. QED
    BY <2>2, <2>3, <2>4
<1>2. ASSUME NEW c \in Clients, Exit(c)
      PROVE  HostInv'
  <2> USE <1>2 DEF Exit, Running, NoContainer
  <2>1. bind' \in [Clients -> -1..MaxGens] /\ \A d \in Clients : bind'[d] = -1 \/ bind'[d] = bind[d]
    BY OverlayAssumption DEF TypeOK, OverlayTypeOK
  <2>2. TypeOK'
    BY <2>1 DEF TypeOK, OverlayTypeOK
  <2>3. CommandInv' /\ MountInv' /\ SoleInv'
    BY DEF CommandInv, MountInv, SoleInv, Intruder
  <2>4. \A d \in Clients : bind'[d] <= gens
    BY <2>1, Generations DEF GenerationInv
  <2>5. GenerationInv' /\ AloneInv'
    BY <2>1, <2>4 DEF GenerationInv, AloneInv, Cur
  <2>6. QED
    BY <2>2, <2>3, <2>5
<1>3. QED
  BY <1>1, <1>2 DEF HostStep

\* A runner that is alive moves only its own command.
LEMMA SoleKept ==
    ASSUME HostInv, UNCHANGED <<runners, strays>>, ~crossed' => ~crossed /\ ~Intruder,
           \A r \in Runners : r # runners => opc'[r] = opc[r]
    PROVE  SoleInv'
<1>1. SUFFICES ASSUME ~crossed' PROVE (\A r, s \in Runners : opc'[r] \notin Idle /\ opc'[s] \notin Idle => r = s) /\ ~Intruder'
  BY DEF SoleInv
<1>2. \A r \in Runners : r # runners => opc'[r] \in Idle
  BY <1>1 DEF Intruder, Idle
<1>3. ~Intruder'
  BY <1>1, <1>2 DEF Intruder, Idle
<1>4. QED
  BY <1>2, <1>3

LEMMA Ahead == \A r, s \in Runners : r > s => r # s
BY OverlayAssumption DEF Runners

LEMMA Alone ==
    ASSUME HostInv, pc \notin {"client", "dead"}
    PROVE  ~crossed => ~Intruder
BY DEF HostInv, SoleInv

\* What a container that is started binds.
LEMMA StartedBind ==
    ASSUME HostInv, NEW c \in Clients
    PROVE  /\ Started(c) \in [Clients -> -1..MaxGens]
           /\ \A d \in Clients : Started(c)[d] <= gens
           /\ \A d \in Clients : d # c => Started(c)[d] = bind[d]
<1>1. /\ bind \in [Clients -> -1..MaxGens] /\ \A d \in Clients : bind[d] <= gens
      /\ mounts \in Seq(1..gens)
  BY DEF HostInv, TypeOK, OverlayTypeOK, GenerationInv
<1>2. PICK g \in -1..MaxGens :
          (Started(c) = bind \/ Started(c) = [bind EXCEPT ![c] = g]) /\ g <= gens
  <2>1. RawDir \in -1..MaxGens /\ RawDir <= gens
    BY Generations DEF RawDir
  <2>2. ASSUME mounts # <<>> PROVE Last(mounts) \in -1..MaxGens /\ Last(mounts) <= gens
    BY <1>1, <2>2, StackTop, Generations
  <2>3. QED
    BY <2>1, <2>2 DEF Started, IsMounted
<1>3. QED
  BY <1>1, <1>2

LEMMA RunnerKeepsHost ==
    ASSUME HostInv, RunnerStep, UNCHANGED <<faults, setting>>
    PROVE  HostInv'
<1> USE DEF HostInv, overlayVars, Raise, Blame
<1>0. /\ runners \in Runners /\ turn \in Turns
      /\ opc \in [Runners -> {"off", "up_umount", "up_wipe", "up_mount",
                              "down_umount", "down_wipe", "done", "failed"}]
  BY DEF TypeOK, OverlayTypeOK
<1>1. CASE StartOverlay
  <2> USE <1>1 DEF StartOverlay
  <2>1. /\ \A r \in Runners : r # runners => opc'[r] = opc[r]
        /\ pc' = "overlay" => OverlayEnabled /\ opc'[runners] = "up_umount"
        /\ pc' = "compose" => ~OverlayEnabled /\ opc' = opc
        /\ pc' \in {"overlay", "compose"} /\ pc = "client"
    BY <1>0
  <2>2. TypeOK'
    BY <1>0 DEF TypeOK, OverlayTypeOK, Intruder
  <2>3. CommandInv'
    <3>1. CASE pc' = "overlay"
      BY <1>0, <2>1, <3>1, Ahead DEF CommandInv, UpStates
    <3>2. CASE pc' = "compose"
      BY <1>0, <2>1, <3>2 DEF CommandInv
    <3>3. QED
      BY <2>1, <3>1, <3>2
  <2>4. SoleInv'
    BY <2>1, SoleKept
  <2>5. MountInv'
    BY <1>0, <2>1 DEF MountInv
  <2>6. GenerationInv' /\ AloneInv'
    BY <2>1 DEF GenerationInv, AloneInv
  <2>7. QED
    BY <2>2, <2>3, <2>4, <2>5, <2>6
<1>2. CASE OverlayUp \/ OverlayFailed
  <2> USE <1>2 DEF OverlayUp, OverlayFailed
  <2>1. /\ \A r \in Runners : r # runners => opc'[r] = opc[r]
        /\ opc'[runners] = "off" /\ opc[runners] \in {"done", "failed"}
        /\ pc = "overlay" /\ pc' \in {"compose", "stop_driver"}
        /\ pc' = "compose" => opc[runners] = "done"
    BY <1>0
  <2>2. TypeOK'
    BY <1>0 DEF TypeOK, OverlayTypeOK
  <2>3. CommandInv'
    BY <1>0, <2>1 DEF CommandInv
  <2>4. SoleInv'
    BY <2>1, SoleKept, Alone
  <2>5. MountInv'
    BY <1>0, <2>1 DEF MountInv
  <2>6. GenerationInv' /\ AloneInv'
    BY <2>1 DEF GenerationInv, AloneInv
  <2>7. QED
    BY <2>2, <2>3, <2>4, <2>5, <2>6
<1>3. CASE ComposeUp
  <2>1. /\ pc = "compose" /\ pc' = "driver" /\ bind' = Started(Cur)
        /\ \A c \in Clients : c # Cur => ~Running(c)
        /\ UNCHANGED <<mounts, gens, layer, scratch, opc, attempt, liveWiped, stopMonitoring,
                       turn, failing, failed, mockClProc, drivers, runners, strays, crossed,
                       faulty>>
    BY <1>3 DEF ComposeUp, PortsTaken
  <2>2. Cur \in Clients
    BY <1>0, MatrixAssumption DEF Cur, Turns
  <2>3. /\ bind' \in [Clients -> -1..MaxGens]
        /\ \A c \in Clients : bind'[c] <= gens
        /\ \A c \in Clients : c # Cur => bind'[c] = bind[c]
    BY <2>1, <2>2, StartedBind
  <2>4. TypeOK'
    BY <2>1, <2>3 DEF TypeOK, OverlayTypeOK
  <2>5. CommandInv' /\ MountInv'
    BY <2>1 DEF CommandInv, MountInv
  <2>6. SoleInv'
    BY <2>1, SoleKept, Alone
  <2>7. AloneInv'
    BY <2>1, <2>3 DEF AloneInv, Running, Cur
  <2>8. GenerationInv'
    BY <2>1, <2>3 DEF GenerationInv
  <2>9. QED
    BY <2>4, <2>5, <2>6, <2>7, <2>8
<1>4. CASE PortConflict \/ ComposeFails \/ RunEnds \/ RunFails \/ LeaveRunning
  <2>1. /\ UNCHANGED <<mounts, gens, layer, scratch, bind, opc, attempt, liveWiped,
                       stopMonitoring, turn, failed, mockClProc, drivers, runners, strays,
                       crossed>>
        /\ failing' \in BOOLEAN /\ faulty' \in {faulty, faulty \cup {turn}}
        /\ pc \in {"compose", "run", "stop_driver"} /\ pc' \in {"stop_driver", "next"}
    BY <1>4 DEF PortConflict, ComposeFails, RunEnds, RunFails, LeaveRunning, TypeOK
  <2>2. TypeOK'
    BY <1>0, <2>1 DEF TypeOK, OverlayTypeOK
  <2>3. CommandInv' /\ MountInv'
    BY <2>1 DEF CommandInv, MountInv
  <2>4. SoleInv'
    BY <2>1, SoleKept, Alone
  <2>5. GenerationInv' /\ AloneInv'
    BY <2>1 DEF GenerationInv, AloneInv
  <2>6. QED
    BY <2>2, <2>3, <2>4, <2>5
<1>5. CASE StartDriver \/ StopMockCl
  <2>1. /\ UNCHANGED <<mounts, gens, layer, scratch, bind, opc, attempt, liveWiped,
                       stopMonitoring, turn, failing, failed, runners, strays, crossed, faulty>>
        /\ pc \in {"driver", "stop_driver"} /\ pc' \in {"run", "stop_clients"}
        /\ pc' = "run" => pc = "driver"
        /\ drivers' \subseteq drivers \cup {<<runners, turn>>}
        /\ mockClProc' \in {0, turn, mockClProc}
    BY <1>5 DEF StartDriver, StopMockCl
  <2>2. drivers' \subseteq Runners \X Turns
    BY <1>0, <2>1 DEF TypeOK
  <2>3. mockClProc' \in 0..Len(Matrix)
    BY <1>0, <2>1, MatrixAssumption DEF TypeOK, Turns
  <2>4. TypeOK'
    BY <2>1, <2>2, <2>3 DEF TypeOK, OverlayTypeOK
  <2>5. CommandInv' /\ MountInv'
    BY <2>1 DEF CommandInv, MountInv
  <2>6. SoleInv'
    BY <2>1, SoleKept, Alone
  <2>7. GenerationInv' /\ AloneInv'
    BY <2>1 DEF GenerationInv, AloneInv, Running, Cur
  <2>8. QED
    BY <2>4, <2>5, <2>6, <2>7
<1>6. CASE ClientsDown \/ ClientsDownFails
  <2> USE <1>6 DEF ClientsDown, ClientsDownFails, ToOverlayDown
  <2>1. /\ bind' \in [Clients -> -1..MaxGens]
        /\ \A c \in Clients : bind'[c] <= gens
    BY OverlayAssumption DEF NoContainer, TypeOK, OverlayTypeOK, GenerationInv
  <2>2. /\ \A r \in Runners : r # runners => opc'[r] = opc[r]
        /\ pc' = "stop_overlay" => OverlayEnabled /\ opc'[runners] = "down_umount"
        /\ pc' = "next" => opc' = opc
        /\ pc' \in {"stop_overlay", "next"} /\ pc = "stop_clients"
        /\ UNCHANGED <<mounts, gens, layer, scratch, attempt, liveWiped, stopMonitoring, turn,
                       failing, failed, mockClProc, drivers, runners, strays, crossed>>
        /\ faulty' \in {faulty, faulty \cup {turn}}
    BY <1>0
  <2>3. TypeOK'
    BY <1>0, <2>1, <2>2 DEF TypeOK, OverlayTypeOK
  <2> HIDE <1>6 DEF ClientsDown, ClientsDownFails, ToOverlayDown
  <2>4. CommandInv'
    <3>1. CASE pc' = "stop_overlay"
      BY <1>0, <2>2, <3>1, Ahead DEF CommandInv, DownStates
    <3>2. CASE pc' = "next"
      BY <1>0, <2>2, <3>2 DEF CommandInv
    <3>3. QED
      BY <2>2, <3>1, <3>2
  <2>5. SoleInv'
    BY <2>2, SoleKept, Alone
  <2>6. MountInv'
    BY <1>0, <2>2 DEF MountInv
  <2>7. GenerationInv' /\ AloneInv'
    BY <2>1, <2>2 DEF GenerationInv, AloneInv
  <2>8. QED
    BY <2>3, <2>4, <2>5, <2>6, <2>7
<1>7. CASE OverlayDown
  <2> USE <1>7 DEF OverlayDown
  <2>1. /\ \A r \in Runners : r # runners => opc'[r] = opc[r]
        /\ opc'[runners] = "off" /\ pc = "stop_overlay" /\ pc' = "next"
    BY <1>0
  <2>2. TypeOK'
    BY <1>0 DEF TypeOK, OverlayTypeOK
  <2>3. CommandInv'
    BY <1>0, <2>1 DEF CommandInv
  <2>4. SoleInv'
    BY <2>1, SoleKept, Alone
  <2>5. MountInv'
    BY <1>0, <2>1 DEF MountInv
  <2>6. GenerationInv' /\ AloneInv'
    BY DEF GenerationInv, AloneInv
  <2>7. QED
    BY <2>2, <2>3, <2>4, <2>5, <2>6
<1>8. CASE NextClient
  <2> USE <1>8 DEF NextClient
  <2>1. Len(Matrix) \in Nat
    BY MatrixAssumption
  <2>2. turn' \in Turns /\ failed' \subseteq Turns
    BY <2>1 DEF TypeOK, Turns
  <2>3. TypeOK'
    BY <2>2 DEF TypeOK, OverlayTypeOK
  <2>4. CommandInv' /\ MountInv'
    BY DEF CommandInv, MountInv
  <2>5. SoleInv'
    BY SoleKept, Alone
  <2>6. GenerationInv' /\ AloneInv'
    BY DEF GenerationInv, AloneInv
  <2>7. QED
    BY <2>3, <2>4, <2>5, <2>6
<1>9. QED
  BY <1>1, <1>2, <1>3, <1>4, <1>5, <1>6, <1>7, <1>8 DEF RunnerStep

LEMMA OutsideKeepsHost ==
    ASSUME HostInv, Kill \/ KillGroup \/ StrayEnds \/ Reboot \/ NewRunner \/ DriverEnds,
           UNCHANGED <<faults, setting>>
    PROVE  HostInv'
<1> USE DEF HostInv, overlayVars
<1>0. /\ runners \in Runners /\ turn \in Turns /\ gens \in Nat
      /\ opc \in [Runners -> {"off", "up_umount", "up_wipe", "up_mount",
                              "down_umount", "down_wipe", "done", "failed"}]
      /\ attempt \in [Runners -> 0..Attempts] /\ Attempts \in Nat
  BY OverlayAssumption DEF TypeOK, OverlayTypeOK
<1>1. CASE Kill
  <2>1. Cur \in Clients
    BY <1>0, MatrixAssumption DEF Cur, Turns
  <2>2. strays' \subseteq Commands
    BY <1>1, <2>1 DEF Kill, Waited, Commands, TypeOK
  <2>3. TypeOK'
    BY <1>1, <2>2 DEF Kill, TypeOK, OverlayTypeOK
  <2>4. CommandInv' /\ MountInv' /\ GenerationInv' /\ AloneInv' /\ SoleInv'
    BY <1>1 DEF Kill, CommandInv, MountInv, GenerationInv, AloneInv, SoleInv
  <2>5. QED
    BY <2>3, <2>4
<1>2. CASE KillGroup
  <2>1. /\ \A r \in Runners : r # runners => opc'[r] = opc[r]
        /\ opc'[runners] = "off" /\ pc' = "dead"
        /\ UNCHANGED <<runners, strays, crossed, mounts, gens, layer, scratch, bind>>
    BY <1>0, <1>2 DEF KillGroup
  <2>2. TypeOK'
    BY <1>0, <1>2 DEF KillGroup, TypeOK, OverlayTypeOK
  <2>3. CommandInv'
    BY <1>0, <2>1 DEF CommandInv
  <2>4. SoleInv'
    BY <1>0, <2>1 DEF SoleInv, Idle
  <2>5. MountInv'
    BY <1>0, <2>1 DEF MountInv
  <2>6. GenerationInv' /\ AloneInv'
    BY <2>1 DEF GenerationInv, AloneInv
  <2>7. QED
    BY <2>2, <2>3, <2>4, <2>5, <2>6
<1>3. CASE StrayEnds
  <2>1. PICK s \in strays :
            /\ strays' = strays \ {s}
            /\ \/ bind' = Started(s.client) \/ UNCHANGED bind
               \/ bind' = [c \in Clients |-> NoContainer]
            /\ UNCHANGED <<mounts, gens, layer, scratch, opc, attempt, liveWiped, pc,
                           stopMonitoring, turn, failing, failed, mockClProc, drivers, runners,
                           crossed, faulty>>
    BY <1>3 DEF StrayEnds
  <2>2. s.client \in Clients
    BY <2>1 DEF TypeOK, Commands
  <2>3. bind' \in [Clients -> -1..MaxGens] /\ \A c \in Clients : bind'[c] <= gens
    <3>1. CASE bind' = Started(s.client)
      BY <2>2, <3>1, StartedBind
    <3>2. CASE bind' = [c \in Clients |-> NoContainer]
      BY <3>2, OverlayAssumption, Generations DEF NoContainer
    <3>3. CASE UNCHANGED bind
      BY <3>3 DEF TypeOK, OverlayTypeOK, GenerationInv
    <3>4. QED
      BY <2>1, <3>1, <3>2, <3>3
  <2>4. TypeOK'
    BY <2>1, <2>3 DEF TypeOK, OverlayTypeOK
  <2>5. CommandInv' /\ MountInv'
    BY <2>1 DEF CommandInv, MountInv
  <2>6. ~crossed => pc \in {"client", "dead"}
    BY <2>1 DEF SoleInv, Intruder
  <2>7. SoleInv' /\ AloneInv'
    BY <2>1, <2>6 DEF SoleInv, AloneInv
  <2>8. GenerationInv'
    BY <2>1, <2>3 DEF GenerationInv
  <2>9. QED
    BY <2>4, <2>5, <2>7, <2>8
<1>4. CASE Reboot
  <2>1. /\ bind' \in [Clients -> -1..MaxGens]
        /\ \A c \in Clients : bind'[c] <= gens
    BY <1>0, <1>4, OverlayAssumption DEF Reboot, NoContainer
  <2>2. TypeOK'
    BY <1>4, <2>1, NoMount, OverlayAssumption DEF Reboot, TypeOK, OverlayTypeOK
  <2>3. CommandInv' /\ MountInv' /\ AloneInv'
    BY <1>4, <2>1 DEF Reboot, CommandInv, MountInv, AloneInv
  <2>4. SoleInv'
    BY <1>4 DEF Reboot, SoleInv, Idle
  <2>5. GenerationInv'
    BY <1>4, <2>1, NoMount DEF Reboot, GenerationInv
  <2>6. QED
    BY <2>2, <2>3, <2>4, <2>5
<1>5. CASE NewRunner
  <2>1. 1 \in Turns /\ 0 \in 0..Len(Matrix)
    BY MatrixAssumption DEF Turns
  <2>2. runners' \in Runners /\ runners' > runners
    BY <1>0, <1>5, OverlayAssumption DEF NewRunner, Runners
  <2>3. TypeOK'
    BY <1>5, <2>1, <2>2 DEF NewRunner, TypeOK, OverlayTypeOK
  <2>4. CommandInv'
    BY <1>0, <1>5, <2>2 DEF NewRunner, CommandInv, Runners
  <2>5. MountInv' /\ GenerationInv' /\ AloneInv' /\ SoleInv'
    BY <1>5 DEF NewRunner, MountInv, GenerationInv, AloneInv, SoleInv
  <2>6. QED
    BY <2>3, <2>4, <2>5
<1>6. CASE DriverEnds
  <2>1. TypeOK'
    BY <1>6 DEF DriverEnds, TypeOK, OverlayTypeOK
  <2>2. CommandInv' /\ MountInv' /\ GenerationInv' /\ AloneInv' /\ SoleInv'
    BY <1>6 DEF DriverEnds, CommandInv, MountInv, GenerationInv, AloneInv, SoleInv, Intruder,
           Running, Cur
  <2>3. QED
    BY <2>1, <2>2
<1>7. QED
  BY <1>1, <1>2, <1>3, <1>4, <1>5, <1>6

-----------------------------------------------------------------------------
(* A tidy host: TidyHost names what no step changes.                       *)

LEMMA Tidy ==
    ASSUME TypeOK, TidyHost
    PROVE  stopMonitoring = TRUE /\ "kill" \notin faults /\ "down" \notin faults
BY DEF TypeOK, TidyHost, Fault

\* The only overlay command is the one the runner waits for.
LEMMA OverlayFrame ==
    ASSUME HostInv, QuietInv, OverlayStep
    PROVE  /\ OverlayProcess(runners)
           /\ pc \in {"overlay", "stop_overlay"}
           /\ opc[runners] \notin Idle
           /\ opc \in [Runners -> {"off", "up_umount", "up_wipe", "up_mount",
                                   "down_umount", "down_wipe", "done", "failed"}]
           /\ runners \in Runners
           /\ \A s \in Runners : s # runners => opc'[s] = opc[s]
           /\ UNCHANGED bind
<1>1. PICK r \in Runners : OverlayProcess(r)
  BY DEF OverlayStep
<1>2. opc[r] \notin Idle /\ UNCHANGED bind /\ \A s \in Runners : s # r => opc'[s] = opc[s]
  BY <1>1, ProcessFrame DEF HostInv
<1>3. r = runners /\ pc # "dead"
  BY <1>2 DEF QuietInv, Idle
<1>4. pc \in {"overlay", "stop_overlay"}
  BY <1>2, <1>3 DEF HostInv, CommandInv, Idle
<1>5. QED
  BY <1>1, <1>2, <1>3, <1>4 DEF HostInv, TypeOK, OverlayTypeOK

LEMMA Typed ==
    ASSUME HostInv
    PROVE  /\ runners \in Runners
           /\ opc \in [Runners -> {"off", "up_umount", "up_wipe", "up_mount",
                                   "down_umount", "down_wipe", "done", "failed"}]
BY DEF HostInv, TypeOK, OverlayTypeOK

\* A new runner begins without a command.
LEMMA NewIsOff ==
    ASSUME HostInv, NewRunner
    PROVE  runners' \in Runners /\ opc' = opc /\ opc'[runners'] = "off"
<1>1. runners' \in Runners /\ runners' > runners
  BY OverlayAssumption DEF NewRunner, HostInv, TypeOK, Runners
<1>2. QED
  BY <1>1 DEF NewRunner, overlayVars, HostInv, CommandInv

LEMMA QuietStep ==
    ASSUME HostInv, TidyHost, QuietInv, Next
    PROVE  QuietInv'
<1> USE DEF QuietInv
<1>1. CASE RunnerStep
  <2>1. /\ UNCHANGED <<runners, strays>> /\ pc' # "dead"
        /\ crossed' = crossed \/ crossed' = (crossed \/ Intruder)
        /\ opc' = opc \/ \E x : opc' = [opc EXCEPT ![runners] = x]
    BY <1>1 DEF RunnerStep, overlayVars, Raise, StartOverlay, OverlayUp, OverlayFailed, ComposeUp,
           PortConflict, ComposeFails, StartDriver, RunEnds, RunFails, LeaveRunning,
           StopMockCl, ToOverlayDown, ClientsDown, ClientsDownFails, OverlayDown, NextClient
  <2>2. ~Intruder
    BY DEF Intruder
  <2>3. ~crossed'
    BY <2>1, <2>2
  <2>4. \A r \in Runners : r # runners => opc'[r] = opc[r]
    BY <2>1, Typed
  <2>5. QED
    BY <2>1, <2>3, <2>4
<1>2. CASE OverlayStep /\ UNCHANGED runnerVars
  BY <1>2, OverlayFrame DEF runnerVars
<1>3. CASE HostStep /\ UNCHANGED runnerVars
  BY <1>3 DEF HostStep, Write, Exit, runnerVars
<1>4. CASE Kill \/ KillGroup \/ StrayEnds
  BY <1>4, Tidy DEF HostInv, Kill, KillGroup, StrayEnds, Fault
<1>5. CASE Reboot
  BY <1>5 DEF Reboot
<1>6. CASE NewRunner
  <2>1. opc[runners] = "off"
    BY <1>6, Typed DEF NewRunner, HostInv, CommandInv
  <2>2. QED
    BY <1>6, <2>1 DEF NewRunner, overlayVars
<1>7. CASE DriverEnds
  BY <1>7 DEF DriverEnds, overlayVars
<1>8. QED
  BY <1>1, <1>2, <1>3, <1>4, <1>5, <1>6, <1>7 DEF Next

LEMMA ClearedStep ==
    ASSUME HostInv, TidyHost, QuietInv, ClearedInv, Next
    PROVE  ClearedInv'
<1> USE DEF ClearedInv, Cleared, Running, Cur
<1>1. CASE RunnerStep
  <2> USE DEF overlayVars, Raise
  <2>1. CASE StartOverlay \/ OverlayUp \/ OverlayFailed
    BY <2>1 DEF StartOverlay, OverlayUp, OverlayFailed
  <2>2. CASE ComposeUp \/ PortConflict \/ ComposeFails \/ StartDriver
    <3>1. \A c \in Clients : c # Cur => bind'[c] = bind[c]
      <4>1. turn \in Turns
        BY DEF HostInv, TypeOK
      <4>2. Cur \in Clients
        BY <4>1, MatrixAssumption DEF Turns
      <4>3. QED
        BY <2>2, <4>2, StartedBind DEF ComposeUp, PortConflict, ComposeFails, StartDriver
    <3>2. QED
      BY <2>2, <3>1 DEF ComposeUp, PortConflict, ComposeFails, StartDriver
  <2>3. CASE RunEnds \/ RunFails \/ LeaveRunning \/ StopMockCl
    BY <2>3, Tidy DEF HostInv, RunEnds, RunFails, LeaveRunning, StopMockCl
  <2>4. CASE ClientsDown \/ ClientsDownFails
    BY <2>4, Tidy DEF HostInv, ClientsDown, ClientsDownFails, Fault
  <2>5. CASE OverlayDown \/ NextClient
    BY <2>5 DEF OverlayDown, NextClient
  <2>6. QED
    BY <1>1, <2>1, <2>2, <2>3, <2>4, <2>5 DEF RunnerStep
<1>2. CASE OverlayStep /\ UNCHANGED runnerVars
  BY <1>2, OverlayFrame DEF HostInv, runnerVars
<1>3. CASE HostStep /\ UNCHANGED runnerVars
  <2>1. \A c \in Clients : ~Running(c) => bind'[c] = bind[c]
    BY <1>3 DEF HostInv, TypeOK, OverlayTypeOK, HostStep, Write, Exit
  <2>2. QED
    BY <1>3, <2>1 DEF runnerVars
<1>4. CASE Kill \/ KillGroup \/ StrayEnds \/ Reboot
  BY <1>4, Tidy DEF HostInv, QuietInv, Kill, KillGroup, StrayEnds, Reboot, Fault
<1>5. CASE NewRunner \/ DriverEnds
  BY <1>5 DEF NewRunner, DriverEnds, overlayVars
<1>6. QED
  BY <1>1, <1>2, <1>3, <1>4, <1>5 DEF Next

LEMMA NoWipeStep ==
    ASSUME HostInv, TidyHost, QuietInv, ClearedInv, ~liveWiped, Next
    PROVE  ~liveWiped'
<1>1. CASE RunnerStep
  BY <1>1 DEF RunnerStep, overlayVars, StartOverlay, OverlayUp, OverlayFailed, ComposeUp,
         PortConflict, ComposeFails, StartDriver, RunEnds, RunFails, LeaveRunning,
         StopMockCl, ClientsDown, ClientsDownFails, OverlayDown, NextClient
<1>2. CASE OverlayStep /\ UNCHANGED runnerVars
  <2>1. \A c \in Clients : bind[c] = NoContainer
    BY <1>2, OverlayFrame DEF HostInv, ClearedInv, Cleared, Running
  <2>2. scratch # 0 => ~InUse(scratch)
    BY <2>1 DEF InUse, NoContainer, HostInv, TypeOK, OverlayTypeOK
  <2>3. QED
    BY <1>2, <2>2, OverlayFrame DEF OverlayProcess, NothingMounted, Umount, UmountBusy, LazyUmount,
           LazyFails, Wipe, WipeScratch, WipeFails, Mount, MountFails
<1>3. CASE HostStep
  BY <1>3 DEF HostStep, Write, Exit
<1>4. CASE Kill \/ KillGroup \/ StrayEnds \/ Reboot \/ NewRunner \/ DriverEnds
  BY <1>4 DEF Kill, KillGroup, StrayEnds, Reboot, NewRunner, DriverEnds, overlayVars
<1>5. QED
  BY <1>1, <1>2, <1>3, <1>4 DEF Next

LEMMA DriverStep ==
    ASSUME HostInv, TidyHost, QuietInv, DriverInv, Next
    PROVE  DriverInv'
<1> USE DEF DriverInv, Cleared
<1>1. CASE RunnerStep
  <2> USE DEF Raise
  <2>1. CASE StartOverlay \/ OverlayUp \/ OverlayFailed
    BY <2>1 DEF StartOverlay, OverlayUp, OverlayFailed
  <2>2. CASE ComposeUp \/ PortConflict \/ ComposeFails
    BY <2>2 DEF ComposeUp, PortConflict, ComposeFails
  <2>3. CASE StartDriver
    BY <2>3 DEF StartDriver
  <2>4. CASE RunEnds \/ RunFails
    BY <2>4 DEF RunEnds, RunFails
  <2>5. CASE LeaveRunning
    BY <2>5, Tidy DEF HostInv, LeaveRunning
  <2>6. CASE StopMockCl
    <3>1. turn # 0
      BY MatrixAssumption DEF HostInv, TypeOK, Turns
    <3>2. drivers' = {}
      BY <2>6, <3>1 DEF StopMockCl
    <3>3. QED
      BY <2>6, <3>2 DEF StopMockCl
  <2>7. CASE ClientsDown \/ ClientsDownFails
    BY <2>7 DEF ClientsDown, ClientsDownFails, ToOverlayDown
  <2>8. CASE OverlayDown \/ NextClient
    BY <2>8 DEF OverlayDown, NextClient
  <2>9. QED
    BY <1>1, <2>1, <2>2, <2>3, <2>4, <2>5, <2>6, <2>7, <2>8 DEF RunnerStep
<1>2. CASE UNCHANGED runnerVars
  BY <1>2 DEF runnerVars
<1>3. CASE Kill \/ KillGroup \/ StrayEnds \/ Reboot
  BY <1>3, Tidy DEF HostInv, QuietInv, Kill, KillGroup, StrayEnds, Reboot, Fault
<1>4. CASE NewRunner
  BY <1>4 DEF NewRunner
<1>5. CASE DriverEnds
  BY <1>5 DEF DriverEnds
<1>6. QED
  BY <1>1, <1>2, <1>3, <1>4, <1>5 DEF Next

LEMMA BlameStep ==
    ASSUME HostInv, TidyHost, QuietInv, ClearedInv, BlameInv, Next
    PROVE  BlameInv'
<1> USE DEF BlameInv
<1>1. CASE RunnerStep
  <2> USE DEF Raise, Blame
  <2>1. CASE StartOverlay \/ OverlayUp \/ OverlayFailed
    BY <2>1 DEF StartOverlay, OverlayUp, OverlayFailed
  <2>2. CASE ComposeUp \/ ComposeFails \/ StartDriver
    BY <2>2 DEF ComposeUp, ComposeFails, StartDriver
  <2>3. CASE PortConflict
    BY <2>3 DEF PortConflict, PortsTaken, ClearedInv, Cleared
  <2>4. CASE RunEnds \/ RunFails \/ LeaveRunning \/ StopMockCl
    BY <2>4 DEF RunEnds, RunFails, LeaveRunning, StopMockCl
  <2>5. CASE ClientsDown \/ ClientsDownFails \/ OverlayDown
    BY <2>5 DEF ClientsDown, ClientsDownFails, OverlayDown
  <2>6. CASE NextClient
    BY <2>6 DEF NextClient
  <2>7. QED
    BY <1>1, <2>1, <2>2, <2>3, <2>4, <2>5, <2>6 DEF RunnerStep
<1>2. CASE UNCHANGED runnerVars
  BY <1>2 DEF runnerVars
<1>3. CASE Kill \/ KillGroup \/ StrayEnds \/ Reboot \/ NewRunner \/ DriverEnds
  BY <1>3 DEF Kill, KillGroup, StrayEnds, Reboot, NewRunner, DriverEnds
<1>4. QED
  BY <1>1, <1>2, <1>3 DEF Next

LEMMA FreshStep ==
    ASSUME HostInv, TidyHost, QuietInv, ClearedInv, FreshInv, "wipe" \notin faults, Next
    PROVE  FreshInv'
<1> USE DEF FreshInv
<1>1. CASE RunnerStep
  <2> USE DEF Raise, overlayVars
  <2>0. runners \in Runners /\ runners' = runners
    BY <1>1, Typed DEF RunnerStep, StartOverlay, OverlayUp, OverlayFailed, ComposeUp, PortConflict,
           ComposeFails, StartDriver, RunEnds, RunFails, LeaveRunning, StopMockCl, ClientsDown,
           ClientsDownFails, OverlayDown, NextClient
  <2>1. CASE StartOverlay \/ OverlayUp \/ OverlayFailed
    BY <2>0, <2>1, Typed DEF StartOverlay, OverlayUp, OverlayFailed, HostInv, CommandInv
  <2>2. CASE ComposeUp
    BY <2>2 DEF ComposeUp
  <2>3. CASE PortConflict \/ ComposeFails \/ StartDriver
    BY <2>3 DEF PortConflict, ComposeFails, StartDriver
  <2>4. CASE RunEnds \/ RunFails \/ LeaveRunning \/ StopMockCl
    BY <2>4 DEF RunEnds, RunFails, LeaveRunning, StopMockCl
  <2>5. CASE ClientsDown \/ ClientsDownFails \/ OverlayDown
    BY <2>0, <2>5, Typed DEF ClientsDown, ClientsDownFails, ToOverlayDown, OverlayDown
  <2>6. CASE NextClient
    <3>1. opc[runners] = "off"
      BY <2>6 DEF NextClient, HostInv, CommandInv
    <3>2. QED
      BY <2>6, <3>1 DEF NextClient
  <2>7. QED
    BY <1>1, <2>1, <2>2, <2>3, <2>4, <2>5, <2>6 DEF RunnerStep
<1>2. CASE OverlayStep /\ UNCHANGED runnerVars
  <2> USE DEF runnerVars
  <2>0. /\ OverlayProcess(runners) /\ runners \in Runners
        /\ opc \in [Runners -> {"off", "up_umount", "up_wipe", "up_mount",
                                "down_umount", "down_wipe", "done", "failed"}]
        /\ pc \in {"overlay", "stop_overlay"}
    BY <1>2, OverlayFrame
  <2>1. UNCHANGED <<pc, runners>> /\ (pc = "overlay" => opc[runners] \in UpStates)
        /\ (pc = "stop_overlay" => opc[runners] \in DownStates)
    BY <1>2 DEF HostInv, CommandInv
  <2>2. ASSUME NEW cmd \in {"up_umount", "down_umount"},
               \/ NothingMounted(runners, cmd) \/ Umount(runners, cmd)
               \/ UmountBusy(runners, cmd) \/ LazyUmount(runners, cmd) \/ LazyFails(runners, cmd)
        PROVE  FreshInv'
    <3>1. opc'[runners] \notin {"done", "up_mount"}
      BY <2>0, <2>2 DEF NothingMounted, Umount, UmountBusy, LazyUmount, LazyFails, AfterUmount
    <3>2. QED
      BY <2>0, <2>1, <3>1
  <2>3. ASSUME NEW cmd \in {"up_wipe", "down_wipe"}, Wipe(runners, cmd) \/ WipeFails(runners, cmd)
        PROVE  FreshInv'
    <3>1. opc[runners] = cmd /\ opc'[runners] = AfterWipe(cmd) /\ scratch' = 0
      BY <2>0, <2>3 DEF Wipe, WipeFails, WipeScratch, Fault
    <3>2. QED
      BY <2>0, <2>1, <3>1 DEF AfterWipe, UpStates, DownStates
  <2>4. CASE Mount(runners)
    <3>1. Mounted(runners) /\ mounts' = <<gens'>>
      BY <2>0, <2>4, NewMount DEF QuietInv
    <3>2. scratch = 0 /\ gens \in Nat
      BY <3>1 DEF Mounted
    <3>3. layer'[gens'] = "clean"
      BY <3>1, <3>2 DEF Mounted, HostInv, GenerationInv
    <3>4. opc'[runners] = "done"
      BY <2>0, <3>1 DEF Mounted
    <3>5. QED
      BY <2>0, <2>1, <3>1, <3>3, <3>4
  <2>5. CASE MountFails(runners)
    <3>1. opc'[runners] = "failed"
      BY <2>0, <2>5 DEF MountFails
    <3>2. QED
      BY <2>0, <2>1, <3>1
  <2>6. QED
    BY <2>0, <2>2, <2>3, <2>4, <2>5 DEF OverlayProcess
<1>3. CASE HostStep /\ UNCHANGED runnerVars
  <2>1. CASE \E c \in Clients : Exit(c)
    BY <1>3, <2>1 DEF Exit, runnerVars
  <2>2. CASE \E c \in Clients : Write(c)
    <3>1. pc \notin {"overlay", "compose"}
      BY <2>2 DEF Write, ClearedInv, Cleared, Running, NoContainer
    <3>2. opc[runners] # "up_mount"
      BY <3>1, Typed DEF HostInv, CommandInv, DownStates, QuietInv
    <3>3. QED
      BY <1>3, <2>2, <3>1, <3>2 DEF Write, runnerVars
  <2>3. QED
    BY <1>3, <2>1, <2>2 DEF HostStep
<1>4. CASE Kill \/ KillGroup \/ StrayEnds \/ Reboot
  BY <1>4, Tidy, Typed DEF HostInv, QuietInv, Kill, KillGroup, StrayEnds, Reboot, Fault
<1>5. CASE NewRunner
  BY <1>5, NewIsOff DEF NewRunner
<1>6. CASE DriverEnds
  BY <1>6 DEF DriverEnds, overlayVars
<1>7. QED
  BY <1>1, <1>2, <1>3, <1>4, <1>5, <1>6 DEF Next

LEMMA GoneStep ==
    ASSUME HostInv, TidyHost, QuietInv, GoneInv, "wipe" \notin faults, "lazy" \notin faults, Next
    PROVE  GoneInv'
<1> USE DEF GoneInv
<1>1. CASE RunnerStep
  <2> USE DEF Raise, overlayVars
  <2>0. runners \in Runners /\ runners' = runners
    BY <1>1, Typed DEF RunnerStep, StartOverlay, OverlayUp, OverlayFailed, ComposeUp, PortConflict,
           ComposeFails, StartDriver, RunEnds, RunFails, LeaveRunning, StopMockCl, ClientsDown,
           ClientsDownFails, OverlayDown, NextClient
  <2>1. CASE StartOverlay \/ OverlayUp \/ OverlayFailed
    BY <2>1 DEF StartOverlay, OverlayUp, OverlayFailed
  <2>2. CASE ComposeUp \/ PortConflict \/ ComposeFails \/ StartDriver
    BY <2>2 DEF ComposeUp, PortConflict, ComposeFails, StartDriver
  <2>3. CASE RunEnds \/ RunFails \/ StopMockCl
    BY <2>3 DEF RunEnds, RunFails, StopMockCl
  <2>4. CASE LeaveRunning
    BY <2>4, Tidy DEF HostInv, LeaveRunning
  <2>5. CASE ClientsDown \/ ClientsDownFails
    BY <2>0, <2>5, Typed DEF ClientsDown, ClientsDownFails, ToOverlayDown, HostInv, GenerationInv
  <2>6. CASE OverlayDown \/ NextClient
    BY <2>0, <2>6, Typed DEF OverlayDown, NextClient
  <2>7. QED
    BY <1>1, <2>1, <2>2, <2>3, <2>4, <2>5, <2>6 DEF RunnerStep
<1>2. CASE OverlayStep /\ UNCHANGED runnerVars
  <2> USE DEF runnerVars
  <2>0. /\ OverlayProcess(runners) /\ runners \in Runners /\ ~crossed
        /\ opc \in [Runners -> {"off", "up_umount", "up_wipe", "up_mount",
                                "down_umount", "down_wipe", "done", "failed"}]
        /\ pc \in {"overlay", "stop_overlay"} /\ UNCHANGED <<pc, runners>>
    BY <1>2, OverlayFrame DEF QuietInv
  <2>1. pc = "stop_overlay" => opc[runners] \in DownStates
    BY DEF HostInv, CommandInv
  <2>2. ASSUME NEW cmd \in {"up_umount", "down_umount"},
               Umount(runners, cmd) \/ LazyUmount(runners, cmd)
        PROVE  GoneInv'
    <3>1. mounts' = <<>>
      BY <2>0, <2>2, Visible DEF Umount, LazyUmount, IsMounted
    <3>2. opc'[runners] \in {"up_wipe", "down_wipe"}
      BY <2>0, <2>2, <3>1 DEF Umount, LazyUmount, AfterUmount
    <3>3. QED
      BY <2>0, <3>2
  <2>3. ASSUME NEW cmd \in {"up_umount", "down_umount"},
               NothingMounted(runners, cmd) \/ UmountBusy(runners, cmd) \/ LazyFails(runners, cmd)
        PROVE  GoneInv'
    <3>1. opc'[runners] \notin {"done", "failed"}
      BY <2>0, <2>3 DEF NothingMounted, UmountBusy, LazyFails, AfterUmount, Fault
    <3>2. QED
      BY <2>0, <3>1
  <2>4. ASSUME NEW cmd \in {"up_wipe", "down_wipe"}, Wipe(runners, cmd) \/ WipeFails(runners, cmd)
        PROVE  GoneInv'
    <3>1. mounts = <<>> /\ mounts' = <<>> /\ scratch' = 0
      BY <2>0, <2>4 DEF Wipe, WipeFails, WipeScratch, Fault, HostInv, MountInv
    <3>2. opc'[runners] \in {"up_mount", "done"}
      BY <2>0, <2>4 DEF Wipe, WipeFails, AfterWipe
    <3>3. QED
      BY <2>0, <3>1, <3>2
  <2>5. CASE Mount(runners) \/ MountFails(runners)
    BY <2>0, <2>1, <2>5 DEF Mount, MountFails, DownStates
  <2>6. QED
    BY <2>0, <2>2, <2>3, <2>4, <2>5 DEF OverlayProcess
<1>3. CASE HostStep /\ UNCHANGED runnerVars
  BY <1>3 DEF HostStep, Write, Exit, runnerVars
<1>4. CASE Kill \/ KillGroup \/ StrayEnds \/ Reboot
  BY <1>4, Tidy, Typed DEF HostInv, QuietInv, Kill, KillGroup, StrayEnds, Reboot, Fault
<1>5. CASE NewRunner \/ DriverEnds
  BY <1>5 DEF NewRunner, DriverEnds, overlayVars
<1>6. QED
  BY <1>1, <1>2, <1>3, <1>4, <1>5 DEF Next

-----------------------------------------------------------------------------
LEMMA Initially == Init => IInv
<1> SUFFICES ASSUME Init PROVE IInv
  OBVIOUS
<1> USE DEF Init, OverlayInit
<1>1. /\ setting \in [faults : SUBSET HostFaults,
                      stops : (SUBSET BOOLEAN) \ {{}}, mock : BOOLEAN]
      /\ faults = setting.faults
  BY MatrixAssumption
<1>2. faults \subseteq HostFaults
  BY <1>1
<1>3. Len(Matrix) \in Nat \ {0}
  BY MatrixAssumption
<1>4. turn \in Turns /\ mockClProc \in 0..Len(Matrix) /\ runners \in Runners
  BY <1>3, OverlayAssumption DEF Turns, Runners
<1>5. /\ bind \in [Clients -> -1..MaxGens] /\ \A c \in Clients : bind[c] <= gens
      /\ gens \in 0..MaxGens /\ scratch \in 0..gens /\ attempt \in [Runners -> 0..Attempts]
      /\ scratch \in 0..MaxGens
  BY OverlayAssumption DEF NoContainer
<1>6. OverlayTypeOK
  BY <1>2, <1>5, NoMount DEF OverlayTypeOK
<1>7. TypeOK
  BY <1>4, <1>6 DEF TypeOK
<1>8. CommandInv /\ MountInv /\ AloneInv /\ SoleInv
  BY <1>4 DEF CommandInv, MountInv, AloneInv, SoleInv, Idle
<1>9. GenerationInv
  BY <1>5, NoMount DEF GenerationInv
<1>10. QuietInv /\ ClearedInv /\ ~liveWiped /\ DriverInv /\ BlameInv /\ FreshInv /\ GoneInv
  BY <1>4 DEF QuietInv, ClearedInv, Running, DriverInv, Cleared, BlameInv, FreshInv, GoneInv
<1>11. QED
  BY <1>7, <1>8, <1>9, <1>10 DEF IInv, HostInv

LEMMA Frame ==
    ASSUME UNCHANGED vars, HostInv
    PROVE  HostInv'
BY DEF vars, overlayVars, runnerVars, HostInv, TypeOK, OverlayTypeOK, CommandInv, MountInv,
       GenerationInv, AloneInv, SoleInv, Intruder, Running, Cur

LEMMA Inductive == IInv /\ [Next]_vars => IInv'
<1> SUFFICES ASSUME IInv, [Next]_vars PROVE IInv'
  OBVIOUS
<1>1. CASE Next
  <2>1. UNCHANGED <<faults, setting>>
    BY <1>1 DEF Next
  <2>2. (TidyHost' <=> TidyHost) /\ \A f : Fault(f)' <=> Fault(f)
    BY <2>1 DEF TidyHost, Fault
  <2>3. HostInv'
    BY <1>1, <2>1, OverlayKeepsHost, ClientsKeepHost, RunnerKeepsHost, OutsideKeepsHost
       DEF IInv, Next
  <2>4. ASSUME TidyHost PROVE QuietInv' /\ ClearedInv' /\ ~liveWiped' /\ DriverInv' /\ BlameInv'
    BY <1>1, <2>4, QuietStep, ClearedStep, NoWipeStep, DriverStep, BlameStep DEF IInv
  <2>5. ASSUME TidyHost, ~Fault("wipe") PROVE FreshInv'
    BY <1>1, <2>5, FreshStep DEF IInv, Fault
  <2>6. ASSUME TidyHost, ~Fault("wipe"), ~Fault("lazy") PROVE GoneInv'
    BY <1>1, <2>6, GoneStep DEF IInv, Fault
  <2>7. QED
    BY <2>2, <2>3, <2>4, <2>5, <2>6 DEF IInv
<1>2. CASE UNCHANGED vars
  <2>1. HostInv'
    BY <1>2, Frame DEF IInv
  <2>2. QED
    BY <1>2, <2>1 DEF IInv, vars, overlayVars, runnerVars, TidyHost, Fault, QuietInv, ClearedInv, Cleared,
           Running, Cur, DriverInv, BlameInv, FreshInv, GoneInv
<1>3. QED
  BY <1>1, <1>2

-----------------------------------------------------------------------------
\* The inductive invariant holds in every reachable state.
THEOREM Invariance == Spec => []IInv
BY Initially, Inductive, PTL DEF Spec

\* Every reachable state of the runner, the overlay command and the host has
\* the types the code keeps.
THEOREM TypeCorrect == Spec => []TypeOK
<1>1. IInv => TypeOK
  BY DEF IInv, HostInv
<1>2. QED
  BY <1>1, Invariance, PTL

\* overlay.py:169-172: however runs fail, are killed or reboot, and whatever
\* umount does, a second overlay is never mounted over the first, as long as no
\* runner is begun beside a command that outlived a killed one.
THEOREM NeverStacked == Spec => []NoStackedMounts
<1>1. IInv => NoStackedMounts
  <2>1. SUFFICES ASSUME IInv, ~crossed PROVE Len(mounts) <= 1
    BY DEF NoStackedMounts
  <2>2. mounts = <<>> \/ Len(mounts) = 1
    BY <2>1, Visible DEF IInv
  <2>3. QED
    BY <2>2
<1>2. QED
  BY <1>1, Invariance, PTL

\* Compose publishes the same ports for every client and checks its exit code:
\* on any host, no client is measured while another is up, with the same
\* exception.
THEOREM Attributed == Spec => []AttributedToItsClient
<1>1. IInv => AttributedToItsClient
  BY DEF IInv, HostInv, AloneInv, AttributedToItsClient
<1>2. QED
  BY <1>1, Invariance, PTL

\* On a tidy host no layer is wiped under a container.
THEOREM LayersAreSafe == Spec => []NoLiveWipe
<1>1. IInv => NoLiveWipe
  BY DEF IInv, NoLiveWipe
<1>2. QED
  BY <1>1, Invariance, PTL

\* StopMockCl knows the driver of the turn it ends: on a tidy host no other
\* one drives the client that is measured.
THEOREM DriverIsCurrent == Spec => []DriverServesCurrent
<1>1. IInv => DriverServesCurrent
  BY DEF IInv, DriverInv, Cleared, DriverServesCurrent
<1>2. QED
  BY <1>1, Invariance, PTL

\* architecture.md:7, on a tidy host: a client is reported failed only when the
\* host failed in its turn.
THEOREM FailuresAreOwn == Spec => []OnlyOwnFaults
<1>1. IInv => OnlyOwnFaults
  BY DEF IInv, BlameInv, OnlyOwnFaults
<1>2. QED
  BY <1>1, Invariance, PTL

\* README.md:352: with --stop-monitoring, and a host where rm -rf and the lazy
\* umount work, no container, mount, scratch data or driver outlives the matrix.
THEOREM NothingLeft == Spec => []StoppedLeavesNothing
<1>1. IInv => StoppedLeavesNothing
  BY DEF IInv, ClearedInv, Cleared, DriverInv, GoneInv, IsMounted, StoppedLeavesNothing
<1>2. QED
  BY <1>1, Invariance, PTL

-----------------------------------------------------------------------------
(* The tenants of the snapshot (TenantPromise), where rm -rf works on a    *)
(* tidy host.                                                              *)

TenantHost == OverlayEnabled /\ TidyHost /\ ~Fault("wipe")

Tenant(c) == [client |-> c, layer |-> bind[c], data |-> layer[bind[c]]]

\* What a step does to the tenants it need not look at.
LEMMA NobodyThere ==
    ASSUME \A c \in Clients : ~Running(c)
    PROVE  Tenants = {}
BY DEF Tenants

LEMMA NobodyCleared ==
    ASSUME ClearedInv, pc \in Cleared
    PROVE  Tenants = {}
BY DEF ClearedInv, Tenants

LEMMA SameTenants ==
    ASSUME UNCHANGED <<bind, layer>>
    PROVE  Tenants' = Tenants
BY DEF Tenants, Running

LEMMA OneTenant ==
    ASSUME ClearedInv, NEW c \in Clients, Running(c)
    PROVE  Tenants = {Tenant(c)} /\ c = Cur /\ pc \notin Cleared
<1>1. \A d \in Clients : Running(d) => d = c
  BY DEF ClearedInv
<1>2. QED
  BY <1>1 DEF Tenants, Tenant, ClearedInv

LEMMA LayersCounted ==
    ASSUME HostInv
    PROVE  gens \in Nat /\ Layers \in Int /\ (Pending => Layers + 1 = gens)
BY DEF HostInv, TypeOK, OverlayTypeOK, Layers

\* The steps that leave the tenants alone, and may set a layer aside.
LEMMA Unattended ==
    ASSUME HostInv, Tenants = {}, Tenants' = {},
           Layers' = Layers \/ (Pending /\ Layers' = gens)
    PROVE  [Tenancy!Next]_<<Tenants, Layers>>
BY LayersCounted DEF Tenancy!Next, Tenancy!SetAside

LEMMA NobodyClearedNext ==
    ASSUME ClearedInv', pc' \in Cleared
    PROVE  Tenants' = {}
BY DEF ClearedInv, Tenants

LEMMA OneTenantNext ==
    ASSUME ClearedInv', NEW c \in Clients, Running(c)'
    PROVE  Tenants' = {Tenant(c)'} /\ c = Cur' /\ pc' \notin Cleared
<1>1. \A d \in Clients : Running(d)' => d = c
  BY DEF ClearedInv
<1>2. QED
  BY <1>1 DEF Tenants, Tenant, ClearedInv
\* Where nothing the tenants have, or the count of the layers, changes.
LEMMA Undisturbed ==
    ASSUME UNCHANGED <<bind, layer, gens>>, Pending' <=> Pending
    PROVE  [Tenancy!Next]_<<Tenants, Layers>>
<1>1. Layers' = Layers
  BY DEF Layers
<1>2. QED
  BY <1>1, SameTenants

LEMMA TenancyStep ==
    ASSUME TenantHost, HostInv, QuietInv, ClearedInv, FreshInv, ClearedInv', Next
    PROVE  [Tenancy!Next]_<<Tenants, Layers>>
<1>0. /\ stopMonitoring = TRUE /\ "kill" \notin faults /\ "down" \notin faults
      /\ "wipe" \notin faults /\ OverlayEnabled
  BY Tidy DEF TenantHost, HostInv, Fault
<1>1. CASE RunnerStep
  <2> USE DEF Raise, overlayVars
  <2>0. runners \in Runners /\ opc \in [Runners -> {"off", "up_umount", "up_wipe", "up_mount",
                                   "down_umount", "down_wipe", "done", "failed"}]
    BY Typed
  <2>1. CASE StartOverlay \/ OverlayUp
    BY <1>0, <2>0, <2>1, Undisturbed DEF StartOverlay, OverlayUp, Pending
  <2>2. CASE OverlayFailed \/ OverlayDown \/ NextClient
    BY <2>2, Undisturbed DEF OverlayFailed, OverlayDown, NextClient, Pending
  <2>3. CASE ComposeUp
    <3>1. Cur \in Clients /\ bind \in [Clients -> -1..MaxGens]
      BY MatrixAssumption DEF Cur, HostInv, TypeOK, OverlayTypeOK, Turns
    <3>2. Tenants = {} /\ Pending /\ pc = "compose" /\ ~Running(Cur)
      BY <2>3, <3>1, NobodyCleared DEF ComposeUp, ClearedInv, Cleared, Pending
    <3>3. mounts = <<gens>> /\ layer[gens] = "clean"
      BY <1>0, <3>2 DEF FreshInv
    <3>4. Last(mounts) = gens /\ layer[gens] = "clean"
      BY <3>3 DEF Last
    <3>5. bind' = [bind EXCEPT ![Cur] = gens] /\ layer' = layer /\ gens' = gens
      <4>1. mounts # <<>>
        BY <1>0, <3>2 DEF HostInv, MountInv, QuietInv
      <4>2. QED
        BY <1>0, <2>3, <3>2, <3>4, <4>1 DEF ComposeUp, Started, IsMounted
    <3>6. Tenants' = {[client |-> Cur, layer |-> gens, data |-> "clean"]}
      <4>1. Running(Cur)' /\ Cur' = Cur /\ Tenant(Cur)' = [client |-> Cur, layer |-> gens, data |-> "clean"]
        BY <2>3, <3>1, <3>4, <3>5, LayersCounted DEF Running, NoContainer, Cur, ComposeUp, Tenant
      <4>2. \A d \in Clients : Running(d)' => d = Cur
        BY <4>1 DEF ClearedInv
      <4>3. QED
        BY <3>1, <4>1, <4>2 DEF Tenants, Tenant
    <3>7. Layers' = gens
      BY <2>3, <3>5 DEF ComposeUp, Layers, Pending
    <3>8. Tenancy!Arrive
      BY <3>1, <3>2, <3>6, <3>7, LayersCounted DEF Tenancy!Arrive
    <3>9. QED
      BY <3>8 DEF Tenancy!Next
  <2>4. CASE PortConflict \/ ComposeFails
    <3>1. pc = "compose" /\ pc' = "stop_driver" /\ UNCHANGED <<bind, layer, gens>>
      BY <2>4 DEF PortConflict, ComposeFails
    <3>2. Tenants = {} /\ Tenants' = {}
      BY <3>1, NobodyCleared, SameTenants DEF Cleared
    <3>3. Pending /\ Layers' = gens
      BY <3>1 DEF Pending, Layers
    <3>4. QED
      BY <3>2, <3>3, Unattended
  <2>5. CASE StartDriver \/ RunEnds \/ RunFails \/ LeaveRunning \/ StopMockCl
    BY <2>5, Undisturbed DEF StartDriver, RunEnds, RunFails, LeaveRunning, StopMockCl, Pending
  <2>6. CASE ClientsDown \/ ClientsDownFails
    <3>1. /\ ClientsDown /\ pc = "stop_clients" /\ pc' = "stop_overlay"
          /\ UNCHANGED <<layer, gens>>
      BY <1>0, <2>6 DEF ClientsDown, ClientsDownFails, Fault, ToOverlayDown
    <3>2. Tenants' = {}
      BY <3>1, NobodyClearedNext DEF Cleared
    <3>3. Layers' = Layers
      BY <3>1 DEF ClientsDown, ToOverlayDown, Layers, Pending
    <3>4. QED
      BY <3>2, <3>3 DEF Tenancy!Next, Tenancy!Leave
  <2>7. QED
    BY <1>1, <2>1, <2>2, <2>3, <2>4, <2>5, <2>6 DEF RunnerStep
<1>2. CASE OverlayStep /\ UNCHANGED runnerVars
  <2> USE DEF runnerVars
  <2>1. pc \in {"overlay", "stop_overlay"} /\ pc' = pc
    BY <1>2, OverlayFrame DEF HostInv
  <2>2. Tenants = {} /\ Tenants' = {}
    BY <2>1, NobodyCleared, NobodyClearedNext DEF Cleared
  <2>3. Layers' = Layers
    <3>0. /\ OverlayProcess(runners) /\ runners \in Runners /\ runners' = runners
          /\ opc \in [Runners -> {"off", "up_umount", "up_wipe", "up_mount",
                                  "down_umount", "down_wipe", "done", "failed"}]
          /\ opc[runners] \notin Idle
          /\ pc = "overlay" => opc[runners] \in UpStates
          /\ pc = "stop_overlay" => opc[runners] \in DownStates
      BY <1>2, OverlayFrame DEF HostInv, CommandInv
    <3>1. CASE Mount(runners)
      <4>1. Mounted(runners) /\ pc = "overlay" /\ opc'[runners] = "done"
        BY <2>1, <3>0, <3>1, NewMount DEF DownStates, Mounted
      <4>2. QED
        BY <2>1, <3>0, <4>1 DEF Mounted, Layers, Pending, Idle
    <3>2. CASE ~Mount(runners)
      <4>1. gens' = gens /\ (pc = "overlay" => opc[runners] # "done" /\ opc'[runners] # "done")
        BY <2>1, <3>0, <3>2 DEF OverlayProcess, NothingMounted, Umount, UmountBusy, LazyUmount,
             LazyFails, AfterUmount, Wipe, WipeFails, AfterWipe, MountFails, UpStates, Idle
      <4>2. QED
        BY <2>1, <3>0, <4>1 DEF Layers, Pending
    <3>3. QED
      BY <3>1, <3>2
  <2>4. QED
    BY <2>2, <2>3
<1>3. CASE HostStep /\ UNCHANGED runnerVars
  <2>1. Layers' = Layers
    BY <1>3 DEF HostStep, Write, Exit, Layers, Pending, runnerVars
  <2>2. ASSUME NEW c \in Clients, Write(c)
        PROVE  Tenancy!Write
    <3>1. Running(c) /\ Tenants = {Tenant(c)} /\ Tenant(c).data = "clean"
      BY <2>2, OneTenant DEF Write, Running, NoContainer, Tenant
    <3>2. Running(c)' /\ Tenants' = {Tenant(c)'}
      BY <2>2, <3>1, OneTenantNext DEF Write, Running
    <3>3. Tenant(c)' = [Tenant(c) EXCEPT !.data = "dirty"]
      BY <2>2 DEF Write, Tenant, HostInv, TypeOK, OverlayTypeOK
    <3>4. QED
      BY <2>1, <3>1, <3>2, <3>3 DEF Tenancy!Write
  <2>3. ASSUME NEW c \in Clients, Exit(c)
        PROVE  Tenancy!Leave
    <3>1. Running(c) /\ Tenants = {Tenant(c)} /\ \A d \in Clients : Running(d) => d = c
      BY <2>3, OneTenant DEF Exit, ClearedInv
    <3>2. \A d \in Clients : ~Running(d)'
      BY <2>3, <3>1 DEF Exit, Running, HostInv, TypeOK, OverlayTypeOK
    <3>3. QED
      BY <2>1, <3>1, <3>2 DEF Tenancy!Leave, Tenants
  <2>4. QED
    BY <1>3, <2>2, <2>3 DEF HostStep, Tenancy!Next
<1>4. CASE Kill \/ KillGroup \/ StrayEnds
  BY <1>0, <1>4 DEF Kill, KillGroup, StrayEnds, QuietInv, Fault
<1>5. CASE Reboot
  <2>1. Tenants' = {}
    BY <1>5, NobodyClearedNext DEF Reboot, Cleared
  <2>2. Layers' = gens
    BY <1>5 DEF Reboot, Layers, Pending
  <2>3. CASE Pending
    <3>1. Tenants = {}
      BY <2>3, NobodyCleared DEF Pending, Cleared
    <3>2. QED
      BY <2>1, <2>2, <2>3, <3>1, Unattended
  <2>4. CASE ~Pending
    BY <2>1, <2>2, <2>4 DEF Layers, Tenancy!Next, Tenancy!Leave
  <2>5. QED
    BY <2>3, <2>4
<1>6. CASE NewRunner \/ DriverEnds
  BY <1>6, Undisturbed DEF NewRunner, DriverEnds, overlayVars, Pending
<1>7. QED
  BY <1>1, <1>2, <1>3, <1>4, <1>5, <1>6 DEF Next

LEMMA TenancyInit == ASSUME Init PROVE Tenancy!Init
<1>1. Tenants = {}
  BY NobodyThere DEF Init, OverlayInit, Running
<1>2. Layers = 0
  BY DEF Init, OverlayInit, Layers, Pending
<1>3. QED
  BY <1>1, <1>2 DEF Tenancy!Init

\* overlay.py:31-33: with rm -rf at work on a tidy host, every step of the
\* matrix, of the overlay command, of a client and of a reboot is a step of the
\* tenants or leaves them alone, from any state the matrix can be in.
THEOREM TenanciesAreKept == Spec => KeepsTenancies
<1>1. IInv /\ IInv' /\ [Next]_vars =>
        (OverlayEnabled /\ TidyHost /\ ~Fault("wipe") => [Tenancy!Next]_<<Tenants, Layers>>)
  <2>1. SUFFICES ASSUME IInv, IInv', [Next]_vars, TenantHost
                 PROVE  [Tenancy!Next]_<<Tenants, Layers>>
    BY DEF TenantHost
  <2>2. CASE Next
    <3>1. TenantHost'
      BY <2>1, <2>2 DEF Next, TenantHost, TidyHost, Fault
    <3>2. HostInv /\ QuietInv /\ ClearedInv /\ FreshInv /\ ClearedInv'
      BY <2>1, <3>1 DEF IInv, TenantHost
    <3>3. QED
      BY <2>1, <2>2, <3>2, TenancyStep
  <2>3. CASE UNCHANGED vars
    BY <2>3, Undisturbed DEF vars, overlayVars, runnerVars, Pending
  <2>4. QED
    BY <2>1, <2>2, <2>3
<1>2. QED
  BY <1>1, Invariance, PTL DEF Spec, KeepsTenancies

\* And so a matrix on such a host implements the abstract specification.
THEOREM ImplementsTenancy ==
    Spec /\ OverlayEnabled /\ TidyHost /\ ~Fault("wipe") => Tenancy!Spec
<1>1. Init => Tenancy!Init
  BY TenancyInit
<1>2. TenantHost /\ [Next]_vars => TenantHost'
  BY DEF Next, vars, TenantHost, TidyHost, Fault
<1>3. TenantHost <=> OverlayEnabled /\ TidyHost /\ ~Fault("wipe")
  BY DEF TenantHost
<1>4. TenantHost /\ [TenantHost => [Tenancy!Next]_<<Tenants, Layers>>]_vars
        => [Tenancy!Next]_(Tenancy!tvars)
  <2>1. UNCHANGED vars => UNCHANGED <<Tenants, Layers>>
    BY DEF vars, overlayVars, runnerVars, Tenants, Running, Layers, Pending
  <2>2. QED
    BY <2>1 DEF Tenancy!tvars
<1>5. Spec => [][TenantHost => [Tenancy!Next]_<<Tenants, Layers>>]_vars
  BY <1>3, TenanciesAreKept, PTL DEF KeepsTenancies
<1>6. QED
  BY <1>1, <1>2, <1>3, <1>4, <1>5, PTL DEF Spec, Tenancy!Spec
=============================================================================
