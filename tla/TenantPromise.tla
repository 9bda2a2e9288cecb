---------------------------- MODULE TenantPromise ---------------------------
(***************************************************************************)
(* What the client matrix promises about the snapshot, without mounts,     *)
(* umounts, rm -rf or compose: clients have it one at a time, each on a    *)
(* layer of its own that nobody had before and nothing is in, and nobody   *)
(* but the client that has a layer touches what is in it.                  *)
(***************************************************************************)
EXTENDS Naturals

CONSTANT Client

VARIABLES
    tenants,   \* who has the snapshot, on which layer, and what is in it
    layers     \* the layers had or set aside so far are 1..layers

tvars == <<tenants, layers>>

Init == tenants = {} /\ layers = 0

Arrive ==
    /\ tenants = {}
    /\ layers' = layers + 1
    /\ \E c \in Client : tenants' = {[client |-> c, layer |-> layers', data |-> "clean"]}

\* A layer is made and nobody comes.
SetAside ==
    /\ tenants = {}
    /\ layers' = layers + 1
    /\ UNCHANGED tenants

Write ==
    /\ \E t \in tenants : t.data = "clean" /\ tenants' = {[t EXCEPT !.data = "dirty"]}
    /\ UNCHANGED layers

Leave ==
    /\ tenants # {}
    /\ tenants' = {}
    /\ UNCHANGED layers

Next == Arrive \/ SetAside \/ Write \/ Leave

Spec == Init /\ [][Next]_tvars
=============================================================================
