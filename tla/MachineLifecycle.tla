-------------------------- MODULE MachineLifecycle --------------------------
(***************************************************************************)
(* What the operator promises about one Machine and the remote clusters,   *)
(* without caches, reconciles or retries: a Machine gets one placement,    *)
(* everything made for it is made there, disks before the VM that uses     *)
(* them, nothing is taken away from it unless it is being deleted, and it  *)
(* does not disappear before its VM has and its disks are deleted.         *)
(*                                                                         *)
(* Deleted disks leave at once or later.  A Machine that is created again *)
(* meanwhile may be lent those of its earlier life, and loses them.        *)
(***************************************************************************)
EXTENDS Naturals

CONSTANTS Machines, Clusters, None

VARIABLES
    phase,      \* phase[m] \in {"absent", "live", "deleting"}
    placement,  \* placement[m]: the cluster m is placed in, or None
    resources,  \* resources[m]: the <<kind, cluster>> pairs that exist for m
    leaving,    \* leaving[m]: the clusters where deleted disks of m remain
    lent        \* lent[m]: the clusters where m was last lent such disks

vars == <<phase, placement, resources, leaving, lent>>

Kinds == {"vm", "disks"}

\* Resources that exist from the start belong to Machines that exist, and
\* each of these has them in one cluster.
Init ==
    /\ phase \in [Machines -> {"absent", "live"}]
    /\ placement = [m \in Machines |-> None]
    /\ \A m \in Machines :
          \/ resources[m] = {}
          \/ phase[m] = "live" /\ \E c \in Clusters : resources[m] = Kinds \X {c}
    /\ leaving = [m \in Machines |-> {}]
    /\ lent = [m \in Machines |-> {}]

Create(m) ==
    /\ phase[m] = "absent"
    /\ phase' = [phase EXCEPT ![m] = "live"]
    /\ \E c \in Clusters \cup {None} :
          placement' = [placement EXCEPT ![m] = c]
    /\ UNCHANGED <<resources, leaving, lent>>

\* A placement is chosen once, and never away from what already exists.
Place(m, c) ==
    /\ phase[m] # "absent"
    /\ placement[m] = None
    /\ \A k \in Kinds, d \in Clusters : <<k, d>> \in resources[m] => d = c
    /\ placement' = [placement EXCEPT ![m] = c]
    /\ UNCHANGED <<phase, resources, leaving, lent>>

ProvideDisks(m) ==
    /\ phase[m] # "absent"
    /\ placement[m] # None
    /\ placement[m] \notin leaving[m]
    /\ resources' = [resources EXCEPT ![m] = @ \cup {<<"disks", placement[m]>>}]
    /\ lent' = [lent EXCEPT ![m] = @ \ {placement[m]}]
    /\ UNCHANGED <<phase, placement, leaving>>

Lend(m) ==
    /\ phase[m] # "absent"
    /\ placement[m] # None
    /\ placement[m] \in leaving[m]
    /\ lent' = [lent EXCEPT ![m] = @ \cup {placement[m]}]
    /\ UNCHANGED <<phase, placement, resources, leaving>>

ProvideVM(m) ==
    /\ phase[m] # "absent"
    /\ placement[m] # None
    /\ <<"disks", placement[m]>> \in resources[m] \/ placement[m] \in lent[m]
    /\ resources' = [resources EXCEPT ![m] = @ \cup {<<"vm", placement[m]>>}]
    /\ UNCHANGED <<phase, placement, leaving, lent>>

Delete(m) ==
    /\ phase[m] = "live"
    /\ phase' = [phase EXCEPT ![m] = "deleting"]
    /\ UNCHANGED <<placement, resources, leaving, lent>>

ReclaimVM(m, c) ==
    /\ phase[m] = "deleting"
    /\ resources' = [resources EXCEPT ![m] = @ \ {<<"vm", c>>}]
    /\ UNCHANGED <<phase, placement, leaving, lent>>

ReclaimDisks(m, c) ==
    /\ phase[m] = "deleting"
    /\ <<"disks", c>> \in resources[m]
    /\ resources' = [resources EXCEPT ![m] = @ \ {<<"disks", c>>}]
    /\ leaving' \in {leaving, [leaving EXCEPT ![m] = @ \cup {c}]}
    /\ UNCHANGED <<phase, placement, lent>>

Leave(m, c) ==
    /\ leaving' = [leaving EXCEPT ![m] = @ \ {c}]
    /\ UNCHANGED <<phase, placement, resources, lent>>

Remove(m) ==
    /\ phase[m] # "absent"
    /\ resources[m] = {}
    /\ phase' = [phase EXCEPT ![m] = "absent"]
    /\ placement' = [placement EXCEPT ![m] = None]
    /\ UNCHANGED <<resources, leaving, lent>>

Next ==
    \E m \in Machines :
        \/ Create(m)
        \/ ProvideDisks(m)
        \/ Lend(m)
        \/ ProvideVM(m)
        \/ Delete(m)
        \/ Remove(m)
        \/ \E c \in Clusters :
              Place(m, c) \/ ReclaimVM(m, c) \/ ReclaimDisks(m, c) \/ Leave(m, c)

Spec == Init /\ [][Next]_vars
=============================================================================
