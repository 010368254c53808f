--------------------------- MODULE ClientManager ---------------------------
(***************************************************************************)
(* The cache of clients for the remote clusters:                           *)
(* pkg/clients/kubevirt_client_manager.go.                                 *)
(*                                                                         *)
(* Reconciles of several Machines call it at the same time.  Clients are   *)
(* built from a kubeconfig secret under the write lock of a sync.RWMutex   *)
(* and kept until they are invalidated.  The secret is read through the    *)
(* manager's cached client (cmd/main.go:352), whose informer shows a       *)
(* rotation some time after it was made.  Which cluster a Machine goes to  *)
(* is the subject of MachineReconciler; here a call gets the client of one *)
(* config, visits those of several (a search for a VM, a health check) or  *)
(* invalidates some.                                                       *)
(***************************************************************************)
EXTENDS Naturals

CONSTANTS
    Callers,      \* goroutines
    Configs,      \* names of KubevirtConfigs
    None,
    MaxVersion    \* bound: versions of a secret

ASSUME ConstantsAssumption ==
    /\ None \notin Callers
    /\ None \notin Configs
    /\ MaxVersion \in Nat \ {0}

VARIABLES
    secret,    \* config -> version of its secret on the API server
    shown,     \* config -> version of it that the informer shows
    clients,   \* config -> version of the secret its cached client has, or 0
    writer,    \* who holds the lock for writing or waits for its readers
    caller,    \* goroutine -> its call and the locals of it
    builds,    \* history: config -> clients built since the last invalidation
    floor      \* history: config -> version of its secret shown at that time

vars == <<secret, shown, clients, writer, caller, builds, floor>>

Versions == 1..MaxVersion

\* The steps at which the map of clients is read and written.
Reads == {"read", "names"}
Writes == {"check", "build", "store", "delete"}

Steps == {"idle", "rlock", "queued", "lock", "drain", "next", "use"}
            \cup Reads \cup Writes

\* config is None in the part of a call that is about no config yet, todo what
\* it has yet to visit or is to invalidate, version that of the secret it read
\* or of the client it got, need the floor when it asked for the client.
Call == [op : {"get", "search", "health", "invalidate"}, step : Steps,
         config : Configs \cup {None}, todo : SUBSET Configs,
         version : 0..MaxVersion, need : 0..MaxVersion]

NewCall(op, step, todo) == [op |-> op, step |-> step, config |-> None,
                            todo |-> todo, version |-> 0, need |-> 0]

NoCall == NewCall("get", "idle", {})

\* With it: the lock is held by the one goroutine that has taken it.
TypeOK ==
    /\ secret \in [Configs -> Versions]
    /\ shown \in [Configs -> Versions]
    /\ clients \in [Configs -> 0..MaxVersion]
    /\ writer \in Callers \cup {None}
    /\ caller \in [Callers -> Call]
    /\ builds \in [Configs -> Nat]
    /\ floor \in [Configs -> Versions]
    /\ \A p \in Callers : writer = p <=> caller[p].step \in {"drain"} \cup Writes

Init ==
    /\ secret = [c \in Configs |-> 1]
    /\ shown = secret
    /\ clients = [c \in Configs |-> 0]
    /\ writer = None
    /\ caller = [p \in Callers |-> NoCall]
    /\ builds = [c \in Configs |-> 0]
    /\ floor = secret

-----------------------------------------------------------------------------
(* sync.RWMutex: a writer takes its turn, then waits for the readers that  *)
(* are in; others queue up and are let in when it leaves.                  *)

At(p, step) == caller[p].step = step
Move(p, call) == caller' = [caller EXCEPT ![p] = call]
GoTo(p, step) == Move(p, [caller[p] EXCEPT !.step = step])

Readers == {p \in Callers : caller[p].step \in Reads}

\* The step after RLock, and after Lock.
ReadStep(call) == IF call.config = None THEN "names" ELSE "read"
WriteStep(call) == IF call.op = "invalidate" THEN "delete" ELSE "check"

RLock(p) ==
    /\ At(p, "rlock")
    /\ GoTo(p, IF writer = None THEN ReadStep(caller[p]) ELSE "queued")
    /\ UNCHANGED <<secret, shown, clients, writer, builds, floor>>

Lock(p) ==
    /\ At(p, "lock")
    /\ writer = None
    /\ writer' = p
    /\ GoTo(p, "drain")
    /\ UNCHANGED <<secret, shown, clients, builds, floor>>

\* Mutant: readers are not waited for.
DrainedAtOnce(p) ==
    /\ At(p, "drain")
    /\ GoTo(p, WriteStep(caller[p]))
    /\ UNCHANGED <<secret, shown, clients, writer, builds, floor>>

Drained(p) ==
    /\ At(p, "drain")
    /\ Readers = {}
    /\ GoTo(p, WriteStep(caller[p]))
    /\ UNCHANGED <<secret, shown, clients, writer, builds, floor>>

\* Unlock, and go on with call: those in the queue become readers.
Unlock(p, call) ==
    /\ writer' = None
    /\ caller' = [q \in Callers |->
          CASE q = p -> call
            [] q # p /\ At(q, "queued") ->
                  [caller[q] EXCEPT !.step = ReadStep(caller[q])]
            [] OTHER -> caller[q]]

-----------------------------------------------------------------------------
(* GetClientForConfig                                                      *)

\* The call of it in a call that has c to do.
GetClient(call, c) ==
    [op |-> call.op, step |-> "rlock", config |-> c, todo |-> call.todo \ {c},
     version |-> 0, need |-> floor[c]]

\* An error ends a GetClientForConfig; a search or a health check goes on.
WithoutClient(call) ==
    IF call.op = "get" THEN NoCall
    ELSE [call EXCEPT !.step = "next", !.config = None, !.version = 0, !.need = 0]

WithClient(call, version) == [call EXCEPT !.step = "use", !.version = version]

\* The fast path, and RUnlock.
FastPath(p) ==
    /\ At(p, "read")
    /\ LET cached == clients[caller[p].config] IN
       IF cached # 0 THEN Move(p, WithClient(caller[p], cached))
       ELSE GoTo(p, "lock")
    /\ UNCHANGED <<secret, shown, clients, writer, builds, floor>>

\* Mutant: the map is not looked at again.
BuildAtOnce(p) ==
    /\ At(p, "check")
    /\ GoTo(p, "build") /\ UNCHANGED writer
    /\ UNCHANGED <<secret, shown, clients, builds, floor>>

\* Mutant: the lock is given up for the requests of the build.
CheckAndUnlock(p) ==
    /\ At(p, "check")
    /\ LET cached == clients[caller[p].config] IN
       Unlock(p, IF cached # 0 THEN WithClient(caller[p], cached)
                 ELSE [caller[p] EXCEPT !.step = "build"])
    /\ UNCHANGED <<secret, shown, clients, builds, floor>>

\* Under the write lock: another may have built it meanwhile.
CheckAgain(p) ==
    /\ At(p, "check")
    /\ LET cached == clients[caller[p].config] IN
       IF cached # 0 THEN Unlock(p, WithClient(caller[p], cached))
       ELSE GoTo(p, "build") /\ UNCHANGED writer
    /\ UNCHANGED <<secret, shown, clients, builds, floor>>

\* restConfigForKubevirtConfig: the reads of the KubevirtConfig and its secret,
\* as the informers show them.
BuildClientForConfig(p) ==
    /\ At(p, "build")
    /\ Move(p, [caller[p] EXCEPT !.step = "store",
                                 !.version = shown[caller[p].config]])
    /\ UNCHANGED <<secret, shown, clients, writer, builds, floor>>

\* Mutant: the call begins again instead of returning the error.
BuildAgain(p) ==
    /\ At(p, "build")
    /\ Unlock(p, [caller[p] EXCEPT !.step = "rlock"])
    /\ UNCHANGED <<secret, shown, clients, builds, floor>>

\* They are missing or incomplete, or the client cannot be made.
BuildFails(p) ==
    /\ At(p, "build")
    /\ Unlock(p, WithoutClient(caller[p]))
    /\ UNCHANGED <<secret, shown, clients, builds, floor>>

StoreClient(p) ==
    LET c == caller[p].config
        version == caller[p].version
    IN  /\ At(p, "store")
        /\ clients' = [clients EXCEPT ![c] = version]
        /\ builds' = [builds EXCEPT ![c] = @ + 1]
        /\ Unlock(p, WithClient(caller[p], version))
        /\ UNCHANGED <<secret, shown, floor>>

-----------------------------------------------------------------------------
(* The calls                                                               *)

\* GetOrCreateClientFromMachine with an annotation, a default or one config.
CallGet(p) ==
    /\ At(p, "idle")
    /\ \E c \in Configs : Move(p, GetClient(NoCall, c))
    /\ UNCHANGED <<secret, shown, clients, writer, builds, floor>>

\* The same with none of these: ListKubevirtConfigs, then findVMInClusters.
CallSearch(p) ==
    /\ At(p, "idle")
    /\ \E listed \in SUBSET Configs :
          /\ \E c, d \in listed : c # d
          /\ Move(p, NewCall("search", "next", listed))
    /\ UNCHANGED <<secret, shown, clients, writer, builds, floor>>

CallHealthCheck(p) ==
    /\ At(p, "idle")
    /\ Move(p, NewCall("health", "rlock", {}))
    /\ UNCHANGED <<secret, shown, clients, writer, builds, floor>>

CallInvalidate(p) ==
    /\ At(p, "idle")
    /\ \E some \in {Configs} \cup {{c} : c \in Configs} :
          Move(p, NewCall("invalidate", "lock", some))
    /\ UNCHANGED <<secret, shown, clients, writer, builds, floor>>

\* HealthCheck: the names, and RUnlock.
CachedNames(p) ==
    /\ At(p, "names")
    /\ Move(p, [caller[p] EXCEPT !.step = "next",
                                 !.todo = {c \in Configs : clients[c] # 0}])
    /\ UNCHANGED <<secret, shown, clients, writer, builds, floor>>

\* The next turn of the loop of a search or a health check.
NextConfig(p) ==
    /\ At(p, "next")
    /\ IF caller[p].todo = {} THEN Move(p, NoCall)
       ELSE \E c \in caller[p].todo : Move(p, GetClient(caller[p], c))
    /\ UNCHANGED <<secret, shown, clients, writer, builds, floor>>

\* A search that finds the VM gets the client a second time; else, and in
\* ValidateConnection, the loop goes on.
UseClient(p) ==
    /\ At(p, "use")
    /\ CASE caller[p].op = "get" -> Move(p, NoCall)
         [] caller[p].op = "search" ->
               \/ Move(p, GetClient(NoCall, caller[p].config))
               \/ Move(p, WithoutClient(caller[p]))
         [] OTHER -> Move(p, WithoutClient(caller[p]))
    /\ UNCHANGED <<secret, shown, clients, writer, builds, floor>>

\* InvalidateClient, InvalidateAll.
DeleteClients(p) ==
    /\ At(p, "delete")
    /\ LET Reset(f, g) == [c \in Configs |->
               IF c \in caller[p].todo THEN g[c] ELSE f[c]]
           zero == [c \in Configs |-> 0]
       IN  /\ clients' = Reset(clients, zero)
           /\ builds' = Reset(builds, zero)
           /\ floor' = Reset(floor, shown)
    /\ Unlock(p, NoCall)
    /\ UNCHANGED <<secret, shown>>

\* The administrator replaces a kubeconfig.
RotateSecret(c) ==
    /\ secret[c] < MaxVersion
    /\ secret' = [secret EXCEPT ![c] = @ + 1]
    /\ UNCHANGED <<shown, clients, writer, caller, builds, floor>>

\* The informer catches up, and may skip versions.
SecretSync(c) ==
    /\ \E version \in Versions :
          /\ shown[c] < version /\ version <= secret[c]
          /\ shown' = [shown EXCEPT ![c] = version]
    /\ UNCHANGED <<secret, clients, writer, caller, builds, floor>>

-----------------------------------------------------------------------------
(* The specification                                                       *)

Calls(p) == CallGet(p) \/ CallSearch(p) \/ CallHealthCheck(p) \/ CallInvalidate(p)

Proceed(p) ==
    \/ RLock(p)
    \/ Drained(p)
    \/ FastPath(p)
    \/ CheckAgain(p)
    \/ BuildClientForConfig(p)
    \/ BuildFails(p)
    \/ StoreClient(p)
    \/ CachedNames(p)
    \/ NextConfig(p)
    \/ UseClient(p)
    \/ DeleteClients(p)

Next ==
    \/ \E p \in Callers : Calls(p) \/ Lock(p) \/ Proceed(p)
    \/ \E c \in Configs : RotateSecret(c) \/ SecretSync(c)

Spec == Init /\ [][Next]_vars

\* Goroutines run, requests return, and a Mutex starves nobody.
Fairness ==
    \A p \in Callers : WF_vars(Proceed(p)) /\ SF_vars(Lock(p))

FairSpec == Spec /\ Fairness

-----------------------------------------------------------------------------
(* Properties                                                              *)

\* The map is not written while another goroutine reads or writes it, which
\* Go answers with a fatal error.
NoMapRace ==
    \A p, q \in Callers :
        p # q /\ caller[p].step \in Writes => caller[q].step \notin Reads \cup Writes

\* Callers that find the cache empty "serialize behind a single build"
\* (kubevirt_client_manager.go:64): one client for a config until it is
\* invalidated.
OneBuildPerConfig == \A c \in Configs : builds[c] <= 1

\* "removes a cached client, forcing it to be recreated on next access"
\* (kubevirt_client_manager.go:170): a call begun after an invalidation gets
\* no client of a secret older than the one the informer showed then, whatever
\* other calls were under way.  A rotation it had not shown yet is missed.
FreshAfterInvalidation ==
    \A p \in Callers : At(p, "use") => caller[p].version >= caller[p].need

\* Every call returns, whoever else calls what.
CallsReturn ==
    \A p \in Callers : ~At(p, "idle") ~> At(p, "idle")
=============================================================================
