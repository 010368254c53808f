----------------------- MODULE ClientManager_proofs -----------------------
(***************************************************************************)
(* The safety properties of ClientManager, for any number of goroutines,   *)
(* configs and versions.                                                   *)
(***************************************************************************)
EXTENDS ClientManager, TLAPS

\* What holds of a call when the cached clients are cl and the floors fl.
Sound(call, cl, fl) ==
    /\ call.op = "invalidate" => call.step \in {"lock", "drain", "delete"}
    /\ call.step = "delete" => call.op = "invalidate"
    /\ call.step \in {"read", "lock", "drain", "check", "build", "store", "use"}
          /\ call.op # "invalidate" => call.config # None
    /\ call.config # None => call.need <= fl[call.config]
    /\ call.step \in {"build", "store"} => cl[call.config] = 0
    /\ call.step = "store" =>
          call.version \in Versions /\ call.version >= fl[call.config]
    /\ call.step = "use" => call.version >= call.need

\* A cached client is the only one built since the last invalidation, from a
\* secret not older than the one shown then.
CacheSound(c) ==
    /\ builds[c] = IF clients[c] = 0 THEN 0 ELSE 1
    /\ clients[c] # 0 => clients[c] >= floor[c]
    /\ floor[c] <= shown[c]
    /\ shown[c] <= secret[c]

ReadersOut ==
    \A p, q \in Callers : caller[p].step \in Writes => caller[q].step \notin Reads

\* The inductive invariant.
ClientInvariant ==
    /\ TypeOK
    /\ ReadersOut
    /\ \A c \in Configs : CacheSound(c)
    /\ \A p \in Callers : Sound(caller[p], clients, floor)

Locked(call) == call.step \in {"drain"} \cup Writes

-----------------------------------------------------------------------------

LEMMA InitSound == Init => ClientInvariant
BY ConstantsAssumption
   DEF Init, ClientInvariant, TypeOK, ReadersOut, CacheSound, Sound, NoCall, NewCall,
       Call, Steps, Reads, Writes, Versions

\* A step of a goroutine that changes nothing but its call.
LEMMA MoveKeeps ==
    ASSUME ClientInvariant, NEW p \in Callers, NEW call \in Call, Move(p, call),
           UNCHANGED <<secret, shown, clients, writer, builds, floor>>,
           Sound(call, clients, floor),
           writer = p <=> Locked(call),
           call.step \in Reads => writer = None,
           call.step \in Writes => Readers = {}
    PROVE  ClientInvariant'
<1>1. /\ caller' \in [Callers -> Call]
      /\ caller'[p] = call
      /\ \A q \in Callers : q # p => caller'[q] = caller[q]
  BY DEF ClientInvariant, TypeOK, Move
<1>2. TypeOK'
  BY <1>1 DEF ClientInvariant, TypeOK, Locked
<1>3. ReadersOut'
  <2> SUFFICES ASSUME NEW q \in Callers, NEW r \in Callers,
                      caller'[q].step \in Writes, caller'[r].step \in Reads
               PROVE  FALSE
    BY DEF ReadersOut, Reads, Writes
  <2>1. CASE q = p /\ r = p
    BY <1>1, <2>1 DEF Reads, Writes
  <2>2. CASE q = p /\ r # p
    BY <1>1, <2>2 DEF Readers
  <2>3. CASE q # p /\ r = p
    BY <1>1, <2>3, ConstantsAssumption DEF ClientInvariant, TypeOK
  <2>4. CASE q # p /\ r # p
    BY <1>1, <2>4 DEF ClientInvariant, ReadersOut
  <2> QED BY <2>1, <2>2, <2>3, <2>4
<1>4. \A c \in Configs : CacheSound(c)'
  BY DEF ClientInvariant, CacheSound
<1>5. \A q \in Callers : Sound(caller[q], clients, floor)'
  BY <1>1 DEF ClientInvariant, Sound
<1> QED BY <1>2, <1>3, <1>4, <1>5 DEF ClientInvariant

\* The end of a section under the write lock.
LEMMA UnlockKeeps ==
    ASSUME ClientInvariant, NEW p \in Callers, NEW call \in Call,
           Unlock(p, call), Locked(caller[p]),
           UNCHANGED <<secret, shown>>,
           clients' \in [Configs -> 0..MaxVersion],
           builds' \in [Configs -> Nat],
           floor' \in [Configs -> Versions],
           \A c \in Configs : CacheSound(c)',
           \A c \in Configs : floor[c] <= floor'[c],
           Sound(call, clients', floor'),
           ~Locked(call), call.step \notin Reads
    PROVE  ClientInvariant'
<1>1. /\ writer' = None
      /\ caller'[p] = call
      /\ \A q \in Callers : q # p =>
            caller'[q] = IF At(q, "queued")
                         THEN [caller[q] EXCEPT !.step = ReadStep(caller[q])]
                         ELSE caller[q]
  BY DEF Unlock
<1>2. \A q \in Callers : q # p => ~Locked(caller[q])
  BY ConstantsAssumption DEF ClientInvariant, TypeOK, Locked
<1>3. \A q \in Callers : caller'[q] \in Call /\ ~Locked(caller'[q])
  <2> SUFFICES ASSUME NEW q \in Callers
               PROVE  caller'[q] \in Call /\ ~Locked(caller'[q])
    OBVIOUS
  <2>1. CASE q = p
    BY <1>1, <2>1
  <2>2. CASE q # p /\ At(q, "queued")
    <3>1. caller[q] \in Call /\ ReadStep(caller[q]) \in Reads
      BY DEF ClientInvariant, TypeOK, ReadStep, Reads
    <3>2. caller'[q] = [caller[q] EXCEPT !.step = ReadStep(caller[q])]
      BY <1>1, <2>2
    <3> QED BY <3>1, <3>2 DEF Call, Steps, Reads, Writes, Locked
  <2>3. CASE q # p /\ ~At(q, "queued")
    BY <1>1, <1>2, <2>3 DEF ClientInvariant, TypeOK
  <2> QED BY <2>1, <2>2, <2>3
<1>4. TypeOK'
  <2>1. caller' \in [Callers -> Call]
    BY <1>3 DEF Unlock
  <2>2. \A q \in Callers : writer' # q
    BY <1>1, ConstantsAssumption
  <2> QED BY <1>1, <1>3, <2>1, <2>2 DEF ClientInvariant, TypeOK, Locked
<1>5. ReadersOut'
  BY <1>3 DEF ReadersOut, Locked
<1>6. \A q \in Callers : Sound(caller'[q], clients', floor')
  <2> SUFFICES ASSUME NEW q \in Callers PROVE Sound(caller'[q], clients', floor')
    OBVIOUS
  <2>1. CASE q = p
    BY <1>1, <2>1
  <2>2. CASE q # p
    <3>1. /\ caller[q] \in Call
          /\ ~Locked(caller[q])
          /\ Sound(caller[q], clients, floor)
          /\ floor \in [Configs -> Versions]
      BY <1>2, <2>2 DEF ClientInvariant, TypeOK
    <3>2. caller[q].config # None =>
             caller[q].config \in Configs /\ caller[q].need <= floor'[caller[q].config]
      BY <3>1, ConstantsAssumption DEF Call, Sound, Versions
    <3>3. CASE At(q, "queued")
      <4>1. /\ caller'[q].step = ReadStep(caller[q])
            /\ caller'[q].op = caller[q].op
            /\ caller'[q].config = caller[q].config
            /\ caller'[q].need = caller[q].need
        BY <1>1, <2>2, <3>1, <3>3 DEF Call
      <4>2. caller[q].op # "invalidate"
        BY <3>1, <3>3 DEF Sound, At
      <4>3. \/ caller[q].config = None /\ caller'[q].step = "names"
            \/ caller[q].config # None /\ caller'[q].step = "read"
        BY <4>1 DEF ReadStep
      <4> QED BY <3>2, <4>1, <4>2, <4>3 DEF Sound
    <3>4. CASE ~At(q, "queued")
      BY <1>1, <2>2, <3>1, <3>2, <3>4 DEF Sound, Locked, Writes
    <3> QED BY <3>3, <3>4
  <2> QED BY <2>1, <2>2
<1> QED BY <1>4, <1>5, <1>6 DEF ClientInvariant
-----------------------------------------------------------------------------
(* One lemma for each kind of step.                                        *)

LEMMA GetClientSound ==
    ASSUME ClientInvariant, NEW c \in Configs, NEW call \in Call,
           call.op # "invalidate"
    PROVE  /\ GetClient(call, c) \in Call
           /\ GetClient(call, c).step = "rlock"
           /\ Sound(GetClient(call, c), clients, floor)
<1>1. floor[c] \in 0..MaxVersion /\ floor[c] <= floor[c]
  BY DEF ClientInvariant, TypeOK, Versions
<1>2. /\ call.op \in {"get", "search", "health", "invalidate"}
      /\ call.todo \ {c} \in SUBSET Configs
  BY DEF Call
<1> QED BY <1>1, <1>2, ConstantsAssumption DEF GetClient, Call, Steps, Sound

LEMMA WithoutClientSound ==
    ASSUME NEW call \in Call, NEW cl, NEW fl, call.op # "invalidate"
    PROVE  /\ WithoutClient(call) \in Call
           /\ WithoutClient(call).step \in {"idle", "next"}
           /\ Sound(WithoutClient(call), cl, fl)
<1>1. CASE call.op = "get"
  BY <1>1, ConstantsAssumption DEF WithoutClient, NoCall, NewCall, Call, Steps, Sound
<1>2. CASE call.op # "get"
  <2>1. WithoutClient(call) =
           [op |-> call.op, step |-> "next", config |-> None, todo |-> call.todo,
            version |-> 0, need |-> 0]
    BY <1>2 DEF WithoutClient, Call
  <2>2. /\ call.op \in {"get", "search", "health", "invalidate"}
        /\ call.todo \in SUBSET Configs
    BY DEF Call
  <2> QED BY <2>1, <2>2, ConstantsAssumption DEF Call, Steps, Sound
<1> QED BY <1>1, <1>2

LEMMA WithClientSound ==
    ASSUME NEW call \in Call, NEW cl, NEW fl, NEW v \in 0..MaxVersion,
           call.op # "invalidate", call.config # None,
           call.need <= fl[call.config], v >= call.need
    PROVE  /\ WithClient(call, v) \in Call
           /\ WithClient(call, v).step = "use"
           /\ Sound(WithClient(call, v), cl, fl)
BY DEF WithClient, Call, Steps, Sound

LEMMA NoCallSound ==
    ASSUME NEW cl, NEW fl
    PROVE  NoCall \in Call /\ Sound(NoCall, cl, fl)
BY ConstantsAssumption DEF NoCall, NewCall, Call, Steps, Sound

LEMMA CallsSound ==
    ASSUME ClientInvariant, NEW p \in Callers, Calls(p)
    PROVE  ClientInvariant'
<1>1. writer # p
  BY DEF Calls, CallGet, CallSearch, CallHealthCheck, CallInvalidate, At,
         ClientInvariant, TypeOK, Writes
<1>2. CASE CallGet(p)
  <2>1. PICK c \in Configs : Move(p, GetClient(NoCall, c))
    BY <1>2 DEF CallGet
  <2>2. /\ GetClient(NoCall, c) \in Call
        /\ GetClient(NoCall, c).step = "rlock"
        /\ Sound(GetClient(NoCall, c), clients, floor)
    BY NoCallSound, GetClientSound DEF NoCall, NewCall
  <2> QED BY <1>1, <1>2, <2>1, <2>2, MoveKeeps DEF CallGet, Locked, Reads, Writes
<1>3. CASE CallSearch(p)
  <2>1. PICK listed \in SUBSET Configs :
           Move(p, NewCall("search", "next", listed))
    BY <1>3 DEF CallSearch
  <2> DEFINE call == NewCall("search", "next", listed)
  <2>2. call \in Call /\ call.step = "next" /\ Sound(call, clients, floor)
    BY ConstantsAssumption DEF NewCall, Call, Steps, Sound
  <2> QED BY <1>1, <1>3, <2>1, <2>2, MoveKeeps DEF CallSearch, Locked, Reads, Writes
<1>4. CASE CallHealthCheck(p)
  <2> DEFINE call == NewCall("health", "rlock", {})
  <2>1. call \in Call /\ call.step = "rlock" /\ Sound(call, clients, floor)
    BY ConstantsAssumption DEF NewCall, Call, Steps, Sound
  <2> QED BY <1>1, <1>4, <2>1, MoveKeeps DEF CallHealthCheck, Locked, Reads, Writes
<1>5. CASE CallInvalidate(p)
  <2>1. PICK some \in {Configs} \cup {{c} : c \in Configs} :
           Move(p, NewCall("invalidate", "lock", some))
    BY <1>5 DEF CallInvalidate
  <2>2. some \in SUBSET Configs
    OBVIOUS
  <2> DEFINE call == NewCall("invalidate", "lock", some)
  <2>3. call \in Call /\ call.step = "lock" /\ Sound(call, clients, floor)
    BY <2>2, ConstantsAssumption DEF NewCall, Call, Steps, Sound
  <2> QED BY <1>1, <1>5, <2>1, <2>3, MoveKeeps DEF CallInvalidate, Locked, Reads, Writes
<1> QED BY <1>2, <1>3, <1>4, <1>5 DEF Calls

LEMMA LockSound ==
    ASSUME ClientInvariant, NEW p \in Callers, RLock(p) \/ Lock(p) \/ Drained(p)
    PROVE  ClientInvariant'
<1> DEFINE call(step) == [caller[p] EXCEPT !.step = step]
<1>1. caller[p] \in Call /\ Sound(caller[p], clients, floor)
  BY DEF ClientInvariant, TypeOK
<1>2. CASE RLock(p)
  <2> DEFINE step == IF writer = None THEN ReadStep(caller[p]) ELSE "queued"
  <2>1. /\ call(step) \in Call
        /\ call(step).step = step
        /\ Sound(call(step), clients, floor)
    BY <1>1, <1>2 DEF RLock, At, Call, Steps, Reads, ReadStep, Sound
  <2>2. writer # p
    BY <1>2 DEF RLock, At, ClientInvariant, TypeOK, Writes
  <2>3. /\ Move(p, call(step))
        /\ UNCHANGED <<secret, shown, clients, writer, builds, floor>>
    BY <1>2 DEF RLock, GoTo
  <2>4. /\ step \in Reads \cup {"queued"}
        /\ step \in Reads => writer = None
    BY DEF ReadStep, Reads
  <2>5. ~Locked(call(step)) /\ call(step).step \notin Writes
    BY <2>1, <2>4 DEF Locked, Reads, Writes
  <2> HIDE DEF step, call
  <2> QED BY <2>1, <2>2, <2>3, <2>4, <2>5, MoveKeeps
<1>3. CASE Lock(p)
  <2>1. /\ caller'[p] = call("drain")
        /\ \A q \in Callers : q # p => caller'[q] = caller[q]
        /\ caller' \in [Callers -> Call]
        /\ writer' = p
    BY <1>1, <1>3 DEF Lock, GoTo, Move, ClientInvariant, TypeOK, Call, Steps
  <2>2. caller'[p].step = "drain" /\ Sound(caller'[p], clients, floor)
    BY <1>1, <1>3, <2>1 DEF Lock, At, Call, Sound
  <2>3. \A q \in Callers : q # p => ~Locked(caller'[q])
    BY <1>3, <2>1, ConstantsAssumption DEF Lock, ClientInvariant, TypeOK, Locked
  <2>4. TypeOK'
    BY <1>3, <2>1, <2>2, <2>3 DEF Lock, ClientInvariant, TypeOK, Locked
  <2>5. ReadersOut'
    BY <2>2, <2>3 DEF ReadersOut, Locked, Writes
  <2>6. \A c \in Configs : CacheSound(c)'
    BY <1>3 DEF Lock, ClientInvariant, CacheSound
  <2>7. \A q \in Callers : Sound(caller'[q], clients', floor')
    BY <1>3, <2>1, <2>2 DEF Lock, ClientInvariant
  <2> QED BY <2>4, <2>5, <2>6, <2>7 DEF ClientInvariant
<1>4. CASE Drained(p)
  <2> DEFINE step == WriteStep(caller[p])
  <2>1. /\ call(step) \in Call
        /\ call(step).step = step
        /\ Sound(call(step), clients, floor)
    BY <1>1, <1>4 DEF Drained, At, Call, Steps, Writes, WriteStep, Sound
  <2>2. writer = p
    BY <1>4 DEF Drained, At, ClientInvariant, TypeOK
  <2>3. /\ Move(p, call(step))
        /\ Readers = {}
        /\ UNCHANGED <<secret, shown, clients, writer, builds, floor>>
    BY <1>4 DEF Drained, GoTo
  <2>4. Locked(call(step)) /\ call(step).step \notin Reads
    BY <2>1 DEF Locked, WriteStep, Reads, Writes
  <2> HIDE DEF step, call
  <2> QED BY <2>1, <2>2, <2>3, <2>4, MoveKeeps
<1> QED BY <1>2, <1>3, <1>4

\* What a goroutine that builds or has got a client can rely on.
LEMMA HasConfig ==
    ASSUME ClientInvariant, NEW p \in Callers,
           caller[p].step \in {"read", "check", "build", "store", "use"}
    PROVE  /\ caller[p] \in Call
           /\ caller[p].op # "invalidate"
           /\ caller[p].config \in Configs
           /\ caller[p].config # None
           /\ caller[p].need <= floor[caller[p].config]
           /\ floor[caller[p].config] \in Versions
           /\ clients[caller[p].config] \in 0..MaxVersion
           /\ clients[caller[p].config] # 0 =>
                 clients[caller[p].config] >= caller[p].need
<1>1. caller[p] \in Call /\ Sound(caller[p], clients, floor)
  BY DEF ClientInvariant, TypeOK
<1>2. /\ caller[p].op # "invalidate"
      /\ caller[p].config \in Configs
      /\ caller[p].config # None
      /\ caller[p].need <= floor[caller[p].config]
  BY <1>1, ConstantsAssumption DEF Sound, Call
<1>3. /\ floor[caller[p].config] \in Versions
      /\ clients[caller[p].config] \in 0..MaxVersion
      /\ clients[caller[p].config] # 0 =>
            clients[caller[p].config] >= floor[caller[p].config]
  BY <1>2 DEF ClientInvariant, TypeOK, CacheSound
<1>4. caller[p].need \in 0..MaxVersion
  BY <1>1 DEF Call
<1> QED BY <1>1, <1>2, <1>3, <1>4, ConstantsAssumption DEF Versions

LEMMA ReadSound ==
    ASSUME ClientInvariant, NEW p \in Callers,
           FastPath(p) \/ CachedNames(p) \/ NextConfig(p) \/ UseClient(p)
    PROVE  ClientInvariant'
<1>1. caller[p] \in Call /\ Sound(caller[p], clients, floor)
  BY DEF ClientInvariant, TypeOK
<1>2. writer # p
  BY DEF FastPath, CachedNames, NextConfig, UseClient, At, ClientInvariant,
         TypeOK, Writes
<1>3. CASE FastPath(p)
  <2> DEFINE cached == clients[caller[p].config]
  <2>1. caller[p].step = "read"
    BY <1>3 DEF FastPath, At
  <2>2. CASE cached # 0
    <3>1. /\ WithClient(caller[p], cached) \in Call
          /\ WithClient(caller[p], cached).step = "use"
          /\ Sound(WithClient(caller[p], cached), clients, floor)
      BY <2>1, <2>2, HasConfig, WithClientSound
    <3> QED
      BY <1>2, <1>3, <2>2, <3>1, MoveKeeps DEF FastPath, Locked, Reads, Writes
  <2>3. CASE cached = 0
    <3> DEFINE call == [caller[p] EXCEPT !.step = "lock"]
    <3>1. call \in Call /\ call.step = "lock" /\ Sound(call, clients, floor)
      BY <1>1, <2>1, HasConfig DEF Call, Steps, Sound
    <3> QED
      BY <1>2, <1>3, <2>3, <3>1, MoveKeeps DEF FastPath, GoTo, Locked, Reads, Writes
  <2> QED BY <2>2, <2>3
<1>4. CASE CachedNames(p)
  <2> DEFINE names == {c \in Configs : clients[c] # 0}
             call == [caller[p] EXCEPT !.step = "next", !.todo = names]
  <2>1. call \in Call /\ call.step = "next" /\ Sound(call, clients, floor)
    <3>1. caller[p].step = "names" /\ names \in SUBSET Configs
      BY <1>4 DEF CachedNames, At
    <3> HIDE DEF names
    <3> QED BY <1>1, <3>1 DEF Call, Steps, Sound
  <2> QED
    BY <1>2, <1>4, <2>1, MoveKeeps DEF CachedNames, Locked, Reads, Writes
<1>5. CASE NextConfig(p)
  <2>1. caller[p].op # "invalidate"
    BY <1>1, <1>5 DEF NextConfig, At, Sound
  <2>2. CASE caller[p].todo = {}
    BY <1>2, <1>5, <2>2, NoCallSound, MoveKeeps
    DEF NextConfig, NoCall, NewCall, Locked, Reads, Writes
  <2>3. CASE caller[p].todo # {}
    <3>1. PICK c \in Configs : Move(p, GetClient(caller[p], c))
      BY <1>1, <1>5, <2>3 DEF NextConfig, Call
    <3>2. /\ GetClient(caller[p], c) \in Call
          /\ GetClient(caller[p], c).step = "rlock"
          /\ Sound(GetClient(caller[p], c), clients, floor)
      BY <1>1, <2>1, GetClientSound
    <3> QED
      BY <1>2, <1>5, <3>1, <3>2, MoveKeeps DEF NextConfig, Locked, Reads, Writes
  <2> QED BY <2>2, <2>3
<1>6. CASE UseClient(p)
  <2>1. caller[p].op # "invalidate" /\ caller[p].config \in Configs
    BY <1>6, HasConfig DEF UseClient, At
  <2>2. CASE Move(p, NoCall)
    BY <1>2, <1>6, <2>2, NoCallSound, MoveKeeps
    DEF UseClient, NoCall, NewCall, Locked, Reads, Writes
  <2>3. CASE Move(p, GetClient(NoCall, caller[p].config))
    <3>1. /\ GetClient(NoCall, caller[p].config) \in Call
          /\ GetClient(NoCall, caller[p].config).step = "rlock"
          /\ Sound(GetClient(NoCall, caller[p].config), clients, floor)
      BY <2>1, NoCallSound, GetClientSound DEF NoCall, NewCall
    <3> QED
      BY <1>2, <1>6, <2>3, <3>1, MoveKeeps DEF UseClient, Locked, Reads, Writes
  <2>4. CASE Move(p, WithoutClient(caller[p]))
    <3>1. /\ WithoutClient(caller[p]) \in Call
          /\ WithoutClient(caller[p]).step \in {"idle", "next"}
          /\ Sound(WithoutClient(caller[p]), clients, floor)
      BY <1>1, <2>1, WithoutClientSound
    <3> QED
      BY <1>2, <1>6, <2>4, <3>1, MoveKeeps DEF UseClient, Locked, Reads, Writes
  <2> QED BY <1>6, <2>2, <2>3, <2>4 DEF UseClient
<1> QED BY <1>3, <1>4, <1>5, <1>6

LEMMA BuildSound ==
    ASSUME ClientInvariant, NEW p \in Callers,
           CheckAgain(p) \/ BuildClientForConfig(p) \/ BuildFails(p)
    PROVE  ClientInvariant'
<1> DEFINE config == caller[p].config
           cached == clients[config]
<1>1. /\ caller[p].step \in {"check", "build"}
      /\ writer = p
      /\ Readers = {}
      /\ Locked(caller[p])
      /\ Sound(caller[p], clients, floor)
  BY DEF CheckAgain, BuildClientForConfig, BuildFails, At, ClientInvariant,
         TypeOK, ReadersOut, Readers, Locked, Writes
<1>2. /\ caller[p] \in Call
      /\ caller[p].op # "invalidate"
      /\ config \in Configs
      /\ config # None
      /\ caller[p].need <= floor[config]
      /\ floor[config] \in Versions
      /\ cached \in 0..MaxVersion
      /\ cached # 0 => cached >= caller[p].need
  BY <1>1, HasConfig
<1>3. ASSUME NEW call \in Call, Unlock(p, call),
             UNCHANGED <<secret, shown, clients, builds, floor>>,
             Sound(call, clients, floor), ~Locked(call), call.step \notin Reads
      PROVE  ClientInvariant'
  <2>1. /\ clients' \in [Configs -> 0..MaxVersion]
        /\ builds' \in [Configs -> Nat]
        /\ floor' \in [Configs -> Versions]
        /\ \A c \in Configs : CacheSound(c)'
    BY <1>3 DEF ClientInvariant, TypeOK, CacheSound
  <2>2. \A c \in Configs : floor[c] <= floor'[c]
    BY <1>3 DEF ClientInvariant, TypeOK, Versions
  <2>3. Sound(call, clients', floor')
    BY <1>3
  <2> QED BY <1>1, <1>3, <2>1, <2>2, <2>3, UnlockKeeps
<1>4. CASE CheckAgain(p) /\ cached # 0
  <2>1. /\ WithClient(caller[p], cached) \in Call
        /\ WithClient(caller[p], cached).step = "use"
        /\ Sound(WithClient(caller[p], cached), clients, floor)
    BY <1>2, <1>4, WithClientSound
  <2> QED
    BY <1>3, <1>4, <2>1 DEF CheckAgain, Locked, Reads, Writes
<1>5. CASE CheckAgain(p) /\ cached = 0
  <2> DEFINE call == [caller[p] EXCEPT !.step = "build"]
  <2>1. call \in Call /\ call.step = "build" /\ Sound(call, clients, floor)
    BY <1>1, <1>2, <1>5 DEF Call, Steps, Writes, Sound
  <2>2. Move(p, call) /\ UNCHANGED <<secret, shown, clients, writer, builds, floor>>
    BY <1>5 DEF CheckAgain, GoTo
  <2> HIDE DEF call
  <2> QED BY <1>1, <2>1, <2>2, MoveKeeps DEF Locked, Reads, Writes
<1>6. CASE BuildClientForConfig(p)
  <2> DEFINE v == shown[config]
             call == [caller[p] EXCEPT !.step = "store", !.version = v]
  <2>1. v \in Versions /\ v >= floor[config] /\ v \in 0..MaxVersion
    BY <1>2 DEF ClientInvariant, TypeOK, CacheSound, Versions
  <2>2. Move(p, call) /\ UNCHANGED <<secret, shown, clients, writer, builds, floor>>
    BY <1>6 DEF BuildClientForConfig
  <2>3. caller[p].step = "build"
    BY <1>6 DEF BuildClientForConfig, At
  <2>4. call \in Call /\ call.step = "store" /\ Sound(call, clients, floor)
    <3> HIDE DEF v
    <3> QED BY <1>1, <1>2, <2>1, <2>3 DEF Call, Steps, Writes, Sound
  <2> HIDE DEF call
  <2> QED BY <1>1, <2>2, <2>4, MoveKeeps DEF Locked, Reads, Writes
<1>7. CASE BuildFails(p)
  <2>1. /\ WithoutClient(caller[p]) \in Call
        /\ WithoutClient(caller[p]).step \in {"idle", "next"}
        /\ Sound(WithoutClient(caller[p]), clients, floor)
    BY <1>2, WithoutClientSound
  <2> QED
    BY <1>3, <1>7, <2>1 DEF BuildFails, Locked, Reads, Writes
<1> QED BY <1>4, <1>5, <1>6, <1>7

LEMMA StoreSound ==
    ASSUME ClientInvariant, NEW p \in Callers, StoreClient(p)
    PROVE  ClientInvariant'
<1> DEFINE config == caller[p].config
           version == caller[p].version
           call == WithClient(caller[p], version)
<1>1. /\ caller[p].step = "store"
      /\ Locked(caller[p])
      /\ Sound(caller[p], clients, floor)
  BY DEF StoreClient, At, ClientInvariant, Locked, Writes
<1>2. /\ caller[p] \in Call
      /\ caller[p].op # "invalidate"
      /\ config \in Configs
      /\ config # None
      /\ caller[p].need <= floor[config]
      /\ floor[config] \in Versions
  BY <1>1, HasConfig
<1>3. /\ version \in Versions
      /\ version >= floor[config]
      /\ clients[config] = 0
      /\ caller[p].need \in 0..MaxVersion
  BY <1>1, <1>2 DEF Sound, Call
<1>4. version \in 0..MaxVersion /\ version # 0 /\ version >= caller[p].need
  BY <1>2, <1>3, ConstantsAssumption DEF Versions
<1>5. /\ clients' = [clients EXCEPT ![config] = version]
      /\ builds' = [builds EXCEPT ![config] = @ + 1]
      /\ Unlock(p, call)
      /\ UNCHANGED <<secret, shown, floor>>
  BY DEF StoreClient
<1>6. call \in Call /\ call.step = "use" /\ Sound(call, clients', floor')
  BY <1>2, <1>4, <1>5, WithClientSound
<1>7. /\ clients' \in [Configs -> 0..MaxVersion]
      /\ builds' \in [Configs -> Nat]
      /\ floor' \in [Configs -> Versions]
      /\ \A c \in Configs : floor[c] <= floor'[c]
  <2>1. clients' \in [Configs -> 0..MaxVersion]
    BY <1>4, <1>5 DEF ClientInvariant, TypeOK
  <2>2. builds' \in [Configs -> Nat]
    <3>1. builds \in [Configs -> Nat] /\ builds[config] + 1 \in Nat
      BY <1>2 DEF ClientInvariant, TypeOK
    <3> QED BY <1>5, <3>1
  <2>3. /\ floor' \in [Configs -> Versions]
        /\ \A c \in Configs : floor[c] <= floor'[c]
    BY <1>5 DEF ClientInvariant, TypeOK, Versions
  <2> QED BY <2>1, <2>2, <2>3
<1>8. \A c \in Configs : CacheSound(c)'
  BY <1>2, <1>3, <1>4, <1>5 DEF ClientInvariant, TypeOK, CacheSound
<1>9. ~Locked(call) /\ call.step \notin Reads
  BY <1>6 DEF Locked, Reads, Writes
<1> HIDE DEF call
<1> QED BY <1>1, <1>5, <1>6, <1>7, <1>8, <1>9, UnlockKeeps

LEMMA DeleteSound ==
    ASSUME ClientInvariant, NEW p \in Callers, DeleteClients(p)
    PROVE  ClientInvariant'
<1> DEFINE some == caller[p].todo
<1>1. Locked(caller[p])
  BY DEF DeleteClients, At, Locked, Writes
<1>2. /\ clients' = [c \in Configs |-> IF c \in some THEN 0 ELSE clients[c]]
      /\ builds' = [c \in Configs |-> IF c \in some THEN 0 ELSE builds[c]]
      /\ floor' = [c \in Configs |-> IF c \in some THEN shown[c] ELSE floor[c]]
      /\ Unlock(p, NoCall)
      /\ UNCHANGED <<secret, shown>>
  BY DEF DeleteClients
<1>3. /\ clients' \in [Configs -> 0..MaxVersion]
      /\ builds' \in [Configs -> Nat]
      /\ floor' \in [Configs -> Versions]
  BY <1>2, ConstantsAssumption DEF ClientInvariant, TypeOK
<1>4. \A c \in Configs : CacheSound(c)' /\ floor[c] <= floor'[c]
  BY <1>2 DEF ClientInvariant, TypeOK, CacheSound, Versions
<1>5. /\ NoCall \in Call
      /\ Sound(NoCall, clients', floor')
      /\ ~Locked(NoCall)
      /\ NoCall.step \notin Reads
  BY NoCallSound DEF NoCall, NewCall, Locked, Reads, Writes
<1> QED BY <1>1, <1>2, <1>3, <1>4, <1>5, UnlockKeeps

LEMMA SecretSound ==
    ASSUME ClientInvariant, NEW c \in Configs, RotateSecret(c) \/ SecretSync(c)
    PROVE  ClientInvariant'
<1>1. TypeOK'
  BY ConstantsAssumption DEF RotateSecret, SecretSync, ClientInvariant, TypeOK, Versions
<1>2. \A d \in Configs : CacheSound(d)'
  BY DEF RotateSecret, SecretSync, ClientInvariant, TypeOK, CacheSound, Versions
<1> QED BY <1>1, <1>2 DEF RotateSecret, SecretSync, ClientInvariant, ReadersOut

LEMMA NextSound == ClientInvariant /\ [Next]_vars => ClientInvariant'
<1> SUFFICES ASSUME ClientInvariant, [Next]_vars PROVE ClientInvariant'
  OBVIOUS
<1>1. ASSUME NEW p \in Callers, Calls(p) \/ Lock(p) \/ Proceed(p)
      PROVE  ClientInvariant'
  BY <1>1, CallsSound, LockSound, ReadSound, BuildSound, StoreSound, DeleteSound
  DEF Proceed
<1>2. CASE UNCHANGED vars
  BY <1>2 DEF vars, ClientInvariant, TypeOK, ReadersOut, CacheSound
<1> QED BY <1>1, <1>2, SecretSound DEF Next

-----------------------------------------------------------------------------

\* However many goroutines get, search, check and invalidate at a time, the
\* lock is held by one of them and the map is not written while it is read.
THEOREM MapIsGuarded == Spec => []TypeOK /\ []NoMapRace
<1>1. ClientInvariant => TypeOK /\ NoMapRace
  BY ConstantsAssumption
  DEF ClientInvariant, TypeOK, ReadersOut, NoMapRace
<1> QED BY <1>1, InitSound, NextSound, PTL DEF Spec

\* A config has one client between two invalidations, however many callers
\* find the cache empty.
THEOREM BuiltOnce == Spec => []OneBuildPerConfig
<1>1. ClientInvariant => OneBuildPerConfig
  BY DEF ClientInvariant, CacheSound, OneBuildPerConfig
<1> QED BY <1>1, InitSound, NextSound, PTL DEF Spec

\* No call begun after an invalidation gets a client built from a secret older
\* than the one the informer showed at it, not even from a build under way.
THEOREM InvalidationHolds == Spec => []FreshAfterInvalidation
<1>1. ClientInvariant => FreshAfterInvalidation
  BY DEF ClientInvariant, Sound, FreshAfterInvalidation, At
<1> QED BY <1>1, InitSound, NextSound, PTL DEF Spec
=============================================================================
