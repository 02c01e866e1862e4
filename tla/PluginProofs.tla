---------------------------- MODULE PluginProofs ----------------------------
(***************************************************************************)
(* The CRI plugin.  First the network pools: they hand out each TAP and    *)
(* each address to one sandbox at a time and leak nothing, for every pool  *)
(* size.                                                                   *)
(***************************************************************************)
EXTENDS NetLease, CriRuntime, TLAPS

\* What a sandbox holds, or left behind, is registered to it unless its entry
\* was deleted under it; that takes a repeated teardown or a restart.
Registered == \A s \in (held \cup left) \ lost :
                  usedTaps[lease[s].tap] = s /\ usedIPs[lease[s].ip] = s

LeaseInv == /\ LeaseTypeOK /\ Registered /\ NothingLeaks
            /\ lost # {} => repeated

LEMMA NoneIsNoTap == None \notin Taps
BY PoolAssumption DEF Taps

LEMMA InitLease == LeaseInit => LeaseInv
BY PoolAssumption, Zenon DEF LeaseInit, PoolInit, LeaseInv, LeaseTypeOK, Registered, NothingLeaks

\* The lease of a sandbox that is set up, or was left, is a TAP and an address.
LEMMA LeaseOf ==
    ASSUME LeaseTypeOK, NEW s \in Sandboxes, lease[s] # NoLease
    PROVE  lease[s].tap \in Taps /\ lease[s].ip \in IPs
BY DEF LeaseTypeOK

LEMMA AcquireStep ==
    ASSUME LeaseInv, NEW s \in Sandboxes, NEW t \in Taps, NEW i \in IPs, Acquire(s, t, i)
    PROVE  LeaseInv'
<1> DEFINE l == [tap |-> t, ip |-> i]
<1>1. l # NoLease
  BY NoneIsNoTap DEF NoLease
<1>2. lease'[s] = l /\ \A r \in Sandboxes \ {s} : lease'[r] = lease[r]
  BY DEF LeaseInv, LeaseTypeOK, Acquire
<1>3. s \notin held \cup left
  BY DEF LeaseInv, LeaseTypeOK, Acquire
<1>4. LeaseTypeOK'
  BY <1>1, <1>2 DEF LeaseInv, LeaseTypeOK, Acquire, SetupSandbox
<1>5. /\ \A u \in Taps : usedTaps'[u] = IF u = t THEN s ELSE usedTaps[u]
      /\ \A j \in IPs : usedIPs'[j] = IF j = i THEN s ELSE usedIPs[j]
  BY DEF LeaseInv, LeaseTypeOK, Acquire, SetupSandbox
<1>6. usedTaps[t] = None /\ usedIPs[i] = None
  BY DEF Acquire, SetupSandbox, allocateTap
<1>7. \A r \in (held \cup left) \ lost :
          /\ lease'[r] = lease[r] /\ lease[r].tap \in Taps \ {t} /\ lease[r].ip \in IPs \ {i}
          /\ usedTaps[lease[r].tap] = r /\ usedIPs[lease[r].ip] = r
  BY <1>2, <1>3, <1>6, PoolAssumption, LeaseOf DEF LeaseInv, LeaseTypeOK, Registered
<1>8. /\ \A r \in (held' \cup left') \ lost' : r = s \/ r \in (held \cup left) \ lost
      /\ held' = held \cup {s} /\ left' = left /\ lost' = lost /\ repeated' = repeated
  BY DEF Acquire
<1>9. Registered'
  BY <1>2, <1>5, <1>7, <1>8 DEF Registered
<1>10. /\ \A u \in Taps : usedTaps'[u] # None =>
              usedTaps'[u] \in held' \cup left' /\ lease'[usedTaps'[u]].tap = u
       /\ \A j \in IPs : usedIPs'[j] # None =>
              usedIPs'[j] \in held' \cup left' /\ lease'[usedIPs'[j]].ip = j
  BY <1>2, <1>3, <1>5, <1>8 DEF LeaseInv, LeaseTypeOK, NothingLeaks
<1> QED
  BY <1>4, <1>8, <1>9, <1>10 DEF LeaseInv, NothingLeaks, Registered

LEMMA ReleaseStep ==
    ASSUME LeaseInv, NEW s \in Sandboxes, Release(s)
    PROVE  LeaseInv'
<1> DEFINE t == lease[s].tap
           i == lease[s].ip
<1>1. t \in Taps /\ i \in IPs
  BY LeaseOf DEF LeaseInv, Release
<1>2. /\ \A u \in Taps : usedTaps'[u] = IF u = t THEN None ELSE usedTaps[u]
      /\ \A j \in IPs : usedIPs'[j] = IF j = i THEN None ELSE usedIPs[j]
      /\ usedTaps' \in [Taps -> Sandboxes \cup {None}]
      /\ usedIPs' \in [IPs -> Sandboxes \cup {None}]
  BY <1>1 DEF LeaseInv, LeaseTypeOK, Release, TeardownSandbox
<1>3. /\ lease' = lease /\ held' = held \ {s} /\ left' = left \ {s}
      /\ lost' = lost \cup Victims(s)
      /\ repeated' = (repeated \/ s \notin held \cup left)
  BY DEF Release
<1>4. Victims(s) \subseteq Sandboxes /\ usedTaps[t] \in Victims(s) \cup {s, None}
                                     /\ usedIPs[i] \in Victims(s) \cup {s, None}
  BY <1>1 DEF LeaseInv, LeaseTypeOK, Victims
<1>5. LeaseTypeOK'
  BY <1>2, <1>3, <1>4 DEF LeaseInv, LeaseTypeOK
<1>6. Registered'
  <2> SUFFICES ASSUME NEW r \in (held' \cup left') \ lost'
               PROVE  usedTaps'[lease'[r].tap] = r /\ usedIPs'[lease'[r].ip] = r
    BY DEF Registered
  <2>1. r \in (held \cup left) \ lost /\ r # s /\ r \notin Victims(s)
    BY <1>3
  <2>2. r \in Sandboxes /\ lease[r] # NoLease
    BY <2>1 DEF LeaseInv, LeaseTypeOK
  <2>3. lease[r].tap \in Taps /\ lease[r].ip \in IPs
    BY <2>2, LeaseOf DEF LeaseInv
  <2>4. usedTaps[lease[r].tap] = r /\ usedIPs[lease[r].ip] = r
    BY <2>1 DEF LeaseInv, Registered
  <2>5. lease[r].tap # t /\ lease[r].ip # i
    BY <1>4, <2>1, <2>2, <2>4, PoolAssumption
  <2> QED
    BY <1>2, <1>3, <2>3, <2>4, <2>5
<1>7. /\ \A u \in Taps : usedTaps'[u] # None =>
              usedTaps'[u] \in held' \cup left' /\ lease'[usedTaps'[u]].tap = u
      /\ \A j \in IPs : usedIPs'[j] # None =>
              usedIPs'[j] \in held' \cup left' /\ lease'[usedIPs'[j]].ip = j
  BY <1>2, <1>3 DEF LeaseInv, NothingLeaks
<1>8. ASSUME lost' # {} PROVE repeated'
  <2>1. CASE lost = {} /\ s \in held \cup left
    <3>1. usedTaps[t] = s /\ usedIPs[i] = s
      BY <2>1 DEF LeaseInv, Registered
    <3> QED
      BY <1>3, <1>8, <2>1, <3>1 DEF Victims
  <2> QED
    BY <1>3, <2>1, Zenon DEF LeaseInv
<1> QED
  BY <1>5, <1>6, <1>7, <1>8 DEF LeaseInv, NothingLeaks, Registered

LEMMA LeaseStep == LeaseInv /\ [LeaseNext]_leaseVars => LeaseInv'
<1> SUFFICES ASSUME LeaseInv, [LeaseNext]_leaseVars PROVE LeaseInv'
  OBVIOUS
<1> USE DEF LeaseInv, LeaseTypeOK, Registered, NothingLeaks
<1>1. ASSUME NEW s \in Sandboxes, AcquireFails(s) PROVE LeaseInv'
  BY <1>1 DEF AcquireFails, SetupFails, poolVars
<1>2. ASSUME NEW s \in Sandboxes, RemoveUnstopped(s) PROVE LeaseInv'
  BY <1>2 DEF RemoveUnstopped, poolVars
<1>3. CASE Forget
  BY <1>3 DEF Forget
<1>4. CASE UNCHANGED leaseVars
  BY <1>4 DEF leaseVars, poolVars
<1> QED
  BY <1>1, <1>2, <1>3, <1>4, AcquireStep, ReleaseStep DEF LeaseNext

\* SetupSandbox and TeardownSandbox keep the pools' maps well-formed.
THEOREM LeaseTypes == LeaseSpec => []LeaseTypeOK
BY InitLease, LeaseStep, PTL DEF LeaseSpec, LeaseInv

\* However StopPodSandbox is repeated and whenever the plugin restarts, two
\* sandboxes share a TAP or an address only after one of them lost its entry to
\* such a teardown or restart.
THEOREM LeasesAreExclusive == LeaseSpec => []LeasesExclusive
<1>1. LeaseInv => LeasesExclusive
  <2> SUFFICES ASSUME LeaseInv, NEW r \in held, NEW s \in held, r # s,
                      lease[r].tap = lease[s].tap \/ lease[r].ip = lease[s].ip
               PROVE  repeated /\ {r, s} \cap lost # {}
    BY DEF LeasesExclusive
  <2>1. r \in lost \/ s \in lost
    BY DEF LeaseInv, Registered
  <2> QED
    BY <2>1 DEF LeaseInv
<1> QED
  BY <1>1, InitLease, LeaseStep, PTL DEF LeaseSpec

\* The pools register exactly the leases held and those of sandboxes removed
\* without a stop, through failed setups and repeated teardowns too.
THEOREM NoLeaseLeaks == LeaseSpec => []NothingLeaks
BY InitLease, LeaseStep, PTL DEF LeaseSpec, LeaseInv

-----------------------------------------------------------------------------
(***************************************************************************)
(* The calls and goroutines of the runtime service (CriRuntime), for any   *)
(* number of sandboxes, containers, VMs and concurrent calls.              *)
(***************************************************************************)

VmStates == {"free", "starting", "running", "dead", "exited", "untracked", "closed"}
Tracked == {"starting", "running", "dead", "exited"}
Cfgs == Containers \cup {None, "placeholder"}

\* Where a call of each kind can be.
Stopping == {"stop", "signal", "kill", "wait"}
StopsPod == Stopping \cup {"teardown", "notready", "list", "exitAll"}
Reaches(op, pc) ==
    \/ op = "runPod" /\ pc \in {"create", "placeholder", "ready"}
    \/ op = "stopPod" /\ pc \in StopsPod
    \/ op = "removePod" /\ pc \in StopsPod \cup {"rmStop", "rmList", "rmCtrs"}
    \/ op = "status" /\ pc \in {"reconcile", "statusUpdate"}
    \/ op = "createCtr" /\ pc \in {"newCtr", "ctrConfig"}
    \/ op = "startCtr" /\ pc \in {"getSb", "restore", "pid", "running", "watch"}
    \/ op = "stopCtr" /\ pc \in Stopping \cup {"exited"}
    \/ op = "removeCtr" /\ pc \in Stopping \cup {"exited", "rcStop", "rmCtr"}

\* The local copies a call has made by the time it uses them.
NeedsCtr(op) == op \in {"createCtr", "startCtr", "stopCtr", "removeCtr"}
NeedsRecord(op, pc) ==
    \/ op \in {"runPod", "status"}
    \/ op \in {"stopPod", "removePod"} /\ pc \in Stopping \cup {"teardown", "notready"}
    \/ pc \in {"restore", "pid", "running"}
NeedsVm(pc) == pc \in {"signal", "kill", "wait", "pid", "running", "watch"}

Local(r) == /\ r \in CallRecs
            /\ Reaches(r.op, r.pc)
            /\ NeedsCtr(r.op) => r.ctr # None
            /\ NeedsRecord(r.op, r.pc) => r.rec \in SbRecs
            /\ NeedsVm(r.pc) => r.vm # None

\* The VM a call works on has been started, and StartContainer's for its
\* container.
OnVm(r, vms) == r.vm # None => /\ vms[r.vm].st # "free"
                               /\ r.pc \in {"pid", "running", "watch"} => vms[r.vm].ctr = r.ctr

CallInv == /\ call = [k \in Calls |-> call[k]]
           /\ \A k \in Calls : call[k] = Idle \/ (Local(call[k]) /\ OnVm(call[k], vm))

VmRecs == [st : VmStates, sb : Sandboxes \cup {None}, ctr : Containers \cup {None}, cfg : Cfgs,
           own : BOOLEAN, over : BOOLEAN]

\* A VM that was started has a sandbox and a container.
VmInv == /\ vm \in [Vms -> VmRecs]
         /\ \A v \in Vms : \/ vm[v] = NoVm
                           \/ vm[v].st # "free" /\ vm[v].sb # None /\ vm[v].ctr # None

\* The map names a VM of the sandbox that has not been untracked.
MapInv == /\ instances \in [Sandboxes -> Vms \cup {None}]
          /\ \A s \in Sandboxes : instances[s] # None =>
                 vm[instances[s]].sb = s /\ vm[instances[s]].st \in Tracked

\* Only a VM that was started is watched.
WatchInv ==
    /\ watch \in [Vms -> [pc : {"none", "wait", "sb", "ctr", "done"}, rec : SbRecs \cup {None}]]
    /\ \A v \in Vms : /\ watch[v].pc # "none" => vm[v].st # "free"
                      /\ watch[v].pc = "sb" => watch[v].rec \in SbRecs

PoolInv == /\ usedTaps \in [Taps -> Sandboxes \cup {None}]
           /\ usedIPs \in [IPs -> Sandboxes \cup {None}]

StoreInv == /\ sbs \in [Sandboxes -> SbRecs \cup {None}] /\ sbDir \subseteq Sandboxes
            /\ cfg \in [Sandboxes -> Cfgs]
            /\ ctrs \in [Containers -> CtrRecs \cup {None}]

CountInv == born \subseteq Sandboxes \cup Containers /\ restarts \in 0..MaxRestarts

CriInv == PoolInv /\ StoreInv /\ VmInv /\ MapInv /\ WatchInv /\ CallInv /\ CountInv

\* The VM that was not started, and one that was.
LEMMA NoVmIs == /\ NoVm \in VmRecs /\ NoVm.st = "free" /\ NoVm.sb = None /\ NoVm.ctr = None
                /\ NoVm.own = FALSE /\ NoVm.over = FALSE
BY DEF NoVm, VmRecs, VmStates, Cfgs

LEMMA Started ==
    ASSUME VmInv, NEW v \in Vms, vm[v].st # "free"
    PROVE  /\ vm[v].sb \in Sandboxes /\ vm[v].sb # None
           /\ vm[v].ctr \in Containers /\ vm[v].ctr # None
<1>1. vm[v].sb # None /\ vm[v].ctr # None
  BY NoVmIs, Zenon DEF VmInv
<1>2. vm[v].sb \in Sandboxes \cup {None} /\ vm[v].ctr \in Containers \cup {None}
  BY DEF VmInv, VmRecs
<1> QED
  BY <1>1, <1>2

LEMMA InitCri == Init => CriInv
<1> SUFFICES ASSUME Init PROVE CriInv
  OBVIOUS
<1>1. PoolInv /\ StoreInv
  BY DEF Init, PoolInit, PoolInv, StoreInv, Cfgs
<1>2. VmInv
  BY DEF Init, VmInv, VmRecs, VmStates, NoVm, Cfgs
<1>3. MapInv /\ WatchInv
  BY DEF Init, MapInv, WatchInv, NoWatch
<1>4. CallInv
  BY DEF Init, CallInv
<1>5. CountInv
  BY CriAssumption DEF Init, CountInv
<1> QED
  BY <1>1, <1>2, <1>3, <1>4, <1>5 DEF CriInv

(***************************************************************************)
(* How a call changes: it begins, goes on with the same or with new local  *)
(* copies, or returns, while the VMs that were started stay started.       *)
(***************************************************************************)
VmsKept == \A v \in Vms : vm[v].st # "free" => vm'[v].st # "free" /\ vm'[v].ctr = vm[v].ctr

Rec(op, pc, s, c, rec, v, todo) ==
    [op |-> op, pc |-> pc, sb |-> s, ctr |-> c, rec |-> rec, vm |-> v, todo |-> todo]

LEMMA CallSet ==
    ASSUME CallInv, VmsKept, NEW k \in Calls, NEW r, call' = [call EXCEPT ![k] = r],
           r = Idle \/ (Local(r) /\ OnVm(r, vm'))
    PROVE  CallInv'
<1>1. call' = [j \in Calls |-> IF j = k THEN r ELSE call[j]]
  BY DEF CallInv
<1>2. ASSUME NEW j \in Calls PROVE call'[j] = Idle \/ (Local(call'[j]) /\ OnVm(call'[j], vm'))
  <2>1. CASE j = k
    BY <1>1, <2>1
  <2>2. CASE j # k
    <3>1. call'[j] = call[j]
      BY <1>1, <2>2
    <3>2. CASE call[j] = Idle
      BY <3>1, <3>2
    <3>3. CASE Local(call[j]) /\ OnVm(call[j], vm)
      <4>1. call[j].vm \in Vms \cup {None}
        BY <3>3 DEF Local, CallRecs
      <4>2. OnVm(call[j], vm')
        BY <3>3, <4>1 DEF OnVm, VmsKept
      <4> QED
        BY <3>1, <3>3, <4>2
    <3> QED
      BY <3>2, <3>3 DEF CallInv
  <2> QED
    BY <2>1, <2>2
<1>3. call' = [j \in Calls |-> call'[j]]
  BY <1>1, Zenon
<1> QED
  BY <1>2, <1>3 DEF CallInv

LEMMA CallReturns ==
    ASSUME CallInv, VmsKept, NEW k \in Calls, Return(k)
    PROVE  CallInv'
BY CallSet, Zenon DEF Return

LEMMA RecLocal ==
    ASSUME NEW op \in AllOps, NEW pc, NEW s \in Sandboxes, NEW c \in Containers \cup {None},
           NEW rec \in SbRecs \cup {None}, NEW v \in Vms \cup {None},
           NEW todo \in SUBSET Containers,
           Reaches(op, pc), NeedsCtr(op) => c # None, NeedsRecord(op, pc) => rec \in SbRecs,
           NeedsVm(pc) => v # None
    PROVE  /\ Local(Rec(op, pc, s, c, rec, v, todo))
           /\ Rec(op, pc, s, c, rec, v, todo).pc = pc
           /\ Rec(op, pc, s, c, rec, v, todo).vm = v
           /\ Rec(op, pc, s, c, rec, v, todo).ctr = c
<1> DEFINE r == Rec(op, pc, s, c, rec, v, todo)
<1>1. /\ r.op = op /\ r.pc = pc /\ r.sb = s /\ r.ctr = c /\ r.rec = rec /\ r.vm = v
      /\ r.todo = todo
  BY DEF Rec
<1>2. r \in CallRecs
  BY DEF Rec, CallRecs, Reaches, Stopping, StopsPod
<1> QED
  BY <1>1, <1>2 DEF Local

LEMMA CallBegins ==
    ASSUME CallInv, VmsKept, NEW k \in Calls, NEW op, NEW pc, NEW s \in Sandboxes,
           NEW c \in Containers \cup {None}, NEW rec \in SbRecs \cup {None},
           Begin(k, op, pc, s, c, rec),
           Reaches(op, pc), NeedsCtr(op) => c # None, NeedsRecord(op, pc) => rec \in SbRecs,
           ~NeedsVm(pc)
    PROVE  CallInv'
<1> DEFINE r == Rec(op, pc, s, c, rec, None, {})
<1>1. op \in AllOps
  BY CriAssumption DEF Begin
<1>2. Local(r) /\ r.vm = None
  BY <1>1, RecLocal, SMTT(60), Z3T(60)
<1>3. OnVm(r, vm')
  BY <1>2 DEF OnVm
<1>4. call' = [call EXCEPT ![k] = r]
  BY DEF Begin, Rec
<1> QED
  BY <1>2, <1>3, <1>4, CallSet, Zenon

LEMMA CallIs ==
    ASSUME CallInv, NEW k \in Calls, call[k] # Idle
    PROVE  /\ Local(call[k]) /\ OnVm(call[k], vm)
           /\ call[k].op \in AllOps /\ call[k].sb \in Sandboxes
           /\ call[k].ctr \in Containers \cup {None} /\ call[k].rec \in SbRecs \cup {None}
           /\ call[k].vm \in Vms \cup {None} /\ call[k].todo \in SUBSET Containers
<1>1. Local(call[k]) /\ OnVm(call[k], vm)
  BY DEF CallInv
<1> QED
  BY <1>1 DEF Local, CallRecs

LEMMA RecIs ==
    ASSUME NEW r \in CallRecs
    PROVE  r = Rec(r.op, r.pc, r.sb, r.ctr, r.rec, r.vm, r.todo)
BY DEF CallRecs, Rec

LEMMA GoesLocal ==
    ASSUME NEW k \in Calls, NEW pc, NEW rec \in SbRecs \cup {None}, NEW v \in Vms \cup {None},
           NEW todo \in SUBSET Containers,
           Reaches(call[k].op, pc), NeedsCtr(call[k].op) => call[k].ctr # None,
           NeedsRecord(call[k].op, pc) => rec \in SbRecs, NeedsVm(pc) => v # None,
           call[k].op \in AllOps, call[k].sb \in Sandboxes, call[k].ctr \in Containers \cup {None}
    PROVE  Local(Rec(call[k].op, pc, call[k].sb, call[k].ctr, rec, v, todo))
BY RecLocal, Zenon

\* The call goes on at pc with the copies rec, v and todo.
LEMMA CallChanges ==
    ASSUME CallInv, VmsKept, NEW k \in Calls, call[k] # Idle, NEW pc,
           NEW rec \in SbRecs \cup {None}, NEW v \in Vms \cup {None},
           NEW todo \in SUBSET Containers,
           call' = [call EXCEPT ![k] = Rec(call[k].op, pc, call[k].sb, call[k].ctr, rec, v, todo)],
           Reaches(call[k].op, pc),
           NeedsRecord(call[k].op, pc) => rec \in SbRecs, NeedsVm(pc) => v # None,
           v # None => /\ vm'[v].st # "free"
                       /\ pc \in {"pid", "running", "watch"} => vm'[v].ctr = call[k].ctr
    PROVE  CallInv'
<1> DEFINE r == Rec(call[k].op, pc, call[k].sb, call[k].ctr, rec, v, todo)
<1>1. NeedsCtr(call[k].op) => call[k].ctr # None
  BY CallIs DEF Local
<1>2. /\ call[k].op \in AllOps /\ call[k].sb \in Sandboxes
      /\ call[k].ctr \in Containers \cup {None}
  BY CallIs
<1>3. Local(r)
  BY <1>1, <1>2, GoesLocal, Zenon
<1>4. r.pc = pc /\ r.vm = v /\ r.ctr = call[k].ctr
  BY DEF Rec
<1>5. OnVm(r, vm')
  BY <1>4 DEF OnVm
<1> HIDE DEF r
<1> QED
  BY <1>3, <1>5, CallSet, Zenon DEF r

\* The call goes on at pc with the copies it has.
LEMMA CallGoes ==
    ASSUME CallInv, VmsKept, NEW k \in Calls, call[k] # Idle, NEW pc, Goto(k, pc),
           Reaches(call[k].op, pc),
           NeedsRecord(call[k].op, pc) => call[k].rec \in SbRecs,
           NeedsVm(pc) => call[k].vm # None,
           pc \in {"pid", "running", "watch"} => call[k].pc \in {"pid", "running", "watch"}
    PROVE  CallInv'
<1> DEFINE c == call[k]
<1>1. c = Rec(c.op, c.pc, c.sb, c.ctr, c.rec, c.vm, c.todo)
  BY CallIs, RecIs DEF Local
<1>2. [c EXCEPT !.pc = pc] = Rec(c.op, pc, c.sb, c.ctr, c.rec, c.vm, c.todo)
  <2> HIDE DEF c
  <2> QED
    BY <1>1 DEF Rec
<1>3. call' = [call EXCEPT ![k] = Rec(c.op, pc, c.sb, c.ctr, c.rec, c.vm, c.todo)]
  BY <1>2, ZenonT(60) DEF Goto
<1>4. c.vm # None => /\ vm'[c.vm].st # "free"
                     /\ pc \in {"pid", "running", "watch"} => vm'[c.vm].ctr = c.ctr
  BY CallIs DEF OnVm, VmsKept
<1> QED
  BY <1>3, <1>4, CallIs, CallChanges, ZenonT(60)

LEMMA VmsStay == UNCHANGED vm => VmsKept
BY DEF VmsKept

(***************************************************************************)
(* The parts of the invariant that a step leaves alone.                    *)
(***************************************************************************)
LEMMA PoolFrame == PoolInv /\ UNCHANGED poolVars => PoolInv'
BY DEF PoolInv, poolVars

LEMMA StoreFrame == StoreInv /\ UNCHANGED storeVars => StoreInv'
BY DEF StoreInv, storeVars

LEMMA VmFrame == VmInv /\ MapInv /\ UNCHANGED vmVars => VmInv' /\ MapInv'
BY DEF VmInv, MapInv, vmVars

LEMMA WatchFrame ==
    ASSUME WatchInv, VmsKept, UNCHANGED watch PROVE WatchInv'
BY DEF WatchInv, VmsKept

\* A step of a call alone.
LEMMA OnlyCall ==
    ASSUME CriInv, CallInv',
           UNCHANGED <<poolVars, storeVars, vmVars, watch, born, restarts>>
    PROVE  CriInv'
<1>1. PoolInv' /\ StoreInv' /\ VmInv' /\ MapInv'
  BY PoolFrame, StoreFrame, VmFrame DEF CriInv
<1>2. VmsKept
  BY VmsStay DEF vmVars
<1>3. WatchInv'
  BY <1>2, WatchFrame DEF CriInv
<1>4. CountInv'
  BY DEF CriInv, CountInv
<1> QED
  BY <1>1, <1>3, <1>4 DEF CriInv

\* A step of a call on the pools or the store.
LEMMA OnlyRecords ==
    ASSUME CriInv, CallInv', PoolInv', StoreInv', CountInv', UNCHANGED <<vmVars, watch>>
    PROVE  CriInv'
<1>1. VmInv' /\ MapInv'
  BY VmFrame DEF CriInv
<1>2. VmsKept
  BY VmsStay DEF vmVars
<1>3. WatchInv'
  BY <1>2, WatchFrame DEF CriInv
<1> QED
  BY <1>1, <1>3 DEF CriInv

(***************************************************************************)
(* The updates of a call's copies that the steps write.                    *)
(***************************************************************************)
LEMMA RecVm ==
    ASSUME NEW r \in CallRecs, NEW p, NEW x
    PROVE  [r EXCEPT !.vm = x, !.pc = p] = Rec(r.op, p, r.sb, r.ctr, r.rec, x, r.todo)
<1>1. [r EXCEPT !.vm = x] = Rec(r.op, r.pc, r.sb, r.ctr, r.rec, x, r.todo)
  BY RecIs DEF Rec
<1>2. [r EXCEPT !.vm = x, !.pc = p] = [[r EXCEPT !.vm = x] EXCEPT !.pc = p]
  OBVIOUS
<1>3. [Rec(r.op, r.pc, r.sb, r.ctr, r.rec, x, r.todo) EXCEPT !.pc = p]
        = Rec(r.op, p, r.sb, r.ctr, r.rec, x, r.todo)
  BY DEF Rec
<1> QED
  BY <1>1, <1>2, <1>3, Zenon

LEMMA RecRecord ==
    ASSUME NEW r \in CallRecs, NEW p, NEW x
    PROVE  [r EXCEPT !.rec = x, !.pc = p] = Rec(r.op, p, r.sb, r.ctr, x, r.vm, r.todo)
<1>1. [r EXCEPT !.rec = x] = Rec(r.op, r.pc, r.sb, r.ctr, x, r.vm, r.todo)
  BY RecIs DEF Rec
<1>2. [r EXCEPT !.rec = x, !.pc = p] = [[r EXCEPT !.rec = x] EXCEPT !.pc = p]
  OBVIOUS
<1>3. [Rec(r.op, r.pc, r.sb, r.ctr, x, r.vm, r.todo) EXCEPT !.pc = p]
        = Rec(r.op, p, r.sb, r.ctr, x, r.vm, r.todo)
  BY DEF Rec
<1> QED
  BY <1>1, <1>2, <1>3, Zenon

LEMMA RecTodo ==
    ASSUME NEW r \in CallRecs, NEW p, NEW x
    PROVE  [r EXCEPT !.pc = p, !.todo = x] = Rec(r.op, p, r.sb, r.ctr, r.rec, r.vm, x)
<1>1. [r EXCEPT !.pc = p] = Rec(r.op, p, r.sb, r.ctr, r.rec, r.vm, r.todo)
  BY RecIs DEF Rec
<1>2. [r EXCEPT !.pc = p, !.todo = x] = [[r EXCEPT !.pc = p] EXCEPT !.todo = x]
  OBVIOUS
<1>3. [Rec(r.op, p, r.sb, r.ctr, r.rec, r.vm, r.todo) EXCEPT !.todo = x]
        = Rec(r.op, p, r.sb, r.ctr, r.rec, r.vm, x)
  BY DEF Rec
<1> QED
  BY <1>1, <1>2, <1>3, Zenon

LEMMA RecDone ==
    ASSUME NEW r \in CallRecs, NEW x
    PROVE  [r EXCEPT !.todo = x] = Rec(r.op, r.pc, r.sb, r.ctr, r.rec, r.vm, x)
BY RecIs DEF Rec

LEMMA CallVm ==
    ASSUME CallInv, NEW k \in Calls, call[k] # Idle, NEW p, NEW x
    PROVE  [call EXCEPT ![k].vm = x, ![k].pc = p]
             = [call EXCEPT ![k] = Rec(call[k].op, p, call[k].sb, call[k].ctr, call[k].rec, x,
                                       call[k].todo)]
<1>1. call = [j \in Calls |-> call[j]] /\ call[k] \in CallRecs
  BY CallIs DEF CallInv, Local
<1>2. [call EXCEPT ![k].vm = x, ![k].pc = p] = [call EXCEPT ![k] = [call[k] EXCEPT !.vm = x, !.pc = p]]
  BY <1>1, Zenon
<1>3. [call[k] EXCEPT !.vm = x, !.pc = p]
        = Rec(call[k].op, p, call[k].sb, call[k].ctr, call[k].rec, x, call[k].todo)
  <2> DEFINE c == call[k]
  <2>1. c \in CallRecs
    BY <1>1
  <2> HIDE DEF c
  <2>2. [c EXCEPT !.vm = x, !.pc = p] = Rec(c.op, p, c.sb, c.ctr, c.rec, x, c.todo)
    BY <2>1, RecVm, Zenon
  <2> QED
    BY <2>2 DEF c
<1> QED
  BY <1>2, <1>3, Zenon

LEMMA CallRecord ==
    ASSUME CallInv, NEW k \in Calls, call[k] # Idle, NEW p, NEW x
    PROVE  [call EXCEPT ![k].rec = x, ![k].pc = p]
             = [call EXCEPT ![k] = Rec(call[k].op, p, call[k].sb, call[k].ctr, x, call[k].vm,
                                       call[k].todo)]
<1>1. call = [j \in Calls |-> call[j]] /\ call[k] \in CallRecs
  BY CallIs DEF CallInv, Local
<1>2. [call EXCEPT ![k].rec = x, ![k].pc = p] = [call EXCEPT ![k] = [call[k] EXCEPT !.rec = x, !.pc = p]]
  BY <1>1, Zenon
<1>3. [call[k] EXCEPT !.rec = x, !.pc = p]
        = Rec(call[k].op, p, call[k].sb, call[k].ctr, x, call[k].vm, call[k].todo)
  <2> DEFINE c == call[k]
  <2>1. c \in CallRecs
    BY <1>1
  <2> HIDE DEF c
  <2>2. [c EXCEPT !.rec = x, !.pc = p] = Rec(c.op, p, c.sb, c.ctr, x, c.vm, c.todo)
    BY <2>1, RecRecord, Zenon
  <2> QED
    BY <2>2 DEF c
<1> QED
  BY <1>2, <1>3, Zenon

LEMMA CallDone ==
    ASSUME CallInv, NEW k \in Calls, call[k] # Idle, NEW x
    PROVE  [call EXCEPT ![k].todo = x]
             = [call EXCEPT ![k] = Rec(call[k].op, call[k].pc, call[k].sb, call[k].ctr, call[k].rec,
                                       call[k].vm, x)]
<1>1. call[k] \in CallRecs
  BY CallIs DEF Local
<1>2. [call EXCEPT ![k].todo = x] = [call EXCEPT ![k] = [call[k] EXCEPT !.todo = x]]
  OBVIOUS
<1> QED
  BY <1>1, <1>2, RecDone, Zenon

\* The call goes on at p with new containers to do, a new record, or a VM.
LEMMA CallTakesTodo ==
    ASSUME CallInv, VmsKept, NEW k \in Calls, call[k] # Idle, NEW p, NEW x \in SUBSET Containers,
           Reaches(call[k].op, p), ~NeedsVm(p), NeedsRecord(call[k].op, p) => call[k].rec \in SbRecs,
           call' = [call EXCEPT ![k] = Rec(call[k].op, p, call[k].sb, call[k].ctr, call[k].rec,
                                           call[k].vm, x)]
    PROVE  CallInv'
<1> DEFINE c == call[k]
           r == Rec(c.op, p, c.sb, c.ctr, c.rec, c.vm, x)
<1>1. /\ c.op \in AllOps /\ c.sb \in Sandboxes /\ c.ctr \in Containers \cup {None}
      /\ c.rec \in SbRecs \cup {None} /\ c.vm \in Vms \cup {None}
      /\ NeedsCtr(c.op) => c.ctr # None
  BY CallIs DEF Local
<1>2. Local(r)
  BY <1>1, GoesLocal, ZenonT(60)
<1>3. r.pc = p /\ r.vm = c.vm
  BY SMTT(60), ZenonT(60) DEF Rec
<1>4. OnVm(r, vm')
  BY <1>1, <1>3, CallIs DEF OnVm, VmsKept, NeedsVm
<1> HIDE DEF r
<1> QED
  BY <1>2, <1>4, CallSet, ZenonT(60) DEF r

LEMMA CallTakesRecord ==
    ASSUME CallInv, VmsKept, NEW k \in Calls, call[k] # Idle, NEW p, NEW rec \in SbRecs,
           Reaches(call[k].op, p), ~NeedsVm(p),
           call' = [call EXCEPT ![k] = Rec(call[k].op, p, call[k].sb, call[k].ctr, rec,
                                           call[k].vm, call[k].todo)]
    PROVE  CallInv'
<1> DEFINE c == call[k]
           r == Rec(c.op, p, c.sb, c.ctr, rec, c.vm, c.todo)
<1>1. /\ c.op \in AllOps /\ c.sb \in Sandboxes /\ c.ctr \in Containers \cup {None}
      /\ c.todo \in SUBSET Containers /\ c.vm \in Vms \cup {None}
      /\ NeedsCtr(c.op) => c.ctr # None
  BY CallIs DEF Local
<1>2. Local(r)
  BY <1>1, GoesLocal, ZenonT(60)
<1>3. r.pc = p /\ r.vm = c.vm
  BY SMTT(60), ZenonT(60) DEF Rec
<1>4. OnVm(r, vm')
  BY <1>1, <1>3, CallIs DEF OnVm, VmsKept, NeedsVm
<1> HIDE DEF r
<1> QED
  BY <1>2, <1>4, CallSet, ZenonT(60) DEF r

LEMMA CallTakesVm ==
    ASSUME CallInv, VmsKept, NEW k \in Calls, call[k] # Idle, NEW p, NEW v \in Vms,
           Reaches(call[k].op, p), NeedsRecord(call[k].op, p) => call[k].rec \in SbRecs,
           v # None, vm'[v].st # "free",
           p \in {"pid", "running", "watch"} => vm'[v].ctr = call[k].ctr,
           call' = [call EXCEPT ![k] = Rec(call[k].op, p, call[k].sb, call[k].ctr, call[k].rec, v,
                                           call[k].todo)]
    PROVE  CallInv'
<1>1. call[k].todo \in SUBSET Containers /\ call[k].rec \in SbRecs \cup {None}
  BY CallIs
<1>2. v \in Vms \cup {None}
  OBVIOUS
<1> QED
  BY <1>1, <1>2, CallChanges, ZenonT(60)

(***************************************************************************)
(* The steps of StopInstance, in each of the four calls that make it.      *)
(***************************************************************************)
LEMMA StopGoesOn ==
    ASSUME CallInv, VmsKept, NEW k \in Calls, call[k] # Idle, call[k].pc \in Stopping,
           Goto(k, AfterStop(k))
    PROVE  CallInv'
<1>1. Local(call[k])
  BY CallIs
<1>2. /\ Reaches(call[k].op, AfterStop(k)) /\ ~NeedsVm(AfterStop(k))
      /\ NeedsRecord(call[k].op, AfterStop(k)) => call[k].rec \in SbRecs
      /\ AfterStop(k) \notin {"pid", "running", "watch"}
  BY <1>1 DEF Local, Reaches, NeedsRecord, NeedsVm, AfterStop, Stopping, StopsPod
<1> QED
  BY <1>2, CallGoes

LEMMA StopInstanceStep ==
    ASSUME CriInv, NEW k \in Calls, StopInstance(k) PROVE CriInv'
<1>1. /\ CallInv /\ MapInv /\ VmsKept /\ call[k] # Idle /\ call[k].pc = "stop"
      /\ UNCHANGED <<poolVars, storeVars, vmVars, watch, born, restarts>>
  BY VmsStay DEF CriInv, StopInstance, At, vmVars
<1> DEFINE v == instances[call[k].sb]
<1>2. CallInv'
  <2>1. CASE v = None
    BY <1>1, <2>1, StopGoesOn DEF StopInstance, Stopping
  <2>2. CASE v # None
    <3>1. Local(call[k]) /\ call[k].sb \in Sandboxes
      BY <1>1, CallIs
    <3>2. v \in Vms /\ vm'[v].st # "free"
      BY <1>1, <2>2, <3>1 DEF MapInv, Tracked, vmVars
    <3>3. call' = [call EXCEPT ![k] = Rec(call[k].op, "signal", call[k].sb, call[k].ctr,
                                          call[k].rec, v, call[k].todo)]
      <4>1. call' = [call EXCEPT ![k].vm = v, ![k].pc = "signal"]
        BY <2>2 DEF StopInstance
      <4>2. [call EXCEPT ![k].vm = v, ![k].pc = "signal"]
              = [call EXCEPT ![k] = Rec(call[k].op, "signal", call[k].sb, call[k].ctr, call[k].rec,
                                        v, call[k].todo)]
        <5> HIDE DEF v
        <5> QED
          BY <1>1, CallVm, Zenon
      <4> QED
        BY <4>1, <4>2
    <3>4. Reaches(call[k].op, "signal")
          /\ (NeedsRecord(call[k].op, "signal") => call[k].rec \in SbRecs)
      BY <1>1, <3>1 DEF Local, Reaches, NeedsRecord, Stopping, StopsPod
    <3> HIDE DEF v
    <3> QED
      BY <1>1, <2>2, <3>2, <3>3, <3>4, CallTakesVm, Zenon
  <2> QED
    BY <2>1, <2>2
<1> QED
  BY <1>1, <1>2, OnlyCall

LEMMA StopWaitStep ==
    ASSUME CriInv, NEW k \in Calls, StopWait(k) PROVE CriInv'
<1>1. CallInv /\ VmsKept
  BY VmsStay DEF CriInv, StopWait, vmVars
<1>2. CallInv'
  BY <1>1, StopGoesOn DEF StopWait, At, Stopping
<1> QED
  BY <1>2, OnlyCall DEF StopWait

(***************************************************************************)
(* A VM changes its state, or reads its configuration, and stays in the    *)
(* map.                                                                    *)
(***************************************************************************)
LEMMA VmMoves ==
    ASSUME VmInv, MapInv, NEW v \in Vms, vm[v].st # "free", NEW st \in Tracked, NEW f \in Cfgs,
           vm' = [vm EXCEPT ![v] = [st |-> st, sb |-> vm[v].sb, ctr |-> vm[v].ctr, cfg |-> f,
                               own |-> vm[v].own, over |-> vm[v].over]],
           UNCHANGED instances
    PROVE  VmInv' /\ MapInv' /\ VmsKept
<1>1. vm[v].sb # None /\ vm[v].ctr # None
  BY Started
<1>2. VmInv'
  BY <1>1 DEF VmInv, VmRecs, VmStates, Tracked
<1>3. /\ vm'[v].st = st /\ vm'[v].sb = vm[v].sb /\ vm'[v].ctr = vm[v].ctr
      /\ \A w \in Vms \ {v} : vm'[w] = vm[w]
  BY DEF VmInv
<1>4. MapInv'
  BY <1>3 DEF MapInv
<1>5. VmsKept
  BY <1>3 DEF VmsKept, Tracked
<1> QED
  BY <1>2, <1>4, <1>5

LEMMA VmDies ==
    ASSUME VmInv, MapInv, NEW v \in Vms, vm[v].st # "free", NEW st \in Tracked,
           vm' = [vm EXCEPT ![v].st = st], UNCHANGED instances
    PROVE  VmInv' /\ MapInv' /\ VmsKept
<1>1. /\ vm[v].cfg \in Cfgs
      /\ [vm[v] EXCEPT !.st = st] = [st |-> st, sb |-> vm[v].sb, ctr |-> vm[v].ctr, cfg |-> vm[v].cfg,
                             own |-> vm[v].own, over |-> vm[v].over]
  BY DEF VmInv, VmRecs
<1> QED
  BY <1>1, VmMoves, Zenon

\* A step on the VMs that leaves the records alone.
LEMMA OnlyVms ==
    ASSUME CriInv, CallInv', VmInv', MapInv', VmsKept,
           UNCHANGED <<poolVars, storeVars, watch, born, restarts>>
    PROVE  CriInv'
<1>1. PoolInv' /\ StoreInv'
  BY PoolFrame, StoreFrame DEF CriInv
<1>2. WatchInv'
  BY WatchFrame DEF CriInv
<1>3. CountInv'
  BY DEF CriInv, CountInv
<1> QED
  BY <1>1, <1>2, <1>3 DEF CriInv

\* The calls, when none of them moves.
LEMMA CallsStay == ASSUME CallInv, VmsKept, UNCHANGED call PROVE CallInv'
<1> SUFFICES ASSUME NEW j \in Calls, call[j] # Idle PROVE OnVm(call[j], vm')
  BY DEF CallInv
<1>1. OnVm(call[j], vm) /\ call[j].vm \in Vms \cup {None}
  BY CallIs
<1> QED
  BY <1>1 DEF OnVm, VmsKept

LEMMA StopSignalStep ==
    ASSUME CriInv, NEW k \in Calls, StopSignal(k) PROVE CriInv'
<1>1. /\ CallInv /\ VmsKept /\ call[k] # Idle /\ call[k].pc = "signal"
      /\ UNCHANGED <<poolVars, storeVars, vmVars, watch, born, restarts>>
  BY VmsStay DEF CriInv, StopSignal, At, vmVars
<1>2. Local(call[k])
  BY <1>1, CallIs
<1>3. CASE Goto(k, AfterStop(k))
  BY <1>1, <1>3, StopGoesOn, OnlyCall DEF Stopping
<1>4. CASE Goto(k, "kill")
  <2>1. Reaches(call[k].op, "kill") /\ call[k].vm # None
        /\ (NeedsRecord(call[k].op, "kill") => call[k].rec \in SbRecs)
    BY <1>1, <1>2 DEF Local, Reaches, NeedsRecord, NeedsVm, Stopping, StopsPod
  <2>2. CallInv'
    BY <1>1, <1>4, <2>1, CallGoes
  <2> QED
    BY <1>1, <2>2, OnlyCall
<1> QED
  BY <1>3, <1>4 DEF StopSignal

LEMMA StopKillStep ==
    ASSUME CriInv, NEW k \in Calls, StopKill(k) PROVE CriInv'
<1> DEFINE v == call[k].vm
<1>1. /\ CallInv /\ VmInv /\ MapInv /\ call[k] # Idle /\ call[k].pc = "kill"
      /\ UNCHANGED <<poolVars, storeVars, instances, watch, born, restarts>>
  BY DEF CriInv, StopKill, At
<1>2. Local(call[k]) /\ v \in Vms
  BY <1>1, CallIs DEF Local, NeedsVm
<1>3. VmInv' /\ MapInv' /\ VmsKept
  <2>1. CASE UNCHANGED vm
    BY <1>1, <2>1, VmFrame, VmsStay DEF vmVars
  <2>2. CASE Alive(v) /\ vm' = [vm EXCEPT ![v].st = "dead"]
    <3>1. vm[v].st # "free" /\ "dead" \in Tracked
      BY <2>2 DEF Alive, Tracked
    <3> HIDE DEF v
    <3> QED
      BY <1>1, <1>2, <2>2, <3>1, VmDies, Zenon
  <2> QED
    BY <2>1, <2>2 DEF StopKill
<1>4. Reaches(call[k].op, "wait") /\ call[k].vm # None
      /\ (NeedsRecord(call[k].op, "wait") => call[k].rec \in SbRecs)
  BY <1>1, <1>2 DEF Local, Reaches, NeedsRecord, NeedsVm, Stopping, StopsPod
<1>5. CallInv'
  BY <1>1, <1>3, <1>4, CallGoes DEF StopKill
<1> QED
  BY <1>1, <1>3, <1>5, OnlyVms

(***************************************************************************)
(* The other steps that only read the store and the map.                   *)
(***************************************************************************)
LEMMA StopPodSandboxStep ==
    ASSUME CriInv, NEW k \in Calls, NEW s \in Sandboxes, StopPodSandbox(k, s) PROVE CriInv'
<1>1. CallInv /\ VmsKept /\ sbs[s] \in SbRecs
  BY VmsStay DEF CriInv, StoreInv, StopPodSandbox, vmVars
<1>2. CallInv'
  BY <1>1, CallBegins DEF StopPodSandbox, Reaches, NeedsCtr, NeedsVm, Stopping, StopsPod
<1> QED
  BY <1>2, OnlyCall DEF StopPodSandbox

LEMMA RemovePodSandboxStep ==
    ASSUME CriInv, NEW k \in Calls, NEW s \in Sandboxes, RemovePodSandbox(k, s) PROVE CriInv'
<1> DEFINE p == IF sbs[s].state = "ready" THEN "rmStop" ELSE "rmList"
<1>1. CallInv /\ VmsKept /\ Begin(k, "removePod", p, s, None, None)
  BY VmsStay DEF CriInv, RemovePodSandbox, vmVars
<1>2. /\ Reaches("removePod", p) /\ ~NeedsCtr("removePod") /\ ~NeedsRecord("removePod", p)
      /\ ~NeedsVm(p)
  BY DEF Reaches, NeedsCtr, NeedsRecord, NeedsVm, Stopping
<1>3. CallInv'
  <2> HIDE DEF p
  <2> QED
    BY <1>1, <1>2, CallBegins
<1> QED
  BY <1>3, OnlyCall DEF RemovePodSandbox

LEMMA PodSandboxStatusStep ==
    ASSUME CriInv, NEW k \in Calls, NEW s \in Sandboxes, PodSandboxStatus(k, s) PROVE CriInv'
<1>1. CallInv /\ VmsKept /\ sbs[s] \in SbRecs
  BY VmsStay DEF CriInv, StoreInv, PodSandboxStatus, vmVars
<1>2. /\ Begin(k, "status", "reconcile", s, None, sbs[s])
      /\ Reaches("status", "reconcile") /\ ~NeedsCtr("status") /\ ~NeedsVm("reconcile")
  BY DEF PodSandboxStatus, Reaches, NeedsCtr, NeedsVm
<1>3. CallInv'
  <2> DEFINE rec == sbs[s]
  <2> HIDE DEF rec
  <2> QED
    BY <1>1, <1>2, CallBegins DEF rec
<1> QED
  BY <1>3, OnlyCall DEF PodSandboxStatus

LEMMA StartContainerStep ==
    ASSUME CriInv, NEW k \in Calls, NEW c \in Containers, StartContainer(k, c) PROVE CriInv'
<1> DEFINE s == ctrs[c].sb
<1>1. CallInv /\ VmsKept /\ s \in Sandboxes /\ Begin(k, "startCtr", "getSb", s, c, None)
  BY VmsStay DEF CriInv, StoreInv, CtrRecs, StartContainer, vmVars
<1>2. /\ Reaches("startCtr", "getSb") /\ ~NeedsRecord("startCtr", "getSb") /\ ~NeedsVm("getSb")
      /\ c # None
  BY CriAssumption DEF Reaches, NeedsRecord, NeedsVm
<1>3. CallInv'
  <2> HIDE DEF s
  <2> QED
    BY <1>1, <1>2, CallBegins
<1> QED
  BY <1>3, OnlyCall DEF StartContainer

LEMMA StopContainerStep ==
    ASSUME CriInv, NEW k \in Calls, NEW c \in Containers, StopContainer(k, c) PROVE CriInv'
<1> DEFINE s == ctrs[c].sb
<1>1. CallInv /\ VmsKept /\ s \in Sandboxes /\ Begin(k, "stopCtr", "stop", s, c, None)
  BY VmsStay DEF CriInv, StoreInv, CtrRecs, StopContainer, vmVars
<1>2. /\ Reaches("stopCtr", "stop") /\ ~NeedsRecord("stopCtr", "stop") /\ ~NeedsVm("stop")
      /\ c # None
  BY CriAssumption DEF Reaches, NeedsRecord, NeedsVm, Stopping
<1>3. CallInv'
  <2> HIDE DEF s
  <2> QED
    BY <1>1, <1>2, CallBegins
<1> QED
  BY <1>3, OnlyCall DEF StopContainer

LEMMA RemoveContainerStep ==
    ASSUME CriInv, NEW k \in Calls, NEW c \in Containers, RemoveContainer(k, c) PROVE CriInv'
<1> DEFINE s == ctrs[c].sb
           p == IF ctrs[c].state = "running" THEN "rcStop" ELSE "rmCtr"
<1>1. CallInv /\ VmsKept /\ s \in Sandboxes /\ Begin(k, "removeCtr", p, s, c, None)
  BY VmsStay DEF CriInv, StoreInv, CtrRecs, RemoveContainer, vmVars
<1>2. /\ Reaches("removeCtr", p) /\ ~NeedsRecord("removeCtr", p) /\ ~NeedsVm(p)
      /\ c # None
  BY CriAssumption DEF Reaches, NeedsRecord, NeedsVm, Stopping
<1>3. CallInv'
  <2> HIDE DEF s, p
  <2> QED
    BY <1>1, <1>2, CallBegins
<1> QED
  BY <1>3, OnlyCall DEF RemoveContainer

LEMMA CallLists ==
    ASSUME CallInv, VmsKept, NEW k \in Calls, call[k] # Idle, NEW p, NEW x \in SUBSET Containers,
           Reaches(call[k].op, p), ~NeedsVm(p), ~NeedsRecord(call[k].op, p),
           call' = [call EXCEPT ![k].pc = p, ![k].todo = x]
    PROVE  CallInv'
<1>1. call = [j \in Calls |-> call[j]] /\ call[k] \in CallRecs
  BY CallIs DEF CallInv, Local
<1>2. call' = [call EXCEPT ![k] = [call[k] EXCEPT !.pc = p, !.todo = x]]
  BY <1>1, ZenonT(60)
<1>3. [call[k] EXCEPT !.pc = p, !.todo = x]
        = Rec(call[k].op, p, call[k].sb, call[k].ctr, call[k].rec, call[k].vm, x)
  <2> DEFINE c == call[k]
  <2>1. c \in CallRecs
    BY <1>1
  <2> HIDE DEF c
  <2>2. [c EXCEPT !.pc = p, !.todo = x] = Rec(c.op, p, c.sb, c.ctr, c.rec, c.vm, x)
    BY <2>1, RecTodo, Zenon
  <2> QED
    BY <2>2, Zenon DEF c
<1>4. call' = [call EXCEPT ![k] = Rec(call[k].op, p, call[k].sb, call[k].ctr, call[k].rec,
                                      call[k].vm, x)]
  BY <1>2, <1>3, ZenonT(60)
<1> QED
  BY <1>4, CallTakesTodo, Zenon

LEMMA StopListStep ==
    ASSUME CriInv, NEW k \in Calls, StopList(k) PROVE CriInv'
<1> DEFINE x == {c \in ListContainers(call[k].sb) : ctrs[c].state = "running"}
<1>1. CallInv /\ VmsKept /\ call[k] # Idle /\ call[k].pc = "list" /\ x \in SUBSET Containers
      /\ call' = [call EXCEPT ![k].pc = "exitAll", ![k].todo = x]
  BY VmsStay DEF CriInv, StopList, At, ListContainers, vmVars
<1>2. Local(call[k])
  BY <1>1, CallIs
<1>3. /\ Reaches(call[k].op, "exitAll") /\ ~NeedsVm("exitAll")
      /\ ~NeedsRecord(call[k].op, "exitAll")
  BY <1>1, <1>2 DEF Local, Reaches, NeedsRecord, NeedsVm, Stopping, StopsPod
<1> HIDE DEF x
<1>4. CallInv'
  BY <1>1, <1>3, CallLists, Zenon
<1> QED
  BY <1>4, OnlyCall DEF StopList

LEMMA RemoveListStep ==
    ASSUME CriInv, NEW k \in Calls, RemoveList(k) PROVE CriInv'
<1> DEFINE x == ListContainers(call[k].sb)
<1>1. CallInv /\ VmsKept /\ call[k] # Idle /\ call[k].pc = "rmList" /\ x \in SUBSET Containers
      /\ call' = [call EXCEPT ![k].pc = "rmCtrs", ![k].todo = x]
  BY VmsStay DEF CriInv, RemoveList, At, ListContainers, vmVars
<1>2. Local(call[k])
  BY <1>1, CallIs
<1>3. /\ Reaches(call[k].op, "rmCtrs") /\ ~NeedsVm("rmCtrs")
      /\ ~NeedsRecord(call[k].op, "rmCtrs")
  BY <1>1, <1>2 DEF Local, Reaches, NeedsRecord, NeedsVm, Stopping, StopsPod
<1> HIDE DEF x
<1>4. CallInv'
  BY <1>1, <1>3, CallLists, ZenonT(60)
<1> QED
  BY <1>4, OnlyCall DEF RemoveList

\* The record read again is the one stored now.
LEMMA CallReads ==
    ASSUME CriInv, VmsKept, NEW k \in Calls, call[k] # Idle, NEW p,
           sbs[call[k].sb] # None, Reaches(call[k].op, p), ~NeedsVm(p),
           call' = [call EXCEPT ![k].rec = sbs[call[k].sb], ![k].pc = p]
    PROVE  CallInv'
<1> DEFINE rec == sbs[call[k].sb]
<1>1. CallInv /\ StoreInv /\ call[k].sb \in Sandboxes
  BY CallIs DEF CriInv
<1>2. rec \in SbRecs
  BY <1>1 DEF StoreInv
<1>3. call' = [call EXCEPT ![k].rec = rec, ![k].pc = p]
  OBVIOUS
<1> HIDE DEF rec
<1>4. call' = [call EXCEPT ![k] = Rec(call[k].op, p, call[k].sb, call[k].ctr, rec, call[k].vm,
                                      call[k].todo)]
  BY <1>1, <1>3, CallRecord, Zenon
<1> QED
  BY <1>1, <1>2, <1>4, CallTakesRecord, Zenon

LEMMA RemoveStopStep ==
    ASSUME CriInv, NEW k \in Calls, RemoveStop(k) PROVE CriInv'
<1>1. CallInv /\ VmsKept /\ call[k] # Idle /\ call[k].pc = "rmStop"
  BY VmsStay DEF CriInv, RemoveStop, At, vmVars
<1>2. Local(call[k])
  BY <1>1, CallIs, SMTT(60), ZenonT(60)
<1>3. /\ Reaches(call[k].op, "rmList") /\ Reaches(call[k].op, "stop")
      /\ ~NeedsVm("rmList") /\ ~NeedsVm("stop") /\ ~NeedsRecord(call[k].op, "rmList")
  BY <1>1, <1>2 DEF Local, Reaches, NeedsRecord, NeedsVm, Stopping, StopsPod
<1>4. CallInv'
  <2>1. CASE sbs[call[k].sb] = None
    BY <1>1, <1>3, <2>1, CallGoes DEF RemoveStop
  <2>2. CASE sbs[call[k].sb] # None
    BY <1>1, <1>3, <2>2, CallReads DEF RemoveStop
  <2> QED
    BY <2>1, <2>2
<1> QED
  BY <1>4, OnlyCall DEF RemoveStop

LEMMA StartGetSandboxStep ==
    ASSUME CriInv, NEW k \in Calls, StartGetSandbox(k) PROVE CriInv'
<1>1. CallInv /\ VmsKept /\ call[k] # Idle /\ call[k].pc = "getSb"
  BY VmsStay DEF CriInv, StartGetSandbox, At, vmVars
<1>2. Local(call[k])
  BY <1>1, CallIs, SMTT(60), ZenonT(60)
<1>3. Reaches(call[k].op, "restore") /\ ~NeedsVm("restore")
  BY <1>1, <1>2 DEF Local, Reaches, NeedsVm, Stopping, StopsPod
<1>4. CallInv'
  <2>1. CASE sbs[call[k].sb] = None
    BY <1>1, <2>1, CallReturns DEF StartGetSandbox
  <2>2. CASE sbs[call[k].sb] # None
    BY <1>1, <1>3, <2>2, CallReads DEF StartGetSandbox
  <2> QED
    BY <2>1, <2>2
<1> QED
  BY <1>4, OnlyCall DEF StartGetSandbox

LEMMA StatusReconcileStep ==
    ASSUME CriInv, NEW k \in Calls, StatusReconcile(k) PROVE CriInv'
<1>1. CallInv /\ VmsKept /\ call[k] # Idle /\ call[k].pc = "reconcile"
  BY VmsStay DEF CriInv, StatusReconcile, At, vmVars
<1>2. Local(call[k])
  BY <1>1, CallIs
<1>3. /\ Reaches(call[k].op, "statusUpdate") /\ ~NeedsVm("statusUpdate")
      /\ call[k].rec \in SbRecs
  BY <1>1, <1>2, SMTT(60), ZenonT(60) DEF Local, Reaches, NeedsRecord, NeedsVm, Stopping, StopsPod
<1>4. CallInv'
  <2>1. CASE Goto(k, "statusUpdate")
    BY <1>1, <1>3, <2>1, CallGoes
  <2>2. CASE Return(k)
    BY <1>1, <2>2, CallReturns
  <2> QED
    BY <2>1, <2>2 DEF StatusReconcile
<1> QED
  BY <1>4, OnlyCall DEF StatusReconcile

LEMMA RemoveCtrStopStep ==
    ASSUME CriInv, NEW k \in Calls, RemoveCtrStop(k) PROVE CriInv'
<1>1. CallInv /\ VmsKept /\ call[k] # Idle /\ call[k].pc = "rcStop"
  BY VmsStay DEF CriInv, RemoveCtrStop, At, vmVars
<1>2. Local(call[k])
  BY <1>1, CallIs, SMTT(60), ZenonT(60)
<1>3. /\ Reaches(call[k].op, "stop") /\ Reaches(call[k].op, "rmCtr")
      /\ ~NeedsVm("stop") /\ ~NeedsVm("rmCtr")
      /\ ~NeedsRecord(call[k].op, "stop") /\ ~NeedsRecord(call[k].op, "rmCtr")
  BY <1>1, <1>2 DEF Local, Reaches, NeedsRecord, NeedsVm, Stopping, StopsPod
<1>4. CallInv'
  <2>1. CASE Goto(k, "stop")
    BY <1>1, <1>3, <2>1, CallGoes
  <2>2. CASE Goto(k, "rmCtr")
    BY <1>1, <1>3, <2>2, CallGoes
  <2> QED
    BY <2>1, <2>2, SMTT(60), ZenonT(60) DEF RemoveCtrStop
<1> QED
  BY <1>4, OnlyCall DEF RemoveCtrStop

(***************************************************************************)
(* The store's operations keep its types.                                  *)
(***************************************************************************)
LEMMA RecordStates ==
    ASSUME NEW rec \in SbRecs PROVE Ready(rec) \in SbRecs /\ NotReady(rec) \in SbRecs
BY DEF SbRecs, Ready, NotReady

LEMMA UpdateSandboxOk ==
    ASSUME StoreInv, NEW s \in Sandboxes, NEW rec \in SbRecs, UpdateSandbox(s, rec)
    PROVE  StoreInv'
BY DEF StoreInv, UpdateSandbox

LEMMA UpdateContainerOk ==
    ASSUME StoreInv, NEW c \in Containers, NEW st \in {"created", "running", "exited"},
           UpdateContainer(c, st)
    PROVE  StoreInv'
<1>1. CASE ctrs[c] = None
  BY <1>1 DEF StoreInv, UpdateContainer
<1>2. CASE ctrs[c] # None
  <2>1. ctrs[c] \in CtrRecs /\ ctrs' = [ctrs EXCEPT ![c].state = st]
    BY <1>2 DEF StoreInv, UpdateContainer
  <2>2. [ctrs[c] EXCEPT !.state = st] \in CtrRecs
    BY <2>1 DEF CtrRecs
  <2>3. ctrs' \in [Containers -> CtrRecs \cup {None}]
    BY <2>1, <2>2 DEF StoreInv
  <2> QED
    BY <2>3 DEF StoreInv, UpdateContainer
<1> QED
  BY <1>1, <1>2

LEMMA DeleteContainerOk ==
    ASSUME StoreInv, NEW c \in Containers, DeleteContainer(c)
    PROVE  StoreInv'
BY DEF StoreInv, DeleteContainer

LEMMA DeleteSandboxOk ==
    ASSUME StoreInv, NEW s \in Sandboxes, DeleteSandbox(s)
    PROVE  StoreInv'
BY DEF StoreInv, DeleteSandbox, Cfgs

LEMMA WriteConfigOk ==
    ASSUME StoreInv, NEW s \in Sandboxes, NEW f \in Cfgs, WriteConfig(s, f)
    PROVE  StoreInv'
BY DEF StoreInv, WriteConfig

LEMMA TeardownOk ==
    ASSUME PoolInv, NEW t, NEW i, TeardownSandbox(t, i)
    PROVE  PoolInv'
BY Zenon DEF PoolInv, TeardownSandbox

\* A step of a call that writes records.
LEMMA Records ==
    ASSUME CriInv, CallInv', StoreInv',
           UNCHANGED <<poolVars, vmVars, watch, born, restarts>>
    PROVE  CriInv'
<1>1. PoolInv' /\ CountInv'
  BY PoolFrame DEF CriInv, CountInv
<1> QED
  BY <1>1, OnlyRecords

(***************************************************************************)
(* The steps of the calls that write records or use the pools.             *)
(***************************************************************************)
LEMMA RunPodSandboxStep ==
    ASSUME CriInv, NEW k \in Calls, NEW s \in Sandboxes, NEW t \in Taps, NEW i \in IPs,
           RunPodSandbox(k, s, t, i)
    PROVE  CriInv'
<1> DEFINE rec == [state |-> "notready", tap |-> t, ip |-> i]
<1>1. CallInv /\ VmsKept /\ Begin(k, "runPod", "create", s, None, rec)
  BY VmsStay DEF CriInv, RunPodSandbox, vmVars
<1>2. rec \in SbRecs
  BY DEF SbRecs
<1>3. /\ Reaches("runPod", "create") /\ ~NeedsCtr("runPod") /\ ~NeedsVm("create")
  BY DEF Reaches, NeedsCtr, NeedsVm
<1>5. CallInv'
  <2> HIDE DEF rec
  <2> QED
    BY <1>1, <1>2, <1>3, CallBegins
<1>6. PoolInv'
  BY SMTT(60), ZenonT(60) DEF CriInv, PoolInv, RunPodSandbox, SetupSandbox
<1>7. StoreInv' /\ CountInv'
  BY StoreFrame DEF CriInv, CountInv, RunPodSandbox, storeVars
<1> QED
  BY <1>5, <1>6, <1>7, OnlyRecords DEF RunPodSandbox

LEMMA RunCreateStep ==
    ASSUME CriInv, NEW k \in Calls, RunCreate(k) PROVE CriInv'
<1>1. CallInv /\ VmsKept /\ call[k] # Idle /\ call[k].pc = "create" /\ StoreInv
      /\ UNCHANGED <<cfg, ctrs, vmVars, watch, born, restarts>>
  BY VmsStay, SMTT(60), ZenonT(60) DEF CriInv, RunCreate, At, vmVars
<1>2. Local(call[k]) /\ call[k].sb \in Sandboxes /\ call[k].rec \in SbRecs
      /\ Reaches(call[k].op, "placeholder")
  BY <1>1, CallIs, SMTT(60), ZenonT(60) DEF Local, Reaches, NeedsRecord, Stopping, StopsPod
<1>3. CountInv'
  BY <1>1 DEF CriInv, CountInv
<1>4. ~NeedsVm("placeholder")
  BY DEF NeedsVm
<1>5. CASE /\ sbs' = [sbs EXCEPT ![call[k].sb] = call[k].rec]
           /\ sbDir' = sbDir \cup {call[k].sb}
           /\ Goto(k, "placeholder")
           /\ UNCHANGED poolVars
  <2>1. CallInv'
    BY <1>1, <1>2, <1>4, <1>5, CallGoes, SMTT(60), ZenonT(60)
  <2>2. StoreInv'
    BY <1>1, <1>2, <1>5 DEF StoreInv
  <2>3. PoolInv'
    BY <1>5, PoolFrame, SMTT(60), ZenonT(60) DEF CriInv
  <2> QED
    BY <1>1, <1>3, <2>1, <2>2, <2>3, OnlyRecords, SMTT(60), ZenonT(60)
<1>6. CASE /\ TeardownSandbox(call[k].rec.tap, call[k].rec.ip)
           /\ sbDir' \in {sbDir, sbDir \cup {call[k].sb}}
           /\ Return(k)
           /\ UNCHANGED sbs
  <2>1. CallInv'
    BY <1>1, <1>6, CallReturns, SMTT(60), ZenonT(60)
  <2>2. StoreInv'
    BY <1>1, <1>2, <1>6 DEF StoreInv
  <2>3. PoolInv'
    BY <1>6, TeardownOk DEF CriInv
  <2> QED
    BY <1>1, <1>3, <2>1, <2>2, <2>3, OnlyRecords
<1> QED
  BY <1>5, <1>6, SMTT(60), ZenonT(60) DEF RunCreate

LEMMA RunConfigStep ==
    ASSUME CriInv, NEW k \in Calls, RunConfig(k) PROVE CriInv'
<1>1. CallInv /\ VmsKept /\ call[k] # Idle /\ call[k].pc = "placeholder" /\ StoreInv
  BY VmsStay DEF CriInv, RunConfig, At, vmVars
<1>2. Local(call[k]) /\ call[k].sb \in Sandboxes
  BY <1>1, CallIs, SMTT(60), ZenonT(60)
<1>3. Reaches(call[k].op, "ready") /\ ~NeedsVm("ready") /\ call[k].rec \in SbRecs
  BY <1>1, <1>2, SMTT(60), ZenonT(60) DEF Local, Reaches, NeedsRecord, NeedsVm, Stopping, StopsPod
<1>4. CallInv'
  BY <1>1, <1>3, CallGoes DEF RunConfig
<1>5. StoreInv'
  BY <1>1, <1>2, WriteConfigOk DEF RunConfig, Cfgs
<1> QED
  BY <1>4, <1>5, Records DEF RunConfig

LEMMA RunReadyStep ==
    ASSUME CriInv, NEW k \in Calls, RunReady(k) PROVE CriInv'
<1>1. CallInv /\ VmsKept /\ call[k] # Idle /\ call[k].pc = "ready" /\ StoreInv
  BY VmsStay, SMTT(60), ZenonT(60) DEF CriInv, RunReady, At, vmVars
<1>2. call[k].sb \in Sandboxes /\ call[k].rec \in SbRecs
  BY <1>1, CallIs, SMTT(60), ZenonT(60) DEF Local, Reaches, NeedsRecord, Stopping, StopsPod
<1>3. CallInv'
  BY <1>1, CallReturns DEF RunReady
<1>4. StoreInv'
  BY <1>1, <1>2, RecordStates, UpdateSandboxOk DEF RunReady
<1> QED
  BY <1>3, <1>4, Records DEF RunReady

LEMMA StopTeardownStep ==
    ASSUME CriInv, NEW k \in Calls, StopTeardown(k) PROVE CriInv'
<1>1. CallInv /\ VmsKept /\ call[k] # Idle /\ call[k].pc = "teardown"
      /\ UNCHANGED <<storeVars, vmVars, watch, born, restarts>>
  BY VmsStay DEF CriInv, StopTeardown, At, vmVars
<1>2. Local(call[k])
  BY <1>1, CallIs, SMTT(60), ZenonT(60)
<1>3. Reaches(call[k].op, "notready") /\ ~NeedsVm("notready") /\ call[k].rec \in SbRecs
  BY <1>1, <1>2, SMTT(60), ZenonT(60) DEF Local, Reaches, NeedsRecord, NeedsVm, Stopping, StopsPod
<1>4. CallInv'
  BY <1>1, <1>3, CallGoes DEF StopTeardown
<1>5. PoolInv'
  BY TeardownOk DEF CriInv, StopTeardown
<1>6. StoreInv' /\ CountInv'
  BY <1>1, StoreFrame DEF CriInv, CountInv, storeVars
<1> QED
  BY <1>1, <1>4, <1>5, <1>6, OnlyRecords, SMTT(60), ZenonT(60)

LEMMA StopNotReadyStep ==
    ASSUME CriInv, NEW k \in Calls, StopNotReady(k) PROVE CriInv'
<1>1. CallInv /\ VmsKept /\ call[k] # Idle /\ call[k].pc = "notready" /\ StoreInv
  BY VmsStay, SMTT(60), ZenonT(60) DEF CriInv, StopNotReady, At, vmVars
<1>2. Local(call[k]) /\ call[k].sb \in Sandboxes /\ call[k].rec \in SbRecs
  BY <1>1, CallIs, ZenonT(60) DEF Local, Reaches, NeedsRecord, Stopping, StopsPod
<1>3. Reaches(call[k].op, "list") /\ ~NeedsVm("list") /\ ~NeedsRecord(call[k].op, "list")
  BY <1>1, <1>2, SMTT(60), ZenonT(60) DEF Local, Reaches, NeedsRecord, NeedsVm, Stopping, StopsPod
<1>4. CallInv'
  BY <1>1, <1>3, CallGoes DEF StopNotReady
<1>5. StoreInv'
  BY <1>1, <1>2, RecordStates, UpdateSandboxOk DEF StopNotReady
<1> QED
  BY <1>4, <1>5, Records DEF StopNotReady

LEMMA StatusUpdateStep ==
    ASSUME CriInv, NEW k \in Calls, StatusUpdate(k) PROVE CriInv'
<1>1. CallInv /\ VmsKept /\ call[k] # Idle /\ call[k].pc = "statusUpdate" /\ StoreInv
  BY VmsStay, SMTT(60), ZenonT(60) DEF CriInv, StatusUpdate, At, vmVars
<1>2. call[k].sb \in Sandboxes /\ call[k].rec \in SbRecs
  BY <1>1, CallIs, SMTT(60), ZenonT(60) DEF Local, Reaches, NeedsRecord, Stopping, StopsPod
<1>3. CallInv'
  BY <1>1, CallReturns DEF StatusUpdate
<1>4. StoreInv'
  BY <1>1, <1>2, RecordStates, UpdateSandboxOk DEF StatusUpdate
<1> QED
  BY <1>3, <1>4, Records DEF StatusUpdate

LEMMA StartPidStep ==
    ASSUME CriInv, NEW k \in Calls, StartPid(k) PROVE CriInv'
<1>1. CallInv /\ VmsKept /\ call[k] # Idle /\ call[k].pc = "pid" /\ StoreInv
  BY VmsStay, SMTT(60), ZenonT(60) DEF CriInv, StartPid, At, vmVars
<1>2. Local(call[k]) /\ call[k].sb \in Sandboxes /\ call[k].rec \in SbRecs
  BY <1>1, CallIs, SMTT(60), ZenonT(60) DEF Local, NeedsRecord
<1>3. Reaches(call[k].op, "running") /\ call[k].vm # None /\ call[k].rec \in SbRecs
  BY <1>1, <1>2, SMTT(60), ZenonT(60) DEF Local, Reaches, NeedsRecord, NeedsVm, Stopping, StopsPod
<1>4. CallInv'
  BY <1>1, <1>3, CallGoes, SMTT(60), ZenonT(60) DEF StartPid
<1>5. StoreInv'
  BY <1>1, <1>2, UpdateSandboxOk DEF StartPid
<1> QED
  BY <1>4, <1>5, Records DEF StartPid

\* A call takes one container off its list.
LEMMA OneDone ==
    ASSUME CallInv, VmsKept, NEW k \in Calls, call[k] # Idle, NEW x \in SUBSET Containers,
           call[k].pc \in {"exitAll", "rmCtrs"},
           call' = [call EXCEPT ![k].todo = x]
    PROVE  CallInv'
<1>1. Local(call[k])
  BY CallIs
<1>2. /\ Reaches(call[k].op, call[k].pc) /\ ~NeedsVm(call[k].pc)
      /\ NeedsRecord(call[k].op, call[k].pc) => call[k].rec \in SbRecs
  BY <1>1 DEF Local, NeedsVm
<1>3. call' = [call EXCEPT ![k] = Rec(call[k].op, call[k].pc, call[k].sb, call[k].ctr,
                                      call[k].rec, call[k].vm, x)]
  BY CallDone, Zenon
<1> QED
  BY <1>2, <1>3, CallTakesTodo, Zenon

LEMMA StopExitAllStep ==
    ASSUME CriInv, NEW k \in Calls, StopExitAll(k) PROVE CriInv'
<1>1. CallInv /\ VmsKept /\ call[k] # Idle /\ call[k].pc = "exitAll" /\ StoreInv
      /\ UNCHANGED <<poolVars, vmVars, watch, born, restarts>>
  BY VmsStay DEF CriInv, StopExitAll, At, vmVars
<1>2. Local(call[k]) /\ call[k].todo \in SUBSET Containers
  BY <1>1, CallIs
<1>3. ASSUME NEW c \in call[k].todo, UpdateContainer(c, "exited"),
             call' = [call EXCEPT ![k].todo = @ \ {c}]
      PROVE  CriInv'
  <2> DEFINE x == call[k].todo \ {c}
  <2>1. /\ call[k].pc \in {"exitAll", "rmCtrs"} /\ x \in SUBSET Containers
        /\ call' = [call EXCEPT ![k].todo = x]
    BY <1>1, <1>2, <1>3
  <2>2. CallInv'
    <3> HIDE DEF x
    <3> QED
      BY <1>1, <2>1, OneDone, Zenon
  <2>3. StoreInv'
    BY <1>1, <1>2, <1>3, UpdateContainerOk
  <2> QED
    BY <1>1, <2>2, <2>3, Records
<1>4. CASE /\ IF call[k].op = "stopPod" THEN Return(k) ELSE Goto(k, "rmList")
           /\ UNCHANGED storeVars
  <2>1. CASE Return(k)
    BY <1>1, <1>4, <2>1, CallReturns, OnlyCall
  <2>2. CASE call[k].op # "stopPod" /\ Goto(k, "rmList")
    <3>1. /\ Reaches(call[k].op, "rmList") /\ ~NeedsVm("rmList")
          /\ ~NeedsRecord(call[k].op, "rmList")
      BY <1>1, <1>2, <2>2, SMTT(60), ZenonT(60) DEF Local, Reaches, NeedsRecord, NeedsVm, Stopping, StopsPod
    <3>2. CallInv'
      BY <1>1, <2>2, <3>1, CallGoes
    <3> QED
      BY <1>1, <1>4, <3>2, OnlyCall, SMTT(60), ZenonT(60)
  <2> QED
    BY <1>4, <2>1, <2>2
<1> QED
  BY <1>3, <1>4 DEF StopExitAll

LEMMA RemoveRecordsStep ==
    ASSUME CriInv, NEW k \in Calls, RemoveRecords(k) PROVE CriInv'
<1>1. CallInv /\ VmsKept /\ call[k] # Idle /\ call[k].pc = "rmCtrs" /\ StoreInv
      /\ UNCHANGED <<poolVars, vmVars, watch, born, restarts>>
  BY VmsStay DEF CriInv, RemoveRecords, At, vmVars
<1>2. call[k].todo \in SUBSET Containers /\ call[k].sb \in Sandboxes
  BY <1>1, CallIs
<1>3. ASSUME NEW c \in call[k].todo, DeleteContainer(c),
             call' = [call EXCEPT ![k].todo = @ \ {c}]
      PROVE  CriInv'
  <2> DEFINE x == call[k].todo \ {c}
  <2>1. /\ call[k].pc \in {"exitAll", "rmCtrs"} /\ x \in SUBSET Containers
        /\ call' = [call EXCEPT ![k].todo = x]
    BY <1>1, <1>2, <1>3
  <2>2. CallInv'
    <3> HIDE DEF x
    <3> QED
      BY <1>1, <2>1, OneDone, ZenonT(60)
  <2>3. StoreInv'
    BY <1>1, <1>2, <1>3, DeleteContainerOk
  <2> QED
    BY <1>1, <2>2, <2>3, Records
<1>4. CASE DeleteSandbox(call[k].sb) /\ Return(k)
  <2>1. CallInv'
    BY <1>1, <1>4, CallReturns
  <2>2. StoreInv'
    BY <1>1, <1>2, <1>4, DeleteSandboxOk, SMTT(60), ZenonT(60)
  <2> QED
    BY <1>1, <2>1, <2>2, Records
<1> QED
  BY <1>3, <1>4 DEF RemoveRecords

LEMMA CreateContainerStep ==
    ASSUME CriInv, NEW k \in Calls, NEW s \in Sandboxes, NEW c \in Containers,
           CreateContainer(k, s, c)
    PROVE  CriInv'
<1>1. CallInv /\ VmsKept /\ Begin(k, "createCtr", "newCtr", s, c, None)
      /\ UNCHANGED <<poolVars, storeVars, vmVars, watch, restarts>>
  BY VmsStay DEF CriInv, CreateContainer, vmVars
<1>2. /\ Reaches("createCtr", "newCtr") /\ ~NeedsVm("newCtr")
      /\ ~NeedsRecord("createCtr", "newCtr") /\ c # None
  BY CriAssumption DEF Reaches, NeedsRecord, NeedsVm, Stopping
<1>3. CallInv'
  BY <1>1, <1>2, CallBegins, SMTT(60), Z3T(60)
<1>4. PoolInv' /\ StoreInv' /\ CountInv'
  BY <1>1, PoolFrame, StoreFrame DEF CriInv, CountInv, storeVars, CreateContainer
<1> QED
  BY <1>1, <1>3, <1>4, OnlyRecords

LEMMA CreateRecordStep ==
    ASSUME CriInv, NEW k \in Calls, CreateRecord(k) PROVE CriInv'
<1>1. CallInv /\ VmsKept /\ call[k] # Idle /\ call[k].pc = "newCtr" /\ StoreInv
      /\ UNCHANGED <<poolVars, sbs, sbDir, cfg, vmVars, watch, born, restarts>>
  BY VmsStay DEF CriInv, CreateRecord, At, vmVars
<1>2. Local(call[k]) /\ call[k].sb \in Sandboxes /\ call[k].ctr \in Containers
  BY <1>1, CallIs, ZenonT(60) DEF Local, NeedsCtr, Reaches, Stopping, StopsPod
<1> DEFINE rec == [sb |-> call[k].sb, state |-> "created"]
<1>3. CASE ctrs' = [ctrs EXCEPT ![call[k].ctr] = rec] /\ Goto(k, "ctrConfig")
  <2>1. Reaches(call[k].op, "ctrConfig") /\ ~NeedsVm("ctrConfig")
        /\ ~NeedsRecord(call[k].op, "ctrConfig")
    BY <1>1, <1>2, SMTT(60), ZenonT(60) DEF Local, Reaches, NeedsRecord, NeedsVm, Stopping, StopsPod
  <2>2. CallInv'
    BY <1>1, <1>3, <2>1, CallGoes
  <2>3. rec \in CtrRecs /\ rec.state # "running"
    BY <1>2, SMTT(60), ZenonT(60) DEF CtrRecs
  <2> HIDE DEF rec
  <2>4. StoreInv'
    BY <1>1, <1>2, <1>3, <2>3 DEF StoreInv
  <2> QED
    BY <1>1, <2>2, <2>4, Records, SMTT(60), ZenonT(60)
<1>4. CASE Return(k) /\ UNCHANGED ctrs
  BY <1>1, <1>4, CallReturns, OnlyCall DEF storeVars
<1> QED
  BY <1>3, <1>4 DEF CreateRecord

LEMMA CreateConfigStep ==
    ASSUME CriInv, NEW k \in Calls, CreateConfig(k) PROVE CriInv'
<1>1. CallInv /\ VmsKept /\ call[k] # Idle /\ StoreInv
  BY VmsStay DEF CriInv, CreateConfig, At, vmVars
<1>2. call[k].sb \in Sandboxes /\ call[k].ctr \in Cfgs
  BY <1>1, CallIs DEF Cfgs
<1>3. CallInv'
  BY <1>1, CallReturns DEF CreateConfig
<1>4. StoreInv'
  BY <1>1, <1>2, WriteConfigOk DEF CreateConfig
<1> QED
  BY <1>3, <1>4, Records DEF CreateConfig

LEMMA RestoreFailsStep ==
    ASSUME CriInv, NEW k \in Calls, RestoreFails(k) PROVE CriInv'
<1>1. CallInv /\ VmsKept /\ call[k] # Idle /\ StoreInv
  BY VmsStay DEF CriInv, RestoreFails, At, vmVars
<1>2. call[k].sb \in Sandboxes
  BY <1>1, CallIs
<1>3. CallInv'
  BY <1>1, CallReturns DEF RestoreFails
<1>4. StoreInv'
  BY <1>1, <1>2, SMTT(60), ZenonT(60) DEF RestoreFails, StoreInv
<1> QED
  BY <1>3, <1>4, Records DEF RestoreFails

LEMMA StopExitedStep ==
    ASSUME CriInv, NEW k \in Calls, StopExited(k) PROVE CriInv'
<1>1. CallInv /\ VmsKept /\ call[k] # Idle /\ call[k].pc = "exited" /\ StoreInv
  BY VmsStay DEF CriInv, StopExited, At, vmVars
<1>2. Local(call[k]) /\ call[k].ctr \in Containers
  BY <1>1, CallIs, ZenonT(60) DEF Local, NeedsCtr, Reaches, Stopping, StopsPod
<1>3. StoreInv'
  BY <1>1, <1>2, UpdateContainerOk DEF StopExited
<1>4. CallInv'
  <2>1. CASE Return(k)
    BY <1>1, <2>1, CallReturns, SMTT(60), ZenonT(60)
  <2>2. CASE call[k].op # "stopCtr" /\ Goto(k, "rmCtr")
    <3>1. /\ Reaches(call[k].op, "rmCtr") /\ ~NeedsVm("rmCtr")
          /\ ~NeedsRecord(call[k].op, "rmCtr")
      BY <1>1, <1>2, <2>2 DEF Local, Reaches, NeedsRecord, NeedsVm, Stopping, StopsPod
    <3> QED
      BY <1>1, <2>2, <3>1, CallGoes, SMTT(60), ZenonT(60)
  <2> QED
    BY <2>1, <2>2 DEF StopExited
<1> QED
  BY <1>3, <1>4, Records, SMTT(60), ZenonT(60) DEF StopExited

LEMMA RemoveCtrStep ==
    ASSUME CriInv, NEW k \in Calls, RemoveCtr(k) PROVE CriInv'
<1>1. CallInv /\ VmsKept /\ call[k] # Idle /\ call[k].pc = "rmCtr" /\ StoreInv
  BY VmsStay, SMTT(60), ZenonT(60) DEF CriInv, RemoveCtr, At, vmVars
<1>2. call[k].ctr \in Containers
  BY <1>1, CallIs, ZenonT(60) DEF Local, NeedsCtr, Reaches, Stopping, StopsPod
<1>3. CallInv'
  BY <1>1, CallReturns DEF RemoveCtr
<1>4. StoreInv'
  BY <1>1, <1>2, DeleteContainerOk DEF RemoveCtr
<1> QED
  BY <1>3, <1>4, Records DEF RemoveCtr

(***************************************************************************)
(* StartContainer: Restore tracks the VM, then the container is recorded   *)
(* as running and its watcher is started.                                  *)
(***************************************************************************)
LEMMA NewVm ==
    ASSUME VmInv, MapInv, NEW v \in Vms, vm[v] = NoVm, NEW s \in Sandboxes, NEW c \in Containers,
           NEW O \in SUBSET Vms,
           vm' = [w \in Vms |->
                    IF w = v THEN [st |-> "starting", sb |-> s, ctr |-> c, cfg |-> None,
                                   own |-> TRUE, over |-> O # {}]
                    ELSE [vm[w] EXCEPT !.over = @ \/ w \in O]],
           \A w \in O : vm[w] # NoVm,
           instances' = [instances EXCEPT ![s] = v]
    PROVE  VmInv' /\ MapInv' /\ VmsKept
<1>1. s # None /\ c # None
  BY PoolAssumption, CriAssumption, Zenon
<1>2. /\ vm'[v] = [st |-> "starting", sb |-> s, ctr |-> c, cfg |-> None,
                   own |-> TRUE, over |-> O # {}]
      /\ \A w \in Vms \ {v} : vm'[w] = [vm[w] EXCEPT !.over = @ \/ w \in O]
  OBVIOUS
<1>3. ASSUME NEW w \in Vms \ {v}
      PROVE  /\ vm'[w] \in VmRecs /\ vm'[w].st = vm[w].st /\ vm'[w].sb = vm[w].sb
             /\ vm'[w].ctr = vm[w].ctr /\ (w \notin O => vm'[w] = vm[w])
  <2>1. vm[w] \in VmRecs /\ vm'[w] = [vm[w] EXCEPT !.over = @ \/ w \in O]
    BY <1>2 DEF VmInv
  <2> QED
    BY <2>1 DEF VmRecs
<1>4. vm'[v] \in VmRecs /\ vm'[v].st = "starting" /\ vm'[v].sb = s /\ vm'[v].ctr = c
  BY <1>2 DEF VmRecs, VmStates, Cfgs
<1>5. VmInv'
  <2>1. vm' \in [Vms -> VmRecs]
    BY <1>3, <1>4, Zenon
  <2>2. ASSUME NEW w \in Vms
        PROVE  vm'[w] = NoVm \/ (vm'[w].st # "free" /\ vm'[w].sb # None /\ vm'[w].ctr # None)
    <3>1. CASE w = v
      BY <1>1, <1>4, <3>1
    <3>2. CASE w # v
      BY <1>3, <3>2 DEF VmInv
    <3> QED
      BY <3>1, <3>2
  <2> QED
    BY <2>1, <2>2 DEF VmInv
<1>6. vm[v].st = "free" /\ "free" \notin Tracked /\ "starting" \in Tracked
  BY DEF NoVm, Tracked
<1>7. instances' \in [Sandboxes -> Vms \cup {None}]
  BY DEF MapInv
<1>8. ASSUME NEW x \in Sandboxes, instances'[x] # None
      PROVE  vm'[instances'[x]].sb = x /\ vm'[instances'[x]].st \in Tracked
  <2>1. CASE x = s
    BY <1>4, <1>6, <2>1 DEF MapInv
  <2>2. CASE x # s
    <3>1. instances'[x] = instances[x]
      BY <2>2 DEF MapInv
    <3>2. instances[x] \in Vms /\ vm[instances[x]].sb = x /\ vm[instances[x]].st \in Tracked
      BY <1>8, <3>1 DEF MapInv
    <3>3. instances[x] # v
      BY <1>6, <3>2
    <3> QED
      BY <1>3, <3>1, <3>2, <3>3
  <2> QED
    BY <2>1, <2>2
<1>9. MapInv'
  BY <1>7, <1>8 DEF MapInv
<1>10. VmsKept
  BY <1>3, <1>6 DEF VmsKept
<1> QED
  BY <1>5, <1>9, <1>10

LEMMA RestoreStep ==
    ASSUME CriInv, NEW k \in Calls, NEW v \in Vms, Restore(k, v) PROVE CriInv'
<1>1. /\ CallInv /\ VmInv /\ MapInv /\ WatchInv /\ StoreInv /\ call[k] # Idle
      /\ call[k].pc = "restore" /\ vm[v] = NoVm
  BY SMTT(60), ZenonT(60) DEF CriInv, Restore, At
<1>2. Local(call[k]) /\ call[k].sb \in Sandboxes
  BY <1>1, CallIs
<1>3. call[k].ctr \in Containers /\ call[k].rec \in SbRecs /\ Reaches(call[k].op, "pid")
  BY <1>1, <1>2, CallIs, Zenon DEF Local, Reaches, NeedsCtr, NeedsRecord, Stopping, StopsPod
<1>4. VmInv' /\ MapInv' /\ VmsKept
  <2> DEFINE s == call[k].sb
             c == call[k].ctr
             O == Mapped(s)
  <2>1. O \in SUBSET Vms /\ \A w \in O : vm[w] # NoVm
    BY NoVmIs DEF Mapped
  <2>2. s \in Sandboxes /\ c \in Containers
    BY <1>2, <1>3
  <2>3. vm' = [w \in Vms |->
                 IF w = v THEN [st |-> "starting", sb |-> s, ctr |-> c, cfg |-> None,
                                own |-> TRUE, over |-> O # {}]
                 ELSE [vm[w] EXCEPT !.over = @ \/ w \in O]]
    BY Zenon DEF Restore
  <2>4. instances' = [instances EXCEPT ![s] = v]
    BY Zenon DEF Restore
  <2> HIDE DEF s, c, O
  <2> QED
    BY <1>1, <2>1, <2>2, <2>3, <2>4, NewVm, Zenon
<1>5. vm'[v].st # "free" /\ vm'[v].ctr = call[k].ctr
  BY DEF Restore
<1>6. call' = [call EXCEPT ![k] = Rec(call[k].op, "pid", call[k].sb, call[k].ctr, call[k].rec, v,
                                      call[k].todo)]
  <2>1. call' = [call EXCEPT ![k].vm = v, ![k].pc = "pid"]
    BY DEF Restore
  <2>2. [call EXCEPT ![k].vm = v, ![k].pc = "pid"]
          = [call EXCEPT ![k] = Rec(call[k].op, "pid", call[k].sb, call[k].ctr, call[k].rec, v,
                                    call[k].todo)]
    BY <1>1, CallVm, Zenon
  <2> QED
    BY <2>1, <2>2
<1>7. v # None
  BY CriAssumption
<1>8. CallInv'
  BY <1>1, <1>3, <1>4, <1>5, <1>6, <1>7, CallTakesVm, Zenon
<1>9. StoreInv'
  BY <1>1, <1>2 DEF StoreInv, Restore
<1>10. WatchInv'
  BY <1>1, <1>4, WatchFrame DEF CriInv, Restore
<1>11. PoolInv' /\ CountInv'
  BY PoolFrame DEF CriInv, Restore, CountInv
<1> QED
  BY <1>4, <1>8, <1>9, <1>10, <1>11 DEF CriInv

\* The watcher of a VM moves on.
LEMMA WatchMoves ==
    ASSUME WatchInv, NEW v \in Vms, vm[v].st # "free", NEW p \in {"wait", "sb", "ctr", "done"},
           NEW rec \in SbRecs \cup {None}, p = "sb" => rec \in SbRecs,
           watch' = [watch EXCEPT ![v] = [pc |-> p, rec |-> rec]], UNCHANGED vm
    PROVE  /\ WatchInv' /\ watch'[v].pc = p
           /\ \A w \in Vms \ {v} : watch'[w] = watch[w]
BY Zenon DEF WatchInv

LEMMA WatchGoes ==
    ASSUME WatchInv, NEW v \in Vms, vm[v].st # "free", NEW p \in {"wait", "ctr", "done"},
           watch' = [watch EXCEPT ![v].pc = p], UNCHANGED vm
    PROVE  /\ WatchInv' /\ watch'[v].pc = p
           /\ \A w \in Vms \ {v} : watch'[w] = watch[w]
<1>1. /\ watch[v].rec \in SbRecs \cup {None}
      /\ [watch[v] EXCEPT !.pc = p] = [pc |-> p, rec |-> watch[v].rec]
  BY DEF WatchInv
<1>2. watch' = [watch EXCEPT ![v] = [pc |-> p, rec |-> watch[v].rec]]
  BY <1>1, ZenonT(60)
<1> QED
  BY <1>1, <1>2, WatchMoves, ZenonT(60)

LEMMA StartRunningStep ==
    ASSUME CriInv, NEW k \in Calls, StartRunning(k) PROVE CriInv'
<1>1. CallInv /\ VmsKept /\ StoreInv /\ call[k] # Idle /\ call[k].pc = "running"
  BY VmsStay DEF CriInv, StartRunning, At, vmVars
<1>2. Local(call[k])
  BY <1>1, CallIs
<1>3. call[k].ctr \in Containers /\ call[k].vm # None /\ Reaches(call[k].op, "watch")
      /\ ~NeedsRecord(call[k].op, "watch")
  BY <1>1, <1>2, CallIs, ZenonT(60)
     DEF Local, Reaches, NeedsCtr, NeedsRecord, NeedsVm, Stopping, StopsPod
<1>4. CallInv'
  BY <1>1, <1>3, CallGoes DEF StartRunning
<1>5. StoreInv'
  BY <1>1, <1>3, UpdateContainerOk DEF StartRunning
<1> QED
  BY <1>4, <1>5, Records DEF StartRunning

LEMMA StartWatchStep ==
    ASSUME CriInv, NEW k \in Calls, StartWatch(k) PROVE CriInv'
<1> DEFINE w == call[k].vm
<1>1. /\ CallInv /\ VmsKept /\ WatchInv /\ call[k] # Idle /\ call[k].pc = "watch" /\ UNCHANGED vm
      /\ PoolInv' /\ StoreInv' /\ VmInv' /\ MapInv' /\ CountInv'
  BY VmsStay, PoolFrame, StoreFrame, VmFrame DEF CriInv, StartWatch, At, vmVars, CountInv
<1>2. w \in Vms /\ vm[w].st # "free"
  BY <1>1, CallIs DEF Local, NeedsVm, OnVm
<1>3. CallInv' /\ watch' = [watch EXCEPT ![w].pc = "wait"]
  BY <1>1, CallReturns DEF StartWatch
<1> HIDE DEF w
<1>4. WatchInv'
  BY <1>1, <1>2, <1>3, WatchGoes, ZenonT(60)
<1> QED
  BY <1>1, <1>3, <1>4 DEF CriInv

(***************************************************************************)
(* The VM process, the goroutines and the restart of the plugin.           *)
(***************************************************************************)
LEMMA VmBootStep ==
    ASSUME CriInv, NEW v \in Vms, VmBoot(v) PROVE CriInv'
<1>1. CallInv /\ VmInv /\ MapInv /\ StoreInv /\ vm[v].st = "starting"
  BY SMTT(60), ZenonT(60) DEF CriInv, VmBoot
<1>2. vm[v].sb \in Sandboxes
  BY <1>1, Started
<1>3. VmInv' /\ MapInv' /\ VmsKept
  <2>1. CASE cfg[vm[v].sb] = None
    BY <1>1, <2>1, VmDies, Zenon DEF VmBoot, Tracked
  <2>2. CASE cfg[vm[v].sb] # None
    <3> DEFINE f == cfg[vm[v].sb]
    <3>1. f \in Cfgs
      BY <1>1, <1>2 DEF StoreInv
    <3>2. vm' = [vm EXCEPT ![v].st = "running", ![v].cfg = f]
      BY <2>2 DEF VmBoot
    <3> HIDE DEF f
    <3>3. [vm EXCEPT ![v].st = "running", ![v].cfg = f]
            = [vm EXCEPT ![v] = [[vm[v] EXCEPT !.st = "running"] EXCEPT !.cfg = f]]
      BY <1>1, Zenon DEF VmInv
    <3>4. [vm[v] EXCEPT !.st = "running"]
            = [st |-> "running", sb |-> vm[v].sb, ctr |-> vm[v].ctr, cfg |-> vm[v].cfg,
                             own |-> vm[v].own, over |-> vm[v].over]
      BY <1>1 DEF VmInv, VmRecs
    <3>5. [[st |-> "running", sb |-> vm[v].sb, ctr |-> vm[v].ctr, cfg |-> vm[v].cfg,
                             own |-> vm[v].own, over |-> vm[v].over]
              EXCEPT !.cfg = f]
            = [st |-> "running", sb |-> vm[v].sb, ctr |-> vm[v].ctr, cfg |-> f,
                               own |-> vm[v].own, over |-> vm[v].over]
      OBVIOUS
    <3>6. vm' = [vm EXCEPT ![v] = [st |-> "running", sb |-> vm[v].sb, ctr |-> vm[v].ctr, cfg |-> f,
                               own |-> vm[v].own, over |-> vm[v].over]]
      BY <3>2, <3>3, <3>4, <3>5, Zenon
    <3>7. "running" \in Tracked /\ vm[v].st # "free" /\ UNCHANGED instances
      BY <1>1 DEF Tracked, VmBoot
    <3> QED
      BY <1>1, <3>1, <3>6, <3>7, VmMoves, ZenonT(60)
  <2> QED
    BY <2>1, <2>2
<1>4. CallInv'
  BY <1>1, <1>3, CallsStay DEF VmBoot
<1> QED
  BY <1>3, <1>4, OnlyVms DEF VmBoot

LEMMA VmExitStep ==
    ASSUME CriInv, NEW v \in Vms, VmExit(v) \/ Reap(v) PROVE CriInv'
<1>1. CallInv /\ VmInv /\ MapInv /\ vm[v].st # "free" /\ UNCHANGED <<instances, call>>
  BY DEF CriInv, VmExit, Reap
<1>2. PICK st \in Tracked : vm' = [vm EXCEPT ![v].st = st]
  BY DEF VmExit, Reap, Tracked
<1>3. VmInv' /\ MapInv' /\ VmsKept
  BY <1>1, <1>2, VmDies, Zenon
<1>4. CallInv'
  BY <1>1, <1>3, CallsStay
<1> QED
  BY <1>3, <1>4, OnlyVms DEF VmExit, Reap

\* A VM that the map does not name any more.
LEMMA VmLeaves ==
    ASSUME VmInv, MapInv, NEW v \in Vms, vm[v].st # "free", NEW st \in {"untracked", "closed"},
           vm' = [vm EXCEPT ![v].st = st], instances' \in [Sandboxes -> Vms \cup {None}],
           \A s \in Sandboxes : instances'[s] # None => instances'[s] = instances[s]
                                                        /\ instances[s] # v
    PROVE  VmInv' /\ MapInv' /\ VmsKept
<1>1. vm[v].sb # None /\ vm[v].ctr # None
  BY Started
<1>2. [vm[v] EXCEPT !.st = st] = [st |-> st, sb |-> vm[v].sb, ctr |-> vm[v].ctr, cfg |-> vm[v].cfg,
                             own |-> vm[v].own, over |-> vm[v].over]
  BY DEF VmInv, VmRecs
<1>3. vm' = [vm EXCEPT ![v] = [st |-> st, sb |-> vm[v].sb, ctr |-> vm[v].ctr, cfg |-> vm[v].cfg,
                             own |-> vm[v].own, over |-> vm[v].over]]
  BY <1>2, Zenon
<1>4. VmInv'
  BY <1>1, <1>3 DEF VmInv, VmRecs, VmStates
<1>5. /\ vm'[v].st = st /\ vm'[v].ctr = vm[v].ctr
      /\ \A w \in Vms \ {v} : vm'[w] = vm[w]
  BY <1>3 DEF VmInv
<1>6. MapInv'
  BY <1>5 DEF MapInv
<1>7. VmsKept
  BY <1>5 DEF VmsKept
<1> QED
  BY <1>4, <1>6, <1>7

\* Restore's goroutine deletes the entry of its sandbox, which is its own if
\* the map still names its VM.
LEMMA UntrackStep ==
    ASSUME CriInv, NEW v \in Vms, Untrack(v) PROVE CriInv'
<1>1. CallInv /\ VmInv /\ MapInv /\ vm[v].st = "exited"
  BY SMTT(60), ZenonT(60) DEF CriInv, Untrack
<1>2. vm[v].sb \in Sandboxes
  BY <1>1, Started
<1>3. instances' \in [Sandboxes -> Vms \cup {None}]
  BY <1>1, Zenon DEF MapInv, Untrack
<1>4. ASSUME NEW s \in Sandboxes, instances'[s] # None
      PROVE  instances'[s] = instances[s] /\ instances[s] # v
  BY <1>1, <1>2, <1>4 DEF MapInv, Untrack
<1>5. VmInv' /\ MapInv' /\ VmsKept
  BY <1>1, <1>3, <1>4, VmLeaves, Zenon DEF Untrack
<1>6. CallInv'
  BY <1>1, <1>5, CallsStay DEF Untrack
<1> QED
  BY <1>5, <1>6, OnlyVms DEF Untrack

LEMMA CloseExitChStep ==
    ASSUME CriInv, NEW v \in Vms, CloseExitCh(v) PROVE CriInv'
<1>1. CallInv /\ VmInv /\ MapInv /\ vm[v].st = "untracked" /\ UNCHANGED instances
  BY DEF CriInv, CloseExitCh
<1>2. \A s \in Sandboxes : instances[s] # v
  BY <1>1, CriAssumption DEF MapInv, Tracked
<1>3. VmInv' /\ MapInv' /\ VmsKept
  BY <1>1, <1>2, VmLeaves, ZenonT(60) DEF CloseExitCh, MapInv
<1>4. CallInv'
  BY <1>1, <1>3, CallsStay, SMTT(60), ZenonT(60) DEF CloseExitCh
<1> QED
  BY <1>3, <1>4, OnlyVms DEF CloseExitCh

\* A step of a watcher.
LEMMA WatcherMoves ==
    ASSUME CriInv, WatchInv', StoreInv', UNCHANGED <<poolVars, vmVars, call, born, restarts>>
    PROVE  CriInv'
<1>1. CallInv /\ VmsKept /\ VmInv' /\ MapInv' /\ PoolInv' /\ CountInv'
  BY VmFrame, PoolFrame, VmsStay DEF CriInv, CountInv, vmVars
<1>2. CallInv'
  BY <1>1, CallsStay
<1> QED
  BY <1>1, <1>2 DEF CriInv

LEMMA WatchGetSandboxStep ==
    ASSUME CriInv, NEW v \in Vms, WatchGetSandbox(v) PROVE CriInv'
<1> DEFINE rec == sbs[vm[v].sb]
           p == IF rec = None THEN "ctr" ELSE "sb"
<1>1. WatchInv /\ VmInv /\ StoreInv /\ vm[v].st = "closed" /\ UNCHANGED vm /\ StoreInv'
  BY StoreFrame, SMTT(60), ZenonT(60) DEF CriInv, WatchGetSandbox, vmVars
<1>2. vm[v].sb \in Sandboxes
  BY <1>1, Started
<1>3. rec \in SbRecs \cup {None} /\ p \in {"sb", "ctr"} /\ (p = "sb" => rec \in SbRecs)
  BY <1>1, <1>2, SMTT(60), ZenonT(60) DEF StoreInv
<1>4. watch' = [watch EXCEPT ![v] = [pc |-> p, rec |-> rec]]
  BY DEF WatchGetSandbox
<1> HIDE DEF rec, p
<1>5. WatchInv'
  BY <1>1, <1>3, <1>4, WatchMoves, ZenonT(60)
<1> QED
  BY <1>1, <1>5, WatcherMoves DEF WatchGetSandbox

LEMMA WatchSandboxStep ==
    ASSUME CriInv, NEW v \in Vms, WatchSandbox(v) PROVE CriInv'
<1>1. WatchInv /\ VmInv /\ StoreInv /\ watch[v].pc = "sb" /\ UNCHANGED vm
  BY DEF CriInv, WatchSandbox, vmVars
<1>2. vm[v].st # "free" /\ watch[v].rec \in SbRecs
  BY <1>1, SMTT(60), ZenonT(60) DEF WatchInv
<1>3. vm[v].sb \in Sandboxes
  BY <1>1, <1>2, Started
<1>4. StoreInv'
  BY <1>1, <1>2, <1>3, RecordStates, UpdateSandboxOk DEF WatchSandbox
<1>5. WatchInv'
  BY <1>1, <1>2, WatchMoves, ZenonT(60) DEF WatchSandbox
<1> QED
  BY <1>4, <1>5, WatcherMoves DEF WatchSandbox

LEMMA WatchContainerStep ==
    ASSUME CriInv, NEW v \in Vms, WatchContainer(v) PROVE CriInv'
<1>1. WatchInv /\ VmInv /\ StoreInv /\ watch[v].pc = "ctr" /\ UNCHANGED vm
  BY DEF CriInv, WatchContainer, vmVars
<1>2. vm[v].st # "free"
  BY <1>1 DEF WatchInv
<1>3. vm[v].ctr \in Containers
  BY <1>1, <1>2, Started
<1>4. WatchInv'
  BY <1>1, <1>2, WatchGoes, Zenon DEF WatchContainer
<1>5. StoreInv'
  BY <1>1, <1>3, UpdateContainerOk DEF WatchContainer
<1> QED
  BY <1>4, <1>5, WatcherMoves DEF WatchContainer

LEMMA ServerRestartStep ==
    ASSUME CriInv, ServerRestart PROVE CriInv'
<1>1. PoolInv' /\ StoreInv'
  BY StoreFrame DEF CriInv, PoolInv, ServerRestart
<1>2. VmInv'
  <2>1. VmInv /\ vm' = [v \in Vms |-> IF vm[v] = NoVm THEN NoVm ELSE [vm[v] EXCEPT !.own = FALSE]]
    BY DEF CriInv, ServerRestart
  <2>2. ASSUME NEW v \in Vms, vm[v] # NoVm
        PROVE  /\ [vm[v] EXCEPT !.own = FALSE] \in VmRecs
               /\ [vm[v] EXCEPT !.own = FALSE].st # "free"
               /\ [vm[v] EXCEPT !.own = FALSE].sb # None
               /\ [vm[v] EXCEPT !.own = FALSE].ctr # None
    BY <2>1, <2>2 DEF VmInv, VmRecs
  <2>3. NoVm \in VmRecs
    BY NoVmIs
  <2> QED
    BY <2>1, <2>2, <2>3 DEF VmInv
<1>3. MapInv' /\ WatchInv' /\ CallInv'
  BY DEF ServerRestart, MapInv, WatchInv, CallInv, NoWatch
<1>4. CountInv'
  BY CriAssumption DEF CriInv, ServerRestart, CountInv
<1> QED
  BY <1>1, <1>2, <1>3, <1>4 DEF CriInv

LEMMA NewCallStep ==
    ASSUME CriInv, NEW k \in Calls, NewCall(k) PROVE CriInv'
BY RunPodSandboxStep, StopPodSandboxStep, RemovePodSandboxStep, PodSandboxStatusStep,
   CreateContainerStep, StartContainerStep, StopContainerStep, RemoveContainerStep, SMTT(60), ZenonT(60) DEF NewCall

LEMMA CallStepStep ==
    ASSUME CriInv, NEW k \in Calls, CallStep(k) PROVE CriInv'
BY RunCreateStep, RunConfigStep, RunReadyStep, StopInstanceStep, StopSignalStep, StopKillStep,
   StopWaitStep, StopTeardownStep, StopNotReadyStep, StopListStep, StopExitAllStep, RemoveStopStep,
   RemoveListStep, RemoveRecordsStep, StatusReconcileStep, StatusUpdateStep, CreateRecordStep,
   CreateConfigStep, StartGetSandboxStep, RestoreStep, RestoreFailsStep, StartPidStep,
   StartRunningStep, StartWatchStep, StopExitedStep, RemoveCtrStopStep, RemoveCtrStep, SMTT(60), ZenonT(60) DEF CallStep

LEMMA CriStep == CriInv /\ [Next]_vars => CriInv'
<1> SUFFICES ASSUME CriInv, [Next]_vars PROVE CriInv'
  OBVIOUS
<1>1. ASSUME NEW k \in Calls, NewCall(k) \/ CallStep(k) PROVE CriInv'
  BY <1>1, NewCallStep, CallStepStep
<1>2. ASSUME NEW v \in Vms, VmBoot(v) \/ VmExit(v) \/ Goroutines(v) PROVE CriInv'
  BY <1>2, VmBootStep, VmExitStep, UntrackStep, CloseExitChStep, WatchGetSandboxStep,
     WatchSandboxStep, WatchContainerStep DEF Goroutines
<1>3. CASE ServerRestart
  BY <1>3, ServerRestartStep
<1>4. CASE UNCHANGED vars
  <2>1. CallInv'
    BY <1>4, VmsStay, CallsStay DEF CriInv, vars, vmVars
  <2> QED
    BY <1>4, <2>1, OnlyCall DEF vars
<1> QED
  BY <1>1, <1>2, <1>3, <1>4 DEF Next

LEMMA CriInvariant == Spec => []CriInv
BY InitCri, CriStep, PTL DEF Spec

\* Every record the calls and goroutines of the plugin write has a state that
\* store.go declares, and the maps name sandboxes and VMs, for any number of
\* concurrent calls and restarts.
THEOREM CriTypes == Spec => []TypeOK
<1>1. CriInv => TypeOK
  <2> SUFFICES ASSUME CriInv PROVE TypeOK
    OBVIOUS
  <2>1. \A k \in Calls : call[k] = Idle \/ call[k] \in CallRecs
    BY DEF CriInv, CallInv, Local
  <2> QED
    BY <2>1 DEF CriInv, TypeOK, PoolInv, StoreInv, VmInv, MapInv, WatchInv, CountInv,
                  VmRecs, VmStates, Cfgs
<1> QED
  BY <1>1, CriInvariant, PTL
=============================================================================
