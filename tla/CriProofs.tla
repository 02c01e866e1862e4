----------------------------- MODULE CriProofs -----------------------------
(***************************************************************************)
(* The theorems about containers and VMs of the CRI plugin, from the       *)
(* invariant CriInv of PluginProofs.                                       *)
(***************************************************************************)
EXTENDS PluginProofs

-----------------------------------------------------------------------------
(* What a step does to the other calls and to the containers' records.     *)

Others(k) == \A j \in Calls \ {k} : call'[j] = call[j]

LEMMA OthersSet ==
    ASSUME NEW k \in Calls, call = [j \in Calls |-> call[j]], NEW r,
           call' = [call EXCEPT ![k] = r]
    PROVE  Others(k) /\ call'[k] = r
BY DEF Others

LEMMA NewCallOthers ==
    ASSUME CriInv, NEW k \in Calls, NewCall(k)
    PROVE  Others(k) /\ call[k] = Idle
<1>1. call = [j \in Calls |-> call[j]]
  BY DEF CriInv, CallInv
<1>2. ASSUME NEW op, NEW pc, NEW s, NEW c, NEW rec, Begin(k, op, pc, s, c, rec)
      PROVE  Others(k) /\ call[k] = Idle
  BY <1>1, <1>2, OthersSet, Zenon DEF Begin
<1> QED
  BY <1>2, Zenon DEF NewCall, RunPodSandbox, StopPodSandbox, RemovePodSandbox, PodSandboxStatus,
                     CreateContainer, StartContainer, StopContainer, RemoveContainer

LEMMA CallStepOthers ==
    ASSUME CriInv, NEW k \in Calls, CallStep(k)
    PROVE  /\ Others(k) /\ call[k] # Idle
           /\ call[k].pc = "watch" => StartWatch(k)
<1>1. call = [j \in Calls |-> call[j]]
  BY DEF CriInv, CallInv
<1>2. ASSUME NEW pc, Goto(k, pc) PROVE Others(k)
  BY <1>1, <1>2 DEF Goto, Others
<1>3. ASSUME Return(k) PROVE Others(k)
  BY <1>1, <1>3 DEF Return, Others
<1>4. ASSUME NEW x, NEW y,
             \/ call' = [call EXCEPT ![k].vm = x, ![k].pc = y]
             \/ call' = [call EXCEPT ![k].rec = x, ![k].pc = y]
             \/ call' = [call EXCEPT ![k].pc = y, ![k].todo = x]
             \/ call' = [call EXCEPT ![k].todo = x]
      PROVE  Others(k)
  BY <1>1, <1>4 DEF Others
<1>5. CASE RunCreate(k) \/ RunConfig(k) \/ RunReady(k) \/ StopInstance(k) \/ StopSignal(k) \/ StopKill(k)
  BY <1>2, <1>3, <1>4, <1>5, Zenon
     DEF RunCreate, RunConfig, RunReady, StopInstance, StopSignal, StopKill, At
<1>6. CASE StopWait(k) \/ StopTeardown(k) \/ StopNotReady(k) \/ StopList(k) \/ StopExitAll(k)
  BY <1>2, <1>3, <1>4, <1>6, Zenon
     DEF StopWait, StopTeardown, StopNotReady, StopList, StopExitAll, At
<1>7. CASE RemoveStop(k) \/ RemoveList(k) \/ RemoveRecords(k) \/ StatusReconcile(k) \/ StatusUpdate(k)
  BY <1>2, <1>3, <1>4, <1>7, Zenon
     DEF RemoveStop, RemoveList, RemoveRecords, StatusReconcile, StatusUpdate, At
<1>8. CASE \/ CreateRecord(k) \/ CreateConfig(k) \/ StartGetSandbox(k)
           \/ (\E v \in Vms : Restore(k, v)) \/ RestoreFails(k)
  BY <1>2, <1>3, <1>4, <1>8, Zenon
     DEF CreateRecord, CreateConfig, StartGetSandbox, Restore, RestoreFails, At
<1>9. CASE \/ StartPid(k) \/ StartRunning(k) \/ StartWatch(k) \/ StopExited(k) \/ RemoveCtrStop(k)
           \/ RemoveCtr(k)
  BY <1>2, <1>3, <1>4, <1>9, Zenon
     DEF StartPid, StartRunning, StartWatch, StopExited, RemoveCtrStop, RemoveCtr, At
<1> QED
  BY <1>5, <1>6, <1>7, <1>8, <1>9, Zenon DEF CallStep

LEMMA CtrsChange ==
    ASSUME CriInv, NEW k \in Calls, CallStep(k)
    PROVE  \/ UNCHANGED ctrs
           \/ \E c \in Containers : UpdateContainer(c, "exited") \/ DeleteContainer(c)
           \/ CreateRecord(k) \/ StartRunning(k)
<1>1. CallInv
  BY DEF CriInv
<1>2. CASE StopExitAll(k) \/ RemoveRecords(k)
  <2>1. call[k].todo \subseteq Containers
    BY <1>1, <1>2, CallIs DEF StopExitAll, RemoveRecords, At
  <2> QED
    BY <1>2, <2>1 DEF StopExitAll, RemoveRecords, DeleteSandbox, storeVars
<1>3. CASE StopExited(k) \/ RemoveCtr(k)
  <2>1. call[k].ctr \in Containers
    BY <1>1, <1>3, CallIs DEF StopExited, RemoveCtr, At, Local, NeedsCtr, Reaches,
                              Stopping, StopsPod
  <2> QED
    BY <1>3, <2>1 DEF StopExited, RemoveCtr
<1>4. CASE \/ RunCreate(k) \/ RunConfig(k) \/ RunReady(k) \/ StopInstance(k) \/ StopSignal(k)
           \/ StopKill(k) \/ StopWait(k) \/ StopTeardown(k) \/ StopNotReady(k) \/ StopList(k)
           \/ RemoveStop(k) \/ RemoveList(k) \/ StatusReconcile(k) \/ StatusUpdate(k)
           \/ CreateConfig(k) \/ StartGetSandbox(k) \/ (\E v \in Vms : Restore(k, v))
           \/ RestoreFails(k) \/ StartPid(k) \/ StartWatch(k) \/ RemoveCtrStop(k)
  BY <1>4, ZenonT(60)
     DEF RunCreate, RunConfig, RunReady, StopInstance, StopSignal, StopKill, StopWait, StopTeardown,
         StopNotReady, StopList, RemoveStop, RemoveList, StatusReconcile, StatusUpdate,
         CreateConfig, StartGetSandbox, Restore, RestoreFails, StartPid, StartWatch, RemoveCtrStop,
         UpdateSandbox, WriteConfig, storeVars
<1> QED
  BY <1>2, <1>3, <1>4, ZenonT(60) DEF CallStep

(***************************************************************************)
(* Every container recorded as running is watched.                         *)
(***************************************************************************)
Running(c) == ctrs[c] # None /\ ctrs[c].state = "running"
Watches(v, c) == vm[v].ctr = c /\ watch[v].pc \in {"wait", "sb", "ctr"}
Watched(c) == \/ \E v \in Vms : Watches(v, c)
              \/ \E k \in Calls : At(k, "watch") /\ call[k].ctr = c

LEMMA ExitsStartNothing ==
    ASSUME StoreInv, NEW d \in Containers, Running(d)',
           \/ UNCHANGED ctrs
           \/ \E c \in Containers : UpdateContainer(c, "exited") \/ DeleteContainer(c)
    PROVE  Running(d)
<1>1. CASE \E c \in Containers : UpdateContainer(c, "exited")
  <2>1. PICK c \in Containers : UpdateContainer(c, "exited")
    BY <1>1
  <2>2. CASE ctrs[c] = None
    BY <2>1, <2>2 DEF UpdateContainer, Running
  <2>3. CASE ctrs[c] # None
    <3>1. ctrs' = [ctrs EXCEPT ![c].state = "exited"] /\ ctrs[c] \in CtrRecs
      BY <2>1, <2>3 DEF UpdateContainer, StoreInv
    <3>2. ctrs'[c].state = "exited" /\ \A x \in Containers \ {c} : ctrs'[x] = ctrs[x]
      BY <3>1 DEF StoreInv, CtrRecs
    <3> QED
      BY <3>2 DEF Running
  <2> QED
    BY <2>2, <2>3
<1> QED
  BY <1>1 DEF Running, DeleteContainer, StoreInv

\* A container that was running stays watched when its watcher does.
LEMMA WatchedFrame ==
    ASSUME RunningIsWatched, restarts = 0, WatchInv, VmsKept, NEW c \in Containers, Running(c),
           \A v \in Vms : Watches(v, c) => watch'[v].pc \in {"wait", "sb", "ctr"},
           \A j \in Calls : At(j, "watch") /\ call[j].ctr = c =>
               \/ At(j, "watch")' /\ call'[j].ctr = c
               \/ Watched(c)'
    PROVE  Watched(c)'
<1>1. CASE \E v \in Vms : Watches(v, c)
  <2>1. PICK v \in Vms : Watches(v, c)
    BY <1>1
  <2>2. vm[v].st # "free"
    BY <2>1 DEF Watches, WatchInv
  <2> QED
    BY <2>1, <2>2 DEF Watches, Watched, VmsKept
<1>2. CASE \E k \in Calls : At(k, "watch") /\ call[k].ctr = c
  BY <1>2 DEF Watched
<1> QED
  BY <1>1, <1>2 DEF RunningIsWatched, Running, Watches

LEMMA CallKeepsVms ==
    ASSUME CriInv, NEW k \in Calls, NewCall(k) \/ CallStep(k)
    PROVE  VmsKept
<1>1. VmInv /\ CallInv
  BY DEF CriInv
<1>2. CASE StopKill(k)
  <2> DEFINE v == call[k].vm
  <2>1. v \in Vms
    BY <1>1, <1>2, CallIs DEF StopKill, At, Local, NeedsVm
  <2>2. UNCHANGED vm \/ vm' = [vm EXCEPT ![v].st = "dead"]
    BY <1>2 DEF StopKill
  <2> HIDE DEF v
  <2> QED
    BY <1>1, <2>1, <2>2 DEF VmsKept, VmInv, VmRecs
<1>3. ASSUME NEW v \in Vms, Restore(k, v) PROVE VmsKept
  <2>1. ASSUME NEW w \in Vms, w # v
        PROVE  vm'[w].st = vm[w].st /\ vm'[w].ctr = vm[w].ctr
    <3>1. vm[w] \in VmRecs /\ vm'[w] = [vm[w] EXCEPT !.over = @ \/ w \in Mapped(call[k].sb)]
      BY <1>1, <1>3, <2>1 DEF VmInv, Restore
    <3> QED
      BY <3>1 DEF VmRecs
  <2>2. vm[v].st = "free"
    BY <1>3, NoVmIs DEF Restore
  <2> QED
    BY <2>1, <2>2 DEF VmsKept
<1>4. CASE UNCHANGED vm
  BY <1>4, VmsStay
<1>5. StopKill(k) \/ (\E v \in Vms : Restore(k, v)) \/ UNCHANGED vm
  <2>1. CASE NewCall(k)
    BY <2>1, ZenonT(60) DEF NewCall, RunPodSandbox, StopPodSandbox, RemovePodSandbox,
          PodSandboxStatus, CreateContainer, StartContainer, StopContainer, RemoveContainer, vmVars
  <2>2. CASE CallStep(k)
    BY <2>2, ZenonT(60)
       DEF CallStep, RunCreate, RunConfig, RunReady, StopInstance, StopSignal, StopWait,
           StopTeardown, StopNotReady, StopList, StopExitAll, RemoveStop, RemoveList,
           RemoveRecords, StatusReconcile, StatusUpdate, CreateRecord, CreateConfig,
           StartGetSandbox, RestoreFails, StartPid, StartRunning, StartWatch, StopExited,
           RemoveCtrStop, RemoveCtr, vmVars
  <2> QED
    BY <2>1, <2>2
<1> QED
  BY <1>2, <1>3, <1>4, <1>5

LEMMA CallWatchedStep ==
    ASSUME CriInv, RunningIsWatched, NEW k \in Calls, NewCall(k) \/ CallStep(k),
           restarts = 0, NEW c \in Containers, Running(c)'
    PROVE  Watched(c)'
<1>1. /\ StoreInv /\ WatchInv /\ CallInv /\ VmsKept
      /\ \A j \in Calls \ {k} : call'[j] = call[j]
      /\ call[k] = Idle \/ (CallStep(k) /\ (call[k].pc = "watch" => StartWatch(k)))
  BY CallKeepsVms, NewCallOthers, CallStepOthers, Zenon DEF CriInv, Others
<1>2. ASSUME Running(c), ~StartWatch(k), UNCHANGED watch PROVE Watched(c)'
  <2>1. \A j \in Calls : At(j, "watch") /\ call[j].ctr = c => At(j, "watch")' /\ call'[j].ctr = c
    BY <1>1, <1>2 DEF At
  <2>2. \A v \in Vms : Watches(v, c) => watch'[v].pc \in {"wait", "sb", "ctr"}
    BY <1>2 DEF Watches
  <2> QED
    BY <1>1, <1>2, <2>1, <2>2, WatchedFrame
<1>3. CASE NewCall(k)
  <2>1. UNCHANGED <<ctrs, watch>>
    BY <1>3, ZenonT(60) DEF NewCall, RunPodSandbox, StopPodSandbox, RemovePodSandbox, PodSandboxStatus,
                CreateContainer, StartContainer, StopContainer, RemoveContainer, storeVars
  <2>2. ~StartWatch(k)
    BY <1>3, NewCallOthers DEF StartWatch, At
  <2> QED
    BY <1>2, <2>1, <2>2 DEF Running
<1>4. CASE StartWatch(k)
  <2> DEFINE w == call[k].vm
  <2>1. call[k] # Idle /\ call[k].pc = "watch" /\ UNCHANGED <<ctrs, vm>>
    BY <1>4 DEF StartWatch, At, storeVars, vmVars
  <2>2. w \in Vms /\ vm[w].ctr = call[k].ctr
    BY <1>1, <2>1, CallIs DEF Local, NeedsVm, OnVm
  <2>3. watch' = [watch EXCEPT ![w].pc = "wait"]
    BY <1>4 DEF StartWatch
  <2>4. w = call[k].vm
    OBVIOUS
  <2> HIDE DEF w
  <2>5. watch'[w].pc = "wait" /\ \A v \in Vms \ {w} : watch'[v] = watch[v]
    BY <1>1, <2>2, <2>3 DEF WatchInv
  <2>6. \A j \in Calls : At(j, "watch") /\ call[j].ctr = c =>
            \/ At(j, "watch")' /\ call'[j].ctr = c
            \/ Watched(c)'
    <3>1. call[k].ctr = c => Watched(c)'
      BY <2>1, <2>2, <2>5 DEF Watched, Watches
    <3> QED
      BY <1>1, <3>1 DEF At
  <2>7. \A v \in Vms : Watches(v, c) => watch'[v].pc \in {"wait", "sb", "ctr"}
    BY <2>5 DEF Watches
  <2>8. Running(c)
    BY <2>1 DEF Running
  <2> QED
    BY <1>1, <2>6, <2>7, <2>8, WatchedFrame
<1>5. CASE StartRunning(k)
  <2>1. /\ call[k] # Idle /\ UpdateContainer(call[k].ctr, "running") /\ UNCHANGED watch
        /\ Goto(k, "watch") /\ ~StartWatch(k)
    BY <1>5 DEF StartRunning, StartWatch, At
  <2>2. CASE c = call[k].ctr
    <3>1. call[k] \in CallRecs /\ call = [j \in Calls |-> call[j]]
      BY <1>1, <2>1, CallIs DEF Local, CallInv
    <3>2. call'[k] = [call[k] EXCEPT !.pc = "watch"]
      BY <2>1, <3>1 DEF Goto
    <3>3. /\ call'[k].pc = "watch" /\ call'[k].ctr = c /\ call'[k].op \in AllOps
      BY <2>2, <3>1, <3>2 DEF CallRecs
    <3>4. call'[k] # Idle
      BY <3>3 DEF AllOps, Idle
    <3> QED
      BY <3>3, <3>4 DEF Watched, At
  <2>3. CASE c # call[k].ctr
    <3>1. Running(c)
      BY <1>1, <2>1, <2>3 DEF UpdateContainer, StoreInv, Running
    <3> QED
      BY <1>2, <2>1, <3>1
  <2> QED
    BY <2>2, <2>3
<1>6. CASE CreateRecord(k)
  <2>1. UNCHANGED watch /\ ~StartWatch(k)
    BY <1>6 DEF CreateRecord, StartWatch, At
  <2>2. Running(c)
    <3>1. \/ UNCHANGED ctrs
          \/ ctrs' = [ctrs EXCEPT ![call[k].ctr] = [sb |-> call[k].sb, state |-> "created"]]
      BY <1>6 DEF CreateRecord
    <3> QED
      BY <1>1, <3>1 DEF StoreInv, Running
  <2> QED
    BY <1>2, <2>1, <2>2
<1>7. CASE CallStep(k) /\ ~StartWatch(k) /\ ~StartRunning(k) /\ ~CreateRecord(k)
  <2>1. UNCHANGED watch
    BY <1>7, ZenonT(60)
       DEF CallStep, RunCreate, RunConfig, RunReady, StopInstance, StopSignal, StopKill, StopWait,
           StopTeardown, StopNotReady, StopList, StopExitAll, RemoveStop, RemoveList,
           RemoveRecords, StatusReconcile, StatusUpdate, CreateConfig, StartGetSandbox,
           Restore, RestoreFails, StartPid, StopExited, RemoveCtrStop, RemoveCtr
  <2>2. Running(c)
    BY <1>1, <1>7, CtrsChange, ExitsStartNothing
  <2> QED
    BY <1>2, <1>7, <2>1, <2>2
<1> QED
  BY <1>3, <1>4, <1>5, <1>6, <1>7

\* A watcher goes on until it has recorded its container's exit.
LEMMA WatcherWatchedStep ==
    ASSUME CriInv, RunningIsWatched, NEW v \in Vms,
           WatchGetSandbox(v) \/ WatchSandbox(v) \/ WatchContainer(v),
           restarts = 0, NEW c \in Containers, Running(c)'
    PROVE  Watched(c)'
<1>1. /\ StoreInv /\ WatchInv /\ VmInv /\ UNCHANGED <<vm, call>> /\ VmsKept
      /\ watch[v].pc \in {"wait", "sb", "ctr"}
  BY VmsStay DEF CriInv, WatchGetSandbox, WatchSandbox, WatchContainer, vmVars
<1>2. vm[v].ctr \in Containers
  <2>1. vm[v].st # "free"
    BY <1>1 DEF WatchInv
  <2> QED
    BY <1>1, <2>1, Started
<1>3. \A w \in Vms \ {v} : watch'[w] = watch[w]
  BY <1>1 DEF WatchInv, WatchGetSandbox, WatchSandbox, WatchContainer
<1>4. /\ ~WatchContainer(v) => ctrs' = ctrs
      /\ WatchContainer(v) => UpdateContainer(vm[v].ctr, "exited")
  BY DEF WatchGetSandbox, WatchSandbox, WatchContainer, UpdateSandbox, storeVars
<1>5. Running(c)
  BY <1>1, <1>2, <1>4, ExitsStartNothing
<1>6. CASE WatchContainer(v)
  <2>1. vm[v].ctr # c
    <3>1. CASE ctrs[vm[v].ctr] = None
      BY <1>5, <3>1 DEF Running
    <3>2. CASE ctrs[vm[v].ctr] # None
      BY <1>1, <1>2, <1>4, <1>6, <3>2 DEF UpdateContainer, StoreInv, CtrRecs, Running
    <3> QED
      BY <3>1, <3>2
  <2>2. \A w \in Vms : Watches(w, c) => watch'[w].pc \in {"wait", "sb", "ctr"}
    BY <1>3, <2>1 DEF Watches
  <2> QED
    BY <1>1, <1>5, <2>2, WatchedFrame DEF At
<1>7. CASE WatchGetSandbox(v) \/ WatchSandbox(v)
  <2>1. watch'[v].pc \in {"sb", "ctr"}
    <3>1. CASE WatchGetSandbox(v)
      BY <1>1, <3>1 DEF WatchInv, WatchGetSandbox
    <3>2. CASE WatchSandbox(v)
      BY <1>1, <3>2 DEF WatchInv, WatchSandbox
    <3> QED
      BY <1>7, <3>1, <3>2
  <2>2. \A w \in Vms : Watches(w, c) => watch'[w].pc \in {"wait", "sb", "ctr"}
    BY <1>3, <2>1 DEF Watches
  <2> QED
    BY <1>1, <1>5, <2>2, WatchedFrame DEF At
<1> QED
  BY <1>6, <1>7

\* A step of a VM or of the goroutine that reaps it.
VmStep(v) == VmBoot(v) \/ VmExit(v) \/ Reap(v) \/ Untrack(v) \/ CloseExitCh(v)

LEMMA VmStepKeeps ==
    ASSUME CriInv, NEW v \in Vms, VmStep(v)
    PROVE  /\ UNCHANGED <<ctrs, watch, call, restarts>>
           /\ \A w \in Vms \ {v} : vm'[w] = vm[w]
           /\ vm'[v].sb = vm[v].sb /\ vm'[v].ctr = vm[v].ctr
           /\ vm'[v].own = vm[v].own /\ vm'[v].over = vm[v].over
           /\ vm'[v].st \in Tracked => vm[v].st \in Tracked
           /\ vm[v].st # "free" /\ vm'[v].st # "free"
<1>1. vm \in [Vms -> VmRecs]
  BY DEF CriInv, VmInv
<1>2. UNCHANGED <<ctrs, watch, call, restarts>>
  BY Zenon DEF VmStep, VmBoot, VmExit, Reap, Untrack, CloseExitCh, storeVars
<1>3. CASE vm' = [vm EXCEPT ![v].st = "running", ![v].cfg = cfg[vm[v].sb]] /\ vm[v].st = "starting"
  BY <1>1, <1>2, <1>3 DEF VmRecs, Tracked
<1>4. ASSUME NEW st \in {"dead", "exited", "untracked", "closed"}, vm' = [vm EXCEPT ![v].st = st],
             vm[v].st # "free", st \in Tracked => vm[v].st \in Tracked
      PROVE  /\ \A w \in Vms \ {v} : vm'[w] = vm[w]
             /\ vm'[v].sb = vm[v].sb /\ vm'[v].ctr = vm[v].ctr
             /\ vm'[v].own = vm[v].own /\ vm'[v].over = vm[v].over
             /\ vm'[v].st = st
  BY <1>1, <1>4 DEF VmRecs
<1>5. \/ vm' = [vm EXCEPT ![v].st = "running", ![v].cfg = cfg[vm[v].sb]] /\ vm[v].st = "starting"
      \/ \E st \in {"dead", "exited", "untracked", "closed"} :
            vm' = [vm EXCEPT ![v].st = st] /\ vm[v].st # "free" /\ (st \in Tracked => vm[v].st \in Tracked)
  BY DEF VmStep, VmBoot, VmExit, Reap, Untrack, CloseExitCh, Tracked
<1> QED
  BY <1>2, <1>3, <1>4, <1>5

LEMMA WatchedStep == CriInv /\ RunningIsWatched /\ [Next]_vars => RunningIsWatched'
<1> SUFFICES ASSUME CriInv, RunningIsWatched, [Next]_vars, restarts' = 0, NEW c \in Containers,
                    Running(c)'
             PROVE  Watched(c)'
  BY DEF RunningIsWatched, Running, Watched, Watches
<1>1. ASSUME NEW k \in Calls, NewCall(k) \/ CallStep(k) PROVE Watched(c)'
  <2>1. restarts = 0
    BY <1>1, ZenonT(60)
       DEF NewCall, RunPodSandbox, StopPodSandbox, RemovePodSandbox, PodSandboxStatus,
           CreateContainer, StartContainer, StopContainer, RemoveContainer,
           CallStep, RunCreate, RunConfig, RunReady, StopInstance, StopSignal, StopKill, StopWait,
           StopTeardown, StopNotReady, StopList, StopExitAll, RemoveStop, RemoveList,
           RemoveRecords, StatusReconcile, StatusUpdate, CreateRecord, CreateConfig,
           StartGetSandbox, Restore, RestoreFails, StartPid, StartRunning, StartWatch, StopExited,
           RemoveCtrStop, RemoveCtr
  <2> QED
    BY <1>1, <2>1, CallWatchedStep
<1>2. ASSUME NEW v \in Vms, WatchGetSandbox(v) \/ WatchSandbox(v) \/ WatchContainer(v)
      PROVE  Watched(c)'
  <2>1. restarts = 0
    BY <1>2 DEF WatchGetSandbox, WatchSandbox, WatchContainer
  <2> QED
    BY <1>2, <2>1, WatcherWatchedStep
<1>3. ASSUME UNCHANGED <<ctrs, watch, call, restarts>>, VmsKept PROVE Watched(c)'
  BY <1>3, WatchedFrame DEF CriInv, Running, Watches, At
<1>4. ASSUME NEW v \in Vms, VmStep(v) PROVE Watched(c)'
  BY <1>3, <1>4, VmStepKeeps DEF VmsKept
<1>5. CASE ServerRestart
  BY <1>5 DEF ServerRestart, CriInv, CountInv
<1>6. CASE UNCHANGED vars
  BY <1>3, <1>6, VmsStay DEF vars, storeVars, vmVars
<1> QED
  BY <1>1, <1>2, <1>4, <1>5, <1>6 DEF Next, Goroutines, VmStep

\* As long as the plugin has not been restarted, a container recorded as
\* running has a StartContainer goroutine that will record its exit, or the
\* call that is about to start that goroutine.
THEOREM ContainersWatched == Spec => []RunningIsWatched
<1>1. Init => RunningIsWatched
  BY DEF Init, RunningIsWatched
<1> QED
  BY <1>1, CriInvariant, WatchedStep, PTL DEF Spec

(***************************************************************************)
(* The map and the VMs.  A VM whose goroutine has yet to delete the entry  *)
(* either has the entry or shared the map with another VM of the sandbox.  *)
(***************************************************************************)
InMap(v) == vm[v].own /\ vm[v].st \in Tracked

LoneInv == /\ \A v \in Vms : InMap(v) /\ ~vm[v].over => instances[vm[v].sb] = v
           /\ \A v, w \in Vms : v # w /\ InMap(v) /\ InMap(w) /\ vm[v].sb = vm[w].sb => vm[v].over

LEMMA InMapHasSandbox ==
    ASSUME CriInv, NEW v \in Vms, InMap(v) PROVE vm[v].sb \in Sandboxes
<1>1. VmInv /\ vm[v].st # "free"
  BY DEF CriInv, InMap, Tracked
<1> QED
  BY <1>1, Started

LEMMA LoneFrame ==
    ASSUME LoneInv, UNCHANGED instances,
           \A v \in Vms : InMap(v)' =>
               InMap(v) /\ vm'[v].sb = vm[v].sb /\ vm'[v].over = vm[v].over
    PROVE  LoneInv'
BY DEF LoneInv

LEMMA RestoreLone ==
    ASSUME CriInv, LoneInv, NEW k \in Calls, NEW v \in Vms, Restore(k, v)
    PROVE  LoneInv'
<1> DEFINE s == call[k].sb
<1>1. /\ vm \in [Vms -> VmRecs] /\ instances \in [Sandboxes -> Vms \cup {None}] /\ vm[v] = NoVm
      /\ instances' = [instances EXCEPT ![s] = v] /\ call[k] # Idle
  BY DEF CriInv, VmInv, MapInv, Restore, At
<1>2. s \in Sandboxes
  BY <1>1, CallIs DEF CriInv
<1>3. /\ vm'[v].own = TRUE /\ vm'[v].sb = s /\ vm'[v].over = (Mapped(s) # {})
      /\ \A w \in Vms \ {v} : vm'[w] = [vm[w] EXCEPT !.over = @ \/ w \in Mapped(s)]
  BY DEF Restore
<1>4. ASSUME NEW w \in Vms \ {v}
      PROVE  /\ vm'[w].sb = vm[w].sb /\ (InMap(w)' <=> InMap(w))
             /\ vm'[w].over = (vm[w].over \/ w \in Mapped(s))
  <2>1. vm[w] \in VmRecs /\ vm'[w] = [vm[w] EXCEPT !.over = @ \/ w \in Mapped(s)]
    BY <1>1, <1>3
  <2>2. vm'[w].sb = vm[w].sb /\ vm'[w].st = vm[w].st /\ vm'[w].own = vm[w].own
    BY <2>1 DEF VmRecs
  <2>3. vm'[w].over = (vm[w].over \/ w \in Mapped(s))
    BY <2>1 DEF VmRecs
  <2> QED
    BY <2>2, <2>3 DEF InMap
<1>5. \A w \in Vms : w \in Mapped(s) <=> InMap(w) /\ vm[w].sb = s
  BY DEF Mapped, InMap, Tracked
<1>6. v \notin Mapped(s)
  BY <1>1, NoVmIs DEF Mapped
<1> HIDE DEF s
<1>7. ASSUME NEW w \in Vms, InMap(w)', ~vm'[w].over PROVE instances'[vm'[w].sb] = w
  <2>1. CASE w = v
    BY <1>1, <1>2, <1>3, <2>1
  <2>2. CASE w # v
    <3>1. InMap(w) /\ ~vm[w].over /\ w \notin Mapped(s) /\ vm'[w].sb = vm[w].sb
      BY <1>4, <1>7, <2>2, Zenon
    <3>2. vm[w].sb # s /\ vm[w].sb \in Sandboxes
      BY <1>5, <3>1, InMapHasSandbox, Zenon
    <3>3. instances[vm[w].sb] = w
      BY <3>1, Zenon DEF LoneInv
    <3> QED
      BY <1>1, <3>1, <3>2, <3>3, Zenon
  <2> QED
    BY <2>1, <2>2
<1>8. ASSUME NEW x \in Vms, NEW w \in Vms, x # w, InMap(x)', InMap(w)', vm'[x].sb = vm'[w].sb
      PROVE  vm'[x].over
  <2>1. CASE x = v
    <3>1. w \in Mapped(s)
      BY <1>3, <1>4, <1>5, <1>8, <2>1
    <3> QED
      BY <1>3, <2>1, <3>1, Zenon
  <2>2. CASE w = v
    <3>1. x \in Mapped(s)
      BY <1>3, <1>4, <1>5, <1>8, <2>2
    <3> QED
      BY <1>4, <1>8, <2>2, <3>1, Zenon
  <2>3. CASE x # v /\ w # v
    BY <1>4, <1>8, <2>3, Zenon DEF LoneInv
  <2> QED
    BY <2>1, <2>2, <2>3
<1> QED
  BY <1>7, <1>8 DEF LoneInv

\* Deleting the sandbox's entry takes it from no other VM in the map that had
\* the sandbox to itself.
LEMMA UntrackLone ==
    ASSUME CriInv, LoneInv, NEW v \in Vms, Untrack(v)
    PROVE  LoneInv'
<1>1. /\ instances \in [Sandboxes -> Vms \cup {None}] /\ vm[v].st = "exited" /\ vm[v].own
      /\ instances' = [instances EXCEPT ![vm[v].sb] = None] /\ vm'[v].st = "untracked"
  BY DEF CriInv, VmInv, VmRecs, MapInv, Untrack
<1>2. VmStep(v)
  BY DEF VmStep
<1>3. \A w \in Vms \ {v} : vm'[w] = vm[w]
  BY <1>2, VmStepKeeps
<1>4. ~InMap(v)' /\ InMap(v)
  BY <1>1 DEF InMap, Tracked
<1>5. ASSUME NEW w \in Vms, InMap(w)', ~vm'[w].over PROVE instances'[vm'[w].sb] = w
  <2>1. w # v /\ vm'[w] = vm[w] /\ InMap(w)
    BY <1>3, <1>4, <1>5, Zenon DEF InMap
  <2>2. instances[vm[w].sb] = w /\ vm[w].sb # vm[v].sb
    BY <1>4, <1>5, <2>1, Zenon DEF LoneInv
  <2>3. vm[w].sb \in Sandboxes
    BY <2>1, InMapHasSandbox
  <2> QED
    BY <1>1, <2>1, <2>2, <2>3, Zenon
<1>6. ASSUME NEW x \in Vms, NEW w \in Vms, x # w, InMap(x)', InMap(w)', vm'[x].sb = vm'[w].sb
      PROVE  vm'[x].over
  <2>1. x # v /\ w # v /\ vm'[x] = vm[x] /\ vm'[w] = vm[w]
    BY <1>3, <1>4, <1>6, Zenon
  <2>2. InMap(x) /\ InMap(w) /\ vm[x].sb = vm[w].sb
    BY <1>6, <2>1, Zenon DEF InMap
  <2> QED
    BY <1>6, <2>1, <2>2, Zenon DEF LoneInv
<1> QED
  BY <1>5, <1>6 DEF LoneInv

LEMMA LoneStep == CriInv /\ LoneInv /\ [Next]_vars => LoneInv'
<1> SUFFICES ASSUME CriInv, LoneInv, [Next]_vars PROVE LoneInv'
  OBVIOUS
<1>1. ASSUME UNCHANGED vmVars PROVE LoneInv'
  BY <1>1, LoneFrame DEF vmVars, InMap
<1>2. ASSUME NEW k \in Calls, NewCall(k) PROVE LoneInv'
  BY <1>1, <1>2, ZenonT(60) DEF NewCall, RunPodSandbox, StopPodSandbox, RemovePodSandbox,
        PodSandboxStatus, CreateContainer, StartContainer, StopContainer, RemoveContainer
<1>3. ASSUME NEW k \in Calls, StopKill(k) PROVE LoneInv'
  <2> DEFINE v == call[k].vm
  <2>1. vm \in [Vms -> VmRecs] /\ v \in Vms /\ UNCHANGED instances
    BY <1>3, CallIs DEF CriInv, VmInv, StopKill, At, Local, NeedsVm
  <2>2. UNCHANGED vm \/ (vm[v].st \in Tracked /\ vm' = [vm EXCEPT ![v].st = "dead"])
    BY <1>3 DEF StopKill, Alive, Tracked
  <2> HIDE DEF v
  <2>3. \A w \in Vms : InMap(w)' => InMap(w) /\ vm'[w].sb = vm[w].sb /\ vm'[w].over = vm[w].over
    BY <2>1, <2>2 DEF InMap, VmRecs
  <2> QED
    BY <2>1, <2>3, LoneFrame
<1>4. ASSUME NEW k \in Calls, CallStep(k) PROVE LoneInv'
  <2>1. StopKill(k) \/ (\E v \in Vms : Restore(k, v)) \/ UNCHANGED vmVars
    BY <1>4, ZenonT(60)
       DEF CallStep, RunCreate, RunConfig, RunReady, StopInstance, StopSignal, StopWait,
           StopTeardown, StopNotReady, StopList, StopExitAll, RemoveStop, RemoveList,
           RemoveRecords, StatusReconcile, StatusUpdate, CreateRecord, CreateConfig,
           StartGetSandbox, RestoreFails, StartPid, StartRunning, StartWatch, StopExited,
           RemoveCtrStop, RemoveCtr
  <2> QED
    BY <1>1, <1>3, <2>1, RestoreLone
<1>5. ASSUME NEW v \in Vms, VmStep(v), UNCHANGED instances PROVE LoneInv'
  <2>1. \A w \in Vms : InMap(w)' => InMap(w) /\ vm'[w].sb = vm[w].sb /\ vm'[w].over = vm[w].over
    BY <1>5, VmStepKeeps DEF InMap
  <2> QED
    BY <1>5, <2>1, LoneFrame
<1>6. ASSUME NEW v \in Vms, VmBoot(v) \/ VmExit(v) \/ Goroutines(v) PROVE LoneInv'
  <2>1. CASE Untrack(v)
    BY <2>1, UntrackLone
  <2>2. CASE VmBoot(v) \/ VmExit(v) \/ Reap(v) \/ CloseExitCh(v)
    <3>1. VmStep(v) /\ UNCHANGED instances
      BY <2>2 DEF VmStep, VmBoot, VmExit, Reap, CloseExitCh
    <3> QED
      BY <1>5, <3>1
  <2>3. CASE WatchGetSandbox(v) \/ WatchSandbox(v) \/ WatchContainer(v)
    BY <1>1, <2>3 DEF WatchGetSandbox, WatchSandbox, WatchContainer
  <2> QED
    BY <1>6, <2>1, <2>2, <2>3 DEF Goroutines
<1>7. CASE ServerRestart
  <2>1. \A v \in Vms : vm'[v] = IF vm[v] = NoVm THEN NoVm ELSE [vm[v] EXCEPT !.own = FALSE]
    BY <1>7 DEF ServerRestart
  <2>2. ASSUME NEW v \in Vms PROVE ~InMap(v)'
    <3>1. vm[v] \in VmRecs
      BY DEF CriInv, VmInv
    <3>2. NoVm.own = FALSE
      BY NoVmIs
    <3>3. [vm[v] EXCEPT !.own = FALSE].own = FALSE
      BY <3>1 DEF VmRecs
    <3>4. vm'[v].own = FALSE
      BY <2>1, <3>2, <3>3, Zenon
    <3> QED
      BY <3>4 DEF InMap
  <2> QED
    BY <2>2 DEF LoneInv
<1>8. CASE UNCHANGED vars
  BY <1>1, <1>8 DEF vars
<1> QED
  BY <1>2, <1>4, <1>6, <1>7, <1>8 DEF Next

\* A running VM that had its sandbox's place in the map to itself is named by
\* the map, so every stop of the sandbox finds it, whichever goroutines of
\* earlier VMs of the sandbox are still to delete their entry.
THEOREM LoneVmsTracked == Spec => []LoneVmIsTracked
<1>1. Init => LoneInv
  <2> SUFFICES ASSUME Init PROVE \A v \in Vms : ~InMap(v)
    BY DEF LoneInv
  <2> QED
    BY NoVmIs DEF Init, InMap
<1>2. LoneInv => LoneVmIsTracked
  BY DEF LoneInv, InMap, Tracked, LoneVmIsTracked, Alive
<1> QED
  BY <1>1, <1>2, CriInvariant, LoneStep, PTL DEF Spec

(***************************************************************************)
(* Only CreateContainer makes a record where there was none.               *)
(***************************************************************************)
NoneAppears == \A c \in Containers : ctrs[c] = None => ctrs'[c] = None

LEMMA UpdatesCreateNothing ==
    ASSUME StoreInv,
           \/ UNCHANGED ctrs
           \/ \E c \in Containers : \/ \E st \in {"running", "exited"} : UpdateContainer(c, st)
                                    \/ DeleteContainer(c)
    PROVE  NoneAppears
BY DEF NoneAppears, UpdateContainer, DeleteContainer, StoreInv

LEMMA CallCreates ==
    ASSUME CriInv, NEW k \in Calls, CallStep(k)
    PROVE  \/ NoneAppears
           \/ /\ call[k] # Idle /\ call[k].op = "createCtr"
              /\ \A c \in Containers \ {call[k].ctr} : ctrs[c] = None => ctrs'[c] = None
<1>1. CallInv /\ StoreInv
  BY DEF CriInv
<1>2. CASE CreateRecord(k)
  <2>1. call[k] # Idle /\ call[k].op = "createCtr"
    BY <1>1, <1>2, CallIs, ZenonT(60) DEF CreateRecord, At, Local, Reaches, Stopping, StopsPod
  <2>2. \A c \in Containers \ {call[k].ctr} : ctrs'[c] = ctrs[c]
    BY <1>1, <1>2, SMTT(60), ZenonT(60) DEF CreateRecord, StoreInv
  <2> QED
    BY <2>1, <2>2
<1>3. CASE StartRunning(k)
  <2>1. call[k].ctr \in Containers
    BY <1>1, <1>3, CallIs DEF StartRunning, At, Local, NeedsCtr, Reaches, Stopping, StopsPod
  <2> QED
    BY <1>1, <1>3, <2>1, UpdatesCreateNothing DEF StartRunning
<1> QED
  BY <1>1, <1>2, <1>3, CtrsChange, UpdatesCreateNothing

\* A removed container's record does not come back: whatever update a call or
\* a goroutine still had in hand, only a CreateContainer of the same ID, which
\* is generated once, writes a record where there is none.
THEOREM RemovedStaysRemoved == Spec => RemovedContainerStaysRemoved
<1> DEFINE A == \A c \in Containers : ctrs[c] = None /\ ctrs'[c] # None =>
                    \E k \in Calls : call[k] # Idle /\ call[k].ctr = c /\ call[k].op = "createCtr"
<1>1. CriInv /\ [Next]_vars => [A]_vars
  <2> SUFFICES ASSUME CriInv, Next PROVE A
    OBVIOUS
  <2>1. ASSUME NEW k \in Calls, NewCall(k) PROVE A
    <3>1. UNCHANGED ctrs
      BY <2>1, ZenonT(60) DEF NewCall, RunPodSandbox, StopPodSandbox, RemovePodSandbox, PodSandboxStatus,
                  CreateContainer, StartContainer, StopContainer, RemoveContainer, storeVars
    <3> QED
      BY <3>1
  <2>2. ASSUME NEW k \in Calls, CallStep(k) PROVE A
    BY <2>2, CallCreates, SMTT(60), ZenonT(60) DEF NoneAppears
  <2>3. ASSUME NEW v \in Vms, VmBoot(v) \/ VmExit(v) \/ Goroutines(v) PROVE A
    <3>1. StoreInv /\ WatchInv /\ VmInv
      BY DEF CriInv
    <3>2. CASE WatchContainer(v)
      <4>1. vm[v].ctr \in Containers
        <5>1. vm[v].st # "free"
          BY <3>1, <3>2 DEF WatchContainer, WatchInv
        <5> QED
          BY <3>1, <5>1, Started
      <4>2. NoneAppears
        BY <3>1, <3>2, <4>1, UpdatesCreateNothing DEF WatchContainer
      <4> QED
        BY <4>2 DEF NoneAppears
    <3>3. CASE ~WatchContainer(v)
      <4>1. UNCHANGED ctrs
        BY <2>3, <3>3 DEF VmBoot, VmExit, Goroutines, Reap, Untrack, CloseExitCh, WatchGetSandbox,
                          WatchSandbox, UpdateSandbox, storeVars
      <4> QED
        BY <4>1
    <3> QED
      BY <3>2, <3>3
  <2>4. CASE ServerRestart
    BY <2>4 DEF ServerRestart, storeVars
  <2> QED
    BY <2>1, <2>2, <2>3, <2>4, ZenonT(60) DEF Next
<1> QED
  BY <1>1, CriInvariant, PTL DEF Spec, RemovedContainerStaysRemoved
=============================================================================
