----------------------------- MODULE CriRuntime -----------------------------
(***************************************************************************)
(* The pod and container calls of the CRI plugin (runtime.go) over its     *)
(* three managers: the file-backed store (store.go), the VM manager        *)
(* (vmm.go) and the network pools (NetPool).  gRPC serves calls            *)
(* concurrently; each manager locks only inside one method, so a call is a *)
(* sequence of steps, one per manager access, that works on the copies it  *)
(* read earlier.  Beside the calls run, per VM, the process, the goroutine *)
(* of Restore that reaps it and the goroutine of StartContainer that       *)
(* records its exit.                                                       *)
(***************************************************************************)
EXTENDS NetPool, FiniteSets

CONSTANTS Containers, Vms, Calls,
          Ops,              \* the calls the kubelet makes
          GraceExpires,     \* Stop may give up on a process that is not reaped
          MaxRestarts       \* bound on restarts of the plugin

AllOps == {"runPod", "stopPod", "removePod", "status", "createCtr", "startCtr", "stopCtr",
           "removeCtr"}

ASSUME CriAssumption == /\ None \notin Containers \cup Vms /\ Ops \subseteq AllOps
                        /\ GraceExpires \in BOOLEAN /\ MaxRestarts \in Nat

VARIABLES sbs, sbDir, cfg,  \* meta.json, directory and config.json per sandbox
          ctrs,             \* meta.json per container
          instances,        \* the VM manager's map: sandbox -> VM
          vm,               \* the VM processes and their Instance objects; own: started
                            \* by this plugin process; over (history): another VM of the
                            \* sandbox was started before one of the two left the map
          watch,            \* StartContainer's goroutine per VM
          call,             \* the calls being served
          born,             \* sandbox and container IDs already generated
          restarts

storeVars == <<sbs, sbDir, cfg, ctrs>>
vmVars == <<instances, vm>>
vars == <<poolVars, storeVars, vmVars, watch, call, born, restarts>>

Idle == [op |-> "idle"]
NoVm == [st |-> "free", sb |-> None, ctr |-> None, cfg |-> None, own |-> FALSE, over |-> FALSE]
NoWatch == [pc |-> "none", rec |-> None]

Init == /\ PoolInit
        /\ sbs = [s \in Sandboxes |-> None] /\ sbDir = {}
        /\ cfg = [s \in Sandboxes |-> None]
        /\ ctrs = [c \in Containers |-> None]
        /\ instances = [s \in Sandboxes |-> None]
        /\ vm = [v \in Vms |-> NoVm]
        /\ watch = [v \in Vms |-> NoWatch]
        /\ call = [k \in Calls |-> Idle]
        /\ born = {} /\ restarts = 0

-----------------------------------------------------------------------------
(* The store: every operation is atomic *)

Ready(rec) == [rec EXCEPT !.state = "ready"]
NotReady(rec) == [rec EXCEPT !.state = "notready"]

\* writeJSON creates the file but not its directory.
UpdateSandbox(s, rec) ==
    /\ sbs' = IF s \in sbDir THEN [sbs EXCEPT ![s] = rec] ELSE sbs
    /\ UNCHANGED <<sbDir, cfg, ctrs>>

\* Mutant: the update makes the directory it needs.
UpdateContainerMkdir(c, state) ==
    /\ ctrs' = IF ctrs[c] # None THEN [ctrs EXCEPT ![c].state = state]
               ELSE [ctrs EXCEPT ![c] = [sb |-> CHOOSE s \in Sandboxes : TRUE, state |-> state]]
    /\ UNCHANGED <<sbs, sbDir, cfg>>

\* A container's directory goes with its record.
UpdateContainer(c, state) ==
    /\ ctrs' = IF ctrs[c] # None THEN [ctrs EXCEPT ![c].state = state] ELSE ctrs
    /\ UNCHANGED <<sbs, sbDir, cfg>>

DeleteContainer(c) == /\ ctrs' = [ctrs EXCEPT ![c] = None]
                      /\ UNCHANGED <<sbs, sbDir, cfg>>

DeleteSandbox(s) == /\ sbs' = [sbs EXCEPT ![s] = None]
                    /\ sbDir' = sbDir \ {s}
                    /\ cfg' = [cfg EXCEPT ![s] = None]
                    /\ UNCHANGED ctrs

ListContainers(s) == {c \in Containers : ctrs[c] # None /\ ctrs[c].sb = s}

WriteConfig(s, content) ==
    /\ cfg' = IF s \in sbDir THEN [cfg EXCEPT ![s] = content] ELSE cfg
    /\ UNCHANGED <<sbs, sbDir, ctrs>>

-----------------------------------------------------------------------------
(* Calls: a record of the operation, its next step and its local copies *)

At(k, pc) == call[k] # Idle /\ call[k].pc = pc
Begin(k, op, pc, s, c, rec) ==
    /\ call[k] = Idle /\ op \in Ops
    /\ call' = [call EXCEPT ![k] = [op |-> op, pc |-> pc, sb |-> s, ctr |-> c, rec |-> rec,
                                    vm |-> None, todo |-> {}]]
Goto(k, pc) == call' = [call EXCEPT ![k].pc = pc]
Return(k) == call' = [call EXCEPT ![k] = Idle]

(* RunPodSandbox *)

RunPodSandbox(k, s, t, i) ==
    /\ s \notin born
    /\ SetupSandbox(s, t, i)
    /\ Begin(k, "runPod", "create", s, None, [state |-> "notready", tap |-> t, ip |-> i])
    /\ born' = born \cup {s}
    /\ UNCHANGED <<storeVars, vmVars, watch, restarts>>

\* MkdirAll and CreateSandbox, or the network is torn down again.
RunCreate(k) ==
    /\ At(k, "create")
    /\ \/ /\ sbs' = [sbs EXCEPT ![call[k].sb] = call[k].rec]
          /\ sbDir' = sbDir \cup {call[k].sb}
          /\ Goto(k, "placeholder")
          /\ UNCHANGED poolVars
       \/ /\ TeardownSandbox(call[k].rec.tap, call[k].rec.ip)
          /\ sbDir' \in {sbDir, sbDir \cup {call[k].sb}}
          /\ Return(k)
          /\ UNCHANGED sbs
    /\ UNCHANGED <<cfg, ctrs, vmVars, watch, born, restarts>>

RunConfig(k) == /\ At(k, "placeholder")
                /\ WriteConfig(call[k].sb, "placeholder")
                /\ Goto(k, "ready")
                /\ UNCHANGED <<poolVars, vmVars, watch, born, restarts>>

RunReady(k) == /\ At(k, "ready")
               /\ UpdateSandbox(call[k].sb, Ready(call[k].rec))
               /\ Return(k)
               /\ UNCHANGED <<poolVars, vmVars, watch, born, restarts>>

(* StopInstance, inside the four calls that stop a VM *)

\* What follows StopInstance in each of them.
AfterStop(k) == IF call[k].op \in {"stopPod", "removePod"} THEN "teardown" ELSE "exited"

\* Instance.exited is set when the process has been waited for.
Exited(v) == vm[v].st \in {"exited", "untracked", "closed"}

StopInstance(k) ==
    /\ At(k, "stop")
    /\ LET v == instances[call[k].sb]
       IN  IF v = None THEN Goto(k, AfterStop(k))
           ELSE call' = [call EXCEPT ![k].vm = v, ![k].pc = "signal"]
    /\ UNCHANGED <<poolVars, storeVars, vmVars, watch, born, restarts>>

\* Stop reads exited and the PID under the instance's lock.
StopSignal(k) ==
    /\ At(k, "signal")
    /\ Goto(k, IF Exited(call[k].vm) THEN AfterStop(k) ELSE "kill")
    /\ UNCHANGED <<poolVars, storeVars, vmVars, watch, born, restarts>>

Alive(v) == vm[v].st \in {"starting", "running"}

\* SIGTERM, after the lock is released: the VMM does not catch it, and by now
\* the process may be dead or reaped (ESRCH).  SIGKILL follows after the grace
\* period and finds it in no other state.
StopKill(k) ==
    /\ At(k, "kill")
    /\ vm' = IF Alive(call[k].vm) THEN [vm EXCEPT ![call[k].vm].st = "dead"] ELSE vm
    /\ Goto(k, "wait")
    /\ UNCHANGED <<poolVars, storeVars, instances, watch, born, restarts>>

\* Mutant: Stop waits for a state the goroutine may already have left.
StopWaitExited(k) == /\ At(k, "wait")
                     /\ vm[call[k].vm].st = "exited"
                     /\ Goto(k, AfterStop(k))
                     /\ UNCHANGED <<poolVars, storeVars, vmVars, watch, born, restarts>>

StopWait(k) == /\ At(k, "wait")
               /\ GraceExpires \/ vm[call[k].vm].st = "closed"
               /\ Goto(k, AfterStop(k))
               /\ UNCHANGED <<poolVars, storeVars, vmVars, watch, born, restarts>>

(* StopPodSandbox and RemovePodSandbox *)

StopPodSandbox(k, s) ==
    /\ sbs[s] # None
    /\ Begin(k, "stopPod", "stop", s, None, sbs[s])
    /\ UNCHANGED <<poolVars, storeVars, vmVars, watch, born, restarts>>

StopTeardown(k) == /\ At(k, "teardown")
                   /\ TeardownSandbox(call[k].rec.tap, call[k].rec.ip)
                   /\ Goto(k, "notready")
                   /\ UNCHANGED <<storeVars, vmVars, watch, born, restarts>>

StopNotReady(k) == /\ At(k, "notready")
                   /\ UpdateSandbox(call[k].sb, NotReady(call[k].rec))
                   /\ Goto(k, "list")
                   /\ UNCHANGED <<poolVars, vmVars, watch, born, restarts>>

\* The containers listed as running are recorded as exited one by one.
StopList(k) ==
    /\ At(k, "list")
    /\ call' = [call EXCEPT ![k].pc = "exitAll",
                    ![k].todo = {c \in ListContainers(call[k].sb) : ctrs[c].state = "running"}]
    /\ UNCHANGED <<poolVars, storeVars, vmVars, watch, born, restarts>>

StopExitAll(k) ==
    /\ At(k, "exitAll")
    /\ \/ \E c \in call[k].todo : /\ UpdateContainer(c, "exited")
                                  /\ call' = [call EXCEPT ![k].todo = @ \ {c}]
       \/ /\ call[k].todo = {}
          /\ IF call[k].op = "stopPod" THEN Return(k) ELSE Goto(k, "rmList")
          /\ UNCHANGED storeVars
    /\ UNCHANGED <<poolVars, vmVars, watch, born, restarts>>

\* Only a sandbox recorded as ready is stopped first.
RemovePodSandbox(k, s) ==
    /\ sbs[s] # None
    /\ Begin(k, "removePod", IF sbs[s].state = "ready" THEN "rmStop" ELSE "rmList", s, None, None)
    /\ UNCHANGED <<poolVars, storeVars, vmVars, watch, born, restarts>>

\* The nested StopPodSandbox reads the record again.
RemoveStop(k) ==
    /\ At(k, "rmStop")
    /\ LET rec == sbs[call[k].sb]
       IN  IF rec = None THEN Goto(k, "rmList")
           ELSE call' = [call EXCEPT ![k].rec = rec, ![k].pc = "stop"]
    /\ UNCHANGED <<poolVars, storeVars, vmVars, watch, born, restarts>>

RemoveList(k) ==
    /\ At(k, "rmList")
    /\ call' = [call EXCEPT ![k].pc = "rmCtrs", ![k].todo = ListContainers(call[k].sb)]
    /\ UNCHANGED <<poolVars, storeVars, vmVars, watch, born, restarts>>

RemoveRecords(k) ==
    /\ At(k, "rmCtrs")
    /\ \/ \E c \in call[k].todo : /\ DeleteContainer(c)
                                  /\ call' = [call EXCEPT ![k].todo = @ \ {c}]
       \/ /\ call[k].todo = {}
          /\ DeleteSandbox(call[k].sb)
          /\ Return(k)
    /\ UNCHANGED <<poolVars, vmVars, watch, born, restarts>>

(* PodSandboxStatus reconciles the record of a sandbox whose VM has exited *)

PodSandboxStatus(k, s) ==
    /\ sbs[s] # None /\ sbs[s].state = "ready"
    /\ Begin(k, "status", "reconcile", s, None, sbs[s])
    /\ UNCHANGED <<poolVars, storeVars, vmVars, watch, born, restarts>>

StatusReconcile(k) ==
    /\ At(k, "reconcile")
    /\ LET v == instances[call[k].sb]
       IN  IF v # None /\ Exited(v) THEN Goto(k, "statusUpdate") ELSE Return(k)
    /\ UNCHANGED <<poolVars, storeVars, vmVars, watch, born, restarts>>

StatusUpdate(k) == /\ At(k, "statusUpdate")
                   /\ UpdateSandbox(call[k].sb, NotReady(call[k].rec))
                   /\ Return(k)
                   /\ UNCHANGED <<poolVars, vmVars, watch, born, restarts>>

(* CreateContainer *)

CreateContainer(k, s, c) ==
    /\ sbs[s] # None /\ c \notin born
    /\ Begin(k, "createCtr", "newCtr", s, c, None)
    /\ born' = born \cup {c}
    /\ UNCHANGED <<poolVars, storeVars, vmVars, watch, restarts>>

\* The root file system is copied, then the record written; either may fail.
CreateRecord(k) ==
    /\ At(k, "newCtr")
    /\ \/ /\ ctrs' = [ctrs EXCEPT ![call[k].ctr] = [sb |-> call[k].sb, state |-> "created"]]
          /\ Goto(k, "ctrConfig")
       \/ Return(k) /\ UNCHANGED ctrs
    /\ UNCHANGED <<poolVars, sbs, sbDir, cfg, vmVars, watch, born, restarts>>

CreateConfig(k) == /\ At(k, "ctrConfig")
                   /\ WriteConfig(call[k].sb, call[k].ctr)
                   /\ Return(k)
                   /\ UNCHANGED <<poolVars, vmVars, watch, born, restarts>>

(* StartContainer *)

StartContainer(k, c) ==
    /\ ctrs[c] # None /\ ctrs[c].state # "running"
    /\ Begin(k, "startCtr", "getSb", ctrs[c].sb, c, None)
    /\ UNCHANGED <<poolVars, storeVars, vmVars, watch, born, restarts>>

StartGetSandbox(k) ==
    /\ At(k, "getSb")
    /\ LET rec == sbs[call[k].sb]
       IN  IF rec = None THEN Return(k)
           ELSE call' = [call EXCEPT ![k].rec = rec, ![k].pc = "restore"]
    /\ UNCHANGED <<poolVars, storeVars, vmVars, watch, born, restarts>>

\* The VMs of a sandbox whose goroutine has yet to delete the map's entry.
Mapped(s) == {v \in Vms : /\ vm[v].sb = s /\ vm[v].own
                          /\ vm[v].st \in {"starting", "running", "dead", "exited"}}

\* Restore makes the log directory, starts the process and tracks it, whatever
\* the map's entry was.
Restore(k, v) ==
    /\ At(k, "restore") /\ vm[v] = NoVm
    /\ sbDir' = sbDir \cup {call[k].sb}
    /\ vm' = [w \in Vms |->
                 IF w = v THEN [st |-> "starting", sb |-> call[k].sb, ctr |-> call[k].ctr,
                                cfg |-> None, own |-> TRUE, over |-> Mapped(call[k].sb) # {}]
                 ELSE [vm[w] EXCEPT !.over = @ \/ w \in Mapped(call[k].sb)]]
    /\ instances' = [instances EXCEPT ![call[k].sb] = v]
    /\ call' = [call EXCEPT ![k].vm = v, ![k].pc = "pid"]
    /\ UNCHANGED <<poolVars, sbs, cfg, ctrs, watch, born, restarts>>

RestoreFails(k) == /\ At(k, "restore")
                   /\ sbDir' = sbDir \cup {call[k].sb}
                   /\ Return(k)
                   /\ UNCHANGED <<poolVars, sbs, cfg, ctrs, vmVars, watch, born, restarts>>

\* The record read before Restore is written back with the PID.
StartPid(k) == /\ At(k, "pid")
               /\ UpdateSandbox(call[k].sb, call[k].rec)
               /\ Goto(k, "running")
               /\ UNCHANGED <<poolVars, vmVars, watch, born, restarts>>

StartRunning(k) == /\ At(k, "running")
                   /\ UpdateContainer(call[k].ctr, "running")
                   /\ Goto(k, "watch")
                   /\ UNCHANGED <<poolVars, vmVars, watch, born, restarts>>

\* Mutant: nobody waits for the VM.
StartUnwatched(k) == /\ At(k, "watch")
                     /\ Return(k)
                     /\ UNCHANGED <<poolVars, storeVars, vmVars, watch, born, restarts>>

StartWatch(k) == /\ At(k, "watch")
                 /\ watch' = [watch EXCEPT ![call[k].vm].pc = "wait"]
                 /\ Return(k)
                 /\ UNCHANGED <<poolVars, storeVars, vmVars, born, restarts>>

(* StopContainer and RemoveContainer *)

StopContainer(k, c) ==
    /\ ctrs[c] # None /\ ctrs[c].state = "running"
    /\ Begin(k, "stopCtr", "stop", ctrs[c].sb, c, None)
    /\ UNCHANGED <<poolVars, storeVars, vmVars, watch, born, restarts>>

StopExited(k) ==
    /\ At(k, "exited")
    /\ UpdateContainer(call[k].ctr, "exited")
    /\ IF call[k].op = "stopCtr" THEN Return(k) ELSE Goto(k, "rmCtr")
    /\ UNCHANGED <<poolVars, vmVars, watch, born, restarts>>

RemoveContainer(k, c) ==
    /\ ctrs[c] # None
    /\ Begin(k, "removeCtr", IF ctrs[c].state = "running" THEN "rcStop" ELSE "rmCtr",
             ctrs[c].sb, c, None)
    /\ UNCHANGED <<poolVars, storeVars, vmVars, watch, born, restarts>>

\* The nested StopContainer reads the record again.
RemoveCtrStop(k) ==
    /\ At(k, "rcStop")
    /\ LET rec == ctrs[call[k].ctr]
       IN  Goto(k, IF rec # None /\ rec.state = "running" THEN "stop" ELSE "rmCtr")
    /\ UNCHANGED <<poolVars, storeVars, vmVars, watch, born, restarts>>

RemoveCtr(k) == /\ At(k, "rmCtr")
                /\ DeleteContainer(call[k].ctr)
                /\ Return(k)
                /\ UNCHANGED <<poolVars, vmVars, watch, born, restarts>>

-----------------------------------------------------------------------------
(* The VM process and its two goroutines *)

\* The VMM reads config.json when it gets to it, and exits without one.
VmBoot(v) == /\ vm[v].st = "starting"
             /\ vm' = IF cfg[vm[v].sb] = None
                      THEN [vm EXCEPT ![v].st = "dead"]
                      ELSE [vm EXCEPT ![v].st = "running", ![v].cfg = cfg[vm[v].sb]]
             /\ UNCHANGED <<poolVars, storeVars, instances, watch, call, born, restarts>>

\* The workload ends, or the process is killed because the context of the
\* StartContainer call that started it is cancelled (exec.CommandContext), as
\* gRPC does when that call has returned.
VmExit(v) == /\ vm[v].st \in {"starting", "running"}
             /\ vm' = [vm EXCEPT ![v].st = "dead"]
             /\ UNCHANGED <<poolVars, storeVars, instances, watch, call, born, restarts>>

\* cmd.Wait returns and Instance.exited is set.
Reap(v) == /\ vm[v].st = "dead" /\ vm[v].own
           /\ vm' = [vm EXCEPT ![v].st = "exited"]
           /\ UNCHANGED <<poolVars, storeVars, instances, watch, call, born, restarts>>

\* delete(m.instances, sandboxID): whatever instance is there.
Untrack(v) == /\ vm[v].st = "exited" /\ vm[v].own
              /\ vm' = [vm EXCEPT ![v].st = "untracked"]
              /\ instances' = [instances EXCEPT ![vm[v].sb] = None]
              /\ UNCHANGED <<poolVars, storeVars, watch, call, born, restarts>>

\* Mutant: the entry is deleted after the channel has been closed, too.
CloseUntracks(v) == /\ vm[v].st = "untracked" /\ vm[v].own
                    /\ vm' = [vm EXCEPT ![v].st = "closed"]
                    /\ instances' = [instances EXCEPT ![vm[v].sb] = None]
                    /\ UNCHANGED <<poolVars, storeVars, watch, call, born, restarts>>

CloseExitCh(v) == /\ vm[v].st = "untracked" /\ vm[v].own
                  /\ vm' = [vm EXCEPT ![v].st = "closed"]
                  /\ UNCHANGED <<poolVars, storeVars, instances, watch, call, born, restarts>>

WatchGetSandbox(v) ==
    /\ watch[v].pc = "wait" /\ vm[v].st = "closed"
    /\ LET rec == sbs[vm[v].sb]
       IN  watch' = [watch EXCEPT ![v] = [pc |-> IF rec = None THEN "ctr" ELSE "sb", rec |-> rec]]
    /\ UNCHANGED <<poolVars, storeVars, vmVars, call, born, restarts>>

WatchSandbox(v) ==
    /\ watch[v].pc = "sb"
    /\ UpdateSandbox(vm[v].sb, NotReady(watch[v].rec))
    /\ watch' = [watch EXCEPT ![v] = [pc |-> "ctr", rec |-> None]]
    /\ UNCHANGED <<poolVars, vmVars, call, born, restarts>>

\* Mutant: the goroutine records the sandbox only.
WatchSandboxOnly(v) ==
    /\ watch[v].pc = "ctr"
    /\ watch' = [watch EXCEPT ![v].pc = "done"]
    /\ UNCHANGED <<poolVars, storeVars, vmVars, call, born, restarts>>

WatchContainer(v) ==
    /\ watch[v].pc = "ctr"
    /\ UpdateContainer(vm[v].ctr, "exited")
    /\ watch' = [watch EXCEPT ![v].pc = "done"]
    /\ UNCHANGED <<poolVars, vmVars, call, born, restarts>>

\* The plugin is restarted: its maps and goroutines are gone, the files and the
\* VM processes, each in a process group of its own, stay.
ServerRestart ==
    /\ restarts < MaxRestarts
    /\ restarts' = restarts + 1
    /\ usedTaps' = [t \in Taps |-> None] /\ usedIPs' = [i \in IPs |-> None]
    /\ instances' = [s \in Sandboxes |-> None]
    /\ vm' = [v \in Vms |-> IF vm[v] = NoVm THEN NoVm ELSE [vm[v] EXCEPT !.own = FALSE]]
    /\ watch' = [v \in Vms |-> NoWatch]
    /\ call' = [k \in Calls |-> Idle]
    /\ UNCHANGED <<storeVars, born>>

-----------------------------------------------------------------------------
NewCall(k) == \/ \E s \in Sandboxes, t \in Taps, i \in IPs : RunPodSandbox(k, s, t, i)
              \/ \E s \in Sandboxes : \/ StopPodSandbox(k, s) \/ RemovePodSandbox(k, s)
                                      \/ PodSandboxStatus(k, s)
                                      \/ \E c \in Containers : CreateContainer(k, s, c)
              \/ \E c \in Containers : \/ StartContainer(k, c) \/ StopContainer(k, c)
                                       \/ RemoveContainer(k, c)

CallStep(k) ==
    \/ RunCreate(k) \/ RunConfig(k) \/ RunReady(k)
    \/ StopInstance(k) \/ StopSignal(k) \/ StopKill(k) \/ StopWait(k) \/ StopTeardown(k)
    \/ StopNotReady(k) \/ StopList(k) \/ StopExitAll(k)
    \/ RemoveStop(k) \/ RemoveList(k) \/ RemoveRecords(k)
    \/ StatusReconcile(k) \/ StatusUpdate(k)
    \/ CreateRecord(k) \/ CreateConfig(k)
    \/ StartGetSandbox(k) \/ (\E v \in Vms : Restore(k, v)) \/ RestoreFails(k)
    \/ StartPid(k) \/ StartRunning(k) \/ StartWatch(k)
    \/ StopExited(k) \/ RemoveCtrStop(k) \/ RemoveCtr(k)

Goroutines(v) == Reap(v) \/ Untrack(v) \/ CloseExitCh(v)
                   \/ WatchGetSandbox(v) \/ WatchSandbox(v) \/ WatchContainer(v)

Next == \/ \E k \in Calls : NewCall(k) \/ CallStep(k)
        \/ \E v \in Vms : VmBoot(v) \/ VmExit(v) \/ Goroutines(v)
        \/ ServerRestart

Spec == Init /\ [][Next]_vars

\* Calls and goroutines are scheduled; nobody has to call or to exit.
FairSpec == Spec /\ (\A k \in Calls : WF_vars(CallStep(k)))
                 /\ (\A v \in Vms : WF_vars(Goroutines(v)))

-----------------------------------------------------------------------------
SbRecs == [state : {"ready", "notready"}, tap : Taps, ip : IPs]
CtrRecs == [sb : Sandboxes, state : {"created", "running", "exited"}]
CallRecs == [op : AllOps,
             pc : {"create", "placeholder", "ready", "stop", "signal", "kill", "wait",
                   "teardown", "notready", "list", "exitAll", "rmStop", "rmList", "rmCtrs", "reconcile",
                   "statusUpdate", "newCtr", "ctrConfig", "getSb", "restore", "pid", "running",
                   "watch", "exited", "rcStop", "rmCtr"},
             sb : Sandboxes, ctr : Containers \cup {None}, rec : SbRecs \cup {None},
             vm : Vms \cup {None}, todo : SUBSET Containers]

\* Type correctness: the records the calls and goroutines of the plugin write
\* have the states store.go declares, and the maps name sandboxes and VMs.
TypeOK ==
    /\ usedTaps \in [Taps -> Sandboxes \cup {None}]
    /\ usedIPs \in [IPs -> Sandboxes \cup {None}]
    /\ sbs \in [Sandboxes -> SbRecs \cup {None}] /\ sbDir \subseteq Sandboxes
    /\ cfg \in [Sandboxes -> Containers \cup {None, "placeholder"}]
    /\ ctrs \in [Containers -> CtrRecs \cup {None}]
    /\ instances \in [Sandboxes -> Vms \cup {None}]
    /\ vm \in [Vms -> [st : {"free", "starting", "running", "dead", "exited", "untracked",
                             "closed"},
                       sb : Sandboxes \cup {None}, ctr : Containers \cup {None},
                       cfg : Containers \cup {None, "placeholder"},
                       own : BOOLEAN, over : BOOLEAN]]
    /\ watch \in [Vms -> [pc : {"none", "wait", "sb", "ctr", "done"}, rec : SbRecs \cup {None}]]
    /\ \A k \in Calls : call[k] = Idle \/ call[k] \in CallRecs
    /\ born \subseteq Sandboxes \cup Containers /\ restarts \in 0..MaxRestarts

\* A VM that runs can be stopped: the manager's map names it, although every
\* goroutine deletes its sandbox's entry whatever VM is there.  Only a VM whose
\* run in the map overlapped another one of the sandbox's may be missed, and one
\* an earlier process of the plugin started.
LoneVmIsTracked == \A v \in Vms : Alive(v) /\ vm[v].own /\ ~vm[v].over
                                      => instances[vm[v].sb] = v

\* A container recorded as running has a goroutine that will record its exit, or
\* the StartContainer call that is about to start it; a watcher that ends has
\* recorded.  (A restarted plugin watches nothing.)
RunningIsWatched == restarts = 0 =>
    \A c \in Containers : ctrs[c] # None /\ ctrs[c].state = "running" =>
        \/ \E v \in Vms : vm[v].ctr = c /\ watch[v].pc \in {"wait", "sb", "ctr"}
        \/ \E k \in Calls : At(k, "watch") /\ call[k].ctr = c

\* The record of a removed container does not come back, whichever update a
\* call or a goroutine still had in hand.  (ExecSync, which is not modelled,
\* would make the container's directory again.)
RemovedContainerStaysRemoved ==
    [][\A c \in Containers : ctrs[c] = None /\ ctrs'[c] # None =>
           \E k \in Calls : call[k] # Idle /\ call[k].ctr = c /\ call[k].op = "createCtr"]_vars

\* Every call returns, those included that wait in Instance.Stop for the reaper
\* to close exitCh.
CallsReturn == \A k \in Calls : call[k] # Idle ~> call[k] = Idle

\* A container whose VMs are gone does not stay recorded as running: the
\* watcher of StartContainer or a stop records the exit.
ExitIsRecorded ==
    \A c \in Containers : (ctrs[c] # None /\ ctrs[c].state = "running") ~>
        (\/ ctrs[c] = None \/ (ctrs[c] # None /\ ctrs[c].state # "running")
         \/ \E v \in Vms : vm[v].ctr = c /\ Alive(v))
=============================================================================
