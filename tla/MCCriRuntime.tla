---------------------------- MODULE MCCriRuntime ----------------------------
(* CriRuntime for TLC: two calls or two VMs over one or two sandboxes.     *)
EXTENDS CriRuntime, TLC

Symmetry == Permutations(Calls) \cup Permutations(Vms)

-----------------------------------------------------------------------------
(***************************************************************************)
(* Statements of the plugin's comments and docs that the code does not     *)
(* meet.  Each fails within two VMs and two calls; README.md tells how.    *)
(***************************************************************************)

Quiet(s) == \A k \in Calls : call[k] # Idle => call[k].sb # s

\* A ready sandbox that no call is working on holds its TAP: StopPodSandbox is
\* "Idempotent per spec.", so repeating it does nothing to another sandbox.
ReadyHoldsTap == \A s \in Sandboxes : Quiet(s) /\ sbs[s] # None /\ sbs[s].state = "ready"
                     => usedTaps[sbs[s].tap] = s

\* Every VM that is alive can be stopped: the manager's map names it.
LiveVmIsTracked == \A v \in Vms : Alive(v) => instances[vm[v].sb] = v

\* "1 pod sandbox = 1 vmtainer VM process"
OneVmPerSandbox == \A v, w \in Vms : v # w /\ Alive(v) /\ Alive(w) => vm[v].sb # vm[w].sb

\* A removed sandbox has no VM left.
RemovedIsStopped == \A s \in Sandboxes : s \in born /\ sbs[s] = None /\ Quiet(s)
                        => \A v \in Vms : vm[v].sb = s => ~Alive(v)

\* A VM runs the container it was started for.
VmRunsItsContainer == \A v \in Vms : vm[v].st = "running" => vm[v].cfg = vm[v].ctr

\* UpdateSandbox overwrites a record and never brings one back.
RemovedSandboxStaysRemoved ==
    [][\A s \in Sandboxes : sbs[s] = None /\ sbs'[s] # None =>
           \E k \in Calls : call[k] # Idle /\ call[k].sb = s /\ call[k].op = "runPod"]_vars
=============================================================================
