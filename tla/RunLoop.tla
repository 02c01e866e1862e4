------------------------------ MODULE RunLoop ------------------------------
(***************************************************************************)
(* The vCPU thread of the VMM (Vmm::run, src/vmm.cpp), the virtio-fs       *)
(* device it emulates (src/virtio.cpp), and the IRQ thread that kicks the  *)
(* vCPU out of KVM_RUN.                                                    *)
(*                                                                         *)
(* virtiofsd completes a request by writing the used ring and then the     *)
(* call eventfd.  Nobody injects the interrupt from there: only the vCPU   *)
(* thread does, in check_virtio_irqs, before it enters the guest.  The IRQ *)
(* thread therefore polls the eventfds, without reading them, and sends    *)
(* SIGUSR1, every 10 ms at the latest.  A signal that arrives while the    *)
(* vCPU thread is outside KVM_RUN is lost.  The same signals are the only  *)
(* way the VMM notices a guest that halted for good (HLT with interrupts   *)
(* off), because KVM's in-kernel irqchip keeps a halted vCPU inside        *)
(* KVM_RUN.                                                                *)
(***************************************************************************)
EXTENDS Naturals

CONSTANTS
    Share,   \* whether the VM was started with a shared directory (virtiofsd)
    MaxReq   \* bound: virtio-fs requests the guest has outstanding

ASSUME RunLoopAssumption == Share \in BOOLEAN /\ MaxReq \in Nat \ {0}

VARIABLES
    launch,     \* "boot" (boot --snapshot) or "restore"
    vpc,        \* where the vCPU thread is
    hlt,        \* consecutive_hlt_eintr
    runRet,     \* what run() last returned: 0, 1 (snapshot signal), 2 (error, -1)
    ignore,     \* ignore_next_signal_
    active,     \* virtio_active_
    irqThread,  \* "none", "poll", "kill", "exited"
    running,    \* irq_thread_running_
    irqWakeup,  \* irq_wakeup_fd_ was written
    fsStatus,   \* bit 0 of virq_status_
    fsLine,     \* level of the device's interrupt line
    fsIrr,      \* an edge is latched in the PIC
    fsAvail,    \* requests made available, not yet taken by virtiofsd
    kick,       \* the queue's kick eventfd is readable
    dpc,        \* virtiofsd: "idle", or "call" between used ring and eventfd
    done,       \* used entries the guest has not processed
    call,       \* the queue's call eventfd is readable
    g,          \* what the guest is doing
    fsVal       \* the interrupt status the guest's handler read

vcpu == <<hlt, runRet, ignore>>
thread == <<irqThread, running, irqWakeup>>
device == <<fsStatus, fsLine, fsIrr>>
ring == <<fsAvail, kick, dpc, done, call>>
loopVars == <<launch, vpc, vcpu, active, thread, device, ring, g, fsVal>>

Ended == {"cleanup", "join", "exited"}

(***************************************************************************)
(* The guest as KVM_GET_REGS and KVM_GET_MP_STATE show it: interrupts are  *)
(* off in the hard interrupt handler and in the final cli; hlt.            *)
(***************************************************************************)
InterruptsOn == g \notin {"status", "ack", "off"}
Halted == g \in {"halt", "off"}

(***************************************************************************)
(* start_irq_thread: a thread is started once.                             *)
(***************************************************************************)
StartIrqThread ==
    IF running
      THEN UNCHANGED thread
      ELSE irqThread' = "poll" /\ running' = TRUE /\ UNCHANGED irqWakeup

(***************************************************************************)
(* boot starts before the guest has probed its devices; restore resumes a  *)
(* guest at the write to the signal device that triggered the snapshot,    *)
(* which it therefore repeats, with the queues wired up by vu_setup and    *)
(* ignore_next_signal_ set.                                                *)
(***************************************************************************)
InitRestored ==
    /\ launch = "restore"
    /\ ignore = TRUE
    /\ active = Share
    /\ irqThread = IF Share THEN "poll" ELSE "none"
    /\ running = Share
    /\ g = "signal"

InitBoot ==
    /\ launch = "boot"
    /\ ignore = FALSE
    /\ active = FALSE
    /\ irqThread = "none"
    /\ running = FALSE
    /\ g = "boot"

LoopInit ==
    /\ InitRestored \/ InitBoot
    /\ vpc = "check" /\ hlt = 0 /\ runRet = 0
    /\ irqWakeup = FALSE
    /\ fsStatus = 0 /\ fsLine = 0 /\ fsIrr = FALSE
    /\ fsAvail = 0 /\ kick = FALSE /\ dpc = "idle" /\ done = 0 /\ call = FALSE
    /\ fsVal = 0

----------------------------------------------------------------------------
(* The vCPU thread *)

(***************************************************************************)
(* check_virtio_irqs: consume the call eventfd, set the status bit, raise  *)
(* the line.  Raising a line that is already high latches nothing.         *)
(***************************************************************************)
CheckIrqs ==
    /\ vpc = "check"
    /\ vpc' = "enter"
    /\ IF active /\ call
         THEN /\ call' = FALSE
              /\ fsStatus' = 1
              /\ fsLine' = 1
              /\ fsIrr' = IF fsLine = 0 THEN TRUE ELSE fsIrr
              /\ UNCHANGED <<fsAvail, kick, dpc, done>>
         ELSE UNCHANGED <<device, ring>>
    /\ UNCHANGED <<launch, vcpu, active, thread, g, fsVal>>

KvmRun ==
    /\ vpc = "enter"
    /\ vpc' = "guest"
    /\ UNCHANGED <<launch, vcpu, active, thread, device, ring, g, fsVal>>

\* Mutant: an idle guest counts as shut down (RFLAGS.IF is not looked at).
EintrAnyHalt ==
    /\ hlt' = IF Halted THEN hlt + 1 ELSE 0
    /\ vpc' = IF hlt' >= 2 THEN "returned" ELSE "check"
    /\ runRet' = IF hlt' >= 2 THEN 0 ELSE runRet
    /\ UNCHANGED ignore

\* Mutant: back into KVM_RUN without looking for completions.
EintrResume ==
    /\ hlt' = IF ~InterruptsOn /\ Halted THEN hlt + 1 ELSE 0
    /\ vpc' = IF hlt' >= 2 THEN "returned" ELSE "enter"
    /\ runRet' = IF hlt' >= 2 THEN 0 ELSE runRet
    /\ UNCHANGED ignore

\* Mutant: the counter starts again at every signal.
EintrForgets ==
    /\ hlt' = IF ~InterruptsOn /\ Halted THEN 1 ELSE 0
    /\ vpc' = "check"
    /\ UNCHANGED <<runRet, ignore>>

(***************************************************************************)
(* KVM_RUN returns EINTR: a guest found halted with interrupts off on two  *)
(* consecutive signals has shut down, and run() returns 0.                 *)
(***************************************************************************)
Eintr ==
    /\ hlt' = IF ~InterruptsOn /\ Halted THEN hlt + 1 ELSE 0
    /\ vpc' = IF hlt' >= 2 THEN "returned" ELSE "check"
    /\ runRet' = IF hlt' >= 2 THEN 0 ELSE runRet
    /\ UNCHANGED ignore

(***************************************************************************)
(* An exit run() handles and goes on from: the counter is reset.           *)
(***************************************************************************)
Exit ==
    /\ vpc = "guest"
    /\ vpc' = "check"
    /\ hlt' = 0
    /\ UNCHANGED runRet

(***************************************************************************)
(* KVM_EXIT_SHUTDOWN, and the exits that make run() return -1.             *)
(***************************************************************************)
Shutdown ==
    /\ vpc = "guest"
    /\ vpc' = "returned"
    /\ hlt' = 0
    /\ \/ runRet' = 0 /\ g' = "off"
       \/ runRet' = 2 /\ UNCHANGED g
    /\ UNCHANGED <<launch, ignore, active, thread, device, ring, fsVal>>

(***************************************************************************)
(* main after run(): boot saves the snapshot on 1 and calls run() again;   *)
(* every other return ends in the destructor's cleanup.                    *)
(***************************************************************************)
Main ==
    /\ vpc = "returned"
    /\ IF launch = "boot" /\ runRet = 1
         THEN vpc' = "check" /\ hlt' = 0 /\ runRet' = 0
         ELSE vpc' = "cleanup" /\ UNCHANGED <<hlt, runRet>>
    /\ UNCHANGED <<launch, ignore, active, thread, device, ring, g, fsVal>>

StopIrqThread ==
    /\ vpc = "cleanup"
    /\ IF running
         THEN running' = FALSE /\ irqWakeup' = TRUE /\ vpc' = "join"
         ELSE vpc' = "exited" /\ UNCHANGED <<running, irqWakeup>>
    /\ UNCHANGED <<launch, vcpu, active, irqThread, device, ring, g, fsVal>>

JoinIrqThread ==
    /\ vpc = "join"
    /\ irqThread = "exited"
    /\ vpc' = "exited"
    /\ UNCHANGED <<launch, vcpu, active, thread, device, ring, g, fsVal>>

VcpuThread == CheckIrqs \/ KvmRun \/ Main \/ StopIrqThread \/ JoinIrqThread

----------------------------------------------------------------------------
(* The IRQ thread *)

(***************************************************************************)
(* poll returns for a readable eventfd or after 10 ms; the wakeup eventfd  *)
(* ends the thread.                                                        *)
(***************************************************************************)
IrqPoll ==
    /\ irqThread = "poll"
    /\ irqThread' = IF irqWakeup THEN "exited" ELSE "kill"
    /\ irqWakeup' = FALSE
    /\ UNCHANGED <<launch, vpc, vcpu, active, running, device, ring, g, fsVal>>

(***************************************************************************)
(* pthread_kill, then the test of the loop.                                *)
(***************************************************************************)
IrqKill ==
    /\ irqThread = "kill"
    /\ irqThread' = IF running THEN "poll" ELSE "exited"
    /\ IF vpc = "guest" THEN Eintr ELSE UNCHANGED <<vpc, vcpu>>
    /\ UNCHANGED <<launch, active, running, irqWakeup, device, ring, g, fsVal>>

IrqThread == IrqPoll \/ IrqKill

----------------------------------------------------------------------------
(* virtiofsd *)

(***************************************************************************)
(* Serve one request: write the used ring.  The kick eventfd is drained    *)
(* with the last request.                                                  *)
(***************************************************************************)
Serve ==
    /\ vpc # "exited"
    /\ dpc = "idle" /\ kick /\ fsAvail > 0
    /\ fsAvail' = fsAvail - 1
    /\ done' = done + 1
    /\ kick' = IF fsAvail > 1 THEN TRUE ELSE FALSE
    /\ dpc' = "call"
    /\ UNCHANGED <<launch, vpc, vcpu, active, thread, device, call, g, fsVal>>

SignalCall ==
    /\ dpc = "call"
    /\ dpc' = "idle"
    /\ call' = TRUE
    /\ UNCHANGED <<launch, vpc, vcpu, active, thread, device, fsAvail, kick, done, g, fsVal>>

Virtiofsd == Serve \/ SignalCall

----------------------------------------------------------------------------
(* The guest, and the VMM's handler of each exit it causes *)

InGuest(from) == vpc = "guest" /\ g = from

(***************************************************************************)
(* STATUS := DRIVER_OK: vu_setup wires the queues to virtiofsd and starts  *)
(* the IRQ thread, if there is a virtiofsd and it has not done so before.  *)
(***************************************************************************)
DriverOk ==
    /\ InGuest("boot") /\ Exit
    /\ g' = "signal"
    /\ IF active \/ ~Share
         THEN UNCHANGED <<active, thread>>
         ELSE active' = TRUE /\ StartIrqThread
    /\ UNCHANGED <<launch, ignore, device, ring, fsVal>>

(***************************************************************************)
(* The write to the snapshot signal device.                                *)
(***************************************************************************)
Signal ==
    /\ InGuest("signal")
    /\ g' = "run"
    /\ hlt' = 0
    /\ IF ignore
         THEN ignore' = FALSE /\ vpc' = "check" /\ UNCHANGED runRet
         ELSE vpc' = "returned" /\ runRet' = 1 /\ UNCHANGED ignore
    /\ UNCHANGED <<launch, active, thread, device, ring, fsVal>>

(***************************************************************************)
(* The guest makes a request available and writes QUEUE_NOTIFY;            *)
(* virtio_kick writes the kick eventfd, if there is one.                   *)
(***************************************************************************)
FsNotify ==
    /\ InGuest("run") /\ Exit
    /\ fsAvail + done < MaxReq
    /\ fsAvail' = fsAvail + 1
    /\ kick' = active
    /\ UNCHANGED <<launch, ignore, active, thread, device, dpc, done, call, g, fsVal>>

FsTakeIrq ==
    /\ vpc = "guest" /\ g \in {"run", "halt"}
    /\ fsIrr
    /\ fsIrr' = FALSE
    /\ g' = "status"
    /\ UNCHANGED <<launch, vpc, vcpu, active, thread, fsStatus, fsLine, ring, fsVal>>

FsReadStatus ==
    /\ InGuest("status") /\ Exit
    /\ g' = "ack"
    /\ fsVal' = fsStatus
    /\ UNCHANGED <<launch, ignore, active, thread, device, ring>>

\* Mutant: the line is left high.
AckKeepsLine ==
    /\ InGuest("ack") /\ Exit
    /\ fsStatus' = IF fsVal = 1 THEN 0 ELSE fsStatus
    /\ g' = IF fsVal = 1 THEN "process" ELSE "run"
    /\ fsVal' = 0
    /\ UNCHANGED <<launch, ignore, active, thread, fsLine, fsIrr, ring>>

(***************************************************************************)
(* INTERRUPT_ACK: clear the bits written, lower the line when none is      *)
(* left.  The driver looks at the used ring if the bit it read was set.    *)
(***************************************************************************)
Ack ==
    /\ InGuest("ack") /\ Exit
    /\ fsStatus' = IF fsVal = 1 THEN 0 ELSE fsStatus
    /\ fsLine' = IF fsStatus' = 0 THEN 0 ELSE fsLine
    /\ g' = IF fsVal = 1 THEN "process" ELSE "run"
    /\ fsVal' = 0
    /\ UNCHANGED <<launch, ignore, active, thread, fsIrr, ring>>

FsProcess ==
    /\ InGuest("process")
    /\ done' = 0
    /\ g' = "run"
    /\ UNCHANGED <<launch, vpc, vcpu, active, thread, device, fsAvail, kick, dpc, call, fsVal>>

(***************************************************************************)
(* Idle, with interrupts on; and the final cli; hlt of a shut-down guest.  *)
(***************************************************************************)
Idle ==
    /\ InGuest("run")
    /\ g' \in {"halt", "off"}
    /\ UNCHANGED <<launch, vpc, vcpu, active, thread, device, ring, fsVal>>

FsHandler == FsTakeIrq \/ FsReadStatus \/ Ack \/ FsProcess

GuestKernel == DriverOk \/ Signal \/ FsNotify \/ FsHandler \/ Idle

LoopNext == VcpuThread \/ Shutdown \/ IrqThread \/ Virtiofsd \/ GuestKernel

LoopSpec == LoopInit /\ [][LoopNext]_loopVars

(***************************************************************************)
(* Every thread of the VMM and virtiofsd run when they can.  The guest's   *)
(* interrupt handler gets strong fairness: each signal takes the vCPU out  *)
(* of the guest, and between two of them the guest runs.                   *)
(***************************************************************************)
LoopFairSpec ==
    /\ LoopSpec
    /\ WF_loopVars(VcpuThread)
    /\ WF_loopVars(IrqThread)
    /\ WF_loopVars(Virtiofsd)
    /\ SF_loopVars(FsHandler)

----------------------------------------------------------------------------
(***************************************************************************)
(* Type correctness of the run loop, the IRQ thread and the device.        *)
(***************************************************************************)
LoopTypeOK ==
    /\ launch \in {"boot", "restore"}
    /\ vpc \in {"check", "enter", "guest", "returned"} \cup Ended
    /\ hlt \in 0..2 /\ runRet \in 0..2
    /\ ignore \in BOOLEAN /\ active \in BOOLEAN
    /\ irqThread \in {"none", "poll", "kill", "exited"}
    /\ running \in BOOLEAN /\ irqWakeup \in BOOLEAN
    /\ fsStatus \in {0, 1} /\ fsLine \in {0, 1} /\ fsIrr \in BOOLEAN
    /\ fsAvail \in 0..MaxReq /\ done \in 0..MaxReq
    /\ kick \in BOOLEAN /\ dpc \in {"idle", "call"} /\ call \in BOOLEAN
    /\ g \in {"boot", "signal", "run", "status", "ack", "process", "halt", "off"}
    /\ fsVal \in {0, 1}

(***************************************************************************)
(* No completion is stranded: while run() runs and the guest has a used    *)
(* entry to process, virtiofsd is about to write the call eventfd, or it   *)
(* is readable, or the status bit is set and an interrupt is latched or    *)
(* being handled, or the handler is on its way to the used ring.  So the   *)
(* ACK of one completion never loses the next, although check_virtio_irqs  *)
(* raises the line without lowering it first.                              *)
(***************************************************************************)
NoStrandedRequest ==
    done > 0 /\ vpc \in {"check", "enter", "guest"} =>
      \/ dpc = "call" \/ call
      \/ fsStatus = 1 /\ (fsIrr \/ g = "status")
      \/ g = "ack" /\ fsVal = 1
      \/ g = "process"

(***************************************************************************)
(* The VMM ends only with its guest: it reaches cleanup after an error of  *)
(* KVM_RUN or when the guest is off; never because the guest idles, is     *)
(* interrupted in a handler, or repeats the snapshot signal after restore. *)
(***************************************************************************)
EndsWithGuest == vpc \in Ended => runRet = 2 \/ g = "off"

(***************************************************************************)
(* Every completed request reaches the guest, although signals that arrive *)
(* outside KVM_RUN are lost, unless the guest is gone.                     *)
(***************************************************************************)
CompletionSeen == done > 0 ~> (done = 0 \/ g = "off" \/ vpc \in Ended)

(***************************************************************************)
(* A guest that shut down is noticed: run() returns, the IRQ thread is     *)
(* joined and the VMM exits.                                               *)
(***************************************************************************)
PowerOffNoticed == g = "off" ~> vpc = "exited"
=============================================================================
