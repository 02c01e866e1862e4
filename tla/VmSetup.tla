------------------------------ MODULE VmSetup ------------------------------
(***************************************************************************)
(* The life of the VMM process around the vCPU loop.  `boot` creates the   *)
(* VM, starts virtiofsd, loads the kernel and runs the guest until its     *)
(* init signals; the snapshot taken there is then restored by a second     *)
(* process, which wires the devices the snapshot describes to its own      *)
(* virtiofsd and TAP.  The guest drives both devices through their MMIO    *)
(* registers; one driver may be probed before or after the snapshot.       *)
(***************************************************************************)
EXTENDS VhostUser, BootLayout

CONSTANTS BootShare,   \* boot is given --share, as the README does
          RingFeatures,\* features that change how a ring is used
          Images,      \* kernels and initrds to boot: <<ram, setup, kernel, initrd>>
          MaxRetry     \* bound on the probes a driver abandons

ASSUME SetupAssumption ==
  /\ MaxRetry \in Nat
  /\ \A m \in Images : m[1] \in Nat /\ m[2] \in Nat /\ m[3] \in Nat /\ m[4] \in Nat
  /\ "VERSION_1" \notin RingFeatures

VARIABLES mode,     \* "boot" or "restore"
          pc,       \* where main() is
          image,    \* the image loaded, <<>> before
          fs, net,  \* the register files of the two devices
          fds,      \* fds[q]: kick and call eventfd of a virtio-fs queue
          nextFd,   \* descriptors are never reused within the model
          fsActive, netActive,   \* virtio_active_, net_active_
          tap,      \* tap_fd_ is open
          threads,  \* the net threads ever started: "wait", "loop", "gone"
          stop,     \* net_thread_stop_
          snap,     \* the snapshot file's device state and guest, <<>> before
          gpc,      \* next step of the guest
          late,     \* the net driver is probed after the snapshot
          retry,    \* probes abandoned so far
          avail     \* avail index of the virtio-fs request ring

procVars == <<mode, pc, image, fds, nextFd, fsActive, netActive, tap, threads, stop>>
devVars == <<fs, net>>
guestVars == <<gpc, late, retry, avail>>
vars == <<vhostVars, procVars, devVars, guestVars, snap>>

OK == 4   \* DRIVER_OK
NoQueue == [num |-> 0, addr |-> 0, ready |-> FALSE]
ResetRegs == [status |-> 0, sel |-> 0, features |-> {}, q |-> [i \in Queues |-> NoQueue]]
NoFds == [q \in Queues |-> [kick |-> 0, call |-> 0]]

\* What a guest driver writes to probe a device, and what init does.
Probe(dev) ==
  <<<<dev, "reset">>, <<dev, "features">>,
    <<dev, "sel", 0>>, <<dev, "num", 64>>, <<dev, "addr">>, <<dev, "ready">>,
    <<dev, "sel", 1>>, <<dev, "num", 64>>, <<dev, "addr">>, <<dev, "ready">>,
    <<dev, "ok">>>>
InitSteps == <<<<"init", "mount">>, <<"init", "wait">>, <<"init", "off">>>>
EarlyProgram == Probe("fs") \o Probe("net") \o <<<<"init", "signal">>>> \o InitSteps
LateProgram == Probe("fs") \o <<<<"init", "signal">>>> \o Probe("net") \o InitSteps
Program == IF late THEN LateProgram ELSE EarlyProgram

\* The guest's next step is this one.
At(dev, step) == pc = "run" /\ Program[gpc][1] = dev /\ Program[gpc][2] = step
Operand == Program[gpc][3]
Step == gpc' = gpc + 1 /\ UNCHANGED <<late, retry>>

\* A new process: nothing is open, every register is reset.
NewProcess ==
  /\ pc = "init" /\ image = <<>>
  /\ fs = ResetRegs /\ net = ResetRegs
  /\ fds = NoFds /\ nextFd = 1
  /\ fsActive = FALSE /\ netActive = FALSE
  /\ tap = FALSE /\ threads = <<>> /\ stop = FALSE

Init ==
  /\ mode = "boot" /\ NewProcess /\ VhostIdle
  /\ snap = <<>>
  /\ gpc = 1 /\ late \in BOOLEAN /\ retry = 0 /\ avail = 0

-----------------------------------------------------------------------------
(* main().                                                                 *)

Goto(next) == pc' = next
Share == mode = "restore" \/ BootShare

\* Vmm::init(): /dev/kvm, VM, interrupt chip, timer, RAM, vCPU.
InitVm ==
  /\ pc = "init"
  /\ \/ Goto(IF Share THEN "virtiofsd" ELSE "devices")
     \/ Goto("cleanup")
  /\ UNCHANGED <<vhostVars, mode, image, fds, nextFd, fsActive, netActive, tap, threads,
                 stop, devVars, guestVars, snap>>

\* start_virtiofsd(): fork, connect, handshake.
StartVirtiofsd ==
  /\ pc = "virtiofsd"
  /\ \/ (ForkDaemon \/ Connect \/ GotFeatures \/ GotProtocol) /\ UNCHANGED pc
     \/ vpc = "up" /\ Goto("devices") /\ UNCHANGED vhostVars
     \/ vpc = "failed" /\ Goto("cleanup") /\ UNCHANGED vhostVars
  /\ UNCHANGED <<mode, image, fds, nextFd, fsActive, netActive, tap, threads, stop,
                 devVars, guestVars, snap>>

\* setup_virtio_fs() shows VERSION_1 when no backend offered anything, then
\* the net device is set up; restore also opens the TAP, or gives up.
SetupDevices ==
  /\ pc = "devices"
  /\ features' = IF features = {} THEN {"VERSION_1"} ELSE features
  /\ \/ mode = "boot" /\ Goto("load") /\ UNCHANGED tap
     \/ mode = "restore" /\ tap' \in BOOLEAN /\ Goto("restore")
     \/ mode = "restore" /\ Goto("cleanup") /\ UNCHANGED tap
  /\ UNCHANGED <<daemon, vpc, us, chan, reply, backVars, mode, image, fds, nextFd, fsActive,
                 netActive, threads, stop, devVars, guestVars, snap>>

\* setup_bios(), load_bzimage(), load_initrd(), setup_cpu().
LoadBoot ==
  /\ pc = "load"
  /\ \/ image' \in Images /\ Goto("run")
     \/ Goto("cleanup") /\ UNCHANGED image
  /\ UNCHANGED <<vhostVars, mode, fds, nextFd, fsActive, netActive, tap, threads, stop,
                 devVars, guestVars, snap>>

\* Only queues the driver has made ready are announced to virtiofsd; each
\* gets two new eventfds.
IsWired(r, i) == r.q[i].num # 0 /\ r.q[i].ready
NewFds(i) == [kick |-> nextFd + 2 * i, call |-> nextFd + 2 * i + 1]
Wiring(r, i) ==
  IF IsWired(r, i) THEN Wire(i, r.q[i], NewFds(i).kick, NewFds(i).call) ELSE <<>>

\* Mutant: the queues are never announced.
VuSetupSilent(r) ==
  /\ fsActive' = TRUE
  /\ UNCHANGED <<fds, nextFd, daemon, vpc, us, chan, reply, features, backVars>>

\* vu_setup() with the virtio-fs registers r: every ready queue gets new
\* eventfds and is announced to virtiofsd; nothing happens when it already ran
\* or there is no socket.
VuSetup(r) ==
  IF fsActive \/ vpc # "up"
    THEN UNCHANGED <<fds, nextFd, fsActive, daemon, vpc, us, chan, reply, features, backVars>>
    ELSE /\ fds' = [i \in Queues |-> IF IsWired(r, i) THEN NewFds(i) ELSE fds[i]]
         /\ nextFd' = nextFd + 4
         /\ chan' = Sent(Wiring(r, 0) \o Wiring(r, 1))
         /\ fsActive' = TRUE
         /\ UNCHANGED <<daemon, vpc, us, reply, features, backVars>>

\* vhost_net_setup(): with a TAP, one more net thread.
VhostNetSetup == threads' = IF tap THEN Append(threads, "wait") ELSE threads

\* save_snapshot() on the guest's signal: the device registers are part of it.
\* The guest's memory (gpc, avail, rings) goes with them.
Save ==
  /\ mode = "boot" /\ At("init", "signal")
  /\ snap' = [fs |-> fs, net |-> net, avail |-> avail, gpc |-> gpc + 1]
  /\ Goto("saved")
  /\ UNCHANGED <<vhostVars, mode, image, fds, nextFd, fsActive, netActive, tap, threads,
                 stop, devVars, guestVars>>

\* A restore process starts from the snapshot; the boot process is left alone.
StartRestore ==
  /\ pc = "saved"
  /\ mode' = "restore" /\ pc' = "init" /\ image' = <<>>
  /\ fs' = ResetRegs /\ net' = ResetRegs
  /\ fds' = NoFds /\ nextFd' = 1
  /\ fsActive' = FALSE /\ netActive' = FALSE
  /\ tap' = FALSE /\ threads' = <<>> /\ stop' = FALSE
  /\ daemon' = "none" /\ vpc' = "none" /\ us' = MinUs
  /\ chan' = <<>> /\ reply' = <<>> /\ features' = {}
  /\ told' = {} /\ acked' = {} /\ ring' = [q \in Queues |-> NoRing]
  /\ UNCHANGED <<guestVars, snap>>

\* Mutant: the restored virtio-fs device is left unwired.
RestoreDevicesNoWire ==
  /\ pc = "restore"
  /\ fs' = snap.fs /\ net' = snap.net
  /\ avail' = snap.avail /\ gpc' = snap.gpc
  /\ UNCHANGED <<vhostVars, fds, nextFd, fsActive>>
  /\ IF tap /\ snap.net.status = OK
       THEN netActive' = TRUE /\ VhostNetSetup
       ELSE UNCHANGED <<netActive, threads>>
  /\ Goto("run")
  /\ UNCHANGED <<mode, image, tap, stop, late, retry, snap>>

\* The end of restore_snapshot(): registers from the snapshot, then both
\* devices are wired if their driver was up.
RestoreDevices ==
  /\ pc = "restore"
  /\ fs' = snap.fs /\ net' = snap.net
  /\ avail' = snap.avail /\ gpc' = snap.gpc
  /\ IF snap.fs.status = OK
       THEN VuSetup(snap.fs)
       ELSE UNCHANGED <<vhostVars, fds, nextFd, fsActive>>
  /\ IF tap /\ snap.net.status = OK
       THEN netActive' = TRUE /\ VhostNetSetup
       ELSE UNCHANGED <<netActive, threads>>
  /\ Goto("run")
  /\ UNCHANGED <<mode, image, tap, stop, late, retry, snap>>

-----------------------------------------------------------------------------
(* The registers: virtio_mmio_write() and net_mmio_write().                *)

\* Features the driver takes from those it is shown.
Accepted(shown) == shown \cap (RingFeatures \cup {"VERSION_1"})

\* Each probe allocates new rings: addr tells them apart.
QueueWrite(r, field, v) ==
  IF r.sel \in Queues THEN [r EXCEPT !.q[r.sel][field] = v] ELSE r

\* QUEUE_SEL, QUEUE_NUM, the six address halves, QUEUE_READY, the two halves
\* of DRIVER_FEATURES, and STATUS = 0, which resets every queue.
Written(r, step, shown) ==
  CASE step = "sel"      -> [r EXCEPT !.sel = Operand]
    [] step = "num"      -> QueueWrite(r, "num", Operand)
    [] step = "addr"     -> QueueWrite(r, "addr", retry + 1)
    [] step = "ready"    -> QueueWrite(r, "ready", TRUE)
    [] step = "features" -> [r EXCEPT !.features = Accepted(shown)]
    [] step = "reset"    -> [ResetRegs EXCEPT !.sel = r.sel]

Registers == {"sel", "num", "addr", "ready", "features", "reset"}

\* A reset also forgets the queues' eventfds.
FsWrite ==
  /\ \E s \in Registers :
       /\ At("fs", s)
       /\ fs' = Written(fs, s, features)
       /\ fds' = IF s = "reset" THEN NoFds ELSE fds
  /\ Step
  /\ UNCHANGED <<vhostVars, mode, pc, image, nextFd, fsActive, netActive, tap, threads,
                 stop, net, avail, snap>>

FsDriverOk ==
  /\ At("fs", "ok")
  /\ fs' = [fs EXCEPT !.status = OK]
  /\ VuSetup(fs)
  /\ Step
  /\ UNCHANGED <<mode, pc, image, netActive, tap, threads, stop, net, avail, snap>>

NetWrite ==
  /\ \E s \in Registers : At("net", s) /\ net' = Written(net, s, {"VERSION_1"})
  /\ Step
  /\ UNCHANGED <<vhostVars, procVars, fs, avail, snap>>

NetDriverOk ==
  /\ At("net", "ok")
  /\ net' = [net EXCEPT !.status = OK]
  /\ netActive' = TRUE
  /\ VhostNetSetup
  /\ Step
  /\ UNCHANGED <<vhostVars, mode, pc, image, fds, nextFd, fsActive, tap, stop, fs, avail, snap>>

\* The driver gives up a probe it has not finished and starts it again.
RetryProbe ==
  /\ pc = "run" /\ retry < MaxRetry
  /\ Program[gpc][1] \in {"fs", "net"} /\ Program[gpc][2] # "reset"
  /\ \E first \in 1..gpc :
       /\ Program[first] = <<Program[gpc][1], "reset">>
       /\ gpc' = first
  /\ retry' = retry + 1
  /\ UNCHANGED <<vhostVars, procVars, devVars, late, avail, snap>>

-----------------------------------------------------------------------------
(* The restored guest mounts the share and powers off.                     *)

\* A FUSE request in the request ring, and QUEUE_NOTIFY.
Mount ==
  /\ At("init", "mount")
  /\ avail' = avail + 1
  /\ Step
  /\ UNCHANGED <<vhostVars, procVars, devVars, snap>>

\* virtiofsd's ring for the mount is the guest's: its kick wakes it, it looks
\* at the right index of the right memory, and both sides agree on the ring's
\* features, so its call is not suppressed.
RingServed ==
  /\ ring[1]["ENABLE"] = 1
  /\ ring[1]["KICK"] = fds[1].kick /\ ring[1]["CALL"] = fds[1].call
  /\ ring[1]["ADDR"] = fs.q[1].addr /\ ring[1]["NUM"] = fs.q[1].num
  /\ ring[1]["BASE"] = avail - 1
  /\ acked \cap RingFeatures = fs.features \cap RingFeatures

\* virtiofsd answers.
Served ==
  /\ At("init", "wait")
  /\ daemon = "serving" /\ RingServed
  /\ Step
  /\ UNCHANGED <<vhostVars, procVars, devVars, avail, snap>>

PowerOff ==
  /\ At("init", "off")
  /\ Goto("cleanup")
  /\ UNCHANGED <<vhostVars, mode, image, fds, nextFd, fsActive, netActive, tap, threads,
                 stop, devVars, guestVars, snap>>

-----------------------------------------------------------------------------
(* The net thread's wait for its queues, and cleanup().                    *)

NetThread(t) ==
  /\ \/ /\ threads[t] = "wait"
        /\ netActive /\ \A q \in Queues : net.q[q].ready
        /\ threads' = [threads EXCEPT ![t] = "loop"]
     \/ /\ threads[t] = "loop" /\ stop
        /\ threads' = [threads EXCEPT ![t] = "gone"]
  /\ UNCHANGED <<vhostVars, mode, pc, image, fds, nextFd, fsActive, netActive, tap, stop,
                 devVars, guestVars, snap>>

\* Mutant: the thread is not told to stop.
StopNetSilent ==
  /\ pc = "cleanup"
  /\ Goto("join")
  /\ UNCHANGED <<vhostVars, mode, image, fds, nextFd, fsActive, netActive, tap, threads,
                 stop, devVars, guestVars, snap>>

\* net_thread_stop_ and the wakeup.
StopNet ==
  /\ pc = "cleanup"
  /\ stop' = TRUE /\ Goto("join")
  /\ UNCHANGED <<vhostVars, mode, image, fds, nextFd, fsActive, netActive, tap, threads,
                 devVars, guestVars, snap>>

\* pthread_join() of net_thread_, the last one started; then everything is
\* closed and virtiofsd is killed and reaped.
JoinNet ==
  /\ pc = "join"
  /\ threads # <<>> => threads[Len(threads)] = "gone"
  /\ daemon' = IF daemon = "none" THEN daemon ELSE "dead"
  /\ tap' = FALSE /\ fds' = NoFds /\ Goto("exit")
  /\ UNCHANGED <<vpc, us, chan, reply, features, backVars, mode, image, nextFd, fsActive,
                 netActive, threads, stop, devVars, guestVars, snap>>

Daemon ==
  /\ DaemonStart \/ DaemonHandle \/ DaemonDie
  /\ UNCHANGED <<procVars, devVars, guestVars, snap>>

Main == InitVm \/ StartVirtiofsd \/ SetupDevices \/ LoadBoot \/ Save \/ RestoreDevices
        \/ StopNet \/ JoinNet
Guest == FsWrite \/ FsDriverOk \/ NetWrite \/ NetDriverOk \/ Mount \/ Served \/ PowerOff

Next ==
  \/ Main \/ Guest \/ RetryProbe \/ StartRestore \/ Daemon
  \/ \E t \in 1..Len(threads) : NetThread(t)

\* Every thread runs, the guest goes on, and a live virtiofsd reaches listen()
\* and reads its socket; it need not stay alive.
Spec ==
  /\ Init /\ [][Next]_vars
  /\ WF_vars(Main) /\ WF_vars(Guest) /\ WF_vars(StartRestore)
  /\ WF_vars((DaemonStart \/ DaemonHandle) /\ UNCHANGED <<procVars, devVars, guestVars, snap>>)
  /\ \A t \in 1..2 : WF_vars(t <= Len(threads) /\ NetThread(t))

-----------------------------------------------------------------------------

\* The variables have the types the code gives them.
TypeOK ==
  /\ mode \in {"boot", "restore"}
  /\ pc \in {"init", "virtiofsd", "devices", "load", "run", "saved", "restore", "cleanup",
             "join", "exit"}
  /\ vpc \in {"none", "connect", "features", "protocol", "up", "failed"}
  /\ daemon \in {"none", "forked", "listening", "serving", "dead"}
  /\ us \in MinUs..MaxUs
  /\ \A r \in {fs, net} : r.status \in {0, OK} /\ \A q \in Queues : r.q[q].ready \in BOOLEAN
  /\ \A t \in 1..Len(threads) : threads[t] \in {"wait", "loop", "gone"}
  /\ gpc \in 1..Len(Program)

\* Once virtiofsd has read what the VMM sent, each ready queue of a device
\* that is up is known to it with the guest's size and ring, the VMM's current
\* eventfds, and the ring features the guest negotiated, whether the driver
\* set DRIVER_OK in this process or in the one that took the snapshot.
WiredAsConfigured ==
  pc = "run" /\ fs.status = OK /\ vpc = "up" /\ daemon = "serving" /\ chan = <<>> =>
    \A i \in Queues : fs.q[i].ready =>
      /\ ring[i]["ENABLE"] = 1 /\ ring[i]["BASE"] = 0
      /\ ring[i]["NUM"] = fs.q[i].num /\ ring[i]["ADDR"] = fs.q[i].addr
      /\ ring[i]["KICK"] = fds[i].kick /\ ring[i]["CALL"] = fds[i].call
      /\ acked \cap RingFeatures = fs.features \cap RingFeatures

\* A guest that waits for its first mount is served from index 0 of a ring
\* nothing was taken from: SET_VRING_BASE 0 is right because init signals the
\* snapshot before it uses the share.
FirstRequestIsIndexZero ==
  At("init", "wait") /\ daemon = "serving" /\ chan = <<>> => RingServed

\* What was loaded lies in memory the E820 map calls RAM, does not overlap, and
\* spares the BIOS, if kernel and initrd leave a mebibyte of RAM between them
\* and the setup code is at most 64 KiB.
LayoutDisjoint ==
  image # <<>> =>
    LET ram == image[1]  setup == image[2]  kernel == image[3]  initrd == image[4]
        all == Loaded(ram, setup, kernel, initrd) IN
    (setup <= 64 /\ Kernel + kernel + initrd + 1024 <= ram) =>
      /\ \A m, n \in 1..4 : m # n => ~Overlap(all[m], all[n])
      /\ \A n \in 1..4 : \E e \in E820Ram(ram) : Within(all[n], e)
      /\ \A n \in 1..4, s \in BiosRegions \cup E820Reserved : ~Overlap(all[n], s)

\* A virtiofsd that listens is connected to: the backoff never gives up.
ConnectsWhenListening ==
  (vpc = "connect" /\ daemon = "listening") ~> (vpc # "connect" \/ daemon = "dead")

\* A mount of the share completes unless virtiofsd dies.
MountCompletes ==
  At("init", "wait") ~> (~At("init", "wait") \/ daemon = "dead")

\* cleanup() ends: the join of the net thread does not wait for ever.
CleanupEnds == (pc = "cleanup") ~> (pc = "exit")
=============================================================================
