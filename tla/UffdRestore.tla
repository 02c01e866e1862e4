---------------------------- MODULE UffdRestore ----------------------------
(***************************************************************************)
(* The demand-paged restore: guest RAM is a memfd registered with          *)
(* userfaultfd, the ring pages are filled before the vCPU is resumed, and  *)
(* every other page is filled by uffd_worker when a thread of the VMM (the *)
(* vCPU or the virtio-net thread) first touches it.  With --midway-uffd    *)
(* the dirty pages are copied first and only the others are demand-paged.  *)
(* virtiofsd maps the same memfd in its own address space, where nothing   *)
(* is registered: its accesses fill absent pages with zeroes, and neither  *)
(* the worker nor a thread that sleeps in a fault on the page hears of it. *)
(* Vmm::cleanup stops the threads in order and unmaps the snapshot.        *)
(***************************************************************************)
EXTENDS Naturals

CONSTANTS Pages, Rings,     \* guest pages; the first pages of the virtqueue rings
          Cells,            \* the words of memory in use: <<page, word>>
          Data, Zero        \* contents of a word; the zero word

ASSUME CellsAssumption == Cells \subseteq Pages \X Nat
ASSUME RingsAssumption == Rings \subseteq Pages
ASSUME ZeroAssumption == Zero \in Data

Actors == {"vcpu", "net"}
Modes == {"uffd", "midway"}
None == <<>>

VARIABLES image,        \* snap_ram_, and by its zero pages the bitmap
          mode,         \* default, or --midway-uffd
          phase,        \* restoring, running, then the steps of cleanup()
          mapped,       \* snap_mmap_base_: the snapshot file is mapped
          present, ram, \* pages the memfd holds, and what they hold
          acc,          \* the access each actor is in: None, or op, cell, value
          st,           \* each actor: "go", "blocked" in a fault, "woken", "exited"
          queue,        \* fault messages not yet read: <<actor, page>>
          worker,       \* uffd_worker: "off", "poll", "resolve", "exited"
          msg,          \* the page of the message it has read
          wakeup,       \* uffd_wakeup_fd_ has been written
          posted,       \* cells in virtiofsd's hands: rings and request buffers
          punched,      \* history: the pages virtiofsd was the first to touch
          seen          \* the cell this step read and the value it got, or None

vars == <<image, mode, phase, mapped, present, ram, acc, st, queue, worker, msg,
          wakeup, posted, punched, seen>>

Access == [op : {"read"}, cell : Cells, val : {Zero}]
              \cup [op : {"write"}, cell : Cells, val : Data]

\* The page of the access actor a is in.
Page(a) == acc[a].cell[1]

\* The bit of the page in snap_bitmap_buf_.
Dirty(p) == \E c \in Cells : c[1] = p /\ image[c] # Zero

\* Mutant: UFFDIO_ZEROPAGE for every page.
FilledZero(c) == Zero

\* What the fill of its page leaves in a cell: UFFDIO_COPY from the snapshot
\* for a dirty page, UFFDIO_ZEROPAGE for a clean one.
Filled(c) == IF Dirty(c[1]) THEN image[c] ELSE Zero

Fill(P) == /\ present' = present \cup P
           /\ ram' = [c \in Cells |-> IF c[1] \in P \ present THEN Filled(c) ELSE ram[c]]

Init ==
    /\ image \in [Cells -> Data]
    /\ mode \in Modes
    /\ phase = "restoring"
    /\ mapped = TRUE
    /\ present = {}
    /\ ram = [c \in Cells |-> Zero]
    /\ acc = [a \in Actors |-> None]
    /\ st = [a \in Actors |-> "go"]
    /\ queue = {} /\ worker = "off" /\ msg = None
    /\ wakeup = FALSE
    /\ posted = {} /\ punched = {}
    /\ seen = None

-----------------------------------------------------------------------------
\* restore_snapshot: pre-fault the rings (or, midway, copy the dirty pages and
\* register only then), start the worker, resume.
Restore ==
    /\ phase = "restoring"
    /\ Fill(IF mode = "uffd" THEN Rings ELSE {p \in Pages : Dirty(p)})
    /\ worker' = "poll"
    /\ phase' = "running"
    /\ seen' = None
    /\ UNCHANGED <<image, mode, mapped, acc, st, queue, msg, wakeup, posted, punched>>

\* The effect of an access on a page that is present.
Perform(a, x) ==
    /\ IF x.op = "read"
       THEN seen' = <<x.cell, ram[x.cell]>> /\ UNCHANGED ram
       ELSE ram' = [ram EXCEPT ![x.cell] = x.val] /\ seen' = None
    /\ acc' = [acc EXCEPT ![a] = None]

\* The vCPU runs until run() returns; the net thread until it sees the stop.
CanAccess(a) == /\ st[a] = "go"
                /\ phase = "running" \/ (a = "net" /\ phase = "joinNet")

Touch(a, x) ==
    /\ CanAccess(a)
    /\ x.cell \notin posted /\ x.cell[1] \in present
    /\ Perform(a, x)
    /\ UNCHANGED <<image, mode, phase, mapped, present, st, queue, worker, msg,
                   wakeup, posted, punched>>

\* A missing page: the kernel queues a message and puts the thread to sleep.
Fault(a, x) ==
    /\ CanAccess(a)
    /\ x.cell \notin posted /\ x.cell[1] \notin present
    /\ acc' = [acc EXCEPT ![a] = x]
    /\ st' = [st EXCEPT ![a] = "blocked"]
    /\ queue' = queue \cup {<<a, x.cell[1]>>}
    /\ seen' = None
    /\ UNCHANGED <<image, mode, phase, mapped, present, ram, worker, msg, wakeup,
                   posted, punched>>

\* The thread runs again, its queue entry goes, and the access is retried.
Retry(a) ==
    /\ st[a] = "woken"
    /\ Perform(a, acc[a])
    /\ st' = [st EXCEPT ![a] = "go"]
    /\ queue' = queue \ {<<a, Page(a)>>}
    /\ UNCHANGED <<image, mode, phase, mapped, present, worker, msg, wakeup, posted,
                   punched>>

\* Mutant: the worker does not look at the wakeup fd.
WorkerPollNoWakeup ==
    /\ worker = "poll"
    /\ \/ queue = {} /\ UNCHANGED <<queue, msg, worker>>
       \/ /\ \E m \in queue : queue' = queue \ {m} /\ msg' = m[2]
          /\ worker' = "resolve"
    /\ seen' = None
    /\ UNCHANGED <<image, mode, phase, mapped, present, ram, acc, st, wakeup, posted,
                   punched>>

\* poll + read: a written wakeup fd wins over pending messages.
WorkerPoll ==
    /\ worker = "poll"
    /\ \/ /\ wakeup
          /\ worker' = "exited"
          /\ UNCHANGED <<queue, msg>>
       \/ /\ ~wakeup
          /\ \E m \in queue : queue' = queue \ {m} /\ msg' = m[2]
          /\ worker' = "resolve"
    /\ seen' = None
    /\ UNCHANGED <<image, mode, phase, mapped, present, ram, acc, st, wakeup, posted,
                   punched>>

\* Mutant: the ioctl fails and is tried again for ever.
WorkerResolveAgain == worker = "resolve" /\ UNCHANGED vars

\* The ioctl: it fills an absent page and wakes whoever waits for it; on a
\* present one it fails with EEXIST, is ignored and wakes nobody.
WorkerResolve ==
    /\ worker = "resolve"
    /\ IF msg \in present
       THEN UNCHANGED <<present, ram, st>>
       ELSE /\ Fill({msg})
            /\ st' = [a \in Actors |->
                        IF st[a] = "blocked" /\ Page(a) = msg THEN "woken" ELSE st[a]]
    /\ worker' = "poll" /\ msg' = None
    /\ seen' = None
    /\ UNCHANGED <<image, mode, phase, mapped, acc, queue, wakeup, posted, punched>>

-----------------------------------------------------------------------------
(* virtiofsd, and the guest driver that hands it cells.  The driver leaves *)
(* a cell alone while it is posted, but not the rest of its page.          *)

Post(c) ==
    /\ phase = "running" /\ st["vcpu"] = "go"
    /\ c \notin posted
    /\ \A a \in Actors : st[a] \in {"blocked", "woken"} => acc[a].cell # c
    /\ posted' = posted \cup {c}
    /\ seen' = None
    /\ UNCHANGED <<image, mode, phase, mapped, present, ram, acc, st, queue, worker,
                   msg, wakeup, punched>>

\* virtiofsd reads or stores to a cell of an absent page: its own mapping of
\* the memfd allocates the page with zeroes.
Punch(p) ==
    /\ p \notin present /\ \E c \in posted : c[1] = p
    /\ present' = present \cup {p}
    /\ punched' = punched \cup {p}
    /\ seen' = None
    /\ UNCHANGED <<image, mode, phase, mapped, ram, acc, st, queue, worker, msg,
                   wakeup, posted>>

\* virtiofsd stores a word of a reply, or of the used ring, and is done with it.
DeviceWrite(c, v) ==
    /\ c \in posted /\ c[1] \in present
    /\ ram' = [ram EXCEPT ![c] = v]
    /\ posted' = posted \ {c}
    /\ seen' = None
    /\ UNCHANGED <<image, mode, phase, mapped, present, acc, st, queue, worker, msg,
                   wakeup, punched>>

\* virtiofsd reads a word of a request, or of the rings, and is done with it.
DeviceRead(c) ==
    /\ c \in posted /\ c[1] \in present
    /\ seen' = <<c, ram[c]>>
    /\ posted' = posted \ {c}
    /\ UNCHANGED <<image, mode, phase, mapped, present, ram, acc, st, queue, worker,
                   msg, wakeup, punched>>

-----------------------------------------------------------------------------
\* run() returned on the vCPU thread and cleanup() stops the net thread.
StopNet ==
    /\ phase = "running" /\ st["vcpu"] = "go"
    /\ phase' = "joinNet"
    /\ seen' = None
    /\ UNCHANGED <<image, mode, mapped, present, ram, acc, st, queue, worker, msg,
                   wakeup, posted, punched>>

NetExit ==
    /\ phase = "joinNet" /\ st["net"] = "go"
    /\ st' = [st EXCEPT !["net"] = "exited"]
    /\ seen' = None
    /\ UNCHANGED <<image, mode, phase, mapped, present, ram, acc, queue, worker, msg,
                   wakeup, posted, punched>>

\* Mutant: the worker is stopped before the net thread is joined.
StopUffdUnjoined ==
    /\ phase = "joinNet"
    /\ wakeup' = TRUE
    /\ phase' = "joinUffd"
    /\ seen' = None
    /\ UNCHANGED <<image, mode, mapped, present, ram, acc, st, queue, worker, msg,
                   posted, punched>>

\* pthread_join(net_thread_) returned: stop the fault worker.
StopUffd ==
    /\ phase = "joinNet" /\ st["net"] = "exited"
    /\ wakeup' = TRUE
    /\ phase' = "joinUffd"
    /\ seen' = None
    /\ UNCHANGED <<image, mode, mapped, present, ram, acc, st, queue, worker, msg,
                   posted, punched>>

\* Mutant: the snapshot is unmapped before the worker is joined.
CloseUnjoined ==
    /\ phase = "joinUffd"
    /\ phase' = "closed"
    /\ mapped' = FALSE /\ posted' = {}
    /\ seen' = None
    /\ UNCHANGED <<image, mode, present, ram, acc, st, queue, worker, msg, wakeup,
                   punched>>

\* pthread_join(uffd_thread_) returned: close the descriptors, unmap the
\* snapshot and guest RAM.
Close ==
    /\ phase = "joinUffd" /\ worker = "exited"
    /\ phase' = "closed"
    /\ mapped' = FALSE /\ posted' = {}
    /\ seen' = None
    /\ UNCHANGED <<image, mode, present, ram, acc, st, queue, worker, msg, wakeup,
                   punched>>

\* virtiofsd populated the page that actor a sleeps for: the worker's ioctl
\* fails with EEXIST and wakes nobody.
Stuck(a) == st[a] = "blocked" /\ Page(a) \in punched

Worker == WorkerPoll \/ WorkerResolve
Cleanup == StopUffd \/ Close
Device == \/ \E p \in Pages : Punch(p)
          \/ \E c \in Cells : DeviceRead(c) \/ \E v \in Data : DeviceWrite(c, v)

Next == \/ Restore
        \/ \E a \in Actors : Retry(a) \/ \E x \in Access : Touch(a, x) \/ Fault(a, x)
        \/ Worker
        \/ \E c \in Cells : Post(c)
        \/ Device
        \/ StopNet \/ NetExit \/ Cleanup
        \/ phase = "closed" /\ UNCHANGED vars
        \/ (\E a \in Actors : Stuck(a)) /\ UNCHANGED vars

Spec == Init /\ [][Next]_vars

\* The threads are scheduled; nothing obliges the guest to act or to stop.
Fairness == /\ WF_vars(Restore) /\ WF_vars(Worker) /\ WF_vars(Cleanup)
            /\ WF_vars(NetExit)
            /\ \A a \in Actors : WF_vars(Retry(a))

FairSpec == Spec /\ Fairness

-----------------------------------------------------------------------------
\* Type correctness: the worker resolves pages, the queue holds the messages of
\* the threads that fault.
TypeOK ==
    /\ image \in [Cells -> Data]
    /\ mode \in Modes
    /\ phase \in {"restoring", "running", "joinNet", "joinUffd", "closed"}
    /\ mapped \in BOOLEAN
    /\ present \subseteq Pages
    /\ ram \in [Cells -> Data]
    /\ acc \in [Actors -> Access \cup {None}]
    /\ st \in [Actors -> {"go", "blocked", "woken", "exited"}]
    /\ queue \subseteq Actors \X Pages
    /\ worker \in {"off", "poll", "resolve", "exited"}
    /\ msg \in Pages \cup {None}
    /\ wakeup \in BOOLEAN
    /\ posted \subseteq Cells
    /\ punched \subseteq Pages

\* A thread asleep in a fault is still going to be served: its message is
\* unread or is the one being resolved, by a worker that has not left, unless
\* virtiofsd touched the very page meanwhile.  cleanup() must join the net
\* thread before it stops the worker.
NoOrphanFault ==
    \A a \in Actors : st[a] = "blocked" /\ ~Stuck(a) =>
        /\ worker \in {"poll", "resolve"} /\ ~wakeup
        /\ <<a, Page(a)>> \in queue \/ (worker = "resolve" /\ msg = Page(a))

\* The worker never resolves a fault from an unmapped snapshot: cleanup()
\* unmaps it only when the worker can no longer be in an ioctl.
SourceMapped == worker = "resolve" => mapped

\* Every fault is resolved and the access completes; only virtiofsd's touching
\* the page in the meantime can leave the thread asleep.
FaultsServed == \A a \in Actors : st[a] = "blocked" ~> st[a] = "go" \/ Stuck(a)

\* cleanup() gets past both joins, unless the net thread is stuck.
CleanupEnds == phase = "joinNet" ~> phase = "closed" \/ Stuck("net")

\* On-demand filling is invisible, read by read: the guest sees the snapshot's
\* content in every word nobody has written since, but for the pages that
\* virtiofsd is the first to touch.
View == [c \in Cells |-> IF c[1] \in present THEN ram[c] ELSE image[c]]
Lazy == INSTANCE LazyMemory WITH live <- phase # "restoring", view <- View,
                                 backed <- present, lent <- posted
ImplementsLazyMemory == Lazy!Spec
=============================================================================
