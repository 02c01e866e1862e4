# TLA+ verification of vmtainer

vmtainer runs a container in a micro-VM.  A Linux guest is booted once, frozen
when its init signals, and saved as a *golden snapshot*; every container is a
restored copy of it.  The VMM is a C++ program on KVM (`src/vmm.cpp`,
`src/virtio.cpp`); a Go plugin (`cri/`) offers it to Kubernetes through the CRI.

This directory models the parts of it where threads, processes and calls
interleave, checks them with TLC and proves the central facts with TLAPS.
Paths in this file are relative to the repository's root; `PROJECT.json` maps
every definition to its lines.

## 1. The system

| Part | State | Operations | What is hard about it |
|---|---|---|---|
| Lazy restore, `vmm.cpp` 854-1088 | memfd pages present, uffd queue, worker, wakeup fd | prefault rings, fault, poll, resolve, stop | three kinds of accessors, one of them outside userfaultfd; stop order |
| Eager restore, `vmm.cpp` 1090-1190 | chunk counter, per-thread run, RAM | claim, scan, copy, join, fallback | chunk and run boundaries, concurrent copies |
| Run loop, `vmm.cpp` 516-658, `virtio.cpp` 110-272 | halt count, exit reason, call eventfd, status, line, signal | KVM_RUN, EINTR, exits, IRQ thread | lost signals, halt mistaken for power-off, replayed snapshot signal |
| virtio-net, `virtio.cpp` 588-877 | two rings, status, line, thread | TX, RX, notify, acknowledge | ring wrap, unlocked status, interrupt per round |
| virtio-fs and vhost-user, `virtio.cpp` 14-535 | queues, eventfds, socket | register access, kick, handshake | handshake with another process, restore of ring positions |
| Runtime service, `runtime.go` | records of sandboxes and containers | ten state-changing CRI calls, watcher goroutine | calls run concurrently and lock only single store or map operations |
| VM manager, `vmm.go` | instance map, processes, exit channels | Restore, reaper, Stop | map entries shared by successive VMs |
| Store, `store.go` | JSON files in directories | create, get, update, delete, list | read-modify-write spans several locked operations |
| Network manager, `cni.go` | TAP and address maps | SetupSandbox, TeardownSandbox | ownership, release on failure |
| Image service, `image.go` | image directories and records | PullImage, RemoveImage | several writers of one directory |
| Snapshot file, `vmm.cpp` 1387-1572, 2050-2240 | header, sections, bitmap, RAM | save, restore, clone, benchmark | written in place; partial files, mapping lifetime |
| Kernel module, `kmod/vmtainer_snap.c` | a buffer per open file, its mappings | alloc, mmap, release | rounding in machine words, lifetime of buffers |
| Configuration, `vmm.cpp` 1660-1960 | `.entrypoint`, `.vmconfig` in the shared directory | parse, write, clone | several writers of one directory; limits of buffers |
| Guest init, `initrd_src/init.c` | mounts, child | signal, mount, read configuration, exec, power off | order around the snapshot |

How they interact: kubelet calls the runtime service, which takes a TAP and an
address from the network manager, writes records through the store and launches
the VMM through the VM manager.  The VMM restores memory (lazily or eagerly),
runs the vCPU loop, serves virtio-net from a thread of its own and hands
virtio-fs to the process virtiofsd, which maps the guest's memory.

`PROJECT.json` lists each part with what is and is not modelled, and the
hazards at the lines where they bite.

## 2. Modules

    GuestMemory   <== refined by ==  RestoreCopy
    LazyMemory    <== refined by ==  UffdRestore
    NetPool       <-- extended by --  NetLease,  CriRuntime
    VirtioNet     RunLoop            (a device and its threads each)
    ImageStore                       (the image half of the store)
    SnapshotFile, SnapDevice   <-- composed by --  SnapshotCache
    VhostUser,    BootLayout   <-- composed by --  VmSetup
    ShareConfig                      (host writers, guest readers)

**GuestMemory** is the abstract promise of the eager restore: after `Resume`, every
read returns what was last written, or the snapshot.  **LazyMemory** is the weaker
promise of demand paging.  virtiofsd reaches the memory behind userfaultfd's back, so a
page may be *lost* (`Lose`): it reads as zeros from then on.  That can happen to a page
only before it has its memory, hence once, only while a part of it is lent to virtiofsd,
never to a page of the rings and never with `--midway-uffd`.  Everything else reads as in
GuestMemory.

**RestoreCopy** models `dynamic_copy_worker` and the copy without a bitmap.
A thread is at `claim`, `scan`, `run` or `copy`; the shared state is the chunk
counter, RAM and the dirty total.  A claim is one atomic `fetch_add`; a run of
dirty pages is copied in one action, while the runs of other threads are in
flight.  A page's content is a value; a page is dirty when it is not the zero
page, which is how `save_snapshot_file` builds the bitmap.

**UffdRestore** models demand paging.  Memory is a set of words of pages (`Cells`), since
a page is what is filled and a word is what is accessed.  The vCPU and the net thread
fault through the registered mapping and sleep; the worker reads a message, fills the
page with `UFFDIO_COPY` or `UFFDIO_ZEROPAGE` and the kernel wakes the sleepers of that
page.  virtiofsd accesses the memfd directly: an absent page it touches, be it to read,
becomes present with zeros and no fault (`Punch`).  If a thread sleeps for that very page,
the worker's ioctl fails with EEXIST and wakes nobody (`Stuck`).  The guest leaves alone
only the words it has handed to virtiofsd, not the rest of their page.  `StopNet`,
`NetExit`, `StopUffd` and `Close` are the steps of `cleanup()`; `Close` unmaps the snapshot
the worker copies from.  Midway mode, which copies dirty pages first and registers
afterwards, is the other value of `mode`.

**VirtioNet** models `net_thread_func` and the register handlers against a guest
driver that posts buffers, takes interrupts, reads the status, acknowledges and
reaps the used ring.  Ring indices wrap at `IdxMod` (65536 in the code).
`net_irq_status_` is plain memory that two threads modify: the acknowledgement's load and
its store are two steps, and the net thread may set the bit between them.  The line is
lowered by the value stored or by the current one, as the compiler has it.  The history
variable `erased` remembers an acknowledgement of nothing that undid the last `|=`.

**RunLoop** composes the vCPU thread in `run()`, the IRQ thread, virtiofsd and a
guest.  A signal interrupts `KVM_RUN` or is lost if the thread is elsewhere.
`Init` is a VM restored from the golden snapshot or one that boots.

**NetPool** holds the two maps and `SetupSandbox`/`TeardownSandbox`.  **NetLease** drives
them with everything the sandbox calls may do: a teardown that is repeated or comes late, a
sandbox that is removed without one (`RemoveUnstopped`, into `left`), a restart of the plugin
that empties the maps (`Forget`).  The histories `repeated` and `lost` name the cause and the
victims of an entry deleted by somebody else.  **CriRuntime** drives the pools from the
calls themselves.

**CriRuntime** models the calls of the runtime service with the store, the VM
manager and the VMs.  A call holds the record it has read (`rec`), the VM it works
on and a program counter; each action is what happens between two acquisitions of
a lock, so a record that is read, kept and written back later is stale in the
model exactly when it is stale in the code.  `Stop` sends SIGTERM and, when its grace
period expires, SIGKILL, in two steps; StartContainer starts its watcher after it has
recorded the container as running.  `Reap`, `Untrack`, `CloseExitCh` are the reaper
goroutine, `Watch*` the watcher.  A VM is tied to the gRPC context of the StartContainer call
that launched it (`exec.CommandContext` in `Restore`): gRPC cancels the context when the
call returns, which kills the process.  `VmExit`, a VM ending at any time, covers this.
`ServerRestart` is the process being restarted: calls, maps and goroutines are lost, files
and VMs stay; `own` tells the VMs of the present process from older ones.  The history `over`
marks a VM whose time in the map overlapped another VM's of the same sandbox.

**ImageStore** models the image directories file by file.  A pull asks docker for
the ID, looks for the record, and either merges the tag or creates the rootfs
directory, lets tar truncate and fill one file after the other, and writes the
record last; it can fail between any two of these.  `RemoveImage` holds the
store's lock while `RemoveAll` unlinks files and `meta.json` in any order, and can
fail there.  `copyDir` lists the names once and copies without a lock.  Calls may overlap
in any way; the history `spoiled` names the images where two pulls, a pull and a removal, or
a copy and a removal did, or whose `RemoveAll` failed with `meta.json` still there.  A
removal of the whole directory with no other call on the image clears the mark.  The
registry may move a tag at any time.

**SnapshotFile** models the golden snapshot as a sequence of cells, one per
section and per piece of RAM.  A boot collects its state, truncates the file and
writes cell by cell; a write may be short, the boot may be killed, and a later
boot starts over in place.  `restore` probes the header for the RAM size, maps
the file, compares lengths, and copies eagerly or keeps the mapping for the
userfaultfd worker; `clone` reads without comparing lengths; `snap_bench` reads
into the device's buffer.  A boot may truncate the file at any time: the history `cut` marks
the readers that were using it, and `fresh` those that opened a complete file.  Boots
come one after the other; two that save to one path at the same time are not modelled.
**SnapDevice** is the kernel module: open files, `vmalloc` areas and user mappings,
with `PAGE_ALIGN` modulo the machine word.  **SnapshotCache** runs the two together.

**VhostUser** holds the connection to virtiofsd: fork, connect with back-off, the
early handshake, and the messages that wire a queue.  `chan` is the stream of messages
virtiofsd has not read; `told`, `acked` and `ring` are what it knows from those it has:
the requests of the handshake, the features, and per queue the last value of each
vring request.  A device has two queues, as `NUM_QUEUES` says.  virtiofsd may come up
late or never, and may die.  **BootLayout** has the
guest-physical regions of `boot`, in KiB.  **VmSetup** composes them with `main()`, the
MMIO registers of both devices, a guest that probes them and mounts the share, the
snapshot, a second process that restores it, the net thread's start, wait and stop,
and `cleanup()`.  `BootShare = TRUE` because the repository's README boots with a
share (`README.md` 272-273).

**ShareConfig** follows a configuration from the JSON file through `parse_config`,
`write_config_to_share` and the two files to the guest's init.  A file is a sequence of
entries: section, number of `ENV_` prefixes, key, value and form.  The operators say what
each conversion does:

* `find_val` takes the first quoted occurrence of a key, so a variable of that name, or a
  value that spells it, hides the real one;
* `parse_string` drops escapes and cuts long values, and the loop over the variables stops
  inside a key or value that was cut;
* variables beyond the table, and what does not fit init's buffer of 2047 bytes, are dropped
  (the last line may be a part of one), and an address past 255 is refused;
* init sets each variable with and without `ENV_`, keeps those the kernel gave it, and adds
  its defaults.

A truncated `.entrypoint` is `"empty"`, which no configuration contains
(`EntryAssumption`); `entry` is what a guest has read from it.  N VMs run as N restores with a
directory each, or as the clones of one parent.  `over` marks the VMs whose files a sibling
wrote after they had begun to.  A failed fork ends the parent with an error and leaves the
clones running; a guest that halts keeps its VM, and the parent's `wait`, for ever.
Limits: the file is within the 8191 bytes `parse_config` reads and its net block within 2048,
`.vmconfig` reaches the file in one write (it fits the stdio buffer), and "env" and "net"
are no variables or values.

Each `MC*` module instantiates its specification; each `*Proofs` module holds the
theorems (section 4 says which module holds what).  Definitions commented "Mutant" are faulty variants that show a
property can fail; no specification uses them.

## 3. Runs

| Run | Checks | Distinct states |
|---|---|---|
| `restore_copy` | copies in flight are disjoint, the dirty total is exact, refinement of GuestMemory | 111,660 |
| `uffd_restore` | no orphan fault, the worker's source stays mapped, refinement of LazyMemory, faults are served, cleanup ends | 246,427 |
| `virtio_net` | every descriptor has one owner | 4,024,384 |
| `virtio_net_live` | no stranded completion, transmitted descriptors come back | 112,424 |
| `net_lease` | leases are shared only after a repeated teardown or a restart, maps and leases agree | 11,157 |
| `cri_runtime` | running is watched, removed containers stay removed; two calls, a restart | 1,561,502 |
| `cri_live` | a VM alone in its sandbox is tracked, calls return, exits are recorded; two VMs | 128,373 |
| `image_store` | a record means a complete image, containers are complete, unless the image is spoiled | 459,296 |
| `run_loop` | no stranded request, ends with guest, completions seen, power-off noticed | 9,097 |
| `snapshot_cache` | `restore` and `snap_bench` never run on an incomplete snapshot, a clone only if its file was incomplete at open; buffers owned and large enough | 1,091,404 |
| `vm_setup` | rings enabled only when complete and wired as configured, first request at index 0, boot layout disjoint, connect, mount and cleanup end | 65,571 |
| `share_config` | a guest has the configuration and entrypoint of its file, halts only without one, "all clones finished" is true | 691,318 |

All twelve hold.  A run without a type invariant is one whose types are a theorem or
part of the invariant of one (section 4); `VmSetup` and `ShareConfig` define `TypeOK` and
`ShareTypeOK` for the reader.

### Where the code does less than a comment says

The models admit the following behaviours.  Where a property would fail because of one, it
names the case (by a history variable or a condition) and claims everything else; where
nothing is left to claim, the statement is a definition of an `MC*` module that no run
checks.

*Lazy restore.*
* A page that virtiofsd is the first to touch after a restore is lost: its snapshot content
  reads as zeros, in the words virtiofsd was not given as well (`Lose` of LazyMemory).
* If virtiofsd touches the page while a thread sleeps for it, the worker's ioctl fails with
  EEXIST (`vmm.cpp` 972-975 and 990) and nobody wakes the thread (`Stuck`); a net thread in
  that state also keeps `cleanup()` waiting.

*virtio-net.*
* The acknowledgement of a spurious interrupt erases the bit the net thread sets between its
  load and its store (`erased`); the completion waits for the next one.
* A driver that is unbound and bound again would call `vhost_net_setup` twice and start a
  second net thread; `cleanup()` joins the last.  The guest of VmSetup sets DRIVER_OK once per
  device and boot, as Linux does unless told otherwise.

*Run loop.*  `PowerOffNoticed` holds for a VM with a share: without one there is no IRQ thread
whose periodic signal takes the halted vCPU out of `KVM_RUN`.

*Plugin.*
* A second stop of a sandbox releases a TAP another sandbox was given in between (`repeated`,
  `lost` of NetLease; `ReadyHoldsTap` of `MCCriRuntime`, with two sandboxes).  A sandbox removed
  while it is recorded NotReady keeps its TAP and address registered (`left`).
* `LiveVmIsTracked` ("GetInstance returns the running Instance", `vmm.go` 290; two
  VMs): a container is stopped and started again before the first VM's reaper
  executes its `delete`, which then removes the second VM's entry (`over`).
* `OneVmPerSandbox` ("1 pod sandbox = 1 vmtainer VM process", `cri/README.md` 45):
  two StartContainer calls both read a container that is not running.
* `RemovedIsStopped` ("Force-stop if still running.", `runtime.go` 265): the VM of
  a sandbox exits, the watcher records NotReady, the container is started
  again, and removal sees NotReady and stops nothing.
* `VmRunsItsContainer` ("using the config.json that was written during
  CreateContainer", `runtime.go` 489; two containers): a second CreateContainer in
  the sandbox overwrites the file before the first container is started.
* `RemovedSandboxStaysRemoved` ("overwrites an existing SandboxMeta record",
  `store.go` 220): `Restore` recreates the directory that RemovePodSandbox deleted,
  and StartContainer writes its copy of the record into it.
* With a plugin restart `ExitIsRecorded` fails: the watcher is a goroutine of the
  old process.  For the same reason `RunningIsWatched` speaks of a plugin that has
  not been restarted.

*Images.*  Two pulls of one image find no record; the first writes it, then the second's
`tar --overwrite` truncates a file again.  A pull that found the record writes it back after
a removal.  A `RemoveAll` that fails before `meta.json` leaves a record without its files, and
the next pull takes the image for cached.  All of these are `spoiled`.
`TagNamesOneImage` (in `MCImageStore`): after a tag has moved both images have it, and
`GetImageByRef` returns the one listed first.

*Snapshot.*
* A boot that regenerates the file truncates it under its readers (`cut`): a clone may run on
  a mixture of two snapshots, a lazy restore may get SIGBUS.
* `clone` compares no lengths (`vmm.cpp` 2111-2151): a clone of a truncated file runs on zeros
  where RAM is missing.  `RunsCompleteSnapshot` excepts it.
* `MapWithinBuffer` is about mappings of a file's current buffer.  A second ALLOC replaces the
  buffer; an earlier mapping keeps its pages and nothing is said of it.  The refusal of a size
  that rounds to zero is modelled, but no property depends on it.

*Boot.*
* VmSetup with `BootShare = FALSE`, `WiredAsConfigured` and `FirstRequestIsIndexZero`: a
  guest booted without a share sees only VERSION_1 and accepts no ring feature; the
  process that restores it acknowledges all that virtiofsd offers, so the two use a
  ring differently.  The theorems name this condition (`SameFeatures`).
* `LayoutDisjoint` has a precondition the code does not check: setup code up to 64 KiB and
  a mebibyte between kernel and initrd.  An initrd too large for the VM is not covered.

*Configuration.*
* Clones with a network rewrite one `.entrypoint` and `.vmconfig` (`README.md` 384 calls them
  isolated).  A sibling's guest that reads between truncate and write finds no entrypoint and
  halts, or takes another's address (`over`, in `Written`).  A halted guest does not end its
  VM, so the parent's `wait` does not return.
* Escapes, values and keys longer than their buffers, names such as `HOSTNAME`, `NET_IP` or
  `hostname` in the env block, two names that differ by `ENV_`, and more variables or text than
  fit change what the guest applies.  `Plain` describes the files that are kept as they are.

### Bounds

* `restore_copy`: five pages in chunks of two give a short last chunk, runs that
  touch both chunk borders, and three threads for three chunks.  Every image
  over {zero, A} is an initial state.
* `uffd_restore`: a ring page and a page of two words, so that virtiofsd can hold one word
  while the guest uses the other, and both actors can fault on one page; contents are zero or
  A, enough to tell a fill from a store.
* `virtio_net`: two TX and one RX entries with indices modulo 4 (or 1 and 2) make
  every wrap of slot against index happen; `MaxTap` bounds the frames waiting in
  the TAP, which only delays the next arrival.
* `net_lease`: four sandboxes for three TAPs and addresses, so that the pools run out and a
  late teardown meets the next holder.
* `cri_*`: `cri_runtime` has two concurrent calls, because each known race of
  calls is between two; `cri_live` has one call at a time but two VMs, so that the
  goroutines of a first VM meet a second one.  `MaxRestarts` bounds plugin restarts;
  `Ops` selects the calls; `GraceExpires` lets Stop's grace period run out.
* `image_store`: two images and one tag, since a tag can move and lookups have an order; two
  files, so that an image can be partly there; two calls, since every conflict is between two.
* `run_loop`: `MaxReq = 2` requests in flight, so one can complete while the
  guest handles the other.
* `snapshot_cache`: two boots with different RAM sizes, so that a reader can meet a
  file shorter or longer than its VM; two sections before RAM; one reader of each
  kind in turn; a machine word of nine bytes with pages of three, so that rounding
  wraps; another holder of the device with `MaxMaps` mappings.
* `vm_setup`: two queues per device, one abandoned probe (`MaxRetry`), a back-off that
  reaches its cap after three doublings, and four images, one of which does not fit.
* `share_config`: two VMs, so that a sibling exists, and seven files: one that fills the
  table of variables, and one beyond each limit or rule of parser and reader.

Everything except `ConfigIsOwn` and the liveness properties is also proved for all
sizes, so for the rest these bounds only serve the mutants.

Deadlock is not checked in `cri_*` (a plugin may be left with no call to serve),
`run_loop`, `vm_setup` (the VMM exits), `snapshot_cache` and `share_config` (every process
ends).

### Fairness

* Threads of the VMM, the copy threads, uffd_worker and the Go goroutines are
  weakly fair: they are ordinary threads under the host's scheduler and no step
  of theirs can be disabled and enabled for ever, except as below.  In UffdRestore these are
  the restore, the worker, a woken thread's retry, the net thread's exit and `cleanup()`.
* The guest's interrupt handler is strongly fair in RunLoop: periodic signals
  take the vCPU out of `KVM_RUN` again and again, and the guest makes progress
  between two of them (10 ms apart in `irq_thread_func`).
* In VmSetup a virtiofsd that lives reaches `listen()` and reads its socket; its
  death is an action without fairness, and the properties allow for it.
* Neither the guest's choice to post work nor a VM's exit is fair elsewhere, and no
  call is ever forced to be made.

## 4. Proofs

All theorems hold for every value of the constants under the named assumptions
of the modules that declare them (`ThreadsAssumption`, `PagesAssumption`,
`DataAssumption`, `CellsAssumption`, `RingsAssumption`, `RingAssumption`, `TapAssumption`,
`RunLoopAssumption`, `FileAssumption`, `DeviceAssumption`, `CacheAssumption`, `SetupAssumption`,
`ShareAssumption`, ...), which only give the constants their types; `SetupAssumption` also
keeps VERSION_1, which every driver takes, out of the ring features, and `EntryAssumption`
keeps the mark of a truncated file out of the configurations.  Where a theorem needs more,
the table says so.

| Module | Theorem | Says |
|---|---|---|
| RestoreCopyProofs | `CopyTypes`, `CopiesNeverOverlap`, `RestoreIsExact`, `CopyImplementsGuestMemory` | the parallel copy stays in RAM, never copies a page twice at once and restores the snapshot |
| | `CountIsExact` | the dirty total at the join is the number of dirty pages |
| VmmThreadProofs | `UffdTypes`, `NoFaultIsOrphaned`, `SourceStaysMapped`, `UffdImplementsLazyMemory` | demand paging shows the snapshot, but for pages virtiofsd touches first; cleanup leaves no thread in a fault, but for one virtiofsd left asleep, and no worker without its source |
| | `LoopTypesHold`, `NoRequestStranded`, `VmmEndsWithGuest` | the run loop delivers every virtio-fs completion and ends only with its guest |
| | `EntrypointsConfigured`, `HaltsAsConfigured` | a guest runs only the configured entrypoint, whatever its siblings write, and halts only when none is configured, unless a sibling rewrote its file |
| | `ClonesFinished` | the parent reports the end only when every clone has ended, for any number of them |
| NetImageProofs | `ImageTypes`, `RecordsComplete`, `ContainersComplete` | the image cache, for any number of calls that overlap in any way, except images they have spoiled |
| | `NetTypes`, `DescriptorsHaveOwner` | indices keep their width; each descriptor has exactly one owner, for every ring size and wrap |
| | `NoCompletionStranded` | every completion is signalled, except one whose bit was erased |
| PluginProofs | `LeaseTypes`, `LeasesAreExclusive`, `NoLeaseLeaks` | the pools, under repeated, late and missing teardowns and restarts |
| | `CriTypes` | the types of the plugin's state, with the invariant `CriInv` |
| CriProofs | `ContainersWatched`, `LoneVmsTracked`, `RemovedStaysRemoved` | the CRI calls and goroutines, for any number of calls, VMs and restarts |
| SnapshotCacheProofs | `CacheTypes`, `RunsComplete` | the file's readers, for any number of boots and readers |
| | `BuffersLive`, `BuffersOwned`, `MapsWithin`, `BenchBuffer` | the device and what the benchmark has of it |
| VmSetupProofs | `RingsComplete` | virtiofsd uses no ring it knows only in part |
| | `SetupWires`, `FirstRequestServed` | it knows the rings as the guest's driver configured them, after boot and after restore, and starts at the index of the first request, assuming `SameFeatures`: boot had a share, or virtiofsd offers no feature that changes a ring |
| | `LayoutIsDisjoint` | for all sizes with setup code up to 64 KiB and a mebibyte between kernel and initrd, what boot loads is in RAM, disjoint, and clear of the BIOS |

SnapshotFileProofs has the lemmas on the steps of SnapshotFile (types, writer, mapping, what
each kind of reader holds) that SnapshotCacheProofs combines with those on the device.

The arguments:

* *RestoreCopy, contents.*  `IInv` says that every chunk below the counter is
  finished or in the hands of exactly one thread, that a thread's run lies inside
  its chunk and is all dirty, and that pages of a chunk before the thread's position
  hold the snapshot.  `RestoredExact` alone is not inductive: it says nothing before
  the join.
* *RestoreCopy, count.*  `DirtyCountExact` speaks of the sum at the join.  The
  invariant is a ledger: `Uncounted` is the set of dirty pages no thread has
  counted yet (unclaimed chunks, and the rest of claimed ones); each thread owns the
  pages it has counted and not yet added to the total, as many as its
  `local_dirty`; what nobody owns and is not uncounted has the size of the total.
  Claiming moves nothing, counting a run moves it from uncounted to the thread, and
  `Finish` moves the thread's pages to the total.  The sets are finite and disjoint,
  so the cardinalities add up.
* *UffdRestore.*  `IInv` relates each blocked thread that is not `Stuck` to a queue entry or
  to the worker's message (`WaitInv`), and each phase of `cleanup()` to the threads that have
  ended by then (`PhaseInv`).  An absent page still has its snapshot content, which is the
  refinement mapping `View`; a fill therefore leaves `View` as it is (`FillKeepsView`), and only
  `Punch` changes it, to what `Lose` says.  `RamInv` has the ring pages present, and all dirty
  pages in midway mode, so that there `Punch` changes nothing.
* *RunLoop, and VirtioNet's interrupt.*  The invariant follows a completion through
  the places it can be: not yet signalled, status set with the interrupt latched, or
  being handled.  The acknowledgement is the delicate step: its store may undo a bit set
  after its load, which is harmless when it acknowledges a set bit (the handler goes on to
  reap the ring) and is recorded in `erased` when it acknowledges nothing.
* *VirtioNet's rings.*  Two free-running indices modulo `IdxMod` enclose a window of
  slots; `Dist` is its length.  The invariant gives each queue three adjoining
  windows (available, taken by the thread, used and not yet reaped) whose lengths
  add up to at most the ring's size, and says that the descriptors named in them
  are distinct and are just those the driver does not hold.  Distinct indices of one
  window have distinct slots (`SlotsDiffer`), as the ring size divides `IdxMod`; a
  counting argument (`NamedCard`) shows a free descriptor implies a free slot, so a
  post never overwrites an entry.
* *CriRuntime.*  `CriInv` says where a call of each kind can be (`Reaches`) and which
  local copies it has made by then: a call about to write a record holds one, a call
  past the launch holds a VM that was started, and StartContainer's VM is its own
  container's.  A VM, once started, keeps its sandbox and container.  So the record
  that turns Running comes with a watcher of a VM of the same container, and a
  container stops being Running before its last watcher ends (`RunningIsWatched` is
  itself a conjunct).  `MapInv` says the map names only VMs of the sandbox whose reaper
  has not passed the `delete`; with it, a VM of this process that no other overlapped is the
  one the map names (`LoneInv`), since every insertion or `delete` by another VM of the sandbox
  falls outside its time or sets `over`.  `RemovedContainerStaysRemoved` is an action property: no step but
  CreateContainer's makes a record where there is none (`NoneAppears`), since an update
  of a record that is gone fails.
* *ImageStore.*  `RecordedIsComplete` needs to know that an image that is being
  extracted has no record (`PullInv`), which in turn needs that no other call is at work
  that could write or unlink one (`SerialInv`, for images not `spoiled`); a copy needs that its
  image keeps its record (`CopyInv`); the end of a remove needs that `meta.json` is gone or still
  to be unlinked (`RemoveInv`).
* *NetLease.*  What a sandbox holds, or left behind, is registered to it unless it is `lost`
  (`Registered`), and nothing else is registered.  A teardown deletes another's entry only if its
  own was gone, so `lost` is empty until one was `repeated`.
* *SnapshotCache.*  For the file: a file as long as its header says is complete; a reader
  that opened a complete file and was not cut holds a part of that boot's image
  (`FreshInv`), and one that opened an incomplete file took a size below what the header it finds
  there announces (`StaleInv`), so the length check refuses it.
  For the device: an area is live exactly while one open file refers to it, and a mapping keeps
  its file from being released.
* *VmSetup.*  The properties speak of what virtiofsd has read; `SetupInv` also of what
  is on its way.  `InOrder`: an ENABLE in the stream comes after all it depends on, or
  virtiofsd has that already.  `NothingMissing`: each vring value the running process
  wants is known or in the stream; `NothingWrong`: no other value of it is in the
  stream.  With an empty stream these give `WiredAsConfigured`.  `Probed` says how far the
  driver has written the registers, so that at DRIVER_OK both queues are ready and no
  queue is skipped; `SnapOK` says the same of the registers in a snapshot, and that no
  request was made before it, hence index 0.  Reading a message moves a value from the
  stream to `ring`; the death of virtiofsd ends the obligations, since nobody reads.
* *BootLayout.*  The initrd is rounded down to a mebibyte from the top of RAM;
  `InitrdPlace` bounds it, and disjointness is linear arithmetic from there.
* *ShareConfig.*  A directory's `.entrypoint` is the configured one, empty or left over,
  depending on where the processes that write it are (`EntryFile`); a guest starts after
  its VM's own write (`Order`), and a sibling can only truncate the file or write the
  same value, so what init has read is known (`EntryRead`).  The steps that leave the file alone
  follow two tables of moves, one of the host and one of a guest (`HostMoves`,
  `GuestMoves`); only those that open, write or read it have arguments of their own.
  `ClonesFinished` is a count: `wait()` has returned at most as often as clones have ended
  (`Counted`), a clone that has ended stays so, and N of N finite processes are all of them.

Only model-checked, and why:

* liveness (`FaultsServed`, `CleanupEnds`, `TxReturns`, `CallsReturn`, `ExitIsRecorded`,
  `CompletionSeen`, `PowerOffNoticed`, `ConnectsWhenListening`, `MountCompletes`): TLAPS does not prove it under fairness;
* `ConfigIsOwn`: it compares the lines of `.vmconfig`, which are computed by selecting
  from the configuration file, with what init makes of them by applying one line after
  the other; what such a selection and such a fold return needs induction over data.

## 5. Not modelled

Data layout beyond the regions of BootLayout (bzImage headers, BIOS and VGA tables),
serial-port emulation, register and MSR transfer, read-only CRI calls, streaming and port
forwarding, exit codes, DNAT rules, log text, timing code of the benchmarks, and the
tutorial VMM under `docs/example-vmm`.  They are straight-line code, pure I/O, or hold no
state that other parts read; `PROJECT.json` gives the reason for each part.

`ExecSync` is left out although it touches shared state: its `MkdirAll` (`vmm.go` 330) can
recreate the directory of a container that was just removed, where an UpdateContainer still
pending would then write a record.  `RemovedContainerStaysRemoved` holds of the calls that are
modelled.
