-------------------------- MODULE VmmThreadProofs ---------------------------
(***************************************************************************)
(* The threads of one VMM process.  First the demand-paged restore         *)
(* (UffdRestore), for any set of pages and of contents: the faults of the  *)
(* vCPU and the net thread and the worker that serves them.  Then the vCPU *)
(* thread, the IRQ thread and virtiofsd (RunLoop), for any number of       *)
(* requests and of interrupted ioctls.  Last the share that a VMM leaves   *)
(* for its guest and init-vm reads (ShareConfig), for any number of boots, *)
(* directories and configurations.                                         *)
(***************************************************************************)
EXTENDS UffdRestore, RunLoop, ShareConfig, FiniteSetTheorems, TLAPS

\* A thread that sleeps waits for a page that is absent, unless virtiofsd has
\* populated it; one that was woken finds its page present; neither waits for
\* a cell in virtiofsd's hands.
WaitInv ==
    /\ \A a \in Actors : st[a] \in {"blocked", "woken"} =>
            acc[a] \in Access /\ acc[a].cell \notin posted
    /\ \A a \in Actors : st[a] = "blocked" => Page(a) \in punched \/ Page(a) \notin present
    /\ \A a \in Actors : st[a] = "woken" => Page(a) \in present
    /\ worker = "resolve" => msg \in Pages

\* The worker serves until the net thread has been joined, and the snapshot
\* stays mapped until the worker has.
PhaseInv ==
    /\ phase \in {"running", "joinNet"} => worker \in {"poll", "resolve"} /\ ~wakeup
    /\ phase # "running" => st["vcpu"] = "go"
    /\ phase \in {"joinUffd", "closed"} => st["net"] = "exited"
    /\ phase = "restoring" => /\ st["net"] = "go" /\ worker = "off" /\ ~wakeup
                             /\ present = {} /\ posted = {}
    /\ phase # "closed" => mapped
    /\ phase = "closed" => worker = "exited"

\* An absent page has no content; once the guest runs, a page is absent only
\* if it is no ring page, and with --midway-uffd only if it is clean.
RamInv ==
    /\ \A c \in Cells : c[1] \notin present => ram[c] = Zero
    /\ phase # "restoring" /\ mode = "uffd" => Rings \subseteq present
    /\ phase # "restoring" /\ mode = "midway" => \A q \in Pages : Dirty(q) => q \in present

IInv == TypeOK /\ WaitInv /\ PhaseInv /\ RamInv /\ NoOrphanFault

-----------------------------------------------------------------------------
LEMMA CellPage == ASSUME NEW c \in Cells PROVE c[1] \in Pages
BY CellsAssumption

LEMMA AccessCell == ASSUME NEW x \in Access PROVE x.cell \in Cells /\ x.cell[1] \in Pages
BY CellPage DEF Access

\* A fill writes the snapshot's content, whether it copies or zero-fills:
\* a page is clean in the bitmap exactly when it is zero.
LEMMA FilledIsImage == ASSUME NEW c \in Cells PROVE Filled(c) = image[c]
BY DEF Filled, Dirty

\* Hence filling changes nothing the guest can see.
LEMMA FillKeepsView ==
    ASSUME TypeOK, NEW P, P \subseteq Pages, Fill(P), image' = image
    PROVE  View' = View /\ present' \subseteq Pages /\ ram' \in [Cells -> Data]
<1>1. ASSUME NEW c \in Cells
      PROVE  ram'[c] = IF c[1] \in P \ present THEN image[c] ELSE ram[c]
  BY FilledIsImage DEF Fill
<1>2. View' = View
  BY <1>1 DEF View, Fill
<1>3. ram' \in [Cells -> Data]
  BY <1>1 DEF Fill, TypeOK
<1> QED BY <1>2, <1>3 DEF Fill, TypeOK

\* It fills no page but those it is told to, and empties none.
LEMMA FillKeepsRam ==
    ASSUME RamInv, NEW P, Fill(P), UNCHANGED <<image, mode>>, phase # "restoring",
           phase' # "restoring"
    PROVE  RamInv'
<1>1. present \subseteq present'
  BY DEF Fill
<1>2. ASSUME NEW c \in Cells, c[1] \notin present' PROVE ram'[c] = Zero
  BY <1>2 DEF Fill, RamInv
<1> QED BY <1>1, <1>2 DEF RamInv, Dirty

\* Other steps that keep RAM's absent pages empty keep RamInv.
LEMMA RamFrame ==
    ASSUME RamInv, UNCHANGED <<image, mode>>, present \subseteq present',
           phase' = phase \/ phase # "restoring",
           \A c \in Cells : c[1] \notin present' => ram'[c] = ram[c]
    PROVE  RamInv'
BY DEF RamInv, Dirty

LEMMA InitInv == Init => IInv
<1> SUFFICES ASSUME Init PROVE IInv
  OBVIOUS
<1>1. TypeOK
  BY ZeroAssumption, Zenon DEF Init, TypeOK, Modes, None
<1>2. RamInv
  BY DEF Init, RamInv
<1>3. WaitInv /\ PhaseInv /\ NoOrphanFault
  BY Zenon DEF Init, WaitInv, PhaseInv, NoOrphanFault, Actors
<1> QED BY <1>1, <1>2, <1>3 DEF IInv

LEMMA RestoreStep == ASSUME IInv, Restore PROVE IInv'
<1>1. present' \subseteq Pages /\ ram' \in [Cells -> Data]
  BY FillKeepsView, RingsAssumption DEF Restore, IInv
<1>2. \A a \in Actors : st[a] = "go"
  BY DEF IInv, PhaseInv, Restore, Actors
<1>3. RamInv'
  <2>1. ASSUME NEW c \in Cells, c[1] \notin present' PROVE ram'[c] = Zero
    BY <2>1 DEF Restore, Fill, IInv, RamInv
  <2> QED BY <2>1 DEF Restore, Fill, RamInv, Dirty
<1> QED
  BY <1>1, <1>2, <1>3 DEF IInv, TypeOK, WaitInv, PhaseInv, NoOrphanFault, Restore, Actors

\* An access in flight is type-correct and leaves memory so.
LEMMA PerformType ==
    ASSUME TypeOK, NEW a \in Actors, NEW x \in Access, Perform(a, x)
    PROVE  ram' \in [Cells -> Data] /\ acc' \in [Actors -> Access \cup {None}]
BY DEF TypeOK, Perform, Access, None

\* It leaves the absent pages alone.
LEMMA PerformRam ==
    ASSUME IInv, NEW a \in Actors, NEW x \in Access, Perform(a, x), x.cell[1] \in present,
           UNCHANGED <<image, mode, phase, present>>
    PROVE  RamInv'
<1>1. ASSUME NEW c \in Cells, c[1] \notin present PROVE ram'[c] = ram[c]
  BY <1>1 DEF Perform, IInv, TypeOK
<1> QED BY <1>1, RamFrame DEF IInv

LEMMA TouchStep == ASSUME IInv, NEW a \in Actors, NEW x \in Access, Touch(a, x) PROVE IInv'
<1>1. TypeOK'
  BY PerformType DEF IInv, TypeOK, Touch
<1>2. \A b \in Actors : st[b] \in {"blocked", "woken"} => acc'[b] = acc[b]
  BY DEF IInv, TypeOK, Touch, CanAccess, Perform
<1>3. RamInv'
  BY PerformRam DEF Touch
<1> QED
  BY <1>1, <1>2, <1>3 DEF IInv, WaitInv, PhaseInv, NoOrphanFault, Stuck, Page, Touch

LEMMA FaultStep == ASSUME IInv, NEW a \in Actors, NEW x \in Access, Fault(a, x) PROVE IInv'
<1>0. x.cell[1] \in Pages
  BY AccessCell
<1>1. TypeOK'
  BY <1>0 DEF IInv, TypeOK, Fault
<1>2. acc'[a] = x /\ st'[a] = "blocked" /\ \A b \in Actors \ {a} : acc'[b] = acc[b] /\ st'[b] = st[b]
  BY DEF IInv, TypeOK, Fault
<1>3. WaitInv'
  BY <1>2 DEF IInv, WaitInv, Page, Fault
<1>4. PhaseInv'
  BY <1>2 DEF IInv, PhaseInv, Fault, CanAccess, Actors
<1>5. NoOrphanFault'
  BY <1>2 DEF IInv, NoOrphanFault, Stuck, Page, PhaseInv, Fault, CanAccess
<1>6. RamInv'
  BY RamFrame DEF Fault, IInv
<1> QED BY <1>1, <1>3, <1>4, <1>5, <1>6 DEF IInv

LEMMA RetryStep == ASSUME IInv, NEW a \in Actors, Retry(a) PROVE IInv'
<1>0. acc[a] \in Access
  BY DEF IInv, WaitInv, Retry
<1>1. TypeOK'
  BY <1>0, PerformType DEF IInv, TypeOK, Retry
<1>2. st'[a] = "go" /\ \A b \in Actors \ {a} : acc'[b] = acc[b] /\ st'[b] = st[b]
  BY DEF IInv, TypeOK, Retry, Perform
<1>3. \A b \in Actors \ {a} : <<b, Page(b)>> \in queue => <<b, Page(b)>> \in queue'
  BY DEF Retry
<1>4. RamInv'
  BY <1>0, PerformRam DEF Retry, IInv, WaitInv, Page
<1> QED
  BY <1>1, <1>2, <1>3, <1>4 DEF IInv, WaitInv, PhaseInv, NoOrphanFault, Stuck, Page, Retry, Actors

LEMMA PollStep == ASSUME IInv, WorkerPoll PROVE IInv'
<1>0. RamInv'
  BY RamFrame DEF WorkerPoll, IInv
<1>1. CASE wakeup
  <2>1. phase \in {"restoring", "joinUffd", "closed"}
    BY <1>1 DEF IInv, PhaseInv, TypeOK
  <2>2. \A a \in Actors : st[a] \in {"go", "exited"}
    BY <2>1 DEF IInv, PhaseInv, Actors
  <2> QED
    BY <1>0, <1>1, <2>1, <2>2 DEF IInv, TypeOK, WaitInv, PhaseInv, NoOrphanFault, WorkerPoll
<1>2. CASE ~wakeup
  <2>1. PICK m \in queue : queue' = queue \ {m} /\ msg' = m[2]
    BY <1>2 DEF WorkerPoll
  <2>2. msg' \in Pages
    BY <2>1 DEF IInv, TypeOK
  <2>3. worker = "poll" /\ worker' = "resolve"
        /\ UNCHANGED <<image, mode, phase, mapped, present, ram, acc, st, wakeup, posted, punched>>
    BY <1>2 DEF WorkerPoll
  <2>a. TypeOK'
    BY <2>1, <2>2, <2>3 DEF IInv, TypeOK
  <2>b. WaitInv'
    BY <2>2, <2>3 DEF IInv, WaitInv, Page
  <2>c. PhaseInv'
    BY <2>3 DEF IInv, PhaseInv
  <2>4. NoOrphanFault'
    <3> SUFFICES ASSUME NEW a \in Actors, st[a] = "blocked", ~Stuck(a)
                 PROVE  <<a, Page(a)>> \in queue' \/ msg' = Page(a)
      BY <1>2, <2>3 DEF NoOrphanFault, Stuck, Page
    <3>1. <<a, Page(a)>> \in queue
      BY DEF IInv, NoOrphanFault, WorkerPoll
    <3>2. m = <<a, Page(a)>> => m[2] = Page(a)
      OBVIOUS
    <3> QED BY <2>1, <3>1, <3>2
  <2> QED BY <1>0, <2>a, <2>b, <2>c, <2>4 DEF IInv
<1> QED BY <1>1, <1>2

LEMMA ResolveStep == ASSUME IInv, WorkerResolve PROVE IInv'
<1>0. msg \in Pages
  BY DEF IInv, WaitInv, WorkerResolve
<1>1. CASE msg \in present
  <2>1. \A a \in Actors : st[a] = "blocked" /\ ~Stuck(a) => Page(a) # msg
    BY <1>1 DEF IInv, WaitInv, Stuck
  <2>2. /\ worker = "resolve" /\ worker' = "poll" /\ msg' = None
        /\ UNCHANGED <<image, mode, phase, mapped, present, ram, acc, st, queue, wakeup,
                       posted, punched>>
    BY <1>1 DEF WorkerResolve
  <2>3. TypeOK' /\ WaitInv'
    BY <2>2 DEF IInv, TypeOK, WaitInv, Page
  <2>4. PhaseInv' /\ NoOrphanFault'
    BY <2>1, <2>2 DEF IInv, PhaseInv, NoOrphanFault, Stuck, Page
  <2>5. RamInv'
    BY <2>2, RamFrame DEF IInv
  <2> QED BY <2>3, <2>4, <2>5 DEF IInv
<1>2. CASE msg \notin present
  <2>0. Fill({msg}) /\ {msg} \subseteq Pages /\ UNCHANGED <<image, mode, phase>> /\ TypeOK
    BY <1>0, <1>2 DEF IInv, WorkerResolve
  <2>1. present' = present \cup {msg} /\ ram' \in [Cells -> Data]
    <3>2. present' = present \cup {msg}
      BY <2>0 DEF Fill
    <3> QED BY <2>0, <3>2, FillKeepsView
  <2>2. \A a \in Actors : st'[a] = IF st[a] = "blocked" /\ Page(a) = msg
                                   THEN "woken" ELSE st[a]
    BY <1>2 DEF WorkerResolve
  <2>3. TypeOK'
    BY <1>0, <1>2, <2>1 DEF IInv, TypeOK, WorkerResolve
  <2>4. WaitInv'
    BY <2>1, <2>2 DEF IInv, WaitInv, Page, WorkerResolve
  <2>5. PhaseInv'
    BY <2>2 DEF IInv, PhaseInv, TypeOK, WorkerResolve, Actors
  <2>6. NoOrphanFault'
    <3> SUFFICES ASSUME NEW a \in Actors, st'[a] = "blocked", Page(a) \notin punched
                 PROVE  ~wakeup /\ <<a, Page(a)>> \in queue
      BY DEF NoOrphanFault, Stuck, Page, WorkerResolve
    <3>1. st[a] = "blocked" /\ Page(a) # msg
      BY <2>2
    <3> QED BY <3>1 DEF IInv, NoOrphanFault, Stuck
  <2>7. RamInv'
    <3>1. phase # "restoring"
      BY DEF IInv, PhaseInv, WorkerResolve
    <3> QED BY <2>0, <3>1, FillKeepsRam DEF IInv
  <2> QED BY <2>3, <2>4, <2>5, <2>6, <2>7 DEF IInv
<1> QED BY <1>1, <1>2

LEMMA PostStep == ASSUME IInv, NEW c \in Cells, Post(c) PROVE IInv'
<1>1. TypeOK' /\ PhaseInv' /\ NoOrphanFault'
  BY DEF IInv, TypeOK, PhaseInv, NoOrphanFault, Stuck, Page, Post
<1>2. WaitInv'
  BY DEF IInv, WaitInv, Page, Post
<1>3. RamInv'
  BY RamFrame, Zenon DEF Post, IInv
<1> QED BY <1>1, <1>2, <1>3 DEF IInv

LEMMA DeviceStep == ASSUME IInv, Device PROVE IInv'
<1>1. ASSUME NEW q \in Pages, Punch(q) PROVE IInv'
  <2>1. TypeOK' /\ WaitInv' /\ NoOrphanFault'
    BY <1>1 DEF IInv, TypeOK, WaitInv, NoOrphanFault, Stuck, Page, Punch
  <2>2. PhaseInv'
    BY <1>1 DEF IInv, PhaseInv, Punch
  <2>3. RamInv'
    BY <1>1, RamFrame, Zenon DEF Punch, IInv
  <2> QED BY <2>1, <2>2, <2>3 DEF IInv
<1>2. ASSUME NEW c \in Cells, NEW v \in Data, DeviceWrite(c, v) PROVE IInv'
  <2>1. RamInv'
    <3>1. ASSUME NEW d \in Cells, d[1] \notin present PROVE ram'[d] = ram[d]
      BY <1>2, <3>1 DEF DeviceWrite, IInv, TypeOK
    <3> QED BY <1>2, <3>1, RamFrame DEF DeviceWrite, IInv
  <2> QED
    BY <1>2, <2>1 DEF IInv, TypeOK, WaitInv, PhaseInv, NoOrphanFault, Stuck, Page, DeviceWrite
<1>3. ASSUME NEW c \in Cells, DeviceRead(c) PROVE IInv'
  <2>1. RamInv'
    BY <1>3, RamFrame, Zenon DEF DeviceRead, IInv
  <2> QED
    BY <1>3, <2>1 DEF IInv, TypeOK, WaitInv, PhaseInv, NoOrphanFault, Stuck, Page, DeviceRead
<1> QED BY <1>1, <1>2, <1>3 DEF Device

LEMMA CleanupSteps ==
    ASSUME IInv, StopNet \/ NetExit \/ Cleanup \/ UNCHANGED vars PROVE IInv'
<1>0. RamInv'
  BY RamFrame DEF StopNet, NetExit, Cleanup, StopUffd, Close, vars, IInv
<1> USE <1>0
<1>1. CASE StopNet
  BY <1>1 DEF IInv, TypeOK, WaitInv, PhaseInv, NoOrphanFault, Stuck, Page, StopNet
<1>2. CASE NetExit
  <2>1. st'["net"] = "exited" /\ \A a \in Actors \ {"net"} : st'[a] = st[a]
    BY <1>2 DEF NetExit, IInv, TypeOK, Actors
  <2> QED
    BY <1>2, <2>1 DEF IInv, TypeOK, WaitInv, PhaseInv, NoOrphanFault, Stuck, Page, NetExit, Actors
<1>3. CASE StopUffd
  <2>1. \A a \in Actors : st[a] \in {"go", "exited"}
    BY <1>3 DEF IInv, PhaseInv, StopUffd, Actors
  <2> QED
    BY <1>3, <2>1 DEF IInv, TypeOK, WaitInv, PhaseInv, NoOrphanFault, StopUffd
<1>4. CASE Close
  <2>1. \A a \in Actors : st[a] \in {"go", "exited"}
    BY <1>4 DEF IInv, PhaseInv, Close, Actors
  <2> QED
    BY <1>4, <2>1, Zenon DEF IInv, TypeOK, WaitInv, PhaseInv, NoOrphanFault, Close
<1>5. CASE UNCHANGED vars
  BY <1>5 DEF IInv, TypeOK, WaitInv, PhaseInv, NoOrphanFault, Stuck, Page, vars
<1> QED BY <1>1, <1>2, <1>3, <1>4, <1>5 DEF Cleanup

LEMMA NextInv == IInv /\ [Next]_vars => IInv'
BY RestoreStep, TouchStep, FaultStep, RetryStep, PollStep, ResolveStep,
   PostStep, DeviceStep, CleanupSteps DEF Next, Worker

\* The inductive invariant holds in every reachable state.
THEOREM UffdInvariant == Spec => []IInv
BY InitInv, NextInv, PTL DEF Spec

\* The fault handler and the threads it serves keep their types.
THEOREM UffdTypes == Spec => []TypeOK
BY UffdInvariant, PTL DEF IInv

\* A thread asleep in a page fault always has a live worker that will serve
\* it, up to and through cleanup(), unless virtiofsd took its page: the order
\* of the two joins is right.
THEOREM NoFaultIsOrphaned == Spec => []NoOrphanFault
BY UffdInvariant, PTL DEF IInv

\* The worker never reads the snapshot after cleanup() has unmapped it.
THEOREM SourceStaysMapped == Spec => []SourceMapped
<1>1. IInv => SourceMapped
  BY DEF IInv, PhaseInv, SourceMapped
<1> QED BY <1>1, UffdInvariant, PTL

\* Demand paging implements LazyMemory: a guest restored on userfaultfd can
\* tell it from one whose RAM was there from the start only by pages that
\* virtiofsd is the first to touch, never by the rings, and never with
\* --midway-uffd.
THEOREM UffdImplementsLazyMemory == Spec => ImplementsLazyMemory
<1>1. Init => Lazy!Init
  BY DEF Init, Lazy!Init, Lazy!NoRead, View, None, Modes
<1>2. IInv /\ [Next]_vars => [Lazy!Next]_(Lazy!vars)
  <2> SUFFICES ASSUME IInv, [Next]_vars PROVE [Lazy!Next]_(Lazy!vars)
    OBVIOUS
  <2>0. \A c \in Cells : c[1] \in present => View[c] = ram[c]
    BY DEF View
  <2>1. ASSUME View' = View, present \subseteq present', present' \subseteq Pages,
               seen' = None, phase # "restoring" => phase' # "restoring",
               UNCHANGED <<image, mode, posted>>
        PROVE  [Lazy!Next]_(Lazy!vars)
    BY <2>1 DEF Lazy!Next, Lazy!Populate, Lazy!NoRead, None
  <2>2. CASE Restore
    <3>1. View' = View /\ present' \subseteq Pages
      BY <2>2, FillKeepsView, RingsAssumption DEF Restore, IInv
    <3> QED BY <2>1, <2>2, <3>1 DEF Restore, Fill
  <2>3. ASSUME NEW a \in Actors, NEW x \in Access, x.cell[1] \in present, x.cell \notin posted,
               phase # "restoring", Perform(a, x), UNCHANGED <<image, mode, phase, present, posted>>
        PROVE  [Lazy!Next]_(Lazy!vars)
    <3>0. x.cell \in Cells /\ posted' = posted \ {x.cell}
      BY <2>3, AccessCell
    <3>1. CASE x.op = "read"
      <4>1. seen' = <<x.cell, View[x.cell]>> /\ View' = View
        BY <2>0, <2>3, <3>0, <3>1, Zenon DEF Perform, View
      <4> QED BY <2>3, <3>0, <4>1 DEF Lazy!Next, Lazy!Read
    <3>2. CASE x.op = "write"
      <4>1. x.val \in Data
        BY <3>2, ZeroAssumption DEF Access
      <4>2. ram' = [ram EXCEPT ![x.cell] = x.val] /\ seen' = None
        BY <2>3, <3>2 DEF Perform
      <4>3. View' = [View EXCEPT ![x.cell] = x.val]
        BY <2>3, <3>0, <4>2, Zenon DEF View, IInv, TypeOK
      <4>4. Lazy!Write(x.cell, x.val)
        BY <2>3, <3>0, <4>2, <4>3, Zenon DEF Lazy!Write, Lazy!NoRead, None
      <4> QED BY <3>0, <4>1, <4>4 DEF Lazy!Next
    <3> QED BY <3>1, <3>2 DEF Access
  <2>4. ASSUME NEW a \in Actors, NEW x \in Access, Touch(a, x)
        PROVE  [Lazy!Next]_(Lazy!vars)
    BY <2>3, <2>4 DEF Touch, CanAccess
  <2>5. ASSUME NEW a \in Actors, Retry(a) PROVE [Lazy!Next]_(Lazy!vars)
    <3>1. acc[a] \in Access /\ acc[a].cell[1] \in present /\ acc[a].cell \notin posted
      BY <2>5 DEF Retry, IInv, WaitInv, Page
    <3>2. phase # "restoring"
      BY <2>5 DEF Retry, IInv, PhaseInv, Actors
    <3> QED BY <2>3, <2>5, <3>1, <3>2 DEF Retry
  <2>6. CASE WorkerResolve
    <3>1. View' = View /\ present \subseteq present' /\ present' \subseteq Pages
      <4>1. CASE msg \in present
        BY <2>6, <4>1 DEF WorkerResolve, View, IInv, TypeOK
      <4>2. CASE msg \notin present
        <5>1. Fill({msg}) /\ {msg} \subseteq Pages /\ image' = image /\ TypeOK
          BY <2>6, <4>2 DEF WorkerResolve, IInv, WaitInv
        <5> QED BY <5>1, FillKeepsView, Zenon DEF Fill
      <4> QED BY <4>1, <4>2
    <3> QED BY <2>1, <2>6, <3>1 DEF WorkerResolve
  <2>7. ASSUME NEW c \in Cells, NEW v \in Data, DeviceWrite(c, v)
        PROVE  [Lazy!Next]_(Lazy!vars)
    <3>1. View' = [View EXCEPT ![c] = v]
      BY <2>7, Zenon DEF DeviceWrite, View, IInv, TypeOK
    <3>2. phase # "restoring"
      BY <2>7 DEF DeviceWrite, IInv, PhaseInv
    <3>3. Lazy!Write(c, v)
      BY <2>7, <3>1, <3>2, Zenon DEF Lazy!Write, Lazy!NoRead, None, DeviceWrite
    <3> QED BY <3>3 DEF Lazy!Next
  <2>8. ASSUME NEW c \in Cells, DeviceRead(c) PROVE [Lazy!Next]_(Lazy!vars)
    <3>1. seen' = <<c, View[c]>> /\ View' = View
      BY <2>0, <2>8 DEF DeviceRead, View
    <3>2. phase # "restoring"
      BY <2>8 DEF DeviceRead, IInv, PhaseInv
    <3> QED BY <2>8, <3>1, <3>2 DEF Lazy!Next, Lazy!Read, DeviceRead
  <2>9. ASSUME NEW q \in Pages, Punch(q) PROVE [Lazy!Next]_(Lazy!vars)
    <3>1. phase # "restoring" /\ q \notin present /\ \E c \in posted : c[1] = q
      BY <2>9 DEF Punch, IInv, PhaseInv
    <3>2. View' = [c \in Cells |-> IF c[1] = q THEN Zero ELSE View[c]]
      BY <2>9, <3>1 DEF Punch, View, IInv, RamInv
    <3>3. CASE mode = "uffd"
      <4>1. q \notin Rings
        BY <3>1, <3>3 DEF IInv, RamInv
      <4> QED BY <2>9, <3>1, <3>2, <3>3, <4>1
              DEF Lazy!Next, Lazy!Lose, Lazy!NoRead, None, Punch
    <3>4. CASE mode = "midway"
      <4>1. \A c \in Cells : c[1] = q => View[c] = Zero
        BY <3>1, <3>4 DEF View, IInv, RamInv, Dirty
      <4>2. View' = View
        BY <3>2, <4>1 DEF View
      <4> QED BY <2>1, <2>9, <4>2 DEF Punch, IInv, TypeOK
    <3> QED BY <3>3, <3>4 DEF IInv, TypeOK, Modes
  <2>10. CASE Close
    <3>1. View' = View /\ posted' \subseteq Cells /\ phase # "restoring"
      BY <2>10, Zenon DEF Close, View
    <3> QED BY <2>10, <3>1 DEF Lazy!Next, Lazy!Lend, Lazy!NoRead, None, Close
  <2>11. ASSUME NEW c \in Cells, Post(c) PROVE [Lazy!Next]_(Lazy!vars)
    <3>1. View' = View /\ posted' \subseteq Cells /\ phase # "restoring"
      BY <2>11 DEF Post, View, IInv, TypeOK
    <3> QED BY <2>11, <3>1 DEF Lazy!Next, Lazy!Lend, Lazy!NoRead, None, Post
  <2>12. ASSUME UNCHANGED <<image, mode, present, ram, posted>>, seen' = None,
               phase # "restoring" => phase' # "restoring"
        PROVE  [Lazy!Next]_(Lazy!vars)
    BY <2>1, <2>12 DEF View, IInv, TypeOK
  <2>13. ASSUME NEW a \in Actors, NEW x \in Access, Fault(a, x)
        PROVE  [Lazy!Next]_(Lazy!vars)
    BY <2>12, <2>13 DEF Fault
  <2>14. CASE WorkerPoll
    BY <2>12, <2>14 DEF WorkerPoll
  <2>15. CASE StopNet \/ NetExit \/ StopUffd
    BY <2>12, <2>15 DEF StopNet, NetExit, StopUffd
  <2>16. CASE UNCHANGED vars
    BY <2>16, Zenon DEF vars, Lazy!vars, View
  <2> QED
    BY <2>2, <2>4, <2>5, <2>6, <2>7, <2>8, <2>9, <2>10, <2>11, <2>13, <2>14, <2>15, <2>16
       DEF Next, Worker, Device, Cleanup
<1> QED BY <1>1, <1>2, UffdInvariant, PTL DEF Spec, ImplementsLazyMemory, Lazy!Spec

-----------------------------------------------------------------------------
(***************************************************************************)
(* The vCPU thread and the virtio-fs device (RunLoop), with and without a  *)
(* shared directory.                                                       *)
(***************************************************************************)

(***************************************************************************)
(* run() is running, or has returned only to save the snapshot.            *)
(***************************************************************************)
LoopLive == vpc \in {"check", "enter", "guest"} \/ (vpc = "returned" /\ runRet = 1)

(***************************************************************************)
(* The part of the inductive invariant about interrupts.  The line is high *)
(* exactly while the status bit is set, and while it is, an interrupt is   *)
(* latched or the handler that will acknowledge it is running: so raising  *)
(* a line that is already high needs no new edge.                          *)
(***************************************************************************)
FsAnnounced == fsIrr \/ g = "status" \/ (g = "ack" /\ fsVal = 1)

FsComing ==
    \/ dpc = "call" \/ call
    \/ fsStatus = 1 /\ (fsIrr \/ g = "status")
    \/ g = "ack" /\ fsVal = 1
    \/ g = "process"

FsIrqInv ==
    /\ fsLine = fsStatus
    /\ LoopLive /\ fsStatus = 1 => FsAnnounced
    /\ LoopLive /\ done > 0 => FsComing

(***************************************************************************)
(* The part about run()'s return: the halt counter is positive only for a  *)
(* guest that is off, and a restored guest at the signal device is ignored *)
(***************************************************************************)
LoopEndInv ==
    /\ hlt > 0 => g = "off"
    /\ g = "boot" => launch = "boot"
    /\ launch = "restore" /\ g = "signal" => ignore
    /\ vpc = "returned" => \/ runRet = 2
                           \/ runRet = 0 /\ g = "off"
                           \/ runRet = 1 /\ launch = "boot"
    /\ EndsWithGuest

(***************************************************************************)
(* The types, with the bounds that keep the counters in them: run() counts *)
(* to two only as it returns, and a request is available or done.          *)
(***************************************************************************)
LoopTypes ==
    /\ LoopTypeOK
    /\ vpc \in {"check", "enter", "guest"} => hlt <= 1
    /\ fsAvail + done <= MaxReq


LoopInv == LoopTypes /\ FsIrqInv /\ LoopEndInv

(***************************************************************************)
(* The types in two parts: the flags, and everything that is compared or   *)
(* counted.                                                                *)
(***************************************************************************)
LoopFlags ==
    /\ ignore \in BOOLEAN /\ active \in BOOLEAN
    /\ running \in BOOLEAN /\ irqWakeup \in BOOLEAN
    /\ fsIrr \in BOOLEAN /\ kick \in BOOLEAN /\ call \in BOOLEAN

LoopCounts ==
    /\ launch \in {"boot", "restore"}
    /\ vpc \in {"check", "enter", "guest", "returned"} \cup Ended
    /\ hlt \in 0..2 /\ runRet \in 0..2
    /\ irqThread \in {"none", "poll", "kill", "exited"}
    /\ fsStatus \in {0, 1} /\ fsLine \in {0, 1}
    /\ fsAvail \in 0..MaxReq /\ done \in 0..MaxReq
    /\ dpc \in {"idle", "call"}
    /\ g \in {"boot", "signal", "run", "status", "ack", "process", "halt", "off"}
    /\ fsVal \in {0, 1}
    /\ vpc \in {"check", "enter", "guest"} => hlt <= 1
    /\ fsAvail + done <= MaxReq

LEMMA LoopTypesParts == LoopTypes <=> LoopFlags /\ LoopCounts
  BY Zenon DEF LoopTypes, LoopTypeOK, LoopFlags, LoopCounts

LEMMA InitLoop == LoopInit => LoopInv
<1> SUFFICES ASSUME LoopInit PROVE LoopInv
  OBVIOUS
<1>1. LoopFlags
  BY RunLoopAssumption, ZenonT(60) DEF LoopInit, InitRestored, InitBoot, LoopFlags
<1>2. LoopCounts
  BY RunLoopAssumption DEF LoopInit, InitRestored, InitBoot, LoopCounts, Ended
<1>3. FsIrqInv
  BY DEF LoopInit, FsIrqInv
<1>4. LoopEndInv
  BY DEF LoopInit, InitRestored, InitBoot, LoopEndInv, EndsWithGuest, Ended
<1> QED
  BY <1>1, <1>2, <1>3, <1>4, LoopTypesParts DEF LoopInv

(***************************************************************************)
(* Every step of the run loop, the IRQ thread, virtiofsd and the guest     *)
(* keeps the flags' types,                                                 *)
(***************************************************************************)
LEMMA LoopFlagsStep == LoopFlags /\ [LoopNext]_loopVars => LoopFlags'
<1> SUFFICES ASSUME LoopFlags, [LoopNext]_loopVars PROVE LoopFlags'
  OBVIOUS
<1> USE DEF LoopFlags, vcpu, thread, device, ring
<1>1. CASE CheckIrqs
  BY <1>1, Zenon DEF CheckIrqs
<1>2. CASE KvmRun \/ JoinIrqThread
  BY <1>2, Zenon DEF KvmRun, JoinIrqThread
<1>3. CASE StopIrqThread
  BY <1>3, Zenon DEF StopIrqThread
<1>4. CASE Main \/ Shutdown
  BY <1>4, Zenon DEF Main, Shutdown
<1>5. CASE IrqPoll
  BY <1>5, Zenon DEF IrqPoll
<1>6. CASE IrqKill
  BY <1>6, Zenon DEF IrqKill, Eintr
<1>7. CASE Serve \/ SignalCall
  BY <1>7, Zenon DEF Serve, SignalCall
<1>8. CASE DriverOk
  BY <1>8, Zenon DEF DriverOk, StartIrqThread
<1>9. CASE Signal
  BY <1>9, Zenon DEF Signal
<1>10. CASE FsNotify
  BY <1>10, Zenon DEF FsNotify
<1>11. CASE FsTakeIrq \/ FsReadStatus \/ Ack
  BY <1>11, Zenon DEF FsTakeIrq, FsReadStatus, Ack
<1>12. CASE FsProcess \/ Idle
  BY <1>12, Zenon DEF FsProcess, Idle
<1>13. CASE UNCHANGED loopVars
  BY <1>13, ZenonT(60) DEF loopVars
<1> QED
  BY <1>1, <1>2, <1>3, <1>4, <1>5, <1>6, <1>7, <1>8, <1>9, <1>10, <1>11, <1>12, <1>13
  DEF LoopNext, VcpuThread, IrqThread, Virtiofsd, GuestKernel, FsHandler

(***************************************************************************)
(* ... and the other types, with the counters' bounds.                     *)
(***************************************************************************)
LEMMA LoopCountsStep == LoopCounts /\ [LoopNext]_loopVars => LoopCounts'
<1> SUFFICES ASSUME LoopCounts, [LoopNext]_loopVars PROVE LoopCounts'
  OBVIOUS
<1> USE RunLoopAssumption DEF LoopCounts, Ended, vcpu, thread, device, ring
<1>1. CASE CheckIrqs
  BY <1>1, ZenonT(60) DEF CheckIrqs
<1>2. CASE KvmRun \/ JoinIrqThread
  BY <1>2 DEF KvmRun, JoinIrqThread
<1>3. CASE StopIrqThread
  BY <1>3 DEF StopIrqThread
<1>4. CASE Main \/ Shutdown
  BY <1>4 DEF Main, Shutdown
<1>5. CASE IrqPoll
  BY <1>5 DEF IrqPoll
<1>6. CASE IrqKill
  BY <1>6 DEF IrqKill, Eintr
<1>7. CASE Serve \/ SignalCall
  <2>1. CASE Serve
    <3>1. /\ fsAvail > 0 /\ fsAvail' = fsAvail - 1 /\ done' = done + 1 /\ dpc' = "call"
          /\ UNCHANGED <<launch, vpc, vcpu, irqThread, fsStatus, fsLine, g, fsVal>>
      BY <2>1, ZenonT(60) DEF Serve
    <3> QED
      BY <3>1
  <2>2. CASE SignalCall
    BY <2>2 DEF SignalCall
  <2> QED
    BY <1>7, <2>1, <2>2
<1>8. CASE DriverOk
  BY <1>8 DEF DriverOk, StartIrqThread, Exit
<1>9. CASE Signal
  BY <1>9 DEF Signal
<1>10. CASE FsNotify
  BY <1>10 DEF FsNotify, Exit
<1>11. CASE FsTakeIrq \/ FsReadStatus \/ Ack
  BY <1>11 DEF FsTakeIrq, FsReadStatus, Ack, Exit
<1>12. CASE FsProcess \/ Idle
  BY <1>12 DEF FsProcess, Idle
<1>13. CASE UNCHANGED loopVars
  BY <1>13 DEF loopVars
<1> QED
  BY <1>1, <1>2, <1>3, <1>4, <1>5, <1>6, <1>7, <1>8, <1>9, <1>10, <1>11, <1>12, <1>13, ZenonT(60)
  DEF LoopNext, VcpuThread, IrqThread, Virtiofsd, GuestKernel, FsHandler

LEMMA LoopTypesStep == LoopTypes /\ [LoopNext]_loopVars => LoopTypes'
<1>1. LoopTypes' <=> LoopFlags' /\ LoopCounts'
  BY Zenon DEF LoopTypes, LoopTypeOK, LoopFlags, LoopCounts
<1> QED
  BY <1>1, LoopTypesParts, LoopFlagsStep, LoopCountsStep

(***************************************************************************)
(* Every step keeps the interrupt part.  The steps that matter are         *)
(* check_virtio_irqs, which consumes the eventfd, and the handler's.       *)
(***************************************************************************)
LEMMA FsIrqStep == LoopInv /\ [LoopNext]_loopVars => FsIrqInv'
<1> SUFFICES ASSUME LoopTypes, FsIrqInv, LoopEndInv, [LoopNext]_loopVars PROVE FsIrqInv'
  BY DEF LoopInv
<1> USE DEF LoopTypes, LoopTypeOK, FsIrqInv, LoopLive, FsAnnounced, FsComing
<1>1. CASE CheckIrqs
  BY <1>1, ZenonT(60) DEF CheckIrqs, vcpu, thread, device, ring
<1>2. CASE KvmRun \/ Main \/ StopIrqThread \/ JoinIrqThread
  BY <1>2 DEF KvmRun, Main, StopIrqThread, JoinIrqThread, vcpu,
     thread, device, ring
<1>3. CASE Shutdown
  BY <1>3 DEF Shutdown, thread, device, ring
<1>4. CASE IrqThread
  BY <1>4 DEF IrqThread, IrqPoll, IrqKill, Eintr, vcpu, device,
     ring
<1>5. CASE Virtiofsd
  BY <1>5, ZenonT(60) DEF Virtiofsd, Serve, SignalCall, vcpu, thread, device
<1>6. CASE DriverOk \/ Signal \/ FsNotify
  BY <1>6 DEF DriverOk, Signal, FsNotify, Exit, InGuest, vcpu,
     thread, device, ring
<1>7. CASE FsTakeIrq
  BY <1>7 DEF FsTakeIrq, vcpu, thread, device, ring
<1>8. CASE FsReadStatus
  BY <1>8 DEF FsReadStatus, Exit, InGuest, vcpu, thread, device,
     ring
<1>9. CASE Ack
  BY <1>9 DEF Ack, Exit, InGuest, vcpu, thread, device, ring
<1>10. CASE FsProcess
  BY <1>10 DEF FsProcess, InGuest, vcpu, thread, device, ring
<1>11. CASE Idle
  BY <1>11 DEF Idle, InGuest, vcpu, thread, device, ring
<1>12. CASE UNCHANGED loopVars
  BY <1>12, SMTT(60), Z3T(60) DEF loopVars, vcpu, thread, device, ring
<1> QED
  BY <1>1, <1>2, <1>3, <1>4, <1>5, <1>6, <1>7, <1>8, <1>9, <1>10, <1>11, <1>12, ZenonT(60)
  DEF LoopNext, VcpuThread, GuestKernel, FsHandler

(***************************************************************************)
(* Every step keeps the part about run()'s return.                         *)
(***************************************************************************)
LEMMA LoopEndStep == LoopInv /\ [LoopNext]_loopVars => LoopEndInv'
<1> SUFFICES ASSUME LoopTypes, LoopEndInv, [LoopNext]_loopVars PROVE LoopEndInv'
  BY DEF LoopInv
<1> USE DEF LoopTypes, LoopTypeOK, LoopEndInv, EndsWithGuest, Ended
<1>1. CASE CheckIrqs \/ KvmRun
  BY <1>1, ZenonT(60) DEF CheckIrqs, KvmRun, vcpu
<1>2. CASE Main
  BY <1>2 DEF Main
<1>3. CASE StopIrqThread \/ JoinIrqThread
  BY <1>3 DEF StopIrqThread, JoinIrqThread, vcpu
<1>4. CASE Shutdown
  BY <1>4 DEF Shutdown
<1>5. CASE IrqPoll
  BY <1>5 DEF IrqPoll, vcpu
<1>6. CASE IrqKill
  BY <1>6 DEF IrqKill, Eintr, InterruptsOn, Halted, vcpu
<1>7. CASE Virtiofsd
  BY <1>7, ZenonT(60) DEF Virtiofsd, Serve, SignalCall, vcpu
<1>8. CASE DriverOk \/ FsNotify
  BY <1>8 DEF DriverOk, StartIrqThread, FsNotify, Exit, InGuest, vcpu
<1>9. CASE Signal
  BY <1>9 DEF Signal, InGuest, vcpu
<1>10. CASE FsHandler \/ Idle
  BY <1>10 DEF FsHandler, FsTakeIrq, FsReadStatus, Ack, FsProcess, Idle,
     Exit, InGuest, vcpu
<1>11. CASE UNCHANGED loopVars
  BY <1>11 DEF loopVars, vcpu
<1> QED
  BY <1>1, <1>2, <1>3, <1>4, <1>5, <1>6, <1>7, <1>8, <1>9, <1>10, <1>11, ZenonT(60)
  DEF LoopNext, VcpuThread, IrqThread, GuestKernel

LEMMA LoopInvariance == LoopSpec => []LoopInv
<1>1. LoopInv /\ [LoopNext]_loopVars => LoopInv'
  BY LoopTypesStep, FsIrqStep, LoopEndStep DEF LoopInv
<1> QED
  BY InitLoop, <1>1, PTL DEF LoopSpec

(***************************************************************************)
(* The run loop, the IRQ thread and virtiofsd keep their types.            *)
(***************************************************************************)
THEOREM LoopTypesHold == LoopSpec => []LoopTypeOK
<1>1. LoopInv => LoopTypeOK
  BY DEF LoopInv, LoopTypes
<1> QED
  BY LoopInvariance, <1>1, PTL

(***************************************************************************)
(* No virtio-fs completion is ever stranded: check_virtio_irqs and the ACK *)
(* handler lose no interrupt, for any number of outstanding requests.      *)
(***************************************************************************)
THEOREM NoRequestStranded == LoopSpec => []NoStrandedRequest
<1>1. LoopInv => NoStrandedRequest
  BY DEF LoopInv, LoopTypes, FsIrqInv, LoopLive, FsComing, NoStrandedRequest
<1> QED
  BY LoopInvariance, <1>1, PTL

(***************************************************************************)
(* run() never ends a VM whose guest has not shut down, unless KVM_RUN     *)
(* failed: two signals that find the guest halted with interrupts off are  *)
(* proof enough, and the restored guest's repeated signal is swallowed.    *)
(***************************************************************************)
THEOREM VmmEndsWithGuest == LoopSpec => []EndsWithGuest
<1>1. LoopInv => EndsWithGuest
  BY DEF LoopInv, LoopEndInv
<1> QED
  BY LoopInvariance, <1>1, PTL

-----------------------------------------------------------------------------
(***************************************************************************)
(* The configuration of a VM (ShareConfig), for any number of VMs and any  *)
(* set of configuration files.                                             *)
(***************************************************************************)

HostSteps == {"none", "parse", "entry", "write", "conf", "lines", "load", "fork", "wait",
              "init", "tap", "restore", "run", "exit", "done", "error"}

\* Past the point where the process has opened .entrypoint, or has filled it.
Opened == {"write", "conf", "lines", "load", "fork", "wait", "init", "tap", "restore", "run"}
FilledIn == Opened \ {"write"}

\* The file of process p is as p wants it, if nobody has written it since, until
\* init has read it.  Clones with a network write it again after their "init".
FilledBy(p) ==
  /\ pc[p] \in FilledIn
  /\ p \in Vms => Unread(p)
  /\ ~(cmd = "clone" /\ cfg.net /\ (p = 0 \/ pc[p] = "init"))

ShareTypes ==
  /\ cmd \in {"restore", "clone"} /\ doc \in Docs
  /\ cfg \in {NoConfig, ParseConfig(doc)}
  /\ pc \in [Procs -> HostSteps] /\ forked \in 0..N
  /\ DOMAIN ep = Procs /\ over \subseteq Vms
  /\ gpc \in [Vms -> {"mount", "entry", "conf", "apply", "exec", "child", "off", "halt"}]
  /\ DOMAIN entry = Vms

\* A process past parse_config() has the configuration, a guest runs only in
\* its VM, and clones exist only once their parent has written the files;
\* without a network they do not write again.
Order ==
  /\ \A p \in Procs : pc[p] \in Opened \cup {"entry"} => cfg = ParseConfig(doc)
  /\ \A i \in Vms : gpc[i] # "off" => pc[i] = "run"
  /\ cmd = "restore" => pc[0] = "none"
  /\ cmd = "clone" => \A i \in Vms : pc[i] # "none" =>
        /\ i <= forked
        /\ pc[0] \in {"fork", "wait", "done", "error"}
        /\ pc[i] # "parse"
        /\ pc[i] \in {"entry", "write", "conf", "lines"} => cfg.net
  /\ \A p \in Procs : pc[p] = "write" => cfg.entry # "none"

\* What .entrypoint holds, in a directory where it could be opened.
EntryFile ==
  /\ \A d \in Procs : \/ ep[d] \in {"none", "old"}
                      \/ ep[d] \in {"empty", cfg.entry} /\ cfg.entry # "none" /\ cfg = ParseConfig(doc)
  /\ \A p \in Procs : pc[p] \in Opened /\ cfg.entry # "none" /\ Dir(p) \notin lost =>
        ep[Dir(p)] \in {"empty", cfg.entry}
  /\ \A p \in Procs : FilledBy(p) /\ cfg.entry # "none" /\ Written(p) =>
        ep[Dir(p)] = cfg.entry

\* What init has read from it.
EntryRead ==
  \A i \in Vms : gpc[i] \in {"conf", "apply", "exec", "child"} /\ Dir(i) \notin lost =>
    /\ cfg.entry = "none" => entry[i] \in {"none", "old"}
    /\ cfg.entry # "none" => entry[i] \in {"none", cfg.entry}
    /\ gpc[i] \in {"exec", "child"} => entry[i] # "none"
    /\ Written(i) /\ cfg.entry # "none" => entry[i] = cfg.entry

ShareInv == ShareTypes /\ Order /\ EntryFile /\ EntryRead

LEMMA ProcSets == 0 \in Procs /\ 0 \notin Vms /\ Vms \subseteq Procs /\ \A p \in Procs : p = 0 \/ p \in Vms
BY ShareAssumption DEF Procs, Vms

LEMMA InitShare == ShareInit => ShareInv
<1> SUFFICES ASSUME ShareInit PROVE ShareInv
  OBVIOUS
<1>0. forked \in 0..N
  BY ShareAssumption DEF ShareInit
<1>1. ShareTypes
  BY <1>0, Zenon DEF ShareInit, ShareTypes, HostSteps
<1>2. Order
  BY ProcSets, Zenon DEF ShareInit, Order, Opened
<1>3. EntryFile
  <2>1. \A p \in Procs : pc[p] \notin Opened
    BY Zenon DEF ShareInit, Opened
  <2>2. \A p \in Procs : ~FilledBy(p)
    BY <2>1, Zenon DEF FilledBy, FilledIn
  <2> QED
    BY <2>1, <2>2, Zenon DEF ShareInit, EntryFile
<1>4. EntryRead
  BY Zenon DEF ShareInit, EntryRead
<1> QED
  BY <1>1, <1>2, <1>3, <1>4 DEF ShareInv

LEMMA DirOf == ASSUME ShareInv, NEW p \in Procs PROVE Dir(p) \in Procs
BY ProcSets DEF Dir

\* Directories are lost, and files rewritten, for good.
LEMMA SameDir ==
    ASSUME cmd' = cmd, lost \subseteq lost', over \subseteq over'
    PROVE  \A p \in Procs : Dir(p)' = Dir(p) /\ (Written(p)' => Written(p))
BY Zenon DEF Dir, Written

\* A process that stays where it is, and whose guest does not go back.
LEMMA FilledKept ==
    ASSUME UNCHANGED <<cmd, cfg>>, NEW p \in Procs, pc'[p] = pc[p],
           p \in Vms /\ gpc'[p] \in {"mount", "entry", "conf"} => gpc[p] \in {"mount", "entry", "conf"},
           FilledBy(p)'
    PROVE  FilledBy(p)
BY Zenon DEF FilledBy, Unread

\* A step that leaves .entrypoint alone, and after which a process is past it
\* only if one of its directory was before.
LEMMA FileKept ==
    ASSUME ShareInv, UNCHANGED <<cmd, doc, cfg, ep>>, lost \subseteq lost', over \subseteq over',
           \A p \in Procs : pc'[p] \in Opened /\ cfg.entry # "none" /\ Dir(p) \notin lost' =>
               \E r \in Procs : /\ Dir(r) = Dir(p) /\ pc[r] \in Opened
                                /\ FilledBy(p)' /\ Written(p)' => FilledBy(r) /\ Written(r)
    PROVE  EntryFile'
<1>0. /\ \A p \in Procs : Dir(p)' = Dir(p)
      /\ \A p \in Procs : Written(p)' => Dir(p) \notin lost'
      /\ \A p \in Procs : FilledBy(p)' => pc'[p] \in Opened
      /\ \A p \in Procs : Dir(p) \notin lost' => Dir(p) \notin lost
  <2>1. \A p \in Procs : Written(p)' => Dir(p) \notin lost'
    BY Zenon DEF Written, Dir
  <2>2. \A p \in Procs : FilledBy(p)' => pc'[p] \in Opened
    BY Zenon DEF FilledBy, FilledIn
  <2> QED
    BY <2>1, <2>2, SameDir, Zenon
<1>1. \A d \in Procs : \/ ep'[d] \in {"none", "old"}
                       \/ ep'[d] \in {"empty", cfg'.entry} /\ cfg'.entry # "none" /\ cfg' = ParseConfig(doc')
  BY Zenon DEF ShareInv, EntryFile
<1>2. ASSUME NEW p \in Procs, pc'[p] \in Opened, cfg.entry # "none", Dir(p) \notin lost'
      PROVE  ep[Dir(p)] \in {"empty", cfg.entry}
  <2>1. PICK r \in Procs : Dir(r) = Dir(p) /\ pc[r] \in Opened
    BY <1>2
  <2> QED
    BY <2>1, <1>2, <1>0, Zenon DEF ShareInv, EntryFile
<1>3. ASSUME NEW p \in Procs, FilledBy(p)', cfg.entry # "none", Written(p)'
      PROVE  ep[Dir(p)] = cfg.entry
  <2>1. pc'[p] \in Opened /\ Dir(p) \notin lost'
    BY <1>3, <1>0
  <2>2. PICK r \in Procs : Dir(r) = Dir(p) /\ FilledBy(r) /\ Written(r)
    BY <2>1, <1>3
  <2> QED
    BY <2>2, <1>3, Zenon DEF ShareInv, EntryFile
<1> QED
  BY <1>0, <1>1, <1>2, <1>3, Zenon DEF EntryFile

Reading == {"conf", "apply", "exec", "child"}

\* A step that leaves what the guests have read alone.
LEMMA ReadKept ==
    ASSUME ShareInv, UNCHANGED <<cmd, cfg, entry>>, lost \subseteq lost', over \subseteq over',
           \A i \in Vms : gpc'[i] \in Reading => 
               /\ gpc[i] \in Reading
               /\ gpc'[i] \in {"exec", "child"} => gpc[i] \in {"exec", "child"} \/ entry[i] # "none"
    PROVE  EntryRead'
<1>0. \A p \in Procs : Dir(p)' = Dir(p) /\ (Written(p)' => Written(p))
  BY SameDir, Zenon
<1> QED
  BY <1>0, ProcSets, Zenon DEF ShareInv, EntryRead, Reading

LEMMA ParseShare == ASSUME ShareInv, NEW p \in Procs, Parse(p) PROVE ShareInv'
<1> USE ProcSets DEF ShareInv
<1>1. ShareTypes'
  BY DEF ShareTypes, HostSteps, Parse, Goto, dirVars
<1>2. Order'
  BY DEF ShareTypes, HostSteps, Order, Opened, Parse, Goto, dirVars
<1>0. pc' = [pc EXCEPT ![p] = pc'[p]] /\ pc'[p] \in {"entry", "error", "exit"}
  BY DEF Parse, Goto, ShareTypes
<1>3. EntryFile'
  <2>1. CASE cfg' = cfg
    <3>1. UNCHANGED <<cmd, doc, cfg, ep, lost, over, gpc>>
      BY <2>1, Zenon DEF Parse, dirVars
    <3>2. \A r \in Procs : pc'[r] \in Opened => pc'[r] = pc[r]
      BY <1>0 DEF ShareTypes, Opened
    <3>3. \A r \in Procs : pc'[r] = pc[r] => (FilledBy(r)' => FilledBy(r)) /\ (Written(r)' => Written(r))
      BY <3>1, FilledKept, SameDir, Zenon
    <3> QED
      BY <3>1, <3>2, <3>3, FileKept, Zenon
  <2>2. CASE cfg' # cfg
    <3>1. cfg # ParseConfig(doc) /\ doc' = doc /\ ep' = ep
      BY <2>2 DEF Parse, dirVars, ShareTypes
    <3>2. \A r \in Procs : pc'[r] \notin Opened
      BY <3>1, <1>0 DEF Order, Opened, ShareTypes
    <3>3. \A d \in Procs : ep'[d] \in {"none", "old"}
      BY <3>1 DEF EntryFile
    <3>4. \A r \in Procs : ~FilledBy(r)'
      BY <3>2, Zenon DEF FilledBy, FilledIn
    <3> QED
      BY <3>2, <3>3, <3>4, Zenon DEF EntryFile
  <2> QED
    BY <2>1, <2>2
<1>4. EntryRead'
  <2>1. CASE cfg' = cfg
    BY <2>1, ReadKept DEF Parse, dirVars
  <2>2. CASE cfg' # cfg
    <3>1. \A i \in Vms : gpc'[i] = "off"
      BY <2>2 DEF Parse, ShareTypes, Order, Opened
    <3> QED
      BY <3>1 DEF EntryRead
  <2> QED
    BY <2>1, <2>2
<1> QED
  BY <1>1, <1>2, <1>3, <1>4

LEMMA TruncEntryShare == ASSUME ShareInv, NEW p \in Procs, TruncEntry(p) PROVE ShareInv'
<1> USE ProcSets DEF ShareInv
<1>0. /\ UNCHANGED <<cmd, doc, cfg, forked, gpc, entry>> /\ lost \subseteq lost' /\ over \subseteq over'
      /\ over' \subseteq Vms
      /\ Dir(p) \in Procs /\ pc[p] = "entry" /\ cfg = ParseConfig(doc) /\ DOMAIN ep = Procs
  BY DirOf, Zenon DEF TruncEntry, Overwrite, Order, ShareTypes
<1>5. \/ pc' = [pc EXCEPT ![p] = "conf"] /\ ep' = ep /\ (cfg.entry = "none" \/ Dir(p) \in lost')
      \/ pc' = [pc EXCEPT ![p] = "write"] /\ ep' = [ep EXCEPT ![Dir(p)] = "empty"] /\ cfg.entry # "none"
         /\ Overwrite(p)
  BY Zenon DEF TruncEntry, Goto
<1>6. \A r \in Procs : pc'[r] = pc[r] => (FilledBy(r)' => FilledBy(r)) /\ (Written(r)' => Written(r))
  BY <1>0, FilledKept, SameDir, Zenon
<1>1. ShareTypes'
  BY <1>0, <1>5 DEF ShareTypes, HostSteps
<1>2. Order'
  <2>1. /\ pc'[p] \in {"conf", "write"} /\ (pc'[p] = "write" => cfg.entry # "none")
        /\ \A r \in Procs : r # p => pc'[r] = pc[r]
    BY <1>5 DEF ShareTypes
  <2>2. /\ p \in Vms => gpc[p] = "off"
        /\ cmd = "restore" => p # 0
        /\ cmd = "clone" /\ p \in Vms => p <= forked /\ cfg.net
                                         /\ pc[0] \in {"fork", "wait", "done", "error"}
        /\ cmd = "clone" /\ p = 0 => \A i \in Vms : pc[i] = "none"
    BY <1>0 DEF Order
  <2> QED
    BY <1>0, <2>1, <2>2 DEF Order
<1>3. EntryFile'
  <2>1. CASE ep' = ep /\ pc' = [pc EXCEPT ![p] = "conf"] /\ (cfg.entry = "none" \/ Dir(p) \in lost')
    <3>1. \A r \in Procs : r # p => pc'[r] = pc[r]
      BY <2>1 DEF ShareTypes
    <3>2. ASSUME NEW r \in Procs, pc'[r] \in Opened, cfg.entry # "none", Dir(r) \notin lost'
          PROVE  /\ pc[r] \in Opened
                 /\ FilledBy(r)' /\ Written(r)' => FilledBy(r) /\ Written(r)
      <4>1. r # p
        BY <3>2, <2>1
      <4> QED
        BY <4>1, <3>1, <3>2, <1>6
    <3> QED
      BY <2>1, <1>0, <3>2, FileKept, Zenon
  <2>2. CASE /\ pc' = [pc EXCEPT ![p] = "write"] /\ ep' = [ep EXCEPT ![Dir(p)] = "empty"]
             /\ cfg.entry # "none" /\ Overwrite(p)
    <3>1. \A r \in Procs : Dir(r)' = Dir(r) /\ (Written(r)' => Written(r)) /\ Dir(r) \in Procs
      BY <1>0, SameDir, DirOf
    <3>2. \A d \in Procs : \/ ep'[d] \in {"none", "old"}
                           \/ ep'[d] \in {"empty", cfg.entry} /\ cfg.entry # "none" /\ cfg = ParseConfig(doc)
      BY <2>2, <1>0 DEF EntryFile
    <3>3. \A r \in Procs : pc'[r] \in Opened /\ Dir(r) \notin lost' => ep'[Dir(r)] \in {"empty", cfg.entry}
      BY <2>2, <1>0, <3>1 DEF EntryFile, ShareTypes
    <3>4. \A r \in Procs : FilledBy(r)' /\ Written(r)' => ep'[Dir(r)] = cfg.entry
      <4> SUFFICES ASSUME NEW r \in Procs, FilledBy(r)', Written(r)' PROVE ep'[Dir(r)] = cfg.entry
        BY Zenon
      <4>1. r # p /\ pc'[r] = pc[r]
        BY <2>2 DEF FilledBy, FilledIn, ShareTypes
      <4>2. FilledBy(r) /\ Written(r)
        BY <4>1, <1>6
      <4>3. Dir(r) # Dir(p)
        <5> SUFFICES ASSUME Dir(r) = Dir(p) PROVE FALSE
          OBVIOUS
        <5>1. cmd = "clone"
          BY <4>1 DEF Dir, ShareTypes
        <5>2. pc[r] \in FilledIn /\ r \notin over' /\ (r \in Vms => Unread(r))
          BY <4>2, Zenon DEF FilledBy, Written
        <5>3. p # 0
          BY <5>1, <5>2, <4>1, <1>0 DEF Order, FilledIn, Opened
        <5>4. cfg.net
          BY <5>1, <5>3, <1>0 DEF Order
        <5>5. r # 0 /\ pc[r] # "init"
          BY <5>1, <5>4, <4>2, Zenon DEF FilledBy
        <5>6. r \in Vms \ {p} /\ pc[r] \notin {"none", "parse", "init", "entry"}
          BY <4>1, <5>2, <5>5 DEF FilledIn, Opened
        <5> QED
          BY <2>2, <5>2, <5>6, Zenon DEF Overwrite
      <4> QED
        BY <4>2, <4>3, <2>2, <1>0, <3>1, Zenon DEF EntryFile
    <3>5. cfg' = cfg /\ doc' = doc
      BY <1>0
    <3> QED
      BY <3>1, <3>2, <3>3, <3>4, <3>5, Zenon DEF EntryFile
  <2> QED
    BY <1>5, <2>1, <2>2
<1>4. EntryRead'
  BY <1>0, ReadKept, Zenon
<1> QED
  BY <1>1, <1>2, <1>3, <1>4

LEMMA WriteEntryShare == ASSUME ShareInv, NEW p \in Procs, WriteEntry(p) PROVE ShareInv'
<1> USE ProcSets DEF ShareInv
<1>0. /\ UNCHANGED <<cmd, doc, cfg, forked, gpc, entry, lost>> /\ Dir(p) \in Procs
      /\ pc[p] = "write" /\ pc' = [pc EXCEPT ![p] = "conf"] /\ ep' = [ep EXCEPT ![Dir(p)] = cfg.entry]
      /\ cfg = ParseConfig(doc) /\ over \subseteq over' /\ over' \subseteq Vms
  <2>1. over \subseteq over' /\ over' \subseteq Vms
    BY Zenon DEF WriteEntry, Overwrite, ShareTypes
  <2> QED
    BY <2>1, DirOf DEF WriteEntry, Goto, Order, Opened
<1>1. ShareTypes'
  BY <1>0 DEF ShareTypes, HostSteps
<1>2. Order'
  BY <1>0 DEF ShareTypes, Order, Opened
<1>3. EntryFile'
  <2>1. \A r \in Procs : Dir(r)' = Dir(r) /\ (Written(r)' => Written(r)) /\ Dir(r) \in Procs
    BY <1>0, SameDir, DirOf
  <2>2. cfg.entry # "none"
    BY <1>0 DEF Order
  <2>3. \A d \in Procs : \/ ep'[d] \in {"none", "old"}
                         \/ ep'[d] \in {"empty", cfg.entry} /\ cfg.entry # "none" /\ cfg = ParseConfig(doc)
    BY <1>0, <2>2 DEF EntryFile, ShareTypes
  <2>4. \A r \in Procs : pc'[r] \in Opened /\ Dir(r) \notin lost' => ep'[Dir(r)] \in {"empty", cfg.entry}
    BY <1>0, <2>1, <2>2 DEF EntryFile, ShareTypes
  <2>5. \A r \in Procs : FilledBy(r)' /\ Written(r)' => ep'[Dir(r)] = cfg.entry
    <3> SUFFICES ASSUME NEW r \in Procs, FilledBy(r)', Written(r)', Dir(r) # Dir(p)
                 PROVE  ep[Dir(r)] = cfg.entry
      BY <1>0, <2>1 DEF ShareTypes
    <3>1. pc'[r] = pc[r]
      BY <1>0 DEF ShareTypes
    <3>2. FilledBy(r) /\ Written(r)
      BY <1>0, <2>1, <3>1, FilledKept, Zenon
    <3> QED
      BY <3>2, <2>2, Zenon DEF EntryFile
  <2> QED
    <3>1. UNCHANGED <<cfg, doc, lost>>
      BY <1>0
    <3> QED
      BY <2>1, <2>3, <2>4, <2>5, <3>1, Zenon DEF EntryFile
<1>4. EntryRead'
  BY <1>0, ReadKept
<1> QED
  BY <1>1, <1>2, <1>3, <1>4

-----------------------------------------------------------------------------
\* The moves of a process that wrote its files: from pc "from" to "to".
Move(from, to) ==
  \/ from = "conf" /\ to = "lines"
  \/ from \in {"conf", "lines"} /\ to \in {"init", "load", "tap"}
  \/ from = "load" /\ to \in {"fork", "error"}
  \/ from = "wait" /\ to = "done"
  \/ from = "init" /\ to = "tap" /\ ~(cmd = "clone" /\ cfg.net)
  \/ from = "init" /\ to = "entry" /\ cmd = "clone" /\ cfg.net
  \/ from = "tap" /\ to = "restore"
  \/ from \in {"init", "tap", "restore", "run"} /\ to = "exit"

\* Such a move starts with both files written and opens neither of them.
LEMMA MoveFacts ==
    ASSUME NEW from, NEW to, Move(from, to)
    PROVE  /\ from \in FilledIn /\ from \in Opened /\ from # "none" /\ to \in HostSteps
           /\ to # "none" /\ to # "parse" /\ to # "write" /\ to # "conf"
           /\ to = "entry" => cfg.net
           /\ from = "init" /\ to \in FilledIn => ~(cmd = "clone" /\ cfg.net)
           /\ from = "run" => to = "exit"
           /\ to = "lines" => from \in {"entry", "write", "conf", "lines"}
           /\ from \in {"fork", "wait", "done", "error"} => to \in {"fork", "wait", "done", "error"}
BY DEF Move, FilledIn, Opened, HostSteps

\* Process p goes on to step "to" and leaves .entrypoint and the guests alone.
HostGoes(p, to) ==
  /\ UNCHANGED <<cmd, doc, cfg, forked, ep, gpc, entry>> /\ lost \subseteq lost'
  /\ over \subseteq over' /\ over' \subseteq Vms
  /\ pc' = [pc EXCEPT ![p] = to]

\* The steps of the host that do not touch .entrypoint keep the invariant.
LEMMA HostMoves ==
    ASSUME ShareInv, NEW p \in Procs, NEW to, HostGoes(p, to), Move(pc[p], to),
           p \in Vms => gpc[p] = "off"
    PROVE  ShareInv'
<1>0. /\ pc[p] \in FilledIn /\ pc[p] \in Opened /\ pc[p] # "none" /\ to \in HostSteps
      /\ to # "none" /\ to # "parse" /\ to # "write" /\ to # "conf"
      /\ to = "entry" => cfg.net
      /\ pc[p] = "init" /\ to \in FilledIn => ~(cmd = "clone" /\ cfg.net)
      /\ pc[p] = "run" => to = "exit"
      /\ to = "lines" => pc[p] \in {"entry", "write", "conf", "lines"}
      /\ pc[p] \in {"fork", "wait", "done", "error"} => to \in {"fork", "wait", "done", "error"}
  BY MoveFacts, Zenon
<1>1. ShareTypes'
  BY <1>0 DEF ShareInv, ShareTypes, HostGoes
<1>2. pc'[p] = to /\ \A r \in Procs : r # p => pc'[r] = pc[r]
  BY DEF HostGoes, ShareInv, ShareTypes
<1>3. Order'
  <2>1. \A r \in Procs : pc'[r] \in Opened \cup {"entry"} => cfg = ParseConfig(doc)
    BY <1>0, <1>2, Zenon DEF ShareInv, Order
  <2>2. \A i \in Vms : gpc[i] # "off" => pc'[i] = "run"
    BY <1>2, ProcSets, Zenon DEF ShareInv, Order
  <2>3. cmd = "restore" => pc'[0] = "none"
    BY <1>0, <1>2, ProcSets, Zenon DEF ShareInv, Order
  <2>4. ASSUME cmd = "clone", NEW i \in Vms, pc'[i] # "none"
        PROVE  /\ i <= forked
               /\ pc'[0] \in {"fork", "wait", "done", "error"}
               /\ pc'[i] # "parse"
               /\ pc'[i] \in {"entry", "write", "conf", "lines"} => cfg.net
    <3>1. i \in Procs /\ pc[i] # "none"
      BY <1>0, <1>2, <2>4, ProcSets, Zenon
    <3>2. /\ i <= forked /\ pc[0] \in {"fork", "wait", "done", "error"} /\ pc[i] # "parse"
          /\ pc[i] \in {"entry", "write", "conf", "lines"} => cfg.net
      BY <2>4, <3>1, Zenon DEF ShareInv, Order
    <3>3. pc'[0] \in {"fork", "wait", "done", "error"}
      BY <1>0, <1>2, <3>2, ProcSets, Zenon
    <3>4. pc'[i] # "parse" /\ (pc'[i] \in {"entry", "write", "conf", "lines"} => cfg.net)
      BY <1>0, <1>2, <3>1, <3>2
    <3> QED
      BY <3>2, <3>3, <3>4
  <2>5. \A r \in Procs : pc'[r] = "write" => cfg.entry # "none"
    BY <1>0, <1>2, Zenon DEF ShareInv, Order
  <2> QED
    BY <2>1, <2>2, <2>3, <2>4, <2>5, Zenon DEF Order, HostGoes
<1>4. EntryFile'
  <2>1. UNCHANGED <<cmd, doc, cfg, ep, gpc>> /\ lost \subseteq lost' /\ over \subseteq over'
    BY Zenon DEF HostGoes
  <2>2. ASSUME FilledBy(p)' PROVE FilledBy(p)
    <3>1. to \in FilledIn /\ to # "exit" /\ ~(cmd = "clone" /\ cfg.net /\ p = 0)
      BY <2>2, <2>1, <1>2 DEF FilledBy, FilledIn, Opened
    <3>2. pc[p] # "run" /\ ~(cmd = "clone" /\ cfg.net /\ pc[p] = "init")
      BY <3>1, <1>0, Zenon
    <3> QED
      BY <3>1, <3>2, <1>0, Zenon DEF FilledBy, Unread
  <2>3. \A r \in Procs : (FilledBy(r)' => FilledBy(r)) /\ (Written(r)' => Written(r))
    BY <2>1, <2>2, <1>2, FilledKept, SameDir, Zenon
  <2> QED
    BY <2>1, <2>3, <1>0, <1>2, FileKept, Zenon
<1>5. EntryRead'
  BY ReadKept, Zenon DEF HostGoes
<1> QED
  BY <1>1, <1>3, <1>4, <1>5 DEF ShareInv

\* The moves of a guest after which .entrypoint is not read again.
GuestMove(i, to) ==
  \/ gpc[i] = "mount" /\ to \in {"entry", "halt"}
  \/ gpc[i] = "conf" /\ to = "apply"
  \/ gpc[i] = "apply" /\ to = "halt"
  \/ gpc[i] = "apply" /\ to = "exec" /\ entry[i] # "none"
  \/ gpc[i] = "exec" /\ to \in {"child", "halt"}
  \/ gpc[i] = "child" /\ to = "off"

\* Guest i goes on to step "to"; the host and what was read stay.
GuestGoes(i, to) ==
  /\ UNCHANGED <<cmd, doc, cfg, pc, forked, ep, lost, over, entry>>
  /\ gpc' = [gpc EXCEPT ![i] = to]

\* The steps of a guest other than reading .entrypoint keep the invariant.
LEMMA GuestMoves ==
    ASSUME ShareInv, NEW i \in Vms, NEW to, GuestGoes(i, to), GuestMove(i, to)
    PROVE  ShareInv'
<1>0. /\ to \in {"mount", "entry", "conf", "apply", "exec", "child", "off", "halt"}
      /\ gpc[i] # "off"
      /\ to \in Reading => /\ gpc[i] \in Reading
                           /\ to \in {"exec", "child"} => gpc[i] \in {"exec", "child"} \/ entry[i] # "none"
      /\ to \in {"mount", "entry", "conf"} => gpc[i] \in {"mount", "entry", "conf"}
  BY DEF GuestMove, Reading
<1>1. ShareTypes'
  BY <1>0 DEF ShareInv, ShareTypes, GuestGoes
<1>2. gpc'[i] = to /\ \A j \in Vms : j # i => gpc'[j] = gpc[j]
  BY DEF GuestGoes, ShareInv, ShareTypes
<1>3. \A j \in Vms : gpc'[j] # "off" => pc[j] = "run"
  BY <1>0, <1>2, Zenon DEF ShareInv, Order
<1>4. Order'
  BY <1>3, Zenon DEF ShareInv, Order, GuestGoes
<1>5. EntryFile'
  <2>1. UNCHANGED <<cmd, doc, cfg, pc, ep, lost, over>>
    BY Zenon DEF GuestGoes
  <2>2. \A r \in Procs : (FilledBy(r)' => FilledBy(r)) /\ (Written(r)' => Written(r))
    BY <2>1, <1>0, <1>2, FilledKept, SameDir, Zenon
  <2> QED
    BY <2>1, <2>2, FileKept, Zenon
<1>6. EntryRead'
  BY <1>0, <1>2, ReadKept, Zenon DEF GuestGoes
<1> QED
  BY <1>1, <1>4, <1>5, <1>6 DEF ShareInv

\* The invariant speaks of these variables only.
LEMMA SharePreserved ==
    ASSUME ShareInv, UNCHANGED <<cmd, doc, cfg, pc, forked, ep, lost, over, gpc, entry>>
    PROVE  ShareInv'
<1>1. ShareTypes'
  BY Zenon DEF ShareInv, ShareTypes
<1>2. Order'
  BY Zenon DEF ShareInv, Order
<1>3. EntryFile'
  <2>1. \A r \in Procs : (FilledBy(r)' => FilledBy(r)) /\ (Written(r)' => Written(r))
    BY FilledKept, SameDir, Zenon
  <2> QED
    BY <2>1, FileKept, Zenon
<1>4. EntryRead'
  BY ReadKept, Zenon
<1> QED
  BY <1>1, <1>2, <1>3, <1>4 DEF ShareInv

\* The guest of a process that has not reached KVM_RUN is off.
LEMMA NotRunning ==
    ASSUME ShareInv, NEW p \in Procs, pc[p] # "run" PROVE p \in Vms => gpc[p] = "off"
BY Zenon DEF ShareInv, Order

LEMMA TruncConfShare == ASSUME ShareInv, NEW p \in Procs, TruncConf(p) PROVE ShareInv'
<1>1. pc[p] = "conf" /\ \E to \in {"lines", "init", "load", "tap"} : HostGoes(p, to)
  <2>1. over \subseteq over' /\ over' \subseteq Vms
    BY Zenon DEF TruncConf, Overwrite, ShareInv, ShareTypes
  <2> QED
    BY <2>1, Zenon DEF TruncConf, Goto, AfterConfig, HostGoes
<1> QED
  BY <1>1, HostMoves, NotRunning DEF Move

LEMMA WriteConfShare == ASSUME ShareInv, NEW p \in Procs, WriteConf(p) PROVE ShareInv'
<1>1. pc[p] = "lines" /\ \E to \in {"init", "load", "tap"} : HostGoes(p, to)
  <2>1. over \subseteq over' /\ over' \subseteq Vms
    BY Zenon DEF WriteConf, Overwrite, ShareInv, ShareTypes
  <2> QED
    BY <2>1, Zenon DEF WriteConf, Goto, AfterConfig, HostGoes
<1> QED
  BY <1>1, HostMoves, NotRunning DEF Move

LEMMA LoadGoldenShare == ASSUME ShareInv, LoadGolden PROVE ShareInv'
<1>1. pc[0] = "load" /\ \E to \in {"fork", "error"} : HostGoes(0, to)
  BY Zenon DEF LoadGolden, Goto, dirVars, HostGoes, ShareInv, ShareTypes
<1> QED
  BY <1>1, HostMoves, ProcSets DEF Move

LEMMA ForkShare == ASSUME ShareInv, Fork PROVE ShareInv'
<1> USE ProcSets DEF ShareInv
<1>0. /\ UNCHANGED <<cmd, doc, cfg, lost, over, ep, gpc, entry>> /\ pc[0] = "fork"
      /\ \/ /\ forked' = forked + 1 /\ forked' \in 0..N /\ forked' \in Vms
            /\ pc' = [pc EXCEPT ![forked'] = "init"]
         \/ forked' = forked /\ pc' = [pc EXCEPT ![0] = "error"]
         \/ forked' = forked /\ pc' = [pc EXCEPT ![0] = "wait"]
  <2>1. forked < N => forked + 1 \in 0..N /\ forked + 1 \in Vms
    BY ShareAssumption DEF ShareTypes, Vms
  <2> QED
    BY <2>1 DEF Fork, Goto, dirVars
<1>1. ShareTypes'
  BY <1>0 DEF ShareTypes, HostSteps
<1>2. Order'
  <2>1. cmd = "clone"
    BY <1>0, Zenon DEF ShareTypes, Order
  <2>2. CASE forked' = forked + 1 /\ forked' \in Vms /\ pc' = [pc EXCEPT ![forked'] = "init"]
    <3>1. pc[forked'] = "none" /\ gpc[forked'] = "off"
      BY <2>1, <2>2 DEF ShareTypes, Order, Vms
    <3>2. \A i \in Vms : i <= forked => i <= forked'
      BY <2>2 DEF ShareTypes, Vms
    <3>3. forked' <= forked'
      BY <2>2 DEF Vms
    <3> QED
      BY <1>0, <2>1, <2>2, <3>1, <3>2, <3>3 DEF ShareTypes, Order, Opened
  <2>3. CASE forked' = forked /\ (pc' = [pc EXCEPT ![0] = "error"] \/ pc' = [pc EXCEPT ![0] = "wait"])
    <3>1. pc'[0] \in {"error", "wait"} /\ \A i \in Vms : pc'[i] = pc[i]
      BY <2>3 DEF ShareTypes
    <3>2. cfg = ParseConfig(doc)
      BY <1>0 DEF Order, Opened
    <3> QED
      BY <1>0, <2>1, <2>3, <3>1, <3>2 DEF Order
  <2> QED
    BY <1>0, <2>2, <2>3
<1>3. EntryFile'
  <2>1. \A r \in Procs : pc'[r] = pc[r] => (FilledBy(r)' => FilledBy(r)) /\ (Written(r)' => Written(r))
    BY <1>0, FilledKept, SameDir, Zenon
  <2>2. cmd = "clone" /\ Dir(0) = 0 /\ \A r \in Procs : Dir(r) = 0
    BY <1>0 DEF ShareTypes, Order, Dir
  <2>3. ASSUME NEW r \in Procs, pc'[r] \in Opened, FilledBy(r)', Written(r)', pc'[r] # pc[r]
        PROVE  FilledBy(0) /\ Written(0)
    <3>1. pc'[r] \in {"init", "wait"} /\ (pc'[r] = "wait" => r = 0)
      BY <2>3, <1>0 DEF ShareTypes, Opened
    <3>2. ~(cmd = "clone" /\ cfg.net)
      BY <2>3, <3>1, <1>0, Zenon DEF FilledBy
    <3>3. 0 \notin over /\ 0 \notin lost
      BY <2>2, <2>3, <1>0, Zenon DEF ShareTypes, Written, Dir
    <3> QED
      BY <1>0, <2>2, <3>2, <3>3 DEF FilledBy, Written, FilledIn, Opened
  <2>4. pc[0] \in Opened
    BY <1>0 DEF Opened
  <2> QED
    BY <1>0, <2>1, <2>2, <2>3, <2>4, FileKept
<1>4. EntryRead'
  BY ReadKept DEF Fork, Goto, dirVars, ShareTypes, Reading
<1> QED
  BY <1>1, <1>2, <1>3, <1>4

LEMMA WaitShare == ASSUME ShareInv, Wait PROVE ShareInv'
<1>1. CASE Goto(0, "done")
  <2>1. pc[0] = "wait" /\ HostGoes(0, "done")
    BY <1>1, Zenon DEF Wait, Goto, dirVars, HostGoes, ShareInv, ShareTypes
  <2> QED
    BY <2>1, HostMoves, ProcSets DEF Move
<1>2. CASE UNCHANGED pc
  <2>1. UNCHANGED <<cmd, doc, cfg, pc, forked, ep, lost, over, gpc, entry>>
    BY <1>2, Zenon DEF Wait, dirVars
  <2> QED
    BY <2>1, SharePreserved
<1> QED
  BY <1>1, <1>2, Zenon DEF Wait

LEMMA InitVmShare == ASSUME ShareInv, NEW i \in Vms, InitVm(i) PROVE ShareInv'
<1>1. /\ pc[i] = "init"
      /\ \E to : /\ HostGoes(i, to)
                 /\ \/ to = "tap" /\ ~(cmd = "clone" /\ cfg.net)
                    \/ to = "exit"
                    \/ to = "entry" /\ cmd = "clone" /\ cfg.net
  BY DEF InitVm, Goto, dirVars, HostGoes, ShareInv, ShareTypes
<1> QED
  BY <1>1, HostMoves, NotRunning, ProcSets DEF Move

LEMMA ConnectTapShare == ASSUME ShareInv, NEW i \in Vms, ConnectTap(i) PROVE ShareInv'
<1>1. pc[i] = "tap" /\ \E to \in {"restore", "exit"} : HostGoes(i, to)
  BY Zenon DEF ConnectTap, Goto, dirVars, HostGoes, ShareInv, ShareTypes
<1> QED
  BY <1>1, HostMoves, NotRunning, ProcSets DEF Move

LEMMA RestoreVmShare == ASSUME ShareInv, NEW i \in Vms, RestoreVm(i) PROVE ShareInv'
<1>1. CASE Goto(i, "exit") /\ UNCHANGED gpc
  <2>1. pc[i] = "restore" /\ HostGoes(i, "exit")
    BY <1>1, Zenon DEF RestoreVm, Goto, dirVars, HostGoes, ShareInv, ShareTypes
  <2> QED
    BY <2>1, HostMoves, NotRunning, ProcSets DEF Move
<1>2. CASE Goto(i, "run") /\ gpc' = [gpc EXCEPT ![i] = "mount"]
  <2>0. UNCHANGED <<cmd, doc, cfg, forked, ep, lost, over, entry>> /\ pc[i] = "restore" /\ i \in Procs
    BY ProcSets, Zenon DEF RestoreVm, dirVars
  <2>1. ShareTypes'
    BY <1>2, <2>0, Zenon DEF ShareInv, ShareTypes, HostSteps, Goto
  <2>2. /\ pc'[i] = "run" /\ \A r \in Procs : r # i => pc'[r] = pc[r]
        /\ gpc'[i] = "mount" /\ \A j \in Vms : j # i => gpc'[j] = gpc[j]
    BY <1>2, <2>0 DEF ShareInv, ShareTypes, Goto
  <2>3. Order'
    BY <2>0, <2>2, ProcSets DEF ShareInv, Order, Opened
  <2>4. "restore" \in Opened /\ "restore" \in FilledIn
    BY DEF Opened, FilledIn
  <2>5. EntryFile'
    <3>1. FilledBy(i)' => FilledBy(i)
      BY <2>0, <2>4, Zenon DEF FilledBy, Unread
    <3>2. \A r \in Procs : (FilledBy(r)' => FilledBy(r)) /\ (Written(r)' => Written(r))
      BY <2>0, <2>2, <3>1, FilledKept, SameDir, Zenon
    <3> QED
      BY <2>0, <2>2, <2>4, <3>2, FileKept, Zenon
  <2>6. EntryRead'
    BY <2>0, <2>2, ReadKept, Zenon DEF Reading
  <2> QED
    BY <2>1, <2>3, <2>5, <2>6 DEF ShareInv
<1> QED
  BY <1>1, <1>2, Zenon DEF RestoreVm

LEMMA EndVmShare == ASSUME ShareInv, NEW i \in Vms, EndVm(i) PROVE ShareInv'
<1>1. pc[i] = "run" /\ gpc[i] = "off" /\ HostGoes(i, "exit")
  BY Zenon DEF EndVm, Goto, dirVars, HostGoes, ShareInv, ShareTypes
<1> QED
  BY <1>1, HostMoves, ProcSets DEF Move

LEMMA MountShareShare == ASSUME ShareInv, NEW i \in Vms, MountShare(i) PROVE ShareInv'
<1>1. gpc[i] = "mount" /\ \E to \in {"entry", "halt"} : GuestGoes(i, to)
  BY Zenon DEF MountShare, GoGuest, hostVars, dirVars, GuestGoes
<1> QED
  BY <1>1, GuestMoves DEF GuestMove

LEMMA ReadEntryShare == ASSUME ShareInv, NEW i \in Vms, ReadEntry(i) PROVE ShareInv'
<1> USE ProcSets DEF ShareInv
<1>1. ShareTypes'
  BY DEF ShareTypes, ReadEntry, GoGuest, hostVars, dirVars
<1>2. Order'
  BY DEF ShareTypes, Order, ReadEntry, GoGuest, hostVars, dirVars
<1>3. EntryFile'
  <2>1. UNCHANGED <<cmd, doc, cfg, lost, over, ep, pc>>
    BY Zenon DEF ReadEntry, hostVars, dirVars
  <2>2. \A r \in Vms : gpc'[r] \in {"mount", "entry", "conf"} => gpc[r] \in {"mount", "entry", "conf"}
    BY DEF ReadEntry, GoGuest, ShareTypes
  <2>3. \A r \in Procs : (FilledBy(r)' => FilledBy(r)) /\ (Written(r)' => Written(r))
    BY <2>1, <2>2, FilledKept, SameDir, Zenon
  <2> QED
    BY <2>1, <2>3, FileKept, Zenon
<1>4. EntryRead'
  <2>0. /\ UNCHANGED <<cmd, doc, cfg, lost, over, ep, pc>> /\ gpc[i] = "entry" /\ pc[i] = "run"
        /\ gpc' = [gpc EXCEPT ![i] = "conf"] /\ cfg = ParseConfig(doc)
        /\ entry' = [entry EXCEPT ![i] = IF ep[Dir(i)] = "empty" THEN "none" ELSE ep[Dir(i)]]
    BY DEF ReadEntry, GoGuest, hostVars, dirVars, Order, Opened
  <2>1. \A r \in Procs : Dir(r)' = Dir(r) /\ (Written(r)' => Written(r)) /\ Dir(r) \in Procs
    BY <2>0, SameDir, DirOf
  <2>2. ASSUME Dir(i) \notin lost
        PROVE  /\ cfg.entry = "none" => entry'[i] \in {"none", "old"}
               /\ cfg.entry # "none" => entry'[i] \in {"none", cfg.entry}
    BY <2>0, <2>1, <2>2 DEF EntryFile, ShareTypes, Opened
  <2>3. Written(i) /\ cfg.entry # "none" => entry'[i] = cfg.entry
    <3>1. cfg.entry # "empty"
      BY <2>0, EntryAssumption DEF ShareTypes
    <3>2. FilledBy(i)
      BY <2>0 DEF FilledBy, FilledIn, Opened, Unread
    <3>3. Written(i) /\ cfg.entry # "none" => ep[Dir(i)] = cfg.entry
      BY <3>2, Zenon DEF EntryFile
    <3> QED
      BY <3>1, <3>3, <2>0 DEF ShareTypes
  <2>4. \A j \in Vms : j # i => entry'[j] = entry[j] /\ gpc'[j] = gpc[j]
    BY <2>0 DEF ShareTypes
  <2> QED
    <3> SUFFICES ASSUME NEW j \in Vms, gpc'[j] \in Reading, Dir(j) \notin lost
                 PROVE  /\ cfg.entry = "none" => entry'[j] \in {"none", "old"}
                        /\ cfg.entry # "none" => entry'[j] \in {"none", cfg.entry}
                        /\ gpc'[j] \in {"exec", "child"} => entry'[j] # "none"
                        /\ Written(j) /\ cfg.entry # "none" => entry'[j] = cfg.entry
      BY <2>0, <2>1, Zenon DEF EntryRead, Reading
    <3>1. CASE j = i
      <4>1. gpc'[i] = "conf"
        BY <2>0 DEF ShareTypes
      <4> QED
        BY <2>2, <2>3, <3>1, <4>1
    <3>2. CASE j # i
      BY <2>4, <3>2, Zenon DEF EntryRead, Reading
    <3> QED
      BY <3>1, <3>2
<1> QED
  BY <1>1, <1>2, <1>3, <1>4

LEMMA ReadConfShare == ASSUME ShareInv, NEW i \in Vms, ReadConf(i) PROVE ShareInv'
<1>1. gpc[i] = "conf" /\ GuestGoes(i, "apply")
  BY Zenon DEF ReadConf, GoGuest, hostVars, dirVars, GuestGoes
<1> QED
  BY <1>1, GuestMoves, Zenon DEF GuestMove

LEMMA ApplyShare == ASSUME ShareInv, NEW i \in Vms, Apply(i) PROVE ShareInv'
<1>1. /\ gpc[i] = "apply"
      /\ \E to : GuestGoes(i, to) /\ (to = "halt" \/ (to = "exec" /\ entry[i] # "none"))
  BY Zenon DEF Apply, GoGuest, hostVars, dirVars, GuestGoes
<1> QED
  BY <1>1, GuestMoves, Zenon DEF GuestMove

LEMMA ExecShare == ASSUME ShareInv, NEW i \in Vms, Exec(i) PROVE ShareInv'
<1>1. gpc[i] = "exec" /\ \E to \in {"child", "halt"} : GuestGoes(i, to)
  BY Zenon DEF Exec, GoGuest, hostVars, dirVars, GuestGoes
<1> QED
  BY <1>1, GuestMoves DEF GuestMove

LEMMA PowerOffShare == ASSUME ShareInv, NEW i \in Vms, PowerOff(i) PROVE ShareInv'
<1>1. gpc[i] = "child" /\ GuestGoes(i, "off")
  BY Zenon DEF PowerOff, GoGuest, hostVars, dirVars, GuestGoes
<1> QED
  BY <1>1, GuestMoves DEF GuestMove

LEMMA ShareStep == ShareInv /\ [ShareNext]_shareVars => ShareInv'
<1> SUFFICES ASSUME ShareInv, [ShareNext]_shareVars PROVE ShareInv'
  OBVIOUS
<1>1. CASE UNCHANGED shareVars
  BY <1>1, SharePreserved, Zenon DEF shareVars, hostVars, dirVars
<1>2. CASE Parent
  BY <1>2, LoadGoldenShare, ForkShare, WaitShare DEF Parent
<1>3. ASSUME NEW p \in Procs, Host(p) PROVE ShareInv'
  BY <1>3, ParseShare, TruncEntryShare, WriteEntryShare, TruncConfShare, WriteConfShare DEF Host
<1>4. ASSUME NEW i \in Vms, Vm(i) PROVE ShareInv'
  BY <1>3, <1>4, ProcSets, InitVmShare, ConnectTapShare, RestoreVmShare, EndVmShare DEF Vm
<1>5. ASSUME NEW i \in Vms, GuestInit(i) PROVE ShareInv'
  BY <1>5, MountShareShare, ReadEntryShare, ReadConfShare, ApplyShare, ExecShare, PowerOffShare
     DEF GuestInit
<1> QED
  BY <1>1, <1>2, <1>3, <1>4, <1>5, ProcSets DEF ShareNext

LEMMA ShareInvariant == ShareSpec => []ShareInv
BY InitShare, ShareStep, PTL DEF ShareSpec

\* No guest executes anything but the entrypoint of its configuration, however
\* the clones of one command truncate and rewrite .entrypoint meanwhile.
THEOREM EntrypointsConfigured == ShareSpec => []EntrypointIsConfigured
<1>1. ShareInv => EntrypointIsConfigured
  BY Zenon DEF ShareInv, EntryRead, EntrypointIsConfigured
<1> QED
  BY <1>1, ShareInvariant, PTL

\* A guest whose files nobody wrote after its own VM began to never takes a
\* half-written .entrypoint for none.
THEOREM HaltsAsConfigured == ShareSpec => []HaltsOnlyWithoutEntrypoint
<1>1. ShareInv => HaltsOnlyWithoutEntrypoint
  <2> SUFFICES ASSUME ShareInv, NEW i \in Vms, gpc[i] = "apply", Written(i), entry[i] = "none"
               PROVE  cfg.entry = "none"
    BY DEF HaltsOnlyWithoutEntrypoint
  <2>1. Dir(i) \notin lost
    BY Zenon DEF Written
  <2> QED
    BY <2>1 DEF ShareInv, EntryRead
<1> QED
  BY <1>1, ShareInvariant, PTL

-----------------------------------------------------------------------------
\* The parent has waited for no more clones than have ended.
Counted ==
  /\ waited \in 0..N
  /\ waited <= Cardinality(Exited)
  /\ AllClonesFinished

LEMMA VmsFinite == IsFiniteSet(Vms) /\ Cardinality(Vms) = N
BY FS_Interval, ShareAssumption DEF Vms

\* A clone that has ended stays so: every step is of a process that has not.
LEMMA EndedStays == ASSUME ShareInv, [ShareNext]_shareVars PROVE Exited \subseteq Exited'
<1> USE ProcSets DEF ShareInv
<1> SUFFICES ASSUME NEW i \in Vms, pc[i] = "exit" PROVE pc'[i] = "exit"
  BY DEF Exited
<1>1. ASSUME NEW p \in Procs, NEW to, pc[p] # "exit", Goto(p, to) PROVE pc'[i] = "exit"
  BY <1>1 DEF Goto, ShareTypes
<1>2. CASE UNCHANGED shareVars
  BY <1>2 DEF shareVars, hostVars
<1>3. CASE LoadGolden \/ Wait
  BY <1>1, <1>3 DEF LoadGolden, Wait
<1>4. CASE Fork
  <2>1. CASE forked < N /\ pc' = [pc EXCEPT ![forked + 1] = "init"]
    <3>1. cmd = "clone"
      BY <1>4 DEF Fork, Order, ShareTypes
    <3>2. i <= forked
      BY <3>1 DEF Order
    <3> QED
      <4>1. forked + 1 # i
        BY <3>2 DEF ShareTypes, Vms
      <4> QED
        BY <2>1, <4>1, Zenon DEF ShareTypes
  <2> QED
    BY <1>1, <1>4, <2>1 DEF Fork
<1>5. ASSUME NEW p \in Procs, Host(p) PROVE pc'[i] = "exit"
  BY <1>1, <1>5 DEF Host, Parse, TruncEntry, WriteEntry, TruncConf, WriteConf
<1>6. ASSUME NEW j \in Vms, InitVm(j) \/ ConnectTap(j) \/ RestoreVm(j) \/ EndVm(j) PROVE pc'[i] = "exit"
  BY <1>1, <1>6 DEF InitVm, ConnectTap, RestoreVm, EndVm
<1>7. ASSUME NEW j \in Vms, GuestInit(j) PROVE pc'[i] = "exit"
  <2>1. pc' = pc
    BY <1>7, Zenon DEF GuestInit, MountShare, ReadEntry, ReadConf, Apply, Exec, PowerOff, hostVars
  <2> QED
    BY <2>1
<1> QED
  BY <1>2, <1>3, <1>4, <1>5, <1>6, <1>7 DEF ShareNext, Parent, Vm

\* Only wait() counts, and only the end of its loop is the end of the parent.
LEMMA CountStep == ASSUME ShareInv, [ShareNext]_shareVars
                   PROVE  \/ waited' = waited /\ (pc'[0] = "done" => pc[0] = "done")
                          \/ Wait
<1> USE ProcSets DEF ShareInv
<1>1. ASSUME NEW p \in Procs, NEW to, to # "done", Goto(p, to) PROVE pc'[0] = "done" => pc[0] = "done"
  BY <1>1 DEF Goto, ShareTypes
<1>2. CASE UNCHANGED shareVars
  BY <1>2 DEF shareVars, hostVars
<1>3. CASE LoadGolden
  BY <1>1, <1>3 DEF LoadGolden
<1>4. CASE Fork
  BY <1>4 DEF Fork, Goto, ShareTypes
<1>5. ASSUME NEW p \in Procs, Host(p) PROVE waited' = waited /\ (pc'[0] = "done" => pc[0] = "done")
  BY <1>1, <1>5 DEF Host, Parse, TruncEntry, WriteEntry, TruncConf, WriteConf, AfterConfig
<1>6. ASSUME NEW j \in Vms, InitVm(j) \/ ConnectTap(j) \/ RestoreVm(j) \/ EndVm(j)
      PROVE  waited' = waited /\ (pc'[0] = "done" => pc[0] = "done")
  BY <1>1, <1>6 DEF InitVm, ConnectTap, RestoreVm, EndVm
<1>7. ASSUME NEW j \in Vms, GuestInit(j) PROVE waited' = waited /\ (pc'[0] = "done" => pc[0] = "done")
  <2>1. pc' = pc /\ waited' = waited
    BY <1>7, Zenon DEF GuestInit, MountShare, ReadEntry, ReadConf, Apply, Exec, PowerOff, hostVars
  <2> QED
    BY <2>1
<1> QED
  BY <1>2, <1>3, <1>4, <1>5, <1>6, <1>7 DEF ShareNext, Parent, Vm

LEMMA CountedStep == ASSUME ShareInv, Counted, [ShareNext]_shareVars PROVE Counted'
<1>1. Exited \subseteq Exited'
  BY EndedStays
<1>2. /\ IsFiniteSet(Exited) /\ IsFiniteSet(Exited')
      /\ Exited \subseteq Vms /\ Exited' \subseteq Vms
      /\ Cardinality(Exited) \in Nat /\ Cardinality(Exited') \in Nat
      /\ Cardinality(Exited) <= Cardinality(Exited')
  <2>1. Exited \subseteq Vms /\ Exited' \subseteq Vms
    BY DEF Exited
  <2>2. IsFiniteSet(Exited) /\ IsFiniteSet(Exited')
    BY <2>1, VmsFinite, FS_Subset
  <2> QED
    BY <1>1, <2>1, <2>2, FS_Subset, FS_CardinalityType
<1>3. CASE waited' = waited /\ (pc'[0] = "done" => pc[0] = "done")
  <2>1. AllClonesFinished'
    BY <1>1, <1>2, <1>3 DEF Counted, AllClonesFinished
  <2> QED
    BY <1>2, <1>3, <2>1, ShareAssumption DEF Counted
<1>4. CASE Wait
  <2>1. CASE waited < N /\ waited < Cardinality(Exited) /\ waited' = waited + 1 /\ pc' = pc
    <3>1. AllClonesFinished'
      BY <1>1, <1>2, <2>1 DEF Counted, AllClonesFinished
    <3> QED
      BY <1>2, <2>1, <3>1, ShareAssumption DEF Counted
  <2>2. CASE waited = N /\ waited' = waited
    <3>1. Cardinality(Exited') = N
      <4>1. Cardinality(Exited') <= N
        BY <1>2, VmsFinite, FS_Subset
      <4>2. N <= Cardinality(Exited)
        BY <2>2 DEF Counted
      <4> QED
        BY <1>2, <4>1, <4>2, ShareAssumption
    <3>2. Exited' = Vms
      BY <1>2, <3>1, VmsFinite, FS_Subset
    <3> QED
      BY <1>2, <2>2, <3>1, <3>2, ShareAssumption DEF Counted, AllClonesFinished
  <2> QED
    BY <1>4, <2>1, <2>2 DEF Wait
<1> QED
  BY <1>3, <1>4, CountStep

\* When the parent of the clones ends its loop of wait() calls and says that all
\* of them have finished, they have: each call took another one.
THEOREM ClonesFinished == ShareSpec => []AllClonesFinished
<1>1. ShareInit => Counted
  <2> SUFFICES ASSUME ShareInit PROVE Counted
    OBVIOUS
  <2>1. waited = 0 /\ pc[0] # "done"
    BY ProcSets DEF ShareInit
  <2>2. Exited \subseteq Vms
    BY DEF Exited
  <2>3. Cardinality(Exited) \in Nat
    BY <2>2, VmsFinite, FS_Subset, FS_CardinalityType
  <2> QED
    BY <2>1, <2>3, ShareAssumption DEF Counted, AllClonesFinished
<1>2. ShareInv /\ Counted /\ [ShareNext]_shareVars => Counted'
  BY CountedStep
<1>3. Counted => AllClonesFinished
  BY DEF Counted
<1> QED
  BY <1>1, <1>2, <1>3, ShareInvariant, PTL DEF ShareSpec
=============================================================================
