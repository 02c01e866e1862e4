--------------------------- MODULE VmSetupProofs ----------------------------
(***************************************************************************)
(* Whatever virtiofsd offers, and whenever it starts or dies: it uses a    *)
(* ring only when it knows all of it, and knows it as the guest's driver   *)
(* configured it, in the process that booted and in the one that restored. *)
(* The invariant looks at the messages still on their way: what virtiofsd  *)
(* does not know yet is in the stream, ahead of what depends on it.        *)
(***************************************************************************)
EXTENDS VmSetup, TLAPS

Handshake == {"SET_FEATURES", "SET_OWNER", "SET_MEM_TABLE"}
Needed == {"NUM", "ADDR", "KICK", "CALL"}

\* The messages the VMM sends.
Message ==
  [req : {"GET_FEATURES", "GET_PROTOCOL_FEATURES", "SET_PROTOCOL_FEATURES", "SET_OWNER",
          "SET_MEM_TABLE", "SET_BACKEND_REQ_FD"}]
  \cup [req : {"SET_FEATURES"}, v : {Offered}]
  \cup [req : Needed, q : Queues, v : Nat \ {0}]
  \cup [req : {"BASE"}, q : Queues, v : {0}]
  \cup [req : {"ENABLE"}, q : Queues, v : {1}]

\* virtiofsd knows about r when it has handled the first k - 1 messages of s.
ToldBy(s, r, k) == r \in told \/ \E j \in 1..(k - 1) : s[j].req = r
GivenBy(s, r, i, k) == ring[i][r] # 0 \/ \E j \in 1..(k - 1) : s[j].req = r /\ s[j].q = i

\* A request that enables a ring comes after all it depends on.
InOrder(s) ==
  \A k \in 1..Len(s) : s[k].req = "ENABLE" =>
    /\ \A r \in Handshake : ToldBy(s, r, k)
    /\ \A r \in Needed : GivenBy(s, r, s[k].q, k)

\* The state of the connection, and of the handshake on it.
Connection ==
  /\ vpc \in {"none", "connect", "features", "protocol", "up", "failed"}
  /\ daemon \in {"none", "forked", "listening", "serving", "dead"}
  /\ chan \in Seq(Message) /\ reply \in Seq({Offered, {"BACKEND_REQ"}})
  /\ ring \in [Queues -> [RingRequests -> Nat]]
  /\ "SET_FEATURES" \in told => acked = Offered
  /\ vpc \in {"none", "connect"} => chan = <<>> /\ reply = <<>> /\ daemon # "serving"
  /\ vpc = "features" =>
       /\ \A k \in 1..Len(reply) : reply[k] = Offered
       /\ \A k \in 1..Len(chan) : chan[k].req = "GET_FEATURES"
  /\ vpc = "protocol" /\ daemon = "serving" => ToldBy(chan, "SET_FEATURES", Len(chan) + 1)
  /\ vpc = "up" /\ daemon = "serving" => \A r \in Handshake : ToldBy(chan, r, Len(chan) + 1)
  /\ vpc = "none" => features \in {{}, {"VERSION_1"}}
  /\ vpc \in {"protocol", "up"} => features = Offered \cup {"VERSION_1"}

QueueRegs == [num : Nat, addr : Nat, ready : BOOLEAN]
Regs == [status : {0, OK}, sel : Nat, features : SUBSET (Offered \cup {"VERSION_1"}),
         q : [Queues -> QueueRegs]]

\* The device is as the guest's driver leaves it.
Ready(r, i) == r.q[i].num # 0 /\ r.q[i].addr # 0 /\ r.q[i].ready

\* Booted with virtiofsd, or virtiofsd offers nothing that changes a ring.
SameFeatures == BootShare \/ Offered \cap RingFeatures = {}
Agreed(r) == SameFeatures => r.features \cap RingFeatures = Offered \cap RingFeatures

\* A snapshot holds a device that is up and a ring nothing was taken from.
SnapOK ==
  /\ snap.fs \in Regs /\ snap.fs.status = OK /\ Agreed(snap.fs)
  /\ \A i \in Queues : Ready(snap.fs, i)
  /\ snap.avail = 0 /\ snap.gpc \in 13..24

\* Where main() is, and what it has done by then.
Stage ==
  /\ mode \in {"boot", "restore"}
  /\ pc \in {"init", "virtiofsd", "devices", "load", "run", "saved", "restore", "cleanup",
             "join", "exit"}
  /\ late \in BOOLEAN /\ retry \in Nat /\ nextFd \in Nat \ {0} /\ fsActive \in BOOLEAN
  /\ image \in Images \cup {<<>>}
  /\ fs \in Regs
  /\ fds \in [Queues -> [kick : Nat, call : Nat]]
  /\ pc = "init" => vpc = "none" /\ features = {}
  /\ pc = "virtiofsd" => Share /\ (vpc = "none" => features = {})
  /\ pc \in {"devices", "load", "restore", "run", "saved"} =>
       vpc = "up" \/ (vpc = "none" /\ ~Share)
  /\ pc \in {"load", "restore", "run"} /\ vpc = "none" => features = {"VERSION_1"}
  /\ pc \in {"init", "virtiofsd", "devices", "load", "restore"} => ~fsActive
  /\ pc \in {"load", "saved"} => mode = "boot"
  /\ pc = "restore" => mode = "restore"
  /\ mode = "boot" /\ pc \in {"init", "virtiofsd", "devices", "load"} =>
       gpc = 1 /\ avail = 0 /\ fs.status = 0
  /\ pc = "saved" \/ mode = "restore" => SnapOK

\* The driver fills the registers of a queue in the three steps from b on.
QueueProbed(q, g, b) ==
  /\ g > b => q.num # 0
  /\ g > b + 1 => q.addr # 0
  /\ g > b + 2 => q.ready

\* The driver of the virtio-fs device r at its next step g has written this much.
Probed(r, g) ==
  /\ r.status = IF g < 12 THEN 0 ELSE OK
  /\ g >= 3 => Agreed(r)
  /\ g \in 4..6 => r.sel = 0
  /\ g \in 8..10 => r.sel = 1
  /\ QueueProbed(r.q[0], g, 4) /\ QueueProbed(r.q[1], g, 8)

\* The guest while it runs.
Running ==
  pc = "run" =>
    /\ gpc \in 1..26 /\ avail = IF gpc < 25 THEN 0 ELSE 1
    /\ Probed(fs, gpc)
    /\ fsActive <=> (gpc >= 12 /\ vpc = "up")

\* Nothing in s is about a ring.
Quiet(s) == \A k \in 1..Len(s) : s[k].req \notin RingRequests

\* The value a ring request has to carry.
Want(r, i) ==
  CASE r = "NUM" -> fs.q[i].num
    [] r = "BASE" -> 0
    [] r = "ADDR" -> fs.q[i].addr
    [] r = "KICK" -> fds[i].kick
    [] r = "CALL" -> fds[i].call
    [] r = "ENABLE" -> 1

\* Nothing on its way to virtiofsd is wrong, and what it knows of a ring is
\* right or will be put right.
NothingWrong ==
  \A k \in 1..Len(chan) : chan[k].req \in RingRequests =>
    chan[k].v = Want(chan[k].req, chan[k].q)
NothingMissing ==
  daemon = "serving" => \A i \in Queues, x \in RingRequests :
    ring[i][x] = Want(x, i) \/ \E k \in 1..Len(chan) : chan[k].req = x /\ chan[k].q = i
Wired ==
  /\ ~fsActive => Quiet(chan)
  /\ pc = "run" /\ fsActive => NothingWrong /\ NothingMissing

SetupInv == Connection /\ InOrder(chan) /\ EnabledIsComplete /\ Stage /\ Running /\ Wired

-----------------------------------------------------------------------------
(* The stream of messages.                                                 *)

LEMMA TailOf ==
    ASSUME NEW S, NEW s \in Seq(S), s # <<>>
    PROVE  /\ Len(s) \in Nat \ {0} /\ Head(s) = s[1] /\ s[1] \in S
           /\ Tail(s) \in Seq(S) /\ Len(Tail(s)) = Len(s) - 1
           /\ \A k \in 1..Len(Tail(s)) : Tail(s)[k] = s[k + 1]
OBVIOUS

LEMMA CatOf ==
    ASSUME NEW S, NEW s \in Seq(S), NEW t \in Seq(S)
    PROVE  /\ Len(s) \in Nat /\ Len(t) \in Nat
           /\ s \o t \in Seq(S) /\ Len(s \o t) = Len(s) + Len(t)
           /\ \A k \in 1..Len(s) : (s \o t)[k] = s[k]
           /\ \A k \in 1..Len(t) : (s \o t)[Len(s) + k] = t[k]
           /\ \A k \in 1..Len(s \o t) : k \in 1..Len(s) \/ (k - Len(s) \in 1..Len(t) /\ (s \o t)[k] = t[k - Len(s)])
OBVIOUS

\* What each kind of message carries.
LEMMA MessageFields ==
    ASSUME NEW m \in Message
    PROVE  /\ m.req \in RingRequests => m.q \in Queues /\ m.v \in Nat
           /\ m.req \in Needed => m.v # 0
           /\ m.req = "ENABLE" => m.v = 1
           /\ m.req = "SET_FEATURES" => m.v = Offered
BY DEF Message, RingRequests, Needed

\* The six messages about one queue.
LEMMA WireIs ==
    ASSUME NEW i \in Queues, NEW q \in QueueRegs, NEW kick \in Nat \ {0}, NEW call \in Nat \ {0},
           q.num # 0, q.addr # 0
    PROVE  /\ Wire(i, q, kick, call) \in Seq(Message) /\ Len(Wire(i, q, kick, call)) = 6
           /\ Wire(i, q, kick, call)[1] = [req |-> "NUM", q |-> i, v |-> q.num]
           /\ Wire(i, q, kick, call)[2] = [req |-> "BASE", q |-> i, v |-> 0]
           /\ Wire(i, q, kick, call)[3] = [req |-> "ADDR", q |-> i, v |-> q.addr]
           /\ Wire(i, q, kick, call)[4] = [req |-> "KICK", q |-> i, v |-> kick]
           /\ Wire(i, q, kick, call)[5] = [req |-> "CALL", q |-> i, v |-> call]
           /\ Wire(i, q, kick, call)[6] = [req |-> "ENABLE", q |-> i, v |-> 1]
<1>1. /\ [req |-> "NUM", q |-> i, v |-> q.num] \in Message
      /\ [req |-> "BASE", q |-> i, v |-> 0] \in Message
      /\ [req |-> "ADDR", q |-> i, v |-> q.addr] \in Message
      /\ [req |-> "KICK", q |-> i, v |-> kick] \in Message
      /\ [req |-> "CALL", q |-> i, v |-> call] \in Message
      /\ [req |-> "ENABLE", q |-> i, v |-> 1] \in Message
  BY DEF Message, Needed, QueueRegs
<1> QED
  BY <1>1 DEF Wire

\* The value a ring request for registers r carries.
Carries(r, m) ==
  /\ m.req \in RingRequests /\ m.q \in Queues
  /\ m.req = "NUM" => m.v = r.q[m.q].num
  /\ m.req = "BASE" => m.v = 0
  /\ m.req = "ADDR" => m.v = r.q[m.q].addr
  /\ m.req = "KICK" => m.v = NewFds(m.q).kick
  /\ m.req = "CALL" => m.v = NewFds(m.q).call
  /\ m.req = "ENABLE" => m.v = 1

\* The messages about one queue announce all of it, and enable it last.
LEMMA WiringOne ==
    ASSUME NEW r \in Regs, NEW i \in Queues, Ready(r, i), nextFd \in Nat \ {0}
    PROVE  /\ Wiring(r, i) \in Seq(Message) /\ Len(Wiring(r, i)) = 6
           /\ \A k \in 1..6 : Carries(r, Wiring(r, i)[k]) /\ Wiring(r, i)[k].q = i
           /\ \A k \in 1..6 : Wiring(r, i)[k].req = "ENABLE" => k = 6
           /\ \A x \in RingRequests : \E k \in 1..6 : Wiring(r, i)[k].req = x
           /\ \A x \in Needed : \E k \in 1..5 : Wiring(r, i)[k].req = x
<1> DEFINE w == Wiring(r, i)
<1>1. /\ NewFds(i).kick \in Nat \ {0} /\ NewFds(i).call \in Nat \ {0}
      /\ r.q[i] \in QueueRegs /\ r.q[i].num # 0 /\ r.q[i].addr # 0
  BY DEF NewFds, Queues, Regs, Ready
<1>2. w = Wire(i, r.q[i], NewFds(i).kick, NewFds(i).call)
  BY DEF Ready, Wiring, IsWired
<1>3. /\ w \in Seq(Message) /\ Len(w) = 6
      /\ w[1] = [req |-> "NUM", q |-> i, v |-> r.q[i].num]
      /\ w[2] = [req |-> "BASE", q |-> i, v |-> 0]
      /\ w[3] = [req |-> "ADDR", q |-> i, v |-> r.q[i].addr]
      /\ w[4] = [req |-> "KICK", q |-> i, v |-> NewFds(i).kick]
      /\ w[5] = [req |-> "CALL", q |-> i, v |-> NewFds(i).call]
      /\ w[6] = [req |-> "ENABLE", q |-> i, v |-> 1]
  BY <1>1, <1>2, WireIs
<1> HIDE DEF w
<1>4. \A k \in 1..6 : k \in {1, 2, 3, 4, 5, 6}
  OBVIOUS
<1>5. \A k \in 1..6 : Carries(r, w[k]) /\ w[k].q = i
  BY <1>3, <1>4 DEF Carries, RingRequests
<1>6. \A k \in 1..6 : w[k].req = "ENABLE" => k = 6
  BY <1>3, <1>4
<1>7. /\ \A x \in RingRequests : \E k \in 1..6 : w[k].req = x
      /\ \A x \in Needed : \E k \in 1..5 : w[k].req = x
  <2>1. 1 \in 1..5 /\ 2 \in 1..5 /\ 3 \in 1..5 /\ 4 \in 1..5 /\ 5 \in 1..5 /\ 6 \in 1..6
    OBVIOUS
  <2>2. /\ w[1].req = "NUM" /\ w[2].req = "BASE" /\ w[3].req = "ADDR"
        /\ w[4].req = "KICK" /\ w[5].req = "CALL" /\ w[6].req = "ENABLE"
    BY <1>3
  <2> QED
    BY <2>1, <2>2 DEF RingRequests, Needed
<1> QED
  BY <1>3, <1>5, <1>6, <1>7 DEF w

\* All the messages of vu_setup().
Wirings(r) == Wiring(r, 0) \o Wiring(r, 1)

LEMMA WiringAll ==
    ASSUME NEW r \in Regs, Ready(r, 0), Ready(r, 1), nextFd \in Nat \ {0}
    PROVE  /\ Wirings(r) \in Seq(Message) /\ Len(Wirings(r)) = 12
           /\ \A k \in 1..12 : Carries(r, Wirings(r)[k])
           /\ \A k \in 1..12 : Wirings(r)[k].req = "ENABLE" =>
                \A x \in Needed : \E j \in 1..(k - 1) :
                  Wirings(r)[j].req = x /\ Wirings(r)[j].q = Wirings(r)[k].q
           /\ \A i \in Queues, x \in RingRequests :
                \E k \in 1..12 : Wirings(r)[k].req = x /\ Wirings(r)[k].q = i
<1> DEFINE a == Wiring(r, 0)
           b == Wiring(r, 1)
           w == Wirings(r)
<1>1. /\ a \in Seq(Message) /\ Len(a) = 6
      /\ \A k \in 1..6 : Carries(r, a[k]) /\ a[k].q = 0
      /\ \A k \in 1..6 : a[k].req = "ENABLE" => k = 6
      /\ \A x \in RingRequests : \E k \in 1..6 : a[k].req = x
      /\ \A x \in Needed : \E k \in 1..5 : a[k].req = x
  BY WiringOne DEF Queues
<1>2. /\ b \in Seq(Message) /\ Len(b) = 6
      /\ \A k \in 1..6 : Carries(r, b[k]) /\ b[k].q = 1
      /\ \A k \in 1..6 : b[k].req = "ENABLE" => k = 6
      /\ \A x \in RingRequests : \E k \in 1..6 : b[k].req = x
      /\ \A x \in Needed : \E k \in 1..5 : b[k].req = x
  BY WiringOne DEF Queues
<1>w. w = a \o b
  BY DEF Wirings
<1> HIDE DEF a, b, w
<1>3. /\ w \in Seq(Message) /\ Len(w) = 12
      /\ \A k \in 1..6 : w[k] = a[k] /\ w[6 + k] = b[k]
      /\ \A k \in 1..12 : k \in 1..6 \/ (k - 6 \in 1..6 /\ w[k] = b[k - 6])
  <2>1. /\ w \in Seq(Message) /\ Len(w) = Len(a) + Len(b)
        /\ \A k \in 1..Len(a) : w[k] = a[k]
        /\ \A k \in 1..Len(b) : w[Len(a) + k] = b[k]
        /\ \A k \in 1..Len(w) :
             k \in 1..Len(a) \/ (k - Len(a) \in 1..Len(b) /\ w[k] = b[k - Len(a)])
    <3>1. a \in Seq(Message) /\ b \in Seq(Message)
      BY <1>1, <1>2
    <3> QED BY <1>w, <3>1, CatOf
  <2>2. Len(a) = 6 /\ Len(b) = 6 /\ Len(a) + Len(b) = 12
    BY <1>1, <1>2
  <2> HIDE DEF a, b, w
  <2> QED
    BY <2>1, <2>2
<1>4. \A k \in 1..12 : Carries(r, w[k])
  BY <1>1, <1>2, <1>3
<1>5. ASSUME NEW k \in 1..12, w[k].req = "ENABLE", NEW x \in Needed
      PROVE  \E j \in 1..(k - 1) : w[j].req = x /\ w[j].q = w[k].q
  <2>1. CASE k \in 1..6
    <3>1. PICK j \in 1..5 : a[j].req = x
      BY <1>1
    <3>2. k = 6 /\ w[k].q = 0 /\ w[j].q = 0 /\ w[j].req = x /\ j \in 1..(k - 1)
      BY <1>1, <1>3, <1>5, <2>1, <3>1
    <3> QED BY <3>2
  <2>2. CASE k - 6 \in 1..6 /\ w[k] = b[k - 6]
    <3>1. PICK j \in 1..5 : b[j].req = x
      BY <1>2
    <3>2. k - 6 = 6
      BY <1>2, <1>5, <2>2
    <3>3. w[k].q = 1
      BY <1>2, <2>2
    <3>4. j \in 1..6 /\ b[j].q = 1
      BY <1>2, <3>1
    <3>5. w[6 + j] = b[j]
      BY <1>3, <3>4
    <3>6. k = 12 /\ 6 + j \in 1..(k - 1)
      BY <3>1, <3>2
    <3> QED BY <3>1, <3>3, <3>4, <3>5, <3>6
  <2> QED BY <1>3, <2>1, <2>2, Zenon
<1>6. ASSUME NEW i \in Queues, NEW x \in RingRequests
      PROVE  \E k \in 1..12 : w[k].req = x /\ w[k].q = i
  <2>1. CASE i = 0
    <3>1. PICK k \in 1..6 : a[k].req = x
      BY <1>1
    <3> QED BY <1>1, <1>3, <2>1, <3>1
  <2>2. CASE i = 1
    <3>1. PICK k \in 1..6 : b[k].req = x
      BY <1>2
    <3>2. 6 + k \in 1..12 /\ w[6 + k].req = x /\ w[6 + k].q = i
      BY <1>2, <1>3, <2>2, <3>1
    <3> QED BY <3>2
  <2> QED BY <2>1, <2>2 DEF Queues
<1> QED
  BY <1>3, <1>4, <1>5, <1>6, Zenon DEF w

-----------------------------------------------------------------------------
(* Sending and handling messages.                                          *)

\* What was sent earlier stays in front of what is sent now.
LEMMA SendKeepsOrder ==
    ASSUME chan \in Seq(Message), InOrder(chan), NEW w \in Seq(Message),
           \A k \in 1..Len(w) : w[k].req = "ENABLE" =>
             /\ \A x \in Handshake : ToldBy(chan, x, Len(chan) + 1)
             /\ \A x \in Needed : \E j \in 1..(k - 1) : w[j].req = x /\ w[j].q = w[k].q
    PROVE  InOrder(chan \o w)
<1> DEFINE c == chan \o w
<1>1. /\ Len(chan) \in Nat /\ Len(w) \in Nat /\ Len(c) = Len(chan) + Len(w)
      /\ \A k \in 1..Len(chan) : c[k] = chan[k]
      /\ \A k \in 1..Len(w) : c[Len(chan) + k] = w[k]
      /\ \A k \in 1..Len(c) :
           k \in 1..Len(chan) \/ (k - Len(chan) \in 1..Len(w) /\ c[k] = w[k - Len(chan)])
  BY CatOf
<1> HIDE DEF c
<1>2. ASSUME NEW k \in 1..Len(c), c[k].req = "ENABLE", NEW x \in Handshake
      PROVE  ToldBy(c, x, k)
  <2>1. CASE k \in 1..Len(chan)
    <3>1. ToldBy(chan, x, k)
      BY <1>1, <1>2, <2>1 DEF InOrder
    <3>2. \A j \in 1..(k - 1) : j \in 1..Len(chan) /\ c[j] = chan[j]
      BY <1>1, <2>1
    <3> QED BY <3>1, <3>2 DEF ToldBy
  <2>2. CASE k - Len(chan) \in 1..Len(w) /\ c[k] = w[k - Len(chan)]
    <3>1. ToldBy(chan, x, Len(chan) + 1)
      BY <1>2, <2>2
    <3>2. \A j \in 1..(Len(chan) + 1 - 1) : j \in 1..(k - 1) /\ c[j] = chan[j]
      BY <1>1, <2>2
    <3> QED BY <3>1, <3>2 DEF ToldBy
  <2> QED BY <1>1, <2>1, <2>2
<1>3. ASSUME NEW k \in 1..Len(c), c[k].req = "ENABLE", NEW x \in Needed
      PROVE  GivenBy(c, x, c[k].q, k)
  <2>1. CASE k \in 1..Len(chan)
    <3>1. GivenBy(chan, x, chan[k].q, k) /\ c[k] = chan[k]
      BY <1>1, <1>3, <2>1 DEF InOrder
    <3>2. \A j \in 1..(k - 1) : j \in 1..Len(chan) /\ c[j] = chan[j]
      BY <1>1, <2>1
    <3> QED BY <3>1, <3>2 DEF GivenBy
  <2>2. CASE k - Len(chan) \in 1..Len(w) /\ c[k] = w[k - Len(chan)]
    <3>0. PICK n \in 1..Len(w) : n = k - Len(chan) /\ w[n] = c[k]
      BY <2>2
    <3>1. PICK j \in 1..(n - 1) : w[j].req = x /\ w[j].q = w[n].q
      BY <1>3, <3>0
    <3>2. Len(chan) + j \in 1..(k - 1) /\ c[Len(chan) + j] = w[j]
      BY <1>1, <3>0, <3>1
    <3> QED BY <3>0, <3>1, <3>2 DEF GivenBy
  <2> QED BY <1>1, <2>1, <2>2
<1> QED
  BY <1>2, <1>3, Zenon DEF InOrder, c

LEMMA SendKeepsTold ==
    ASSUME chan \in Seq(Message), NEW w \in Seq(Message), NEW x
    PROVE  /\ ToldBy(chan, x, Len(chan) + 1) => ToldBy(chan \o w, x, Len(chan \o w) + 1)
           /\ (\E k \in 1..Len(w) : w[k].req = x) => ToldBy(chan \o w, x, Len(chan \o w) + 1)
<1> DEFINE c == chan \o w
<1>1. /\ Len(chan) \in Nat /\ Len(w) \in Nat /\ Len(c) = Len(chan) + Len(w)
      /\ \A k \in 1..Len(chan) : c[k] = chan[k]
      /\ \A k \in 1..Len(w) : c[Len(chan) + k] = w[k]
  BY CatOf
<1> HIDE DEF c
<1>2. \A k \in 1..(Len(chan) + 1 - 1) : k \in 1..(Len(c) + 1 - 1) /\ c[k] = chan[k]
  BY <1>1
<1>3. \A k \in 1..Len(w) : Len(chan) + k \in 1..(Len(c) + 1 - 1) /\ c[Len(chan) + k] = w[k]
  BY <1>1
<1>4. ToldBy(chan, x, Len(chan) + 1) => ToldBy(c, x, Len(c) + 1)
  BY <1>2 DEF ToldBy
<1>5. (\E k \in 1..Len(w) : w[k].req = x) => ToldBy(c, x, Len(c) + 1)
  BY <1>3 DEF ToldBy
<1> QED
  BY <1>4, <1>5 DEF c

\* Nothing about the connection changes when its variables do not.
LEMMA OrderPrimed ==
    ASSUME InOrder(chan'), UNCHANGED <<told, ring>>
    PROVE  InOrder(chan)'
BY DEF InOrder, ToldBy, GivenBy

LEMMA OrderKept ==
    ASSUME InOrder(chan), EnabledIsComplete, UNCHANGED <<chan, told, acked, ring>>
    PROVE  InOrder(chan)' /\ EnabledIsComplete'
<1>1. InOrder(chan)'
  BY DEF InOrder, ToldBy, GivenBy
<1>2. EnabledIsComplete'
  BY DEF EnabledIsComplete
<1> QED BY <1>1, <1>2

LEMMA ConnectionKept ==
    ASSUME Connection, InOrder(chan), EnabledIsComplete, UNCHANGED vhostVars
    PROVE  Connection' /\ InOrder(chan)' /\ EnabledIsComplete'
<1>1. UNCHANGED <<daemon, vpc, chan, reply, features, told, acked, ring>>
  BY DEF vhostVars, backVars
<1>2. Connection'
  BY <1>1 DEF Connection, ToldBy
<1>3. InOrder(chan)' /\ EnabledIsComplete'
  BY <1>1, OrderKept, Zenon
<1> QED BY <1>2, <1>3

\* virtiofsd handles a message.
LEMMA HandleKeeps ==
    ASSUME Connection, InOrder(chan), EnabledIsComplete, DaemonHandle
    PROVE  Connection' /\ InOrder(chan)' /\ EnabledIsComplete'
<1> DEFINE m == Head(chan)
<1>1. /\ chan \in Seq(Message) /\ chan # <<>> /\ chan' = Tail(chan)
      /\ UNCHANGED <<daemon, vpc, us, features>> /\ daemon = "serving"
      /\ acked' = IF m.req = "SET_FEATURES" THEN m.v ELSE acked
      /\ ring \in [Queues -> [RingRequests -> Nat]]
  BY DEF Connection, DaemonHandle
<1>2. /\ Len(chan) \in Nat \ {0} /\ m = chan[1] /\ m \in Message
      /\ chan' \in Seq(Message) /\ Len(chan') = Len(chan) - 1
      /\ \A k \in 1..Len(chan') : chan'[k] = chan[k + 1]
  BY <1>1, TailOf
<1>3. /\ m.req \in RingRequests =>
            /\ ring' = [ring EXCEPT ![m.q][m.req] = m.v] /\ told' = told
            /\ m.q \in Queues /\ m.v \in Nat
      /\ m.req \notin RingRequests => told' = told \cup {m.req} /\ ring' = ring
      /\ m.req \in Needed => m.v # 0
      /\ m.req = "ENABLE" => m.v = 1
      /\ m.req = "SET_FEATURES" => m.v = Offered
  BY <1>2, MessageFields DEF DaemonHandle
<1>r. /\ reply \in Seq({Offered, {"BACKEND_REQ"}})
      /\ m.req = "GET_FEATURES" => reply' = Append(reply, Offered)
      /\ m.req = "GET_PROTOCOL_FEATURES" => reply' = Append(reply, {"BACKEND_REQ"})
      /\ m.req \notin {"GET_FEATURES", "GET_PROTOCOL_FEATURES"} => reply' = reply
  BY DEF DaemonHandle, Connection
<1> HIDE DEF m
\* What is known stays known, and a handled message becomes known.
<1>4. \A x \in Handshake : x \in told \/ m.req = x => x \in told'
  BY <1>3 DEF Handshake, RingRequests
<1>5. /\ ring' \in [Queues -> [RingRequests -> Nat]]
      /\ m.req \in RingRequests => ring'[m.q][m.req] = m.v
      /\ \A i \in Queues, x \in RingRequests : <<i, x>> # <<m.q, m.req>> => ring'[i][x] = ring[i][x]
  <2>1. CASE m.req \notin RingRequests
    BY <1>1, <1>3, <2>1
  <2>2. CASE m.req \in RingRequests
    <3>1. PICK i \in Queues, x \in RingRequests, v \in Nat :
             i = m.q /\ x = m.req /\ v = m.v /\ ring' = [ring EXCEPT ![i] = [ring[i] EXCEPT ![x] = v]]
      BY <1>3, <2>2
    <3>2. [ring[i] EXCEPT ![x] = v] \in [RingRequests -> Nat]
      BY <1>1
    <3>3. /\ ring' \in [Queues -> [RingRequests -> Nat]]
          /\ ring'[i] = [ring[i] EXCEPT ![x] = v]
          /\ \A n \in Queues : n # i => ring'[n] = ring[n]
      BY <1>1, <3>1, <3>2, Zenon
    <3>4. ring'[i][x] = v /\ \A y \in RingRequests : y # x => ring'[i][y] = ring[i][y]
      BY <1>1, <3>3
    <3> QED BY <3>1, <3>3, <3>4
  <2> QED BY <2>1, <2>2
<1>6. \A i \in Queues, x \in Needed : ring[i][x] # 0 \/ (m.req = x /\ m.q = i) => ring'[i][x] # 0
  BY <1>3, <1>5 DEF Needed, RingRequests
<1>7. ASSUME NEW x \in Handshake, NEW k \in 1..(Len(chan') + 1), ToldBy(chan, x, k + 1)
      PROVE  ToldBy(chan, x, k)'
  <2>1. CASE x \in told
    BY <1>4, <2>1 DEF ToldBy
  <2>2. ASSUME NEW j \in 1..(k + 1 - 1), chan[j].req = x PROVE ToldBy(chan, x, k)'
    <3>1. CASE j = 1
      BY <1>2, <1>4, <2>2, <3>1 DEF ToldBy
    <3>2. CASE j # 1
      <4>1. j - 1 \in 1..(k - 1) /\ chan'[j - 1] = chan[j]
        BY <1>2, <2>2, <3>2
      <4> QED BY <2>2, <4>1 DEF ToldBy
    <3> QED BY <3>1, <3>2
  <2> QED BY <1>7, <2>1, <2>2 DEF ToldBy
<1>8. ASSUME NEW x \in Needed, NEW i \in Queues, NEW k \in 1..Len(chan'), GivenBy(chan, x, i, k + 1)
      PROVE  GivenBy(chan, x, i, k)'
  <2>1. CASE ring[i][x] # 0
    BY <1>6, <2>1 DEF GivenBy
  <2>2. ASSUME NEW j \in 1..(k + 1 - 1), chan[j].req = x, chan[j].q = i
        PROVE  GivenBy(chan, x, i, k)'
    <3>1. CASE j = 1
      BY <1>2, <1>6, <2>2, <3>1 DEF GivenBy
    <3>2. CASE j # 1
      <4>1. j - 1 \in 1..(k - 1) /\ chan'[j - 1] = chan[j]
        BY <1>2, <2>2, <3>2
      <4> QED BY <2>2, <4>1 DEF GivenBy
    <3> QED BY <3>1, <3>2
  <2> QED BY <1>8, <2>1, <2>2 DEF GivenBy
<1>9. InOrder(chan)'
  <2>1. ASSUME NEW k \in 1..Len(chan'), chan'[k].req = "ENABLE"
        PROVE  /\ \A x \in Handshake : ToldBy(chan, x, k)'
               /\ \A x \in Needed : GivenBy(chan, x, chan[k].q, k)'
    <3>1. k + 1 \in 1..Len(chan) /\ chan'[k] = chan[k + 1] /\ k \in 1..(Len(chan') + 1)
      BY <1>2
    <3>2. PICK i \in Queues : i = chan'[k].q
      BY <1>1, <2>1, <3>1, MessageFields DEF RingRequests
    <3>3. /\ \A x \in Handshake : ToldBy(chan, x, k + 1)
          /\ \A x \in Needed : GivenBy(chan, x, i, k + 1)
      BY <2>1, <3>1, <3>2 DEF InOrder
    <3>4. \A x \in Handshake : ToldBy(chan, x, k)'
      BY <1>7, <3>1, <3>3
    <3>5. \A x \in Needed : GivenBy(chan, x, i, k)'
      BY <1>8, <3>3
    <3>6. \A x \in Needed : GivenBy(chan, x, chan[k].q, k)'
      BY <3>2, <3>5 DEF GivenBy
    <3> QED BY <3>4, <3>6
  <2> QED BY <2>1 DEF InOrder
<1>10. EnabledIsComplete'
  <2>1. ASSUME NEW i \in Queues, ring'[i]["ENABLE"] = 1
        PROVE  /\ Handshake \subseteq told /\ acked = Offered /\ \A x \in Needed : ring[i][x] # 0
    <3>1. CASE ring[i]["ENABLE"] = 1
      BY <3>1 DEF EnabledIsComplete, Handshake, Needed
    <3>2. CASE ring[i]["ENABLE"] # 1
      <4>1. m.req = "ENABLE" /\ m.q = i
        BY <1>5, <2>1, <3>2 DEF RingRequests
      <4>2. 1 \in 1..Len(chan) /\ chan[1].req = "ENABLE" /\ chan[1].q = i
        BY <1>2, <4>1
      <4>3. \A x \in Handshake : ToldBy(chan, x, 1)
        BY <4>2 DEF InOrder
      <4>4. \A x \in Needed : GivenBy(chan, x, i, 1)
        BY <4>2 DEF InOrder
      <4>5. Handshake \subseteq told /\ \A x \in Needed : ring[i][x] # 0
        BY <4>3, <4>4 DEF ToldBy, GivenBy
      <4> QED BY <4>5 DEF Handshake, Connection
    <3> QED BY <3>1, <3>2
  <2>2. acked = Offered => acked' = Offered
    BY <1>1, <1>3
  <2>3. ASSUME NEW i \in Queues, ring'[i]["ENABLE"] = 1
        PROVE  /\ Handshake \subseteq told' /\ acked' = Offered /\ \A x \in Needed : ring'[i][x] # 0
    BY <1>4, <1>6, <2>1, <2>2, <2>3
  <2> QED BY <2>3 DEF EnabledIsComplete, Handshake, Needed
<1>11. Connection'
  <2>1. "SET_FEATURES" \in told' => acked' = Offered
    BY <1>1, <1>3 DEF Connection
  <2>2. reply' \in Seq({Offered, {"BACKEND_REQ"}})
    BY <1>r
  <2>3. vpc \notin {"none", "connect"}
    BY <1>1 DEF Connection
  <2>4. vpc = "features" =>
          /\ \A k \in 1..Len(reply') : reply'[k] = Offered
          /\ \A k \in 1..Len(chan') : chan'[k].req = "GET_FEATURES"
    <3> SUFFICES ASSUME vpc = "features"
                 PROVE  /\ \A k \in 1..Len(reply') : reply'[k] = Offered
                        /\ \A k \in 1..Len(chan') : chan'[k].req = "GET_FEATURES"
      OBVIOUS
    <3>1. /\ \A k \in 1..Len(reply) : reply[k] = Offered
          /\ \A k \in 1..Len(chan) : chan[k].req = "GET_FEATURES"
      BY DEF Connection
    <3>2. reply' = Append(reply, Offered)
      BY <1>2, <1>r, <3>1
    <3>3. \A k \in 1..Len(reply') : reply'[k] = Offered
      BY <1>r, <3>1, <3>2
    <3> QED BY <1>2, <3>1, <3>3
  <2>5. Len(chan') + 1 \in 1..(Len(chan') + 1) /\ Len(chan') + 1 + 1 = Len(chan) + 1
    BY <1>2
  <2>6. /\ vpc = "protocol" => ToldBy(chan, "SET_FEATURES", Len(chan) + 1)'
        /\ vpc = "up" => \A x \in Handshake : ToldBy(chan, x, Len(chan) + 1)'
    BY <1>1, <1>7, <2>5 DEF Connection, Handshake
  <2> QED
    BY <1>1, <1>2, <1>5, <2>1, <2>2, <2>3, <2>4, <2>6, Zenon DEF Connection
<1> QED BY <1>9, <1>10, <1>11

\* Sending messages that enable nothing.
LEMMA SendPlain ==
    ASSUME Connection, InOrder(chan), EnabledIsComplete, NEW w \in Seq(Message),
           Quiet(w), chan' = Sent(w), UNCHANGED <<told, ring, acked>>
    PROVE  /\ InOrder(chan)' /\ EnabledIsComplete' /\ chan' \in Seq(Message)
           /\ Quiet(chan) => Quiet(chan')
           /\ daemon = "serving" => \A x :
                (ToldBy(chan, x, Len(chan) + 1) \/ \E k \in 1..Len(w) : w[k].req = x)
                  => ToldBy(chan, x, Len(chan) + 1)'
<1>0. chan \in Seq(Message)
  BY DEF Connection
<1>1. InOrder(chan \o w) /\ chan \o w \in Seq(Message)
  <2>1. \A k \in 1..Len(w) : w[k].req # "ENABLE"
    BY DEF Quiet, RingRequests
  <2> QED BY <1>0, <2>1, SendKeepsOrder, CatOf, Zenon
<1>2. chan' = chan \o w \/ chan' = chan
  BY DEF Sent
<1>3. InOrder(chan)' /\ chan' \in Seq(Message)
  <2>1. CASE chan' = chan
    BY <1>0, <2>1 DEF InOrder, ToldBy, GivenBy
  <2>2. CASE chan' = chan \o w
    <3>1. InOrder(chan') /\ chan' \in Seq(Message)
      BY <1>1, <2>2
    <3> QED BY <3>1 DEF InOrder, ToldBy, GivenBy
  <2> QED BY <1>2, <2>1, <2>2
<1>4. EnabledIsComplete'
  BY DEF EnabledIsComplete
<1>q. ASSUME Quiet(chan) PROVE Quiet(chan')
  <2>1. ASSUME chan' = chan \o w, NEW k \in 1..Len(chan') PROVE chan'[k].req \notin RingRequests
    <3>1. /\ \A n \in 1..Len(chan) : chan'[n] = chan[n]
          /\ k \in 1..Len(chan) \/ (k - Len(chan) \in 1..Len(w) /\ chan'[k] = w[k - Len(chan)])
      BY <1>0, <2>1, CatOf
    <3> QED BY <1>q, <3>1, Zenon DEF Quiet
  <2> QED BY <1>2, <1>q, <2>1 DEF Quiet
<1>5. ASSUME daemon = "serving", NEW x,
             ToldBy(chan, x, Len(chan) + 1) \/ \E k \in 1..Len(w) : w[k].req = x
      PROVE  ToldBy(chan, x, Len(chan) + 1)'
  <2>1. chan' = chan \o w
    BY <1>5 DEF Sent
  <2>2. ToldBy(chan', x, Len(chan') + 1)
    BY <1>0, <1>5, <2>1, SendKeepsTold, Zenon
  <2> QED BY <2>2 DEF ToldBy
<1> QED BY <1>3, <1>4, <1>5, <1>q

LEMMA GotFeaturesKeeps ==
    ASSUME Connection, InOrder(chan), EnabledIsComplete, GotFeatures
    PROVE  Connection' /\ InOrder(chan)' /\ EnabledIsComplete' /\ (Quiet(chan) => Quiet(chan'))
<1>0. /\ vpc = "features" /\ UNCHANGED <<daemon, told, acked, ring>>
      /\ vpc' \in {"protocol", "failed"}
  BY DEF GotFeatures, backVars
<1>1. CASE reply = <<>> /\ daemon = "dead" /\ vpc' = "failed" /\ UNCHANGED <<reply, chan, features>>
  <2>1. InOrder(chan)' /\ EnabledIsComplete'
    BY <1>0, <1>1 DEF InOrder, ToldBy, GivenBy, EnabledIsComplete
  <2>2. Connection'
    BY <1>0, <1>1 DEF Connection
  <2> QED BY <1>1, <2>1, <2>2
<1>2. CASE reply # <<>>
  <2> DEFINE w == <<[req |-> "SET_FEATURES", v |-> Offered], [req |-> "GET_PROTOCOL_FEATURES"]>>
  <2>1. /\ reply \in Seq({Offered, {"BACKEND_REQ"}})
        /\ \A k \in 1..Len(reply) : reply[k] = Offered
    BY <1>0, Zenon DEF Connection
  <2>2. Head(reply) = Offered /\ Tail(reply) \in Seq({Offered, {"BACKEND_REQ"}})
    BY <1>2, <2>1
  <2>3. /\ reply' = Tail(reply) /\ chan' = Sent(w)
        /\ vpc' = IF daemon = "serving" THEN "protocol" ELSE "failed"
        /\ daemon = "serving" => features' = Offered \cup {"VERSION_1"}
    BY <1>2, <2>2 DEF GotFeatures
  <2>4. /\ w \in Seq(Message) /\ Len(w) = 2 /\ w[1].req = "SET_FEATURES"
        /\ w[2].req = "GET_PROTOCOL_FEATURES"
    <3>1. /\ [req |-> "SET_FEATURES", v |-> Offered] \in Message
          /\ [req |-> "GET_PROTOCOL_FEATURES"] \in Message
      BY DEF Message
    <3> QED BY <3>1
  <2> HIDE DEF w
  <2>5. Quiet(w)
    BY <2>4 DEF Quiet, RingRequests
  <2>6. 1 \in 1..Len(w)
    BY <2>4
  <2>7. /\ InOrder(chan)' /\ EnabledIsComplete' /\ chan' \in Seq(Message)
        /\ Quiet(chan) => Quiet(chan')
        /\ daemon = "serving" => ToldBy(chan, "SET_FEATURES", Len(chan) + 1)'
    BY <1>0, <2>3, <2>4, <2>5, <2>6, SendPlain, Zenon
  <2>8. Connection'
    BY <1>0, <2>2, <2>3, <2>7, Zenon DEF Connection
  <2> QED BY <2>7, <2>8
<1> QED BY <1>1, <1>2 DEF GotFeatures

LEMMA GotProtocolKeeps ==
    ASSUME Connection, InOrder(chan), EnabledIsComplete, GotProtocol
    PROVE  Connection' /\ InOrder(chan)' /\ EnabledIsComplete' /\ (Quiet(chan) => Quiet(chan'))
<1> DEFINE a == IF reply = <<>> THEN <<>> ELSE <<[req |-> "SET_PROTOCOL_FEATURES"]>>
           b == <<[req |-> "SET_OWNER"], [req |-> "SET_MEM_TABLE"]>>
           c == IF reply # <<>> /\ "BACKEND_REQ" \in Head(reply)
                  THEN <<[req |-> "SET_BACKEND_REQ_FD"]>> ELSE <<>>
           w == a \o b \o c
<1>0. /\ vpc = "protocol" /\ UNCHANGED <<daemon, features, told, acked, ring>>
      /\ vpc' = IF daemon = "serving" THEN "up" ELSE "failed"
      /\ chan' = Sent(w)
      /\ reply' = IF reply = <<>> THEN reply ELSE Tail(reply)
  BY DEF GotProtocol, backVars
<1>1. reply' \in Seq({Offered, {"BACKEND_REQ"}})
  BY <1>0 DEF Connection
<1>2. /\ [req |-> "SET_PROTOCOL_FEATURES"] \in Message /\ [req |-> "SET_OWNER"] \in Message
      /\ [req |-> "SET_MEM_TABLE"] \in Message /\ [req |-> "SET_BACKEND_REQ_FD"] \in Message
  BY DEF Message
<1>3. /\ w \in Seq(Message) /\ Quiet(w)
      /\ \E k \in 1..Len(w) : w[k].req = "SET_OWNER"
      /\ \E k \in 1..Len(w) : w[k].req = "SET_MEM_TABLE"
  <2>1. /\ a \in Seq(Message) /\ Quiet(a)
    BY <1>2 DEF Quiet, RingRequests
  <2>2. /\ b \in Seq(Message) /\ Len(b) = 2
        /\ b[1].req = "SET_OWNER" /\ b[2].req = "SET_MEM_TABLE"
    BY <1>2
  <2>3. /\ c \in Seq(Message) /\ Quiet(c)
    BY <1>2 DEF Quiet, RingRequests
  <2> DEFINE d == a \o b
  <2>w. w = d \o c
    OBVIOUS
  <2>d. d = a \o b
    OBVIOUS
  <2> HIDE DEF a, b, c, d, w
  <2>4. /\ d \in Seq(Message) /\ Quiet(d)
        /\ \E k \in 1..Len(d) : d[k].req = "SET_OWNER"
        /\ \E k \in 1..Len(d) : d[k].req = "SET_MEM_TABLE"
    <3>1. /\ Len(a) \in Nat /\ d \in Seq(Message) /\ Len(d) = Len(a) + 2
          /\ \A k \in 1..Len(a) : d[k] = a[k]
          /\ d[Len(a) + 1] = b[1] /\ d[Len(a) + 2] = b[2]
      <4>1. /\ Len(a) \in Nat /\ d \in Seq(Message) /\ Len(d) = Len(a) + Len(b)
            /\ \A k \in 1..Len(a) : d[k] = a[k]
            /\ \A k \in 1..Len(b) : d[Len(a) + k] = b[k]
        <5>1. a \in Seq(Message) /\ b \in Seq(Message)
          BY <2>1, <2>2
        <5> QED BY <2>d, <5>1, CatOf
      <4>2. Len(b) = 2 /\ 1 \in 1..Len(b) /\ 2 \in 1..Len(b)
        BY <2>2
      <4> QED BY <4>1, <4>2
    <3>2. \A k \in 1..Len(d) : k \in 1..Len(a) \/ k = Len(a) + 1 \/ k = Len(a) + 2
      BY <3>1
    <3>3. Len(a) + 1 \in 1..Len(d) /\ Len(a) + 2 \in 1..Len(d)
      BY <3>1
    <3>4. Quiet(d)
      BY <2>1, <2>2, <3>1, <3>2, Zenon DEF Quiet, RingRequests
    <3> QED BY <2>2, <3>1, <3>3, <3>4, Zenon
  <2>5. /\ Len(c) \in Nat /\ Len(d) \in Nat /\ w \in Seq(Message) /\ Len(w) = Len(d) + Len(c)
        /\ \A k \in 1..Len(d) : w[k] = d[k]
        /\ \A k \in 1..Len(w) :
             k \in 1..Len(d) \/ (k - Len(d) \in 1..Len(c) /\ w[k] = c[k - Len(d)])
    BY <2>3, <2>4, <2>w, CatOf
  <2>6. Quiet(w)
    BY <2>3, <2>4, <2>5, Zenon DEF Quiet
  <2>7. \A k \in 1..Len(d) : k \in 1..Len(w) /\ w[k] = d[k]
    BY <2>5
  <2> QED BY <2>4, <2>5, <2>6, <2>7, Zenon
<1> HIDE DEF w
<1>4. /\ InOrder(chan)' /\ EnabledIsComplete' /\ chan' \in Seq(Message)
      /\ Quiet(chan) => Quiet(chan')
      /\ daemon = "serving" => \A x :
           (ToldBy(chan, x, Len(chan) + 1) \/ \E k \in 1..Len(w) : w[k].req = x)
             => ToldBy(chan, x, Len(chan) + 1)'
  BY <1>0, <1>3, SendPlain, Zenon
<1>5. daemon = "serving" => \A x \in Handshake : ToldBy(chan, x, Len(chan) + 1)'
  <2>1. daemon = "serving" => ToldBy(chan, "SET_FEATURES", Len(chan) + 1)
    BY <1>0 DEF Connection
  <2> QED BY <1>3, <1>4, <2>1, Zenon DEF Handshake
<1>6. Connection'
  BY <1>0, <1>1, <1>4, <1>5, Zenon DEF Connection
<1> QED BY <1>4, <1>6

\* The other steps of the connection, before anything is sent on it or by
\* virtiofsd itself.
LEMMA ConnectKeeps ==
    ASSUME Connection, InOrder(chan), EnabledIsComplete,
           ForkDaemon \/ Connect \/ DaemonStart \/ DaemonDie
    PROVE  Connection' /\ InOrder(chan)' /\ EnabledIsComplete' /\ (Quiet(chan) => Quiet(chan'))
<1>1. CASE ForkDaemon
  <2>1. /\ vpc = "none" /\ vpc' = "connect" /\ daemon' = "forked"
        /\ UNCHANGED <<chan, reply, features, told, acked, ring>>
    BY <1>1 DEF ForkDaemon, backVars
  <2> QED BY <2>1 DEF Connection, InOrder, ToldBy, GivenBy, EnabledIsComplete
<1>2. CASE Connect
  <2>1. vpc = "connect" /\ chan = <<>> /\ reply = <<>> /\ UNCHANGED <<reply, features, told, acked, ring>>
    BY <1>2, Zenon DEF Connect, Connection, backVars
  <2>2. CASE daemon # "listening"
    <3>1. UNCHANGED <<daemon, chan, vpc>>
      BY <1>2, <2>2 DEF Connect
    <3> QED BY <2>1, <3>1 DEF Connection, InOrder, ToldBy, GivenBy, EnabledIsComplete
  <2>3. CASE daemon = "listening"
    <3> DEFINE c == <<[req |-> "GET_FEATURES"]>>
    <3>1. chan' = c /\ vpc' = "features" /\ daemon' = "serving"
      BY <1>2, <2>3 DEF Connect
    <3>2. [req |-> "GET_FEATURES"] \in Message
      BY DEF Message
    <3>3. c \in Seq(Message) /\ Len(c) = 1 /\ c[1].req = "GET_FEATURES"
      BY <3>2
    <3> HIDE DEF c
    <3>4. chan' \in Seq(Message) /\ \A k \in 1..Len(chan') : chan'[k].req = "GET_FEATURES"
      BY <3>1, <3>3
    <3>5. Connection'
      BY <2>1, <3>1, <3>4 DEF Connection
    <3>6. InOrder(chan)'
      BY <3>4, Zenon DEF InOrder
    <3>7. EnabledIsComplete'
      BY <2>1 DEF EnabledIsComplete
    <3>8. Quiet(chan')
      BY <3>4 DEF Quiet, RingRequests
    <3> QED BY <3>5, <3>6, <3>7, <3>8
  <2> QED BY <2>2, <2>3
<1>3. CASE DaemonStart \/ DaemonDie
  <2>1. /\ daemon' \in {"listening", "dead"} /\ (daemon' = "listening" => daemon = "forked")
        /\ UNCHANGED <<vpc, chan, reply, features, told, acked, ring>>
    BY <1>3 DEF DaemonStart, DaemonDie, backVars
  <2>2. Connection'
    BY <2>1 DEF Connection
  <2>3. InOrder(chan)' /\ EnabledIsComplete'
    BY <2>1 DEF InOrder, ToldBy, GivenBy, EnabledIsComplete
  <2> QED BY <2>1, <2>2, <2>3
<1> QED BY <1>1, <1>2, <1>3

\* vu_setup() on a device whose driver is done, the first time.
LEMMA WireKeeps ==
    ASSUME Connection, InOrder(chan), EnabledIsComplete, Stage, Wired,
           NEW r \in Regs, Ready(r, 0), Ready(r, 1), VuSetup(r), ~fsActive, vpc = "up"
    PROVE  /\ Connection' /\ InOrder(chan)' /\ EnabledIsComplete'
           /\ UNCHANGED <<daemon, vpc, features, told, acked, ring>>
           /\ fsActive' = TRUE /\ nextFd' \in Nat \ {0}
           /\ fds' \in [Queues -> [kick : Nat, call : Nat]]
           /\ \A i \in Queues : fds'[i] = NewFds(i)
           /\ \A k \in 1..Len(chan') : chan'[k].req \in RingRequests => Carries(r, chan'[k])
           /\ daemon = "serving" => \A i \in Queues, x \in RingRequests :
                \E k \in 1..Len(chan') : chan'[k].req = x /\ chan'[k].q = i
<1> DEFINE w == Wirings(r)
<1>0. /\ UNCHANGED <<daemon, vpc, reply, features, told, acked, ring>>
      /\ fds' = [i \in Queues |-> IF IsWired(r, i) THEN NewFds(i) ELSE fds[i]]
      /\ nextFd' = nextFd + 4 /\ fsActive' = TRUE /\ chan' = Sent(w)
      /\ nextFd \in Nat \ {0} /\ chan \in Seq(Message)
      /\ \A k \in 1..Len(chan) : chan[k].req \notin RingRequests
  BY Zenon DEF VuSetup, Wirings, Stage, Wired, Quiet, Connection, backVars
<1>1. /\ w \in Seq(Message) /\ Len(w) = 12
      /\ \A k \in 1..12 : Carries(r, w[k])
      /\ \A k \in 1..12 : w[k].req = "ENABLE" =>
           \A x \in Needed : \E j \in 1..(k - 1) : w[j].req = x /\ w[j].q = w[k].q
      /\ \A i \in Queues, x \in RingRequests : \E k \in 1..12 : w[k].req = x /\ w[k].q = i
  BY <1>0, WiringAll, Zenon
<1> HIDE DEF w
<1>2. /\ \A i \in Queues : fds'[i] = NewFds(i) /\ NewFds(i) \in [kick : Nat, call : Nat]
      /\ fds' \in [Queues -> [kick : Nat, call : Nat]] /\ nextFd' \in Nat \ {0}
  <2>1. \A i \in Queues : IsWired(r, i) /\ NewFds(i) \in [kick : Nat, call : Nat]
    <3>1. nextFd \in Nat
      BY <1>0, Zenon
    <3> QED BY <3>1 DEF Queues, IsWired, Ready, NewFds
  <2>2. fds' = [i \in Queues |-> IF IsWired(r, i) THEN NewFds(i) ELSE fds[i]]
    BY <1>0, Zenon
  <2>3. nextFd' \in Nat \ {0}
    <3>1. nextFd \in Nat /\ nextFd' = nextFd + 4
      BY <1>0, Zenon
    <3> QED BY <3>1
  <2> QED BY <2>1, <2>2, <2>3, Zenon
<1>3. CASE daemon # "serving"
  <2>1. chan' = chan
    BY <1>0, <1>3 DEF Sent
  <2>2. InOrder(chan)' /\ EnabledIsComplete'
    BY <1>0, <2>1, OrderKept, Zenon
  <2>3. Connection'
    BY <1>0, <2>1, Zenon DEF Connection, ToldBy
  <2> QED BY <1>0, <1>2, <1>3, <2>1, <2>2, <2>3, Zenon
<1>4. CASE daemon = "serving"
  <2>1. chan' = chan \o w
    BY <1>0, <1>4 DEF Sent
  <2>2. \A x \in Handshake : ToldBy(chan, x, Len(chan) + 1)
    BY <1>4, Zenon DEF Connection
  <2>3. InOrder(chan')
    <3>1. InOrder(chan \o w)
      BY <1>0, <1>1, <2>2, SendKeepsOrder, Zenon
    <3> QED BY <2>1, <3>1
  <2>4. InOrder(chan)'
    BY <1>0, <2>3, OrderPrimed, Zenon
  <2>5. EnabledIsComplete'
    BY <1>0, Zenon DEF EnabledIsComplete
  <2>6. \A x \in Handshake : ToldBy(chan', x, Len(chan') + 1)
    <3>1. chan \in Seq(Message) /\ w \in Seq(Message)
      BY <1>0, <1>1, Zenon
    <3> QED BY <2>1, <2>2, <3>1, SendKeepsTold, Zenon
  <2>7. \A x \in Handshake : ToldBy(chan, x, Len(chan) + 1)'
    BY <1>0, <2>6 DEF ToldBy
  <2>8. /\ Len(chan) \in Nat /\ chan' \in Seq(Message) /\ Len(chan') = Len(chan) + Len(w)
        /\ \A k \in 1..Len(chan) : chan'[k] = chan[k]
        /\ \A k \in 1..Len(w) : chan'[Len(chan) + k] = w[k]
        /\ \A k \in 1..Len(chan') :
             k \in 1..Len(chan) \/ (k - Len(chan) \in 1..Len(w) /\ chan'[k] = w[k - Len(chan)])
    <3>1. w \in Seq(Message)
      BY <1>1, Zenon
    <3> QED BY <1>0, <2>1, <3>1, CatOf
  <2>9. Connection'
    <3>1. chan' \in Seq(Message)
      BY <2>8, Zenon
    <3> QED BY <1>0, <1>4, <2>7, <3>1, Zenon DEF Connection
  <2>10. \A k \in 1..Len(chan') : chan'[k].req \in RingRequests => Carries(r, chan'[k])
    <3> SUFFICES ASSUME NEW k \in 1..Len(chan'), chan'[k].req \in RingRequests
                 PROVE  Carries(r, chan'[k])
      OBVIOUS
    <3>1. k \notin 1..Len(chan)
      BY <1>0, <2>8, Zenon
    <3>2. k - Len(chan) \in 1..Len(w) /\ chan'[k] = w[k - Len(chan)]
      BY <2>8, <3>1, Zenon
    <3>3. Len(w) = 12 /\ \A n \in 1..12 : Carries(r, w[n])
      BY <1>1, Zenon
    <3> QED BY <3>2, <3>3, Zenon
  <2>11. ASSUME NEW i \in Queues, NEW x \in RingRequests
         PROVE  \E k \in 1..Len(chan') : chan'[k].req = x /\ chan'[k].q = i
    <3>1. PICK k \in 1..12 : w[k].req = x /\ w[k].q = i
      BY <1>1, Zenon
    <3>0. Len(w) = 12
      BY <1>1, Zenon
    <3>2. chan'[Len(chan) + k] = w[k]
      BY <2>8, <3>0, Zenon
    <3>3. Len(chan') = Len(chan) + 12 /\ Len(chan) \in Nat
      BY <2>8, <3>0
    <3>4. Len(chan) + k \in 1..Len(chan')
      BY <3>3
    <3> QED BY <3>1, <3>2, <3>4, Zenon
  <2> QED BY <1>0, <1>2, <2>4, <2>5, <2>9, <2>10, <2>11, Zenon
<1> QED BY <1>3, <1>4, Zenon

-----------------------------------------------------------------------------
(* The registers, and what virtiofsd knows of them.                        *)

\* The guest's program: the virtio-fs driver first, init last.
LEMMA ProgramIs ==
    ASSUME late \in BOOLEAN
    PROVE  /\ Program[1] = <<"fs", "reset">> /\ Program[2] = <<"fs", "features">>
           /\ Program[3] = <<"fs", "sel", 0>> /\ Program[4] = <<"fs", "num", 64>>
           /\ Program[5] = <<"fs", "addr">> /\ Program[6] = <<"fs", "ready">>
           /\ Program[7] = <<"fs", "sel", 1>> /\ Program[8] = <<"fs", "num", 64>>
           /\ Program[9] = <<"fs", "addr">> /\ Program[10] = <<"fs", "ready">>
           /\ Program[11] = <<"fs", "ok">>
           /\ \A k \in 12..26 : Program[k][1] \in {"net", "init"}
           /\ \A k \in 12..23 : Program[k][1] = "init" => k \in {12, 23} /\ Program[k][2] = "signal"
           /\ Program[24] = <<"init", "mount">> /\ Program[25] = <<"init", "wait">>
           /\ Program[26] = <<"init", "off">>
<1>1. CASE late
  <2>1. Program = LateProgram
    BY <1>1 DEF Program
  <2> QED
    BY <2>1 DEF LateProgram, Probe, InitSteps
<1>2. CASE ~late
  <2>1. Program = EarlyProgram
    BY <1>2 DEF Program
  <2> QED
    BY <2>1 DEF EarlyProgram, Probe, InitSteps
<1> QED BY <1>1, <1>2, Zenon

\* What virtiofsd knows does not change with where main() is.
LEMMA WiredSame ==
    ASSUME Wired, UNCHANGED <<chan, ring, fs, fds, fsActive>>,
           pc' = "run" /\ fsActive => pc = "run", daemon' = "serving" => daemon = "serving"
    PROVE  Wired'
<1>1. ASSUME NEW x, NEW i PROVE Want(x, i)' = Want(x, i)
  BY DEF Want
<1>2. (~fsActive => Quiet(chan))'
  BY DEF Wired, Quiet
<1>3. NothingWrong => NothingWrong'
  BY <1>1 DEF NothingWrong
<1>4. NothingMissing => NothingMissing'
  BY <1>1 DEF NothingMissing
<1> QED BY <1>2, <1>3, <1>4 DEF Wired

\* A ring request that is handled was right.
LEMMA HandleWired ==
    ASSUME Connection, Wired, DaemonHandle, UNCHANGED <<pc, fs, fds, fsActive>>
    PROVE  Wired'
<1> DEFINE m == Head(chan)
<1>1. /\ chan \in Seq(Message) /\ chan # <<>> /\ chan' = Tail(chan) /\ daemon = "serving"
      /\ ring \in [Queues -> [RingRequests -> Nat]]
  BY DEF Connection, DaemonHandle
<1>2. /\ Len(chan) \in Nat \ {0} /\ m = chan[1] /\ m \in Message
      /\ Len(chan') = Len(chan) - 1
      /\ \A k \in 1..Len(chan') : chan'[k] = chan[k + 1]
  BY <1>1, TailOf
<1>3. /\ m.req \in RingRequests =>
            ring' = [ring EXCEPT ![m.q][m.req] = m.v] /\ m.q \in Queues
      /\ m.req \notin RingRequests => ring' = ring
  BY <1>2, MessageFields DEF DaemonHandle
<1> HIDE DEF m
<1>4. \A k \in 1..Len(chan') : k + 1 \in 1..Len(chan) /\ chan'[k] = chan[k + 1]
  BY <1>2
<1>5. ~fsActive => Quiet(chan')
  BY <1>4 DEF Wired, Quiet
<1>6. ASSUME pc = "run", fsActive
      PROVE  /\ \A k \in 1..Len(chan') : chan'[k].req \in RingRequests =>
                  chan'[k].v = Want(chan'[k].req, chan'[k].q)
             /\ \A i \in Queues, x \in RingRequests :
                  ring'[i][x] = Want(x, i) \/ \E k \in 1..Len(chan') : chan'[k].req = x /\ chan'[k].q = i
  <2>0. NothingWrong /\ NothingMissing
    BY <1>1, <1>6, Zenon DEF Wired
  <2>1. \A k \in 1..Len(chan) : chan[k].req \in RingRequests =>
           chan[k].v = Want(chan[k].req, chan[k].q)
    BY <2>0, Zenon DEF NothingWrong
  <2>2. ASSUME NEW i \in Queues, NEW x \in RingRequests
        PROVE  ring'[i][x] = Want(x, i) \/ \E k \in 1..Len(chan') : chan'[k].req = x /\ chan'[k].q = i
    <3>1. CASE m.req = x /\ m.q = i
      <4>1. ring' = [ring EXCEPT ![i] = [ring[i] EXCEPT ![x] = m.v]]
        BY <1>3, <3>1
      <4>2. ring'[i][x] = m.v
        BY <1>1, <4>1
      <4>3. m.v = Want(x, i)
        BY <1>2, <2>1, <3>1
      <4> QED BY <4>2, <4>3
    <3>2. CASE ~(m.req = x /\ m.q = i)
      <4>1. ring'[i][x] = ring[i][x]
        <5>1. CASE m.req \in RingRequests
          <6>1. ring' = [ring EXCEPT ![m.q] = [ring[m.q] EXCEPT ![m.req] = m.v]] /\ m.q \in Queues
            BY <1>3, <5>1
          <6> QED BY <1>1, <3>2, <5>1, <6>1
        <5>2. CASE m.req \notin RingRequests
          BY <1>3, <5>2
        <5> QED BY <5>1, <5>2
      <4>2. CASE ring[i][x] = Want(x, i)
        BY <4>1, <4>2
      <4>3. ASSUME NEW k \in 1..Len(chan), chan[k].req = x, chan[k].q = i
            PROVE  \E n \in 1..Len(chan') : chan'[n].req = x /\ chan'[n].q = i
        <5>1. k # 1
          BY <1>2, <3>2, <4>3
        <5>2. k - 1 \in 1..Len(chan') /\ chan'[k - 1] = chan[k]
          BY <1>2, <5>1
        <5> QED BY <4>3, <5>2
      <4>4. ring[i][x] = Want(x, i) \/ \E k \in 1..Len(chan) : chan[k].req = x /\ chan[k].q = i
        BY <1>1, <2>0, Zenon DEF NothingMissing
      <4> QED BY <4>2, <4>3, <4>4, Zenon
    <3> QED BY <3>1, <3>2, Zenon
  <2> QED BY <1>4, <2>1, <2>2
<1>7. (~fsActive => Quiet(chan))'
  BY <1>5 DEF Quiet
<1>8. ASSUME NEW x, NEW i PROVE Want(x, i)' = Want(x, i)
  BY DEF Want
<1>9. ASSUME pc = "run", fsActive PROVE NothingWrong'
  BY <1>6, <1>8, <1>9 DEF NothingWrong
<1>10. ASSUME pc = "run", fsActive PROVE NothingMissing'
  BY <1>6, <1>8, <1>10 DEF NothingMissing
<1> QED BY <1>7, <1>9, <1>10 DEF Wired

\* The same invariants hold of the device after vu_setup().
LEMMA WiredAfter ==
    ASSUME NEW r \in Regs, fs'.q = r.q, pc' = "run", fsActive' = TRUE,
           ring \in [Queues -> [RingRequests -> Nat]],
           \A i \in Queues : fds'[i] = NewFds(i),
           \A k \in 1..Len(chan') : chan'[k].req \in RingRequests => Carries(r, chan'[k]),
           daemon' = daemon,
           daemon = "serving" => \A i \in Queues, x \in RingRequests :
                \E k \in 1..Len(chan') : chan'[k].req = x /\ chan'[k].q = i
    PROVE  Wired'
<1>1. ASSUME NEW k \in 1..Len(chan'), chan'[k].req \in RingRequests
      PROVE  chan'[k].v = Want(chan[k].req, chan[k].q)'
  <2>1. Carries(r, chan'[k])
    BY <1>1
  <2> QED BY <1>1, <2>1 DEF Carries, Want, RingRequests
<1>2. NothingWrong'
  BY <1>1, Zenon DEF NothingWrong
<1>3. NothingMissing'
  BY Zenon DEF NothingMissing
<1> QED BY <1>2, <1>3 DEF Wired

-----------------------------------------------------------------------------
(* Every step keeps the invariant.                                         *)

LEMMA InitSetup == Init => SetupInv
<1> SUFFICES ASSUME Init PROVE SetupInv
  OBVIOUS
<1>1. /\ daemon = "none" /\ vpc = "none" /\ chan = <<>> /\ reply = <<>> /\ features = {}
      /\ told = {} /\ acked = {} /\ ring = [q \in Queues |-> NoRing]
      /\ mode = "boot" /\ pc = "init" /\ image = <<>> /\ fs = ResetRegs /\ fds = NoFds
      /\ nextFd = 1 /\ fsActive = FALSE /\ gpc = 1 /\ late \in BOOLEAN /\ retry = 0 /\ avail = 0
  BY DEF Init, NewProcess, VhostIdle
<1>2. chan \in Seq(Message) /\ reply \in Seq({Offered, {"BACKEND_REQ"}}) /\ Len(chan) = 0
  BY <1>1
<1>3. ring \in [Queues -> [RingRequests -> Nat]] /\ \A q \in Queues : ring[q]["ENABLE"] = 0
  BY <1>1 DEF NoRing, RingRequests
<1>4. Connection
  BY <1>1, <1>2, <1>3 DEF Connection
<1>5. InOrder(chan) /\ Wired
  BY <1>1, <1>2 DEF InOrder, Wired, Quiet
<1>6. EnabledIsComplete
  BY <1>3 DEF EnabledIsComplete
<1>7. fs \in Regs /\ fs.status = 0 /\ fds \in [Queues -> [kick : Nat, call : Nat]]
  BY <1>1, Zenon DEF Regs, ResetRegs, NoQueue, QueueRegs, NoFds
<1>8. retry \in Nat /\ nextFd \in Nat \ {0}
  BY <1>1
<1>9. late \in BOOLEAN /\ fsActive \in BOOLEAN /\ ~fsActive /\ image \in Images \cup {<<>>}
  BY <1>1, Zenon
<1>10. Stage
  BY <1>1, <1>7, <1>8, <1>9, Zenon DEF Stage
<1> QED
  BY <1>1, <1>4, <1>5, <1>6, <1>10 DEF SetupInv, Running

LEMMA InitVmStep == ASSUME SetupInv, InitVm PROVE SetupInv'
<1>1. /\ UNCHANGED <<mode, image, fds, nextFd, fsActive, fs, gpc, late, retry, avail, snap>>
      /\ UNCHANGED vhostVars /\ pc = "init" /\ pc' \in {"virtiofsd", "devices", "cleanup"}
      /\ pc' = "virtiofsd" => Share
      /\ pc' = "devices" => ~Share
  BY DEF InitVm, Goto, devVars, guestVars
<1>2. Connection' /\ InOrder(chan)' /\ EnabledIsComplete'
  BY <1>1, ConnectionKept DEF SetupInv
<1>3. UNCHANGED <<vpc, features, chan, ring, daemon>>
  BY <1>1 DEF vhostVars, backVars
<1>4. Stage'
  BY <1>1, <1>3, Zenon DEF SetupInv, Stage, Share, SnapOK
<1>5. Wired'
  BY <1>1, <1>3, WiredSame DEF SetupInv
<1> QED BY <1>1, <1>2, <1>4, <1>5 DEF SetupInv, Running

LEMMA StartVirtiofsdStep == ASSUME SetupInv, StartVirtiofsd PROVE SetupInv'
<1>0. /\ UNCHANGED <<mode, image, fds, nextFd, fsActive, fs, gpc, late, retry, avail, snap>>
      /\ pc = "virtiofsd" /\ pc' \in {"virtiofsd", "devices", "cleanup"} /\ ~fsActive
      /\ Connection /\ InOrder(chan) /\ EnabledIsComplete /\ Stage /\ Wired
  BY Zenon DEF StartVirtiofsd, Goto, devVars, guestVars, SetupInv, Stage
<1>1. CASE (ForkDaemon \/ Connect \/ GotFeatures \/ GotProtocol) /\ UNCHANGED pc
  <2>1. Connection' /\ InOrder(chan)' /\ EnabledIsComplete' /\ (Quiet(chan) => Quiet(chan'))
    BY <1>0, <1>1, ConnectKeeps, GotFeaturesKeeps, GotProtocolKeeps, Zenon
  <2>2. vpc' # "none"
    BY <1>1, Zenon DEF ForkDaemon, Connect, GotFeatures, GotProtocol
  <2>3. Stage'
    BY <1>0, <1>1, <2>2, Zenon DEF Stage, Share, SnapOK
  <2>4. Wired'
    BY <1>0, <2>1, Zenon DEF Wired, Quiet
  <2> QED BY <1>0, <1>1, <2>1, <2>3, <2>4 DEF SetupInv, Running
<1>2. CASE UNCHANGED vhostVars /\ ((vpc = "up" /\ Goto("devices")) \/ (vpc = "failed" /\ Goto("cleanup")))
  <2>1. Connection' /\ InOrder(chan)' /\ EnabledIsComplete'
    BY <1>0, <1>2, ConnectionKept
  <2>2. UNCHANGED <<vpc, features, chan, ring, daemon>>
    BY <1>2 DEF vhostVars, backVars
  <2>3. Stage'
    BY <1>0, <1>2, <2>2, Zenon DEF Stage, Share, SnapOK, Goto
  <2>4. Wired'
    BY <1>0, <2>2, WiredSame
  <2> QED BY <1>0, <2>1, <2>3, <2>4 DEF SetupInv, Running
<1> QED BY <1>1, <1>2 DEF StartVirtiofsd

LEMMA SetupDevicesStep == ASSUME SetupInv, SetupDevices PROVE SetupInv'
<1>0. /\ UNCHANGED <<mode, image, fds, nextFd, fsActive, fs, gpc, late, retry, avail, snap>>
      /\ UNCHANGED <<daemon, vpc, chan, reply, told, acked, ring>>
      /\ features' = IF features = {} THEN {"VERSION_1"} ELSE features
      /\ pc = "devices" /\ pc' \in {"load", "restore", "cleanup"} /\ ~fsActive
      /\ pc' = "load" => mode = "boot"
      /\ pc' = "restore" => mode = "restore"
      /\ Connection /\ InOrder(chan) /\ EnabledIsComplete /\ Stage /\ Wired
  BY Zenon DEF SetupDevices, Goto, devVars, guestVars, backVars, SetupInv, Stage
<1>1. vpc = "up" \/ (vpc = "none" /\ ~Share)
  BY <1>0, Zenon DEF Stage
<1>2. vpc = "up" => features = Offered \cup {"VERSION_1"} /\ features' = features
  BY <1>0, Zenon DEF Connection
<1>3. vpc = "none" => features' = {"VERSION_1"}
  BY <1>0 DEF Connection
<1>4. Connection'
  BY <1>0, <1>1, <1>2, <1>3, Zenon DEF Connection, ToldBy
<1>5. InOrder(chan)' /\ EnabledIsComplete'
  BY <1>0 DEF InOrder, ToldBy, GivenBy, EnabledIsComplete
<1>6. Stage'
  BY <1>0, <1>1, <1>3, Zenon DEF Stage, Share, SnapOK
<1>7. Wired'
  BY <1>0, WiredSame
<1> QED BY <1>0, <1>4, <1>5, <1>6, <1>7 DEF SetupInv, Running

LEMMA LoadBootStep == ASSUME SetupInv, LoadBoot PROVE SetupInv'
<1>0. /\ UNCHANGED <<mode, fds, nextFd, fsActive, fs, gpc, late, retry, avail, snap>>
      /\ UNCHANGED vhostVars /\ ~fsActive
      /\ pc = "load" /\ pc' \in {"run", "cleanup"} /\ image' \in Images \cup {image}
      /\ Connection /\ InOrder(chan) /\ EnabledIsComplete /\ Stage /\ Wired
  BY Zenon DEF LoadBoot, Goto, devVars, guestVars, SetupInv, Stage
<1>1. Connection' /\ InOrder(chan)' /\ EnabledIsComplete'
  BY <1>0, ConnectionKept
<1>2. UNCHANGED <<vpc, features, chan, ring, daemon>>
  BY <1>0 DEF vhostVars, backVars
<1>3. Stage'
  BY <1>0, <1>2, Zenon DEF Stage, Share, SnapOK
<1>4. gpc = 1 /\ avail = 0 /\ fs.status = 0
  BY <1>0 DEF Stage
<1>5. Running'
  BY <1>0, <1>4 DEF Running, Probed, QueueProbed
<1>6. Wired'
  BY <1>0, <1>2, WiredSame
<1> QED BY <1>1, <1>3, <1>5, <1>6 DEF SetupInv

LEMMA StageKept ==
    ASSUME Stage, UNCHANGED <<mode, image, fds, nextFd, fsActive, fs, gpc, late, retry, avail, snap>>,
           UNCHANGED <<vpc, features>>, pc' \in {pc, "cleanup", "join"}
    PROVE  Stage'
BY DEF Stage, Share, SnapOK

\* A step of the process that does not reach the guest or its devices.
LEMMA ProcStep ==
    ASSUME SetupInv, UNCHANGED vhostVars,
           UNCHANGED <<mode, image, fds, nextFd, fsActive, fs, gpc, late, retry, avail, snap>>,
           pc' \in {pc, "cleanup", "join"}
    PROVE  SetupInv'
<1>1. Connection' /\ InOrder(chan)' /\ EnabledIsComplete'
  BY ConnectionKept DEF SetupInv
<1>2. UNCHANGED <<vpc, features, chan, ring, daemon>>
  BY DEF vhostVars, backVars
<1>3. Stage'
  BY <1>2, StageKept, Zenon DEF SetupInv
<1>4. Running'
  BY <1>2, Zenon DEF SetupInv, Running, Probed
<1>5. Wired'
  BY <1>2, WiredSame DEF SetupInv
<1> QED BY <1>1, <1>3, <1>4, <1>5 DEF SetupInv

\* A step of the guest that does not write to the virtio-fs device.
LEMMA GuestStep ==
    ASSUME SetupInv, UNCHANGED vhostVars, pc = "run",
           UNCHANGED <<mode, pc, image, fds, nextFd, fsActive, fs, late, snap>>,
           retry' \in Nat, gpc' \in 1..26, avail' = IF gpc' < 25 THEN 0 ELSE 1,
           gpc' >= 12 <=> gpc >= 12, gpc < 12 => gpc' = 1
    PROVE  SetupInv'
<1>1. Connection' /\ InOrder(chan)' /\ EnabledIsComplete'
  BY ConnectionKept DEF SetupInv
<1>2. UNCHANGED <<vpc, features, chan, ring, daemon>>
  BY DEF vhostVars, backVars
<1>3. Stage'
  BY <1>2, Zenon DEF SetupInv, Stage, Share, SnapOK
<1>4. gpc \in 1..26 /\ Probed(fs, gpc) /\ (fsActive <=> (gpc >= 12 /\ vpc = "up"))
  BY DEF SetupInv, Running
<1>5. Probed(fs, gpc)'
  BY <1>4 DEF Probed, QueueProbed, Agreed
<1>6. Running'
  BY <1>2, <1>4, <1>5 DEF Running
<1>7. Wired'
  BY <1>2, WiredSame DEF SetupInv
<1> QED BY <1>1, <1>3, <1>6, <1>7 DEF SetupInv

LEMMA SaveStep == ASSUME SetupInv, Save PROVE SetupInv'
<1>0. /\ UNCHANGED <<mode, image, fds, nextFd, fsActive, fs, gpc, late, retry, avail>>
      /\ UNCHANGED vhostVars /\ pc = "run" /\ pc' = "saved" /\ mode = "boot"
      /\ Program[gpc][1] = "init" /\ Program[gpc][2] = "signal"
      /\ snap' = [fs |-> fs, net |-> net, avail |-> avail, gpc |-> gpc + 1]
      /\ Connection /\ InOrder(chan) /\ EnabledIsComplete /\ Stage /\ Running /\ Wired
  BY Zenon DEF Save, Goto, At, devVars, guestVars, SetupInv
<1>1. Connection' /\ InOrder(chan)' /\ EnabledIsComplete'
  BY <1>0, ConnectionKept, Zenon
<1>2. UNCHANGED <<vpc, features, chan, ring, daemon>>
  BY <1>0, Zenon DEF vhostVars, backVars
<1>3. late \in BOOLEAN /\ fs \in Regs /\ gpc \in 1..26 /\ Probed(fs, gpc) /\ avail = IF gpc < 25 THEN 0 ELSE 1
  BY <1>0, Zenon DEF Stage, Running
<1>4. gpc \in {12, 23}
  BY <1>0, <1>3, ProgramIs
<1>5. /\ snap'.fs = fs /\ snap'.avail = 0 /\ snap'.gpc \in 13..24
  BY <1>0, <1>3, <1>4
<1>6. fs.status = OK /\ Agreed(fs) /\ Ready(fs, 0) /\ Ready(fs, 1)
  BY <1>3, <1>4 DEF Probed, QueueProbed, Ready
<1>7. SnapOK'
  BY <1>0, <1>3, <1>5, <1>6, Zenon DEF SnapOK, Queues, Ready, Agreed
<1>8. Stage'
  BY <1>0, <1>2, <1>7, Zenon DEF Stage, Share
<1>9. Wired'
  BY <1>0, <1>2, WiredSame, Zenon
<1> QED BY <1>0, <1>1, <1>8, <1>9, Zenon DEF SetupInv, Running

LEMMA StartRestoreStep == ASSUME SetupInv, StartRestore PROVE SetupInv'
<1>1. /\ daemon' = "none" /\ vpc' = "none" /\ chan' = <<>> /\ reply' = <<>> /\ features' = {}
      /\ told' = {} /\ acked' = {} /\ ring' = [q \in Queues |-> NoRing]
      /\ mode' = "restore" /\ pc' = "init" /\ image' = <<>> /\ fs' = ResetRegs /\ fds' = NoFds
      /\ nextFd' = 1 /\ fsActive' = FALSE /\ UNCHANGED <<gpc, late, retry, avail, snap>>
      /\ pc = "saved"
  BY DEF StartRestore, guestVars
<1>2. chan' \in Seq(Message) /\ reply' \in Seq({Offered, {"BACKEND_REQ"}}) /\ Len(chan') = 0
  BY <1>1
<1>3. ring' \in [Queues -> [RingRequests -> Nat]] /\ \A q \in Queues : ring'[q]["ENABLE"] = 0
  BY <1>1 DEF NoRing, RingRequests
<1>4. Connection'
  BY <1>1, <1>2, <1>3, Zenon DEF Connection
<1>5. InOrder(chan)' /\ Wired'
  BY <1>1, <1>2 DEF InOrder, Wired, Quiet
<1>6. EnabledIsComplete'
  BY <1>3 DEF EnabledIsComplete
<1>7. fs' \in Regs /\ fds' \in [Queues -> [kick : Nat, call : Nat]]
  BY <1>1, Zenon DEF Regs, ResetRegs, NoQueue, QueueRegs, NoFds
<1>8. SnapOK' /\ late' \in BOOLEAN /\ retry' \in Nat
  BY <1>1, Zenon DEF SetupInv, Stage, SnapOK, Agreed
<1>9. nextFd' \in Nat \ {0}
  BY <1>1
<1>10. fsActive' \in BOOLEAN /\ ~fsActive' /\ image' \in Images \cup {<<>>}
  BY <1>1, Zenon
<1>11. Stage'
  BY <1>1, <1>7, <1>8, <1>9, <1>10, Zenon DEF Stage
<1> QED
  BY <1>1, <1>4, <1>5, <1>6, <1>11 DEF SetupInv, Running

LEMMA RestoreDevicesStep == ASSUME SetupInv, RestoreDevices PROVE SetupInv'
<1>0. /\ pc = "restore" /\ pc' = "run" /\ UNCHANGED <<mode, image, late, retry, snap>>
      /\ fs' = snap.fs /\ avail' = snap.avail /\ gpc' = snap.gpc
      /\ Connection /\ InOrder(chan) /\ EnabledIsComplete /\ Stage /\ Wired
  BY Zenon DEF RestoreDevices, Goto, SetupInv
<1>1. mode = "restore" /\ vpc = "up" /\ ~fsActive /\ SnapOK
  BY <1>0, Zenon DEF Stage, Share
<1>2. VuSetup(snap.fs)
  BY <1>1, Zenon DEF RestoreDevices, SnapOK
<1>3. snap.fs \in Regs /\ Ready(snap.fs, 0) /\ Ready(snap.fs, 1)
  BY <1>1 DEF SnapOK, Queues
<1>4. /\ Connection' /\ InOrder(chan)' /\ EnabledIsComplete'
      /\ UNCHANGED <<daemon, vpc, features, told, acked, ring>>
      /\ fsActive' = TRUE /\ nextFd' \in Nat \ {0}
      /\ fds' \in [Queues -> [kick : Nat, call : Nat]]
      /\ \A i \in Queues : fds'[i] = NewFds(i)
      /\ \A k \in 1..Len(chan') : chan'[k].req \in RingRequests => Carries(snap.fs, chan'[k])
      /\ daemon = "serving" => \A i \in Queues, x \in RingRequests :
           \E k \in 1..Len(chan') : chan'[k].req = x /\ chan'[k].q = i
  BY <1>0, <1>1, <1>2, <1>3, WireKeeps, Zenon
<1>5. Wired'
  <2>1. ring \in [Queues -> [RingRequests -> Nat]] /\ daemon' = daemon /\ fs'.q = snap.fs.q
    BY <1>0, <1>4, Zenon DEF Connection
  <2> QED BY <1>0, <1>3, <1>4, <2>1, WiredAfter, Zenon
<1>6. Stage'
  BY <1>0, <1>1, <1>3, <1>4, Zenon DEF Stage, Share, SnapOK
<1>7. /\ gpc' \in 13..24 /\ avail' = 0 /\ fs'.status = OK /\ Agreed(fs')
      /\ Ready(fs', 0) /\ Ready(fs', 1)
  BY <1>0, <1>1, <1>3 DEF SnapOK
<1>8. Probed(fs, gpc)'
  BY <1>7 DEF Probed, QueueProbed, Ready, Agreed
<1>9. Running'
  BY <1>1, <1>4, <1>7, <1>8 DEF Running
<1> QED BY <1>4, <1>5, <1>6, <1>9 DEF SetupInv

\* n is r with field f of queue i written.
OneField(r, n, i, f, v) ==
  /\ n \in Regs /\ n.status = r.status /\ n.sel = r.sel /\ n.features = r.features
  /\ \A j \in Queues \ {i} : n.q[j] = r.q[j]
  /\ n.q[i].num = IF f = "num" THEN v ELSE r.q[i].num
  /\ n.q[i].addr = IF f = "addr" THEN v ELSE r.q[i].addr
  /\ f = "ready" \/ r.q[i].ready => n.q[i].ready

\* A write to the selected queue changes one field of it.
LEMMA QueueWritten ==
    ASSUME NEW r \in Regs, NEW i \in Queues, r.sel = i, NEW v \in Nat \ {0},
           NEW f \in {"num", "addr", "ready"},
           NEW n, n = QueueWrite(r, f, IF f = "ready" THEN TRUE ELSE v)
    PROVE  OneField(r, n, i, f, v)
<1>1. PICK qr : qr = r.q[i] /\ qr \in QueueRegs
  BY Zenon DEF Regs
<1>2. PICK new : new = [qr EXCEPT ![f] = IF f = "ready" THEN TRUE ELSE v]
  BY Zenon
<1>3. PICK all : all = r.q /\ all \in [Queues -> QueueRegs]
  BY DEF Regs
<1>4. n = [r EXCEPT !.q = [all EXCEPT ![i] = new]]
  BY <1>1, <1>2, <1>3 DEF QueueWrite
<1>5. /\ new \in QueueRegs
      /\ new.num = IF f = "num" THEN v ELSE qr.num
      /\ new.addr = IF f = "addr" THEN v ELSE qr.addr
      /\ f = "ready" \/ qr.ready => new.ready
  <2>1. CASE f = "num"
    BY <1>1, <1>2, <2>1, Zenon DEF QueueRegs
  <2>2. CASE f = "addr"
    BY <1>1, <1>2, <2>2 DEF QueueRegs
  <2>3. CASE f = "ready"
    BY <1>1, <1>2, <2>3, Zenon DEF QueueRegs
  <2> QED BY <2>1, <2>2, <2>3, Zenon
<1>6. PICK qs : qs = [all EXCEPT ![i] = new]
  BY Zenon
<1>7. qs \in [Queues -> QueueRegs] /\ qs[i] = new /\ \A j \in Queues \ {i} : qs[j] = all[j]
  BY <1>3, <1>5, <1>6, Zenon
<1>8. n = [r EXCEPT !.q = qs]
  BY <1>4, <1>6, Zenon
<1>9. /\ n \in Regs /\ n.status = r.status /\ n.sel = r.sel /\ n.features = r.features
      /\ n.q = qs
  BY <1>7, <1>8, Zenon DEF Regs
<1> QED BY <1>1, <1>3, <1>5, <1>7, <1>9, Zenon DEF OneField

\* The field f of queue i that the driver writes at step g of its probe.
FieldAt(g, i, f) ==
  /\ g \in {4, 5, 6, 8, 9, 10} /\ i \in Queues /\ f \in {"num", "addr", "ready"}
  /\ i = IF g < 7 THEN 0 ELSE 1
  /\ f = IF g \in {4, 8} THEN "num" ELSE IF g \in {5, 9} THEN "addr" ELSE "ready"

\* Each write to a queue takes the probe one step further.
LEMMA FieldProbes ==
    ASSUME NEW r \in Regs, NEW n, NEW v \in Nat \ {0}, NEW i, NEW f, NEW g,
           FieldAt(g, i, f), OneField(r, n, i, f, v), Probed(r, g)
    PROVE  Probed(n, g + 1)
<1>1. n.status = r.status /\ n.sel = r.sel /\ n.features = r.features
  BY DEF OneField
<1>2. Agreed(r) => Agreed(n)
  BY <1>1 DEF Agreed
<1>3. PICK b : b = (IF i = 0 THEN 4 ELSE 8) /\ b \in Nat
  OBVIOUS
<1>4. /\ g \in Nat /\ (g > b => f # "num") /\ (g > b + 1 => f # "addr")
      /\ (g < b + 1 => f = "num") /\ (g < b + 2 => f \in {"num", "addr"})
      /\ b <= g /\ g <= b + 2
  BY <1>3 DEF FieldAt, Queues
<1>5. QueueProbed(n.q[i], g + 1, b)
  <2>1. QueueProbed(r.q[i], g, b)
    <3>1. QueueProbed(r.q[0], g, 4) /\ QueueProbed(r.q[1], g, 8)
      BY Zenon DEF Probed
    <3> QED BY <1>3, <3>1, Zenon DEF FieldAt, Queues
  <2>0. v # 0
    OBVIOUS
  <2>2. f = "num" \/ (r.q[i].num # 0) => n.q[i].num # 0
    BY <2>0, Zenon DEF OneField
  <2>3. f = "addr" \/ (r.q[i].addr # 0) => n.q[i].addr # 0
    BY <2>0, Zenon DEF OneField
  <2>4. f = "ready" \/ r.q[i].ready => n.q[i].ready
    BY Zenon DEF OneField
  <2>5. f \in {"num", "addr", "ready"}
    BY Zenon DEF FieldAt
  <2>6. /\ g > b => r.q[i].num # 0
        /\ g > b + 1 => r.q[i].addr # 0
        /\ g > b + 2 => r.q[i].ready
    BY <2>1, Zenon DEF QueueProbed
  <2>7. n.q[i].num # 0
    <3>1. g > b \/ g < b + 1
      BY <1>3, <1>4
    <3> QED BY <1>4, <2>2, <2>6, <3>1, Zenon
  <2>8. g + 1 > b + 1 => n.q[i].addr # 0
    <3>1. g + 1 > b + 1 => g > b
      BY <1>3, <1>4
    <3>2. g > b + 1 \/ g < b + 2
      BY <1>3, <1>4
    <3> QED BY <1>4, <2>3, <2>6, <3>1, <3>2, Zenon
  <2>9. g + 1 > b + 2 => n.q[i].ready
    <3>1. g + 1 > b + 2 => g > b + 1 /\ g > b
      BY <1>3, <1>4
    <3> QED BY <1>4, <2>4, <2>5, <3>1, Zenon
  <2> QED BY <2>7, <2>8, <2>9, Zenon DEF QueueProbed
<1>6. CASE i = 0
  <2>1. g \in {4, 5, 6} /\ b = 4
    BY <1>3, <1>4, <1>6
  <2>2. QueueProbed(n.q[1], g + 1, 8)
    BY <2>1 DEF QueueProbed
  <2>3. QueueProbed(n.q[0], g + 1, 4)
    BY <1>5, <1>6, <2>1, Zenon
  <2>4. g < 12 /\ g + 1 < 12 /\ g >= 3 /\ g \in 4..6 /\ g + 1 \notin 8..10
    BY <2>1
  <2> QED BY <1>1, <1>2, <2>2, <2>3, <2>4, Zenon DEF Probed
<1>7. CASE i = 1
  <2>1. g \in {8, 9, 10} /\ b = 8
    BY <1>3, <1>4, <1>7
  <2>2. QueueProbed(n.q[0], g + 1, 4)
    <3>1. n.q[0] = r.q[0]
      BY <1>7 DEF OneField, Queues
    <3>2. QueueProbed(r.q[0], g, 4)
      BY Zenon DEF Probed
    <3> QED BY <2>1, <3>1, <3>2 DEF QueueProbed
  <2>3. QueueProbed(n.q[1], g + 1, 8)
    BY <1>5, <1>7, <2>1, Zenon
  <2>4. g < 12 /\ g + 1 < 12 /\ g >= 3 /\ g \in 8..10 /\ g + 1 \notin 4..6
    BY <2>1
  <2> QED BY <1>1, <1>2, <2>2, <2>3, <2>4, Zenon DEF Probed
<1> QED BY <1>6, <1>7 DEF FieldAt, Queues

\* The features the driver takes are, for the rings, those virtiofsd was given.
LEMMA AcceptedAgrees ==
    ASSUME Connection, Stage, pc = "run"
    PROVE  /\ Accepted(features) \in SUBSET (Offered \cup {"VERSION_1"})
           /\ SameFeatures => Accepted(features) \cap RingFeatures = Offered \cap RingFeatures
<1>1. "VERSION_1" \notin RingFeatures
  BY SetupAssumption
<1>2. CASE vpc = "up"
  <2>1. features = Offered \cup {"VERSION_1"}
    BY <1>2, Zenon DEF Connection
  <2> QED BY <1>1, <2>1 DEF Accepted
<1>3. CASE vpc = "none" /\ ~Share
  <2>1. features = {"VERSION_1"} /\ ~BootShare
    BY <1>3 DEF Stage, Share
  <2>2. SameFeatures => Offered \cap RingFeatures = {}
    BY <2>1 DEF SameFeatures
  <2> QED BY <1>1, <2>1, <2>2 DEF Accepted
<1> QED BY <1>2, <1>3, Zenon DEF Stage

\* What the driver of the virtio-fs device writes, step by step.
LEMMA FsWrites ==
    ASSUME SetupInv, FsWrite
    PROVE  /\ pc = "run" /\ gpc \in 1..10 /\ gpc' = gpc + 1 /\ UNCHANGED <<late, retry, avail, snap>>
           /\ fds' \in {fds, NoFds}
           /\ gpc = 1 => fs' = [ResetRegs EXCEPT !.sel = fs.sel]
           /\ gpc = 2 => fs' = [fs EXCEPT !.features = Accepted(features)]
           /\ gpc = 3 => fs' = [fs EXCEPT !.sel = 0]
           /\ gpc = 7 => fs' = [fs EXCEPT !.sel = 1]
           /\ gpc \in {4, 8} => fs' = QueueWrite(fs, "num", 64)
           /\ gpc \in {5, 9} => fs' = QueueWrite(fs, "addr", retry + 1)
           /\ gpc \in {6, 10} => fs' = QueueWrite(fs, "ready", TRUE)
<1>1. PICK s \in Registers :
        /\ pc = "run" /\ Program[gpc][1] = "fs" /\ Program[gpc][2] = s
        /\ fs' = Written(fs, s, features) /\ fds' = IF s = "reset" THEN NoFds ELSE fds
  BY Zenon DEF FsWrite, At
<1>2. gpc \in 1..26 /\ late \in BOOLEAN
  BY <1>1, Zenon DEF SetupInv, Running, Stage
<1>3. gpc \in 1..10
  BY <1>1, <1>2, ProgramIs DEF Registers
<1>4. gpc' = gpc + 1 /\ UNCHANGED <<late, retry, avail, snap>>
  BY DEF FsWrite, Step
<1>5. fds' \in {fds, NoFds}
  BY <1>1, Zenon
<1>6. /\ Written(fs, "reset", features) = [ResetRegs EXCEPT !.sel = fs.sel]
      /\ Written(fs, "features", features) = [fs EXCEPT !.features = Accepted(features)]
      /\ Written(fs, "sel", features) = [fs EXCEPT !.sel = Operand]
      /\ Written(fs, "num", features) = QueueWrite(fs, "num", Operand)
      /\ Written(fs, "addr", features) = QueueWrite(fs, "addr", retry + 1)
      /\ Written(fs, "ready", features) = QueueWrite(fs, "ready", TRUE)
  BY DEF Written
<1>7. /\ gpc = 1 => s = "reset"
      /\ gpc = 2 => s = "features"
      /\ gpc = 3 => s = "sel" /\ Operand = 0
      /\ gpc = 7 => s = "sel" /\ Operand = 1
      /\ gpc \in {4, 8} => s = "num" /\ Operand = 64
      /\ gpc \in {5, 9} => s = "addr"
      /\ gpc \in {6, 10} => s = "ready"
  <2>1. Program[gpc][2] = s
    BY <1>1, Zenon
  <2>2. late \in BOOLEAN
    BY <1>2, Zenon
  <2> QED BY <2>1, <2>2, ProgramIs DEF Operand
<1>8. /\ gpc = 1 => fs' = [ResetRegs EXCEPT !.sel = fs.sel]
      /\ gpc = 2 => fs' = [fs EXCEPT !.features = Accepted(features)]
      /\ gpc = 3 => fs' = [fs EXCEPT !.sel = 0]
      /\ gpc = 7 => fs' = [fs EXCEPT !.sel = 1]
  BY <1>1, <1>6, <1>7, Zenon
<1>9. /\ gpc \in {4, 8} => fs' = QueueWrite(fs, "num", 64)
      /\ gpc \in {5, 9} => fs' = QueueWrite(fs, "addr", retry + 1)
      /\ gpc \in {6, 10} => fs' = QueueWrite(fs, "ready", TRUE)
  BY <1>1, <1>6, <1>7, Zenon
<1> QED BY <1>1, <1>3, <1>4, <1>5, <1>8, <1>9, Zenon

LEMMA FsWriteProbes ==
    ASSUME SetupInv, FsWrite
    PROVE  fs' \in Regs /\ Probed(fs, gpc)'
<1>0. /\ gpc \in 1..10 /\ gpc' = gpc + 1 /\ fs \in Regs /\ retry + 1 \in Nat \ {0} /\ Probed(fs, gpc)
      /\ Connection /\ Stage /\ pc = "run"
  <2>1. fs \in Regs /\ retry \in Nat /\ pc = "run" /\ gpc \in 1..10 /\ gpc' = gpc + 1
    BY FsWrites, Zenon DEF SetupInv, Stage
  <2>2. Probed(fs, gpc)
    BY <2>1 DEF SetupInv, Running
  <2> QED BY <2>1, <2>2 DEF SetupInv
<1>1. CASE gpc = 1
  <2>1. fs' = [ResetRegs EXCEPT !.sel = fs.sel]
    BY <1>1, FsWrites
  <2>2. fs' \in Regs /\ fs'.status = 0
    BY <1>0, <2>1, Zenon DEF Regs, ResetRegs, NoQueue, QueueRegs
  <2> QED BY <1>0, <1>1, <2>2 DEF Probed, QueueProbed
<1>2. CASE gpc = 2
  <2>1. fs' = [fs EXCEPT !.features = Accepted(features)]
    BY <1>2, FsWrites
  <2>2. fs' \in Regs /\ fs'.features = Accepted(features) /\ fs'.status = fs.status
    BY <1>0, <2>1, AcceptedAgrees DEF Regs
  <2>3. Agreed(fs)'
    BY <1>0, <2>2, AcceptedAgrees, Zenon DEF Agreed, SameFeatures
  <2> QED BY <1>0, <1>2, <2>2, <2>3 DEF Probed, QueueProbed
<1>3. CASE gpc \in {3, 7}
  <2>1. PICK v \in {0, 1} : fs' = [fs EXCEPT !.sel = v] /\ v = IF gpc = 3 THEN 0 ELSE 1
    BY <1>3, FsWrites
  <2>2. /\ fs' \in Regs /\ fs'.features = fs.features /\ fs'.status = fs.status
        /\ fs'.q = fs.q /\ fs'.sel = v
    BY <1>0, <2>1 DEF Regs
  <2> QED BY <1>0, <1>3, <2>1, <2>2 DEF Probed, QueueProbed, Agreed
<1>4. CASE gpc \in {4, 5, 6, 8, 9, 10}
  <2>1. PICK i \in Queues : fs.sel = i /\ i = IF gpc < 7 THEN 0 ELSE 1
    BY <1>0, <1>4 DEF Probed, Queues
  <2>2. PICK f \in {"num", "addr", "ready"}, v \in Nat \ {0} :
          /\ fs' = QueueWrite(fs, f, IF f = "ready" THEN TRUE ELSE v)
          /\ f = IF gpc \in {4, 8} THEN "num" ELSE IF gpc \in {5, 9} THEN "addr" ELSE "ready"
    <3>0. /\ gpc \in {4, 8} => fs' = QueueWrite(fs, "num", 64)
          /\ gpc \in {5, 9} => fs' = QueueWrite(fs, "addr", retry + 1)
          /\ gpc \in {6, 10} => fs' = QueueWrite(fs, "ready", TRUE)
      BY FsWrites, Zenon
    <3>1. CASE gpc \in {4, 8}
      <4>1. 64 \in Nat \ {0}
        OBVIOUS
      <4> QED BY <3>0, <3>1, <4>1, Zenon
    <3>2. CASE gpc \in {5, 9}
      <4>1. gpc \notin {4, 8}
        BY <3>2
      <4> QED BY <1>0, <3>0, <3>2, <4>1, Zenon
    <3>3. CASE gpc \in {6, 10}
      <4>1. gpc \notin {4, 8} /\ gpc \notin {5, 9} /\ 64 \in Nat \ {0}
        BY <3>3
      <4> QED BY <3>0, <3>3, <4>1, Zenon
    <3> QED BY <1>4, <3>1, <3>2, <3>3, Zenon
  <2>3. PICK n : n = fs' /\ n = QueueWrite(fs, f, IF f = "ready" THEN TRUE ELSE v)
    BY <2>2, Zenon
  <2>4. fs \in Regs /\ fs.sel = i
    BY <1>0, <2>1, Zenon
  <2>5. OneField(fs, n, i, f, v)
    BY <2>3, <2>4, QueueWritten, Zenon
  <2>6. PICK g : g = gpc /\ g \in {4, 5, 6, 8, 9, 10} /\ Probed(fs, g) /\ gpc' = g + 1
    BY <1>0, <1>4, Zenon
  <2>7. FieldAt(g, i, f)
    BY <2>1, <2>2, <2>6, Zenon DEF FieldAt
  <2>8. Probed(n, g + 1)
    BY <2>4, <2>5, <2>6, <2>7, FieldProbes, Zenon
  <2>9. Probed(fs, gpc)'
    <3>1. fs' = n /\ gpc' = g + 1
      BY <2>3, <2>6, Zenon
    <3> QED BY <2>8, <3>1, Zenon DEF Probed, Agreed, SameFeatures
  <2> QED BY <2>3, <2>5, <2>9, Zenon DEF OneField
<1> QED BY <1>0, <1>1, <1>2, <1>3, <1>4

LEMMA FsWriteStep == ASSUME SetupInv, FsWrite PROVE SetupInv'
<1>0. /\ UNCHANGED vhostVars /\ UNCHANGED <<mode, pc, image, nextFd, fsActive, late, retry, avail, snap>>
      /\ Connection /\ InOrder(chan) /\ EnabledIsComplete /\ Stage /\ Running /\ Wired
  BY DEF FsWrite, Step, SetupInv
<1>1. pc = "run" /\ gpc \in 1..10 /\ gpc' = gpc + 1 /\ fds' \in {fds, NoFds}
  BY FsWrites
<1>2. fs' \in Regs /\ Probed(fs, gpc)'
  BY FsWriteProbes
<1>3. Connection' /\ InOrder(chan)' /\ EnabledIsComplete'
  BY <1>0, ConnectionKept
<1>4. UNCHANGED <<vpc, features, chan, ring, daemon>>
  BY <1>0 DEF vhostVars, backVars
<1>5. ~fsActive /\ avail = 0
  BY <1>0, <1>1 DEF Running
<1>6. fds' \in [Queues -> [kick : Nat, call : Nat]]
  BY <1>0, <1>1 DEF Stage, NoFds
<1>7. Stage'
  BY <1>0, <1>1, <1>2, <1>4, <1>6, Zenon DEF Stage, Share, SnapOK
<1>8. Running'
  BY <1>0, <1>1, <1>2, <1>5 DEF Running
<1>9. Wired'
  BY <1>0, <1>4, <1>5 DEF Wired, Quiet
<1> QED BY <1>3, <1>7, <1>8, <1>9 DEF SetupInv

LEMMA FsDriverOkStep == ASSUME SetupInv, FsDriverOk PROVE SetupInv'
<1>0. /\ pc = "run" /\ UNCHANGED <<mode, pc, image, late, retry, avail, snap>> /\ gpc' = gpc + 1
      /\ Program[gpc][1] = "fs" /\ Program[gpc][2] = "ok"
      /\ fs' = [fs EXCEPT !.status = OK] /\ VuSetup(fs)
      /\ Connection /\ InOrder(chan) /\ EnabledIsComplete /\ Stage /\ Running /\ Wired
  BY DEF FsDriverOk, At, Step, SetupInv
<1>1. gpc \in 1..26 /\ late \in BOOLEAN /\ fs \in Regs /\ Probed(fs, gpc)
  BY <1>0 DEF Running, Stage
<1>2. gpc = 11
  BY <1>0, <1>1, ProgramIs
<1>3. ~fsActive /\ avail = 0 /\ Ready(fs, 0) /\ Ready(fs, 1) /\ Agreed(fs)
  BY <1>0, <1>1, <1>2 DEF Running, Probed, QueueProbed, Ready
<1>4. /\ fs' \in Regs /\ fs'.status = OK /\ fs'.q = fs.q /\ fs'.features = fs.features
  BY <1>0, <1>1 DEF Regs
<1>5. Probed(fs, gpc)'
  BY <1>0, <1>2, <1>3, <1>4 DEF Probed, QueueProbed, Ready, Agreed, SameFeatures
<1>6. CASE vpc = "up"
  <2>1. /\ Connection' /\ InOrder(chan)' /\ EnabledIsComplete'
        /\ UNCHANGED <<daemon, vpc, features, told, acked, ring>>
        /\ fsActive' = TRUE /\ nextFd' \in Nat \ {0}
        /\ fds' \in [Queues -> [kick : Nat, call : Nat]]
        /\ \A i \in Queues : fds'[i] = NewFds(i)
        /\ \A k \in 1..Len(chan') : chan'[k].req \in RingRequests => Carries(fs, chan'[k])
        /\ daemon = "serving" => \A i \in Queues, x \in RingRequests :
             \E k \in 1..Len(chan') : chan'[k].req = x /\ chan'[k].q = i
    BY <1>0, <1>1, <1>3, <1>6, WireKeeps, Zenon
  <2>2. Wired'
    <3>1. ring \in [Queues -> [RingRequests -> Nat]] /\ daemon' = daemon /\ pc' = "run"
      BY <1>0, <2>1 DEF Connection
    <3> QED BY <1>1, <1>4, <2>1, <3>1, WiredAfter, Zenon
  <2>3. Stage'
    BY <1>0, <1>4, <2>1 DEF Stage, Share, SnapOK
  <2>4. Running'
    BY <1>0, <1>2, <1>3, <1>5, <1>6, <2>1 DEF Running
  <2> QED BY <2>1, <2>2, <2>3, <2>4 DEF SetupInv
<1>7. CASE vpc # "up"
  <2>1. UNCHANGED <<fds, nextFd, fsActive, daemon, vpc, us, chan, reply, features, backVars>>
    BY <1>0, <1>7 DEF VuSetup
  <2>2. UNCHANGED vhostVars /\ UNCHANGED <<vpc, features, chan, ring, daemon>>
    BY <2>1 DEF vhostVars, backVars
  <2>3. Connection' /\ InOrder(chan)' /\ EnabledIsComplete'
    BY <1>0, <2>2, ConnectionKept
  <2>4. Stage'
    BY <1>0, <1>4, <2>1, <2>2 DEF Stage, Share, SnapOK
  <2>5. Running'
    BY <1>0, <1>2, <1>3, <1>5, <1>7, <2>1 DEF Running
  <2>6. Wired'
    BY <1>0, <1>3, <2>1 DEF Wired, Quiet
  <2> QED BY <2>3, <2>4, <2>5, <2>6 DEF SetupInv
<1> QED BY <1>6, <1>7

\* init waits for its mount at one step only.
LEMMA WaitsAt ==
    ASSUME late \in BOOLEAN, gpc \in 1..26, Program[gpc][1] = "init", Program[gpc][2] = "wait"
    PROVE  gpc = 25
BY ProgramIs

LEMMA OtherGuestStep ==
    ASSUME SetupInv, NetWrite \/ NetDriverOk \/ RetryProbe \/ Mount \/ Served
    PROVE  SetupInv'
<1>0. /\ UNCHANGED vhostVars /\ pc = "run"
      /\ UNCHANGED <<mode, pc, image, fds, nextFd, fsActive, fs, late, snap>>
  BY DEF NetWrite, NetDriverOk, RetryProbe, Mount, Served, At, Step, procVars, devVars
<1>1. gpc \in 1..26 /\ avail = (IF gpc < 25 THEN 0 ELSE 1) /\ late \in BOOLEAN /\ retry \in Nat
  BY <1>0, Zenon DEF SetupInv, Running, Stage
<1>2. CASE NetWrite \/ NetDriverOk
  <2>1. Program[gpc][1] = "net" /\ gpc' = gpc + 1 /\ UNCHANGED <<retry, avail>>
    BY <1>2 DEF NetWrite, NetDriverOk, At, Step
  <2>2. gpc \in 12..23
    BY <1>1, <2>1, ProgramIs
  <2>9. /\ retry' \in Nat /\ gpc' \in 1..26 /\ avail' = IF gpc' < 25 THEN 0 ELSE 1
        /\ gpc' >= 12 <=> gpc >= 12
        /\ gpc < 12 => gpc' = 1
    BY <1>1, <2>1, <2>2
  <2> QED BY <1>0, <2>9, GuestStep, Zenon
<1>3. CASE RetryProbe
  <2>1. PICK first \in 1..gpc : Program[first] = <<Program[gpc][1], "reset">> /\ gpc' = first
    BY <1>3, Zenon DEF RetryProbe
  <2>2. Program[gpc][1] \in {"fs", "net"} /\ UNCHANGED avail /\ retry' = retry + 1
    BY <1>3, Zenon DEF RetryProbe
  <2>3. Program[first][1] = Program[gpc][1] /\ Program[first][2] = "reset" /\ gpc \in 1..23
    <3>1. gpc \in 1..23
      BY <1>1, <2>2, ProgramIs
    <3>2. Program[first][1] = Program[gpc][1] /\ Program[first][2] = "reset"
      BY <2>1
    <3> QED BY <3>1, <3>2, Zenon
  <2>4. CASE gpc < 12
    <3>0. \A k \in 2..11 : k \in {2, 3, 4, 5, 6, 7, 8, 9, 10, 11}
      OBVIOUS
    <3>1. \A k \in {2, 3, 4, 5, 6, 7, 8, 9, 10, 11} : Program[k][2] # "reset"
      BY <1>1, ProgramIs
    <3>2. first = 1
      BY <1>1, <2>1, <2>3, <2>4, <3>0, <3>1
    <3>9. /\ retry' \in Nat /\ gpc' \in 1..26 /\ avail' = IF gpc' < 25 THEN 0 ELSE 1
          /\ gpc' >= 12 <=> gpc >= 12
          /\ gpc < 12 => gpc' = 1
      BY <1>1, <2>1, <2>2, <2>4, <3>2
    <3> QED BY <1>0, <3>9, GuestStep, Zenon
  <2>5. CASE gpc >= 12
    <3>0. Program[gpc][1] # "fs"
      BY <1>1, <2>5, ProgramIs
    <3>a. \A k \in 1..11 : k \in {1, 2, 3, 4, 5, 6, 7, 8, 9, 10, 11}
      OBVIOUS
    <3>b. \A k \in {1, 2, 3, 4, 5, 6, 7, 8, 9, 10, 11} : Program[k][1] = "fs"
      BY <1>1, ProgramIs
    <3>c. first \notin 1..11
      BY <2>3, <3>0, <3>a, <3>b, Zenon
    <3>1. first >= 12
      BY <1>1, <2>1, <3>c
    <3>9. /\ retry' \in Nat /\ gpc' \in 1..26 /\ avail' = IF gpc' < 25 THEN 0 ELSE 1
          /\ gpc' >= 12 <=> gpc >= 12
          /\ gpc < 12 => gpc' = 1
      BY <1>1, <2>1, <2>2, <2>3, <2>5, <3>1
    <3> QED BY <1>0, <3>9, GuestStep, Zenon
  <2> QED BY <1>1, <2>4, <2>5
<1>4. CASE Mount
  <2>1. /\ Program[gpc][1] = "init" /\ Program[gpc][2] = "mount" /\ gpc' = gpc + 1
        /\ UNCHANGED retry /\ avail' = avail + 1
    BY <1>4, Zenon DEF Mount, At, Step
  <2>2. gpc = 24
    BY <1>1, <2>1, ProgramIs
  <2>9. /\ retry' \in Nat /\ gpc' \in 1..26 /\ avail' = IF gpc' < 25 THEN 0 ELSE 1
        /\ gpc' >= 12 <=> gpc >= 12
        /\ gpc < 12 => gpc' = 1
    BY <1>1, <2>1, <2>2
  <2> QED BY <1>0, <2>9, GuestStep, Zenon
<1>5. CASE Served
  <2>1. /\ Program[gpc][1] = "init" /\ Program[gpc][2] = "wait" /\ gpc' = gpc + 1
        /\ UNCHANGED <<retry, avail>>
    BY <1>5, Zenon DEF Served, At, Step
  <2>2. gpc = 25
    BY <1>1, <2>1, WaitsAt
  <2>9. /\ retry' \in Nat /\ gpc' \in 1..26 /\ avail' = IF gpc' < 25 THEN 0 ELSE 1
        /\ gpc' >= 12 <=> gpc >= 12
        /\ gpc < 12 => gpc' = 1
    BY <1>1, <2>1, <2>2
  <2> QED BY <1>0, <2>9, GuestStep, Zenon
<1> QED BY <1>2, <1>3, <1>4, <1>5

LEMMA JoinNetStep == ASSUME SetupInv, JoinNet PROVE SetupInv'
<1>0. /\ UNCHANGED <<mode, image, nextFd, fsActive, fs, gpc, late, retry, avail, snap>>
      /\ UNCHANGED <<vpc, chan, reply, features, told, acked, ring>>
      /\ pc' = "exit" /\ daemon' \in {"none", "dead"} /\ fds' = NoFds
      /\ Connection /\ InOrder(chan) /\ EnabledIsComplete /\ Stage /\ Wired
  BY Zenon DEF JoinNet, Goto, devVars, guestVars, backVars, SetupInv
<1>1. Connection'
  BY <1>0, Zenon DEF Connection
<1>2. InOrder(chan)' /\ EnabledIsComplete'
  BY <1>0, OrderKept, Zenon
<1>3. Stage'
  BY <1>0, Zenon DEF Stage, SnapOK, NoFds
<1>4. Wired'
  BY <1>0 DEF Wired, Quiet
<1> QED BY <1>0, <1>1, <1>2, <1>3, <1>4, Zenon DEF SetupInv, Running

LEMMA DaemonStep == ASSUME SetupInv, Daemon PROVE SetupInv'
<1>0. /\ UNCHANGED <<mode, pc, image, fds, nextFd, fsActive, fs, gpc, late, retry, avail, snap>>
      /\ Connection /\ InOrder(chan) /\ EnabledIsComplete /\ Stage /\ Running /\ Wired
  BY DEF Daemon, procVars, devVars, guestVars, SetupInv
<1>1. Connection' /\ InOrder(chan)' /\ EnabledIsComplete'
  BY <1>0, HandleKeeps, ConnectKeeps DEF Daemon
<1>2. UNCHANGED <<vpc, features>>
  BY DEF Daemon, DaemonStart, DaemonHandle, DaemonDie
<1>3. Stage'
  BY <1>0, <1>2, StageKept, Zenon
<1>4. Running'
  BY <1>0, <1>2, Zenon DEF Running, Probed
<1>5. Wired'
  <2>1. CASE DaemonHandle
    BY <1>0, <2>1, HandleWired
  <2>2. CASE DaemonStart \/ DaemonDie
    <3>1. UNCHANGED <<chan, ring>> /\ daemon' # "serving"
      BY <2>2 DEF DaemonStart, DaemonDie, backVars
    <3> QED BY <1>0, <3>1, WiredSame
  <2> QED BY <2>1, <2>2 DEF Daemon
<1> QED BY <1>1, <1>3, <1>4, <1>5 DEF SetupInv

LEMMA SetupStep == SetupInv /\ [Next]_vars => SetupInv'
<1> SUFFICES ASSUME SetupInv, [Next]_vars PROVE SetupInv'
  OBVIOUS
<1>1. CASE UNCHANGED vars
  BY <1>1, ProcStep DEF vars, procVars, devVars, guestVars
<1>2. CASE \E t \in 1..Len(threads) : NetThread(t)
  BY <1>2, ProcStep DEF NetThread, devVars, guestVars
<1>3. CASE StopNet \/ PowerOff
  BY <1>3, ProcStep, Zenon DEF StopNet, PowerOff, Goto, devVars, guestVars
<1>4. CASE FsWrite \/ FsDriverOk \/ NetWrite \/ NetDriverOk \/ Mount \/ Served \/ RetryProbe
  BY <1>4, FsWriteStep, FsDriverOkStep, OtherGuestStep
<1>5. CASE InitVm \/ StartVirtiofsd \/ SetupDevices \/ LoadBoot \/ Save \/ RestoreDevices
  BY <1>5, InitVmStep, StartVirtiofsdStep, SetupDevicesStep, LoadBootStep, SaveStep,
     RestoreDevicesStep
<1>6. CASE StartRestore \/ Daemon \/ JoinNet
  BY <1>6, StartRestoreStep, DaemonStep, JoinNetStep
<1> QED BY <1>1, <1>2, <1>3, <1>4, <1>5, <1>6 DEF Next, Main, Guest

\* The state of the connection to virtiofsd and of the devices is consistent
\* all through boot, snapshot and restore.
THEOREM SetupInvariant == Spec => []SetupInv
<1>1. Init => SetupInv
  BY InitSetup
<1>2. SetupInv /\ [Next]_vars => SetupInv'
  BY SetupStep
<1> QED BY <1>1, <1>2, PTL DEF Spec

\* virtiofsd never uses a ring it knows only in part, whatever the driver,
\* the snapshot and its own death do to the stream of messages.
THEOREM RingsComplete == Spec => []EnabledIsComplete
<1>1. SetupInv => EnabledIsComplete
  BY DEF SetupInv
<1> QED BY <1>1, SetupInvariant, PTL

\* The features of a ring in use are the guest's, if both boots offered them.
LEMMA FeaturesAgree ==
    ASSUME SetupInv, SameFeatures, pc = "run", gpc >= 12, vpc = "up", daemon = "serving",
           chan = <<>>
    PROVE  acked \cap RingFeatures = fs.features \cap RingFeatures
<1>1. Agreed(fs)
  <2>1. gpc \in 1..26 /\ Probed(fs, gpc)
    BY DEF SetupInv, Running
  <2> QED BY <2>1 DEF Probed
<1>2. ToldBy(chan, "SET_FEATURES", Len(chan) + 1)
  BY Zenon DEF SetupInv, Connection, Handshake
<1>3. "SET_FEATURES" \in told
  BY <1>2 DEF ToldBy
<1>4. acked = Offered
  BY <1>3, Zenon DEF SetupInv, Connection
<1> QED BY <1>1, <1>4 DEF Agreed

LEMMA RingsAsConfigured ==
    ASSUME SetupInv, pc = "run", gpc >= 12, vpc = "up", daemon = "serving", chan = <<>>,
           NEW i \in Queues
    PROVE  /\ ring[i]["ENABLE"] = 1 /\ ring[i]["BASE"] = 0
           /\ ring[i]["NUM"] = fs.q[i].num /\ ring[i]["ADDR"] = fs.q[i].addr
           /\ ring[i]["KICK"] = fds[i].kick /\ ring[i]["CALL"] = fds[i].call
<1>1. fsActive
  BY DEF SetupInv, Running
<1>2. \A x \in RingRequests : ring[i][x] = Want(x, i)
  BY <1>1 DEF SetupInv, Wired, NothingMissing
<1> QED BY <1>2 DEF RingRequests, Want

\* What virtiofsd knows of a queue is what the guest's driver configured and
\* the eventfds of the process that runs the guest, if boot had a virtiofsd
\* too or virtiofsd offers no feature that changes a ring.
THEOREM SetupWires == ASSUME SameFeatures PROVE Spec => []WiredAsConfigured
<1>1. SetupInv => WiredAsConfigured
  <2> SUFFICES ASSUME SetupInv, pc = "run", fs.status = OK, vpc = "up", daemon = "serving", chan = <<>>
               PROVE  \A i \in Queues :
                        /\ ring[i]["ENABLE"] = 1 /\ ring[i]["BASE"] = 0
                        /\ ring[i]["NUM"] = fs.q[i].num /\ ring[i]["ADDR"] = fs.q[i].addr
                        /\ ring[i]["KICK"] = fds[i].kick /\ ring[i]["CALL"] = fds[i].call
                        /\ acked \cap RingFeatures = fs.features \cap RingFeatures
    BY Zenon DEF WiredAsConfigured
  <2>1. gpc \in 1..26 /\ Probed(fs, gpc)
    BY DEF SetupInv, Running
  <2>2. gpc >= 12
    BY <2>1 DEF Probed, OK
  <2> QED BY <2>2, FeaturesAgree, RingsAsConfigured, Zenon
<1> QED BY <1>1, SetupInvariant, PTL

\* A guest that waits for its first mount, in the restored process, is served
\* from the index virtiofsd was given, under the same condition.
THEOREM FirstRequestServed == ASSUME SameFeatures PROVE Spec => []FirstRequestIsIndexZero
<1>1. SetupInv => FirstRequestIsIndexZero
  <2> SUFFICES ASSUME SetupInv, At("init", "wait"), daemon = "serving", chan = <<>>
               PROVE  RingServed
    BY DEF FirstRequestIsIndexZero
  <2>1. pc = "run" /\ Program[gpc][1] = "init" /\ Program[gpc][2] = "wait"
    BY Zenon DEF At
  <2>2. gpc \in 1..26 /\ avail = (IF gpc < 25 THEN 0 ELSE 1) /\ late \in BOOLEAN
    BY <2>1, Zenon DEF SetupInv, Running, Stage
  <2>3. gpc = 25 /\ avail = 1
    <3>1. gpc = 25
      BY <2>1, <2>2, WaitsAt
    <3> QED BY <2>2, <3>1
  <2>4. vpc = "up"
    BY <2>1, Zenon DEF SetupInv, Stage, Connection
  <2>5. acked \cap RingFeatures = fs.features \cap RingFeatures
    BY <2>1, <2>3, <2>4, FeaturesAgree
  <2>6. /\ ring[1]["ENABLE"] = 1 /\ ring[1]["BASE"] = 0
        /\ ring[1]["NUM"] = fs.q[1].num /\ ring[1]["ADDR"] = fs.q[1].addr
        /\ ring[1]["KICK"] = fds[1].kick /\ ring[1]["CALL"] = fds[1].call
    BY <2>1, <2>3, <2>4, RingsAsConfigured DEF Queues
  <2> QED BY <2>3, <2>5, <2>6 DEF RingServed
<1> QED BY <1>1, SetupInvariant, PTL

-----------------------------------------------------------------------------
(* The boot layout, for every size of memory, kernel and initrd.           *)

\* The initrd ends inside RAM and starts less than a mebibyte below where it
\* would just fit.
LEMMA InitrdPlace ==
    ASSUME NEW ram \in Nat, NEW initrd \in Nat, initrd <= ram
    PROVE  /\ InitrdAt(ram, initrd) \in Nat
           /\ InitrdAt(ram, initrd) + initrd <= ram
           /\ ram - initrd < InitrdAt(ram, initrd) + 1024
<1> DEFINE x == ram - initrd
           d == x \div 1024
<1>1. x \in Nat
  OBVIOUS
<1> HIDE DEF x
<1>2. d \in Nat /\ d * 1024 <= x /\ x < d * 1024 + 1024
  BY <1>1
<1>3. InitrdAt(ram, initrd) = d * 1024
  BY DEF InitrdAt, x
<1> HIDE DEF d
<1> QED BY <1>2, <1>3 DEF x

\* Nothing that is loaded overlaps anything else, if the image fits.
LEMMA LayoutFits ==
    ASSUME NEW ram \in Nat, NEW setup \in Nat, NEW kernel \in Nat, NEW initrd \in Nat,
           setup <= 64, Kernel + kernel + initrd + 1024 <= ram,
           NEW all, all = Loaded(ram, setup, kernel, initrd)
    PROVE  /\ \A m, n \in 1..4 : m # n => ~Overlap(all[m], all[n])
           /\ \A n \in 1..4 : \E e \in E820Ram(ram) : Within(all[n], e)
           /\ \A n \in 1..4, s \in BiosRegions \cup E820Reserved : ~Overlap(all[n], s)
<1>1. PICK top \in Nat : /\ top = InitrdAt(ram, initrd) /\ top + initrd <= ram
                         /\ ram - initrd < top + 1024
  BY InitrdPlace DEF Kernel
<1>2. top > 1024 + kernel
  BY <1>1 DEF Kernel
<1>3. /\ all[1].at = 64 /\ all[1].len = setup /\ all[2].at = 128 /\ all[2].len = 4
      /\ all[3].at = 1024 /\ all[3].len = kernel /\ all[4].at = top /\ all[4].len = initrd
  BY <1>1 DEF Loaded, SetupRegion, CmdlineRegion, KernelRegion, InitrdRegion, Region, Kernel
<1>4. \A n \in 1..4 : n \in {1, 2, 3, 4}
  OBVIOUS
<1>5. \A m, n \in 1..4 : m # n => ~Overlap(all[m], all[n])
  <2>1. /\ ~Overlap(all[1], all[2]) /\ ~Overlap(all[1], all[3]) /\ ~Overlap(all[1], all[4])
        /\ ~Overlap(all[2], all[3]) /\ ~Overlap(all[2], all[4]) /\ ~Overlap(all[3], all[4])
    BY <1>2, <1>3 DEF Overlap
  <2>2. \A r, s : Overlap(r, s) => Overlap(s, r)
    BY Zenon DEF Overlap
  <2> QED BY <1>4, <2>1, <2>2, Zenon
<1>6. \A n \in 1..4 : \E e \in E820Ram(ram) : Within(all[n], e)
  <2>1. Within(all[1], Region(0, EBDA)) /\ Within(all[2], Region(0, EBDA))
    BY <1>3 DEF Within, Region, EBDA
  <2>2. Within(all[3], Region(Kernel, ram - Kernel))
    BY <1>3 DEF Within, Region, Kernel
  <2>3. Within(all[4], Region(Kernel, ram - Kernel))
    BY <1>1, <1>2, <1>3 DEF Within, Region, Kernel
  <2> QED BY <1>4, <2>1, <2>2, <2>3, Zenon DEF E820Ram
<1>7. ASSUME NEW n \in 1..4, NEW s \in BiosRegions \cup E820Reserved PROVE ~Overlap(all[n], s)
  <2>1. (s.at = 0 /\ s.len = 2) \/ (s.at >= 639 /\ s.at + s.len <= 1024 /\ s.len \in Nat /\ s.at \in Nat)
    BY DEF BiosRegions, E820Reserved, Region, EBDA, VGA, BIOS
  <2>2. /\ ~Overlap(all[1], s) /\ ~Overlap(all[2], s) /\ ~Overlap(all[3], s)
    BY <1>3, <2>1 DEF Overlap
  <2>3. ~Overlap(all[4], s)
    BY <1>2, <1>3, <2>1 DEF Overlap
  <2> QED BY <1>4, <2>2, <2>3, Zenon
<1> QED BY <1>5, <1>6, <1>7, Zenon

\* Setup code, command line, kernel and initrd never overlap one another or
\* the BIOS and lie in E820 RAM, for every image that leaves a mebibyte.
THEOREM LayoutIsDisjoint == Spec => []LayoutDisjoint
<1>1. SetupInv => LayoutDisjoint
  <2> SUFFICES ASSUME SetupInv, image # <<>> PROVE LayoutDisjoint
    BY Zenon DEF LayoutDisjoint
  <2>1. image \in Images
    BY Zenon DEF SetupInv, Stage
  <2>2. image[1] \in Nat /\ image[2] \in Nat /\ image[3] \in Nat /\ image[4] \in Nat
    BY <2>1, SetupAssumption
  <2> QED BY <2>2, LayoutFits, Zenon DEF LayoutDisjoint
<1> QED BY <1>1, SetupInvariant, PTL
=============================================================================
