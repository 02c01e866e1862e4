----------------------------- MODULE VhostUser -----------------------------
(***************************************************************************)
(* The vhost-user connection between the VMM and the virtiofsd process it  *)
(* forks: connecting with a backoff, the early handshake, the messages     *)
(* that wire a virtqueue, and virtiofsd's view of them.  virtiofsd may     *)
(* start late, not at all, or die at any moment; SIGPIPE is ignored, so a  *)
(* send to a dead peer only fails.                                         *)
(***************************************************************************)
EXTENDS Integers, Sequences, FiniteSetsExt

CONSTANTS Offered,    \* features virtiofsd offers
          MinUs,      \* first pause between two connect() calls
          MaxUs       \* the pause is doubled up to this

ASSUME VhostAssumption ==
  /\ MinUs \in Nat \ {0} /\ MaxUs \in Nat /\ MinUs <= MaxUs

VARIABLES daemon,     \* "none", "forked", "listening", "serving" or "dead"
          vpc,        \* where start_virtiofsd() is
          us,         \* the backoff
          chan,       \* messages on their way to virtiofsd
          reply,      \* its answers on their way back
          features,   \* vu_features_
          told,       \* requests about the connection virtiofsd has handled
          acked,      \* the features it was given
          ring        \* ring[q][r]: what request r gave it for queue q

backVars == <<told, acked, ring>>
vhostVars == <<daemon, vpc, us, chan, reply, features, backVars>>

\* A device has two virtqueues.
Queues == {0, 1}

RingRequests == {"NUM", "BASE", "ADDR", "KICK", "CALL", "ENABLE"}
NoRing == [r \in RingRequests |-> 0]

\* No connection yet: the state of a new VMM process.
VhostIdle ==
  /\ daemon = "none" /\ vpc = "none" /\ us = MinUs
  /\ chan = <<>> /\ reply = <<>>
  /\ features = {}
  /\ told = {} /\ acked = {} /\ ring = [q \in Queues |-> NoRing]

-----------------------------------------------------------------------------

\* fork() and exec of virtiofsd.
ForkDaemon ==
  /\ vpc = "none"
  /\ daemon' = "forked"
  /\ vpc' = "connect"
  /\ UNCHANGED <<us, chan, reply, features, backVars>>

\* Mutant: the loop ends once the pause has reached its maximum.
ConnectGivesUp ==
  /\ vpc = "connect"
  /\ \/ /\ daemon = "listening" /\ us < MaxUs
        /\ daemon' = "serving"
        /\ chan' = <<[req |-> "GET_FEATURES"]>>
        /\ vpc' = "features"
        /\ UNCHANGED us
     \/ /\ daemon # "listening" /\ us < MaxUs
        /\ us' = Min({us * 2, MaxUs})
        /\ UNCHANGED <<daemon, chan, vpc>>
  /\ UNCHANGED <<reply, features, backVars>>

\* vu_connect(): a refused connect() sleeps and doubles the pause; nothing
\* ends the loop but success.
Connect ==
  /\ vpc = "connect"
  /\ \/ /\ daemon = "listening"
        /\ daemon' = "serving"
        /\ chan' = <<[req |-> "GET_FEATURES"]>>
        /\ vpc' = "features"
        /\ UNCHANGED us
     \/ /\ daemon # "listening"
        /\ us <= MaxUs
        /\ us' = Min({us * 2, MaxUs})
        /\ UNCHANGED <<daemon, chan, vpc>>
  /\ UNCHANGED <<reply, features, backVars>>

\* sendmsg() of the messages ms; to a dead peer it fails.
Sent(ms) == IF daemon = "serving" THEN chan \o ms ELSE chan

\* vu_early_init(), answer to GET_FEATURES: every offered feature is
\* acknowledged at once; the guest is shown VERSION_1 on top of them.
GotFeatures ==
  /\ vpc = "features"
  /\ \/ /\ reply # <<>>
        /\ reply' = Tail(reply)
        /\ chan' = Sent(<<[req |-> "SET_FEATURES", v |-> Head(reply)],
                          [req |-> "GET_PROTOCOL_FEATURES"]>>)
        /\ features' = IF daemon = "serving" THEN Head(reply) \cup {"VERSION_1"} ELSE Head(reply)
        /\ vpc' = IF daemon = "serving" THEN "protocol" ELSE "failed"
     \/ /\ reply = <<>> /\ daemon = "dead"
        /\ vpc' = "failed"
        /\ UNCHANGED <<reply, chan, features>>
  /\ UNCHANGED <<daemon, us, backVars>>

\* vu_early_init(), answer to GET_PROTOCOL_FEATURES (a missing one is
\* tolerated), then owner, memory table and, if supported, backend channel.
GotProtocol ==
  /\ vpc = "protocol"
  /\ reply # <<>> \/ daemon = "dead"
  /\ reply' = IF reply = <<>> THEN reply ELSE Tail(reply)
  /\ chan' = Sent((IF reply = <<>> THEN <<>> ELSE <<[req |-> "SET_PROTOCOL_FEATURES"]>>)
                  \o <<[req |-> "SET_OWNER"], [req |-> "SET_MEM_TABLE"]>>
                  \o (IF reply # <<>> /\ "BACKEND_REQ" \in Head(reply)
                        THEN <<[req |-> "SET_BACKEND_REQ_FD"]>> ELSE <<>>))
  /\ vpc' = IF daemon = "serving" THEN "up" ELSE "failed"
  /\ UNCHANGED <<daemon, us, features, backVars>>

\* Mutant: the ring is enabled before its eventfds are known.
WireEnableEarly(i, q, kick, call) ==
  <<[req |-> "NUM", q |-> i, v |-> q.num],
    [req |-> "BASE", q |-> i, v |-> 0],
    [req |-> "ADDR", q |-> i, v |-> q.addr],
    [req |-> "ENABLE", q |-> i, v |-> 1],
    [req |-> "KICK", q |-> i, v |-> kick],
    [req |-> "CALL", q |-> i, v |-> call]>>

\* Mutant: the ring goes on from an index the guest never used.
WireBaseOne(i, q, kick, call) ==
  <<[req |-> "NUM", q |-> i, v |-> q.num],
    [req |-> "BASE", q |-> i, v |-> 1],
    [req |-> "ADDR", q |-> i, v |-> q.addr],
    [req |-> "KICK", q |-> i, v |-> kick],
    [req |-> "CALL", q |-> i, v |-> call],
    [req |-> "ENABLE", q |-> i, v |-> 1]>>

\* The six messages of vu_setup() for queue i; the ring index restarts at 0.
Wire(i, q, kick, call) ==
  <<[req |-> "NUM", q |-> i, v |-> q.num],
    [req |-> "BASE", q |-> i, v |-> 0],
    [req |-> "ADDR", q |-> i, v |-> q.addr],
    [req |-> "KICK", q |-> i, v |-> kick],
    [req |-> "CALL", q |-> i, v |-> call],
    [req |-> "ENABLE", q |-> i, v |-> 1]>>

-----------------------------------------------------------------------------
(* virtiofsd.                                                              *)

\* It reaches listen(), or exec fails.
DaemonStart ==
  /\ daemon = "forked"
  /\ daemon' \in {"listening", "dead"}
  /\ UNCHANGED <<vpc, us, chan, reply, features, backVars>>

\* It handles the next message.
DaemonHandle ==
  /\ daemon = "serving" /\ chan # <<>>
  /\ chan' = Tail(chan)
  /\ LET m == Head(chan) IN
     /\ reply' = CASE m.req = "GET_FEATURES" -> Append(reply, Offered)
                   [] m.req = "GET_PROTOCOL_FEATURES" -> Append(reply, {"BACKEND_REQ"})
                   [] OTHER -> reply
     /\ acked' = IF m.req = "SET_FEATURES" THEN m.v ELSE acked
     /\ IF m.req \in RingRequests
          THEN ring' = [ring EXCEPT ![m.q][m.req] = m.v] /\ UNCHANGED told
          ELSE told' = told \cup {m.req} /\ UNCHANGED ring
  /\ UNCHANGED <<daemon, vpc, us, features>>

\* It crashes, or is killed.
DaemonDie ==
  /\ daemon \in {"listening", "serving"}
  /\ daemon' = "dead"
  /\ UNCHANGED <<vpc, us, chan, reply, features, backVars>>

-----------------------------------------------------------------------------

\* virtiofsd uses a ring only once it owns the device, has the guest's memory
\* and features, and the ring has a size, an address and both eventfds: the
\* order of vu_early_init() and vu_setup() on one stream.
EnabledIsComplete ==
  \A q \in Queues :
    ring[q]["ENABLE"] = 1 =>
      /\ {"SET_FEATURES", "SET_OWNER", "SET_MEM_TABLE"} \subseteq told
      /\ acked = Offered
      /\ \A r \in {"NUM", "ADDR", "KICK", "CALL"} : ring[q][r] # 0
=============================================================================
