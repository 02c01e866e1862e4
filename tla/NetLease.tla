------------------------------ MODULE NetLease ------------------------------
(***************************************************************************)
(* The network pools as the pod sandbox calls use them.  TeardownSandbox   *)
(* frees by name whatever is registered, and nothing keeps a call from     *)
(* repeating it: StopPodSandbox is served again for a stopped sandbox, and *)
(* a call that read the record earlier tears down after the sandbox is     *)
(* gone.  A removed sandbox that was not ready is not torn down at all,    *)
(* and a restarted plugin starts with empty maps.                          *)
(***************************************************************************)
EXTENDS NetPool

NoLease == [tap |-> None, ip |-> None]

VARIABLES lease,    \* what SetupSandbox returned, kept in the sandbox's record
          held,     \* sandboxes set up and not torn down
          left,     \* sandboxes removed without being torn down
          lost,     \* history: sandboxes whose entries somebody else deleted
          repeated  \* history: a teardown was repeated, or the plugin restarted

leaseVars == <<poolVars, lease, held, left, lost, repeated>>

LeaseInit == /\ PoolInit
             /\ lease = [s \in Sandboxes |-> NoLease]
             /\ held = {} /\ left = {} /\ lost = {} /\ repeated = FALSE

\* RunPodSandbox: the sandbox ID is a new one.
Acquire(s, t, i) == /\ lease[s] = NoLease
                    /\ SetupSandbox(s, t, i)
                    /\ lease' = [lease EXCEPT ![s] = [tap |-> t, ip |-> i]]
                    /\ held' = held \cup {s}
                    /\ UNCHANGED <<left, lost, repeated>>

AcquireFails(s) == /\ lease[s] = NoLease
                   /\ SetupFails(s)
                   /\ UNCHANGED <<lease, held, left, lost, repeated>>

\* Whose entries tearing down the lease of s deletes, other than its own.
Victims(s) == {usedTaps[lease[s].tap], usedIPs[lease[s].ip]} \ {s, None}

\* The teardown of StopPodSandbox, or of RunPodSandbox when it fails later on.
Release(s) == /\ lease[s] # NoLease
              /\ TeardownSandbox(lease[s].tap, lease[s].ip)
              /\ held' = held \ {s} /\ left' = left \ {s}
              /\ lost' = lost \cup Victims(s)
              /\ repeated' = (repeated \/ s \notin held \cup left)
              /\ UNCHANGED lease

\* RemovePodSandbox of a sandbox recorded as not ready, as it is after its VM
\* has exited: it is not stopped first.
RemoveUnstopped(s) == /\ s \in held
                      /\ held' = held \ {s} /\ left' = left \cup {s}
                      /\ UNCHANGED <<poolVars, lease, lost, repeated>>

\* The plugin is restarted; the sandboxes' records and VMs stay.
Forget == /\ usedTaps' = [t \in Taps |-> None] /\ usedIPs' = [i \in IPs |-> None]
          /\ lost' = lost \cup held /\ left' = {} /\ repeated' = TRUE
          /\ UNCHANGED <<lease, held>>

LeaseNext == \/ \E s \in Sandboxes : \/ \E t \in Taps, i \in IPs : Acquire(s, t, i)
                                     \/ AcquireFails(s)
                                     \/ Release(s) \/ RemoveUnstopped(s)
             \/ Forget

LeaseSpec == LeaseInit /\ [][LeaseNext]_leaseVars

-----------------------------------------------------------------------------
\* Type correctness: SetupSandbox registers TAPs and addresses to sandboxes.
LeaseTypeOK ==
    /\ usedTaps \in [Taps -> Sandboxes \cup {None}]
    /\ usedIPs \in [IPs -> Sandboxes \cup {None}]
    /\ lease \in [Sandboxes -> [tap : Taps, ip : IPs] \cup {NoLease}]
    /\ held \subseteq {s \in Sandboxes : lease[s] # NoLease}
    /\ left \subseteq {s \in Sandboxes : lease[s] # NoLease}
    /\ lost \subseteq Sandboxes /\ repeated \in BOOLEAN

\* Two sandboxes set up share a TAP or an address only after a teardown was
\* repeated or the plugin restarted, and then one of them is a sandbox whose
\* entry was deleted under it.
LeasesExclusive ==
    \A r, s \in held :
        r # s /\ (lease[r].tap = lease[s].tap \/ lease[r].ip = lease[s].ip)
            => repeated /\ {r, s} \cap lost # {}

\* The maps and the leases agree.  What is registered belongs to a sandbox that
\* is set up, or was removed without a teardown: failed setups and teardowns
\* leave nothing.  What a sandbox holds is registered to it, unless the entry
\* was deleted under it.
NothingLeaks ==
    /\ \A t \in Taps : usedTaps[t] # None =>
           usedTaps[t] \in held \cup left /\ lease[usedTaps[t]].tap = t
    /\ \A i \in IPs : usedIPs[i] # None =>
           usedIPs[i] \in held \cup left /\ lease[usedIPs[i]].ip = i
    /\ \A s \in held \ lost : usedTaps[lease[s].tap] = s /\ usedIPs[lease[s].ip] = s
=============================================================================
