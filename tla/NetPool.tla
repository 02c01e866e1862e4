------------------------------ MODULE NetPool ------------------------------
(***************************************************************************)
(* The TAP and address pools of the CRI plugin's network.Manager, which    *)
(* every method updates under m.mu.  This module holds the state and the   *)
(* operations; NetLease specifies the pools on their own and CriRuntime    *)
(* uses them from the pod sandbox calls.                                   *)
(***************************************************************************)
EXTENDS Naturals

CONSTANTS Sandboxes,
          MaxTaps,      \* maxTAPs; TAP i is the device tapPrefix + i
          IPs,          \* the host addresses of the subnet
          None

ASSUME PoolAssumption == MaxTaps \in Nat /\ None \notin Sandboxes \cup IPs
                                         /\ None \notin Nat

Taps == 0..(MaxTaps - 1)

VARIABLES usedTaps,     \* usedTaps: TAP name -> sandbox ID
          usedIPs       \* usedIPs: address -> sandbox ID

poolVars == <<usedTaps, usedIPs>>

PoolInit == /\ usedTaps = [t \in Taps |-> None]
            /\ usedIPs = [i \in IPs |-> None]

\* Mutant: the map is not consulted.
allocateTapFirst(t) == t = 0

\* allocateTap takes the lowest free name.
allocateTap(t) == /\ usedTaps[t] = None
                  /\ \A u \in 0..(t - 1) : usedTaps[u] # None

\* SetupSandbox: a TAP and any free address, both registered to the sandbox.
SetupSandbox(s, t, i) ==
    /\ allocateTap(t) /\ usedIPs[i] = None
    /\ usedTaps' = [usedTaps EXCEPT ![t] = s]
    /\ usedIPs' = [usedIPs EXCEPT ![i] = s]

\* Mutant: the TAP is kept when no address is found.
SetupFailsKeepsTap(s) ==
    /\ \E i \in IPs : usedIPs[i] # None
    /\ \E t \in Taps : allocateTap(t) /\ usedTaps' = [usedTaps EXCEPT ![t] = s]
    /\ UNCHANGED usedIPs

\* SetupSandbox fails: no TAP is left, or the random probing finds no free
\* address (it may miss one when some are used) and the TAP is released.
SetupFails(s) == /\ \/ \A t \in Taps : usedTaps[t] # None
                    \/ IPs = {} \/ \E i \in IPs : usedIPs[i] # None
                 /\ UNCHANGED poolVars

\* TeardownSandbox deletes the two entries, whoever they are registered to.
TeardownSandbox(t, i) ==
    /\ usedTaps' = [usedTaps EXCEPT ![t] = None]
    /\ usedIPs' = [usedIPs EXCEPT ![i] = None]
=============================================================================
