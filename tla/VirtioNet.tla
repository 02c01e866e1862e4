----------------------------- MODULE VirtioNet -----------------------------
(***************************************************************************)
(* The userspace virtio-net data path: net_thread_func moves frames        *)
(* between the TAP and the two virtqueues and interrupts the guest, while  *)
(* the vCPU thread runs the guest driver and its MMIO exits                *)
(* (net_mmio_read, net_mmio_write).  The two threads share the rings and   *)
(* net_irq_status_, a plain uint32_t that both read and modify: the vCPU's *)
(* "&=" and the net thread's "|=" interleave, as the unlocked instructions *)
(* of the build do, and one may undo the other.                            *)
(* The guest driver (the Linux one the repository builds), the 8259 in     *)
(* edge mode and the TAP are external.                                     *)
(***************************************************************************)
EXTENDS Integers, FiniteSets

CONSTANTS Num,       \* ring size of each queue
          IdxMod,    \* 2^16 in the code: ring indices are uint16_t
          MaxTap     \* bound on the frames waiting in the TAP

Queues == {"tx", "rx"}

ASSUME RingAssumption == /\ Num \in [Queues -> Nat \ {0}] /\ IdxMod \in Nat
                         /\ \A q \in Queues : IdxMod > Num[q] /\ IdxMod % Num[q] = 0
ASSUME TapAssumption == MaxTap \in Nat

Idx == 0..(IdxMod - 1)
Slot(q) == 0..(Num[q] - 1)
Desc(q) == 0..(Num[q] - 1)

VARIABLES avail, used,       \* the two indices in guest memory, per queue
          availRing, usedRing, \* the ring entries in guest memory
          last,              \* tx_last_avail, rx_last_used of the net thread
          seen, free,        \* the driver's last used index, its free heads
          pc, cur, didWork, rxDidWork, ret,   \* the net thread
          status, line, irr, \* net_irq_status_, the IRQ line, the latched edge
          erased,            \* history: an acknowledgement of nothing undid the last "|="
          gpc, gval, gtmp,   \* the driver's interrupt handler and its ACK exit
          wake, stop,        \* net_wakeup_fd_, net_thread_stop_
          tap                \* frames waiting in the TAP

ringVars == <<avail, used, availRing, usedRing, last, seen, free>>
netVars == <<pc, cur, didWork, rxDidWork, ret>>
irqVars == <<status, line, irr, erased>>
guestVars == <<gpc, gval, gtmp>>
vars == <<ringVars, netVars, irqVars, guestVars, wake, stop, tap>>

\* uint16_t increment, and the ring slot of an index
Inc(i) == (i + 1) % IdxMod
SlotOf(q, i) == i % Num[q]

\* The thread starts on a restored guest: nothing in flight on the TX queue,
\* the RX buffers posted or not, the indices anywhere.
Init ==
    /\ \E i \in Idx : /\ avail = [q \in Queues |-> i] /\ used = avail
                      /\ last = avail /\ seen = avail
    /\ availRing = [q \in Queues |-> [s \in Slot(q) |-> 0]]
    /\ usedRing = [q \in Queues |-> [s \in Slot(q) |-> 0]]
    /\ free = [q \in Queues |-> Desc(q)]
    /\ pc = "top" /\ cur = 0 /\ didWork = FALSE /\ rxDidWork = FALSE /\ ret = "rx"
    /\ status = 0 /\ line = 0 /\ irr = FALSE /\ erased = FALSE
    /\ gpc = "run" /\ gval = 0 /\ gtmp = 0
    /\ wake = FALSE /\ stop = FALSE /\ tap = 0

-----------------------------------------------------------------------------
(* The net thread *)

\* Mutant: the thread ends when it has not been woken.
TopUnwoken == /\ pc = "top"
              /\ pc' = IF stop \/ ~wake THEN "exited" ELSE "tx"
              /\ didWork' = FALSE /\ rxDidWork' = FALSE
              /\ UNCHANGED <<ringVars, cur, ret, irqVars, guestVars, wake, stop, tap>>
Top == /\ pc = "top"
       /\ pc' = IF stop THEN "exited" ELSE "tx"
       /\ didWork' = FALSE /\ rxDidWork' = FALSE
       /\ UNCHANGED <<ringVars, cur, ret, irqVars, guestVars, wake, stop, tap>>

\* The TX ring has an entry: copy its chain and write the frame to the TAP.
TxTake == /\ pc = "tx" /\ last["tx"] # avail["tx"]
          /\ cur' = availRing["tx"][SlotOf("tx", last["tx"])]
          /\ pc' = "txUsed"
          /\ UNCHANGED <<ringVars, didWork, rxDidWork, ret, irqVars, guestVars, wake, stop, tap>>

\* Mutant: the used entry goes one slot too far.
PublishNextSlot(q) ==
    /\ usedRing' = [usedRing EXCEPT ![q][SlotOf(q, Inc(used[q]))] = cur]
    /\ used' = [used EXCEPT ![q] = Inc(@)]
    /\ last' = [last EXCEPT ![q] = Inc(@)]
    /\ UNCHANGED <<avail, availRing, seen, free>>

\* Fill the used entry, then publish it: used->idx++ and the private index.
Publish(q) ==
    /\ usedRing' = [usedRing EXCEPT ![q][SlotOf(q, used[q])] = cur]
    /\ used' = [used EXCEPT ![q] = Inc(@)]
    /\ last' = [last EXCEPT ![q] = Inc(@)]
    /\ UNCHANGED <<avail, availRing, seen, free>>

TxUsed == /\ pc = "txUsed"
          /\ Publish("tx")
          /\ didWork' = TRUE
          /\ pc' = "tx" /\ cur' = 0
          /\ UNCHANGED <<rxDidWork, ret, irqVars, guestVars, wake, stop, tap>>

TxDone == /\ pc = "tx" /\ last["tx"] = avail["tx"]
          /\ pc' = IF didWork THEN "irq" ELSE "rx"
          /\ ret' = "rx"
          /\ UNCHANGED <<ringVars, cur, didWork, rxDidWork, irqVars, guestVars, wake, stop, tap>>

\* net_irq_status_ |= 1: bit 0 is the only one in use, so the store is 1
\* whatever the load saw.
SetStatus == /\ pc = "irq"
             /\ status' = 1 /\ erased' = FALSE
             /\ pc' = "irqLow"
             /\ UNCHANGED <<ringVars, cur, didWork, rxDidWork, ret, line, irr, guestVars,
                            wake, stop, tap>>

\* KVM_IRQ_LINE; a rising edge is latched by the interrupt controller.
IrqLine(level) == /\ line' = level
                  /\ irr' = (irr \/ (line = 0 /\ level = 1))

LowerIrq == /\ pc = "irqLow"
            /\ IrqLine(0)
            /\ pc' = "irqHigh"
            /\ UNCHANGED <<ringVars, cur, didWork, rxDidWork, ret, status, erased, guestVars,
                           wake, stop, tap>>

RaiseIrq == /\ pc = "irqHigh"
            /\ IrqLine(1)
            /\ pc' = ret /\ ret' = "rx"
            /\ UNCHANGED <<ringVars, cur, didWork, rxDidWork, status, erased, guestVars,
                           wake, stop, tap>>

\* A frame was read into a posted buffer ...
RxTake == /\ pc = "rx" /\ last["rx"] # avail["rx"] /\ tap > 0
          /\ tap' = tap - 1
          /\ cur' = availRing["rx"][SlotOf("rx", last["rx"])]
          /\ pc' = "rxUsed"
          /\ UNCHANGED <<ringVars, didWork, rxDidWork, ret, irqVars, guestVars, wake, stop>>

RxUsed == /\ pc = "rxUsed"
          /\ Publish("rx")
          /\ rxDidWork' = TRUE
          /\ pc' = "rx" /\ cur' = 0
          /\ UNCHANGED <<didWork, ret, irqVars, guestVars, wake, stop, tap>>

\* ... or the loop ends: no buffer, nothing to read, or a frame that does
\* not fit the buffer and is dropped.
RxDone == /\ pc = "rx"
          /\ \/ (last["rx"] = avail["rx"] \/ tap = 0) /\ UNCHANGED tap
             \/ last["rx"] # avail["rx"] /\ tap > 0 /\ tap' = tap - 1
          /\ pc' = IF rxDidWork THEN "irq" ELSE "end"
          /\ ret' = IF rxDidWork THEN "end" ELSE "rx"
          /\ UNCHANGED <<ringVars, cur, didWork, rxDidWork, irqVars, guestVars, wake, stop>>

\* Nothing done: poll for at most 10 ms and drain the eventfd.
End == /\ pc = "end"
       /\ pc' = "top"
       /\ wake' = (wake /\ (didWork \/ rxDidWork))
       /\ UNCHANGED <<ringVars, cur, didWork, rxDidWork, ret, irqVars, guestVars, stop, tap>>

NetThread == Top \/ TxTake \/ TxUsed \/ TxDone \/ SetStatus \/ LowerIrq \/ RaiseIrq
                 \/ RxTake \/ RxUsed \/ RxDone \/ End

-----------------------------------------------------------------------------
(* The vCPU thread: the guest driver and its MMIO exits *)

\* The driver posts a buffer, then writes QUEUE_NOTIFY.
Post(q, d) == /\ gpc = "run" /\ ~stop
              /\ d \in free[q]
              /\ availRing' = [availRing EXCEPT ![q][SlotOf(q, avail[q])] = d]
              /\ avail' = [avail EXCEPT ![q] = Inc(@)]
              /\ free' = [free EXCEPT ![q] = @ \ {d}]
              /\ gpc' = "notify"
              /\ UNCHANGED <<used, usedRing, last, seen, netVars, irqVars, gval, gtmp,
                             wake, stop, tap>>

Notify == /\ gpc = "notify"
          /\ wake' = TRUE
          /\ gpc' = "run"
          /\ UNCHANGED <<ringVars, netVars, irqVars, gval, gtmp, stop, tap>>

TakeIrq == /\ gpc = "run" /\ irr /\ ~stop
           /\ irr' = FALSE
           /\ gpc' = "status"
           /\ UNCHANGED <<ringVars, netVars, status, line, erased, gval, gtmp, wake, stop, tap>>

\* The handler reads INTERRUPT_STATUS and writes what it read to
\* INTERRUPT_ACK, zero included.
ReadStatus == /\ gpc = "status"
              /\ gval' = status
              /\ gpc' = "ackLoad"
              /\ UNCHANGED <<ringVars, netVars, irqVars, gtmp, wake, stop, tap>>

AckLoad == /\ gpc = "ackLoad"
           /\ gtmp' = status
           /\ gpc' = "ackStore"
           /\ UNCHANGED <<ringVars, netVars, irqVars, gval, wake, stop, tap>>

\* Mutant: any write to INTERRUPT_ACK clears the register.
AckStoreAll == /\ gpc = "ackStore"
               /\ status' = 0 /\ gtmp' = 0
               /\ gpc' = "ackLower"
               /\ UNCHANGED <<ringVars, netVars, line, irr, erased, gval, wake, stop, tap>>

\* The store of net_irq_status_ &= ~val, from the value loaded before.
AckStore == /\ gpc = "ackStore"
            /\ gtmp' = (IF gval = 1 THEN 0 ELSE gtmp) /\ status' = gtmp'
            /\ erased' = (erased \/ (gval = 0 /\ gtmp = 0 /\ status = 1))
            /\ gpc' = "ackLower"
            /\ UNCHANGED <<ringVars, netVars, line, irr, gval, wake, stop, tap>>

\* The line is lowered when no bit is left, by what was stored or by what the
\* register holds now: the build may take either.
AckLower == /\ gpc = "ackLower"
            /\ \/ (status = 0 \/ gtmp = 0) /\ IrqLine(0)
               \/ status # 0 /\ UNCHANGED <<line, irr>>
            /\ gpc' = (IF gval = 1 THEN "process" ELSE "run") /\ gval' = 0 /\ gtmp' = 0
            /\ UNCHANGED <<ringVars, netVars, status, erased, wake, stop, tap>>

\* The driver takes back one used buffer, or is done.
Process ==
    /\ gpc = "process"
    /\ \/ \E q \in Queues :
            /\ seen[q] # used[q]
            /\ free' = [free EXCEPT ![q] = @ \cup {usedRing[q][SlotOf(q, seen[q])]}]
            /\ seen' = [seen EXCEPT ![q] = Inc(@)]
            /\ UNCHANGED gpc
       \/ /\ seen = used
          /\ gpc' = "run"
          /\ UNCHANGED <<free, seen>>
    /\ UNCHANGED <<avail, used, availRing, usedRing, last, netVars, irqVars, gval, gtmp,
                   wake, stop, tap>>

\* run() has returned and cleanup() stops the thread.
Stop == /\ gpc = "run" /\ ~stop
        /\ stop' = TRUE
        /\ UNCHANGED <<ringVars, netVars, irqVars, guestVars, wake, tap>>

\* The host sends a frame to the guest.
Arrive == /\ tap < MaxTap
          /\ tap' = tap + 1
          /\ UNCHANGED <<ringVars, netVars, irqVars, guestVars, wake, stop>>

Handler == TakeIrq \/ ReadStatus \/ AckLoad \/ AckStore \/ AckLower \/ Process

Next == \/ NetThread
        \/ Handler \/ Notify
        \/ \E q \in Queues : \E d \in Desc(q) : Post(q, d)
        \/ Stop
        \/ Arrive
        \/ pc = "exited" /\ UNCHANGED vars

Spec == Init /\ [][Next]_vars

\* Both threads are scheduled and the guest handles its interrupts.
FairSpec == Spec /\ WF_vars(NetThread) /\ WF_vars(Handler \/ Notify)

-----------------------------------------------------------------------------
\* Type correctness: the ring indices stay in their 16 bits, ring entries name
\* descriptors of their ring, net_irq_status_ is bit 0.
TypeOK ==
    /\ {avail, used, last, seen} \subseteq [Queues -> Idx]
    /\ \A q \in Queues : /\ {availRing[q], usedRing[q]} \subseteq [Slot(q) -> Desc(q)]
                         /\ free[q] \subseteq Desc(q)
    /\ pc \in {"top", "tx", "txUsed", "irq", "irqLow", "irqHigh", "rx", "rxUsed", "end",
               "exited"}
    /\ cur \in Desc("tx") \cup Desc("rx") /\ didWork \in BOOLEAN /\ rxDidWork \in BOOLEAN
    /\ ret \in {"rx", "end"}
    /\ status \in {0, 1} /\ line \in {0, 1} /\ irr \in BOOLEAN /\ erased \in BOOLEAN
    /\ gpc \in {"run", "notify", "status", "ackLoad", "ackStore", "ackLower", "process"}
    /\ gval \in {0, 1} /\ gtmp \in {0, 1}
    /\ wake \in BOOLEAN /\ stop \in BOOLEAN /\ tap \in 0..MaxTap

\* The entries between two ring indices, and the descriptors they name.
Between(i, j) == {k \in Idx : (k - i) % IdxMod < (j - i) % IdxMod}
Names(q, ring, i, j) == {ring[q][SlotOf(q, k)] : k \in Between(i, j)}

\* Every descriptor has one owner, also when the 16-bit indices wrap: it is
\* free, or posted once and unused, or used once and not yet taken back.
DescriptorsConserved ==
    \A q \in Queues :
        LET posted == Names(q, availRing, last[q], avail[q])
            done == Names(q, usedRing, seen[q], used[q])
        IN  /\ free[q] \cup posted \cup done = Desc(q)
            /\ Cardinality(free[q]) + Cardinality(Between(last[q], avail[q]))
                 + Cardinality(Between(seen[q], used[q])) = Num[q]

\* The net thread has published used entries it has not signalled yet.
Owes == \/ pc \in {"tx", "txUsed"} /\ didWork
        \/ pc \in {"rx", "rxUsed"} /\ rxDidWork
        \/ pc \in {"irq", "irqLow", "irqHigh"}

\* A completion is stranded for one reason only.  Once the guest is out of its
\* handler with no interrupt pending and the net thread has signalled what it
\* published, the driver has taken back every used buffer, unless the
\* acknowledgement of a spurious interrupt undid the "|=" of the net thread; the
\* thread's next interrupt makes up for that.
NoStrandedCompletion == gpc = "run" /\ ~irr /\ ~Owes => seen = used \/ erased

\* A buffer the driver posts for transmission comes back to it, unless the
\* VM is being torn down or the bit of its completion was undone.
TxReturns ==
    \A d \in Desc("tx") : d \notin free["tx"] ~> (d \in free["tx"] \/ stop \/ erased)
=============================================================================
