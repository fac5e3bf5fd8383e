---------------------------- MODULE LatencyReport ----------------------------
(***************************************************************************)
(* How one message becomes the line of a latency report: the time stamps   *)
(* of the exchange, the network card, the kernel and the message handler   *)
(* of ws_client.cpp, and the arithmetic of correlate_and_log on them.  The *)
(* exchange stamps in whole milliseconds of the true time; the steady      *)
(* clock counts from the boot of the machine; the system clock is the true *)
(* time plus a skew that NTP may change at any moment.  The difference of  *)
(* the machine's two clocks is measured once, when the client starts.      *)
(* Matching is left to Correlator: the events are those of one message.    *)
(***************************************************************************)
EXTENDS Integers

CONSTANTS Boot,     \* the true time of the boot
          Ms,       \* ticks in a millisecond, 10^6 in the program
          Word,     \* 2^64
          MaxSkew,  \* how far the system clock may be off, either way
          MaxTime   \* bound of the model: the steady clock

ASSUME ClockAssumption == Boot \in Nat /\ Ms \in Nat \ {0} /\ MaxTime \in Nat
ASSUME SkewAssumption == MaxSkew \in Nat /\ MaxSkew < Boot
ASSUME WordAssumption == Word \in Nat /\ Boot + 2 * MaxTime + MaxSkew < Word

VARIABLES
  now,     \* the steady clock
  skew,    \* what the system clock is ahead of the true time
  stage,   \* how far start-up and message are
  g_clock_offset_ns,
  sent,    \* the true time the message was sent, on the steady scale
  ev,      \* the stamps of the message, as the matched events carry them
  off,     \* history: the skew when the system clock was read for the message
  report   \* the parts of the printed line

vars == <<now, skew, stage, g_clock_offset_ns, sent, ev, off, report>>

Skews == -MaxSkew..MaxSkew

Epoch == Boot + now + skew

NoReport == [bn_nic |-> 0, nk |-> 0, ku |-> 0, cpu |-> 0, msk |-> 0, bn_user |-> 0,
             total |-> 0]

Init ==
  /\ now = 0 /\ skew \in Skews
  /\ stage = "start"
  /\ g_clock_offset_ns = 0
  /\ sent = 0 /\ off = 0
  /\ ev = [src_send |-> 0, nic |-> 0, kernel |-> 0, user |-> 0, epoch |-> 0,
           deser |-> 0, msk |-> 0]
  /\ report = NoReport

-----------------------------------------------------------------------------
(* Time *)

Tick ==
  /\ now < MaxTime
  /\ now' = now + 1
  /\ UNCHANGED <<skew, stage, g_clock_offset_ns, sent, ev, off, report>>

\* NTP steps or slews the system clock.
Adjust ==
  /\ skew' \in Skews
  /\ UNCHANGED <<now, stage, g_clock_offset_ns, sent, ev, off, report>>

-----------------------------------------------------------------------------
(* The stamps, in the order of the code *)

\* main reads the steady clock and then the system clock.
ReadSteady ==
  /\ stage = "start" /\ stage' = "start_epoch"
  /\ g_clock_offset_ns' = now
  /\ UNCHANGED <<now, skew, sent, ev, off, report>>

ReadEpoch ==
  /\ stage = "start_epoch" /\ stage' = "wait"
  /\ g_clock_offset_ns' = (Epoch - g_clock_offset_ns) % Word
  /\ UNCHANGED <<now, skew, sent, ev, off, report>>

\* The exchange: E is in milliseconds; the handler scales it to nanoseconds.
\* A message without E counts as one without a send time.
Send ==
  /\ stage = "wait" /\ stage' = "sent"
  /\ now > 0
  /\ sent' = now
  /\ \E e \in {((Boot + now) \div Ms) * Ms, 0} : ev' = [ev EXCEPT !.src_send = e]
  /\ UNCHANGED <<now, skew, g_clock_offset_ns, off, report>>

\* The capture may miss the packet: then there is no NIC event.
Nic ==
  /\ stage = "sent" /\ stage' = "nic"
  /\ ev' \in {[ev EXCEPT !.nic = now], ev}
  /\ UNCHANGED <<now, skew, g_clock_offset_ns, sent, off, report>>

\* tcp_recvmsg is entered when the packet is there, or waits for it.
Kernel ==
  /\ stage \in {"wait", "sent", "nic"} /\ now > 0
  /\ ev.kernel = 0
  /\ ev' = [ev EXCEPT !.kernel = now]
  /\ UNCHANGED <<now, skew, stage, g_clock_offset_ns, sent, off, report>>

UserSteady ==
  /\ stage = "nic" /\ stage' = "user" /\ ev.kernel # 0
  /\ ev' = [ev EXCEPT !.user = now]
  /\ UNCHANGED <<now, skew, g_clock_offset_ns, sent, off, report>>

UserEpoch ==
  /\ stage = "user" /\ stage' = "epoch"
  /\ ev' = [ev EXCEPT !.epoch = Epoch]
  /\ off' = skew
  /\ UNCHANGED <<now, skew, g_clock_offset_ns, sent, report>>

Deserialized ==
  /\ stage = "epoch" /\ stage' = "deser"
  /\ ev' = [ev EXCEPT !.deser = now]
  /\ UNCHANGED <<now, skew, g_clock_offset_ns, sent, off, report>>

Published ==
  /\ stage = "deser" /\ stage' = "msk"
  /\ ev' = [ev EXCEPT !.msk = now]
  /\ UNCHANGED <<now, skew, g_clock_offset_ns, sent, off, report>>

-----------------------------------------------------------------------------
(* The report *)

\* A difference of stamps; 0 where they are in the wrong order
Clamped(a, b) == IF a > b THEN a - b ELSE 0

latency_nic_to_kernel(e) == Clamped(e.kernel, e.nic)
latency_kernel_to_user(e) == Clamped(e.user, e.kernel)

\* Mutant: measured from the start of the kernel's part.
CpuFromKernel(e) == Clamped(e.deser, e.kernel)

latency_cpu_deser(e) == Clamped(e.deser, e.user)

\* Mutant: measured from the start of the handler.
MskFromUser(e) == Clamped(e.msk, e.user)

latency_msk_send(e) == Clamped(e.msk, e.deser)

\* Mutant: the NIC stamp is not moved to the epoch, as in latency_bn_to_nic.
BnNicUnaligned(e) ==
  IF e.nic > 0 /\ e.src_send > 0 /\ g_clock_offset_ns > 0
    THEN (e.nic - e.src_send) % Word ELSE 0

\* The NIC stamp moved to the epoch by the offset of the start; not clamped
BnNic(e) ==
  IF e.nic > 0 /\ e.src_send > 0 /\ g_clock_offset_ns > 0
    THEN (e.nic + g_clock_offset_ns - e.src_send) % Word ELSE 0

BnToUser(e) == IF e.src_send > 0 THEN Clamped(e.epoch, e.src_send) ELSE 0

Report ==
  /\ stage = "msk" /\ stage' = "done"
  /\ report' = [bn_nic |-> BnNic(ev),
                nk |-> IF ev.nic > 0 THEN latency_nic_to_kernel(ev) ELSE 0,
                ku |-> latency_kernel_to_user(ev),
                cpu |-> latency_cpu_deser(ev), msk |-> latency_msk_send(ev),
                bn_user |-> BnToUser(ev),
                total |-> (BnToUser(ev) + latency_cpu_deser(ev) + latency_msk_send(ev)) % Word]
  /\ UNCHANGED <<now, skew, g_clock_offset_ns, sent, ev, off>>

Next ==
  \/ Tick \/ Adjust \/ ReadSteady \/ ReadEpoch \/ Send \/ Nic \/ Kernel
  \/ UserSteady \/ UserEpoch \/ Deserialized \/ Published \/ Report

Spec == Init /\ [][Next]_vars

-----------------------------------------------------------------------------
(* Properties *)

\* A printed total is the true time from the sending of the message to its
\* publication, except for the rounding of E to milliseconds, the skew of the
\* system clock, and the time between the handler's two clock readings.
TotalIsTrueLatency ==
  stage = "done" /\ report.bn_user > 0 =>
    LET error == report.total - (ev.msk - sent) - off
    IN  0 <= error /\ error < Ms + (ev.deser - ev.user)

\* The parts from the card to the publication cover the whole stretch: no time
\* is lost between two of them, and none counts twice when the stamps are in
\* order.
PartsCover ==
  stage = "done" /\ ev.nic > 0 =>
    LET parts == report.nk + report.ku + report.cpu + report.msk
    IN  /\ parts >= ev.msk - ev.nic
        /\ ev.nic <= ev.kernel => parts = ev.msk - ev.nic

\* BN->NIC is the true time from the sending to the card, except for the
\* rounding of E and for what the offset measured at the start is off; it is
\* huge only when that error puts the card before the sending.
BnNicIsNetworkTime ==
  stage = "done" /\ ev.nic > 0 /\ ev.src_send > 0 =>
    LET off0 == g_clock_offset_ns - Boot
        error == report.bn_nic - (ev.nic - sent) - off0
    IN  \/ 0 <= error /\ error < Ms
        \/ Word <= error /\ error < Word + Ms /\ ev.nic - sent + off0 < 0
=============================================================================
