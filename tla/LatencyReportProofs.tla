------------------------- MODULE LatencyReportProofs -------------------------
(***************************************************************************)
(* Proofs about the arithmetic of a latency report, for every length of a  *)
(* millisecond, every skew of the system clock that NTP may cause and      *)
(* every time at which the stamps are taken.                               *)
(***************************************************************************)
EXTENDS LatencyReport, TLAPS

USE ClockAssumption, SkewAssumption, WordAssumption

-----------------------------------------------------------------------------
(* Unsigned arithmetic *)

LEMMA ModSmall == ASSUME NEW a \in 0..Word - 1 PROVE a % Word = a
OBVIOUS

LEMMA ModNegative == ASSUME NEW a \in -Word..-1 PROVE a % Word = a + Word
OBVIOUS

\* Rounding down to whole milliseconds
LEMMA RoundedDown ==
  ASSUME NEW t \in Nat
  PROVE  /\ (t \div Ms) * Ms \in Int
         /\ (t \div Ms) * Ms <= t /\ t - (t \div Ms) * Ms < Ms
         /\ 0 <= (t \div Ms) * Ms
OBVIOUS
-----------------------------------------------------------------------------
(* The inductive invariant *)

Stages == {"start", "start_epoch", "wait", "sent", "nic", "user", "epoch", "deser", "msk",
           "done"}

\* The stages from the one that takes a stamp on
FromMsk == {"msk", "done"}
FromDeser == {"deser"} \cup FromMsk
FromEpoch == {"epoch"} \cup FromDeser
FromUser == {"user"} \cup FromEpoch
FromNic == {"nic"} \cup FromUser
FromSent == {"sent"} \cup FromNic
FromWait == {"wait"} \cup FromSent

Clocks ==
  /\ now \in 0..MaxTime /\ skew \in Skews /\ off \in Skews
  /\ stage \in Stages
  /\ sent \in Nat
  /\ g_clock_offset_ns \in Int
  /\ ev \in [src_send : Int, nic : Int, kernel : Int, user : Int, epoch : Int,
             deser : Int, msk : Int]

\* The offset of the clocks is between what it would have been at its two
\* readings, and never wraps.
OffsetMeasured ==
  /\ stage = "start_epoch" => g_clock_offset_ns \in 0..now
  /\ stage \in FromWait => g_clock_offset_ns \in 1..Boot + MaxTime + MaxSkew

\* E is the time of the sending, rounded down to a millisecond, or missing.
SendStamp ==
  stage \in FromSent =>
    /\ sent \in 1..now
    /\ \/ ev.src_send = 0
       \/ /\ 0 <= ev.src_send /\ ev.src_send <= Boot + sent
          /\ Boot + sent - ev.src_send < Ms

\* Stamps are in the order of the path of the message; only the receive may
\* have begun at any time before the handler.
StampOrder ==
  /\ ev.kernel \in 0..now
  /\ stage \in Stages \ FromNic => ev.nic = 0
  /\ stage \in FromNic => ev.nic = 0 \/ ev.nic \in sent..now
  /\ stage \in FromUser => ev.kernel > 0 /\ ev.user \in sent..now
                           /\ ev.kernel <= ev.user /\ ev.nic <= ev.user
  /\ stage \in FromEpoch => Boot + ev.user + off <= ev.epoch
  /\ stage \in {"epoch"} => ev.epoch <= Boot + now + off
  /\ stage \in FromDeser => ev.deser \in ev.user..now /\ ev.epoch <= Boot + ev.deser + off
  /\ stage \in FromMsk => ev.msk \in ev.deser..now

\* The line is computed from these stamps.
Line ==
  [bn_nic |-> BnNic(ev),
   nk |-> IF ev.nic > 0 THEN latency_nic_to_kernel(ev) ELSE 0,
   ku |-> latency_kernel_to_user(ev),
   cpu |-> latency_cpu_deser(ev), msk |-> latency_msk_send(ev),
   bn_user |-> BnToUser(ev),
   total |-> (BnToUser(ev) + latency_cpu_deser(ev) + latency_msk_send(ev)) % Word]

ReportInv ==
  /\ Clocks /\ OffsetMeasured /\ SendStamp /\ StampOrder
  /\ stage = "done" => report = Line

LEMMA ReportInvInit == Init => ReportInv
BY DEF Init, ReportInv, Clocks, OffsetMeasured, SendStamp, StampOrder, Skews, Stages,
       FromMsk, FromDeser, FromEpoch, FromUser, FromNic, FromSent, FromWait

LEMMA ReportInvStep == ReportInv /\ [Next]_vars => ReportInv'
<1> SUFFICES ASSUME ReportInv, [Next]_vars PROVE ReportInv'
  OBVIOUS
<1> USE DEF ReportInv, Clocks, OffsetMeasured, SendStamp, StampOrder, Skews, Stages,
            FromMsk, FromDeser, FromEpoch, FromUser, FromNic, FromSent, FromWait
<1>1. CASE Tick
  BY <1>1 DEF Tick, Line, BnNic, BnToUser
<1>2. CASE Adjust
  BY <1>2 DEF Adjust, Line, BnNic, BnToUser
<1>3. CASE ReadSteady
  BY <1>3 DEF ReadSteady
<1>4. CASE ReadEpoch
  <2>1. Epoch - g_clock_offset_ns \in 1..Boot + MaxTime + MaxSkew
    BY <1>4 DEF ReadEpoch, Epoch
  <2>2. g_clock_offset_ns' = Epoch - g_clock_offset_ns
    BY <1>4, <2>1, ModSmall DEF ReadEpoch
  <2> QED BY <1>4, <2>1, <2>2 DEF ReadEpoch
<1>5. CASE Send
  <2>1. Boot + now \in Nat
    OBVIOUS
  <2>2. PICK e \in {((Boot + now) \div Ms) * Ms, 0} : ev' = [ev EXCEPT !.src_send = e]
    BY <1>5 DEF Send
  <2>3. /\ e \in Int
        /\ e = 0 \/ (0 <= e /\ e <= Boot + now /\ Boot + now - e < Ms)
    BY <2>1, <2>2, RoundedDown
  <2> QED BY <1>5, <2>2, <2>3 DEF Send
<1>6. CASE Nic
  BY <1>6 DEF Nic
<1>7. CASE Kernel
  BY <1>7 DEF Kernel
<1>8. CASE UserSteady
  BY <1>8 DEF UserSteady
<1>9. CASE UserEpoch
  BY <1>9 DEF UserEpoch, Epoch
<1>10. CASE Deserialized
  BY <1>10 DEF Deserialized
<1>11. CASE Published
  BY <1>11 DEF Published
<1>12. CASE Report
  BY <1>12 DEF Report, Line, BnNic, BnToUser
<1>13. CASE UNCHANGED vars
  BY <1>13 DEF vars, Line, BnNic, BnToUser
<1> QED
  BY <1>1, <1>2, <1>3, <1>4, <1>5, <1>6, <1>7, <1>8, <1>9, <1>10, <1>11, <1>12, <1>13
     DEF Next

LEMMA ReportInvariant == Spec => []ReportInv
BY ReportInvInit, ReportInvStep, PTL DEF Spec

-----------------------------------------------------------------------------
(* What a report means *)

\* The parts from the card to the publication add up to the whole stretch.
THEOREM PartsAddUp == Spec => []PartsCover
<1>1. ReportInv => PartsCover
  BY DEF ReportInv, Clocks, StampOrder, PartsCover, Line, Stages, FromMsk, FromDeser,
         FromEpoch, FromUser, FromNic, Clamped, latency_nic_to_kernel,
         latency_kernel_to_user, latency_cpu_deser, latency_msk_send
<1> QED
  BY <1>1, ReportInvariant, PTL

\* The total is the true latency up to the rounding of E, the skew of the system
\* clock and the time between the handler's two readings.
THEOREM TotalIsTrue == Spec => []TotalIsTrueLatency
<1>1. ReportInv => TotalIsTrueLatency
  <2> SUFFICES ASSUME ReportInv, stage = "done", report.bn_user > 0
               PROVE  LET error == report.total - (ev.msk - sent) - off
                      IN  0 <= error /\ error < Ms + (ev.deser - ev.user)
    BY DEF TotalIsTrueLatency
  <2> DEFINE t == ev.epoch - ev.src_send + (ev.deser - ev.user) + (ev.msk - ev.deser)
  <2> USE DEF ReportInv, Clocks, SendStamp, StampOrder, Skews, Stages, FromMsk, FromDeser,
              FromEpoch, FromUser, FromNic, FromSent
  <2>1. ev.src_send > 0 /\ ev.epoch > ev.src_send
    BY DEF Line, BnToUser, Clamped
  <2>2. /\ BnToUser(ev) = ev.epoch - ev.src_send
        /\ latency_cpu_deser(ev) = ev.deser - ev.user
        /\ latency_msk_send(ev) = ev.msk - ev.deser
    BY <2>1 DEF BnToUser, Clamped, latency_cpu_deser, latency_msk_send
  <2>3. t \in 0..Word - 1
    BY <2>1
  <2>4. t % Word = t
    BY <2>3, ModSmall
  <2>5. report.total = t
    BY <2>2, <2>4 DEF Line
  <2> QED BY <2>1, <2>5
<1> QED
  BY <1>1, ReportInvariant, PTL

\* BN->NIC is the true network time up to the rounding of E and the error of
\* the offset, and wraps exactly when these put the card before the sending.
THEOREM BnNicIsTrue == Spec => []BnNicIsNetworkTime
<1>1. ReportInv => BnNicIsNetworkTime
  <2> SUFFICES ASSUME ReportInv, stage = "done", ev.nic > 0, ev.src_send > 0
               PROVE  LET off0 == g_clock_offset_ns - Boot
                          error == report.bn_nic - (ev.nic - sent) - off0
                      IN  \/ 0 <= error /\ error < Ms
                          \/ Word <= error /\ error < Word + Ms /\ ev.nic - sent + off0 < 0
    BY DEF BnNicIsNetworkTime
  <2> DEFINE x == ev.nic + g_clock_offset_ns - ev.src_send
  <2> USE DEF ReportInv, Clocks, OffsetMeasured, SendStamp, StampOrder, Skews, Stages, FromMsk,
              FromDeser, FromEpoch, FromUser, FromNic, FromSent, FromWait
  <2>1. x \in -Word..Word - 1
    OBVIOUS
  <2>2. report.bn_nic = x % Word
    BY DEF Line, BnNic
  <2>3. CASE x >= 0
    <3>1. x % Word = x
      BY <2>1, <2>3, ModSmall
    <3> QED BY <2>2, <3>1
  <2>4. CASE x < 0
    <3>1. x % Word = x + Word
      BY <2>1, <2>4, ModNegative
    <3> QED BY <2>2, <2>4, <3>1
  <2> QED BY <2>1, <2>3, <2>4
<1> QED
  BY <1>1, ReportInvariant, PTL
=============================================================================
