-------------------------- MODULE KernelProbeProofs --------------------------
(***************************************************************************)
(* Proofs about the pairing of the two probes, for every set of threads,   *)
(* every size of the map and of the ring buffer, and whichever probes are  *)
(* skipped, not yet attached or detached again; and about the copy of a    *)
(* record into the structure of the shared queue.                          *)
(***************************************************************************)
EXTENDS KernelProbe, TLAPS

Calls == [entry : Nat, entryRuns : BOOLEAN, returnRuns : BOOLEAN]
Reported == [ts : Nat, call : Calls]

ProbeType ==
  /\ clock \in Nat
  /\ call \in [Threads -> Calls]
  /\ recv_ctx \in [Threads -> Nat]
  /\ submitted \in Seq(Reported)

\* No stamp is in the future.
Past ==
  /\ \A t \in Threads : call[t].entry <= clock /\ recv_ctx[t] <= clock
  /\ \A i \in 1..Len(submitted) : submitted[i].ts <= clock

\* An entry probe that ran has left its own stamp, or none when the map was full.
Current ==
  \A t \in Threads : call[t].entryRuns => recv_ctx[t] \in {0, call[t].entry}

\* A stamp in the map belongs to one thread and has not been reported.
Fresh ==
  /\ \A t, u \in Threads : t # u /\ recv_ctx[t] # 0 => recv_ctx[t] # recv_ctx[u]
  /\ \A t \in Threads, i \in 1..Len(submitted) :
       recv_ctx[t] # 0 => recv_ctx[t] # submitted[i].ts

\* What has been reported: OwnStamp and StampReportedOnce.
Reports ==
  /\ \A i \in 1..Len(submitted) :
       submitted[i].call.entryRuns => submitted[i].ts = submitted[i].call.entry
  /\ \A i, j \in 1..Len(submitted) : i # j => submitted[i].ts # submitted[j].ts

ProbeInv == ProbeType /\ Past /\ Current /\ Fresh /\ Reports /\ LeakOnlyUnseen

LEMMA CallFields ==
  /\ NoCall \in Calls /\ NoCall.entry = 0 /\ ~NoCall.entryRuns
  /\ \A c \in Calls : c.entry \in Nat
  /\ \A r \in Reported : r.ts \in Nat /\ r.call \in Calls
BY DEF NoCall, Calls, Reported

LEMMA ProbeInvInit == Init => ProbeInv
BY CallFields
   DEF Init, ProbeInv, ProbeType, Past, Current, Fresh, Reports, LeakOnlyUnseen

LEMMA EnterKeeps ==
  ASSUME ProbeInv, NEW t \in Threads, Enter(t)
  PROVE  ProbeInv'
<1>1. PICK e \in BOOLEAN, r \in BOOLEAN :
        /\ call' = [call EXCEPT ![t] = [entry |-> clock', entryRuns |-> e, returnRuns |-> r]]
        /\ recv_ctx' = IF e THEN Update(recv_ctx, t, clock') ELSE recv_ctx
  <2>1. EntryAttached \in BOOLEAN /\ ReturnAttached \in BOOLEAN
    BY DEF EntryAttached, ReturnAttached, Polling
  <2> QED BY <2>1 DEF Enter
<1>2. /\ clock' = clock + 1 /\ UNCHANGED <<submitted, unseen>>
      /\ call[t].entry = 0 /\ ~call[t].entryRuns
  BY CallFields DEF Enter
<1> DEFINE c == [entry |-> clock', entryRuns |-> e, returnRuns |-> r]
<1>3. c \in Calls /\ c.entry = clock' /\ c.entryRuns = e
  BY <1>2 DEF Calls, ProbeInv, ProbeType
<1>4. /\ call' \in [Threads -> Calls] /\ call'[t] = c
      /\ \A u \in Threads : u # t => call'[u] = call[u]
  BY <1>1, <1>3 DEF ProbeInv, ProbeType
<1> HIDE DEF c
\* The map changes at t only, to the new stamp, if it changes at all.
<1>5. /\ recv_ctx' \in [Threads -> Nat]
      /\ \A u \in Threads : u # t => recv_ctx'[u] = recv_ctx[u]
      /\ recv_ctx'[t] \in {recv_ctx[t], clock'}
      /\ e => recv_ctx'[t] \in {0, clock'}
  BY <1>1, <1>2 DEF Update, ProbeInv, ProbeType
<1>6. ProbeType'
  BY <1>2, <1>4, <1>5 DEF ProbeInv, ProbeType
<1>7. Past'
  <2>1. \A u \in Threads : call[u].entry \in Nat
    BY CallFields DEF ProbeInv, ProbeType
  <2>2. \A i \in 1..Len(submitted) : submitted[i].ts \in Nat
    BY CallFields DEF ProbeInv, ProbeType
  <2>3. clock \in Nat /\ \A u \in Threads : recv_ctx[u] \in Nat
    BY DEF ProbeInv, ProbeType
  <2>4. /\ \A u \in Threads : call[u].entry <= clock /\ recv_ctx[u] <= clock
        /\ \A i \in 1..Len(submitted) : submitted[i].ts <= clock
    BY DEF ProbeInv, Past
  <2>5. \A u \in Threads : call'[u].entry <= clock'
    BY <1>2, <1>3, <1>4, <2>1, <2>3, <2>4
  <2>6. \A u \in Threads : recv_ctx'[u] <= clock'
    BY <1>2, <1>5, <2>3, <2>4
  <2>7. \A i \in 1..Len(submitted') : submitted'[i].ts <= clock'
    BY <1>2, <2>2, <2>3, <2>4
  <2> QED BY <2>5, <2>6, <2>7 DEF Past
<1>8. Current'
  BY <1>3, <1>4, <1>5 DEF ProbeInv, Current
<1>9. Fresh'
  <2>1. \A u \in Threads : recv_ctx[u] \in Nat /\ recv_ctx[u] <= clock
    BY DEF ProbeInv, ProbeType, Past
  <2>2. \A i \in 1..Len(submitted) : submitted[i].ts \in Nat /\ submitted[i].ts <= clock
    BY CallFields DEF ProbeInv, ProbeType, Past
  <2>3. clock \in Nat
    BY DEF ProbeInv, ProbeType
  <2> QED BY <1>2, <1>5, <2>1, <2>2, <2>3, SMTT(20) DEF ProbeInv, Fresh
<1>10. LeakOnlyUnseen'
  BY <1>2, <1>3, <1>4, <1>5 DEF ProbeInv, LeakOnlyUnseen
<1>11. Reports'
  BY <1>2 DEF ProbeInv, Reports
<1> QED BY <1>6, <1>7, <1>8, <1>9, <1>10, <1>11 DEF ProbeInv

\* A call that ends leaves no call behind; what is left of its stamp is either
\* removed or remembered as that of a call whose return was not seen.
LEMMA ReturnKeeps ==
  ASSUME ProbeInv, NEW t \in Threads, Return(t)
  PROVE  ProbeInv'
<1>1. /\ UNCHANGED clock /\ call' \in [Threads -> Calls] /\ call'[t] = NoCall
      /\ \A u \in Threads : u # t => call'[u] = call[u]
  BY CallFields DEF Return, ProbeInv, ProbeType
<1>2. call[t].entry \in Nat /\ call[t].entry <= clock /\ recv_ctx[t] \in Nat /\ clock \in Nat
  BY CallFields DEF ProbeInv, ProbeType, Past
<1>3. CASE ReturnUnseen(t)
  <2>1. /\ UNCHANGED <<recv_ctx, submitted>>
        /\ unseen' = unseen \cup {call[t].entry}
    BY <1>3 DEF ReturnUnseen
  <2>2. ProbeType' /\ Reports'
    BY <1>1, <2>1 DEF ProbeInv, ProbeType, Reports
  <2>3. Past'
    BY <1>1, <1>2, <2>1, CallFields DEF ProbeInv, Past
  <2>4. Current'
    BY <1>1, <2>1, CallFields DEF ProbeInv, Current
  <2>5. Fresh'
    BY <2>1 DEF ProbeInv, Fresh
  <2>6. LeakOnlyUnseen'
    BY <1>1, <2>1 DEF ProbeInv, LeakOnlyUnseen
  <2> QED BY <2>2, <2>3, <2>4, <2>5, <2>6 DEF ProbeInv
<1>4. ASSUME NEW bytes, ReturnSeen(t, bytes) PROVE ProbeInv'
  <2>1. /\ UNCHANGED unseen
        /\ recv_ctx' \in [Threads -> Nat] /\ recv_ctx'[t] = 0
        /\ \A u \in Threads : u # t => recv_ctx'[u] = recv_ctx[u]
    <3>1. UNCHANGED unseen /\ recv_ctx \in [Threads -> Nat]
      BY <1>4 DEF ReturnSeen, ProbeInv, ProbeType
    <3>2. CASE recv_ctx[t] = 0
      BY <1>4, <3>1, <3>2 DEF ReturnSeen
    <3>3. CASE recv_ctx[t] # 0
      <4>1. recv_ctx' = [recv_ctx EXCEPT ![t] = 0]
        BY <1>4, <3>3 DEF ReturnSeen, AfterReturn, Delete
      <4> QED BY <3>1, <4>1
    <3> QED BY <3>2, <3>3
  <2>2. Current' /\ LeakOnlyUnseen'
    BY <1>1, <2>1, CallFields DEF ProbeInv, Current, LeakOnlyUnseen
  <2>3. CASE UNCHANGED submitted
    <3>1. ProbeType'
      BY <1>1, <1>2, <2>1, <2>3 DEF ProbeInv, ProbeType
    <3>4. Reports'
      BY <2>3 DEF ProbeInv, Reports
    <3>2. Past'
      BY <1>1, <1>2, <2>1, <2>3, CallFields DEF ProbeInv, Past
    <3>3. Fresh'
      BY <2>1, <2>3 DEF ProbeInv, Fresh
    <3> QED BY <2>2, <3>1, <3>2, <3>3, <3>4 DEF ProbeInv
  <2>4. CASE /\ recv_ctx[t] # 0
             /\ submitted' = Append(submitted, [ts |-> recv_ctx[t], call |-> call[t]])
    <3> DEFINE r == [ts |-> recv_ctx[t], call |-> call[t]]
               n == Len(submitted)
    <3>1. r \in Reported /\ r.ts = recv_ctx[t] /\ r.call = call[t]
      BY DEF Reported, ProbeInv, ProbeType
    <3>2. n \in Nat /\ submitted \in Seq(Reported)
      BY DEF ProbeInv, ProbeType
    <3> HIDE DEF r
    <3>3. /\ submitted' \in Seq(Reported) /\ Len(submitted') = n + 1
          /\ \A i \in 1..n : submitted'[i] = submitted[i]
          /\ submitted'[n + 1] = r
      BY <2>4, <3>1, <3>2 DEF r
    <3> HIDE DEF n
    <3>4. \A i \in 1..Len(submitted') : i \in 1..n \/ i = n + 1
      BY <3>2, <3>3
    <3>5. ProbeType'
      BY <1>1, <1>2, <2>1, <3>3 DEF ProbeType
    <3>6. Past'
      <4>1. \A u \in Threads : call'[u].entry <= clock' /\ recv_ctx'[u] <= clock'
        BY <1>1, <1>2, <2>1, CallFields DEF ProbeInv, Past
      <4>2. \A i \in 1..Len(submitted') : submitted'[i].ts <= clock'
        BY <1>1, <3>1, <3>3, <3>4 DEF ProbeInv, Past, n
      <4> QED BY <4>1, <4>2 DEF Past
    <3>7. Fresh'
      <4>1. \A u, v \in Threads : u # v /\ recv_ctx'[u] # 0 => recv_ctx'[u] # recv_ctx'[v]
        BY <2>1 DEF ProbeInv, Fresh
      <4>2. ASSUME NEW u \in Threads, NEW i \in 1..Len(submitted'), recv_ctx'[u] # 0
            PROVE  recv_ctx'[u] # submitted'[i].ts
        BY <2>1, <2>4, <3>1, <3>3, <3>4, <4>2 DEF ProbeInv, Fresh, n
      <4> QED BY <4>1, <4>2 DEF Fresh
    <3>8. Reports'
      <4>1. ASSUME NEW i \in 1..Len(submitted'), submitted'[i].call.entryRuns
            PROVE  submitted'[i].ts = submitted'[i].call.entry
        BY <2>4, <3>1, <3>3, <3>4, <4>1 DEF ProbeInv, Current, Reports, n
      <4>2. ASSUME NEW i \in 1..Len(submitted'), NEW j \in 1..Len(submitted'), i # j
            PROVE  submitted'[i].ts # submitted'[j].ts
        BY <2>4, <3>1, <3>3, <3>4, <4>2 DEF ProbeInv, Fresh, Reports, n
      <4> QED BY <4>1, <4>2 DEF Reports
    <3> QED BY <2>2, <3>5, <3>6, <3>7, <3>8 DEF ProbeInv
  <2> QED BY <1>4, <2>3, <2>4 DEF ReturnSeen
<1> QED BY <1>3, <1>4 DEF Return

LEMMA ProbeInvStep == ProbeInv /\ [Next]_vars => ProbeInv'
<1> SUFFICES ASSUME ProbeInv, [Next]_vars PROVE ProbeInv'
  OBVIOUS
<1>1. CASE \E t \in Threads : Enter(t)
  BY <1>1, EnterKeeps
<1>2. CASE \E t \in Threads : Return(t)
  BY <1>2, ReturnKeeps
<1>3. ASSUME NEW t \in Threads, Arrive(t) PROVE ProbeInv'
  <2>1. clock' = clock + 1 /\ UNCHANGED <<call, recv_ctx, submitted, unseen>>
    BY <1>3 DEF Arrive
  <2>2. Past'
    <3>1. \A u \in Threads : call[u].entry \in Nat /\ recv_ctx[u] \in Nat
      BY CallFields DEF ProbeInv, ProbeType
    <3>2. \A i \in 1..Len(submitted) : submitted[i].ts \in Nat
      BY CallFields DEF ProbeInv, ProbeType
    <3> QED BY <2>1, <3>1, <3>2 DEF ProbeInv, ProbeType, Past
  <2>3. ProbeType' /\ Current' /\ Fresh' /\ Reports' /\ LeakOnlyUnseen'
    BY <2>1 DEF ProbeInv, ProbeType, Current, Fresh, Reports, LeakOnlyUnseen
  <2> QED BY <2>2, <2>3 DEF ProbeInv
<1>4. CASE Loader \/ Fails \/ signal_handler \/ Ended \/ UNCHANGED vars
  <2>1. UNCHANGED <<clock, call, recv_ctx, submitted, unseen>>
    BY <1>4 DEF Loader, Fails, signal_handler, Ended, vars, kernel, Proceed, handle_event,
                PollReturns, LoopTest, PollError
  <2> QED
    BY <2>1 DEF ProbeInv, ProbeType, Past, Current, Fresh, Reports, LeakOnlyUnseen
<1> QED BY <1>1, <1>2, <1>3, <1>4 DEF Next

LEMMA ProbeInvariant == Spec => []ProbeInv
BY ProbeInvInit, ProbeInvStep, PTL DEF Spec

-----------------------------------------------------------------------------
(* Theorems *)

\* Whatever an earlier call of the thread left in the map, a record carries the
\* stamp of its own call whenever that call's entry probe ran.
THEOREM RecordsOwnStamp == Spec => []OwnStamp
<1>1. ProbeInv => OwnStamp
  BY DEF ProbeInv, ProbeType, Reports, OwnStamp
<1> QED BY <1>1, ProbeInvariant, PTL

\* No call is reported twice, although entry probes may be skipped.
THEOREM NoCallReportedTwice == Spec => []StampReportedOnce
<1>1. ProbeInv => StampReportedOnce
  BY DEF ProbeInv, ProbeType, Reports, StampReportedOnce
<1> QED BY <1>1, ProbeInvariant, PTL

\* The map holds calls under way and calls whose return no probe saw, nothing
\* else: failed receives and a full ring buffer leave nothing behind.
THEOREM MapLeaksOnlyUnseen == Spec => []LeakOnlyUnseen
<1>1. ProbeInv => LeakOnlyUnseen
  BY DEF ProbeInv
<1> QED BY <1>1, ProbeInvariant, PTL

-----------------------------------------------------------------------------
(* The two layouts *)

\* The first byte after each field of a layout, as the recursion of Offsets has it
Ends(end, fields) ==
  /\ DOMAIN end = 0..Len(fields) /\ end[0] = 0
  /\ \A i \in 1..Len(fields) :
       end[i] = RoundUp(end[i - 1], Alignment(fields[i])) + fields[i][2]

LEMMA OffsetsDefined ==
  ASSUME NEW fields, Len(fields) \in Nat, DOMAIN fields = 1..Len(fields), NEW w, Ends(w, fields),
         w = [i \in 0..Len(fields) |-> w[i]]
  PROVE  \E end :
           /\ Ends(end, fields)
           /\ \A i \in DOMAIN fields :
                (\A j \in DOMAIN fields : fields[j][1] = fields[i][1] => j = i) =>
                  Offsets(fields)[fields[i][1]] = end[i] - fields[i][2]
<1> DEFINE n == Len(fields)
           Def(f) == [i \in 0..n |->
             IF i = 0 THEN 0 ELSE RoundUp(f[i - 1], Alignment(fields[i])) + fields[i][2]]
           end == CHOOSE f : f = Def(f)
           IndexOf(f) == CHOOSE i \in DOMAIN fields : fields[i][1] = f
<1>1. n \in Nat /\ DOMAIN fields = 1..n
  OBVIOUS
<1>2. w = Def(w)
  <2>1. w = [i \in 0..n |-> w[i]]
    OBVIOUS
  <2> HIDE DEF n
  <2>2. ASSUME NEW i \in 0..n PROVE w[i] = Def(w)[i]
    <3>1. CASE i = 0
      BY <3>1 DEF Ends
    <3>2. CASE i # 0
      <4>1. i \in 1..n /\ 1..n = 1..Len(fields)
        BY <1>1, <3>2 DEF n
      <4>2. w[i] = RoundUp(w[i - 1], Alignment(fields[i])) + fields[i][2]
        BY <4>1 DEF Ends
      <4> QED BY <3>2, <4>2
    <3> QED BY <3>1, <3>2
  <2> QED BY <2>1, <2>2
<1>3. end = Def(end)
  BY <1>2
<1>4. Offsets(fields) = [f \in {fields[i][1] : i \in DOMAIN fields} |->
                           end[IndexOf(f)] - fields[IndexOf(f)][2]]
  BY DEF Offsets
<1> HIDE DEF end
<1>5. Ends(end, fields)
  <2>1. DOMAIN end = 0..n /\ end[0] = 0
    BY <1>1, <1>3
  <2>2. ASSUME NEW i \in 1..n
        PROVE  end[i] = RoundUp(end[i - 1], Alignment(fields[i])) + fields[i][2]
    <3>1. i \in 0..n /\ i # 0
      BY <1>1
    <3> HIDE DEF n
    <3> QED BY <1>3, <3>1
  <2> QED BY <2>1, <2>2 DEF Ends
<1>6. ASSUME NEW i \in DOMAIN fields,
             \A j \in DOMAIN fields : fields[j][1] = fields[i][1] => j = i
      PROVE  Offsets(fields)[fields[i][1]] = end[i] - fields[i][2]
  <2>1. IndexOf(fields[i][1]) = i
    BY <1>6
  <2> HIDE DEF IndexOf
  <2> QED BY <1>4, <2>1
<1> QED BY <1>5, <1>6

LEMMA BpfFieldsAre ==
  /\ Len(BpfFields) = 14 /\ DOMAIN BpfFields = 1..14
  /\ BpfFields[1] = <<"type", 4>> /\ BpfFields[2] = <<"seq_no", 8>>
  /\ BpfFields[3] = <<"ts_nic_ns", 8>> /\ BpfFields[4] = <<"ts_kernel_ns", 8>>
  /\ BpfFields[5] = <<"ts_userspace_ns", 8>> /\ BpfFields[6] = <<"sock_fd", 4>>
  /\ BpfFields[7] = <<"sock_ptr", 8>> /\ BpfFields[8] = <<"tcp_seq", 4>>
  /\ BpfFields[9] = <<"pid", 4>> /\ BpfFields[10] = <<"pkt_len", 4>>
  /\ BpfFields[11] = <<"data_len", 4>> /\ BpfFields[12] = <<"src_port", 2>>
  /\ BpfFields[13] = <<"dst_port", 2>> /\ BpfFields[14] = <<"data", 512>>
BY DEF BpfFields, Stamps, Rest

LEMMA UnifiedFieldsAre ==
  /\ Len(UnifiedFields) = 18 /\ DOMAIN UnifiedFields = 1..18
  /\ UnifiedFields[1] = <<"type", 4>> /\ UnifiedFields[2] = <<"seq_no", 8>>
  /\ UnifiedFields[3] = <<"ts_nic_ns", 8>> /\ UnifiedFields[4] = <<"ts_kernel_ns", 8>>
  /\ UnifiedFields[5] = <<"ts_userspace_ns", 8>> /\ UnifiedFields[6] = <<"ts_userspace_epoch_ns", 8>>
  /\ UnifiedFields[7] = <<"ts_cpu_deserialization", 8>> /\ UnifiedFields[8] = <<"src_send_ts_ns", 8>>
  /\ UnifiedFields[9] = <<"ts_msk_send_ns", 8>> /\ UnifiedFields[10] = <<"sock_fd", 4>>
  /\ UnifiedFields[11] = <<"sock_ptr", 8>> /\ UnifiedFields[12] = <<"tcp_seq", 4>>
  /\ UnifiedFields[13] = <<"pid", 4>> /\ UnifiedFields[14] = <<"pkt_len", 4>>
  /\ UnifiedFields[15] = <<"data_len", 4>> /\ UnifiedFields[16] = <<"src_port", 2>>
  /\ UnifiedFields[17] = <<"dst_port", 2>> /\ UnifiedFields[18] = <<"data", 512>>
BY DEF UnifiedFields, Stamps, Rest

BpfEnds == [i \in 0..14 |-> <<0, 4, 16, 24, 32, 40, 44, 56, 60, 64, 68, 72, 74, 76, 588>>[i + 1]]

LEMMA BpfEndsFit == Ends(BpfEnds, BpfFields)
BY BpfFieldsAre DEF Ends, BpfEnds, RoundUp, Alignment

UnifiedEnds == [i \in 0..18 |-> <<0, 4, 16, 24, 32, 40, 48, 56, 64, 72, 76, 88, 92, 96, 100, 104, 106, 108, 620>>[i + 1]]

LEMMA UnifiedEndsFit == Ends(UnifiedEnds, UnifiedFields)
BY UnifiedFieldsAre DEF Ends, UnifiedEnds, RoundUp, Alignment

LEMMA BpfPlaces ==
  /\ DOMAIN BpfAt = {BpfFields[i][1] : i \in 1..14}
  /\ "type" \in DOMAIN BpfAt /\ BpfAt["type"] = 0
  /\ "ts_kernel_ns" \in DOMAIN BpfAt /\ BpfAt["ts_kernel_ns"] = 24
  /\ \A g \in DOMAIN BpfAt : g # "data" /\ BpfAt[g] = 0 => g = "type"
  /\ \A g \in DOMAIN BpfAt : g # "data" /\ BpfAt[g] = 24 => g = "ts_kernel_ns"
<1>1. DOMAIN BpfAt = {BpfFields[i][1] : i \in 1..14}
  BY BpfFieldsAre DEF BpfAt, Offsets
<1>2. PICK end :
        /\ Ends(end, BpfFields)
        /\ \A i \in 1..14 :
             (\A j \in 1..14 : BpfFields[j][1] = BpfFields[i][1] => j = i) =>
               BpfAt[BpfFields[i][1]] = end[i] - BpfFields[i][2]
  <2>1. Len(BpfFields) = 14 /\ DOMAIN BpfFields = 1..14
    BY BpfFieldsAre
  <2>2. /\ Len(BpfFields) \in Nat /\ DOMAIN BpfFields = 1..Len(BpfFields)
        /\ BpfEnds = [i \in 0..Len(BpfFields) |-> BpfEnds[i]]
    BY <2>1 DEF BpfEnds
  <2>3. \E end :
          /\ Ends(end, BpfFields)
          /\ \A i \in DOMAIN BpfFields :
               (\A j \in DOMAIN BpfFields : BpfFields[j][1] = BpfFields[i][1] => j = i) =>
                 Offsets(BpfFields)[BpfFields[i][1]] = end[i] - BpfFields[i][2]
    BY <2>2, BpfEndsFit, OffsetsDefined, Zenon
  <2> QED BY <2>1, <2>3 DEF BpfAt
<1>3. /\ end[0] = 0
      /\ \A i \in 1..14 : end[i] = RoundUp(end[i - 1], Alignment(BpfFields[i])) + BpfFields[i][2]
  BY <1>2, BpfFieldsAre DEF Ends
<1>4. /\ end[1] = 4 /\ end[2] = 16 /\ end[3] = 24 /\ end[4] = 32 /\ end[5] = 40
      /\ end[6] = 44 /\ end[7] = 56 /\ end[8] = 60 /\ end[9] = 64 /\ end[10] = 68
      /\ end[11] = 72 /\ end[12] = 74 /\ end[13] = 76
  BY <1>3, BpfFieldsAre DEF RoundUp, Alignment
<1>5. \A i, j \in 1..14 : BpfFields[j][1] = BpfFields[i][1] => j = i
  BY BpfFieldsAre
<1>6. \A i \in 1..13 : BpfAt[BpfFields[i][1]] = end[i] - BpfFields[i][2]
  BY <1>2, <1>5
<1>7. \A i \in 1..14 : BpfFields[i][1] # "data" =>
        /\ BpfAt[BpfFields[i][1]] = 0 => BpfFields[i][1] = "type"
        /\ BpfAt[BpfFields[i][1]] = 24 => BpfFields[i][1] = "ts_kernel_ns"
  BY <1>4, <1>6, BpfFieldsAre
<1>8. /\ "type" \in DOMAIN BpfAt /\ BpfAt["type"] = 0
      /\ "ts_kernel_ns" \in DOMAIN BpfAt /\ BpfAt["ts_kernel_ns"] = 24
  BY <1>1, <1>4, <1>6, BpfFieldsAre
<1> QED BY <1>1, <1>7, <1>8

LEMMA UnifiedPlaces ==
  /\ "type" \in DOMAIN UnifiedAt /\ UnifiedAt["type"] = 0
  /\ "ts_kernel_ns" \in DOMAIN UnifiedAt /\ UnifiedAt["ts_kernel_ns"] = 24
<1>1. DOMAIN UnifiedAt = {UnifiedFields[i][1] : i \in 1..18}
  BY UnifiedFieldsAre DEF UnifiedAt, Offsets
<1>2. PICK end :
        /\ Ends(end, UnifiedFields)
        /\ \A i \in 1..18 :
             (\A j \in 1..18 : UnifiedFields[j][1] = UnifiedFields[i][1] => j = i) =>
               UnifiedAt[UnifiedFields[i][1]] = end[i] - UnifiedFields[i][2]
  <2>1. Len(UnifiedFields) = 18 /\ DOMAIN UnifiedFields = 1..18
    BY UnifiedFieldsAre
  <2>2. /\ Len(UnifiedFields) \in Nat /\ DOMAIN UnifiedFields = 1..Len(UnifiedFields)
        /\ UnifiedEnds = [i \in 0..Len(UnifiedFields) |-> UnifiedEnds[i]]
    BY <2>1 DEF UnifiedEnds
  <2>3. \E end :
          /\ Ends(end, UnifiedFields)
          /\ \A i \in DOMAIN UnifiedFields :
               (\A j \in DOMAIN UnifiedFields : UnifiedFields[j][1] = UnifiedFields[i][1] => j = i) =>
                 Offsets(UnifiedFields)[UnifiedFields[i][1]] = end[i] - UnifiedFields[i][2]
    BY <2>2, UnifiedEndsFit, OffsetsDefined, Zenon
  <2> QED BY <2>1, <2>3 DEF UnifiedAt
<1>3. /\ end[0] = 0
      /\ \A i \in 1..18 :
           end[i] = RoundUp(end[i - 1], Alignment(UnifiedFields[i])) + UnifiedFields[i][2]
  BY <1>2, UnifiedFieldsAre DEF Ends
<1>4. end[1] = 4 /\ end[2] = 16 /\ end[3] = 24 /\ end[4] = 32
  BY <1>3, UnifiedFieldsAre DEF RoundUp, Alignment
<1>5. \A j \in 1..18 : /\ UnifiedFields[j][1] = UnifiedFields[1][1] => j = 1
                       /\ UnifiedFields[j][1] = UnifiedFields[4][1] => j = 4
  BY UnifiedFieldsAre
<1> QED BY <1>1, <1>2, <1>4, <1>5, UnifiedFieldsAre

LEMMA CopyKeeps ==
  ASSUME NEW e
  PROVE  Copied(e).type = e.type /\ Copied(e).ts_kernel_ns = e.ts_kernel_ns
<1> DEFINE From(f) == {g \in DOMAIN BpfAt : g # "data" /\ BpfAt[g] = UnifiedAt[f]}
<1>1. From("type") = {"type"} /\ From("ts_kernel_ns") = {"ts_kernel_ns"}
  <2>1. From("type") = {"type"}
    BY BpfPlaces, UnifiedPlaces
  <2>2. From("ts_kernel_ns") = {"ts_kernel_ns"}
    BY BpfPlaces, UnifiedPlaces
  <2> QED BY <2>1, <2>2
<1>2. \A f \in DOMAIN UnifiedAt :
        Copied(e)[f] = IF From(f) = {} THEN "bytes" ELSE e[CHOOSE g \in From(f) : TRUE]
  BY DEF Copied
<1> HIDE DEF From
<1>3. (CHOOSE g \in From("type") : TRUE) = "type"
      /\ (CHOOSE g \in From("ts_kernel_ns") : TRUE) = "ts_kernel_ns"
  BY <1>1
<1>4. Copied(e)["type"] = e["type"]
  BY <1>1, <1>2, <1>3, UnifiedPlaces
<1>5. Copied(e)["ts_kernel_ns"] = e["ts_kernel_ns"]
  BY <1>1, <1>2, <1>3, UnifiedPlaces
<1> QED BY <1>4, <1>5

\* What the return probe submits, and what the loader makes of it
Records ==
  [type : {2}, seq_no : {0}, ts_nic_ns : {0}, ts_kernel_ns : Nat, ts_userspace_ns : {0},
   sock_fd : {-1}, sock_ptr : Threads, tcp_seq : {0}, pid : Threads, pkt_len : {1},
   data_len : {0}, src_port : {0}, dst_port : {0}, data : {"unset"}]
Pushes == {[from |-> e, to |-> Copied(e)] : e \in Records}

CopyInv == rb \in Seq(Records) /\ pushed \in Seq(Pushes)

LEMMA CopyInvStep == ProbeInv /\ CopyInv /\ [Next]_vars => CopyInv'
<1> SUFFICES ASSUME ProbeInv, CopyInv, [Next]_vars PROVE CopyInv'
  OBVIOUS
<1>1. ASSUME NEW t \in Threads PROVE EventOf(t) \in Records
  BY DEF EventOf, Records, ProbeInv, ProbeType
<1>2. ASSUME NEW t \in Threads, Return(t) PROVE CopyInv'
  <2>1. rb' = rb \/ rb' = Append(rb, EventOf(t))
    BY <1>2 DEF Return, ReturnSeen, ReturnUnseen
  <2>2. pushed' = pushed
    BY <1>2 DEF Return, loader
  <2> QED BY <1>1, <2>1, <2>2 DEF CopyInv
<1>3. CASE handle_event
  <2>1. Head(rb) \in Records /\ Tail(rb) \in Seq(Records)
    BY <1>3 DEF handle_event, CopyInv
  <2>2. [from |-> Head(rb), to |-> Copied(Head(rb))] \in Pushes
    BY <2>1 DEF Pushes
  <2> QED BY <1>3, <2>1, <2>2 DEF handle_event, CopyInv
<1>4. ASSUME NEW t \in Threads, Arrive(t) \/ Enter(t) PROVE CopyInv'
  BY <1>4 DEF Arrive, Enter, loader, CopyInv
<1>5. CASE Proceed \/ PollReturns \/ LoopTest \/ PollError \/ Fails \/ signal_handler
  BY <1>5 DEF Proceed, PollReturns, LoopTest, PollError, Fails, signal_handler, CopyInv
<1>6. CASE Ended \/ UNCHANGED vars
  BY <1>6 DEF Ended, vars, CopyInv
<1> QED BY <1>2, <1>3, <1>4, <1>5, <1>6 DEF Next, Loader

\* The copy of a record into the longer structure of the shared queue keeps the
\* kind of the event and its kernel stamp, for every record of every run.
THEOREM CopyKeepsStamp == Spec => []StampSurvivesCopy
<1>1. Init => CopyInv
  BY DEF Init, CopyInv
<1>2. CopyInv => StampSurvivesCopy
  <2> SUFFICES ASSUME CopyInv, NEW i \in DOMAIN pushed
               PROVE  /\ pushed[i].to.type = pushed[i].from.type
                      /\ pushed[i].to.ts_kernel_ns = pushed[i].from.ts_kernel_ns
    BY DEF StampSurvivesCopy
  <2>1. PICK e \in Records : pushed[i] = [from |-> e, to |-> Copied(e)]
    BY DEF CopyInv, Pushes
  <2>2. pushed[i].from = e /\ pushed[i].to = Copied(e)
    BY <2>1
  <2> QED BY <2>2, CopyKeeps
<1> QED BY <1>1, <1>2, CopyInvStep, ProbeInvariant, PTL DEF Spec
=============================================================================
