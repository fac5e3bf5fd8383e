--------------------------- MODULE CorrelatorProofs ---------------------------
(***************************************************************************)
(* Proofs about the correlator thread, alone and at the end of the path of *)
(* a message, for every window, batch and counter width, any number of     *)
(* events and any timestamps.                                              *)
(***************************************************************************)
EXTENDS Pipeline, WellFoundedInduction, TLAPS

USE WindowAssumption, CntAssumption, ValueAssumption, EventsAssumption

-----------------------------------------------------------------------------
(* Induction, and functions defined by recursion on an index *)

\* A set of numbers that has 0 and the successor of each member has them all.
LEMMA SetInduction ==
  ASSUME NEW G \in SUBSET Nat, 0 \in G, \A n \in Nat : n \in G => n + 1 \in G
  PROVE  \A n \in Nat : n \in G
<1> SUFFICES ASSUME Nat \ G # {} PROVE FALSE
  OBVIOUS
<1> DEFINE Less == {p \in Nat \X Nat : p[1] < p[2]}
<1>1. IsWellFoundedOn(Less, Nat)
  BY NatLessThanWellFounded DEF OpToRel
<1> HIDE DEF Less
<1>2. PICK x \in Nat \ G : \A y \in Nat \ G : ~(<<y, x>> \in Less)
  <2>1. Nat \ G \subseteq Nat
    OBVIOUS
  <2> QED BY <1>1, <2>1, WFMin
<1>3. \A y \in Nat : y < x => y \in G
  BY <1>2 DEF Less
<1>4. x # 0 /\ x - 1 \in Nat /\ x - 1 < x
  BY <1>2
<1> QED BY <1>2, <1>3, <1>4

\* f is the function that a step makes of a start.
Iterates(f, n, S, start, step) ==
  /\ f \in [0..n -> S]
  /\ f[0] = start
  /\ \A i \in 1..n : f[i] = step[<<i, f[i - 1]>>]

\* There is such a function.
LEMMA Iteration ==
  ASSUME NEW n \in Nat, NEW S, NEW start \in S, NEW step \in [(1..n) \X S -> S]
  PROVE  \E f : Iterates(f, n, S, start, step)
<1> DEFINE Upto(m, f) == f[0] = start /\ \A i \in 1..m : f[i] = step[<<i, f[i - 1]>>]
           G == {m \in Nat : m <= n => \E f \in [0..m -> S] : Upto(m, f)}
<1>1. 0 \in G
  <2>1. [i \in 0..0 |-> start] \in [0..0 -> S] /\ Upto(0, [i \in 0..0 |-> start])
    OBVIOUS
  <2> QED BY <2>1
<1>2. ASSUME NEW m \in Nat, m \in G PROVE m + 1 \in G
  <2> SUFFICES ASSUME m + 1 <= n PROVE \E f \in [0..m + 1 -> S] : Upto(m + 1, f)
    OBVIOUS
  <2>1. PICK f \in [0..m -> S] : Upto(m, f)
    BY <1>2
  <2>2. step[<<m + 1, f[m]>>] \in S
    OBVIOUS
  <2> DEFINE g == [i \in 0..m + 1 |-> IF i <= m THEN f[i] ELSE step[<<m + 1, f[m]>>]]
  <2>3. g \in [0..m + 1 -> S]
    BY <2>2
  <2>4. g[0] = start
    BY <2>1
  <2>5. ASSUME NEW i \in 1..m + 1 PROVE g[i] = step[<<i, g[i - 1]>>]
    <3>1. CASE i <= m
      <4>1. g[i] = f[i] /\ g[i - 1] = f[i - 1]
        BY <3>1
      <4> QED BY <2>1, <3>1, <4>1
    <3>2. CASE i = m + 1
      <4>1. g[m + 1] = step[<<m + 1, f[m]>>] /\ g[m] = f[m] /\ i - 1 = m
        BY <3>2
      <4> HIDE DEF g
      <4> QED BY <3>2, <4>1
    <3> QED BY <3>1, <3>2
  <2> QED BY <2>3, <2>4, <2>5
<1> HIDE DEF G
<1>3. n \in G
  <2>1. G \in SUBSET Nat
    BY DEF G
  <2> QED BY <1>1, <1>2, <2>1, SetInduction
<1> QED BY <1>3 DEF G, Iterates

-----------------------------------------------------------------------------
(* The scan for the closest event *)

\* The scan is defined at every index.
LEMMA ScanDefined ==
  ASSUME NEW S, NEW events \in Seq(S), NEW among, NEW t
  PROVE  \E best :
           /\ ByTime(events, among, t) = best[Len(events)]
           /\ best[0] = << >>
           /\ \A i \in 1..Len(events) :
                best[i] = IF i \in among THEN Closer(best[i - 1], events[i], t)
                          ELSE best[i - 1]
<1> DEFINE n == Len(events)
           Def(f) == [i \in 0..n |->
                        IF i = 0 THEN << >>
                        ELSE IF i \in among THEN Closer(f[i - 1], events[i], t) ELSE f[i - 1]]
           step == [p \in (1..n) \X Seq(S) |->
                      IF p[1] \in among THEN Closer(p[2], events[p[1]], t) ELSE p[2]]
           best == CHOOSE f : f = Def(f)
<1>1. n \in Nat /\ << >> \in Seq(S) /\ \A i \in 1..n : events[i] \in S
  OBVIOUS
<1>2. step \in [(1..n) \X Seq(S) -> Seq(S)]
  BY <1>1 DEF Closer
<1>3. \A i \in 1..n, s \in Seq(S) :
        step[<<i, s>>] = IF i \in among THEN Closer(s, events[i], t) ELSE s
  OBVIOUS
<1> HIDE DEF step, n
<1>4. PICK f : Iterates(f, n, Seq(S), << >>, step)
  BY <1>1, <1>2, Iteration, Zenon
<1>5. ASSUME NEW i \in 0..n PROVE f[i] = Def(f)[i]
  <2>1. CASE i = 0
    BY <1>4, <2>1 DEF Iterates
  <2>2. CASE i # 0
    <3>1. i \in 1..n /\ f[i - 1] \in Seq(S)
      BY <1>1, <1>4, <2>2 DEF Iterates
    <3> QED BY <1>3, <1>4, <2>2, <3>1 DEF Iterates
  <2> QED BY <2>1, <2>2
<1>6. f = Def(f)
  BY <1>4, <1>5 DEF Iterates
<1>7. best = Def(best)
  BY <1>6
<1>8. ByTime(events, among, t) = best[n]
  BY DEF ByTime, n
<1> HIDE DEF best
<1>9. best[0] = << >> /\ \A i \in 1..n :
        best[i] = IF i \in among THEN Closer(best[i - 1], events[i], t) ELSE best[i - 1]
  BY <1>1, <1>7
<1> QED BY <1>8, <1>9 DEF n

\* Event e may be matched at time t; it is the nearest of the first n events
\* that may be, the first of them if there are several.
Eligible(e, t) == e.ts > 0 /\ e.ts <= t
NearestOf(events, among, n, x, t) ==
  /\ x \in among /\ x \in 1..n /\ Eligible(events[x], t)
  /\ \A j \in among : j \in 1..n /\ Eligible(events[j], t) =>
       events[j].ts < events[x].ts \/ (events[j].ts = events[x].ts /\ x <= j)

\* What the scan has found after n events
Found(best, events, among, n, t) ==
  \/ best = << >> /\ \A j \in among : j \in 1..n => ~Eligible(events[j], t)
  \/ \E x \in 1..n : best = <<events[x]>> /\ NearestOf(events, among, n, x, t)

\* The scan finds the nearest event exactly if there is one that may be matched.
LEMMA ScanFindsNearest ==
  ASSUME NEW S, NEW events \in Seq(S), NEW among, NEW t \in Nat,
         \A e \in S : e.ts \in Nat
  PROVE  Found(ByTime(events, among, t), events, among, Len(events), t)
<1>1. PICK best :
        /\ ByTime(events, among, t) = best[Len(events)]
        /\ best[0] = << >>
        /\ \A i \in 1..Len(events) :
             best[i] = IF i \in among THEN Closer(best[i - 1], events[i], t)
                       ELSE best[i - 1]
  BY ScanDefined
<1> DEFINE n == Len(events)
           G == {i \in Nat : i <= n => Found(best[i], events, among, i, t)}
<1>2. n \in Nat /\ \A i \in 1..n : events[i].ts \in Nat
  OBVIOUS
<1>3. 0 \in G
  BY <1>1 DEF Found
<1>4. ASSUME NEW i \in Nat, i \in G PROVE i + 1 \in G
  <2> SUFFICES ASSUME i + 1 <= n PROVE Found(best[i + 1], events, among, i + 1, t)
    OBVIOUS
  <2> DEFINE e == events[i + 1]
  <2>1. Found(best[i], events, among, i, t)
    BY <1>4
  <2>2. best[i + 1] = IF i + 1 \in among THEN Closer(best[i], e, t) ELSE best[i]
    BY <1>1
  <2>3. \A j : j \in 1..i + 1 <=> j \in 1..i \/ j = i + 1
    OBVIOUS
  <2>4. e.ts \in Nat
    BY <1>2
  <2> HIDE DEF e
  <2>5. CASE best[i] = << >> /\ \A j \in among : j \in 1..i => ~Eligible(events[j], t)
    <3>1. CASE i + 1 \in among /\ Eligible(e, t)
      <4>1. best[i + 1] = <<e>>
        BY <2>2, <2>5, <3>1 DEF Closer, Eligible
      <4>2. NearestOf(events, among, i + 1, i + 1, t)
        BY <2>3, <2>4, <2>5, <3>1 DEF NearestOf, e
      <4> QED BY <4>1, <4>2 DEF Found, e
    <3>2. CASE ~(i + 1 \in among /\ Eligible(e, t))
      <4>1. best[i + 1] = << >>
        BY <2>2, <2>5, <3>2 DEF Closer, Eligible
      <4> QED BY <2>3, <2>5, <3>2, <4>1 DEF Found, e
    <3> QED BY <3>1, <3>2
  <2>6. ASSUME NEW x \in 1..i, best[i] = <<events[x]>>, NearestOf(events, among, i, x, t)
        PROVE  Found(best[i + 1], events, among, i + 1, t)
    <3>1. events[x].ts \in Nat /\ Eligible(events[x], t) /\ x \in 1..i + 1
      BY <1>2, <2>6 DEF NearestOf
    <3>2. CASE i + 1 \in among /\ Eligible(e, t) /\ e.ts > events[x].ts
      <4>1. best[i + 1] = <<e>>
        BY <2>2, <2>4, <2>6, <3>1, <3>2 DEF Closer, Eligible
      <4>2. NearestOf(events, among, i + 1, i + 1, t)
        <5> SUFFICES ASSUME NEW j \in among, j \in 1..i + 1, Eligible(events[j], t)
                     PROVE  events[j].ts < e.ts \/ (events[j].ts = e.ts /\ i + 1 <= j)
          BY <3>2 DEF NearestOf, e
        <5>1. CASE j = i + 1
          BY <2>4, <5>1 DEF e
        <5>2. CASE j \in 1..i
          BY <1>2, <2>4, <2>6, <3>1, <3>2, <5>2 DEF NearestOf
        <5> QED BY <2>3, <5>1, <5>2
      <4> QED BY <4>1, <4>2 DEF Found, e
    <3>3. CASE ~(i + 1 \in among /\ Eligible(e, t) /\ e.ts > events[x].ts)
      <4>1. best[i + 1] = <<events[x]>>
        BY <2>2, <2>4, <2>6, <3>1, <3>3 DEF Closer, Eligible
      <4>2. NearestOf(events, among, i + 1, x, t)
        <5> SUFFICES ASSUME NEW j \in among, j \in 1..i + 1, Eligible(events[j], t)
                     PROVE  events[j].ts < events[x].ts
                            \/ (events[j].ts = events[x].ts /\ x <= j)
          BY <2>6, <3>1 DEF NearestOf
        <5>1. CASE j = i + 1
          BY <2>4, <3>1, <3>3, <5>1 DEF e
        <5>2. CASE j \in 1..i
          BY <2>6, <5>2 DEF NearestOf
        <5> QED BY <2>3, <5>1, <5>2
      <4> QED BY <3>1, <4>1, <4>2 DEF Found
    <3> QED BY <3>2, <3>3
  <2> QED BY <2>1, <2>5, <2>6 DEF Found
<1> HIDE DEF G
<1>5. n \in G
  <2>1. G \in SUBSET Nat
    BY DEF G
  <2> QED BY <1>2, <1>3, <1>4, <2>1, SetInduction
<1> QED BY <1>1, <1>5 DEF G

-----------------------------------------------------------------------------
(* A pass over the windows *)

\* Sets of events, and of events as the message handler makes them
Events(E) == \A e \in E : e.id \in Nat /\ e.ts \in Nat
HandlerEvents(E) == Events(E) /\ \A e \in E : e.tcp_seq = 0 /\ e.sock_ptr = 0

\* The nearest of all events that may be matched with a user event
Nearest(kernel, x, t) == NearestOf(kernel, DOMAIN kernel, Len(kernel), x, t)

\* A user event is matched with the nearest kernel event, and by time alone:
\* neither the sequence number nor the socket is known to the handler.
LEMMA MatchByTime ==
  ASSUME NEW K, Events(K), NEW kernel \in Seq(K), NEW ue,
         ue.tcp_seq = 0, ue.sock_ptr = 0, ue.ts \in Nat,
         MatchKernel(kernel, ue) # << >>
  PROVE  \E x \in DOMAIN kernel :
           MatchKernel(kernel, ue) = <<kernel[x]>> /\ Nearest(kernel, x, ue.ts)
<1>1. BySeq(kernel, ue.tcp_seq) = << >>
  BY DEF BySeq, SelectInSeq
<1>2. {i \in DOMAIN kernel : ~OtherSocket(kernel[i], ue)} = DOMAIN kernel
  BY DEF OtherSocket
<1>3. MatchKernel(kernel, ue) = ByTime(kernel, DOMAIN kernel, ue.ts)
  BY <1>1, <1>2 DEF MatchKernel
<1>4. Found(ByTime(kernel, DOMAIN kernel, ue.ts), kernel, DOMAIN kernel, Len(kernel), ue.ts)
  BY ScanFindsNearest DEF Events
<1>5. DOMAIN kernel = 1..Len(kernel)
  OBVIOUS
<1> QED BY <1>3, <1>4, <1>5 DEF Found, Nearest

\* Report r of a pass is about user event ue and made of its match.
Reported(r, kernel, ue) ==
  /\ MatchKernel(kernel, ue) # << >>
  /\ r.u = ue /\ r.k = MatchKernel(kernel, ue)[1]

\* Every report of a pass is about a user event of the window.
LEMMA ReportsMade ==
  ASSUME NEW U, NEW nic, NEW kernel, NEW user \in Seq(U),
         NEW y \in DOMAIN Reports(nic, kernel, user)
  PROVE  \E i \in DOMAIN user : Reported(Reports(nic, kernel, user)[y], kernel, user[i])
<1> DEFINE n == Len(user)
           R(i) == [u |-> user[i], k |-> MatchKernel(kernel, user[i])[1],
                    n |-> MatchNic(nic, MatchKernel(kernel, user[i])[1]),
                    logged |-> user[i].timed]
           All == {R(i) : i \in {j \in 1..n : MatchKernel(kernel, user[j]) # << >>}}
           Def(f) == [i \in 0..n |->
                        IF i = 0 THEN << >> ELSE f[i - 1] \o ReportOf(nic, kernel, user[i])]
           step == [p \in (1..n) \X Seq(All) |-> p[2] \o ReportOf(nic, kernel, user[p[1]])]
           made == CHOOSE f : f = Def(f)
<1>1. n \in Nat /\ << >> \in Seq(All)
  OBVIOUS
<1>2. ASSUME NEW i \in 1..n PROVE ReportOf(nic, kernel, user[i]) \in Seq(All)
  <2>1. CASE MatchKernel(kernel, user[i]) = << >>
    BY <1>1, <2>1 DEF ReportOf
  <2>2. CASE MatchKernel(kernel, user[i]) # << >>
    <3>1. R(i) \in All
      BY <2>2
    <3>2. ReportOf(nic, kernel, user[i]) = <<R(i)>>
      BY <2>2 DEF ReportOf
    <3> HIDE DEF All, R
    <3> QED BY <3>1, <3>2
  <2> QED BY <2>1, <2>2
<1>3. \A r \in All : \E i \in 1..n : Reported(r, kernel, user[i])
  BY DEF Reported
<1> HIDE DEF All, R, n
<1>4. step \in [(1..n) \X Seq(All) -> Seq(All)]
  BY <1>2
<1>5. \A i \in 1..n, s \in Seq(All) : step[<<i, s>>] = s \o ReportOf(nic, kernel, user[i])
  OBVIOUS
<1> HIDE DEF step
<1>6. PICK f : Iterates(f, n, Seq(All), << >>, step)
  BY <1>1, <1>4, Iteration, Zenon
<1>7. ASSUME NEW i \in 0..n PROVE f[i] = Def(f)[i]
  <2>1. CASE i = 0
    BY <1>6, <2>1 DEF Iterates
  <2>2. CASE i # 0
    <3>1. i \in 1..n /\ f[i - 1] \in Seq(All)
      BY <1>1, <1>6, <2>2 DEF Iterates
    <3> QED BY <1>5, <1>6, <2>2, <3>1 DEF Iterates
  <2> QED BY <2>1, <2>2
<1>8. f = Def(f)
  BY <1>6, <1>7 DEF Iterates
<1>9. made = Def(made)
  BY <1>8
<1>10. Reports(nic, kernel, user) = made[n]
  BY DEF Reports, n
<1> HIDE DEF made
<1>11. made[0] = << >> /\ \A i \in 1..n : made[i] = made[i - 1] \o ReportOf(nic, kernel, user[i])
  BY <1>1, <1>9
<1> DEFINE G == {i \in Nat : i <= n => made[i] \in Seq(All)}
<1>12. 0 \in G
  BY <1>1, <1>11
<1>13. ASSUME NEW i \in Nat, i \in G PROVE i + 1 \in G
  <2> SUFFICES ASSUME i + 1 <= n PROVE made[i + 1] \in Seq(All)
    OBVIOUS
  <2>1. made[i] \in Seq(All) /\ i + 1 \in 1..n /\ (i + 1) - 1 = i
    BY <1>1, <1>13
  <2>2. made[i + 1] = made[i] \o ReportOf(nic, kernel, user[i + 1])
    BY <1>11, <2>1
  <2> QED BY <1>2, <2>1, <2>2
<1> HIDE DEF G
<1>14. n \in G
  <2>1. G \in SUBSET Nat
    BY DEF G
  <2> QED BY <1>1, <1>12, <1>13, <2>1, SetInduction
<1>15. Reports(nic, kernel, user) \in Seq(All)
  BY <1>1, <1>10, <1>14 DEF G
<1>16. Reports(nic, kernel, user)[y] \in All
  BY <1>15
<1> QED BY <1>3, <1>16 DEF n

\* Trimming keeps the end of a window, in order.
LEMMA Trimmed ==
  ASSUME NEW E, NEW s \in Seq(E), NEW limit \in Nat
  PROVE  LET w == LastAtMost(s, limit)  d == Len(s) - Len(w)
         IN  /\ w \in Seq(E)
             /\ Len(w) = IF Len(s) > limit THEN limit ELSE Len(s)
             /\ \A i \in 1..Len(w) : i + d \in 1..Len(s) /\ w[i] = s[i + d]
<1>1. CASE Len(s) > limit
  <2>1. LastAtMost(s, limit) = SubSeq(s, Len(s) - limit + 1, Len(s))
    BY <1>1 DEF LastAtMost
  <2>2. /\ SubSeq(s, Len(s) - limit + 1, Len(s)) \in Seq(E)
        /\ Len(SubSeq(s, Len(s) - limit + 1, Len(s))) = limit
    BY <1>1
  <2>3. ASSUME NEW i \in 1..limit
        PROVE  /\ i + (Len(s) - limit) \in 1..Len(s)
               /\ SubSeq(s, Len(s) - limit + 1, Len(s))[i] = s[i + (Len(s) - limit)]
    BY <1>1
  <2> QED BY <1>1, <2>1, <2>2, <2>3
<1>2. CASE ~(Len(s) > limit)
  <2>1. LastAtMost(s, limit) = s
    BY <1>2 DEF LastAtMost
  <2> QED BY <1>2, <2>1
<1> QED BY <1>1, <1>2

\* The second trimming of a pass finds nothing left to drop.
LEMMA PassTrims ==
  ASSUME NEW N, NEW K, NEW U, NEW nic \in Seq(N), NEW kernel \in Seq(K), NEW user \in Seq(U),
         Pass(nic, kernel, user)
  PROVE  /\ nic_events' = LastAtMost(nic, Window)
         /\ kernel_events' = LastAtMost(kernel, Window)
         /\ user_events' = LastAtMost(user, Window)
         /\ report' = Reports(nic_events', kernel_events', user_events')
         /\ considered' = considered \cup {user_events'[i].id : i \in DOMAIN user_events'}
<1>1. /\ Len(LastAtMost(nic, Window)) \in 0..Window
      /\ Len(LastAtMost(kernel, Window)) \in 0..Window
      /\ Len(LastAtMost(user, Window)) \in 0..Window
  BY Trimmed
<1>2. /\ DropOldHalf(LastAtMost(nic, Window), 2 * Window) = LastAtMost(nic, Window)
      /\ DropOldHalf(LastAtMost(kernel, Window), 2 * Window) = LastAtMost(kernel, Window)
      /\ DropOldHalf(LastAtMost(user, Window), Window) = LastAtMost(user, Window)
  BY <1>1 DEF DropOldHalf
<1> QED BY <1>2 DEF Pass

\* Counting one more event completes a batch or not, also when cnt wraps.
LEMMA CountModulo ==
  ASSUME NEW n \in Nat, (n + 1) % Batch # 0
  PROVE  (n + 1) % Batch = (n % Batch) + 1
<1> DEFINE q == n \div Batch
           q1 == (n + 1) \div Batch
           r == n % Batch
           r1 == (n + 1) % Batch
<1>1. n = Batch * q + r /\ q \in Int /\ r \in 0..Batch - 1
  OBVIOUS
<1>2. n + 1 = Batch * q1 + r1 /\ q1 \in Int /\ r1 \in 1..Batch - 1
  OBVIOUS
<1> HIDE DEF q, q1, r, r1
<1>3. PICK d \in Int : d = q1 - q
  BY <1>1, <1>2
<1>4. Batch * d = r + 1 - r1
  BY <1>1, <1>2, <1>3
<1>5. ASSUME d >= 1 PROVE FALSE
  <2>1. Batch * d >= Batch
    BY <1>5
  <2> QED BY <1>1, <1>2, <1>4, <2>1
<1>6. ASSUME d <= -1 PROVE FALSE
  <2>1. Batch * d <= -Batch
    BY <1>6
  <2> QED BY <1>1, <1>2, <1>4, <2>1
<1>7. r1 = r + 1
  BY <1>1, <1>2, <1>4, <1>5, <1>6
<1> QED BY <1>7 DEF r, r1

LEMMA CountStep ==
  ASSUME NEW n \in 0..CntWord - 1, NEW m, m = (n + 1) % CntWord
  PROVE  /\ m \in 0..CntWord - 1
         /\ m % Batch \in 0..Batch - 1
         /\ ~Due(m) => m % Batch = (n % Batch) + 1
         /\ Due(m) => m % Batch = 0
<1>1. CASE n + 1 = CntWord
  <2>1. m = 0
    BY <1>1
  <2>2. 0 % Batch = 0
    OBVIOUS
  <2> QED BY <2>1, <2>2 DEF Due
<1>2. CASE n + 1 # CntWord
  <2>1. m = n + 1
    BY <1>2
  <2>2. m \in Nat /\ m % Batch \in 0..Batch - 1
    BY <2>1
  <2>3. ~Due(m) => m % Batch = (n % Batch) + 1
    <3>1. n \in Nat
      OBVIOUS
    <3>2. (n + 1) % Batch # 0 => (n + 1) % Batch = (n % Batch) + 1
      BY <3>1, CountModulo, Zenon
    <3> QED BY <2>1, <3>2, Zenon DEF Due
  <2> QED BY <1>2, <2>1, <2>2, <2>3 DEF Due
<1> QED BY <1>1, <1>2

-----------------------------------------------------------------------------
(* The windows and the latest reports, whatever events they hold *)

\* Events are in the order of their numbers, none of which is above n.
NumberedTo(w, n) ==
  /\ \A i \in 1..Len(w) : w[i].id <= n
  /\ \A i, j \in 1..Len(w) : i < j => w[i].id < w[j].id

WindowInv(N, K, U) ==
  /\ nic_events \in Seq(N) /\ kernel_events \in Seq(K) /\ user_events \in Seq(U)
  /\ cnt \in 0..CntWord - 1 /\ popped \in Nat /\ ended \in BOOLEAN
  /\ WindowsBounded
  /\ NumberedTo(kernel_events, popped) /\ NumberedTo(user_events, popped)

\* Kernel event k is as close to time t as any of the window, and the first
\* popped of those that are.
NearestById(k, t, window) ==
  \A j \in DOMAIN window :
    window[j].ts <= t => \/ window[j].ts < k.ts
                         \/ window[j].ts = k.ts /\ k.id <= window[j].id

ReportInv(K, U) ==
  \A y \in DOMAIN report :
    LET r == report[y]
    IN  /\ r.u \in U /\ r.k \in K
        /\ Eligible(r.k, r.u.ts)
        /\ r.u.id <= popped
        /\ Due(cnt) \/ ended => NearestById(r.k, r.u.ts, kernel_events)

\* A window as add_event leaves it
Grown(new, old, E) == new = old \/ \E e \in E : e.id = popped + 1 /\ new = Append(old, e)

LEMMA GrownWindow ==
  ASSUME NEW E, Events(E), NEW old \in Seq(E), NumberedTo(old, popped), popped \in Nat,
         NEW new, Grown(new, old, E)
  PROVE  new \in Seq(E) /\ Len(new) <= Len(old) + 1 /\ NumberedTo(new, popped + 1)
<1>1. CASE new = old
  BY <1>1 DEF NumberedTo, Events
<1>2. ASSUME NEW e \in E, e.id = popped + 1, new = Append(old, e)
      PROVE  new \in Seq(E) /\ Len(new) <= Len(old) + 1 /\ NumberedTo(new, popped + 1)
  <2>1. /\ new \in Seq(E) /\ Len(new) = Len(old) + 1
        /\ \A i \in 1..Len(old) : new[i] = old[i] /\ new[i].id \in Nat
        /\ new[Len(old) + 1] = e
    BY <1>2 DEF Events
  <2>2. NumberedTo(new, popped + 1)
    BY <1>2, <2>1 DEF NumberedTo
  <2> QED BY <2>1, <2>2
<1> QED BY <1>1, <1>2 DEF Grown

LEMMA TrimmedNumbered ==
  ASSUME NEW E, NEW s \in Seq(E), NEW n, NumberedTo(s, n)
  PROVE  NumberedTo(LastAtMost(s, Window), n)
<1> DEFINE w == LastAtMost(s, Window)
           d == Len(s) - Len(w)
<1>1. /\ w \in Seq(E) /\ d \in Int
      /\ \A i \in 1..Len(w) : i + d \in 1..Len(s) /\ w[i] = s[i + d]
  BY Trimmed
<1> HIDE DEF w, d
<1>2. \A i, j \in 1..Len(w) : i < j => i + d < j + d
  BY <1>1
<1> QED BY <1>1, <1>2 DEF NumberedTo, w

\* What a pass leaves behind
LEMMA PassLeaves ==
  ASSUME NEW N, NEW K, NEW U, Events(K), HandlerEvents(U),
         NEW nic \in Seq(N), NEW kernel \in Seq(K), NEW user \in Seq(U), NEW n \in Nat,
         NumberedTo(kernel, n), NumberedTo(user, n),
         Pass(nic, kernel, user)
  PROVE  /\ nic_events' \in Seq(N) /\ kernel_events' \in Seq(K) /\ user_events' \in Seq(U)
         /\ Len(nic_events') <= Window /\ Len(kernel_events') <= Window
         /\ Len(user_events') <= Window
         /\ NumberedTo(kernel_events', n) /\ NumberedTo(user_events', n)
         /\ \A y \in DOMAIN report' :
              LET r == report'[y]
              IN  /\ \E i \in DOMAIN user_events' :
                       Reported(r, kernel_events', user_events'[i])
                  /\ \E x \in DOMAIN kernel_events' : r.k = kernel_events'[x]
                  /\ r.u \in U /\ r.k \in K
                  /\ Eligible(r.k, r.u.ts)
                  /\ r.u.id <= n
                  /\ NearestById(r.k, r.u.ts, kernel_events')
<1> DEFINE kw == kernel_events'
           uw == user_events'
<1>1. /\ nic_events' = LastAtMost(nic, Window)
      /\ kw = LastAtMost(kernel, Window)
      /\ uw = LastAtMost(user, Window)
      /\ report' = Reports(nic_events', kw, uw)
  BY PassTrims
<1>2. /\ nic_events' \in Seq(N) /\ Len(nic_events') <= Window
      /\ kw \in Seq(K) /\ Len(kw) <= Window
      /\ uw \in Seq(U) /\ Len(uw) <= Window
  <2>1. ASSUME NEW S, NEW w \in Seq(S)
        PROVE  LastAtMost(w, Window) \in Seq(S) /\ Len(LastAtMost(w, Window)) <= Window
    BY Trimmed
  <2> QED BY <1>1, <2>1
<1>3. NumberedTo(kw, n) /\ NumberedTo(uw, n)
  BY <1>1, TrimmedNumbered
<1> HIDE DEF kw, uw
<1>4. ASSUME NEW y \in DOMAIN report'
      PROVE  LET r == report'[y]
             IN  /\ \E i \in DOMAIN uw : Reported(r, kw, uw[i])
                 /\ \E x \in DOMAIN kw : r.k = kw[x]
                 /\ r.u \in U /\ r.k \in K
                 /\ Eligible(r.k, r.u.ts)
                 /\ r.u.id <= n
                 /\ NearestById(r.k, r.u.ts, kw)
  <2> DEFINE r == report'[y]
  <2>1. PICK i \in DOMAIN uw : Reported(r, kw, uw[i])
    BY <1>1, <1>2, ReportsMade
  <2> HIDE DEF r
  <2>2. /\ uw[i] \in U /\ uw[i].ts \in Nat /\ uw[i].tcp_seq = 0 /\ uw[i].sock_ptr = 0
        /\ uw[i].id <= n
    BY <1>2, <1>3 DEF HandlerEvents, Events, NumberedTo
  <2>3. PICK x \in DOMAIN kw :
          MatchKernel(kw, uw[i]) = <<kw[x]>> /\ Nearest(kw, x, uw[i].ts)
    BY <1>2, <2>1, <2>2, MatchByTime DEF Reported
  <2>4. r.u = uw[i] /\ r.k = kw[x] /\ kw[x] \in K
    BY <1>2, <2>1, <2>3 DEF Reported
  <2>5. Eligible(kw[x], uw[i].ts)
    BY <2>3 DEF Nearest, NearestOf
  <2>6. NearestById(kw[x], uw[i].ts, kw)
    <3> SUFFICES ASSUME NEW j \in DOMAIN kw, kw[j].ts <= uw[i].ts
                 PROVE  \/ kw[j].ts < kw[x].ts
                        \/ kw[j].ts = kw[x].ts /\ kw[x].id <= kw[j].id
      BY DEF NearestById
    <3>1. /\ kw[j].ts \in Nat /\ kw[x].ts \in Nat /\ kw[j].id \in Nat /\ kw[x].id \in Nat
          /\ j \in 1..Len(kw) /\ x \in 1..Len(kw)
      BY <1>2 DEF Events
    <3>2. CASE kw[j].ts > 0
      <4>1. kw[j].ts < kw[x].ts \/ (kw[j].ts = kw[x].ts /\ x <= j)
        BY <2>3, <3>1, <3>2 DEF Nearest, NearestOf, Eligible
      <4>2. x <= j => kw[x].id <= kw[j].id
        BY <1>3, <3>1 DEF NumberedTo
      <4> QED BY <4>1, <4>2
    <3>3. CASE kw[j].ts = 0
      BY <2>5, <3>1, <3>3 DEF Eligible
    <3> QED BY <3>1, <3>2, <3>3
  <2> QED BY <2>1, <2>2, <2>4, <2>5, <2>6 DEF r
<1> QED BY <1>2, <1>3, <1>4 DEF kw, uw

LEMMA AddedStep ==
  ASSUME NEW N, NEW K, NEW U, Events(N), Events(K), HandlerEvents(U),
         WindowInv(N, K, U), ReportInv(K, U), ~ended,
         NEW nic, NEW kernel, NEW user,
         nic \in Seq(N), Len(nic) <= Len(nic_events) + 1,
         Grown(kernel, kernel_events, K), Grown(user, user_events, U),
         Added(nic, kernel, user)
  PROVE  WindowInv(N, K, U)' /\ ReportInv(K, U)'
<1>1. /\ kernel \in Seq(K) /\ Len(kernel) <= Len(kernel_events) + 1
      /\ user \in Seq(U) /\ Len(user) <= Len(user_events) + 1
      /\ NumberedTo(kernel, popped + 1) /\ NumberedTo(user, popped + 1)
  BY GrownWindow DEF WindowInv, HandlerEvents
<1>2. /\ cnt' \in 0..CntWord - 1
      /\ cnt' % Batch \in 0..Batch - 1
      /\ ~Due(cnt') => cnt' % Batch = (cnt % Batch) + 1
      /\ Due(cnt') => cnt' % Batch = 0
  BY CountStep DEF Added, WindowInv
<1>3. popped' = popped + 1 /\ popped' \in Nat /\ ended' = FALSE
  BY DEF Added, WindowInv
<1>4. CASE Due(cnt')
  <2>1. Pass(nic, kernel, user)
    BY <1>4 DEF Added
  <2>2. /\ nic_events' \in Seq(N) /\ kernel_events' \in Seq(K) /\ user_events' \in Seq(U)
        /\ Len(nic_events') <= Window /\ Len(kernel_events') <= Window
        /\ Len(user_events') <= Window
        /\ NumberedTo(kernel_events', popped') /\ NumberedTo(user_events', popped')
    BY <1>1, <1>3, <2>1, PassLeaves
  <2>3. \A y \in DOMAIN report' :
          /\ report'[y].u \in U /\ report'[y].k \in K
          /\ Eligible(report'[y].k, report'[y].u.ts)
          /\ report'[y].u.id <= popped'
          /\ NearestById(report'[y].k, report'[y].u.ts, kernel_events')
    BY <1>1, <1>3, <2>1, PassLeaves
  <2>4. WindowsBounded'
    BY <1>2, <1>4, <2>2 DEF WindowsBounded
  <2> QED BY <1>2, <1>3, <2>2, <2>3, <2>4 DEF WindowInv, ReportInv
<1>5. CASE ~Due(cnt')
  <2>1. nic_events' = nic /\ kernel_events' = kernel /\ user_events' = user /\ report' = report
    BY <1>5 DEF Added
  <2>2. WindowsBounded'
    <3>1. cnt % Batch \in Int /\ Len(nic_events) \in Nat /\ Len(kernel_events) \in Nat
          /\ Len(user_events) \in Nat
      BY DEF WindowInv
    <3>2. /\ Len(nic) <= Window + (cnt' % Batch)
          /\ Len(kernel) <= Window + (cnt' % Batch)
          /\ Len(user) <= Window + (cnt' % Batch)
      <4>1. cnt' % Batch = (cnt % Batch) + 1
        BY <1>2, <1>5
      <4>2. Len(nic) \in Nat /\ Len(kernel) \in Nat /\ Len(user) \in Nat
        BY <1>1
      <4>3. /\ Len(nic_events) <= Window + (cnt % Batch)
            /\ Len(kernel_events) <= Window + (cnt % Batch)
            /\ Len(user_events) <= Window + (cnt % Batch)
        BY DEF WindowInv, WindowsBounded
      <4> QED BY <1>1, <3>1, <4>1, <4>2, <4>3
    <3> QED BY <2>1, <3>2 DEF WindowsBounded
  <2>3. ReportInv(K, U)'
    <3>1. \A y \in DOMAIN report : report[y].u.id \in Nat
      BY DEF ReportInv, HandlerEvents, Events
    <3> QED BY <1>3, <1>5, <2>1, <3>1 DEF ReportInv, WindowInv
  <2> QED BY <1>1, <1>2, <1>3, <2>1, <2>2, <2>3 DEF WindowInv
<1> QED BY <1>4, <1>5

LEMMA FinalPassStep ==
  ASSUME NEW N, NEW K, NEW U, Events(N), Events(K), HandlerEvents(U),
         WindowInv(N, K, U), FinalPass
  PROVE  WindowInv(N, K, U)' /\ ReportInv(K, U)'
<1>1. Pass(nic_events, kernel_events, user_events) /\ cnt' = cnt /\ popped' = popped
      /\ ended' = TRUE
  BY DEF FinalPass
<1>2. /\ nic_events' \in Seq(N) /\ kernel_events' \in Seq(K) /\ user_events' \in Seq(U)
      /\ Len(nic_events') <= Window /\ Len(kernel_events') <= Window
      /\ Len(user_events') <= Window
      /\ NumberedTo(kernel_events', popped) /\ NumberedTo(user_events', popped)
  BY <1>1, PassLeaves DEF WindowInv
<1>3. \A y \in DOMAIN report' :
        /\ report'[y].u \in U /\ report'[y].k \in K
        /\ Eligible(report'[y].k, report'[y].u.ts)
        /\ report'[y].u.id <= popped
        /\ NearestById(report'[y].k, report'[y].u.ts, kernel_events')
  BY <1>1, PassLeaves DEF WindowInv
<1>4. WindowsBounded'
  <2>1. cnt % Batch \in Nat
    BY DEF WindowInv
  <2> QED BY <1>1, <1>2, <2>1 DEF WindowsBounded
<1> QED BY <1>1, <1>2, <1>3, <1>4 DEF WindowInv, ReportInv

-----------------------------------------------------------------------------
(* The correlator alone *)

NicSet == [id : Nat, ts : Times, tcp_seq : TcpSeqs, sock_ptr : {0}]
KernelSet == [id : Nat, ts : Times, tcp_seq : TcpSeqs, sock_ptr : {1}]
UserSet == [id : Nat, ts : Times, tcp_seq : {0}, sock_ptr : {0}, timed : BOOLEAN]

LEMMA CorrelatorSets == Events(NicSet) /\ Events(KernelSet) /\ HandlerEvents(UserSet)
BY DEF Events, HandlerEvents, NicSet, KernelSet, UserSet

LEMMA PoppedInSets ==
  ASSUME NEW n \in Nat
  PROVE  /\ \A e \in NicEvents(n) : e \in NicSet /\ e.id = n
         /\ \A e \in KernelEvents(n) : e \in KernelSet /\ e.id = n
         /\ \A e \in UserEvents(n) : e \in UserSet /\ e.id = n
BY DEF NicEvents, KernelEvents, UserEvents, NicSet, KernelSet, UserSet

CorrInv == WindowInv(NicSet, KernelSet, UserSet) /\ ReportInv(KernelSet, UserSet)

\* An event popped by the correlator and added to its window.
Pops(nic, kernel, user) ==
  /\ ~ended
  /\ nic \in Seq(NicSet) /\ Len(nic) <= Len(nic_events) + 1
  /\ Grown(kernel, kernel_events, KernelSet) /\ Grown(user, user_events, UserSet)
  /\ Added(nic, kernel, user)

\* Every step of the thread is a pop with its pass, the last pass, or nothing.
LEMMA CorrelatorSteps ==
  ASSUME CorrInv, [Next]_vars
  PROVE  \/ \E e \in NicEvents(popped + 1) :
              /\ Pops(Append(nic_events, e), kernel_events, user_events)
              /\ UNCHANGED <<users, inOrder>>
         \/ \E e \in KernelEvents(popped + 1) :
              /\ Pops(nic_events, Append(kernel_events, e), user_events)
              /\ inOrder' = (inOrder /\ (kernel_events # << >> =>
                                           Last(kernel_events).ts <= e.ts))
              /\ users' = users
         \/ \E e \in UserEvents(popped + 1) :
              /\ Pops(nic_events, kernel_events, Append(user_events, e))
              /\ users' = users \cup {e.id} /\ inOrder' = inOrder
         \/ FinalPass
         \/ UNCHANGED vars
<1>1. popped + 1 \in Nat /\ nic_events \in Seq(NicSet) /\ Len(nic_events) \in Nat
  BY DEF CorrInv, WindowInv
<1>2. CASE PopNic
  <2>1. PICK e \in NicEvents(popped + 1) :
          Added(Append(nic_events, e), kernel_events, user_events)
    BY <1>2 DEF PopNic
  <2>2. Append(nic_events, e) \in Seq(NicSet) /\ Len(Append(nic_events, e)) = Len(nic_events) + 1
    BY <1>1, PoppedInSets
  <2> QED BY <1>2, <2>1, <2>2 DEF PopNic, Pops, Grown
<1>3. CASE PopKernel
  BY <1>1, <1>3, PoppedInSets DEF PopKernel, Pops, Grown
<1>4. CASE PopUser
  BY <1>1, <1>4, PoppedInSets DEF PopUser, Pops, Grown
<1>5. CASE FinalPass \/ Ended \/ UNCHANGED vars
  BY <1>5 DEF Ended
<1> QED BY <1>2, <1>3, <1>4, <1>5 DEF Next

LEMMA CorrInvStep == CorrInv /\ [Next]_vars => CorrInv'
<1> SUFFICES ASSUME CorrInv, [Next]_vars PROVE CorrInv'
  OBVIOUS
<1>1. ASSUME NEW nic, NEW kernel, NEW user, Pops(nic, kernel, user) PROVE CorrInv'
  BY <1>1, AddedStep, CorrelatorSets DEF CorrInv, Pops
<1>2. CASE FinalPass
  BY <1>2, FinalPassStep, CorrelatorSets DEF CorrInv
<1>3. CASE UNCHANGED vars
  BY <1>3 DEF vars, CorrInv, WindowInv, ReportInv, WindowsBounded
<1> QED BY <1>1, <1>2, <1>3, CorrelatorSteps

LEMMA CorrInvariant == Spec => []CorrInv
<1>1. Init => CorrInv
  <2> SUFFICES ASSUME Init PROVE CorrInv
    OBVIOUS
  <2>1. 0 % Batch = 0 /\ Len(<< >>) = 0
    OBVIOUS
  <2>2. WindowsBounded
    BY <2>1 DEF Init, WindowsBounded
  <2>3. NumberedTo(<< >>, 0)
    BY DEF NumberedTo
  <2>4. WindowInv(NicSet, KernelSet, UserSet)
    <3>1. /\ << >> \in Seq(NicSet) /\ << >> \in Seq(KernelSet) /\ << >> \in Seq(UserSet)
          /\ 0 \in 0..CntWord - 1 /\ 0 \in Nat
      BY CntAssumption, WindowAssumption
    <3>2. /\ nic_events = << >> /\ kernel_events = << >> /\ user_events = << >>
          /\ cnt = 0 /\ popped = 0 /\ ended \in BOOLEAN
      BY DEF Init
    <3> QED BY <2>2, <2>3, <3>1, <3>2, Zenon DEF WindowInv
  <2>5. ReportInv(KernelSet, UserSet)
    BY DEF Init, ReportInv
  <2> QED BY <2>4, <2>5 DEF CorrInv
<1> QED BY <1>1, CorrInvStep, PTL DEF Spec

\* The windows of the correlator stay within a batch of their limit, whatever
\* the mix of events and also when the 32-bit counter wraps off the beat.
THEOREM WindowsStayBounded == Spec => []WindowsBounded
<1>1. CorrInv => WindowsBounded
  BY DEF CorrInv, WindowInv
<1> QED BY <1>1, CorrInvariant, PTL

\* Every report of correlate_and_log is made of the nearest kernel event of the
\* window that is not after the user event.
THEOREM MatchesNearest == Spec => []MatchIsNearest
<1>1. CorrInv => MatchIsNearest
  BY DEF CorrInv, ReportInv, MatchIsNearest, Eligible, NearestById
<1> QED BY <1>1, CorrInvariant, PTL

\* The user events no pass has tried yet are the last of their window, and no
\* more of them than events since the last pass.
Tried ==
  /\ considered \subseteq users
  /\ \A i \in DOMAIN user_events : user_events[i].id \in users
  /\ \A u \in users \ considered : \E i \in DOMAIN user_events :
       user_events[i].id = u /\ i > Len(user_events) - (cnt % Batch)
  /\ ended => users = considered

\* A pass tries all events of a set when those not tried yet are among the last
\* Batch of the window: trimming keeps as many.
LEMMA PassTries ==
  ASSUME NEW N, NEW K, NEW U, NEW nic \in Seq(N), NEW kernel \in Seq(K), NEW user \in Seq(U),
         Pass(nic, kernel, user), NEW all, considered \subseteq all,
         \A i \in DOMAIN user : user[i].id \in all,
         \A u \in all \ considered : \E i \in DOMAIN user :
           user[i].id = u /\ i > Len(user) - Batch
  PROVE  /\ considered' = all
         /\ \A i \in DOMAIN user_events' : user_events'[i].id \in all
<1> DEFINE w == user_events'
           d == Len(user) - Len(w)
<1>1. w = LastAtMost(user, Window)
      /\ considered' = considered \cup {w[i].id : i \in DOMAIN w}
  BY PassTrims
<1>2. /\ w \in Seq(U)
      /\ Len(w) = IF Len(user) > Window THEN Window ELSE Len(user)
      /\ \A i \in 1..Len(w) : i + d \in 1..Len(user) /\ w[i] = user[i + d]
  <2> DEFINE v == LastAtMost(user, Window)
  <2>1. /\ v \in Seq(U)
        /\ Len(v) = IF Len(user) > Window THEN Window ELSE Len(user)
        /\ \A i \in 1..Len(v) : /\ i + (Len(user) - Len(v)) \in 1..Len(user)
                               /\ v[i] = user[i + (Len(user) - Len(v))]
    BY Trimmed
  <2> HIDE DEF v
  <2>2. w = v
    BY <1>1 DEF v
  <2> QED BY <2>1, <2>2
<1>3. Len(user) \in Nat /\ Len(w) \in Nat /\ d \in Nat /\ (d <= Len(user) - Batch \/ d = 0)
  BY <1>2
<1> HIDE DEF w, d
<1>4. \A i \in DOMAIN w : w[i].id \in all
  BY <1>2
<1>5. ASSUME NEW u \in all \ considered PROVE u \in {w[i].id : i \in DOMAIN w}
  <2>1. PICK i \in 1..Len(user) : user[i].id = u /\ i > Len(user) - Batch
    OBVIOUS
  <2>2. i - d \in 1..Len(w) /\ (i - d) + d = i
    BY <1>2, <1>3, <2>1 DEF d
  <2>3. w[i - d] = user[i] /\ i - d \in DOMAIN w
    BY <1>2, <2>2
  <2> QED BY <2>1, <2>3
<1> QED BY <1>1, <1>4, <1>5 DEF w

LEMMA TriedStep == CorrInv /\ Tried /\ [Next]_vars => Tried'
<1> SUFFICES ASSUME CorrInv, Tried, [Next]_vars PROVE Tried'
  OBVIOUS
<1>0. /\ nic_events \in Seq(NicSet) /\ kernel_events \in Seq(KernelSet)
      /\ user_events \in Seq(UserSet) /\ cnt \in 0..CntWord - 1 /\ popped \in Nat
      /\ cnt % Batch \in 0..Batch - 1
  BY DEF CorrInv, WindowInv
\* After a pop the events not tried yet are among the last of the window still.
<1>1. ASSUME NEW nic, NEW kernel, NEW user, NEW all, Pops(nic, kernel, user),
             users' = all, user \in Seq(UserSet), considered \subseteq all,
             \A i \in DOMAIN user : user[i].id \in all,
             \A u \in all \ considered : \E i \in DOMAIN user :
               user[i].id = u /\ i > Len(user) - ((cnt % Batch) + 1)
      PROVE  Tried'
  <2>0. cnt' = (cnt + 1) % CntWord /\ ended' = FALSE
    <3>1. Pops(nic, kernel, user)
      BY <1>1
    <3>2. ended \in BOOLEAN /\ ~ended
      BY <3>1 DEF Pops, CorrInv, WindowInv
    <3> QED BY <3>1, <3>2 DEF Pops, Added
  <2>1. ~Due(cnt') => cnt' % Batch = (cnt % Batch) + 1
    BY <1>0, <2>0, CountStep
  <2>2. nic \in Seq(NicSet) /\ kernel \in Seq(KernelSet)
    BY <1>0, <1>1, GrownWindow, CorrelatorSets DEF Pops, CorrInv, WindowInv
  <2>3. CASE Due(cnt')
    <3>1. Pass(nic, kernel, user)
      BY <1>1, <2>3 DEF Pops, Added
    <3>2. \A u \in all \ considered : \E i \in DOMAIN user :
            user[i].id = u /\ i > Len(user) - Batch
      BY <1>0, <1>1
    <3>3. considered' = all /\ \A i \in DOMAIN user_events' : user_events'[i].id \in all
      BY <1>1, <2>2, <3>1, <3>2, PassTries
    <3> QED BY <1>1, <2>0, <3>3 DEF Tried
  <2>4. CASE ~Due(cnt')
    <3>1. user_events' = user /\ considered' = considered
      BY <1>1, <2>4 DEF Pops, Added
    <3> QED BY <1>1, <2>0, <2>1, <2>4, <3>1 DEF Tried
  <2> QED BY <2>3, <2>4
<1>2. \A u \in users \ considered : \E i \in DOMAIN user_events :
        user_events[i].id = u /\ i > Len(user_events) - ((cnt % Batch) + 1)
  BY <1>0 DEF Tried
<1>3. ASSUME NEW nic, NEW kernel, Pops(nic, kernel, user_events), users' = users
      PROVE  Tried'
  BY <1>0, <1>1, <1>2, <1>3 DEF Tried
<1>4. ASSUME NEW e \in UserEvents(popped + 1), users' = users \cup {e.id},
             Pops(nic_events, kernel_events, Append(user_events, e))
      PROVE  Tried'
  <2> DEFINE user == Append(user_events, e)
             all == users \cup {e.id}
  <2>1. e \in UserSet
    BY <1>0, PoppedInSets
  <2>2. /\ user \in Seq(UserSet) /\ Len(user) = Len(user_events) + 1
        /\ \A i \in 1..Len(user_events) : user[i] = user_events[i]
        /\ user[Len(user)] = e
    BY <1>0, <2>1
  <2> HIDE DEF user
  <2> DEFINE n == Len(user_events)
             c == cnt % Batch
  <2>3. n \in Nat /\ Len(user) = n + 1 /\ DOMAIN user = 1..n + 1 /\ DOMAIN user_events = 1..n
        /\ c \in Nat
    BY <1>0, <2>2
  <2>4. /\ \A i \in 1..n : user_events[i].id \in users
        /\ \A u \in users \ considered : \E i \in 1..n : user_events[i].id = u /\ i > n - c
    BY <2>3 DEF Tried
  <2>5. \A i \in 1..n : user[i] = user_events[i]
    BY <2>2
  <2>6. user[n + 1] = e
    BY <2>2, <2>3
  <2> HIDE DEF n, c
  <2>7. \A i \in DOMAIN user : user[i].id \in all
    <3> SUFFICES ASSUME NEW i \in 1..n + 1 PROVE user[i].id \in all
      BY <2>3
    <3>1. i \in 1..n \/ i = n + 1
      BY <2>3
    <3> QED BY <2>4, <2>5, <2>6, <3>1
  <2>8. \A u \in all \ considered : \E i \in DOMAIN user :
          user[i].id = u /\ i > Len(user) - ((cnt % Batch) + 1)
    <3> SUFFICES ASSUME NEW u \in all \ considered
                 PROVE  \E i \in 1..n + 1 : user[i].id = u /\ i > (n + 1) - (c + 1)
      BY <2>3 DEF c
    <3>1. CASE u = e.id
      <4>1. n + 1 \in 1..n + 1 /\ n + 1 > (n + 1) - (c + 1)
        BY <2>3
      <4> QED BY <2>6, <3>1, <4>1
    <3>2. CASE u \in users
      <4>1. PICK i \in 1..n : user_events[i].id = u /\ i > n - c
        BY <2>4, <3>2
      <4>2. i \in 1..n + 1 /\ i > (n + 1) - (c + 1)
        BY <2>3, <4>1
      <4> QED BY <2>5, <4>1, <4>2
    <3> QED BY <3>1, <3>2
  <2>9. considered \subseteq all /\ users' = all
    BY <1>4 DEF Tried
  <2>10. Pops(nic_events, kernel_events, user)
    BY <1>4 DEF user
  <2> HIDE DEF all
  <2> QED BY <1>1, <2>2, <2>7, <2>8, <2>9, <2>10
<1>5. CASE FinalPass
  <2>1. \A u \in users \ considered : \E i \in DOMAIN user_events :
          user_events[i].id = u /\ i > Len(user_events) - Batch
    BY <1>0 DEF Tried
  <2>2. considered' = users /\ \A i \in DOMAIN user_events' : user_events'[i].id \in users
    BY <1>0, <1>5, <2>1, PassTries DEF FinalPass, Tried
  <2> QED BY <1>5, <2>2 DEF FinalPass, Tried
<1>6. CASE UNCHANGED vars
  BY <1>6 DEF vars, Tried
<1> QED BY <1>3, <1>4, <1>5, <1>6, CorrelatorSteps

\* No user event is trimmed before a pass has tried to match it, and none is
\* left untried when the thread returns, for every Batch up to the window.
THEOREM EveryUserEventTried == Spec => []NoUserEventSkipped
<1>1. Init => Tried
  BY DEF Init, Tried
<1>2. Tried => NoUserEventSkipped
  BY DEF Tried, NoUserEventSkipped
<1> QED BY <1>1, <1>2, TriedStep, CorrInvariant, PTL DEF Spec

-----------------------------------------------------------------------------
(* Later passes over the same user event *)

Ordered(w) == \A i, j \in 1..Len(w) : i < j => w[i].ts <= w[j].ts

\* Window w still has an event of time t, or only later ones.
Reaches(w, t) ==
  /\ Len(w) > 0
  /\ \/ \A x \in 1..Len(w) : w[x].ts >= t
     \/ \E x \in 1..Len(w) : w[x].ts = t

\* The reports on one user event agree, a user event still in its window is the
\* one the report is about, and no kernel event of a report has left its window
\* before those with earlier timestamps, if they came in order.
History ==
  /\ \A y, z \in DOMAIN report : report[y].u.id = report[z].u.id => report[y].k = report[z].k
  /\ \A y \in DOMAIN report, i \in DOMAIN user_events :
       report[y].u.id = user_events[i].id => report[y].u = user_events[i]
  /\ inOrder => /\ Ordered(kernel_events)
                /\ \A y \in DOMAIN report : Reaches(kernel_events, report[y].k.ts)

LEMMA OrderedGrows ==
  ASSUME NEW K, Events(K), NEW w \in Seq(K), NEW e \in K, Ordered(w),
         w # << >> => Last(w).ts <= e.ts
  PROVE  /\ Ordered(Append(w, e))
         /\ \A t \in Nat : Reaches(w, t) => Reaches(Append(w, e), t)
<1> DEFINE n == Len(w)
           v == Append(w, e)
<1>1. /\ n \in Nat /\ Len(v) = n + 1 /\ v[n + 1] = e /\ e.ts \in Nat
      /\ \A i \in 1..n : v[i] = w[i] /\ w[i].ts \in Nat
  BY DEF Events
<1>2. n > 0 => w[n].ts <= e.ts
  BY DEF Last
<1>3. \A i, j \in 1..n : i < j => w[i].ts <= w[j].ts
  BY DEF Ordered
<1>4. Len(w) = n
  OBVIOUS
<1> HIDE DEF n, v
<1>5. \A i \in 1..n : w[i].ts <= e.ts
  <2> SUFFICES ASSUME NEW i \in 1..n PROVE w[i].ts <= e.ts
    OBVIOUS
  <2>1. n \in 1..n /\ (i = n \/ i < n) /\ n > 0
    BY <1>1
  <2>2. w[i].ts <= w[n].ts
    BY <1>1, <1>3, <2>1
  <2> QED BY <1>1, <1>2, <2>1, <2>2
<1>6. Ordered(v)
  <2> SUFFICES ASSUME NEW i \in 1..n + 1, NEW j \in 1..n + 1, i < j PROVE v[i].ts <= v[j].ts
    BY <1>1 DEF Ordered
  <2>1. i \in 1..n /\ (j \in 1..n \/ j = n + 1)
    BY <1>1
  <2> QED BY <1>1, <1>3, <1>5, <2>1
<1>7. ASSUME NEW t \in Nat, Reaches(w, t) PROVE Reaches(v, t)
  <2>1. Len(v) > 0 /\ 1 \in 1..n
    BY <1>1, <1>4, <1>7 DEF Reaches
  <2>2. CASE \A x \in 1..n : w[x].ts >= t
    <3>1. e.ts >= t
      BY <1>1, <1>5, <2>1, <2>2
    <3>2. \A x \in 1..n + 1 : x \in 1..n \/ x = n + 1
      BY <1>1
    <3> QED BY <1>1, <2>1, <2>2, <3>1, <3>2 DEF Reaches
  <2>3. CASE \E x \in 1..n : w[x].ts = t
    <3>1. PICK x \in 1..n : w[x].ts = t
      BY <2>3
    <3>2. x \in 1..Len(v) /\ v[x].ts = t
      BY <1>1, <3>1
    <3> QED BY <2>1, <3>2 DEF Reaches
  <2> QED BY <1>4, <1>7, <2>2, <2>3 DEF Reaches
<1> QED BY <1>6, <1>7 DEF v

LEMMA OrderedTrimmed ==
  ASSUME NEW K, Events(K), NEW s \in Seq(K), Ordered(s)
  PROVE  /\ Ordered(LastAtMost(s, Window))
         /\ \A t \in Nat : Reaches(s, t) => Reaches(LastAtMost(s, Window), t)
<1> DEFINE w == LastAtMost(s, Window)
           d == Len(s) - Len(w)
<1>1. /\ w \in Seq(K) /\ Len(s) \in Nat /\ Len(w) \in Nat /\ d \in Int
      /\ Len(w) = IF Len(s) > Window THEN Window ELSE Len(s)
      /\ \A i \in 1..Len(w) : i + d \in 1..Len(s) /\ w[i] = s[i + d]
      /\ \A i \in 1..Len(s) : s[i].ts \in Nat
  BY Trimmed, WindowAssumption DEF Events
<1>2. d = Len(s) - Len(w) /\ Window > 0
  BY WindowAssumption
<1> HIDE DEF w, d
<1>3. Ordered(w)
  <2>1. \A i, j \in 1..Len(w) : i < j => i + d < j + d
    BY <1>1
  <2> QED BY <1>1, <2>1 DEF Ordered
<1>4. ASSUME NEW t \in Nat, Reaches(s, t) PROVE Reaches(w, t)
  <2>1. Len(w) > 0
    BY <1>1, <1>2, <1>4, WindowAssumption DEF Reaches
  <2>2. CASE \A x \in 1..Len(s) : s[x].ts >= t
    BY <1>1, <2>1, <2>2 DEF Reaches
  <2>3. CASE \E x \in 1..Len(s) : s[x].ts = t
    <3>1. PICK x \in 1..Len(s) : s[x].ts = t
      BY <2>3
    <3>2. CASE x > d
      <4>1. x - d \in 1..Len(w) /\ (x - d) + d = x
        BY <1>1, <1>2, <3>2
      <4> QED BY <1>1, <2>1, <3>1, <4>1 DEF Reaches
    <3>3. CASE x <= d
      <4>1. ASSUME NEW i \in 1..Len(w) PROVE w[i].ts >= t
        <5>1. i + d \in 1..Len(s) /\ x < i + d /\ w[i] = s[i + d]
          BY <1>1, <3>3
        <5> QED BY <1>1, <3>1, <5>1 DEF Ordered
      <4> QED BY <2>1, <4>1 DEF Reaches
    <3> QED BY <1>1, <3>2, <3>3
  <2> QED BY <1>4, <2>2, <2>3 DEF Reaches
<1> QED BY <1>3, <1>4 DEF w

\* What a pass makes of kernel events in order
LEMMA PassReaches ==
  ASSUME NEW N, NEW K, NEW U, Events(K), HandlerEvents(U),
         NEW nic \in Seq(N), NEW kernel \in Seq(K), NEW user \in Seq(U), NEW n \in Nat,
         NumberedTo(kernel, n), NumberedTo(user, n),
         Pass(nic, kernel, user)
  PROVE  /\ \A y, z \in DOMAIN report' :
              report'[y].u.id = report'[z].u.id => report'[y].k = report'[z].k
         /\ \A y \in DOMAIN report', i \in DOMAIN user_events' :
              report'[y].u.id = user_events'[i].id => report'[y].u = user_events'[i]
         /\ \A y \in DOMAIN report' : \E i \in DOMAIN user : report'[y].u = user[i]
         /\ Ordered(kernel) =>
              /\ Ordered(kernel_events')
              /\ \A y \in DOMAIN report' : Reaches(kernel_events', report'[y].k.ts)
              /\ \A y \in DOMAIN report', t \in Nat :
                   Reaches(kernel, t) /\ t <= report'[y].u.ts => report'[y].k.ts >= t
<1> DEFINE kw == kernel_events'
           uw == user_events'
           rep == report'
<1>1. /\ kw \in Seq(K) /\ uw \in Seq(U) /\ NumberedTo(uw, n)
      /\ \A y \in DOMAIN rep :
           /\ \E i \in DOMAIN uw : Reported(rep[y], kw, uw[i])
           /\ \E x \in DOMAIN kw : rep[y].k = kw[x]
           /\ rep[y].k \in K /\ rep[y].u \in U
           /\ NearestById(rep[y].k, rep[y].u.ts, kw)
  BY PassLeaves
<1>2. kw = LastAtMost(kernel, Window) /\ uw = LastAtMost(user, Window)
  BY PassTrims
<1>3. \A i \in DOMAIN uw : \E x \in DOMAIN user : uw[i] = user[x]
  <2>1. Window \in Nat /\ Len(uw) \in Nat /\ DOMAIN uw = 1..Len(uw) /\ DOMAIN user = 1..Len(user)
    BY <1>1, WindowAssumption
  <2>2. \A i \in 1..Len(uw) : i + (Len(user) - Len(uw)) \in 1..Len(user)
                              /\ uw[i] = user[i + (Len(user) - Len(uw))]
    BY <1>2, <2>1, Trimmed, Zenon
  <2> QED BY <2>1, <2>2
<1> HIDE DEF kw, uw, rep
<1>4. \A i, j \in DOMAIN uw : uw[i].id = uw[j].id => i = j
  <2> SUFFICES ASSUME NEW i \in 1..Len(uw), NEW j \in 1..Len(uw), uw[i].id = uw[j].id
               PROVE  i = j
    BY <1>1
  <2>1. uw[i].id \in Nat /\ uw[j].id \in Nat
    BY <1>1 DEF HandlerEvents, Events
  <2>2. (i < j => uw[i].id < uw[j].id) /\ (j < i => uw[j].id < uw[i].id)
    BY <1>1 DEF NumberedTo
  <2> QED BY <2>1, <2>2
<1>5. \A y, z \in DOMAIN rep : rep[y].u.id = rep[z].u.id => rep[y].k = rep[z].k
  <2> SUFFICES ASSUME NEW y \in DOMAIN rep, NEW z \in DOMAIN rep, rep[y].u.id = rep[z].u.id
               PROVE  rep[y].k = rep[z].k
    OBVIOUS
  <2>1. PICK i \in DOMAIN uw : Reported(rep[y], kw, uw[i])
    BY <1>1
  <2>2. PICK j \in DOMAIN uw : Reported(rep[z], kw, uw[j])
    BY <1>1
  <2>3. i = j
    BY <1>4, <2>1, <2>2 DEF Reported
  <2> QED BY <2>1, <2>2, <2>3 DEF Reported
<1>6. \A y \in DOMAIN rep, i \in DOMAIN uw : rep[y].u.id = uw[i].id => rep[y].u = uw[i]
  <2> SUFFICES ASSUME NEW y \in DOMAIN rep, NEW i \in DOMAIN uw, rep[y].u.id = uw[i].id
               PROVE  rep[y].u = uw[i]
    OBVIOUS
  <2>1. PICK j \in DOMAIN uw : Reported(rep[y], kw, uw[j])
    BY <1>1
  <2> QED BY <1>4, <2>1 DEF Reported
<1>7. \A y \in DOMAIN rep : \E i \in DOMAIN user : rep[y].u = user[i]
  BY <1>1, <1>3 DEF Reported
<1>8. ASSUME Ordered(kernel)
      PROVE  /\ Ordered(kw)
             /\ \A y \in DOMAIN rep : Reaches(kw, rep[y].k.ts)
             /\ \A y \in DOMAIN rep, t \in Nat :
                  Reaches(kernel, t) /\ t <= rep[y].u.ts => rep[y].k.ts >= t
  <2>1. Ordered(kw) /\ \A t \in Nat : Reaches(kernel, t) => Reaches(kw, t)
    BY <1>2, <1>8, OrderedTrimmed
  <2>2. \A y \in DOMAIN rep : \E x \in 1..Len(kw) : rep[y].k = kw[x] /\ kw[x].ts \in Nat
    BY <1>1 DEF Events
  <2>3. Len(kw) \in Nat
    BY <1>1
  <2>4. \A y \in DOMAIN rep : Reaches(kw, rep[y].k.ts)
    BY <2>2, <2>3 DEF Reaches
  <2>5. ASSUME NEW y \in DOMAIN rep, NEW t \in Nat, Reaches(kernel, t), t <= rep[y].u.ts
        PROVE  rep[y].k.ts >= t
    <3>1. PICK x \in 1..Len(kw) : rep[y].k = kw[x] /\ kw[x].ts \in Nat
      BY <2>2
    <3>2. Reaches(kw, t)
      BY <2>1, <2>5
    <3>3. CASE \A z \in 1..Len(kw) : kw[z].ts >= t
      BY <3>1, <3>3
    <3>4. CASE \E z \in 1..Len(kw) : kw[z].ts = t
      <4>1. PICK z \in 1..Len(kw) : kw[z].ts = t
        BY <3>4
      <4>2. z \in DOMAIN kw
        BY <1>1
      <4>3. t < rep[y].k.ts \/ t = rep[y].k.ts
        BY <1>1, <2>5, <4>1, <4>2 DEF NearestById
      <4> QED BY <3>1, <4>3
    <3> QED BY <3>2, <3>3, <3>4 DEF Reaches
  <2> QED BY <2>1, <2>4, <2>5
<1> QED BY <1>5, <1>6, <1>7, <1>8 DEF kw, uw, rep

\* A kernel event never gives way to an earlier one.
Improves ==
  inOrder' => \A i \in DOMAIN report, j \in DOMAIN report' :
                report'[j].u.id = report[i].u.id => report'[j].k.ts >= report[i].k.ts

\* Windows to which an event may have been added keep what the history says.
Continues(kernel, user) ==
  /\ \A y \in DOMAIN report, i \in DOMAIN user :
       report[y].u.id = user[i].id => report[y].u = user[i]
  /\ inOrder' => /\ Ordered(kernel)
                 /\ \A y \in DOMAIN report : Reaches(kernel, report[y].k.ts)

LEMMA ReportTimes ==
  ASSUME CorrInv
  PROVE  \A y \in DOMAIN report :
           /\ report[y].k.ts \in Nat /\ report[y].u.ts \in Nat /\ report[y].u.id \in Nat
           /\ report[y].k.ts <= report[y].u.ts /\ report[y].u.id <= popped
<1>1. \A y \in DOMAIN report : /\ report[y].u \in UserSet /\ report[y].k \in KernelSet
                               /\ Eligible(report[y].k, report[y].u.ts)
                               /\ report[y].u.id <= popped
  BY DEF CorrInv, ReportInv
<1> QED BY <1>1, CorrelatorSets DEF Eligible, Events, HandlerEvents

LEMMA PassContinues ==
  ASSUME CorrInv, NEW nic \in Seq(NicSet), NEW kernel \in Seq(KernelSet),
         NEW user \in Seq(UserSet), NEW n \in Nat,
         NumberedTo(kernel, n), NumberedTo(user, n), Pass(nic, kernel, user),
         Continues(kernel, user)
  PROVE  History' /\ Improves
<1>1. /\ \A y, z \in DOMAIN report' :
           report'[y].u.id = report'[z].u.id => report'[y].k = report'[z].k
      /\ \A y \in DOMAIN report', i \in DOMAIN user_events' :
           report'[y].u.id = user_events'[i].id => report'[y].u = user_events'[i]
      /\ \A y \in DOMAIN report' : \E i \in DOMAIN user : report'[y].u = user[i]
      /\ Ordered(kernel) =>
           /\ Ordered(kernel_events')
           /\ \A y \in DOMAIN report' : Reaches(kernel_events', report'[y].k.ts)
           /\ \A y \in DOMAIN report', t \in Nat :
                Reaches(kernel, t) /\ t <= report'[y].u.ts => report'[y].k.ts >= t
  BY CorrelatorSets, PassReaches
<1>2. History'
  BY <1>1 DEF History, Continues
<1>3. ASSUME inOrder', NEW i \in DOMAIN report, NEW j \in DOMAIN report',
             report'[j].u.id = report[i].u.id
      PROVE  report'[j].k.ts >= report[i].k.ts
  <2>1. PICK x \in DOMAIN user : report'[j].u = user[x]
    BY <1>1
  <2>2. report[i].u = report'[j].u
    BY <1>3, <2>1 DEF Continues
  <2>3. report[i].k.ts \in Nat /\ report[i].k.ts <= report'[j].u.ts
    BY <2>2, ReportTimes
  <2>4. Ordered(kernel) /\ Reaches(kernel, report[i].k.ts)
    BY <1>3 DEF Continues
  <2> QED BY <1>1, <2>3, <2>4
<1> QED BY <1>2, <1>3 DEF Improves

LEMMA HistoryStep == CorrInv /\ History /\ [Next]_vars => History' /\ Improves
<1> SUFFICES ASSUME CorrInv, History, [Next]_vars PROVE History' /\ Improves
  OBVIOUS
<1>0. /\ nic_events \in Seq(NicSet) /\ kernel_events \in Seq(KernelSet)
      /\ user_events \in Seq(UserSet) /\ popped \in Nat
      /\ NumberedTo(kernel_events, popped) /\ NumberedTo(user_events, popped)
  BY DEF CorrInv, WindowInv
\* Reports and windows that stay
<1>1. ASSUME report' = report, Continues(kernel_events', user_events')
      PROVE  History' /\ Improves
  <2>1. \A y, z \in DOMAIN report :
          report[y].u.id = report[z].u.id => report[y].k = report[z].k
    BY DEF History
  <2>2. History'
    BY <1>1, <2>1 DEF History, Continues
  <2>3. \A y \in DOMAIN report : report[y].k.ts >= report[y].k.ts
    BY ReportTimes
  <2>4. Improves
    <3> SUFFICES ASSUME NEW i \in DOMAIN report, NEW j \in DOMAIN report,
                        report[j].u.id = report[i].u.id
                 PROVE  report[j].k.ts >= report[i].k.ts
      BY <1>1 DEF Improves
    <3>1. report[j].k = report[i].k
      BY <2>1
    <3> QED BY <2>3, <3>1
  <2> QED BY <2>2, <2>4
<1>2. ASSUME NEW nic, NEW kernel, NEW user, Pops(nic, kernel, user), Continues(kernel, user)
      PROVE  History' /\ Improves
  <2>1. /\ nic \in Seq(NicSet) /\ Added(nic, kernel, user)
        /\ Grown(kernel, kernel_events, KernelSet) /\ Grown(user, user_events, UserSet)
    BY <1>2 DEF Pops
  <2>2. /\ kernel \in Seq(KernelSet) /\ NumberedTo(kernel, popped + 1)
        /\ user \in Seq(UserSet) /\ NumberedTo(user, popped + 1)
    BY <1>0, <2>1, GrownWindow, CorrelatorSets DEF HandlerEvents
  <2>3. CASE Due(cnt')
    <3>1. Pass(nic, kernel, user)
      BY <2>1, <2>3 DEF Added
    <3>2. popped + 1 \in Nat
      BY <1>0
    <3> QED BY <1>2, <2>1, <2>2, <3>1, <3>2, PassContinues
  <2>4. CASE ~Due(cnt')
    <3>1. kernel_events' = kernel /\ user_events' = user /\ report' = report
      BY <2>1, <2>4 DEF Added
    <3> QED BY <1>1, <1>2, <3>1
  <2> QED BY <2>3, <2>4
<1>3. ASSUME inOrder' = inOrder PROVE Continues(kernel_events, user_events)
  BY <1>3 DEF History, Continues
<1>4. ASSUME NEW e \in NicEvents(popped + 1), inOrder' = inOrder,
             Pops(Append(nic_events, e), kernel_events, user_events)
      PROVE  History' /\ Improves
  BY <1>2, <1>3, <1>4
<1>5. ASSUME NEW e \in KernelEvents(popped + 1),
             Pops(nic_events, Append(kernel_events, e), user_events),
             inOrder' = (inOrder /\ (kernel_events # << >> => Last(kernel_events).ts <= e.ts))
      PROVE  History' /\ Improves
  <2>1. e \in KernelSet
    BY <1>0, PoppedInSets
  <2>2. ASSUME inOrder'
        PROVE  /\ Ordered(Append(kernel_events, e))
               /\ \A y \in DOMAIN report : Reaches(Append(kernel_events, e), report[y].k.ts)
    <3>1. /\ Ordered(kernel_events)
          /\ \A y \in DOMAIN report : Reaches(kernel_events, report[y].k.ts)
          /\ kernel_events # << >> => Last(kernel_events).ts <= e.ts
      BY <1>5, <2>2 DEF History
    <3>2. /\ Ordered(Append(kernel_events, e))
          /\ \A t \in Nat : Reaches(kernel_events, t) => Reaches(Append(kernel_events, e), t)
      BY <1>0, <2>1, <3>1, OrderedGrows, CorrelatorSets
    <3> QED BY <3>1, <3>2, ReportTimes
  <2>3. Continues(Append(kernel_events, e), user_events)
    BY <2>2 DEF Continues, History
  <2> QED BY <1>2, <1>5, <2>3
<1>6. ASSUME NEW e \in UserEvents(popped + 1), inOrder' = inOrder,
             Pops(nic_events, kernel_events, Append(user_events, e))
      PROVE  History' /\ Improves
  <2>1. e \in UserSet /\ e.id = popped + 1
    BY <1>0, PoppedInSets
  <2>2. \A i \in DOMAIN Append(user_events, e) :
          \/ i \in DOMAIN user_events /\ Append(user_events, e)[i] = user_events[i]
          \/ Append(user_events, e)[i] = e
    BY <1>0, <2>1
  <2>3. \A y \in DOMAIN report : report[y].u.id # e.id
    BY <1>0, <2>1, ReportTimes
  <2>4. Continues(kernel_events, Append(user_events, e))
    BY <1>6, <2>2, <2>3 DEF Continues, History
  <2> QED BY <1>2, <1>6, <2>4
<1>7. CASE FinalPass
  <2>1. Pass(nic_events, kernel_events, user_events) /\ inOrder' = inOrder
    BY <1>7 DEF FinalPass
  <2> QED BY <1>0, <1>3, <2>1, PassContinues
<1>8. CASE UNCHANGED vars
  BY <1>1, <1>3, <1>8 DEF vars
<1> QED BY <1>4, <1>5, <1>6, <1>7, <1>8, CorrelatorSteps

\* As long as kernel events come in order, a later pass over a user event never
\* gives it an earlier kernel event, for every window and batch and although
\* both windows are trimmed in between.
THEOREM MatchesNeverWorsen == Spec => MatchNeverWorsens
<1>1. Init => History
  BY DEF Init, History, Ordered
<1>2. Spec => []History
  BY <1>1, HistoryStep, CorrInvariant, PTL DEF Spec
<1>3. CorrInv /\ History /\ [Next]_vars =>
        [inOrder' =>
           \A i \in DOMAIN report, j \in DOMAIN report' :
             report'[j].u.id = report[i].u.id => report'[j].k.ts >= report[i].k.ts]_vars
  BY HistoryStep DEF Improves
<1> QED BY <1>2, <1>3, CorrInvariant, PTL DEF Spec, MatchNeverWorsens

-----------------------------------------------------------------------------
(* The whole path of a message *)

PNic == [id : Nat, type : {"NIC"}, ts : Times, tcp_seq : Nat, sock_ptr : {0}]
PKernel == [id : Nat, type : {"KERNEL"}, ts : Times, tcp_seq : TcpSeqs, sock_ptr : {1}]
PUser == [id : Nat, type : {"USERSPACE"}, ts : Times, tcp_seq : {0}, sock_ptr : {0},
          timed : {TRUE}, msg : Nat]

PTypes ==
  /\ now \in Nat /\ arrived \in Nat
  /\ card \in Seq(Nat) /\ socket \in Seq(Nat) /\ hand \in Seq(Nat)
  /\ entry \in Times \cup {0} /\ stamp \in Times \cup {0} /\ foreign \in Times \cup {0}
  /\ rb \in Seq(Times) /\ own \in Seq(Times) /\ foreigns \in SUBSET Times
  /\ queue \in Seq(PNic \cup PKernel \cup PUser)

\* Stamps in the shared queue
KernelIn(q) == {q[i].ts : i \in {j \in DOMAIN q : q[j].type = "KERNEL"}}
UserIn(q) == {<<q[i].ts, q[i].msg>> : i \in {j \in DOMAIN q : q[j].type = "USERSPACE"}}

\* The entry stamps that a kernel event carries or will carry
Received ==
  {rb[i] : i \in DOMAIN rb} \cup KernelIn(queue)
  \cup {kernel_events[i].ts : i \in DOMAIN kernel_events}
  \cup {report[i].k.ts : i \in DOMAIN report}

\* The stamps of the user events, each with its message
Handled ==
  UserIn(queue)
  \cup {<<user_events[i].ts, user_events[i].msg>> : i \in DOMAIN user_events}
  \cup {<<report[i].u.ts, report[i].u.msg>> : i \in DOMAIN report}

\* Which messages are where: received ones have a receive of their own, those in
\* the socket are the next.
Messages ==
  /\ \A i \in 1..Len(socket) : socket[i] = Len(own) + i
  /\ \A i \in 1..Len(hand) : hand[i] \in 1..Len(own)
  /\ Len(own) + Len(socket) = arrived
  /\ entry # 0 => hand = << >>
  /\ stamp # 0 => hand # << >>

\* No stamp is ahead of the clock, and no two receives or messages share one.
Clock ==
  /\ \A f \in foreigns : f <= now
  /\ foreign # 0 => foreign \in foreigns
  /\ \A m \in 1..Len(own) : own[m] <= now
  /\ entry <= now /\ stamp <= now
  /\ stamp # 0 => stamp \notin foreigns /\ own[Head(hand)] <= stamp
  /\ \A p \in Handled :
       /\ p[2] \in 1..Len(own) /\ own[p[2]] <= p[1]
       /\ p[1] <= now /\ p[1] \notin foreigns

\* A receive of the client is over before its messages are handled, and the next
\* begins when they all are.
Turns ==
  /\ \A t \in Received : \/ t \in foreigns
                         \/ /\ t <= now
                            /\ entry # 0 => t <= entry
                            /\ \A i \in 1..Len(hand) : t <= own[hand[i]]
                            /\ \A p \in Handled : t <= own[p[2]] \/ t > p[1]
  /\ entry # 0 => \A p \in Handled : entry > p[1]

PInv ==
  /\ WindowInv(PNic, PKernel, PUser) /\ ReportInv(PKernel, PUser)
  /\ PTypes /\ Messages /\ Clock /\ Turns

LEMMA PipelineSets == Events(PNic) /\ Events(PKernel) /\ HandlerEvents(PUser)
BY ValueAssumption DEF Events, HandlerEvents, PNic, PKernel, PUser

LEMMA QueueGrows ==
  ASSUME NEW S, NEW q \in Seq(S), NEW e \in S
  PROVE  /\ KernelIn(Append(q, e)) \subseteq
              KernelIn(q) \cup (IF e.type = "KERNEL" THEN {e.ts} ELSE {})
         /\ UserIn(Append(q, e)) \subseteq
              UserIn(q) \cup (IF e.type = "USERSPACE" THEN {<<e.ts, e.msg>>} ELSE {})
<1>1. \A i \in DOMAIN Append(q, e) :
        (i \in DOMAIN q /\ Append(q, e)[i] = q[i]) \/ Append(q, e)[i] = e
  OBVIOUS
<1> QED BY <1>1 DEF KernelIn, UserIn

LEMMA QueueShrinks ==
  ASSUME NEW S, NEW q \in Seq(S), q # << >>
  PROVE  /\ Head(q) \in S /\ Tail(q) \in Seq(S)
         /\ KernelIn(Tail(q)) \subseteq KernelIn(q)
         /\ UserIn(Tail(q)) \subseteq UserIn(q)
         /\ Head(q).type = "KERNEL" => Head(q).ts \in KernelIn(q)
         /\ Head(q).type = "USERSPACE" => <<Head(q).ts, Head(q).msg>> \in UserIn(q)
<1>1. Head(q) \in S /\ Tail(q) \in Seq(S)
  OBVIOUS
<1>2. \A i \in DOMAIN Tail(q) : i + 1 \in DOMAIN q /\ Tail(q)[i] = q[i + 1]
  OBVIOUS
<1>3. 1 \in DOMAIN q /\ Head(q) = q[1]
  OBVIOUS
<1>4. KernelIn(Tail(q)) \subseteq KernelIn(q) /\ UserIn(Tail(q)) \subseteq UserIn(q)
  BY <1>2 DEF KernelIn, UserIn
<1>5. /\ Head(q).type = "KERNEL" => Head(q).ts \in KernelIn(q)
      /\ Head(q).type = "USERSPACE" => <<Head(q).ts, Head(q).msg>> \in UserIn(q)
  BY <1>3 DEF KernelIn, UserIn
<1> QED BY <1>1, <1>4, <1>5

\* A pass makes windows and reports of the events it is given.
LEMMA PassContents ==
  ASSUME NEW nic \in Seq(PNic), NEW kernel \in Seq(PKernel), NEW user \in Seq(PUser),
         NEW n \in Nat, NumberedTo(kernel, n), NumberedTo(user, n), Pass(nic, kernel, user)
  PROVE  /\ \A i \in DOMAIN kernel_events' : \E x \in DOMAIN kernel : kernel_events'[i] = kernel[x]
         /\ \A i \in DOMAIN user_events' : \E x \in DOMAIN user : user_events'[i] = user[x]
         /\ \A y \in DOMAIN report' : /\ \E x \in DOMAIN kernel : report'[y].k = kernel[x]
                                      /\ \E x \in DOMAIN user : report'[y].u = user[x]
<1>1. ASSUME NEW E, NEW s \in Seq(E), NEW w, w = LastAtMost(s, Window)
      PROVE  \A i \in DOMAIN w : \E x \in DOMAIN s : w[i] = s[x]
  <2>1. Window \in Nat
    BY WindowAssumption
  <2>2. w \in Seq(E) /\ \A i \in 1..Len(w) : i + (Len(s) - Len(w)) \in 1..Len(s)
                                             /\ w[i] = s[i + (Len(s) - Len(w))]
    BY <1>1, <2>1, Trimmed
  <2>3. DOMAIN w = 1..Len(w) /\ DOMAIN s = 1..Len(s)
    BY <2>2
  <2> QED BY <2>2, <2>3
<1>2. kernel_events' = LastAtMost(kernel, Window) /\ user_events' = LastAtMost(user, Window)
  BY PassTrims
<1>3. /\ \A i \in DOMAIN kernel_events' : \E x \in DOMAIN kernel : kernel_events'[i] = kernel[x]
      /\ \A i \in DOMAIN user_events' : \E x \in DOMAIN user : user_events'[i] = user[x]
  BY <1>1, <1>2
<1>4. \A y \in DOMAIN report' :
        /\ \E i \in DOMAIN user_events' : Reported(report'[y], kernel_events', user_events'[i])
        /\ \E x \in DOMAIN kernel_events' : report'[y].k = kernel_events'[x]
  BY PassLeaves, PipelineSets
<1>5. \A y \in DOMAIN report' : /\ \E x \in DOMAIN kernel : report'[y].k = kernel[x]
                                /\ \E x \in DOMAIN user : report'[y].u = user[x]
  BY <1>3, <1>4 DEF Reported
<1> QED BY <1>3, <1>5

\* A popped event gets its number and keeps the rest.
LEMMA NumberedEvent ==
  ASSUME NEW n \in Nat
  PROVE  /\ \A h \in PNic : [h EXCEPT !.id = n] \in PNic /\ h.type = "NIC"
         /\ \A h \in PKernel : LET e == [h EXCEPT !.id = n]
                               IN  e \in PKernel /\ e.id = n /\ e.ts = h.ts /\ h.type = "KERNEL"
         /\ \A h \in PUser : LET e == [h EXCEPT !.id = n]
                             IN  /\ e \in PUser /\ e.id = n /\ e.ts = h.ts /\ e.msg = h.msg
                                 /\ h.type = "USERSPACE"
<1>1. ASSUME NEW h \in PNic PROVE [h EXCEPT !.id = n] \in PNic /\ h.type = "NIC"
  BY DEF PNic
<1>2. ASSUME NEW h \in PKernel
      PROVE  LET e == [h EXCEPT !.id = n]
             IN  e \in PKernel /\ e.id = n /\ e.ts = h.ts /\ h.type = "KERNEL"
  BY DEF PKernel
<1>3. ASSUME NEW h \in PUser
      PROVE  LET e == [h EXCEPT !.id = n]
             IN  /\ e \in PUser /\ e.id = n /\ e.ts = h.ts /\ e.msg = h.msg
                 /\ h.type = "USERSPACE"
  BY DEF PUser
<1> QED BY <1>1, <1>2, <1>3

\* The correlator adds no stamp.
LEMMA PopStep ==
  ASSUME PInv, Pop
  PROVE  /\ WindowInv(PNic, PKernel, PUser)' /\ ReportInv(PKernel, PUser)'
         /\ queue' \in Seq(PNic \cup PKernel \cup PUser)
         /\ Received' \subseteq Received /\ Handled' \subseteq Handled
<1> DEFINE h == Head(queue)
           e == [h EXCEPT !.id = popped + 1]
           nic == With(nic_events, "NIC")
           kernel == With(kernel_events, "KERNEL")
           user == With(user_events, "USERSPACE")
<1>0. /\ WindowInv(PNic, PKernel, PUser) /\ ReportInv(PKernel, PUser)
      /\ nic_events \in Seq(PNic) /\ kernel_events \in Seq(PKernel)
      /\ user_events \in Seq(PUser) /\ popped \in Nat
      /\ NumberedTo(kernel_events, popped) /\ NumberedTo(user_events, popped)
  BY DEF PInv, WindowInv
<1>1. ~ended /\ queue # << >> /\ queue \in Seq(PNic \cup PKernel \cup PUser)
      /\ queue' = Tail(queue) /\ rb' = rb /\ Added(nic, kernel, user)
  BY DEF PInv, PTypes, Pop
<1>2. /\ h \in PNic \cup PKernel \cup PUser
      /\ queue' \in Seq(PNic \cup PKernel \cup PUser)
      /\ KernelIn(queue') \subseteq KernelIn(queue)
      /\ UserIn(queue') \subseteq UserIn(queue)
      /\ h.type = "KERNEL" => h.ts \in KernelIn(queue)
      /\ h.type = "USERSPACE" => <<h.ts, h.msg>> \in UserIn(queue)
  BY <1>1, QueueShrinks
<1>3. /\ h.type = "NIC" => e \in PNic
      /\ h.type = "KERNEL" => e \in PKernel /\ e.id = popped + 1 /\ e.ts = h.ts
      /\ h.type = "USERSPACE" => /\ e \in PUser /\ e.id = popped + 1
                                 /\ e.ts = h.ts /\ e.msg = h.msg
  <2> HIDE DEF h
  <2>1. popped + 1 \in Nat
    BY <1>0
  <2>2. CASE h \in PNic
    BY <2>1, <2>2, NumberedEvent
  <2>3. CASE h \in PKernel
    BY <2>1, <2>3, NumberedEvent
  <2>4. CASE h \in PUser
    BY <2>1, <2>4, NumberedEvent
  <2> QED BY <1>2, <2>2, <2>3, <2>4
<1>4. /\ nic = nic_events \/ (h.type = "NIC" /\ nic = Append(nic_events, e))
      /\ kernel = kernel_events \/ (h.type = "KERNEL" /\ kernel = Append(kernel_events, e))
      /\ user = user_events \/ (h.type = "USERSPACE" /\ user = Append(user_events, e))
  BY DEF With
<1> HIDE DEF h, e, nic, kernel, user
<1>5. nic \in Seq(PNic) /\ Len(nic) <= Len(nic_events) + 1
  <2>1. Len(nic_events) \in Nat
    BY <1>0
  <2>2. CASE nic = nic_events
    BY <1>0, <2>1, <2>2
  <2>3. CASE e \in PNic /\ nic = Append(nic_events, e)
    BY <1>0, <2>1, <2>3
  <2> QED BY <1>3, <1>4, <2>2, <2>3
<1>6. Grown(kernel, kernel_events, PKernel) /\ Grown(user, user_events, PUser)
  BY <1>3, <1>4 DEF Grown
<1>7. WindowInv(PNic, PKernel, PUser)' /\ ReportInv(PKernel, PUser)'
  BY <1>0, <1>1, <1>5, <1>6, AddedStep, PipelineSets
<1>8. /\ kernel \in Seq(PKernel) /\ NumberedTo(kernel, popped + 1)
      /\ user \in Seq(PUser) /\ NumberedTo(user, popped + 1)
  BY <1>0, <1>6, GrownWindow, PipelineSets DEF HandlerEvents
<1>9. /\ \A x \in DOMAIN kernel : kernel[x].ts \in Received
      /\ \A x \in DOMAIN user : <<user[x].ts, user[x].msg>> \in Handled
  <2>1. ASSUME NEW x \in DOMAIN kernel PROVE kernel[x].ts \in Received
    <3>1. \/ x \in DOMAIN kernel_events /\ kernel[x] = kernel_events[x]
          \/ h.type = "KERNEL" /\ kernel[x] = e /\ e.ts = h.ts
      <4>1. CASE kernel = kernel_events
        BY <4>1
      <4>2. CASE h.type = "KERNEL" /\ kernel = Append(kernel_events, e)
        BY <1>0, <1>3, <4>2
      <4> QED BY <1>4, <4>1, <4>2
    <3> QED BY <1>2, <3>1 DEF Received
  <2>2. ASSUME NEW x \in DOMAIN user PROVE <<user[x].ts, user[x].msg>> \in Handled
    <3>1. \/ x \in DOMAIN user_events /\ user[x] = user_events[x]
          \/ h.type = "USERSPACE" /\ user[x] = e /\ e.ts = h.ts /\ e.msg = h.msg
      <4>1. CASE user = user_events
        BY <4>1
      <4>2. CASE h.type = "USERSPACE" /\ user = Append(user_events, e)
        BY <1>0, <1>3, <4>2
      <4> QED BY <1>4, <4>1, <4>2
    <3> QED BY <1>2, <3>1 DEF Handled
  <2> QED BY <2>1, <2>2
<1>10. /\ \A i \in DOMAIN kernel_events' : \E x \in DOMAIN kernel : kernel_events'[i] = kernel[x]
       /\ \A i \in DOMAIN user_events' : \E x \in DOMAIN user : user_events'[i] = user[x]
       /\ \/ report' = report
          \/ \A y \in DOMAIN report' : /\ \E x \in DOMAIN kernel : report'[y].k = kernel[x]
                                       /\ \E x \in DOMAIN user : report'[y].u = user[x]
  <2>1. CASE Due(cnt')
    <3>1. Pass(nic, kernel, user) /\ popped + 1 \in Nat
      BY <1>0, <1>1, <2>1 DEF Added
    <3> QED BY <1>5, <1>8, <3>1, PassContents
  <2>2. CASE ~Due(cnt')
    BY <1>1, <2>2 DEF Added
  <2> QED BY <2>1, <2>2
<1>11. /\ \A i \in DOMAIN kernel_events' : kernel_events'[i].ts \in Received
       /\ \A i \in DOMAIN user_events' : <<user_events'[i].ts, user_events'[i].msg>> \in Handled
       /\ \A y \in DOMAIN report' : /\ report'[y].k.ts \in Received
                                    /\ <<report'[y].u.ts, report'[y].u.msg>> \in Handled
  <2>1. \A y \in DOMAIN report : /\ report[y].k.ts \in Received
                                 /\ <<report[y].u.ts, report[y].u.msg>> \in Handled
    BY DEF Received, Handled
  <2> QED BY <1>9, <1>10, <2>1
<1>12. KernelIn(queue) \subseteq Received /\ {rb[i] : i \in DOMAIN rb} \subseteq Received
       /\ UserIn(queue) \subseteq Handled
  BY DEF Received, Handled
<1>13. Received' \subseteq Received
  BY <1>1, <1>2, <1>11, <1>12 DEF Received
<1>14. Handled' \subseteq Handled
  BY <1>2, <1>11, <1>12 DEF Handled
<1> QED BY <1>2, <1>7, <1>13, <1>14

LEMMA LastPassStep ==
  ASSUME PInv, LastPass
  PROVE  /\ WindowInv(PNic, PKernel, PUser)' /\ ReportInv(PKernel, PUser)'
         /\ Received' \subseteq Received /\ Handled' \subseteq Handled
<1>1. FinalPass /\ rb' = rb /\ queue' = queue
  BY DEF LastPass
<1>2. WindowInv(PNic, PKernel, PUser)' /\ ReportInv(PKernel, PUser)'
  BY <1>1, FinalPassStep, PipelineSets DEF PInv
<1>3. /\ \A i \in DOMAIN kernel_events' :
           \E x \in DOMAIN kernel_events : kernel_events'[i] = kernel_events[x]
      /\ \A i \in DOMAIN user_events' :
           \E x \in DOMAIN user_events : user_events'[i] = user_events[x]
      /\ \A y \in DOMAIN report' :
           /\ \E x \in DOMAIN kernel_events : report'[y].k = kernel_events[x]
           /\ \E x \in DOMAIN user_events : report'[y].u = user_events[x]
  BY <1>1, PassContents DEF FinalPass, PInv, WindowInv
<1>4. Received' \subseteq Received
  BY <1>1, <1>3 DEF Received
<1>5. Handled' \subseteq Handled
  BY <1>1, <1>3 DEF Handled
<1> QED BY <1>2, <1>4, <1>5

\* Steps of the machine leave the correlator alone.
LEMMA WindowsStay ==
  ASSUME PInv, UNCHANGED vars
  PROVE  /\ WindowInv(PNic, PKernel, PUser)' /\ ReportInv(PKernel, PUser)'
         /\ Received' = {rb'[i] : i \in DOMAIN rb'} \cup KernelIn(queue')
                        \cup {kernel_events[i].ts : i \in DOMAIN kernel_events}
                        \cup {report[i].k.ts : i \in DOMAIN report}
         /\ Handled' = UserIn(queue')
                       \cup {<<user_events[i].ts, user_events[i].msg>> : i \in DOMAIN user_events}
                       \cup {<<report[i].u.ts, report[i].u.msg>> : i \in DOMAIN report}
<1>1. WindowInv(PNic, PKernel, PUser)'
  BY DEF PInv, vars, WindowInv, WindowsBounded
<1>2. ReportInv(PKernel, PUser)'
  BY DEF PInv, vars, ReportInv
<1>3. kernel_events' = kernel_events /\ user_events' = user_events /\ report' = report
  BY DEF vars
<1> QED BY <1>1, <1>2, <1>3 DEF Received, Handled

LEMMA StampsAreTimes ==
  ASSUME PInv
  PROVE  /\ Received \subseteq Nat /\ \A p \in Handled : p[1] \in Nat
         /\ now \in Nat /\ entry \in Nat /\ stamp \in Nat /\ foreign \in Nat
         /\ foreigns \subseteq Nat
         /\ Len(own) \in Nat /\ \A m \in 1..Len(own) : own[m] \in Nat
<1>1. PTypes /\ Times \subseteq Nat
  BY ValueAssumption DEF PInv
<1>2. \A i \in DOMAIN queue : queue[i].ts \in Nat
  <2>1. \A e \in PNic \cup PKernel \cup PUser : e.ts \in Nat
    BY <1>1 DEF PNic, PKernel, PUser
  <2> QED BY <1>1, <2>1 DEF PTypes
<1>3. /\ \A i \in DOMAIN kernel_events : kernel_events[i].ts \in Nat
      /\ \A i \in DOMAIN user_events : user_events[i].ts \in Nat
  BY PipelineSets DEF PInv, WindowInv, Events, HandlerEvents
<1>4. \A i \in DOMAIN report : report[i].k.ts \in Nat /\ report[i].u.ts \in Nat
  BY PipelineSets DEF PInv, ReportInv, Events, HandlerEvents
<1>5. /\ \A i \in DOMAIN rb : rb[i] \in Nat
      /\ Len(own) \in Nat /\ \A m \in 1..Len(own) : own[m] \in Nat
  <2>1. rb \in Seq(Times) /\ own \in Seq(Times)
    BY <1>1 DEF PTypes
  <2>2. /\ \A i \in DOMAIN rb : rb[i] \in Times
        /\ Len(own) \in Nat /\ \A m \in 1..Len(own) : own[m] \in Times
    BY <2>1
  <2> QED BY <1>1, <2>2
<1>6. Received \subseteq Nat
  BY <1>2, <1>3, <1>4, <1>5 DEF Received, KernelIn
<1>7. \A p \in Handled : p[1] \in Nat
  BY <1>2, <1>3, <1>4 DEF Handled, UserIn
<1>8. now \in Nat /\ entry \in Nat /\ stamp \in Nat /\ foreign \in Nat /\ foreigns \subseteq Nat
  BY <1>1 DEF PTypes
<1> QED BY <1>5, <1>6, <1>7, <1>8

\* Nothing but the correlator and the shared queue moves.
LEMMA StampsStay ==
  ASSUME PInv, Received' \subseteq Received, Handled' \subseteq Handled,
         UNCHANGED <<now, source>>
  PROVE  Messages' /\ Clock' /\ Turns'
<1>1. /\ now' = now /\ arrived' = arrived /\ socket' = socket /\ entry' = entry
      /\ hand' = hand /\ stamp' = stamp /\ foreign' = foreign
      /\ own' = own /\ foreigns' = foreigns
  BY DEF source
<1>2. Messages /\ Clock /\ Turns
  BY DEF PInv
<1>3. Messages'
  BY <1>1, <1>2 DEF Messages
<1>4. Clock'
  BY <1>1, <1>2 DEF Clock
<1>5. Turns'
  BY <1>1, <1>2 DEF Turns
<1> QED BY <1>3, <1>4, <1>5

LEMMA ArriveStep == PInv /\ Arrive => PInv'
<1> SUFFICES ASSUME PInv, Arrive PROVE PInv'
  OBVIOUS
<1>1. /\ arrived' = arrived + 1 /\ card' = Append(card, arrived + 1)
      /\ socket' = Append(socket, arrived + 1)
      /\ UNCHANGED vars
      /\ now' = now /\ rb' = rb /\ queue' = queue /\ entry' = entry /\ hand' = hand
      /\ stamp' = stamp /\ foreign' = foreign /\ own' = own /\ foreigns' = foreigns
  BY DEF Arrive
<1>2. PTypes /\ Messages /\ Clock /\ Turns
  BY DEF PInv
<1>3. /\ WindowInv(PNic, PKernel, PUser)' /\ ReportInv(PKernel, PUser)'
      /\ Received' = Received /\ Handled' = Handled
  BY <1>1, WindowsStay DEF Received, Handled
<1>4. PTypes'
  BY <1>1, <1>2 DEF PTypes
<1>5. Messages'
  <2>1. socket \in Seq(Nat) /\ Len(own) \in Nat /\ arrived \in Nat /\ Len(socket) \in Nat
    BY <1>2 DEF PTypes
  <2>2. /\ Len(socket') = Len(socket) + 1
        /\ \A i \in 1..Len(socket) : socket'[i] = socket[i]
        /\ socket'[Len(socket) + 1] = arrived + 1
    BY <1>1, <2>1
  <2>3. \A i \in 1..Len(socket') : socket'[i] = Len(own) + i
    <3> SUFFICES ASSUME NEW i \in 1..Len(socket) + 1 PROVE socket'[i] = Len(own) + i
      BY <2>2
    <3>1. i \in 1..Len(socket) \/ i = Len(socket) + 1
      BY <2>1
    <3>2. Len(own) + Len(socket) = arrived /\ \A j \in 1..Len(socket) : socket[j] = Len(own) + j
      BY <1>2 DEF Messages
    <3>3. CASE i \in 1..Len(socket)
      BY <2>2, <3>2, <3>3
    <3>4. CASE i = Len(socket) + 1
      BY <2>1, <2>2, <3>2, <3>4
    <3> QED BY <3>1, <3>3, <3>4
  <2> QED BY <1>1, <1>2, <2>1, <2>2, <2>3 DEF Messages
<1>6. Clock' /\ Turns'
  BY <1>1, <1>2, <1>3 DEF Clock, Turns
<1> QED BY <1>3, <1>4, <1>5, <1>6 DEF PInv

LEMMA CaptureStep == PInv /\ CaptureNic => PInv'
<1> SUFFICES ASSUME PInv, CaptureNic PROVE PInv'
  OBVIOUS
<1> DEFINE e == [id |-> 0, type |-> "NIC", ts |-> now', tcp_seq |-> Head(card), sock_ptr |-> 0]
<1>1. /\ card # << >> /\ now + 1 \in Times /\ now' = now + 1
      /\ queue' = Append(queue, e) /\ card' = Tail(card)
      /\ UNCHANGED vars
      /\ rb' = rb /\ arrived' = arrived /\ socket' = socket /\ entry' = entry /\ hand' = hand
      /\ stamp' = stamp /\ foreign' = foreign /\ own' = own /\ foreigns' = foreigns
  BY DEF CaptureNic, Ticks
<1>2. PTypes /\ Messages /\ Clock /\ Turns
  BY DEF PInv
<1>3. /\ Head(card) \in Nat /\ Tail(card) \in Seq(Nat)
      /\ queue \in Seq(PNic \cup PKernel \cup PUser)
  BY <1>1, <1>2 DEF PTypes
<1>4. e \in PNic /\ e.type = "NIC"
  BY <1>1, <1>3 DEF PNic
<1> HIDE DEF e
<1>5. KernelIn(queue') \subseteq KernelIn(queue) /\ UserIn(queue') \subseteq UserIn(queue)
  <2>1. e \in PNic \cup PKernel \cup PUser /\ e.type # "KERNEL" /\ e.type # "USERSPACE"
    BY <1>4
  <2> QED BY <1>1, <1>3, <2>1, QueueGrows
<1>6. /\ WindowInv(PNic, PKernel, PUser)' /\ ReportInv(PKernel, PUser)'
      /\ Received' \subseteq Received /\ Handled' \subseteq Handled
  BY <1>1, <1>5, WindowsStay DEF Received, Handled
<1>7. PTypes'
  BY <1>1, <1>2, <1>3, <1>4 DEF PTypes
<1>8. Messages'
  BY <1>1, <1>2 DEF Messages
<1>9. Clock' /\ Turns'
  BY <1>1, <1>2, <1>6, StampsAreTimes DEF Clock, Turns
<1> QED BY <1>6, <1>7, <1>8, <1>9 DEF PInv

LEMMA EnterStep == PInv /\ Enter => PInv'
<1> SUFFICES ASSUME PInv, Enter PROVE PInv'
  OBVIOUS
<1>1. /\ entry = 0 /\ hand = << >> /\ now + 1 \in Times /\ now' = now + 1 /\ entry' = now + 1
      /\ UNCHANGED vars
      /\ rb' = rb /\ queue' = queue /\ arrived' = arrived /\ card' = card /\ socket' = socket
      /\ hand' = hand /\ stamp' = stamp /\ foreign' = foreign /\ own' = own
      /\ foreigns' = foreigns
  BY DEF Enter, Ticks
<1>2. PTypes /\ Messages /\ Clock /\ Turns
  BY DEF PInv
<1>3. /\ WindowInv(PNic, PKernel, PUser)' /\ ReportInv(PKernel, PUser)'
      /\ Received' = Received /\ Handled' = Handled
  BY <1>1, WindowsStay DEF Received, Handled
<1>4. PTypes'
  BY <1>1, <1>2 DEF PTypes
<1>5. Messages'
  BY <1>1, <1>2 DEF Messages
<1>6. Clock'
  BY <1>1, <1>2, <1>3, StampsAreTimes DEF Clock
<1>7. Turns'
  <2>1. \A p \in Handled : p[1] < now + 1
    BY <1>2, StampsAreTimes DEF Clock
  <2>2. \A t \in Received : t \in foreigns \/ (t <= now /\ t <= now + 1)
    BY <1>2, StampsAreTimes DEF Turns
  <2> QED BY <1>1, <1>2, <1>3, <2>1, <2>2, StampsAreTimes DEF Turns
<1> QED BY <1>3, <1>4, <1>5, <1>6, <1>7 DEF PInv

LEMMA StampStep == PInv /\ Stamp => PInv'
<1> SUFFICES ASSUME PInv, Stamp PROVE PInv'
  OBVIOUS
<1>1. /\ hand # << >> /\ now + 1 \in Times /\ now' = now + 1 /\ stamp' = now + 1
      /\ UNCHANGED vars
      /\ rb' = rb /\ queue' = queue /\ arrived' = arrived /\ card' = card /\ socket' = socket
      /\ entry' = entry /\ hand' = hand /\ foreign' = foreign /\ own' = own
      /\ foreigns' = foreigns
  BY DEF Stamp, Ticks
<1>2. PTypes /\ Messages /\ Clock /\ Turns
  BY DEF PInv
<1>3. /\ WindowInv(PNic, PKernel, PUser)' /\ ReportInv(PKernel, PUser)'
      /\ Received' = Received /\ Handled' = Handled
  BY <1>1, WindowsStay DEF Received, Handled
<1>4. PTypes'
  BY <1>1, <1>2 DEF PTypes
<1>5. Messages'
  BY <1>1, <1>2 DEF Messages
<1>6. Clock'
  <2>1. Head(hand) \in 1..Len(own)
    <3>1. hand \in Seq(Nat)
      BY <1>2 DEF PTypes
    <3>2. 1 \in 1..Len(hand) /\ Head(hand) = hand[1]
      BY <1>1, <3>1
    <3> QED BY <1>2, <3>2 DEF Messages
  <2>2. own[Head(hand)] <= now + 1 /\ now + 1 \notin foreigns
    BY <1>2, <2>1, StampsAreTimes DEF Clock
  <2> QED BY <1>1, <1>2, <1>3, <2>2, StampsAreTimes DEF Clock
<1>7. Turns'
  BY <1>1, <1>2, <1>3, StampsAreTimes DEF Turns
<1> QED BY <1>3, <1>4, <1>5, <1>6, <1>7 DEF PInv

LEMMA ForeignEnterStep == PInv /\ ForeignEnter => PInv'
<1> SUFFICES ASSUME PInv, ForeignEnter PROVE PInv'
  OBVIOUS
<1>1. /\ now + 1 \in Times /\ now' = now + 1 /\ foreign' = now + 1
      /\ foreigns' = foreigns \cup {now + 1}
      /\ UNCHANGED vars
      /\ rb' = rb /\ queue' = queue /\ arrived' = arrived /\ card' = card /\ socket' = socket
      /\ entry' = entry /\ hand' = hand /\ stamp' = stamp /\ own' = own
  BY DEF ForeignEnter, Ticks
<1>2. PTypes /\ Messages /\ Clock /\ Turns
  BY DEF PInv
<1>3. /\ WindowInv(PNic, PKernel, PUser)' /\ ReportInv(PKernel, PUser)'
      /\ Received' = Received /\ Handled' = Handled
  BY <1>1, WindowsStay DEF Received, Handled
<1>4. PTypes'
  BY <1>1, <1>2 DEF PTypes
<1>5. Messages'
  BY <1>1, <1>2 DEF Messages
<1>6. Clock'
  <2>1. \A n \in Nat : n <= now => n # now + 1 /\ n <= now + 1
    BY StampsAreTimes
  <2> QED BY <1>1, <1>2, <1>3, <2>1, StampsAreTimes DEF Clock
<1>7. Turns'
  BY <1>1, <1>2, <1>3, StampsAreTimes DEF Turns
<1> QED BY <1>3, <1>4, <1>5, <1>6, <1>7 DEF PInv

LEMMA ForeignReturnStep == PInv /\ ForeignReturn => PInv'
<1> SUFFICES ASSUME PInv, ForeignReturn PROVE PInv'
  OBVIOUS
<1>1. /\ foreign # 0 /\ foreign' = 0 /\ rb' = Append(rb, foreign)
      /\ UNCHANGED vars
      /\ now' = now /\ queue' = queue /\ arrived' = arrived /\ card' = card
      /\ socket' = socket /\ entry' = entry /\ hand' = hand /\ stamp' = stamp /\ own' = own
      /\ foreigns' = foreigns
  BY DEF ForeignReturn
<1>2. PTypes /\ Messages /\ Clock /\ Turns
  BY DEF PInv
<1>3. rb \in Seq(Times) /\ foreign \in Times /\ foreign \in foreigns
  BY <1>1, <1>2 DEF PTypes, Clock
<1>4. \A i \in DOMAIN rb' : (i \in DOMAIN rb /\ rb'[i] = rb[i]) \/ rb'[i] = foreign
  BY <1>1, <1>3
<1>5. /\ WindowInv(PNic, PKernel, PUser)' /\ ReportInv(PKernel, PUser)'
      /\ Received' \subseteq Received \cup {foreign} /\ Handled' = Handled
  BY <1>1, <1>4, WindowsStay DEF Received, Handled
<1>6. PTypes'
  BY <1>1, <1>2, <1>3 DEF PTypes
<1>7. Messages' /\ Clock'
  BY <1>1, <1>2, <1>5 DEF Messages, Clock
<1>8. Turns'
  BY <1>1, <1>2, <1>3, <1>5 DEF Turns
<1> QED BY <1>5, <1>6, <1>7, <1>8 DEF PInv

LEMMA LoaderStep == PInv /\ LoaderPush => PInv'
<1> SUFFICES ASSUME PInv, LoaderPush PROVE PInv'
  OBVIOUS
<1>1. PICK s \in TcpSeqs :
        queue' = Append(queue, [id |-> 0, type |-> "KERNEL", ts |-> Head(rb), tcp_seq |-> s,
                                sock_ptr |-> 1])
  BY DEF LoaderPush
<1> DEFINE e == [id |-> 0, type |-> "KERNEL", ts |-> Head(rb), tcp_seq |-> s, sock_ptr |-> 1]
<1>2. rb # << >> /\ rb' = Tail(rb) /\ UNCHANGED vars /\ UNCHANGED <<now, source>>
  BY DEF LoaderPush
<1>3. PTypes /\ rb \in Seq(Times) /\ queue \in Seq(PNic \cup PKernel \cup PUser)
  BY DEF PInv, PTypes
<1>4. /\ Head(rb) \in Times /\ Tail(rb) \in Seq(Times)
      /\ 1 \in DOMAIN rb /\ Head(rb) = rb[1]
      /\ \A i \in DOMAIN Tail(rb) : i + 1 \in DOMAIN rb /\ Tail(rb)[i] = rb[i + 1]
  BY <1>2, <1>3
<1>5. e \in PKernel /\ e.type = "KERNEL" /\ e.ts = Head(rb) /\ queue' = Append(queue, e)
  BY <1>1, <1>4 DEF PKernel
<1> HIDE DEF e
<1>6. KernelIn(queue') \subseteq KernelIn(queue) \cup {Head(rb)}
      /\ UserIn(queue') \subseteq UserIn(queue)
      /\ queue' \in Seq(PNic \cup PKernel \cup PUser)
  <2>1. e \in PNic \cup PKernel \cup PUser
    BY <1>5
  <2> QED BY <1>3, <1>5, <2>1, QueueGrows
<1>7. {rb'[i] : i \in DOMAIN rb'} \subseteq {rb[i] : i \in DOMAIN rb}
      /\ Head(rb) \in {rb[i] : i \in DOMAIN rb}
  BY <1>2, <1>4
<1>8. /\ WindowInv(PNic, PKernel, PUser)' /\ ReportInv(PKernel, PUser)'
      /\ Received' \subseteq Received /\ Handled' \subseteq Handled
  BY <1>2, <1>6, <1>7, WindowsStay DEF Received, Handled
<1>9. PTypes'
  BY <1>2, <1>3, <1>4, <1>6 DEF PTypes, source
<1> QED BY <1>2, <1>8, <1>9, StampsStay DEF PInv

LEMMA ReturnStep == PInv /\ Return => PInv'
<1> SUFFICES ASSUME PInv, Return PROVE PInv'
  OBVIOUS
<1>1. PICK n \in 0..Len(socket) :
        /\ hand' = SubSeq(socket, 1, n)
        /\ socket' = SubSeq(socket, n + 1, Len(socket))
        /\ own' = own \o [i \in 1..n |-> entry]
  BY DEF Return
<1>2. /\ entry # 0 /\ entry' = 0 /\ rb' = Append(rb, entry)
      /\ UNCHANGED vars
      /\ now' = now /\ queue' = queue /\ arrived' = arrived /\ card' = card /\ stamp' = stamp
      /\ foreign' = foreign /\ foreigns' = foreigns
  BY DEF Return
<1>3. PTypes /\ Messages /\ Clock /\ Turns
  BY DEF PInv
<1>4. /\ socket \in Seq(Nat) /\ own \in Seq(Times) /\ rb \in Seq(Times) /\ entry \in Times
      /\ hand = << >> /\ stamp = 0 /\ Len(socket) \in Nat /\ Len(own) \in Nat /\ n \in Nat
  BY <1>2, <1>3 DEF PTypes, Messages
<1>5. /\ hand' \in Seq(Nat) /\ Len(hand') = n
      /\ \A i \in 1..n : hand'[i] = socket[i]
  BY <1>1, <1>4
<1>6. /\ socket' \in Seq(Nat) /\ Len(socket') = Len(socket) - n
      /\ \A i \in 1..Len(socket) - n : socket'[i] = socket[n + i]
  <2>1. n <= Len(socket) /\ socket' = SubSeq(socket, n + 1, Len(socket))
    BY <1>1
  <2>2. socket' \in Seq(Nat) /\ Len(socket') = Len(socket) - n
    BY <1>4, <2>1
  <2>3. ASSUME NEW i \in 1..Len(socket) - n PROVE socket'[i] = socket[n + i]
    BY <1>4, <2>1, <2>3
  <2> QED BY <2>2, <2>3
<1>7. /\ own' \in Seq(Times) /\ Len(own') = Len(own) + n
      /\ \A m \in 1..Len(own) : own'[m] = own[m]
      /\ \A i \in 1..n : own'[Len(own) + i] = entry
  <2> DEFINE same == [i \in 1..n |-> entry]
  <2>1. same \in Seq(Times) /\ Len(same) = n /\ \A i \in 1..n : same[i] = entry
    BY <1>4
  <2> HIDE DEF same
  <2>2. own' = own \o same
    BY <1>1 DEF same
  <2>3. own' \in Seq(Times) /\ Len(own') = Len(own) + n
    <3>1. ASSUME NEW s \in Seq(Times), NEW t \in Seq(Times)
          PROVE  s \o t \in Seq(Times) /\ Len(s \o t) = Len(s) + Len(t)
      OBVIOUS
    <3> QED BY <1>4, <2>1, <2>2, <3>1, Zenon
  <2>4. ASSUME NEW m \in 1..Len(own) PROVE own'[m] = own[m]
    BY <1>4, <2>1, <2>2
  <2>5. ASSUME NEW i \in 1..n PROVE own'[Len(own) + i] = entry
    <3>1. Len(own) + i \in 1..Len(own) + n /\ ~(Len(own) + i <= Len(own))
          /\ (Len(own) + i) - Len(own) = i
      BY <1>4
    <3>2. own'[Len(own) + i] = same[(Len(own) + i) - Len(own)]
      BY <1>4, <2>1, <2>2, <3>1
    <3> QED BY <2>1, <3>1, <3>2
  <2> QED BY <2>3, <2>4, <2>5
<1>8. \A i \in 1..n : hand'[i] = Len(own) + i /\ own'[hand'[i]] = entry
  <2> SUFFICES ASSUME NEW i \in 1..n PROVE hand'[i] = Len(own) + i /\ own'[hand'[i]] = entry
    OBVIOUS
  <2>1. i \in 1..Len(socket)
    BY <1>1, <1>4
  <2>2. socket[i] = Len(own) + i
    BY <1>3, <2>1 DEF Messages
  <2> QED BY <1>5, <1>7, <2>2
<1>9. \A i \in DOMAIN rb' : (i \in DOMAIN rb /\ rb'[i] = rb[i]) \/ rb'[i] = entry
  BY <1>2, <1>4
<1>10. /\ WindowInv(PNic, PKernel, PUser)' /\ ReportInv(PKernel, PUser)'
       /\ Received' \subseteq Received \cup {entry} /\ Handled' = Handled
  BY <1>2, <1>9, WindowsStay DEF Received, Handled
<1>11. PTypes'
  BY <1>2, <1>3, <1>4, <1>5, <1>6, <1>7 DEF PTypes
<1>12. Messages'
  <2>1. \A i \in 1..Len(socket') : socket'[i] = Len(own') + i
    <3> SUFFICES ASSUME NEW i \in 1..Len(socket) - n PROVE socket'[i] = (Len(own) + n) + i
      BY <1>6, <1>7
    <3>1. n + i \in 1..Len(socket) /\ Len(own) + (n + i) = (Len(own) + n) + i
      BY <1>1, <1>4
    <3> QED BY <1>3, <1>6, <3>1 DEF Messages
  <2>2. \A i \in 1..Len(hand') : hand'[i] \in 1..Len(own')
    BY <1>4, <1>5, <1>7, <1>8
  <2>3. Len(own') + Len(socket') = arrived'
    BY <1>2, <1>3, <1>4, <1>6, <1>7 DEF Messages
  <2> QED BY <1>2, <1>4, <2>1, <2>2, <2>3 DEF Messages
<1>13. Clock'
  <2>1. \A m \in 1..Len(own') : own'[m] <= now
    <3> SUFFICES ASSUME NEW m \in 1..Len(own) + n PROVE own'[m] <= now
      BY <1>7
    <3>1. CASE m \in 1..Len(own)
      BY <1>3, <1>7, <3>1 DEF Clock
    <3>2. CASE m \notin 1..Len(own)
      <4>1. m - Len(own) \in 1..n /\ Len(own) + (m - Len(own)) = m
        BY <1>4, <3>2
      <4>2. own'[m] = entry
        BY <1>7, <4>1
      <4> QED BY <1>3, <4>2 DEF Clock
    <3> QED BY <3>1, <3>2
  <2>2. \A p \in Handled : /\ p[2] \in 1..Len(own') /\ own'[p[2]] <= p[1]
                           /\ p[1] <= now /\ p[1] \notin foreigns
    <3> SUFFICES ASSUME NEW p \in Handled
                 PROVE  /\ p[2] \in 1..Len(own') /\ own'[p[2]] <= p[1]
                        /\ p[1] <= now /\ p[1] \notin foreigns
      OBVIOUS
    <3>1. /\ p[2] \in 1..Len(own) /\ own[p[2]] <= p[1]
          /\ p[1] <= now /\ p[1] \notin foreigns
      BY <1>3 DEF Clock
    <3> QED BY <1>4, <1>7, <3>1
  <2>3. 0 <= now
    BY StampsAreTimes
  <2> QED BY <1>2, <1>3, <1>4, <1>10, <2>1, <2>2, <2>3 DEF Clock
<1>14. Turns'
  <2>1. ASSUME NEW t \in Received, t \notin foreigns
        PROVE  /\ t <= now
               /\ \A i \in 1..n : t <= own'[hand'[i]]
               /\ \A p \in Handled : t <= own'[p[2]] \/ t > p[1]
    <3>1. t <= now /\ t <= entry /\ \A p \in Handled : t <= own[p[2]] \/ t > p[1]
      BY <1>2, <1>3, <2>1 DEF Turns
    <3>2. \A p \in Handled : p[2] \in 1..Len(own)
      BY <1>3 DEF Clock
    <3> QED BY <1>7, <1>8, <3>1, <3>2
  <2>2. /\ entry <= now
        /\ \A i \in 1..n : entry <= own'[hand'[i]]
        /\ \A p \in Handled : entry > p[1]
    <3>1. entry <= entry
      BY StampsAreTimes
    <3> QED BY <1>2, <1>3, <1>8, <3>1 DEF Clock, Turns
  <2> QED BY <1>2, <1>5, <1>10, <2>1, <2>2 DEF Turns
<1> QED BY <1>10, <1>11, <1>12, <1>13, <1>14 DEF PInv

LEMMA HandlerStep == PInv /\ HandlerPush => PInv'
<1> SUFFICES ASSUME PInv, HandlerPush PROVE PInv'
  OBVIOUS
<1> DEFINE e == [id |-> 0, type |-> "USERSPACE", ts |-> stamp, tcp_seq |-> 0, sock_ptr |-> 0,
                 timed |-> TRUE, msg |-> Head(hand)]
           m == Head(hand)
<1>1. /\ stamp # 0 /\ stamp' = 0 /\ queue' = Append(queue, e) /\ hand' = Tail(hand)
      /\ UNCHANGED vars
      /\ now' = now /\ rb' = rb /\ arrived' = arrived /\ card' = card /\ socket' = socket
      /\ entry' = entry /\ foreign' = foreign /\ own' = own /\ foreigns' = foreigns
  BY DEF HandlerPush
<1>2. PTypes /\ Messages /\ Clock /\ Turns
  BY DEF PInv
<1>3. /\ hand # << >> /\ hand \in Seq(Nat) /\ stamp \in Times /\ entry = 0
      /\ queue \in Seq(PNic \cup PKernel \cup PUser)
  BY <1>1, <1>2 DEF PTypes, Messages
<1>4. /\ m \in Nat /\ m = hand[1] /\ 1 \in 1..Len(hand)
      /\ hand' \in Seq(Nat)
      /\ \A i \in 1..Len(hand') : i + 1 \in 1..Len(hand) /\ hand'[i] = hand[i + 1]
  BY <1>1, <1>3
<1>5. e \in PUser /\ e.type = "USERSPACE" /\ e.ts = stamp /\ e.msg = m
  BY <1>3, <1>4 DEF PUser
<1> HIDE DEF e, m
<1>6. /\ KernelIn(queue') \subseteq KernelIn(queue)
      /\ UserIn(queue') \subseteq UserIn(queue) \cup {<<stamp, m>>}
      /\ queue' \in Seq(PNic \cup PKernel \cup PUser)
  <2>1. e \in PNic \cup PKernel \cup PUser /\ e.type # "KERNEL"
    BY <1>5
  <2> QED BY <1>1, <1>3, <1>5, <2>1, QueueGrows
<1>7. /\ WindowInv(PNic, PKernel, PUser)' /\ ReportInv(PKernel, PUser)'
      /\ Received' \subseteq Received /\ Handled' \subseteq Handled \cup {<<stamp, m>>}
  BY <1>1, <1>6, WindowsStay DEF Received, Handled
<1>8. PTypes'
  BY <1>1, <1>2, <1>4, <1>6 DEF PTypes
<1>9. Messages'
  BY <1>1, <1>2, <1>3, <1>4 DEF Messages
<1>10. m \in 1..Len(own) /\ own[m] <= stamp /\ stamp <= now /\ stamp \notin foreigns
  BY <1>1, <1>2, <1>4 DEF Messages, Clock, m
<1>11. Clock'
  <2>1. \A p \in Handled' : /\ p[2] \in 1..Len(own) /\ own[p[2]] <= p[1]
                            /\ p[1] <= now /\ p[1] \notin foreigns
    BY <1>2, <1>7, <1>10 DEF Clock
  <2>2. 0 <= now
    BY StampsAreTimes
  <2> QED BY <1>1, <1>2, <2>1, <2>2 DEF Clock
<1>12. Turns'
  <2>1. ASSUME NEW t \in Received', t \notin foreigns
        PROVE  /\ t <= now
               /\ \A i \in 1..Len(hand') : t <= own[hand'[i]]
               /\ \A p \in Handled' : t <= own[p[2]] \/ t > p[1]
    <3>1. /\ t <= now /\ \A i \in 1..Len(hand) : t <= own[hand[i]]
          /\ \A p \in Handled : t <= own[p[2]] \/ t > p[1]
      BY <1>2, <1>7, <2>1 DEF Turns
    <3>2. t <= own[m]
      BY <1>4, <3>1
    <3>3. \A i \in 1..Len(hand') : t <= own[hand'[i]]
      BY <1>4, <3>1
    <3>4. ASSUME NEW p \in Handled' PROVE t <= own[p[2]] \/ t > p[1]
      <4>1. p \in Handled \/ p[2] = m
        BY <1>7
      <4> QED BY <3>1, <3>2, <4>1
    <3> QED BY <3>1, <3>3, <3>4
  <2> QED BY <1>1, <1>3, <2>1 DEF Turns
<1> QED BY <1>7, <1>8, <1>9, <1>11, <1>12 DEF PInv

LEMMA PipelineInvariant == PSpec => []PInv
<1>1. PInit => PInv
  <2> SUFFICES ASSUME PInit PROVE PInv
    OBVIOUS
  <2>1. /\ nic_events = << >> /\ kernel_events = << >> /\ user_events = << >> /\ report = << >>
        /\ cnt = 0 /\ popped = 0 /\ ended \in BOOLEAN
        /\ now = 0 /\ arrived = 0 /\ card = << >> /\ socket = << >> /\ entry = 0
        /\ hand = << >> /\ stamp = 0 /\ foreign = 0 /\ rb = << >> /\ queue = << >>
        /\ own = << >> /\ foreigns = {}
    BY DEF PInit, Init
  <2>2. NumberedTo(<< >>, 0)
    BY DEF NumberedTo
  <2>3. WindowsBounded
    <3>1. 0 % Batch = 0 /\ Len(<< >>) = 0
      BY WindowAssumption
    <3> QED BY <2>1, <3>1, WindowAssumption DEF WindowsBounded
  <2>4. /\ << >> \in Seq(PNic) /\ << >> \in Seq(PKernel) /\ << >> \in Seq(PUser)
        /\ 0 \in 0..CntWord - 1 /\ 0 \in Nat
    BY CntAssumption, WindowAssumption
  <2>5. WindowInv(PNic, PKernel, PUser)
    BY <2>1, <2>2, <2>3, <2>4, Zenon DEF WindowInv
  <2>6. ReportInv(PKernel, PUser)
    BY <2>1 DEF ReportInv
  <2>7. PTypes
    BY <2>1 DEF PTypes
  <2>8. Messages
    BY <2>1 DEF Messages
  <2>9. Received = {} /\ Handled = {}
    BY <2>1 DEF Received, Handled, KernelIn, UserIn
  <2>10. Clock
    BY <2>1, <2>9 DEF Clock
  <2>11. Turns
    BY <2>1, <2>9 DEF Turns
  <2> QED BY <2>5, <2>6, <2>7, <2>8, <2>10, <2>11 DEF PInv
<1>2. PInv /\ [PNext]_pvars => PInv'
  <2> SUFFICES ASSUME PInv, [PNext]_pvars PROVE PInv'
    OBVIOUS
  <2>1. CASE Pop
    <3>1. UNCHANGED <<now, rb, source>>
      BY <2>1 DEF Pop
    <3>2. PTypes'
      BY <2>1, <3>1, PopStep DEF PInv, PTypes, source
    <3> QED BY <2>1, <3>1, <3>2, PopStep, StampsStay DEF PInv
  <2>2. CASE LastPass
    <3>1. UNCHANGED <<now, rb, queue, source>>
      BY <2>2 DEF LastPass
    <3>2. PTypes'
      BY <3>1 DEF PInv, PTypes, source
    <3> QED BY <2>2, <3>1, <3>2, LastPassStep, StampsStay DEF PInv
  <2>3. CASE UNCHANGED pvars
    <3>1. UNCHANGED vars /\ UNCHANGED <<now, source>> /\ rb' = rb /\ queue' = queue
      BY <2>3 DEF pvars
    <3>2. /\ WindowInv(PNic, PKernel, PUser)' /\ ReportInv(PKernel, PUser)'
          /\ Received' = Received /\ Handled' = Handled
      BY <3>1, WindowsStay DEF Received, Handled
    <3>3. PTypes'
      BY <3>1 DEF PInv, PTypes, source
    <3> QED BY <3>1, <3>2, <3>3, StampsStay DEF PInv
  <2> QED BY <2>1, <2>2, <2>3, ArriveStep, CaptureStep, EnterStep, ReturnStep,
             ForeignEnterStep, ForeignReturnStep, LoaderStep, StampStep, HandlerStep
          DEF PNext
<1> QED BY <1>1, <1>2, PTL DEF PSpec

\* A report is made of the message's own receive, if that is in the window and
\* no foreign receive began between it and the handler's stamp: for any
\* number of messages, receives and events, however the threads take turns.
THEOREM OwnReceiveMatched == PSpec => []OwnReceiveUnlessForeign
<1>1. PInv => OwnReceiveUnlessForeign
  <2> SUFFICES ASSUME PInv, NEW i \in DOMAIN report, OwnInWindow(report[i]),
                      ~(\E f \in foreigns : own[report[i].u.msg] < f /\ f < report[i].u.ts)
               PROVE  report[i].k.ts = own[report[i].u.msg]
    BY DEF OwnReceiveUnlessForeign
  <2> DEFINE t == report[i].k.ts
             s == report[i].u.ts
             o == own[report[i].u.msg]
  <2>1. Clock /\ Turns
    BY DEF PInv
  <2>2. t \in Received /\ <<s, report[i].u.msg>> \in Handled
    BY DEF Received, Handled
  <2>3. /\ t \in Nat /\ s \in Nat /\ o \in Nat /\ o <= s /\ s \notin foreigns
        /\ t \in foreigns \/ t <= o \/ t > s
    <3>1. \A p \in Handled : /\ p[2] \in 1..Len(own) /\ own[p[2]] <= p[1]
                             /\ p[1] \notin foreigns
                             /\ t \in foreigns \/ t <= own[p[2]] \/ t > p[1]
      BY <2>1, <2>2 DEF Clock, Turns
    <3> QED BY <2>2, <3>1, StampsAreTimes
  <2>4. PICK j \in DOMAIN kernel_events : kernel_events[j].ts = o
    BY DEF OwnInWindow
  <2>5. t <= s /\ NearestById(report[i].k, s, kernel_events)
    BY DEF PInv, ReportInv, Eligible, OwnInWindow
  <2>6. o < t \/ o = t
    BY <2>3, <2>4, <2>5 DEF NearestById
  <2>7. ~(t \in foreigns /\ o < t /\ t < s)
    OBVIOUS
  <2> HIDE DEF t, s, o
  <2>8. t = o
    BY <2>3, <2>5, <2>6, <2>7
  <2> QED BY <2>8 DEF t, o
<1> QED BY <1>1, PipelineInvariant, PTL
=============================================================================
