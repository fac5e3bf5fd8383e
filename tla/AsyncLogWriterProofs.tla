------------------------- MODULE AsyncLogWriterProofs -------------------------
(***************************************************************************)
(* Proofs about AsyncLogWriter, for every flush interval and every number  *)
(* of lines: nothing is lost on the way to the file, the file is a prefix  *)
(* of what was written at every moment, and complete when the object is    *)
(* destroyed.                                                              *)
(***************************************************************************)
EXTENDS AsyncLogWriter, SequenceTheorems, TLAPS

USE FlushAssumption, LinesAssumption

\* Where the threads can be relative to each other.
Control ==
  /\ locked <=> pc = "drain"
  /\ running <=> owner = "run"
  /\ corr => owner = "run"
  /\ pc \in {"exit", "drain", "done"} => ~running
  /\ owner = "closed" => pc = "done"

\* What is left where at the end.
Emptied ==
  /\ pc = "done" => queue = << >>
  /\ pc = "done" /\ ~bad => buffer = << >>

\* The stream never holds more than was counted since the last flush.
Lag ==
  /\ ~bad /\ pc \in {"loop", "take", "insert", "exit"} =>
       Len(buffer) <= write_count % FlushEvery
  /\ ~bad /\ pc = "count" => Len(buffer) <= (write_count % FlushEvery) + 1

\* What the stream accepted is a prefix of what was written, even after an
\* I/O error.
StreamIsPrefix == \E r \in Seq(Nat) : (file \o buffer) \o r = written

LogInv ==
  TypeOK /\ Control /\ Emptied /\ Lag /\ EveryLineSomewhere /\ StreamIsPrefix

-----------------------------------------------------------------------------
(* The stream *)

Lines == Seq(Nat)

LEMMA Associative ==
  \A x, y, z \in Lines : (x \o y) \o z = x \o (y \o z)
<1> SUFFICES ASSUME NEW x \in Lines, NEW y \in Lines, NEW z \in Lines
             PROVE  (x \o y) \o z = x \o (y \o z)
  OBVIOUS
<1>1. x \in Seq(Nat) /\ y \in Seq(Nat) /\ z \in Seq(Nat)
  BY DEF Lines
<1> QED BY <1>1, ConcatAssociative, SMTT(30)

LEMMA ConcatLines == \A x, y \in Lines : x \o y \in Lines
BY ConcatProperties DEF Lines

LEMMA NoLine ==
  << >> \in Lines /\ \A x \in Lines : x \o << >> = x
BY EmptySeq, ConcatEmptySeq DEF Lines

\* A successful insertion puts the line behind everything the stream accepted
\* before, however much of it goes on to the file; a failed one does nothing.
LEMMA InsertStream ==
  ASSUME file \in Lines, buffer \in Lines, bad \in BOOLEAN, NEW l \in Nat,
         Insert(l)
  PROVE  /\ file' \in Lines /\ buffer' \in Lines /\ bad' \in BOOLEAN
         /\ bad => bad'
         /\ bad' => file' = file /\ buffer' = buffer
         /\ ~bad' => /\ file' \o buffer' = (file \o buffer) \o <<l>>
                     /\ Len(buffer') <= Len(buffer) + 1
                     /\ Len(file') >= Len(file)
<1>1. CASE bad' = TRUE /\ UNCHANGED <<buffer, file>>
  BY <1>1
<1>2. ASSUME ~bad, UNCHANGED bad, NEW n \in 0..Len(buffer) + 1,
             file' = file \o SubSeq(Append(buffer, l), 1, n),
             buffer' = SubSeq(Append(buffer, l), n + 1, Len(buffer) + 1)
      PROVE  /\ file' \in Lines /\ buffer' \in Lines
             /\ file' \o buffer' = (file \o buffer) \o <<l>>
             /\ Len(buffer') <= Len(buffer) + 1
             /\ Len(file') >= Len(file)
  <2> DEFINE b == Append(buffer, l)
             u == SubSeq(b, 1, n)
             v == SubSeq(b, n + 1, Len(buffer) + 1)
  <2>1. b \in Seq(Nat) /\ Len(b) = Len(buffer) + 1 /\ Len(buffer) \in Nat
    BY AppendProperties, LenProperties DEF Lines
  <2>2. \A i \in 1..Len(buffer) + 1 : b[i] \in Nat
    BY <2>1, ElementOfSeq
  <2>3. u \in Seq(Nat)
    <3>1. \A i \in 1..n : b[i] \in Nat
      BY <2>1, <2>2, <1>2
    <3> QED BY <2>1, <3>1, <1>2, SubSeqProperties
  <2>4. v \in Seq(Nat) /\ Len(v) <= Len(buffer) + 1
    <3>1. \A i \in n + 1..Len(buffer) + 1 : b[i] \in Nat
      <4> HIDE DEF b
      <4> TAKE i \in n + 1..Len(buffer) + 1
      <4>1. i \in 1..Len(buffer) + 1
        BY <2>1, <1>2
      <4> QED BY <2>2, <4>1
    <3>2. n + 1 \in Int /\ Len(buffer) + 1 \in Int
      BY <2>1, <1>2
    <3>3. /\ v \in Seq(Nat)
          /\ Len(v) = IF n + 1 <= Len(buffer) + 1
                        THEN Len(buffer) + 1 - (n + 1) + 1 ELSE 0
      BY <3>1, <3>2, SubSeqProperties
    <3> QED BY <2>1, <3>3, <1>2
  <2>5. u \o v = b
    <3> HIDE DEF b
    <3>1. /\ 1 \in 1..Len(b) + 1 /\ n \in (1 - 1)..Len(b) /\ Len(b) \in n..Len(b)
          /\ Len(b) = Len(buffer) + 1
      BY <2>1, <1>2
    <3>2. SubSeq(b, 1, n) \o SubSeq(b, n + 1, Len(b)) = SubSeq(b, 1, Len(b))
      BY <2>1, <3>1, ConcatAdjacentSubSeq
    <3>3. SubSeq(b, 1, Len(b)) = b
      BY <2>1, SubSeqFull
    <3> QED BY <3>1, <3>2, <3>3
  <2>6. b = buffer \o <<l>> /\ <<l>> \in Seq(Nat)
    BY AppendIsConcat DEF Lines
  <2> HIDE DEF b, u, v
  <2>a. u \in Lines /\ v \in Lines /\ <<l>> \in Lines
    BY <2>3, <2>4, <2>6 DEF Lines
  <2>7. file \o u \in Lines
    BY <2>a, ConcatLines, Zenon
  <2>8. (file \o u) \o v = file \o (u \o v)
    BY <2>a, Associative, Zenon
  <2>9. (file \o buffer) \o <<l>> = file \o (buffer \o <<l>>)
    BY <2>a, Associative, Zenon
  <2>10. file' = file \o u /\ buffer' = v
    BY <1>2 DEF b, u, v
  <2>11. Len(file \o u) >= Len(file)
    <3>1. file \in Seq(Nat) /\ u \in Seq(Nat)
      BY <2>a DEF Lines
    <3>2. Len(file \o u) = Len(file) + Len(u) /\ Len(u) \in Nat /\ Len(file) \in Nat
      BY <3>1, ConcatProperties, LenProperties
    <3> QED BY <3>2
  <2> QED BY <2>4, <2>5, <2>6, <2>7, <2>8, <2>9, <2>10, <2>11 DEF Lines
<1>3. CASE ~bad /\ UNCHANGED bad /\ \E n \in 0..Len(buffer) + 1 :
             /\ file' = file \o SubSeq(Append(buffer, l), 1, n)
             /\ buffer' = SubSeq(Append(buffer, l), n + 1, Len(buffer) + 1)
  <2>1. /\ file' \in Lines /\ buffer' \in Lines
        /\ file' \o buffer' = (file \o buffer) \o <<l>>
        /\ Len(buffer') <= Len(buffer) + 1
        /\ Len(file') >= Len(file)
    BY <1>2, <1>3
  <2>2. ~bad' /\ bad' \in BOOLEAN
    BY <1>3
  <2> QED BY <1>3, <2>1, <2>2, Zenon
<1> QED BY <1>1, <1>3 DEF Insert

\* A flush or a close moves lines within the stream and loses none.
LEMMA FlushStream ==
  ASSUME file \in Lines, buffer \in Lines, bad \in BOOLEAN, Flush \/ Close
  PROVE  /\ file' \in Lines /\ buffer' \in Lines /\ bad' \in BOOLEAN
         /\ bad => bad'
         /\ file' \o buffer' = file \o buffer
         /\ ~bad' => buffer' = << >>
         /\ Len(buffer') <= Len(buffer)
         /\ Len(file') >= Len(file)
<1>1. CASE bad' = TRUE /\ UNCHANGED <<buffer, file>>
  BY <1>1, LenProperties DEF Lines
<1>2. CASE file' = file \o buffer /\ buffer' = << >> /\ UNCHANGED bad
  <2>1. file \o buffer \in Seq(Nat) /\ << >> \in Seq(Nat)
    BY ConcatProperties, EmptySeq DEF Lines
  <2>2. (file \o buffer) \o << >> = file \o buffer
    BY <2>1, ConcatEmptySeq
  <2>3. Len(<< >>) = 0 /\ Len(buffer) \in Nat
    BY EmptySeq, LenProperties DEF Lines
  <2>4. Len(file \o buffer) >= Len(file)
    <3>1. /\ Len(file \o buffer) = Len(file) + Len(buffer)
          /\ Len(file) \in Nat
      BY ConcatProperties, LenProperties DEF Lines
    <3> QED BY <2>3, <3>1
  <2> QED BY <1>2, <2>1, <2>2, <2>3, <2>4 DEF Lines
<1> QED BY <1>1, <1>2 DEF Flush, Close

-----------------------------------------------------------------------------
(* The inductive invariant *)

LEMMA LogInvInit == Init => LogInv
<1> SUFFICES ASSUME Init PROVE LogInv
  OBVIOUS
<1>1. << >> \in Seq(Nat) /\ Len(<< >>) = 0
  BY EmptySeq
<1>2. << >> \o << >> = << >>
  BY <1>1, ConcatEmptySeq
<1>3. TypeOK
  BY <1>1 DEF Init, TypeOK
<1>6. Control /\ Emptied
  BY DEF Init, Control, Emptied
<1>4. Lag
  BY <1>1 DEF Init, Lag
<1>5. EveryLineSomewhere /\ StreamIsPrefix
  BY <1>1, <1>2 DEF Init, EveryLineSomewhere, StreamIsPrefix
<1> QED BY <1>3, <1>4, <1>5, <1>6 DEF LogInv

\* Counting one more line either completes a group or not.
LEMMA CountModulo ==
  ASSUME NEW n \in Nat, (n + 1) % FlushEvery # 0
  PROVE  (n + 1) % FlushEvery = (n % FlushEvery) + 1
<1> DEFINE F == FlushEvery
           q == n \div F
           q1 == (n + 1) \div F
           r == n % F
           r1 == (n + 1) % F
<1>1. n = F * q + r /\ q \in Int /\ r \in 0..F - 1
  OBVIOUS
<1>2. n + 1 = F * q1 + r1 /\ q1 \in Int /\ r1 \in 1..F - 1
  OBVIOUS
<1> HIDE DEF q, q1, r, r1
<1>3. PICK d \in Int : d = q1 - q
  BY <1>1, <1>2
<1>4. F * d = r + 1 - r1
  BY <1>1, <1>2, <1>3
<1>5. ASSUME d >= 1 PROVE FALSE
  <2>1. F * d >= F
    BY <1>5
  <2> QED BY <1>1, <1>2, <1>4, <2>1
<1>6. ASSUME d <= -1 PROVE FALSE
  <2>1. F * d <= -F
    BY <1>6
  <2> QED BY <1>1, <1>2, <1>4, <2>1
<1>7. d = 0
  BY <1>5, <1>6
<1>8. r1 = r + 1
  BY <1>1, <1>2, <1>4, <1>7
<1> QED BY <1>8 DEF r, r1

LEMMA LogInvStep == LogInv /\ [Next]_vars => LogInv'
<1> SUFFICES ASSUME LogInv, [Next]_vars PROVE LogInv'
  OBVIOUS
<1> USE DEF stream, callers
<1>0. /\ file \in Lines /\ buffer \in Lines /\ queue \in Lines
      /\ written \in Lines /\ bad \in BOOLEAN /\ write_count \in Nat
      /\ file \o buffer \in Lines
  <2>1. file \in Lines /\ buffer \in Lines /\ queue \in Lines
        /\ written \in Lines /\ bad \in BOOLEAN /\ write_count \in Nat
    BY DEF LogInv, TypeOK, Lines
  <2> QED BY <2>1, ConcatProperties DEF Lines
<1>a. ASSUME line = << >>
      PROVE  (file \o buffer) \o line \o queue = (file \o buffer) \o queue
  BY <1>0, <1>a, ConcatEmptySeq DEF Lines
<1>b. << >> \in Lines
  BY EmptySeq DEF Lines
\* A step of the queue and the threads alone
<1>c. ASSUME UNCHANGED <<stream, line, queue, written>>
      PROVE  EveryLineSomewhere' /\ StreamIsPrefix'
  BY <1>c DEF LogInv, EveryLineSomewhere, StreamIsPrefix
<1>1. CASE write
  <2> DEFINE n == Len(written) + 1
             s == (file \o buffer) \o line
  <2>1. n \in Nat
    BY <1>0, LenProperties DEF Lines
  <2>2. queue' \in Lines /\ written' \in Lines
    BY <1>0, <1>1, <2>1, AppendProperties DEF write, Lines
  <2>3. TypeOK'
    BY <1>1, <2>2 DEF LogInv, TypeOK, write, Lines
  <2>4. Control'
    BY <1>1 DEF LogInv, Control, write
  <2>5. Emptied'
    BY <1>1 DEF LogInv, Control, Emptied, write
  <2>6. Lag'
    BY <1>1 DEF LogInv, Lag, write
  <2>7. ASSUME NEW t \in Lines, NEW r \in Lines, t \o r = written
        PROVE  t \o Append(r, n) = written' /\ Append(r, n) \in Lines
    <3> HIDE DEF n
    <3>1. /\ Append(r, n) = r \o <<n>> /\ <<n>> \in Lines
          /\ Append(r, n) \in Lines
      BY <2>1, <2>7, AppendIsConcat, AppendProperties DEF Lines
    <3>2. (t \o r) \o <<n>> = t \o (r \o <<n>>)
      BY <3>1, <2>7, Associative, Zenon
    <3>3. Append(written, n) = written \o <<n>>
      BY <1>0, <2>1, AppendIsConcat DEF Lines
    <3>4. written' = Append(written, n)
      BY <1>1 DEF write, n
    <3> QED BY <2>7, <3>1, <3>2, <3>3, <3>4
  <2>8. line \in Lines
    <3>1. CASE pc = "insert"
      <4>1. line \in [1..1 -> Nat]
        BY <3>1 DEF LogInv, TypeOK
      <4>2. line = <<line[1]>> /\ line[1] \in Nat
        BY <4>1
      <4>3. <<line[1]>> \in Seq(Nat)
        BY <4>2
      <4> QED BY <4>2, <4>3 DEF Lines
    <3>2. CASE pc # "insert"
      BY <1>b, <3>2 DEF LogInv, TypeOK
    <3> QED BY <3>1, <3>2
  <2>9. s \in Lines
    BY <1>0, <2>8, ConcatProperties DEF Lines
  <2>10. EveryLineSomewhere'
    <3> SUFFICES ASSUME ~bad PROVE (s \o queue)' = written'
      BY <1>1 DEF write, EveryLineSomewhere
    <3>1. s \o queue = written
      BY DEF LogInv, EveryLineSomewhere
    <3>2. s \o Append(queue, n) = written'
      <4> HIDE DEF s
      <4> QED BY <1>0, <2>7, <2>9, <3>1
    <3>3. (s \o queue)' = s \o Append(queue, n)
      BY <1>1 DEF write
    <3> QED BY <3>2, <3>3
  <2>11. StreamIsPrefix'
    <3>1. PICK r \in Lines : (file \o buffer) \o r = written
      BY DEF LogInv, StreamIsPrefix, Lines
    <3>2. (file \o buffer) \o Append(r, n) = written' /\ Append(r, n) \in Lines
      BY <1>0, <2>7, <3>1
    <3> QED BY <1>1, <3>2 DEF write, StreamIsPrefix, Lines
  <2> QED BY <2>3, <2>4, <2>5, <2>6, <2>10, <2>11 DEF LogInv
<1>2. CASE CorrReturns
  <2>1. TypeOK' /\ Lag'
    BY <1>2 DEF LogInv, TypeOK, Lag, CorrReturns
  <2>2. Control' /\ Emptied'
    BY <1>2 DEF LogInv, Control, Emptied, CorrReturns
  <2> QED BY <1>2, <1>c, <2>1, <2>2 DEF LogInv, CorrReturns
<1>3. CASE Loop
  <2>1. TypeOK' /\ Lag'
    BY <1>3 DEF LogInv, TypeOK, Lag, Loop
  <2>2. Control' /\ Emptied'
    BY <1>3 DEF LogInv, Control, Emptied, Loop
  <2> QED BY <1>3, <1>c, <2>1, <2>2 DEF LogInv, Loop
<1>4. CASE TakeNothing
  <2>1. TypeOK' /\ Lag'
    BY <1>4 DEF LogInv, TypeOK, Lag, TakeNothing
  <2>2. Control' /\ Emptied'
    BY <1>4 DEF LogInv, Control, Emptied, TakeNothing
  <2> QED BY <1>4, <1>c, <2>1, <2>2 DEF LogInv, TakeNothing
<1>5. CASE Take
  <2> DEFINE x == Head(queue)
             y == Tail(queue)
             s == file \o buffer
  <2>1. x \in Nat /\ y \in Lines /\ queue = <<x>> \o y /\ <<x>> \in Lines
    <3>1. x \in Nat /\ y \in Lines
      BY <1>0, <1>5, HeadTailProperties DEF Take, Lines
    <3>2. queue = <<x>> \o y
      BY <1>0, <1>5 DEF Take, Lines
    <3> QED BY <3>1, <3>2 DEF Lines
  <2>2. TypeOK'
    <3>1. line' \in [1..1 -> Nat] /\ queue' \in Seq(Nat)
      BY <1>5, <2>1 DEF Take, Lines
    <3> QED BY <1>5, <3>1 DEF LogInv, TypeOK, Take
  <2>3. Control' /\ Emptied'
    BY <1>5 DEF LogInv, Control, Emptied, Take
  <2>4. Lag'
    BY <1>5 DEF LogInv, Lag, Take
  <2>5. line = << >>
    BY <1>5 DEF LogInv, TypeOK, Take
  <2>6. EveryLineSomewhere'
    <3> SUFFICES ASSUME ~bad PROVE (s \o line \o queue)' = written
      BY <1>5 DEF Take, EveryLineSomewhere
    <3>1. s \o queue = written
      BY <1>a, <2>5 DEF LogInv, EveryLineSomewhere
    <3>2. s \o (<<x>> \o y) = (s \o <<x>>) \o y
      <4> HIDE DEF s, x, y
      <4>1. s \in Lines
        BY <1>0 DEF s
      <4>2. <<x>> \in Lines /\ y \in Lines
        BY <2>1 DEF Lines
      <4>3. (s \o <<x>>) \o y = s \o (<<x>> \o y)
        BY <4>1, <4>2, Associative, Zenon
      <4> QED BY <4>3, Zenon
    <3>3. (s \o line \o queue)' = (s \o <<x>>) \o y
      BY <1>5 DEF Take
    <3> QED BY <2>1, <3>1, <3>2, <3>3
  <2>7. StreamIsPrefix'
    BY <1>5 DEF LogInv, StreamIsPrefix, Take
  <2> QED BY <2>2, <2>3, <2>4, <2>6, <2>7 DEF LogInv
<1>6. CASE Write
  <2> DEFINE s == file \o buffer
  <2>1. line[1] \in Nat /\ line = <<line[1]>>
    <3>1. line \in [1..1 -> Nat]
      BY <1>6 DEF LogInv, TypeOK, Write
    <3> QED BY <3>1
  <2>2. Insert(line[1])
    BY <1>6 DEF Write
  <2>3. /\ file' \in Lines /\ buffer' \in Lines /\ bad' \in BOOLEAN
        /\ bad => bad'
        /\ bad' => file' = file /\ buffer' = buffer
        /\ ~bad' => /\ file' \o buffer' = s \o <<line[1]>>
                    /\ Len(buffer') <= Len(buffer) + 1
    BY <1>0, <2>1, <2>2, InsertStream
  <2>4. TypeOK'
    BY <1>6, <2>3 DEF LogInv, TypeOK, Write, Lines
  <2>5. Control' /\ Emptied'
    BY <1>6 DEF LogInv, Control, Emptied, Write
  <2>6. Lag'
    <3> SUFFICES ASSUME ~bad' PROVE Len(buffer') <= (write_count % FlushEvery) + 1
      BY <1>6 DEF Lag, Write
    <3>1. Len(buffer) <= write_count % FlushEvery
      BY <1>6, <2>3 DEF LogInv, Lag, Write
    <3>2. Len(buffer) \in Nat /\ Len(buffer') \in Nat
      BY <1>0, <2>3, LenProperties DEF Lines
    <3>3. write_count % FlushEvery \in Nat
      BY <1>0
    <3> QED BY <2>3, <3>1, <3>2, <3>3
  <2>7. line' = << >> /\ queue' = queue /\ written' = written
    BY <1>6 DEF Write
  <2>8. ASSUME ~bad' PROVE (file' \o buffer') \o line' \o queue' = written'
    <3>1. (s \o line) \o queue = written
      BY <2>3, <2>8 DEF LogInv, EveryLineSomewhere
    <3>2. file' \o buffer' = s \o line
      BY <2>1, <2>3, <2>8
    <3>3. file' \o buffer' \in Seq(Nat)
      BY <2>3, ConcatProperties DEF Lines
    <3>4. (file' \o buffer') \o << >> = file' \o buffer'
      BY <3>3, ConcatEmptySeq
    <3> QED BY <2>7, <3>1, <3>2, <3>4
  <2>9. EveryLineSomewhere'
    BY <2>8 DEF EveryLineSomewhere
  <2>10. StreamIsPrefix'
    <3>1. CASE bad'
      <4>1. file' = file /\ buffer' = buffer
        BY <2>3, <3>1
      <4> QED BY <2>7, <4>1 DEF LogInv, StreamIsPrefix
    <3>2. CASE ~bad'
      <4>1. (file' \o buffer') \o << >> = file' \o buffer'
        BY <2>3, ConcatProperties, ConcatEmptySeq DEF Lines
      <4>2. (file' \o buffer') \o queue' = written'
        BY <2>7, <2>8, <3>2, <4>1
      <4>3. queue' \in Seq(Nat)
        BY <1>0, <2>7 DEF Lines
      <4> QED BY <4>2, <4>3 DEF StreamIsPrefix
    <3> QED BY <3>1, <3>2
  <2> QED BY <2>4, <2>5, <2>6, <2>9, <2>10 DEF LogInv
\* A step that flushes or closes the stream and leaves the lines alone
<1>d. ASSUME Flush \/ Close \/ UNCHANGED stream, UNCHANGED <<line, queue, written>>
      PROVE  /\ file' \in Lines /\ buffer' \in Lines /\ bad' \in BOOLEAN
             /\ bad => bad'
             /\ Len(buffer') <= Len(buffer)
             /\ EveryLineSomewhere' /\ StreamIsPrefix'
  <2>1. /\ file' \in Lines /\ buffer' \in Lines /\ bad' \in BOOLEAN
        /\ bad => bad'
        /\ Len(buffer') <= Len(buffer)
        /\ file' \o buffer' = file \o buffer
    <3>1. CASE Flush \/ Close
      BY <1>0, <3>1, FlushStream
    <3>2. CASE UNCHANGED stream
      BY <1>0, <3>2, LenProperties DEF Lines
    <3> QED BY <1>d, <3>1, <3>2
  <2>2. EveryLineSomewhere'
    BY <1>d, <2>1 DEF LogInv, EveryLineSomewhere
  <2>3. StreamIsPrefix'
    BY <1>d, <2>1 DEF LogInv, StreamIsPrefix
  <2> QED BY <2>1, <2>2, <2>3
<1>7. CASE Count
  <2>1. UNCHANGED <<line, queue, written>> /\ (Flush \/ UNCHANGED stream)
    BY <1>7 DEF Count
  <2>2. /\ file' \in Lines /\ buffer' \in Lines /\ bad' \in BOOLEAN
        /\ bad => bad'
        /\ Len(buffer') <= Len(buffer)
        /\ EveryLineSomewhere' /\ StreamIsPrefix'
    BY <1>d, <2>1
  <2>3. TypeOK'
    BY <1>7, <1>0, <2>2 DEF LogInv, TypeOK, Count, Lines
  <2>4. Control' /\ Emptied'
    BY <1>7 DEF LogInv, Control, Emptied, Count
  <2>5. Lag'
    <3> SUFFICES ASSUME ~bad' PROVE Len(buffer') <= write_count' % FlushEvery
      BY <1>7 DEF Lag, Count
    <3>1. Len(buffer) <= (write_count % FlushEvery) + 1 /\ Len(buffer) \in Nat
          /\ Len(buffer') \in Nat
      <4>1. Len(buffer) <= (write_count % FlushEvery) + 1
        BY <1>7, <2>2 DEF LogInv, Lag, Count
      <4> QED BY <1>0, <2>2, <4>1, LenProperties DEF Lines
    <3>2. write_count' = write_count + 1 /\ write_count' \in Nat
      BY <1>0, <1>7 DEF Count
    <3>3. CASE write_count' % FlushEvery = 0
      <4>1. Flush
        BY <1>7, <3>3 DEF Count
      <4>2. buffer' = << >>
        BY <1>0, <4>1, FlushStream
      <4>3. Len(buffer') = 0
        BY <4>2, EmptySeq
      <4> QED BY <3>3, <4>3
    <3>4. CASE write_count' % FlushEvery # 0
      <4>1. write_count' % FlushEvery = (write_count % FlushEvery) + 1
        BY <1>0, <3>2, <3>4, CountModulo
      <4>2. write_count % FlushEvery \in Nat
        BY <1>0
      <4> QED BY <2>2, <3>1, <4>1, <4>2
    <3> QED BY <3>3, <3>4
  <2> QED BY <2>2, <2>3, <2>4, <2>5 DEF LogInv
<1>8. CASE DrainLock
  <2>1. TypeOK' /\ Lag'
    BY <1>8 DEF LogInv, TypeOK, Lag, DrainLock
  <2>2. Control' /\ Emptied'
    BY <1>8 DEF LogInv, Control, Emptied, DrainLock
  <2> QED BY <1>8, <1>c, <2>1, <2>2 DEF LogInv, DrainLock
<1>9. CASE DrainOne
  <2> DEFINE x == Head(queue)
             y == Tail(queue)
             s == file \o buffer
  <2>1. x \in Nat /\ y \in Lines /\ queue = <<x>> \o y /\ <<x>> \in Lines
    <3>1. x \in Nat /\ y \in Lines
      BY <1>0, <1>9, HeadTailProperties DEF DrainOne, Lines
    <3>2. queue = <<x>> \o y
      BY <1>0, <1>9 DEF DrainOne, Lines
    <3> QED BY <3>1, <3>2 DEF Lines
  <2>2. Insert(x) /\ queue' = y /\ line = << >>
        /\ UNCHANGED <<running, locked, pc, line, write_count, callers>>
    BY <1>9 DEF DrainOne, LogInv, TypeOK
  <2>3. /\ file' \in Lines /\ buffer' \in Lines /\ bad' \in BOOLEAN
        /\ bad => bad'
        /\ bad' => file' = file /\ buffer' = buffer
        /\ ~bad' => file' \o buffer' = s \o <<x>>
    <3> HIDE DEF x
    <3> QED BY <1>0, <2>1, <2>2, InsertStream
  <2> HIDE DEF x, y
  <2>4. TypeOK'
    BY <2>1, <2>2, <2>3 DEF LogInv, TypeOK, Lines
  <2>5. Control' /\ Emptied' /\ Lag'
    BY <1>9, <2>2 DEF LogInv, Control, Emptied, Lag, DrainOne
  <2>6. ASSUME ~bad' PROVE (file' \o buffer') \o y = written
    <3>1. s \o queue = written
      BY <1>a, <2>2, <2>3, <2>6 DEF LogInv, EveryLineSomewhere
    <3>2. s \o (<<x>> \o y) = (s \o <<x>>) \o y
      <4>1. s \in Lines
        BY <1>0
      <4> HIDE DEF s
      <4>2. <<x>> \in Lines /\ y \in Lines
        BY <2>1 DEF Lines
      <4>3. (s \o <<x>>) \o y = s \o (<<x>> \o y)
        BY <4>1, <4>2, Associative, Zenon
      <4> QED BY <4>3, Zenon
    <3> QED BY <2>1, <2>3, <2>6, <3>1, <3>2
  <2>7. EveryLineSomewhere'
    <3> SUFFICES ASSUME ~bad' PROVE (file' \o buffer') \o << >> \o y = written
      BY <2>2 DEF EveryLineSomewhere
    <3>1. (file' \o buffer') \o << >> = file' \o buffer'
      BY <2>3, ConcatProperties, ConcatEmptySeq DEF Lines
    <3> QED BY <2>6, <3>1
  <2>8. StreamIsPrefix'
    <3>1. CASE bad'
      <4>1. file' = file /\ buffer' = buffer /\ written' = written
        BY <2>2, <2>3, <3>1
      <4> QED BY <4>1 DEF LogInv, StreamIsPrefix
    <3>2. CASE ~bad'
      BY <2>1, <2>2, <2>6, <3>2 DEF StreamIsPrefix, Lines
    <3> QED BY <3>1, <3>2
  <2> QED BY <2>4, <2>5, <2>7, <2>8 DEF LogInv
<1>10. CASE DrainEnd
  <2>1. Flush /\ UNCHANGED <<line, queue, written>>
    BY <1>10 DEF DrainEnd
  <2>2. /\ file' \in Lines /\ buffer' \in Lines /\ bad' \in BOOLEAN
        /\ EveryLineSomewhere' /\ StreamIsPrefix'
    BY <1>d, <2>1
  <2>3. ~bad' => buffer' = << >>
    BY <1>0, <2>1, FlushStream
  <2>4. TypeOK'
    BY <1>10, <2>2 DEF LogInv, TypeOK, DrainEnd, Lines
  <2>5. Control' /\ Emptied' /\ Lag'
    BY <1>10, <2>3 DEF LogInv, Control, Emptied, Lag, DrainEnd
  <2> QED BY <2>2, <2>4, <2>5 DEF LogInv
<1>11. CASE Stop
  <2>1. TypeOK' /\ Lag'
    BY <1>11 DEF LogInv, TypeOK, Lag, Stop
  <2>2. Control' /\ Emptied'
    BY <1>11 DEF LogInv, Control, Emptied, Stop
  <2> QED BY <1>11, <1>c, <2>1, <2>2 DEF LogInv, Stop
<1>12. CASE JoinAndClose
  <2>1. Close /\ UNCHANGED <<line, queue, written>>
    BY <1>12 DEF JoinAndClose
  <2>2. /\ file' \in Lines /\ buffer' \in Lines /\ bad' \in BOOLEAN
        /\ EveryLineSomewhere' /\ StreamIsPrefix'
    BY <1>d, <2>1
  <2>3. ~bad' => buffer' = << >>
    BY <1>0, <2>1, FlushStream
  <2>4. TypeOK'
    BY <1>12, <2>2 DEF LogInv, TypeOK, JoinAndClose, Lines
  <2>5. Control' /\ Emptied' /\ Lag'
    BY <1>12, <2>3 DEF LogInv, Control, Emptied, Lag, JoinAndClose
  <2> QED BY <2>2, <2>4, <2>5 DEF LogInv
<1>13. CASE UNCHANGED vars
  BY <1>13 DEF vars, LogInv, TypeOK, Control, Emptied, Lag, EveryLineSomewhere,
              StreamIsPrefix
<1> QED
  BY <1>1, <1>2, <1>3, <1>4, <1>5, <1>6, <1>7, <1>8, <1>9, <1>10, <1>11,
     <1>12, <1>13 DEF Next, Writer, Owner, Ended

LEMMA LogInvariant == Spec => []LogInv
BY LogInvInit, LogInvStep, PTL DEF Spec

\* The queue, the stream and the file together always hold every line passed
\* to write(), until an I/O error.
THEOREM NoLineLost == Spec => []EveryLineSomewhere
<1>1. LogInv => EveryLineSomewhere
  BY DEF LogInv
<1> QED BY <1>1, LogInvariant, PTL

\* Whenever the process dies, the file holds the first lines and no others.
THEOREM FileAlwaysPrefix == Spec => []FileIsPrefix
<1>1. LogInv => FileIsPrefix
  <2> SUFFICES ASSUME LogInv PROVE FileIsPrefix
    OBVIOUS
  <2>1. file \in Seq(Nat) /\ buffer \in Seq(Nat)
    BY DEF LogInv, TypeOK
  <2>2. PICK r \in Seq(Nat) : (file \o buffer) \o r = written
    BY DEF LogInv, StreamIsPrefix
  <2> DEFINE t == buffer \o r
  <2>3. t \in Seq(Nat)
    BY <2>1, ConcatProperties
  <2>4. file \o t = written
    <3>1. \A x, y, z \in Seq(Nat) : (x \o y) \o z = x \o (y \o z)
      BY ConcatAssociative, SMTT(20)
    <3>2. (file \o buffer) \o r = file \o (buffer \o r)
      BY <2>1, <3>1, Zenon
    <3> QED BY <2>2, <3>2
  <2> HIDE DEF t
  <2>5. /\ Len(file) \in Nat /\ Len(t) \in Nat
        /\ Len(written) = Len(file) + Len(t)
    BY <2>1, <2>3, <2>4, ConcatProperties, LenProperties
  <2>6. CASE Len(file) = 0
    <3>1. file = << >>
      BY <2>1, <2>6, EmptySeq
    <3>2. SubSeq(written, 1, Len(file)) = << >>
      BY <2>6, SubSeqEmpty
    <3> QED BY <2>5, <3>1, <3>2 DEF FileIsPrefix
  <2>7. CASE Len(file) > 0
    <3>1. 1 \in 1..Len(file) /\ Len(file) \in 1..Len(file)
      BY <2>5, <2>7
    <3>2. SubSeq(file \o t, 1, Len(file)) = SubSeq(file, 1, Len(file))
      BY <2>1, <2>3, <3>1, SubSeqOfConcat1
    <3>3. SubSeq(file, 1, Len(file)) = file
      BY <2>1, SubSeqFull
    <3> QED BY <2>4, <2>5, <3>2, <3>3 DEF FileIsPrefix
  <2> QED BY <2>5, <2>6, <2>7
<1> QED BY <1>1, LogInvariant, PTL

\* The destructor leaves no line behind, unless an I/O error occurred.
THEOREM FileCompleteAtClose == Spec => []CompleteAtClose
<1>1. LogInv => CompleteAtClose
  <2> SUFFICES ASSUME LogInv, owner = "closed", ~bad PROVE file = written
    BY DEF CompleteAtClose
  <2>1. pc = "done"
    BY DEF LogInv, Control
  <2>2. queue = << >> /\ buffer = << >> /\ line = << >>
    BY <2>1 DEF LogInv, Emptied, TypeOK
  <2>3. file \o << >> \o << >> \o << >> = written
    BY <2>2 DEF LogInv, EveryLineSomewhere
  <2>4. file \o << >> = file
    BY ConcatEmptySeq DEF LogInv, TypeOK
  <2> QED BY <2>3, <2>4
<1> QED BY <1>1, LogInvariant, PTL

\* What the loop inserted is in the file or the stream; once the drain adds to
\* it, the file holds all but the last group.
Counted ==
  ~bad =>
    /\ pc \in {"loop", "take", "insert", "exit"} =>
         Len(file) + Len(buffer) = write_count
    /\ pc = "count" => Len(file) + Len(buffer) = write_count + 1
    /\ pc = "drain" => write_count - Len(file) < FlushEvery

LEMMA Lengths ==
  ASSUME NEW x \in Lines, NEW y \in Lines
  PROVE  Len(x \o y) = Len(x) + Len(y) /\ Len(x) \in Nat /\ Len(y) \in Nat
BY ConcatProperties, LenProperties DEF Lines

LEMMA CountedStep == LogInv /\ Counted /\ [Next]_vars => Counted'
<1> SUFFICES ASSUME LogInv, Counted, [Next]_vars, ~bad' PROVE Counted'
  BY DEF Counted
<1> USE DEF stream, callers
<1>0. /\ file \in Lines /\ buffer \in Lines /\ queue \in Lines
      /\ bad \in BOOLEAN /\ write_count \in Nat
      /\ Len(file) \in Nat /\ Len(buffer) \in Nat
  BY LenProperties DEF LogInv, TypeOK, Lines
\* A line inserted makes the file and the stream one longer, a flush does not.
<1>1. ASSUME NEW l \in Nat, Insert(l)
      PROVE  /\ ~bad /\ Len(file') + Len(buffer') = Len(file) + Len(buffer) + 1
             /\ Len(file') >= Len(file) /\ Len(file') \in Nat
  <2>1. /\ file' \in Lines /\ buffer' \in Lines /\ ~bad /\ Len(file') >= Len(file)
        /\ file' \o buffer' = (file \o buffer) \o <<l>>
    BY <1>0, <1>1, InsertStream
  <2>2. <<l>> \in Lines /\ Len(<<l>>) = 1 /\ file \o buffer \in Lines
    BY <1>0, ConcatLines DEF Lines
  <2>3. Len(file' \o buffer') = Len(file) + Len(buffer) + 1
    BY <1>0, <2>1, <2>2, Lengths
  <2>4. Len(file' \o buffer') = Len(file') + Len(buffer') /\ Len(file') \in Nat
    BY <2>1, Lengths
  <2> QED BY <2>1, <2>3, <2>4
<1>2. ASSUME Flush
      PROVE  ~bad /\ Len(file') + Len(buffer') = Len(file) + Len(buffer)
  <2>1. /\ file' \in Lines /\ buffer' \in Lines /\ ~bad
        /\ file' \o buffer' = file \o buffer
    BY <1>0, <1>2, FlushStream
  <2> QED BY <1>0, <2>1, Lengths
<1>3. CASE write \/ CorrReturns \/ Loop \/ TakeNothing \/ Take \/ Stop \/ UNCHANGED vars
  BY <1>3 DEF Counted, write, CorrReturns, Loop, TakeNothing, Take, Stop, vars
<1>4. CASE Write
  <2>1. line[1] \in Nat /\ Insert(line[1])
    BY <1>4 DEF Write, LogInv, TypeOK
  <2>2. ~bad /\ Len(file') + Len(buffer') = Len(file) + Len(buffer) + 1
    BY <1>1, <2>1
  <2> QED BY <1>4, <2>2 DEF Counted, Write
<1>5. CASE Count
  <2>1. ~bad /\ Len(file') + Len(buffer') = Len(file) + Len(buffer)
    BY <1>2, <1>5 DEF Count
  <2> QED BY <1>5, <2>1 DEF Counted, Count
<1>6. CASE DrainLock
  <2>1. ~bad /\ UNCHANGED <<file, buffer, write_count>> /\ pc' = "drain" /\ pc = "exit"
    BY <1>6 DEF DrainLock
  <2>2. Len(buffer) <= write_count % FlushEvery /\ Len(file) + Len(buffer) = write_count
    BY <2>1 DEF LogInv, Lag, Counted
  <2>3. write_count % FlushEvery < FlushEvery /\ write_count % FlushEvery \in Nat
    BY <1>0
  <2>4. write_count - Len(file) < FlushEvery
    BY <1>0, <2>2, <2>3
  <2> QED BY <2>1, <2>4 DEF Counted
<1>7. CASE DrainOne
  <2>1. Head(queue) \in Nat /\ Insert(Head(queue))
    BY <1>0, <1>7, HeadTailProperties DEF DrainOne, Lines
  <2>2. ~bad /\ Len(file') >= Len(file) /\ Len(file') \in Nat
    BY <1>1, <2>1
  <2>3. write_count' = write_count /\ pc = "drain" /\ pc' = "drain"
    BY <1>7 DEF DrainOne
  <2>4. write_count - Len(file) < FlushEvery
    BY <2>2, <2>3 DEF Counted
  <2> QED BY <1>0, <2>2, <2>3, <2>4 DEF Counted
<1>8. CASE DrainEnd \/ JoinAndClose
  BY <1>8 DEF DrainEnd, JoinAndClose, Counted
<1> QED BY <1>3, <1>4, <1>5, <1>6, <1>7, <1>8 DEF Next, Writer, Owner, Ended

\* Until an I/O error, of the lines that left the queue a crash loses at most
\* FlushEvery in the loop; in the drain those it inserted and fewer than
\* FlushEvery others; after it none.
THEOREM CrashLossBounded == Spec => []LossBounded
<1>1. Init => Counted
  BY EmptySeq DEF Init, Counted
<1>2. LogInv /\ Counted => LossBounded
  <2> SUFFICES ASSUME LogInv, Counted, ~bad PROVE LossBounded
    BY DEF LossBounded
  <2>0. /\ file \in Lines /\ buffer \in Lines /\ queue \in Lines
        /\ << >> \in Lines /\ write_count \in Nat
    BY NoLine DEF LogInv, TypeOK, Lines
  <2>1. /\ pc = "insert" => line \in Lines /\ Len(line) = 1
        /\ pc # "insert" => line \in Lines /\ Len(line) = 0
    <3>1. CASE pc = "insert"
      <4>1. line \in [1..1 -> Nat]
        BY <3>1 DEF LogInv, TypeOK
      <4>2. line = <<line[1]>> /\ line[1] \in Nat
        BY <4>1
      <4>3. \A l \in Nat : <<l>> \in Lines /\ Len(<<l>>) = 1
        BY DEF Lines
      <4>4. line \in Lines /\ Len(line) = 1
        BY <4>2, <4>3, Zenon
      <4> QED BY <3>1, <4>4
    <3>2. CASE pc # "insert"
      BY <2>0, <3>2, EmptySeq DEF LogInv, TypeOK
    <3> QED BY <3>1, <3>2
  <2>2. Len(written) = Len(file) + Len(buffer) + Len(line) + Len(queue)
    <3> DEFINE s == file \o buffer
               t == s \o line
    <3>1. s \in Lines /\ Len(s) = Len(file) + Len(buffer)
      BY <2>0, ConcatLines, Lengths
    <3> HIDE DEF s
    <3>2. t \in Lines /\ Len(t) = Len(s) + Len(line)
      BY <2>1, <3>1, ConcatLines, Lengths
    <3> HIDE DEF t
    <3>3. Len(t \o queue) = Len(t) + Len(queue)
      BY <2>0, <3>2, Lengths
    <3>4. t \o queue = written
      BY DEF LogInv, EveryLineSomewhere, s, t
    <3> QED BY <3>1, <3>2, <3>3, <3>4
  <2>3. /\ Len(file) \in Nat /\ Len(buffer) \in Nat /\ Len(line) \in Nat /\ Len(queue) \in Nat
        /\ write_count % FlushEvery \in 0..FlushEvery - 1
    BY <2>0, <2>1, Lengths
  <2>4. ASSUME pc \notin {"drain", "done"}
        PROVE  Len(written) - Len(queue) - Len(file) <= FlushEvery
    <3>1. pc \in {"loop", "take", "insert", "count", "exit"}
      BY <2>4 DEF LogInv, TypeOK
    <3> DEFINE k == write_count % FlushEvery
    <3>2. /\ pc # "count" => Len(buffer) <= k
          /\ pc = "count" => Len(buffer) <= k + 1
      BY <3>1 DEF LogInv, Lag
    <3> HIDE DEF k
    <3>3. k \in 0..FlushEvery - 1
      BY <2>3 DEF k
    <3>4. Len(buffer) + Len(line) <= FlushEvery
      <4>1. \/ Len(buffer) <= k /\ Len(line) \in {0, 1}
            \/ Len(buffer) <= k + 1 /\ Len(line) = 0
        <5>1. CASE pc = "insert"
          BY <2>1, <3>2, <5>1
        <5>2. CASE pc = "count"
          BY <2>1, <3>2, <5>2
        <5>3. CASE pc \notin {"insert", "count"}
          BY <2>1, <3>2, <5>3
        <5> QED BY <5>1, <5>2, <5>3
      <4>2. \A a, b \in Nat, f \in Nat : \A c \in 0..f - 1 :
              (a <= c /\ b \in {0, 1}) \/ (a <= c + 1 /\ b = 0) => a + b <= f
        OBVIOUS
      <4> QED BY <2>3, <3>3, <4>1, <4>2
    <3> QED BY <2>2, <2>3, <3>4
  <2>5. ASSUME pc = "done" PROVE file = written
    <3>1. queue = << >> /\ buffer = << >> /\ line = << >>
      BY <2>5 DEF LogInv, Emptied, TypeOK
    <3>2. file \o << >> \o << >> \o << >> = written
      BY <3>1 DEF LogInv, EveryLineSomewhere
    <3> QED BY <2>0, <3>2, NoLine
  <2>6. pc = "drain" => write_count - Len(file) < FlushEvery
    BY DEF Counted
  <2> QED BY <2>4, <2>5, <2>6 DEF LossBounded
<1> QED BY <1>1, <1>2, CountedStep, LogInvariant, PTL DEF Spec

\* The correlator thread never finds the mutex held across file I/O.
THEOREM WriteNeverBlocks == Spec => []WriteNeverWaits
<1>1. LogInv => WriteNeverWaits
  BY DEF LogInv, Control, WriteNeverWaits
<1> QED BY <1>1, LogInvariant, PTL
=============================================================================
