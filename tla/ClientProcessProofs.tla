------------------------- MODULE ClientProcessProofs -------------------------
(***************************************************************************)
(* Proofs about the client process and what it publishes, for every list   *)
(* of arguments, every number of trading pairs and of messages, and every  *)
(* limit of the queues; and about the plain client, for any number of      *)
(* signals and messages.                                                   *)
(***************************************************************************)
EXTENDS ClientProcess, NormalClient, SequenceTheorems, TLAPS

-----------------------------------------------------------------------------
(* Threads and resources *)

\* Before and after the threads: main has not started the correlator thread,
\* or has waited for it; the same for the thread that stops the event loop.
BeforeCorr == {"log", "symbols", "queue", "zmq", "connect", "start_shutdown", "start_corr"}
WithCorr == {"run", "clear", "join_corr"}
AfterCorr == {"join_shutdown", "close_log", "cleanup"}

\* The two threads exist exactly between their start and their join, which a
\* failure of start-up never reaches.
Threads ==
  /\ main \in BeforeCorr \cup WithCorr \cup AfterCorr \cup {"exited"}
  /\ main \in BeforeCorr => corr = "none"
  /\ main \in AfterCorr => corr = "done"
  /\ main \in BeforeCorr \ {"start_corr"} => shutdown = "none"
  /\ main \in {"close_log", "cleanup"} => shutdown = "done"
  /\ AllJoinedAtExit

\* What the threads use is made before them and released after them.
Resources ==
  /\ main \in {"zmq", "connect", "start_shutdown", "start_corr"} \cup WithCorr \cup AfterCorr
       => mapped
  /\ main \in BeforeCorr \cup WithCorr => logging # "destroyed"

ProcessInv == Threads /\ Resources

LEMMA ProcessInvInit == Init => ProcessInv
BY DEF Init, ProcessInv, Threads, Resources, BeforeCorr, WithCorr, AfterCorr, AllJoinedAtExit

LEMMA ProcessInvStep == ProcessInv /\ [Next]_vars => ProcessInv'
<1> SUFFICES ASSUME ProcessInv, [Next]_vars PROVE ProcessInv'
  OBVIOUS
<1> USE DEF ProcessInv, Threads, Resources, BeforeCorr, WithCorr, AfterCorr, AllJoinedAtExit,
            setup, loop, resources
<1>1. CASE signal_handler \/ PeerCloses \/ CapturePush \/ OpenHandler \/ HandleMessage
  BY <1>1 DEF signal_handler, PeerCloses, CapturePush, OpenHandler, HandleMessage
<1>2. CASE CreateLog
  BY <1>2 DEF CreateLog
<1>3. CASE FetchSymbols
  BY <1>3 DEF FetchSymbols
<1>4. CASE CreateQueue
  BY <1>4 DEF CreateQueue, Fail
<1>5. CASE BindZmq
  BY <1>5 DEF BindZmq, Fail
<1>6. CASE Connect
  BY <1>6 DEF Connect, Fail
<1>7. CASE StartShutdown
  BY <1>7 DEF StartShutdown
<1>8. CASE StartCorr
  BY <1>8 DEF StartCorr
<1>9. CASE RunReturns
  BY <1>9 DEF RunReturns
<1>10. CASE ClearRunning
  BY <1>10 DEF ClearRunning
<1>11. CASE JoinCorr
  BY <1>11 DEF JoinCorr, CorrEnded
<1>12. CASE JoinShutdown
  BY <1>12 DEF JoinShutdown
<1>13. CASE CloseLog
  BY <1>13 DEF CloseLog
<1>14. CASE Cleanup
  BY <1>14 DEF Cleanup
<1>15. CASE Shutdown
  BY <1>15 DEF Shutdown, ShutdownClose, ShutdownStop
<1>16. CASE Corr
  BY <1>16 DEF Corr, CorrPop, CorrLeave, CorrFinalPass
<1>17. CASE Ended \/ UNCHANGED vars
  BY <1>17 DEF Ended, vars
<1> QED
  BY <1>1, <1>2, <1>3, <1>4, <1>5, <1>6, <1>7, <1>8, <1>9, <1>10, <1>11, <1>12, <1>13,
     <1>14, <1>15, <1>16, <1>17 DEF Next, Process, Main

LEMMA ProcessInvariant == Spec => []ProcessInv
BY ProcessInvInit, ProcessInvStep, PTL DEF Spec

\* Publishing and subscribing change nothing of the life of the process: with
\* them it is still what WsClient describes.
THEOREM ImplementsWsClient == CSpec => Spec
<1>1. CInit => Init
  BY DEF CInit
<1>2. [CNext]_cvars => [Next]_vars
  BY DEF CNext, cvars, MessageHandler, Next
<1> QED
  BY <1>1, <1>2, PTL DEF CSpec, Spec

\* Whatever fails, whenever a signal comes or the connection is lost, main
\* returns with both threads joined or never started.
THEOREM ThreadsJoined == CSpec => []AllJoinedAtExit
<1>1. ProcessInv => AllJoinedAtExit
  BY DEF ProcessInv, Threads
<1> QED
  BY <1>1, ProcessInvariant, ImplementsWsClient, PTL

\* The queue is mapped while the event loop or the correlator thread runs, and
\* the log writer outlives the correlator's last pass.
THEOREM ReleasedAfterUse == CSpec => []NoUseAfterRelease
<1>1. ProcessInv => NoUseAfterRelease
  BY DEF ProcessInv, Threads, Resources, NoUseAfterRelease, AllJoinedAtExit,
         BeforeCorr, WithCorr, AfterCorr
<1> QED
  BY <1>1, ProcessInvariant, ImplementsWsClient, PTL

-----------------------------------------------------------------------------
(* Frames *)

Frames == [kind : {"none", "topic", "body"}, of : Nat]

\* s[2k - 1], s[2k] are the two frames of a message, for every k.
IsPair(t, b) == t.kind = "topic" /\ b = Body(t.of)
Paired(s) ==
  \E n \in Nat : Len(s) = 2 * n /\ \A k \in 1..n : IsPair(s[2 * k - 1], s[2 * k])

\* What the subscriber has yet to display: the frame it holds and the pipe
Stream == IF topic = None THEN pipe ELSE <<topic>> \o pipe

ZmqType ==
  /\ handled \in Nat /\ cuts \in Nat
  /\ unfinished \in Seq(Frames) /\ pipe \in Seq(Frames) /\ topic \in Frames

\* As long as no topic has come without its body, the subscriber is in step.
ZmqInv == ZmqType /\ (cuts = 0 => Paired(Stream) /\ Matches(shown))

LEMMA FramesOf == ASSUME NEW m \in Nat PROVE Topic(m) \in Frames /\ Body(m) \in Frames
BY DEF Frames, Topic, Body

LEMMA ShiftConcat ==
  ASSUME NEW t \in Frames, NEW s \in Seq(Frames), NEW u \in Seq(Frames)
  PROVE  <<t>> \o (s \o u) = (<<t>> \o s) \o u
<1>1. <<t>> \in Seq(Frames)
  OBVIOUS
<1> QED BY <1>1, ConcatAssociative

LEMMA PairedAppend ==
  ASSUME NEW s \in Seq(Frames), NEW m \in Nat, Paired(s)
  PROVE  Paired(s \o <<Topic(m), Body(m)>>)
<1> DEFINE r == s \o <<Topic(m), Body(m)>>
<1>1. PICK n \in Nat : Len(s) = 2 * n /\ \A k \in 1..n : IsPair(s[2 * k - 1], s[2 * k])
  BY DEF Paired
<1>2. Len(r) = 2 * (n + 1)
  BY <1>1, FramesOf
<1>3. ASSUME NEW k \in 1..n + 1 PROVE IsPair(r[2 * k - 1], r[2 * k])
  <2>1. CASE k \in 1..n
    <3>1. r[2 * k - 1] = s[2 * k - 1] /\ r[2 * k] = s[2 * k]
      BY <1>1, <2>1, FramesOf
    <3> QED BY <1>1, <2>1, <3>1
  <2>2. CASE k = n + 1
    <3>1. r[2 * k - 1] = Topic(m) /\ r[2 * k] = Body(m)
      BY <1>1, <2>2, FramesOf
    <3>2. IsPair(Topic(m), Body(m))
      BY DEF IsPair, Topic
    <3> HIDE DEF r
    <3> QED BY <3>1, <3>2
  <2>3. k \in 1..n \/ k = n + 1
    BY <1>3
  <2> HIDE DEF r
  <2> QED BY <2>1, <2>2, <2>3
<1>4. n + 1 \in Nat
  OBVIOUS
<1> HIDE DEF r
<1>5. Paired(r)
  BY <1>2, <1>3, <1>4 DEF Paired
<1> QED BY <1>5 DEF r

\* After two frames the rest is paired again.
LEMMA PairedRest ==
  ASSUME NEW t \in Frames, NEW s \in Seq(Frames), s # << >>, Paired(<<t>> \o s)
  PROVE  IsPair(t, Head(s)) /\ Paired(Tail(s))
<1> DEFINE r == <<t>> \o s
<1>1. PICK n \in Nat : Len(r) = 2 * n /\ \A k \in 1..n : IsPair(r[2 * k - 1], r[2 * k])
  BY DEF Paired
<1>2. Len(r) = Len(s) + 1 /\ Len(s) >= 1 /\ n >= 1 /\ n - 1 \in Nat
  BY <1>1
<1>3. r[1] = t /\ r[2] = Head(s)
  BY <1>2
<1>4. IsPair(t, Head(s))
  <2> HIDE DEF r
  <2>1. IsPair(r[2 * 1 - 1], r[2 * 1])
    BY <1>1, <1>2
  <2>2. 2 * 1 - 1 = 1 /\ 2 * 1 = 2
    OBVIOUS
  <2> QED BY <1>3, <2>1, <2>2
<1>5. Len(Tail(s)) = 2 * (n - 1)
  BY <1>1, <1>2
<1>6. ASSUME NEW k \in 1..n - 1 PROVE IsPair(Tail(s)[2 * k - 1], Tail(s)[2 * k])
  <2>1. Tail(s)[2 * k - 1] = r[2 * (k + 1) - 1] /\ Tail(s)[2 * k] = r[2 * (k + 1)]
    BY <1>1, <1>2, <1>5
  <2>2. k + 1 \in 1..n
    BY <1>2
  <2> QED BY <1>1, <2>1, <2>2
<1> QED BY <1>2, <1>4, <1>5, <1>6 DEF Paired

LEMMA ZmqInvInit == ZmqInit => ZmqInv
<1> SUFFICES ASSUME ZmqInit PROVE ZmqInv
  OBVIOUS
<1>1. ZmqType
  BY DEF ZmqInit, ZmqType, Frames, None
<1>2. Paired(Stream)
  BY DEF ZmqInit, Paired, Stream
<1>3. Matches(shown)
  BY DEF ZmqInit, Matches, Topic, Body
<1> QED BY <1>1, <1>2, <1>3 DEF ZmqInv

LEMMA ZmqInvStep ==
  ASSUME ZmqInv, Publication \/ Subscriber \/ UNCHANGED zmq
  PROVE  ZmqInv'
<1>1. CASE Publish
  <2> DEFINE m == handled'
  <2>1. m \in Nat /\ Topic(m) \in Frames /\ Body(m) \in Frames
    BY <1>1, FramesOf DEF ZmqInv, ZmqType, Publish, Handling
  <2>2. topic' = topic /\ shown' = shown /\ unfinished' = << >>
    BY <1>1 DEF Publish, Handling, SendBoth
  <2>3. CASE UNCHANGED <<pipe, cuts>>
    BY <2>1, <2>2, <2>3 DEF ZmqInv, ZmqType, Stream, Matches
  <2>4. CASE /\ pipe' = pipe \o (unfinished \o <<Topic(m), Body(m)>>)
             /\ cuts' = cuts + Len(unfinished \o <<Topic(m), Body(m)>>) - 2
    <3>1. cuts' = cuts + Len(unfinished) /\ pipe' \in Seq(Frames)
      BY <2>1, <2>4 DEF ZmqInv, ZmqType
    <3>2. ZmqType'
      BY <2>1, <2>2, <3>1 DEF ZmqInv, ZmqType
    <3>3. ASSUME cuts' = 0 PROVE Paired(Stream') /\ Matches(shown')
      <4>1. cuts = 0 /\ unfinished = << >>
        BY <3>1, <3>3, EmptySeq DEF ZmqInv, ZmqType
      <4>2. unfinished \o <<Topic(m), Body(m)>> = <<Topic(m), Body(m)>>
        BY <4>1, <2>1
      <4>3. Stream' = Stream \o <<Topic(m), Body(m)>> /\ Stream \in Seq(Frames)
        <5> DEFINE w == <<Topic(m), Body(m)>>
        <5>1. w \in Seq(Frames)
          BY <2>1
        <5>2. pipe \in Seq(Frames) /\ topic \in Frames
          BY DEF ZmqInv, ZmqType
        <5>3. unfinished \o w = w /\ pipe' = pipe \o (unfinished \o w)
          BY <2>4, <4>2
        <5> HIDE DEF w, m
        <5>4. pipe' = pipe \o w
          BY <5>3, Zenon
        <5>5. <<topic>> \o pipe' = (<<topic>> \o pipe) \o w
          BY <5>1, <5>2, <5>4, ShiftConcat
        <5>6. Stream' = Stream \o w /\ Stream \in Seq(Frames)
          BY <2>2, <5>2, <5>4, <5>5, SMTT(20) DEF Stream
        <5> QED BY <5>6 DEF w
      <4>4. Paired(Stream) /\ Matches(shown)
        BY <4>1 DEF ZmqInv
      <4>5. Paired(Stream')
        BY <4>3, <4>4, <2>1, PairedAppend
      <4> QED BY <4>4, <4>5, <2>2
    <3> QED BY <3>2, <3>3 DEF ZmqInv
  <2> QED BY <1>1, <2>3, <2>4 DEF Publish, SendBoth, Deliver
<1>2. CASE BodyFails
  <2>1. Topic(handled') \in Frames
    BY <1>2, FramesOf DEF ZmqInv, ZmqType, BodyFails, Handling
  <2>2. ZmqType'
    BY <1>2, <2>1 DEF ZmqInv, ZmqType, BodyFails, Handling
  <2>3. Stream' = Stream /\ shown' = shown /\ cuts' = cuts
    BY <1>2 DEF BodyFails, Handling, Stream
  <2> QED BY <2>2, <2>3 DEF ZmqInv
<1>3. CASE NothingSent
  <2>1. ZmqType'
    BY <1>3 DEF ZmqInv, ZmqType, NothingSent, Handling
  <2>2. Stream' = Stream /\ shown' = shown /\ cuts' = cuts
    BY <1>3 DEF NothingSent, Handling, Stream
  <2> QED BY <2>1, <2>2 DEF ZmqInv
<1>4. CASE RecvTopic
  <2>1. ZmqType'
    BY <1>4 DEF ZmqInv, ZmqType, RecvTopic
  <2>2. ASSUME cuts' = 0 PROVE Paired(Stream') /\ Matches(shown')
    <3>1. cuts = 0 /\ topic = None /\ pipe # << >> /\ topic' = Head(pipe) /\ pipe' = Tail(pipe)
      BY <1>4, <2>2 DEF RecvTopic
    <3>2. Paired(pipe) /\ Matches(shown)
      BY <3>1 DEF ZmqInv, Stream
    <3>3. Head(pipe) = pipe[1] /\ pipe = <<Head(pipe)>> \o Tail(pipe) /\ Len(pipe) >= 1
      BY <3>1 DEF ZmqInv, ZmqType
    <3>4. Head(pipe).kind = "topic"
      BY <3>2, <3>3 DEF Paired, IsPair
    <3>5. Stream' = pipe
      <4>1. topic' # None
        BY <3>1, <3>4 DEF None
      <4> QED BY <3>1, <3>3, <4>1 DEF Stream
    <3> QED BY <3>2, <3>5, <1>4 DEF RecvTopic
  <2> QED BY <2>1, <2>2 DEF ZmqInv
<1>5. CASE RecvBody
  <2>1. ZmqType'
    BY <1>5 DEF ZmqInv, ZmqType, RecvBody, None, Frames
  <2>2. ASSUME cuts' = 0 PROVE Paired(Stream') /\ Matches(shown')
    <3>1. /\ cuts = 0 /\ topic # None /\ pipe # << >> /\ topic' = None /\ pipe' = Tail(pipe)
          /\ shown' = [topic |-> topic, body |-> Head(pipe)]
      BY <1>5, <2>2 DEF RecvBody
    <3>2. Paired(<<topic>> \o pipe)
      BY <3>1 DEF ZmqInv, Stream
    <3>3. IsPair(topic, Head(pipe)) /\ Paired(Tail(pipe))
      BY <3>1, <3>2, PairedRest DEF ZmqInv, ZmqType
    <3> QED BY <3>1, <3>3 DEF Stream, Matches, IsPair
  <2> QED BY <2>1, <2>2 DEF ZmqInv
<1>6. CASE Restart
  <2>1. ZmqType'
    BY <1>6 DEF ZmqInv, ZmqType, Restart, None, Frames
  <2>2. Stream' = << >> /\ Paired(Stream')
    BY <1>6 DEF Restart, Stream, Paired
  <2>3. Matches(shown')
    BY <1>6 DEF Restart, Matches, Topic, Body
  <2> QED BY <2>1, <2>2, <2>3 DEF ZmqInv
<1>7. CASE UNCHANGED zmq
  BY <1>7 DEF zmq, ZmqInv, ZmqType, Stream
<1> QED
  BY <1>1, <1>2, <1>3, <1>4, <1>5, <1>6, <1>7 DEF Publication, Subscriber

\* However slow, late or often restarted a subscriber is, it never displays a
\* topic with the body of another message, unless it was sent a topic whose
\* body the client failed to send.
THEOREM NeverMixedUp == CSpec => []PairsMatchUnlessCut
<1>1. CInit => ZmqInv
  BY ZmqInvInit DEF CInit
<1>2. ZmqInv /\ [CNext]_cvars => ZmqInv'
  BY ZmqInvStep DEF CNext, cvars, MessageHandler
<1>3. ZmqInv => PairsMatchUnlessCut
  BY DEF ZmqInv, PairsMatchUnlessCut
<1> QED
  BY <1>1, <1>2, <1>3, PTL DEF CSpec

-----------------------------------------------------------------------------
(* The plain client, a process of its own *)

\* The event loop is stopped by a signal only, a connection that was closed has
\* left the nested run() behind, and there is none before connect.
PlainInv ==
  /\ io_stopped => heard
  /\ conn = "closed" => nested
  /\ place \in {"main", "construct", "connect"} => conn = "none"
  /\ ConnectedEndsOnlyBySignal

LEMMA PlainInvStep == PlainInv /\ [NNext]_nvars => PlainInv'
<1> SUFFICES ASSUME PlainInv, [NNext]_nvars PROVE PlainInv'
  OBVIOUS
<1> USE DEF PlainInv, ConnectedEndsOnlyBySignal
<1>1. CASE sigint_handler
  BY <1>1 DEF sigint_handler, StopClient, HasIoService, Over
<1>2. CASE SetPointer \/ Construct \/ MessageEnds
  BY <1>2 DEF SetPointer, Construct, MessageEnds, flags, counts
<1>3. CASE connect
  BY <1>3 DEF connect, flags, counts
<1>4. CASE LoopEnds
  BY <1>4 DEF LoopEnds, flags, counts
<1>5. CASE Opens
  BY <1>5 DEF Opens, Serving, flags, counts
<1>6. CASE on_close
  BY <1>6 DEF on_close, PostRun, Serving, flags, counts
<1>7. CASE MessageBegins \/ MessageAborts
  BY <1>7 DEF MessageBegins, MessageAborts, Serving, flags
<1>8. CASE Done \/ Waits \/ UNCHANGED nvars
  BY <1>8 DEF Done, Waits, nvars
<1> QED BY <1>1, <1>2, <1>3, <1>4, <1>5, <1>6, <1>7, <1>8 DEF NNext, Thread

\* The plain client, connected once, ends short of a crash only by a signal that
\* found it set up: the run() nested in run() keeps it waiting when the
\* connection is gone.  This holds for any number of signals and messages.
THEOREM PlainEndsOnlyBySignal == NSpec => []ConnectedEndsOnlyBySignal
<1>1. NInit => PlainInv
  BY DEF NInit, PlainInv, ConnectedEndsOnlyBySignal
<1>2. PlainInv => ConnectedEndsOnlyBySignal
  BY DEF PlainInv
<1> QED BY <1>1, <1>2, PlainInvStep, PTL DEF NSpec
=============================================================================
