----------------------------- MODULE ZmqPublisher -----------------------------
(***************************************************************************)
(* What the message handler of ws_client.cpp publishes over ZeroMQ and     *)
(* what zmq_subscriber_test.cpp makes of it.  A message is two frames, its *)
(* topic and its body.  ZeroMQ delivers the frames sent up to one without  *)
(* sndmore as a whole or, when a subscriber is slow or not there, not at   *)
(* all; frames that still wait for more stay in the socket.  The           *)
(* subscriber takes frames two by two.  A message is its number.           *)
(* ClientProcess puts the publication in the life of the client.           *)
(***************************************************************************)
EXTENDS Integers, Sequences

CONSTANTS HighWaterMark,  \* frames a subscriber may have waiting
          MaxMessages,    \* bounds of the model: messages handled,
          MaxRestarts     \*   restarts of the subscriber

ASSUME ZmqAssumption == {HighWaterMark, MaxMessages, MaxRestarts} \subseteq Nat

VARIABLES
  handled,     \* messages the handler has seen
  unfinished,  \* frames sent with sndmore that no last frame has followed yet
  missed,      \* the subscriber was not there for the first of them
  pipe,        \* frames on the way to the subscriber
  topic,       \* the first frame the subscriber has taken, if any
  shown,       \* the latest pair the subscriber has displayed
  cuts,        \* history: topics without a body delivered since the subscriber started
  restarts

zmq == <<handled, unfinished, missed, pipe, topic, shown, cuts, restarts>>

None == [kind |-> "none", of |-> 0]
Topic(m) == [kind |-> "topic", of |-> m]
Body(m) == [kind |-> "body", of |-> m]

ZmqInit ==
  /\ handled = 0
  /\ unfinished = << >> /\ missed = FALSE /\ pipe = << >>
  /\ topic = None
  /\ shown = [topic |-> Topic(0), body |-> Body(0)]
  /\ cuts = 0
  /\ restarts = 0

-----------------------------------------------------------------------------
(* The handler *)

\* Frames that end without sndmore go out together, or are dropped together.
Deliver(frames) ==
  \/ /\ ~missed
     /\ Len(pipe) + Len(frames) <= HighWaterMark
     /\ pipe' = pipe \o frames
     /\ cuts' = cuts + Len(frames) - 2
  \/ UNCHANGED <<pipe, cuts>>

Handling == /\ handled < MaxMessages
            /\ handled' = handled + 1
            /\ UNCHANGED <<topic, shown, restarts>>

\* Mutant: the topic is sent without sndmore, as a message of its own.
SeparateFrames(m) ==
  /\ \/ /\ Len(pipe) + 1 <= HighWaterMark
        /\ pipe' \in {pipe \o <<Topic(m)>>, pipe \o <<Topic(m), Body(m)>>, pipe \o <<Body(m)>>}
     \/ UNCHANGED pipe
  /\ UNCHANGED <<cuts, unfinished, missed>>

\* send_message: both frames
SendBoth(m) ==
  /\ unfinished' = << >> /\ missed' = FALSE
  /\ Deliver(unfinished \o <<Topic(m), Body(m)>>)

Publish == Handling /\ SendBoth(handled')

\* The second frame cannot be made or sent: the exception is logged, and the
\* topic stays in the socket.
BodyFails ==
  /\ Handling
  /\ unfinished' = Append(unfinished, Topic(handled'))
  /\ UNCHANGED <<missed, pipe, cuts>>

\* The payload does not parse, or the first frame cannot be made or sent.
NothingSent == Handling /\ UNCHANGED <<unfinished, missed, pipe, cuts>>

Publication == Publish \/ BodyFails \/ NothingSent

-----------------------------------------------------------------------------
(* The subscriber *)

RecvTopic ==
  /\ topic = None /\ pipe # << >>
  /\ topic' = Head(pipe)
  /\ pipe' = Tail(pipe)
  /\ UNCHANGED <<handled, unfinished, missed, shown, cuts, restarts>>

RecvBody ==
  /\ topic # None /\ pipe # << >>
  /\ shown' = [topic |-> topic, body |-> Head(pipe)]
  /\ topic' = None
  /\ pipe' = Tail(pipe)
  /\ UNCHANGED <<handled, unfinished, missed, cuts, restarts>>

\* A new subscriber gets whole messages only.
Restart ==
  /\ restarts < MaxRestarts
  /\ restarts' = restarts + 1
  /\ pipe' = << >> /\ topic' = None
  /\ missed' = (unfinished # << >>)
  /\ shown' = [topic |-> Topic(0), body |-> Body(0)]
  /\ cuts' = 0
  /\ UNCHANGED <<handled, unfinished>>

Subscriber == RecvTopic \/ RecvBody \/ Restart

-----------------------------------------------------------------------------
(* Properties *)

Matches(pair) == pair.topic.kind = "topic" /\ pair.body = Body(pair.topic.of)

\* A slow, late or restarted subscriber loses messages but never mixes two up,
\* unless a topic without its body has reached it.
PairsMatchUnlessCut == cuts = 0 => Matches(shown)
=============================================================================
