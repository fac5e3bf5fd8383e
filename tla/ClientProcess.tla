---------------------------- MODULE ClientProcess ----------------------------
(***************************************************************************)
(* The client process with what its message handler publishes and with a   *)
(* subscriber: the whole handler is the push of WsClient together with the *)
(* publication of ZmqPublisher, and it only runs between the subscription  *)
(* and the stop of the event loop.  The subscriber goes on by itself.      *)
(***************************************************************************)
EXTENDS WsClient, ZmqPublisher

cvars == <<vars, zmq>>

CInit == Init /\ ZmqInit

\* publish, then push, whether the publication succeeded or not
MessageHandler == HandleMessage /\ Publication

CNext ==
  \/ MessageHandler
  \/ Process /\ UNCHANGED zmq
  \/ Subscriber /\ UNCHANGED vars

CSpec == CInit /\ [][CNext]_cvars

\* Every thread is scheduled; nothing is assumed of the exchange, of signals,
\* of the captures or of the subscriber.
CFairSpec ==
  /\ CSpec
  /\ WF_cvars(Main /\ UNCHANGED zmq)
  /\ WF_cvars(Shutdown /\ UNCHANGED zmq)
  /\ WF_cvars(Corr /\ UNCHANGED zmq)
=============================================================================
