----------------------------- MODULE Connection -----------------------------
(***************************************************************************)
(* One connection from its first byte to its last: HttpSession, and the    *)
(* WebSocketSession that on_read creates on its stream for an upgrade      *)
(* request.  The session object lives on after the hand-over while it has  *)
(* operations outstanding, so the two may be on the stream together.       *)
(* Requests are those Dispatch tells apart.  Connections handed over to a  *)
(* copier are Tunnel's.                                                    *)
(***************************************************************************)
EXTENDS HttpSession, WebSocketSession, Dispatch

connection == <<vars, websocket>>

ConnectionTypeOK == TypeOK /\ WsTypeOK

ConnectionInit == Init /\ WsInit

\* make_websocket_session takes the stream and the request in the handler
\* that has read the request.
Upgrade ==
  /\ \E outcome \in Outcomes :
       outcome[1] = "upgrade" /\ OnRequest("upgrade", outcome[2])
  /\ do_accept

\* Every other step of the session.
SessionStep ==
  /\ \/ OnRun \/ OnDetect \/ OnHandshake \/ StartFails
     \/ \E outcome \in Outcomes :
          outcome[1] # "upgrade" /\ OnRequest(outcome[1], outcome[2])
     \/ OnReadEof \/ OnReadError
     \/ OnBodyStep \/ OnWriteStep \/ OnShutdown
     \/ ConnectionLost \/ Destroy
  /\ UNCHANGED websocket

\* Once a moved engine has been used anything may happen: no step follows.
WebSocketStep ==
  /\ stage # "undefined"
  /\ WsStep
  /\ UNCHANGED vars

Quiet ==
  /\ Terminated
  /\ ws \in {"none", "over"} \/ stage = "undefined"
  /\ UNCHANGED connection

ConnectionNext == Upgrade \/ SessionStep \/ WebSocketStep \/ Quiet

ConnectionSpec == ConnectionInit /\ [][ConnectionNext]_connection

\* The fairness of both, which is that of the strand they share.
ConnectionFairSpec ==
  /\ ConnectionSpec
  /\ Fairness
  /\ WF_connection(WebSocketStep /\ WsAccept)
  /\ WF_connection(WebSocketStep /\ WsRead)
  /\ WF_connection(WebSocketStep /\ WsWrite)

-----------------------------------------------------------------------------
(* Properties.                                                             *)

\* Whoever owns the stream, at most one operation reads it: the session has
\* none outstanding when its WebSocket session starts to read.
OneReaderOfStream ==
  headerReads + Len(bodies) + (IF ws = "reading" THEN 1 ELSE 0) <= 1

\* Every message a client sends is written back, also when it closes right
\* after it, unless the connection is lost.
EveryMessageIsEchoed ==
  \A n \in 1..MaxMessages :
    (Len(spoken) >= n) ~>
      Len(echoed) >= n \/ hangup = "lost" \/ stage = "undefined"

\* Whatever path a session is asked for, all_segments ends and finds the names
\* between its slashes.
SegmentsAreTheNames == stage = "serving" => Misread = {}

\* A session answers HEAD with the status, the length and the close that it
\* answers GET with, for every target and whatever opening the file finds, and
\* each with the body that its head announces: the two responses are built
\* apart, and HEAD's announces a body that it does not have.
HeadMatchesGet == stage = "serving" => Unlike = {}
=============================================================================
