-------------------------- MODULE WebSocketSession --------------------------
(***************************************************************************)
(* The WebSocket session a connection becomes after an upgrade request     *)
(* (socket_session.hpp under apps/http_server_async_include): it accepts   *)
(* the handshake, then reads a message, echoes it and reads the next.      *)
(* plain_websocket_session and ssl_websocket_session differ only in their  *)
(* stream.                                                                 *)
(*                                                                         *)
(* The session runs on its connection's strand: each completion handler is *)
(* one action.  A message is complete when async_read completes; what      *)
(* tells messages apart is their number and whether they are text.         *)
(***************************************************************************)
EXTENDS Integers, Sequences

CONSTANT MaxMessages   \* bound: how many messages the client sends

ASSUME MaxMessagesNatural == MaxMessages \in Nat

VARIABLES
  ws,       \* the session: none, or the operation it has outstanding, or over
  buffer,   \* buffer_: the numbers of the messages it holds
  text,     \* the mode of outgoing messages: ws().text(...)
  spoken,   \* the client's messages so far: whether each is text
  heard,    \* how many of them have been read
  hangup,   \* the client has sent a close frame, or the connection is lost
  echoed    \* history: the messages written back

websocket == <<ws, buffer, text, spoken, heard, hangup, echoed>>

client == <<spoken, hangup>>

\* A message written back: what it is made of, and its mode.
Echo == [of : Seq(Nat), text : BOOLEAN]

WsTypeOK ==
  /\ ws \in {"none", "accepting", "reading", "writing", "over"}
  /\ buffer \in Seq(Nat)
  /\ text \in BOOLEAN
  /\ spoken \in Seq(BOOLEAN)
  /\ heard \in Nat
  /\ hangup \in {"no", "close", "lost"}
  /\ echoed \in Seq(Echo)

WsInit ==
  /\ ws = "none"
  /\ buffer = <<>>
  /\ text = TRUE
  /\ spoken = <<>>
  /\ heard = 0
  /\ hangup = "no"
  /\ echoed = <<>>

-----------------------------------------------------------------------------
(* The session.                                                            *)

\* make_websocket_session: run calls do_accept.
do_accept ==
  /\ ws = "none"
  /\ ws' = "accepting"
  /\ UNCHANGED <<buffer, text, heard, echoed, client>>

\* The 101 response has been written: read.
on_accept ==
  /\ ws = "accepting"
  /\ hangup # "lost"
  /\ ws' = "reading"
  /\ UNCHANGED <<buffer, text, heard, echoed, client>>

\* The request is no valid handshake, or the 101 could not be written.
on_accept_error ==
  /\ ws = "accepting"
  /\ ws' = "over"
  /\ UNCHANGED <<buffer, text, heard, echoed, client>>

\* A message has been read into buffer_: write it back in its own mode.
on_read ==
  /\ ws = "reading"
  /\ heard < Len(spoken)
  /\ hangup # "lost"
  /\ heard' = heard + 1
  /\ buffer' = Append(buffer, heard')
  /\ text' = spoken[heard']
  /\ ws' = "writing"
  /\ UNCHANGED <<echoed, client>>

\* error::closed after the client's close frame, which comes after all of
\* its messages, or another error: nothing is started any more.
on_read_error ==
  /\ ws = "reading"
  /\ hangup = "lost" \/ (hangup = "close" /\ heard = Len(spoken))
  /\ ws' = "over"
  /\ UNCHANGED <<buffer, text, heard, echoed, client>>

\* Broken variant: reads the next message behind the one just written.
on_write_keeps ==
  /\ ws = "writing"
  /\ hangup # "lost"
  /\ echoed' = Append(echoed, [of |-> buffer, text |-> text])
  /\ ws' = "reading"
  /\ UNCHANGED <<buffer, text, heard, client>>

\* Broken variant: does not read again.
on_write_once ==
  /\ ws = "writing"
  /\ hangup # "lost"
  /\ echoed' = Append(echoed, [of |-> buffer, text |-> text])
  /\ buffer' = <<>>
  /\ ws' = "over"
  /\ UNCHANGED <<text, heard, client>>

\* The echo has been written: consume the buffer and read again.
on_write ==
  /\ ws = "writing"
  /\ hangup # "lost"
  /\ echoed' = Append(echoed, [of |-> buffer, text |-> text])
  /\ buffer' = <<>>
  /\ ws' = "reading"
  /\ UNCHANGED <<text, heard, client>>

on_write_error ==
  /\ ws = "writing"
  /\ hangup = "lost"
  /\ ws' = "over"
  /\ UNCHANGED <<buffer, text, heard, echoed, client>>

-----------------------------------------------------------------------------
(* The client, and the stream's own timeouts.                              *)

\* A client speaks once it has the 101.
Speak ==
  /\ ws \in {"reading", "writing"}
  /\ hangup = "no"
  /\ Len(spoken) < MaxMessages
  /\ \E mode \in BOOLEAN : spoken' = Append(spoken, mode)
  /\ UNCHANGED <<ws, buffer, text, heard, hangup, echoed>>

Close ==
  /\ ws \in {"reading", "writing"}
  /\ hangup = "no"
  /\ hangup' = "close"
  /\ UNCHANGED <<ws, buffer, text, heard, spoken, echoed>>

\* A reset, or the handshake or idle timeout do_accept has set.
Lost ==
  /\ ws \in {"accepting", "reading", "writing"}
  /\ hangup # "lost"
  /\ hangup' = "lost"
  /\ UNCHANGED <<ws, buffer, text, heard, spoken, echoed>>

WsAccept == on_accept \/ on_accept_error

WsRead == on_read \/ on_read_error

WsWrite == on_write \/ on_write_error

\* The steps of a session that has been created.
WsStep == WsAccept \/ WsRead \/ WsWrite \/ Speak \/ Close \/ Lost

-----------------------------------------------------------------------------
(* Properties.                                                             *)

\* What is written back are the client's messages, each once, in order, on
\* its own and in its own mode: buffer_ is consumed between two reads, and
\* never while its message is being written.
EchoesAreFaithful ==
  \A i \in 1..Len(echoed) : echoed[i] = [of |-> <<i>>, text |-> spoken[i]]
=============================================================================
