------------------------------- MODULE Tunnel -------------------------------
(***************************************************************************)
(* The two copiers a connection is handed to: socket_copier for CONNECT    *)
(* and http_copier for a request with an absolute target                   *)
(* (socket_copier.h and http_copier.h under                                *)
(* apps/http_server_async_include).  Each resolves and connects to the     *)
(* remote host, greets (200 to the client, or the parsed request to the    *)
(* remote), writes the bytes left in its buffer and then relays in both    *)
(* directions with do_relay until both directions have ended.              *)
(*                                                                         *)
(* The remote socket shares the strand of the client's stream, so every    *)
(* completion handler is one atomic action.  A chunk is what one           *)
(* async_read_some returns; the chunks of a peer are numbered from 1.      *)
(***************************************************************************)
EXTENDS Integers, Sequences

CONSTANTS
  MaxChunks,   \* bound: how many chunks each peer sends
  MaxEarly     \* bound: how many of the client's came with the request

ASSUME BoundsAreNatural == MaxChunks \in Nat /\ MaxEarly \in 0..MaxChunks

Peer == {"client", "remote"}

Direction == {"up", "down"}

Source(d) == IF d = "up" THEN "client" ELSE "remote"

Dest(d) == IF d = "up" THEN "remote" ELSE "client"

VARIABLES
  mode,        \* "connect": socket_copier; "absolute": http_copier
  secure,      \* the client's stream is an ssl::stream
  unconsumed,  \* how many chunks the member buffer_ holds
  stage,       \* what the copier is doing
  greeted,     \* history: the 200 or the request head was written, or not
  op,          \* of each direction: its outstanding operation
  sent,        \* of each peer: the chunks it has sent
  taken,       \* of each peer: its chunks the copier or its parser has read
  fin,         \* of each peer: it has shut down its sending side
  lost,        \* of each peer: its connection is reset or timed out
  got,         \* history, of each peer: the chunks written to it
  sendShut,    \* do_eof has been called
  shutdowns    \* outstanding SSL shutdowns

fixed == <<mode, secure, unconsumed>>

peers == <<sent, taken, fin, lost, got>>

closing == <<sendShut, shutdowns>>

vars == <<fixed, stage, greeted, op, peers, closing>>

TypeOK ==
  /\ mode \in {"connect", "absolute"}
  /\ secure \in BOOLEAN
  /\ unconsumed \in 0..MaxEarly
  /\ stage \in {"created", "resolving", "connecting", "greeting",
                "unconsumed", "relaying", "ended", "thrown"}
  /\ greeted \in {"no", "yes", "garbled"}
  /\ op \in [Direction -> {"idle", "reading", "writing", "doomed", "ended"}]
  /\ sent \in [Peer -> 0..MaxChunks]
  /\ taken \in [Peer -> 0..MaxChunks]
  /\ fin \in [Peer -> BOOLEAN]
  /\ lost \in [Peer -> BOOLEAN]
  /\ got \in [Peer -> Seq(1..MaxChunks)]
  /\ sendShut \in BOOLEAN
  /\ shutdowns \in Nat

\* What the constructors make of the bytes read past the request's header:
\* http_copier moves them into buffer_; socket_copier takes them as a
\* parameter it never uses, and its buffer_ stays empty.
MemberBuffer(early) == IF mode = "absolute" THEN early ELSE 0

Init ==
  /\ mode \in {"connect", "absolute"}
  /\ secure \in BOOLEAN
  /\ \E early \in 0..MaxEarly :
       /\ sent = [p \in Peer |-> IF p = "client" THEN early ELSE 0]
       /\ unconsumed = MemberBuffer(early)
  /\ taken = sent
  /\ stage = "created"
  /\ greeted = "no"
  /\ op = [d \in Direction |-> "idle"]
  /\ fin = [p \in Peer |-> FALSE]
  /\ lost = [p \in Peer |-> FALSE]
  /\ got = [p \in Peer |-> <<>>]
  /\ sendShut = FALSE
  /\ shutdowns = 0

-----------------------------------------------------------------------------
(* Before the relay.  A step that fails only logs: nothing refers to the   *)
(* copier any more, and it is destroyed with both sockets.                 *)

Goes(from, to) == stage = from /\ stage' = to

\* socket_copier::start: a target without a colon ends the copier.
StartConnect ==
  /\ mode = "connect"
  /\ Goes("created", "resolving") \/ Goes("created", "ended")

\* http_copier::start: url_view throws for a target it cannot parse, and
\* nothing catches it.
StartAbsolute ==
  /\ mode = "absolute"
  /\ Goes("created", "resolving") \/ Goes("created", "thrown")

Start ==
  /\ StartConnect \/ StartAbsolute
  /\ UNCHANGED <<fixed, greeted, op, peers, closing>>

OnResolve ==
  /\ Goes("resolving", "connecting") \/ Goes("resolving", "ended")
  /\ UNCHANGED <<fixed, greeted, op, peers, closing>>

\* Broken variant: relays while the greeting is still being written.
OnConnectRelay ==
  /\ stage = "connecting"
  /\ \/ stage' = "greeting" /\ op' = [d \in Direction |-> "reading"]
     \/ stage' = "ended" /\ UNCHANGED op
  /\ UNCHANGED <<fixed, greeted, peers, closing>>

OnConnect ==
  /\ Goes("connecting", "greeting") \/ Goes("connecting", "ended")
  /\ UNCHANGED <<fixed, greeted, op, peers, closing>>

\* write200ok_to_client is given a string that is destroyed before the write
\* is complete.  An SSL stream encrypts it at once; a plain socket that
\* cannot take it at once sends later whatever the memory then holds.
Write200 ==
  /\ mode = "connect"
  /\ ~lost["client"]
  /\ greeted' \in IF secure THEN {"yes"} ELSE {"yes", "garbled"}

\* send_parsed_request.
SendRequest ==
  /\ mode = "absolute"
  /\ ~lost["remote"]
  /\ greeted' = "yes"

OnGreeted ==
  /\ Goes("greeting", "unconsumed")
  /\ Write200 \/ SendRequest
  /\ UNCHANGED <<fixed, op, peers, closing>>

OnGreetError ==
  /\ Goes("greeting", "ended")
  /\ lost[IF mode = "connect" THEN "client" ELSE "remote"]
  /\ UNCHANGED <<fixed, greeted, op, peers, closing>>

\* write_unconsumed has written buffer_: both directions start to read.
OnUnconsumed ==
  /\ Goes("unconsumed", "relaying")
  /\ unconsumed > 0 => ~lost["remote"]
  /\ got' = [got EXCEPT !["remote"] = @ \o [i \in 1..unconsumed |-> i]]
  /\ op' = [d \in Direction |-> "reading"]
  /\ UNCHANGED <<fixed, greeted, sent, taken, fin, lost, closing>>

OnUnconsumedError ==
  /\ Goes("unconsumed", "ended")
  /\ unconsumed > 0 /\ lost["remote"]
  /\ UNCHANGED <<fixed, greeted, op, peers, closing>>

-----------------------------------------------------------------------------
(* do_relay.                                                               *)

\* plain: shutdown(shutdown_send) on the client's socket.
do_eof_plain ==
  /\ ~secure
  /\ sendShut' = TRUE
  /\ UNCHANGED shutdowns

\* SSL: a 30 second timer and async_shutdown of the client's stream.
do_eof_ssl ==
  /\ secure
  /\ sendShut' = TRUE
  /\ shutdowns' = shutdowns + 1

do_eof == do_eof_plain \/ do_eof_ssl

\* A chunk was read: write all of it to the other side.  A write to the
\* client that starts after do_eof cannot succeed.
OnRelayRead(d) ==
  /\ op[d] = "reading"
  /\ ~lost[Source(d)]
  /\ taken[Source(d)] < sent[Source(d)]
  /\ taken' = [taken EXCEPT ![Source(d)] = @ + 1]
  /\ op' = [op EXCEPT ![d] = IF d = "down" /\ sendShut THEN "doomed"
                             ELSE "writing"]
  /\ UNCHANGED <<fixed, stage, greeted, sent, fin, lost, got, closing>>

\* Broken variant: a stream that was shut down has nothing more to read.
ExhaustedAtFin(p) == lost[p] \/ fin[p]

\* The source has nothing more to read: end of file or an error.
Exhausted(p) == lost[p] \/ (fin[p] /\ taken[p] = sent[p])

\* Broken variant: the end of a direction is not passed on.
OnRelayReadEndSilent(d) ==
  /\ op[d] = "reading"
  /\ Exhausted(Source(d))
  /\ op' = [op EXCEPT ![d] = "ended"]
  /\ UNCHANGED <<fixed, stage, greeted, peers, closing>>

\* Broken variant: reads again after an error.
OnRelayReadEndRetry(d) ==
  /\ op[d] = "reading"
  /\ Exhausted(Source(d))
  /\ do_eof
  /\ UNCHANGED <<fixed, stage, greeted, op, peers>>

OnRelayReadEnd(d) ==
  /\ op[d] = "reading"
  /\ Exhausted(Source(d))
  /\ op' = [op EXCEPT ![d] = "ended"]
  /\ do_eof
  /\ UNCHANGED <<fixed, stage, greeted, peers>>

OnRelayWritten(d) ==
  /\ op[d] = "writing"
  /\ ~lost[Dest(d)]
  /\ got' = [got EXCEPT ![Dest(d)] = Append(@, taken[Source(d)])]
  /\ op' = [op EXCEPT ![d] = "reading"]
  /\ UNCHANGED <<fixed, stage, greeted, sent, taken, fin, lost, closing>>

\* A write outstanding when do_eof is called may still succeed.
OnRelayWriteError(d) ==
  /\ \/ op[d] = "doomed"
     \/ op[d] = "writing" /\ (lost[Dest(d)] \/ (d = "down" /\ sendShut))
  /\ op' = [op EXCEPT ![d] = "ended"]
  /\ do_eof
  /\ UNCHANGED <<fixed, stage, greeted, peers>>

\* on_shutdown of the SSL copiers.
OnShutdown ==
  /\ stage = "relaying"
  /\ shutdowns > 0
  /\ shutdowns' = shutdowns - 1
  /\ UNCHANGED <<fixed, stage, greeted, op, peers, sendShut>>

\* No handler refers to the copier: it is destroyed with both sockets.
Destroy ==
  /\ stage = "relaying"
  /\ \A d \in Direction : op[d] = "ended"
  /\ shutdowns = 0
  /\ stage' = "ended"
  /\ UNCHANGED <<fixed, greeted, op, peers, closing>>

-----------------------------------------------------------------------------
(* The peers and the timer.                                                *)

Alive == stage \notin {"ended", "thrown"}

Connected(p) ==
  /\ Alive
  /\ p = "client" \/ stage \in {"greeting", "unconsumed", "relaying"}

PeerSends(p) ==
  /\ Connected(p)
  /\ ~fin[p] /\ ~lost[p]
  /\ sent[p] < MaxChunks
  /\ sent' = [sent EXCEPT ![p] = @ + 1]
  /\ UNCHANGED <<fixed, stage, greeted, op, taken, fin, lost, got, closing>>

PeerFin(p) ==
  /\ Connected(p)
  /\ ~fin[p] /\ ~lost[p]
  /\ fin' = [fin EXCEPT ![p] = TRUE]
  /\ UNCHANGED <<fixed, stage, greeted, op, sent, taken, lost, got, closing>>

Lose(p) ==
  /\ ~lost[p]
  /\ lost' = [lost EXCEPT ![p] = TRUE]
  /\ UNCHANGED <<fixed, stage, greeted, op, sent, taken, fin, got, closing>>

PeerReset(p) == Connected(p) /\ Lose(p)

ClientOperation ==
  \/ stage = "greeting" /\ mode = "connect"
  \/ op["up"] = "reading"
  \/ op["down"] \in {"writing", "doomed"}
  \/ shutdowns > 0

\* The 30 second deadline do_read of the session set on the stream.  It
\* moves with the stream, the copiers never renew or disable it, and it
\* applies to every later operation on the stream.
ClientTimeout ==
  /\ Alive
  /\ ClientOperation
  /\ Lose("client")

Terminated == ~Alive /\ UNCHANGED vars

SetUp ==
  \/ Start \/ OnResolve \/ OnConnect
  \/ OnGreeted \/ OnGreetError \/ OnUnconsumed \/ OnUnconsumedError

RelayStep(d) ==
  \/ OnRelayRead(d) \/ OnRelayReadEnd(d)
  \/ OnRelayWritten(d) \/ OnRelayWriteError(d)

Next ==
  \/ SetUp
  \/ \E d \in Direction : RelayStep(d)
  \/ OnShutdown
  \/ Destroy
  \/ \E p \in Peer : PeerSends(p) \/ PeerFin(p) \/ PeerReset(p)
  \/ ClientTimeout
  \/ Terminated

Spec == Init /\ [][Next]_vars

\* The reads of one direction, and its writes that fail.
DirectionFairness(d) ==
  /\ WF_vars(OnRelayRead(d)) /\ WF_vars(OnRelayReadEnd(d))
  /\ WF_vars(OnRelayWriteError(d))

\* The resolver and connect give up some time, a read returns what has
\* arrived, an operation on a connection that is lost fails, a shutdown has
\* its own timer, and the deadline on the client's stream comes.  Nothing makes
\* the peers send, take what is written to them, or close.
Fairness ==
  /\ WF_vars(Start) /\ WF_vars(OnResolve) /\ WF_vars(OnConnect)
  /\ WF_vars(OnGreetError)
  /\ WF_vars(unconsumed = 0 /\ OnUnconsumed) /\ WF_vars(OnUnconsumedError)
  /\ DirectionFairness("up") /\ DirectionFairness("down")
  /\ WF_vars(OnShutdown)
  /\ WF_vars(Destroy)
  /\ WF_vars(ClientTimeout)

FairSpec == Spec /\ Fairness

-----------------------------------------------------------------------------
(* The relay both copiers are.                                             *)

Streams == INSTANCE Relay WITH
  headless <- mode = "connect",
  broken   <- lost["client"] \/ lost["remote"],
  passed   <- [p \in Peer |-> got[IF p = "client" THEN "remote" ELSE "client"]],
  ended    <- [p \in Peer |-> op[IF p = "client" THEN "up" ELSE "down"] = "ended"]

-----------------------------------------------------------------------------
(* Properties.                                                             *)

\* Neither direction reorders, repeats or skips a chunk once it has passed
\* one on: buffer_ goes first, and do_relay's one buffer per direction is
\* not read into again before it has been written.
InOrder ==
  \A p \in Peer : \A i \in 1..Len(got[p]) - 1 : got[p][i + 1] = got[p][i] + 1

\* No byte of either stream is relayed before the greeting is complete: the
\* client sees the 200, the remote the request, first.
GreetingComesFirst ==
  \A p \in Peer : got[p] # <<>> => greeted # "no"

\* A tunnel is a relay: what each peer sends reaches the other once and in
\* order, and neither direction ends before it has passed on everything,
\* unless a connection is lost or the other direction has ended.
ImplementsRelay == Streams!Spec

\* The end of the remote's stream reaches the client, and only after all of
\* it was written: a "down" direction that ends first has called do_eof, and
\* has passed on every chunk unless a connection was lost.
EndIsPassedOn ==
  op["down"] = "ended" =>
    /\ sendShut
    /\ \/ Len(got["client"]) = sent["remote"]
       \/ op["up"] = "ended"
       \/ lost["client"] \/ lost["remote"]

\* A copier whose remote connection is lost does not live for ever: with the
\* deadline on the client's stream both directions end and release it.
RemoteLossEndsTunnel == (Alive /\ lost["remote"]) ~> ~Alive

\* A relay whose client is lost is kept by its remote alone: it ends, unless
\* the remote does not take what is written to it or, though all it sent was
\* read, has not finished.
OnlyRemoteKeepsTunnel ==
  (stage = "relaying" /\ lost["client"]) ~>
    \/ ~Alive
    \/ op["up"] = "writing"
    \/ op["down"] = "reading" /\ taken["remote"] = sent["remote"] /\ ~fin["remote"]

\* write_unconsumed, "Asynchronously write the data to the destination
\* socket": the remote's stream starts with the client's first chunk after
\* the request header, also when that chunk came together with the header.
StartsAtTheStart == got["remote"] # <<>> => got["remote"][1] = 1
=============================================================================
