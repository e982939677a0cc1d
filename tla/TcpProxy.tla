------------------------------ MODULE TcpProxy ------------------------------
(***************************************************************************)
(* The TCP proxy of asio-server (server-async-simple.h and .cpp): a        *)
(* tcp_server and one of its tcp_connections, which relays between a       *)
(* client and a fixed remote.  With debug_mode, the value proxy-server.cpp *)
(* and the test pass, requests are collected up to the end of their        *)
(* headers and written out again by parse_http_request.                    *)
(*                                                                         *)
(* io_context.run() is called by one thread, so every completion handler   *)
(* is one atomic action.  The client's stream is a sequence of pieces that *)
(* no read separates; a read returns one or more of them, so that it may   *)
(* end anywhere: in a line, in a word, between a CR and its LF.            *)
(***************************************************************************)
EXTENDS Integers, Sequences

CONSTANTS
  Stream,     \* the client's pieces
  MaxChunks   \* bound: how many chunks the remote sends

\* A word, or a part of one; blanks; the two characters that end a line.
Kind == {"text", "space", "cr", "lf"}

ASSUME StreamIsText == Stream \in Seq(Kind)

ASSUME MaxChunksIsNatural == MaxChunks \in Nat

Peer == {"client", "remote"}

\* A piece on its way: its number in Stream, 0 for one the proxy adds, which
\* is a space or a line end, "\r\n".
Piece == [n : 0..Len(Stream), kind : Kind \cup {"crlf"}]

Space == [n |-> 0, kind |-> "space"]

LineEnd == [n |-> 0, kind |-> "crlf"]

VARIABLES
  accepting,       \* tcp_server's async_accept is outstanding
  debug_mode,
  stage,           \* the connection: not accepted, connecting, relaying, gone
  up,              \* the operation of do_read_client and do_write_proxy
  down,            \* the operation of do_read_proxy and do_write_client
  request_buffer,  \* request_buffer_
  data_client,     \* data_client_: what the last plain read returned
  open,            \* of each peer: the socket to it is open
  sent,            \* of each peer: how many pieces or chunks it has sent
  taken,           \* of each peer: how many of them were read
  fin,             \* of each peer: it has finished sending
  lost,            \* of each peer: its connection is reset
  toRemote,        \* history: what was written to the remote
  toClient         \* history: how many chunks were written to the client

conn == <<debug_mode, stage, up, down, request_buffer, data_client, open>>

vars == <<accepting, conn, sent, taken, fin, lost, toRemote, toClient>>

TypeOK ==
  /\ accepting \in BOOLEAN
  /\ debug_mode \in BOOLEAN
  /\ stage \in {"none", "connecting", "relaying", "gone"}
  /\ up \in {"idle", "reading", "writing", "ended"}
  /\ down \in {"idle", "reading", "writing", "ended"}
  /\ request_buffer \in Seq(Piece)
  /\ data_client \in Seq(Piece)
  /\ open \in [Peer -> BOOLEAN]
  /\ sent \in [Peer -> Nat]
  /\ taken \in [Peer -> Nat]
  /\ fin \in [Peer -> BOOLEAN]
  /\ lost \in [Peer -> BOOLEAN]
  /\ toRemote \in Seq(Piece)
  /\ toClient \in 0..MaxChunks

Init ==
  /\ accepting = TRUE
  /\ debug_mode \in BOOLEAN
  /\ stage = "none"
  /\ up = "idle"
  /\ down = "idle"
  /\ request_buffer = <<>>
  /\ data_client = <<>>
  /\ open = [p \in Peer |-> TRUE]
  /\ sent = [p \in Peer |-> 0]
  /\ taken = [p \in Peer |-> 0]
  /\ fin = [p \in Peer |-> FALSE]
  /\ lost = [p \in Peer |-> FALSE]
  /\ toRemote = <<>>
  /\ toClient = 0

-----------------------------------------------------------------------------
(* The operators of the connection.                                        *)

\* Pieces first..last as the client sent them.
Pieces(first, last) ==
  [i \in 1..last - first + 1 |-> [n |-> first + i - 1,
                                  kind |-> Stream[first + i - 1]]]

\* "\r\n\r\n" occurs in the request.
has_complete_http_request(request) ==
  \E i \in 1..Len(request) - 3 :
    /\ request[i].kind = "cr" /\ request[i + 1].kind = "lf"
    /\ request[i + 2].kind = "cr" /\ request[i + 3].kind = "lf"

\* Where the first piece of one of these kinds is from position i on; behind
\* the end if there is none.
FirstAt(request, i, kinds) ==
  CHOOSE j \in i..Len(request) + 1 :
    /\ j <= Len(request) => request[j].kind \in kinds
    /\ \A k \in i..j - 1 : request[k].kind \notin kinds

\* line_stream >> word: blanks are skipped, a word reaches to the next blank.
WordFrom(line, i) == FirstAt(line, i, {"text"})

WordEnd(line, i) == FirstAt(line, WordFrom(line, i), Kind \ {"text"})

Word(line, i) == SubSeq(line, WordFrom(line, i), WordEnd(line, i) - 1)

\* The first line is written anew from its first three words.
RequestLine(line) ==
  LET url     == WordEnd(line, 1)
      version == WordEnd(line, url)
  IN Word(line, 1) \o <<Space>> \o Word(line, url) \o <<Space>>
       \o Word(line, version) \o <<LineEnd>>

\* getline takes the LF off a line and leaves its CR; a line end is written
\* after each, also after a last one that had none.
OtherLines(lines) ==
  [i \in 1..Len(lines) |-> IF lines[i].kind = "lf" THEN LineEnd ELSE lines[i]]
  \o IF lines # <<>> /\ lines[Len(lines)].kind # "lf" THEN <<LineEnd>> ELSE <<>>

\* Broken variant: the last line is lost when its end has not been read.
ParseWholeLines(request) ==
  LET eol == FirstAt(request, 1, {"lf"})
      last == CHOOSE i \in eol..Len(request) :
                /\ request[i].kind = "lf"
                /\ \A k \in i + 1..Len(request) : request[k].kind # "lf"
  IN RequestLine(SubSeq(request, 1, eol - 1))
       \o OtherLines(SubSeq(request, eol + 1, last)) \o <<LineEnd>>

\* A blank line is added at the end.
parse_http_request(request) ==
  LET eol == FirstAt(request, 1, {"lf"})
  IN RequestLine(SubSeq(request, 1, eol - 1))
       \o OtherLines(SubSeq(request, eol + 1, Len(request))) \o <<LineEnd>>

\* Broken variant: forgets the remote's socket.
CleanupClientOnly == open' = [open EXCEPT !["client"] = FALSE]

\* Close both sockets: what is outstanding on them is aborted.
cleanup == open' = [p \in Peer |-> FALSE]

Usable(p) == open[p] /\ ~lost[p]

\* A read from p ends without data.
ReadFails(p) == ~Usable(p) \/ (fin[p] /\ taken[p] = sent[p])

-----------------------------------------------------------------------------
(* Accepting and connecting.                                               *)

OnAccept ==
  /\ accepting
  /\ stage = "none"
  /\ stage' = "connecting"
  /\ UNCHANGED <<accepting, debug_mode, up, down, request_buffer, data_client,
                 open, sent, taken, fin, lost, toRemote, toClient>>

\* An accept error is printed and nothing accepts again.
OnAcceptError ==
  /\ accepting
  /\ accepting' = FALSE
  /\ UNCHANGED <<conn, sent, taken, fin, lost, toRemote, toClient>>

OnConnect ==
  /\ stage = "connecting"
  /\ \/ /\ stage' = "relaying"
        /\ up' = "reading"
        /\ down' = "reading"
        /\ UNCHANGED open
     \/ /\ stage' = "gone"
        /\ cleanup
        /\ UNCHANGED <<up, down>>
  /\ UNCHANGED <<accepting, debug_mode, request_buffer, data_client, sent,
                 taken, fin, lost, toRemote, toClient>>

-----------------------------------------------------------------------------
(* From the client to the remote.                                          *)

\* do_read_client, plain: what was read is written on.
ReadPlain(data) ==
  /\ data_client' = data
  /\ up' = "writing"
  /\ UNCHANGED request_buffer

\* do_read_client with debug_mode; header_state_ is never anything but
\* READING_HEADERS.
ReadDebug(data) ==
  LET request == request_buffer \o data IN
  /\ IF has_complete_http_request(request)
     THEN /\ request_buffer' = parse_http_request(request)
          /\ up' = "writing"
     ELSE /\ request_buffer' = request
          /\ UNCHANGED up
  /\ UNCHANGED data_client

OnReadClient ==
  /\ up = "reading"
  /\ Usable("client")
  /\ \E last \in taken["client"] + 1..sent["client"] :
       /\ IF debug_mode THEN ReadDebug(Pieces(taken["client"] + 1, last))
          ELSE ReadPlain(Pieces(taken["client"] + 1, last))
       /\ taken' = [taken EXCEPT !["client"] = last]
  /\ UNCHANGED <<accepting, debug_mode, stage, down, open, sent, fin, lost,
                 toRemote, toClient>>

OnReadClientEnd ==
  /\ up = "reading"
  /\ ReadFails("client")
  /\ up' = "ended"
  /\ cleanup
  /\ UNCHANGED <<accepting, debug_mode, stage, down, request_buffer,
                 data_client, sent, taken, fin, lost, toRemote, toClient>>

\* Broken variant: the request is not cleared and would be sent again.
OnWriteProxyKeeps ==
  /\ up = "writing"
  /\ Usable("remote")
  /\ toRemote' = toRemote \o (IF debug_mode THEN request_buffer ELSE data_client)
  /\ up' = "reading"
  /\ UNCHANGED <<accepting, debug_mode, stage, down, request_buffer,
                 data_client, open, sent, taken, fin, lost, toClient>>

\* do_write_proxy is complete: the request buffer is cleared.
OnWriteProxy ==
  /\ up = "writing"
  /\ Usable("remote")
  /\ toRemote' = toRemote \o (IF debug_mode THEN request_buffer ELSE data_client)
  /\ request_buffer' = <<>>
  /\ data_client' = <<>>
  /\ up' = "reading"
  /\ UNCHANGED <<accepting, debug_mode, stage, down, open, sent, taken, fin,
                 lost, toClient>>

OnWriteProxyError ==
  /\ up = "writing"
  /\ ~Usable("remote")
  /\ up' = "ended"
  /\ cleanup
  /\ UNCHANGED <<accepting, debug_mode, stage, down, request_buffer,
                 data_client, sent, taken, fin, lost, toRemote, toClient>>

-----------------------------------------------------------------------------
(* From the remote to the client.                                          *)

\* Broken variant: takes the last chunk for the end.
OnReadProxyEager ==
  /\ down = "reading"
  /\ Usable("remote")
  /\ taken["remote"] < sent["remote"]
  /\ taken' = [taken EXCEPT !["remote"] = @ + 1]
  /\ down' = IF fin["remote"] THEN "ended" ELSE "writing"
  /\ open' = [p \in Peer |-> open[p] /\ ~fin["remote"]]
  /\ UNCHANGED <<accepting, debug_mode, stage, up, request_buffer, data_client,
                 sent, fin, lost, toRemote, toClient>>

OnReadProxy ==
  /\ down = "reading"
  /\ Usable("remote")
  /\ taken["remote"] < sent["remote"]
  /\ taken' = [taken EXCEPT !["remote"] = @ + 1]
  /\ down' = "writing"
  /\ UNCHANGED <<accepting, debug_mode, stage, up, request_buffer, data_client,
                 open, sent, fin, lost, toRemote, toClient>>

OnReadProxyEnd ==
  /\ down = "reading"
  /\ ReadFails("remote")
  /\ down' = "ended"
  /\ cleanup
  /\ UNCHANGED <<accepting, debug_mode, stage, up, request_buffer, data_client,
                 sent, taken, fin, lost, toRemote, toClient>>

OnWriteClient ==
  /\ down = "writing"
  /\ Usable("client")
  /\ toClient' = toClient + 1
  /\ down' = "reading"
  /\ UNCHANGED <<accepting, debug_mode, stage, up, request_buffer, data_client,
                 open, sent, taken, fin, lost, toRemote>>

OnWriteClientError ==
  /\ down = "writing"
  /\ ~Usable("client")
  /\ down' = "ended"
  /\ cleanup
  /\ UNCHANGED <<accepting, debug_mode, stage, up, request_buffer, data_client,
                 sent, taken, fin, lost, toRemote, toClient>>

\* No handler refers to the connection any more.
Destroy ==
  /\ stage = "relaying"
  /\ up = "ended" /\ down = "ended"
  /\ stage' = "gone"
  /\ UNCHANGED <<accepting, debug_mode, up, down, request_buffer, data_client,
                 open, sent, taken, fin, lost, toRemote, toClient>>

-----------------------------------------------------------------------------
(* The peers.                                                              *)

Sending(p) ==
  /\ stage = "relaying" \/ (p = "client" /\ stage = "connecting")
  /\ Usable(p)
  /\ ~fin[p]

PeerSends(p) ==
  /\ Sending(p)
  /\ sent[p] < IF p = "client" THEN Len(Stream) ELSE MaxChunks
  /\ sent' = [sent EXCEPT ![p] = @ + 1]
  /\ UNCHANGED <<accepting, conn, taken, fin, lost, toRemote, toClient>>

PeerFin(p) ==
  /\ Sending(p)
  /\ fin' = [fin EXCEPT ![p] = TRUE]
  /\ UNCHANGED <<accepting, conn, sent, taken, lost, toRemote, toClient>>

PeerReset(p) ==
  /\ stage = "relaying"
  /\ Usable(p)
  /\ lost' = [lost EXCEPT ![p] = TRUE]
  /\ UNCHANGED <<accepting, conn, sent, taken, fin, toRemote, toClient>>

Terminated ==
  /\ stage = "gone" \/ (stage = "none" /\ ~accepting)
  /\ UNCHANGED vars

UpStep ==
  OnReadClient \/ OnReadClientEnd \/ OnWriteProxy \/ OnWriteProxyError

DownStep ==
  OnReadProxy \/ OnReadProxyEnd \/ OnWriteClient \/ OnWriteClientError

Next ==
  \/ OnAccept \/ OnAcceptError \/ OnConnect
  \/ UpStep \/ DownStep \/ Destroy
  \/ \E p \in Peer : PeerSends(p) \/ PeerFin(p) \/ PeerReset(p)
  \/ Terminated

Spec == Init /\ [][Next]_vars

\* Data that has arrived is read, aborted and failed operations complete,
\* and a remote that is connected takes what is written to it.  Nothing
\* makes a peer send or close, and a client may stop reading.
Fairness ==
  /\ WF_vars(OnConnect)
  /\ WF_vars(OnReadClient) /\ WF_vars(OnReadClientEnd)
  /\ WF_vars(OnWriteProxy) /\ WF_vars(OnWriteProxyError)
  /\ WF_vars(OnReadProxy) /\ WF_vars(OnReadProxyEnd)
  /\ WF_vars(OnWriteClientError)
  /\ WF_vars(Destroy)

FairSpec == Spec /\ Fairness

-----------------------------------------------------------------------------
(* The relay a proxy without debug_mode is; with it requests are rewritten,*)
(* and only the way back is a relay.                                       *)

Streams == INSTANCE Relay WITH
  headless <- FALSE,
  broken   <- debug_mode \/ lost["client"] \/ lost["remote"],
  passed   <- [p \in Peer |->
                 IF p = "remote" THEN [i \in 1..toClient |-> i]
                 ELSE IF debug_mode THEN <<>>
                 ELSE [i \in 1..Len(toRemote) |-> toRemote[i].n]],
  ended    <- [p \in Peer |-> (IF p = "client" THEN up ELSE down) = "ended"]

-----------------------------------------------------------------------------
(* Properties.                                                             *)

\* A line of the client's holds both pieces.
OnOneLine(n, m) == \A i \in n..m : Stream[i] # "lf"

\* What of the client's is in data is in it in the order it was sent, nothing
\* twice; and two pieces of different lines have a line end between them.
Orderly(data) ==
  \A i, j \in 1..Len(data) :
    i < j /\ data[i].n # 0 /\ data[j].n # 0 =>
      /\ data[i].n < data[j].n
      /\ OnOneLine(data[i].n, data[j].n)
         \/ \E k \in i..j : data[k].kind \in {"lf", "crlf"}

\* Piece n was cut off a line of which data has the first three words: the
\* proxy's two spaces, a third word of the same line after them, a line end.
CutOff(data, n) ==
  \E last \in 2..Len(data) - 1 :
    /\ data[last].n # 0 /\ data[last].n < n /\ OnOneLine(data[last].n, n)
    /\ data[last + 1] = LineEnd
    /\ \E i, j \in 1..last - 1 :
         /\ i < j /\ data[i] = Space /\ data[j] = Space
         /\ \A k \in i..last : data[k] # LineEnd

\* Requests are collected over several reads and rewritten without repeating
\* or reordering anything or running two lines together.
InOrder == Orderly(toRemote)

\* Of every word that was read, what is not written, being written or
\* collected is what debug_mode cuts off a line after its third word; all
\* else is forgotten only when the sockets are closed.
NothingForgotten ==
  open["client"] /\ open["remote"] =>
    LET held == toRemote \o data_client \o request_buffer IN
    \A n \in 1..taken["client"] :
      Stream[n] = "text" =>
        \/ \E i \in 1..Len(held) : held[i].n = n
        \/ debug_mode /\ CutOff(held, n)

\* A proxy that does not rewrite requests is a relay: both streams arrive
\* once and in order, and an end of stream is passed on after all data.
ImplementsRelay == Streams!Spec

\* When the remote's end of stream closes the connection, everything it sent
\* has been written to the client first.
RemoteIsDelivered ==
  (~open["client"] /\ ~fin["client"] /\ ~lost["client"] /\ ~lost["remote"]
     /\ stage = "relaying")
    => toClient = sent["remote"]

\* cleanup closes both sockets, so that the operations of both directions
\* end and the connection is released: no half of it is left behind.
CleanupReleases ==
  (stage = "relaying" /\ \E p \in Peer : ~open[p]) ~> stage = "gone"

\* do_read_client, "Process the full HTTP request", with its headers and
\* body: once all of the client's request was read, every word of it is
\* written to the remote, unless the connection is closed.
RequestIsForwarded ==
  \A n \in {m \in 1..Len(Stream) : Stream[m] = "text"} :
    (taken["client"] = Len(Stream)) ~>
      \/ \E i \in 1..Len(toRemote) : toRemote[i].n = n
      \/ \E p \in Peer : ~Usable(p)
=============================================================================
