------------------------------ MODULE Dispatch ------------------------------
(***************************************************************************)
(* What becomes of a request: http_session::on_read and                    *)
(* handler::operator() choose who handles it (http_server_async.hpp), and  *)
(* FileRequestHandler chooses its response (handler_file.hpp, with the     *)
(* helpers of http_handler.hpp, http_handler_util.hpp and                  *)
(* string_util.hpp, all under apps/http_server_async_include).  Everything *)
(* here is a function of the request and of the file it names.             *)
(*                                                                         *)
(* A path is a sequence of characters, where a name without a dot or a     *)
(* slash counts as one.                                                    *)
(***************************************************************************)
EXTENDS Integers, Sequences

CONSTANT Paths   \* the paths of requests

ASSUME PathsAreAbsolute ==
  \A path \in Paths : path \in Seq(STRING) /\ path # <<>> /\ path[1] = "/"

Method == {"GET", "HEAD", "POST", "CONNECT"}

\* form: the target is in origin form and path is meaningful, or it starts
\* with http, or neither.  connection: the Connection header of an HTTP/1.1
\* request.  is_upgrade accepts only a GET that does not close.
Request ==
  {request \in [method     : Method,
                upgrade    : BOOLEAN,
                form       : {"origin", "absolute", "other"},
                path       : Paths,
                multipart  : BOOLEAN,
                connection : {"none", "keep-alive", "close"}] :
     request.upgrade => request.method = "GET" /\ request.connection # "close"}

\* What opening a file finds.
File == {"present", "absent", "unreadable"}

-----------------------------------------------------------------------------
(* string_util.hpp.  Positions count from 1.                               *)

\* The first slash from position pos on, or the end.
find_slash(path, pos) ==
  CHOOSE i \in pos..Len(path) + 1 :
    /\ i = Len(path) + 1 \/ path[i] = "/"
    /\ \A j \in pos..i - 1 : path[j] # "/"

\* Broken variant: leaves pos behind the slash it has found.
NextSegmentSkips(path, pos) ==
  IF pos > Len(path) \/ path[pos] # "/" THEN [segment |-> <<>>, pos |-> pos]
  ELSE LET stop == find_slash(path, pos + 1)
       IN [segment |-> SubSeq(path, pos + 1, stop - 1), pos |-> stop + 1]

\* The segment that begins at pos, and the new pos.
next_segment(path, pos) ==
  IF pos > Len(path) \/ path[pos] # "/" THEN [segment |-> <<>>, pos |-> pos]
  ELSE LET stop == find_slash(path, pos + 1)
       IN [segment |-> SubSeq(path, pos + 1, stop - 1), pos |-> stop]

\* What the loop returns if a call does not move pos: it never does.  An empty
\* segment cannot be meant, since the loop drops those.
Forever == << <<>> >>

\* What the rest of the loop adds, for each position it may be at.
segments_from(path) ==
  LET from[pos \in 1..Len(path) + 2] ==
        IF pos > Len(path) THEN <<>>
        ELSE LET found == next_segment(path, pos) IN
             IF found.pos = pos THEN Forever
             ELSE (IF found.segment = <<>> THEN <<>> ELSE <<found.segment>>)
                  \o from[found.pos]
  IN from

all_segments(path) == segments_from(path)[1]

-----------------------------------------------------------------------------
(* on_read and handler::operator().                                        *)

\* on_read looks at the upgrade first, then the method, then the target.
Route(request) ==
  LET own == ~request.upgrade /\ request.method # "CONNECT"
      upload == request.multipart
                \/ request.path = <<"/", "upload", "/", "data">>
  IN CASE request.upgrade                                 -> "upgrade"
       [] ~request.upgrade /\ request.method = "CONNECT"  -> "connect"
       [] own /\ request.form = "absolute"                -> "absolute"
       [] own /\ request.form = "other"                   -> "bad_target"
       [] own /\ request.form = "origin" /\ upload        -> "upload"
       [] own /\ request.form = "origin" /\ ~upload       -> "file"

\* keep_alive() of a request of HTTP/1.1.
KeepAlive(request) == request.connection # "close"

-----------------------------------------------------------------------------
(* FileRequestHandler.                                                     *)

Contains2Dots(path) ==
  \E i \in 1..Len(path) - 1 : path[i] = "." /\ path[i + 1] = "."

Illegal(request) ==
  request.method \notin {"GET", "HEAD"} \/ Contains2Dots(request.path)

\* length is what the Content-Length header announces, named for the body that
\* has it, and body is the one that follows.
Response(status, length, body, keepAlive) ==
  [status |-> status, length |-> length, body |-> body, keepAlive |-> keepAlive]

\* prepare_payload announces the body that the response has.
Prepared(status, body, keepAlive) == Response(status, body, body, keepAlive)

bad_request(request)  == Prepared(400, "message", KeepAlive(request))
not_found(request)    == Prepared(404, "message", KeepAlive(request))
server_error(request) == Prepared(500, "message", KeepAlive(request))

\* Broken variant: HEAD's response is prepared like every other.
HeadOfFilePrepared(request) == Prepared(200, "nothing", KeepAlive(request))

\* The responses to HEAD and to GET of a file of which only the size is kept,
\* or the file itself.
HeadOfFile(request) == Response(200, "file", "nothing", KeepAlive(request))
GetOfFile(request)  == Response(200, "file", "file", KeepAlive(request))

handle_request(request, file) ==
  LET legal == ~Illegal(request)
      found == legal /\ file = "present"
  IN CASE Illegal(request)                 -> bad_request(request)
       [] legal /\ file = "absent"         -> not_found(request)
       [] legal /\ file = "unreadable"     -> server_error(request)
       [] found /\ request.method = "HEAD" -> HeadOfFile(request)
       [] found /\ request.method # "HEAD" -> GetOfFile(request)

\* Whether the session goes on after the answer.  An upload's says so only if
\* the request does; where a request has no answer it makes no difference.
GoesOn(request, file) ==
  CASE Route(request) = "file"   -> handle_request(request, file).keepAlive
    [] Route(request) = "upload" -> request.connection = "keep-alive"
    [] Route(request) \notin {"file", "upload"} -> KeepAlive(request)

\* What a session can be told to do, and whether it is to go on afterwards.
Outcomes ==
  {<<Route(request), GoesOn(request, file)>> : request \in Request, file \in File}

-----------------------------------------------------------------------------
(* The requests that would be treated wrongly: Connection says there are   *)
(* none.                                                                   *)

\* The first segments, each after a slash.
JoinedUpTo(segments) ==
  LET upto[n \in 0..Len(segments)] ==
        IF n = 0 THEN <<>> ELSE upto[n - 1] \o <<"/">> \o segments[n]
  IN upto

Joined(segments) == JoinedUpTo(segments)[Len(segments)]

\* The beginnings of a path without the slashes that nothing follows, or
\* another slash.
CollapsedUpTo(path) ==
  LET upto[n \in 0..Len(path)] ==
        IF n = 0 THEN <<>>
        ELSE IF path[n] = "/" /\ (n = Len(path) \/ path[n + 1] = "/")
             THEN upto[n - 1] ELSE Append(upto[n - 1], path[n])
  IN upto

Collapsed(path) == CollapsedUpTo(path)[Len(path)]

\* The paths that all_segments, "/a/b/c, return ["a", "b", "c"]", does not
\* split into the names between the slashes, whatever slashes are doubled or
\* trail.  A path for which its loop does not end is among them, since it gets
\* an empty segment.
Misread ==
  {path \in Paths :
     LET segments == all_segments(path) IN
     ~ /\ \A i \in 1..Len(segments) :
            /\ segments[i] # <<>>
            /\ \A j \in 1..Len(segments[i]) : segments[i][j] # "/"
       /\ Joined(segments) = Collapsed(path)}

\* The client frames an answer by its head alone: the body that follows has the
\* length announced, except that nothing follows the head of a file.
Framed(request, response) ==
  response.body = IF request.method = "HEAD" /\ response.status = 200
                  THEN "nothing" ELSE response.length

\* The requests for which HEAD is not answered with the status, the length and
\* the close that GET is answered with when opening the file finds the same, or
\* either is not framed.
Unlike ==
  {request \in Request :
     /\ request.method = "GET"
     /\ Route(request) = "file"
     /\ \E file \in File :
          LET other == [request EXCEPT !.method = "HEAD"]
              get   == handle_request(request, file)
              head  == handle_request(other, file)
          IN \/ head.status # get.status
             \/ head.length # get.length
             \/ head.keepAlive # get.keepAlive
             \/ ~Framed(request, get)
             \/ ~Framed(other, head)}
=============================================================================
