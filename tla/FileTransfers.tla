--------------------------- MODULE FileTransfers ---------------------------
(***************************************************************************)
(* A server whose connections upload and download (handler_file.hpp under  *)
(* apps/http_server_async_include): FileUploadHandler stores the body of   *)
(* every upload of every connection in one file, upload_tmp_file, which    *)
(* opening it truncates; FileRequestHandler serves that file like any      *)
(* other.  The connections' handlers run in parallel on HttpServer's       *)
(* threads, and each of them has its own offset in the file.               *)
(*                                                                         *)
(* One step reads a part of a body and writes it to the file, or the other *)
(* way around.  A part tells which upload it is from and which of its      *)
(* parts it is.                                                            *)
(***************************************************************************)
EXTENDS HttpServer, Sequences

CONSTANTS
  Parts,       \* bound: the largest body, in parts
  MaxUploads,  \* bound: how many uploads are opened
  MaxDownloads \* bound: how many downloads are opened

ASSUME TransferBounds ==
  Parts \in Nat \ {0} /\ MaxUploads \in Nat /\ MaxDownloads \in Nat

VARIABLES
  file,        \* the content of upload_tmp_file
  transfer,    \* what each connection is doing with it
  uploads,     \* number of uploads opened so far; the last one's number
  downloads,   \* number of downloads opened so far
  stored       \* history: the upload the file is to hold, if one is to

disk == <<file, transfer, uploads, downloads, stored>>

server == <<vars, disk>>

Part == [upload : 1..MaxUploads, part : 1..Parts]

\* What a file holds where nothing has been written.
Hole == [upload |-> 0, part |-> 0]

\* The body of upload n, of this many parts.
Body(n, size) == [i \in 1..size |-> [upload |-> n, part |-> i]]

\* op: what is going on; number: of the upload; size: how many parts it has
\* or the Content-Length promises; done: how many are through; alone: no other
\* upload has had the file open meanwhile; got: what a download has sent.
Transfer == [op     : {"none", "upload", "download"},
             number : 0..MaxUploads,
             size   : 0..Parts,
             done   : 0..Parts,
             alone  : BOOLEAN,
             got    : Seq(Part \cup {Hole})]

None == [op |-> "none", number |-> 0, size |-> 0, done |-> 0,
         alone |-> FALSE, got |-> <<>>]

TransfersTypeOK ==
  /\ TypeOK
  /\ file \in Seq(Part \cup {Hole})
  /\ Len(file) <= Parts
  /\ transfer \in [Conn -> Transfer]
  /\ \A c \in Conn : transfer[c].done <= transfer[c].size
  /\ uploads \in 0..MaxUploads
  /\ downloads \in 0..MaxDownloads
  /\ stored \in [upload : 0..MaxUploads, size : 0..Parts]

TransfersInit ==
  /\ Init
  /\ file = <<>>
  /\ transfer = [c \in Conn |-> None]
  /\ uploads = 0
  /\ downloads = 0
  /\ stored = [upload |-> 0, size |-> 0]

\* A thread runs a handler of connection c.
Serves(c) == Running /\ conn[c] = "served"

-----------------------------------------------------------------------------
(* FileUploadHandler.                                                      *)

\* The others that have the file open share it from now on.
Disturbed == [d \in Conn |-> [transfer[d] EXCEPT !.alone = FALSE]]

\* Broken variant: does not truncate the file.
OpenUploadKeeps(c, size) ==
  /\ Serves(c)
  /\ transfer[c].op = "none"
  /\ uploads < MaxUploads
  /\ uploads' = uploads + 1
  /\ transfer' = [Disturbed EXCEPT ![c] =
       [op |-> "upload", number |-> uploads', size |-> size, done |-> 0,
        alone |-> \A d \in Conn : transfer[d].op # "upload", got |-> <<>>]]
  /\ stored' = [upload |-> 0, size |-> 0]
  /\ UNCHANGED <<vars, file, downloads>>

\* handle_request opens the file for writing, which truncates it, and starts
\* to read the body.
OpenUpload(c, size) ==
  /\ Serves(c)
  /\ transfer[c].op = "none"
  /\ uploads < MaxUploads
  /\ uploads' = uploads + 1
  /\ file' = <<>>
  /\ transfer' = [Disturbed EXCEPT ![c] =
       [op |-> "upload", number |-> uploads', size |-> size, done |-> 0,
        alone |-> \A d \in Conn : transfer[d].op # "upload", got |-> <<>>]]
  /\ stored' = [upload |-> 0, size |-> 0]
  /\ UNCHANGED <<vars, downloads>>

\* The file with a part written at offset i: what lies between its end and
\* the offset becomes a hole.
Written(i, part) ==
  [j \in 1..(IF i > Len(file) THEN i ELSE Len(file)) |->
     IF j = i THEN part ELSE IF j <= Len(file) THEN file[j] ELSE Hole]

\* A part of the body has arrived: it goes to this handle's offset.
WriteBody(c) ==
  /\ Serves(c)
  /\ transfer[c].op = "upload"
  /\ transfer[c].done < transfer[c].size
  /\ transfer' = [transfer EXCEPT ![c].done = @ + 1]
  /\ file' = Written(transfer'[c].done,
                     [upload |-> transfer[c].number, part |-> transfer'[c].done])
  /\ UNCHANGED <<vars, uploads, downloads, stored>>

\* Broken variant: answers when the first part has arrived.
OnReadEarly(c) ==
  /\ Serves(c)
  /\ transfer[c].op = "upload"
  /\ transfer[c].done >= 1
  /\ transfer' = [transfer EXCEPT ![c] = None]
  /\ stored' = IF transfer[c].alone
               THEN [upload |-> transfer[c].number, size |-> transfer[c].size]
               ELSE stored
  /\ UNCHANGED <<vars, file, uploads, downloads>>

\* on_read: the whole body has been read.  The upload is answered, and its
\* file closed with the handler.
on_read(c) ==
  /\ Serves(c)
  /\ transfer[c].op = "upload"
  /\ transfer[c].done = transfer[c].size
  /\ transfer' = [transfer EXCEPT ![c] = None]
  /\ stored' = IF transfer[c].alone
               THEN [upload |-> transfer[c].number, size |-> transfer[c].size]
               ELSE stored
  /\ UNCHANGED <<vars, file, uploads, downloads>>

-----------------------------------------------------------------------------
(* FileRequestHandler, asked for /upload_tmp_file.                         *)

\* The file is there from the first upload on.  Its size, read when it is
\* opened, becomes the Content-Length.
OpenDownload(c) ==
  /\ Serves(c)
  /\ transfer[c].op = "none"
  /\ uploads > 0
  /\ downloads < MaxDownloads
  /\ downloads' = downloads + 1
  /\ transfer' = [transfer EXCEPT ![c] =
       [op |-> "download", number |-> 0, size |-> Len(file), done |-> 0,
        alone |-> stored.upload # 0, got |-> <<>>]]
  /\ UNCHANGED <<vars, file, uploads, stored>>

\* The response's next part is read from the file and sent.
SendPart(c) ==
  /\ Serves(c)
  /\ transfer[c].op = "download"
  /\ transfer[c].done < transfer[c].size
  /\ transfer[c].done < Len(file)
  /\ transfer' = [transfer EXCEPT ![c].done = @ + 1,
                                  ![c].got = Append(@, file[transfer[c].done + 1])]
  /\ UNCHANGED <<vars, file, uploads, downloads, stored>>

\* The response has been written.
Sent(c) ==
  /\ Serves(c)
  /\ transfer[c].op = "download"
  /\ transfer[c].done = transfer[c].size
  /\ transfer' = [transfer EXCEPT ![c] = None]
  /\ UNCHANGED <<vars, file, uploads, downloads, stored>>

\* An upload's read fails: its client is gone or stalls for 30 seconds.
CutOffUpload(c) ==
  /\ SessionEnds(c)
  /\ transfer[c].op = "upload"
  /\ transfer' = [transfer EXCEPT ![c] = None]
  /\ UNCHANGED <<file, uploads, downloads, stored>>

\* Broken variant: a response whose file has ended early waits for more.
CutOffDownloadWaits(c) ==
  /\ SessionEnds(c)
  /\ transfer[c].op = "download"
  /\ transfer[c].done < Len(file)
  /\ transfer' = [transfer EXCEPT ![c] = None]
  /\ UNCHANGED <<file, uploads, downloads, stored>>

\* A response's write fails: as above, or the file ends before the length it
\* had when it was opened is reached.
CutOffDownload(c) ==
  /\ SessionEnds(c)
  /\ transfer[c].op = "download"
  /\ transfer' = [transfer EXCEPT ![c] = None]
  /\ UNCHANGED <<file, uploads, downloads, stored>>

\* A step of a transfer that has begun, whatever its client does.
TransferStep(c) ==
  \/ WriteBody(c) \/ on_read(c) \/ CutOffUpload(c)
  \/ SendPart(c) \/ Sent(c) \/ CutOffDownload(c)

\* The server's other steps.
ServerStep ==
  /\ \/ Launch \/ RunItself \/ StartRunReturns
     \/ \E w \in Worker : Spawn(w) \/ RunReturns(w)
     \/ \E j \in Joiner : Join(j) \/ Joined(j) \/ Returns(j)
     \/ stop \/ Signal \/ OnSignal
     \/ \E c \in Conn :
          \/ OnAccept(c) \/ Connect(c)
          \/ transfer[c].op = "none" /\ SessionEnds(c)
     \/ OnAcceptError
     \/ Terminated
  /\ UNCHANGED disk

TransfersNext ==
  \/ ServerStep
  \/ \E c \in Conn :
       \/ \E size \in 1..Parts : OpenUpload(c, size)
       \/ OpenDownload(c)
       \/ TransferStep(c)

TransfersSpec == TransfersInit /\ [][TransfersNext]_server

\* The server's fairness, and each transfer's: its timer is running.
TransfersFairSpec ==
  /\ TransfersSpec
  /\ Fairness
  /\ \A c \in Conn : WF_server(TransferStep(c))

-----------------------------------------------------------------------------
(* Properties.                                                             *)

\* An upload that shared the file with no other is stored as it was sent, when
\* it is answered and until the file is opened for the next one, whatever
\* uploads before it have left.
UploadIsStored ==
  stored.upload # 0 => file = Body(stored.upload, stored.size)

\* A download of a stored upload, with no upload opened meanwhile, promises
\* its size and sends it part by part.
DownloadIsWhole ==
  \A c \in Conn :
    transfer[c].op = "download" /\ transfer[c].alone =>
      /\ transfer[c].size = stored.size
      /\ transfer[c].got = Body(stored.upload, transfer[c].done)

\* No transfer lasts for ever, even when another connection's upload truncates
\* the file under a response that has promised more: it is finished or cut
\* off, unless the server is stopped.
TransfersEnd ==
  \A c \in Conn :
    transfer[c].op # "none" ~> transfer[c].op = "none" \/ stopped
=============================================================================
