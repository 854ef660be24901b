-------------------------------- MODULE Sftp --------------------------------
(***************************************************************************)
(* File transfers of sftp: do_download() and do_upload() of sftp-client.c  *)
(* with several requests under way, against process_read() and             *)
(* process_write() of sftp-server.c, for one file that is fetched or       *)
(* stored again and again, from the start or where an earlier transfer     *)
(* ended.                                                                  *)
(*                                                                         *)
(* The file to be copied holds 1, 2, ..., FileSize; its copy is a sequence *)
(* of such values and Hole, so a value tells where in the file it is from. *)
(* A request whose reply is awaited at once (STAT, OPEN, CLOSE) is one     *)
(* step, and fatal if another reply is still under way.                    *)
(***************************************************************************)
EXTENDS Integers, Sequences, FiniteSets

CONSTANTS
  Directions,             \* of the transfers: "download", "upload"
  DownloadSize,           \* of the remote file
  UploadSize,             \* of the local file
  transfer_buflen,
  num_requests,
  MIN_READ_SIZE,
  Reordering,             \* directions in which the server may reorder requests
  MaxCommands,            \* bounds: transfers,
  MaxReadFails,           \* reads the server fails,
  MaxWriteFails           \* and writes to the copy that fail

ASSUME SftpAssumption ==
  /\ Directions \subseteq {"download", "upload"} /\ Reordering \subseteq Directions
  /\ DownloadSize \in Nat /\ UploadSize \in Nat /\ transfer_buflen \in Nat \ {0} /\ num_requests \in Nat \ {0}
  /\ MIN_READ_SIZE \in 1 .. transfer_buflen
  /\ MaxCommands \in Nat /\ MaxReadFails \in Nat /\ MaxWriteFails \in Nat

VARIABLES
  dir,          \* which of the two this behaviour is about
  c,            \* the client: struct sftp_conn, the locals of the transfer, its result
  requests,     \* the client's requests that are not answered, found by their id
  toServer, toClient,
  handle,       \* the server's handle: how it was opened, or "unused"
  copy,         \* the file that is written
  fails         \* history: failed reads and writes, and writes of this transfer

vars == <<dir, c, requests, toServer, toClient, handle, copy, fails>>

Hole == 0
FileSize == IF dir = "download" THEN DownloadSize ELSE UploadSize
Source == [i \in 1 .. FileSize |-> i]

MinOf(a, b) == IF a < b THEN a ELSE b
MaxOf(a, b) == IF a > b THEN a ELSE b

\* lseek(offset) and write(data): beyond the end the file gets a hole.
Written(file, offset, data) ==
  IF data = <<>> THEN file
  ELSE [i \in 1 .. MaxOf(Len(file), offset + Len(data)) |->
          IF i \in offset + 1 .. offset + Len(data) THEN data[i - offset]
          ELSE IF i <= Len(file) THEN file[i] ELSE Hole]

ftruncate(file, size) ==
  [i \in 1 .. size |-> IF i <= Len(file) THEN file[i] ELSE Hole]

\* Nothing is under way: a reply that arrives answers the request sent last.
Quiet == toServer = <<>> /\ toClient = <<>>

Fatal(client) == [client EXCEPT !.phase = "fatal"]

\* The transfer returns; calls: requests made since msg_id was last counted.
Returned(client, result, calls) ==
  [client EXCEPT !.phase = "idle", !.result = result, !.msg_id = @ + calls]

Without(id) == {q \in requests : q.id # id}

\* The loop that reads commands resets interrupted.
Command(resume) ==
  [c EXCEPT !.commands = @ + 1, !.interrupted = FALSE, !.resume = resume, !.phase = "loop",
            !.result = "none", !.status = "OK"]

\* Mutant: the size of the copy is not asked for.
resume_at_zero(resume) == 0

\* Where a transfer begins.
ResumeAt(resume) == IF resume THEN Len(copy) ELSE 0

MayCommand(d) == dir = d /\ c.phase = "idle" /\ c.commands < MaxCommands

(***************************************************************************)
(* do_download()                                                           *)
(***************************************************************************)
\* Mutant: the handle stays open if the local file cannot be used.
no_close_on_failure(usable, opened) == IF opened # "none" THEN "read" ELSE "unused"

\* The way out through "fail:" closes the handle.
HandleFor(usable, opened) == IF usable THEN "read" ELSE "unused"

\* Until the loop.  size: what STAT said, 0 if it did not say; opened: which files could be
\* opened.  A copy larger than the file is not resumed.
do_download(resume, size, opened) ==
  LET start == ResumeAt(resume)
      usable == opened = "both" /\ start <= size
  IN /\ c' = IF usable
             THEN [Command(resume) EXCEPT
                     !.msg_id = @ + 2, !.size = size, !.offset = start, !.highwater = start,
                     !.buflen = transfer_buflen, !.max_req = 1,
                     !.read_error = FALSE, !.write_error = FALSE, !.reordered = FALSE]
             ELSE Returned(Command(resume), "failed", IF opened = "none" THEN 2 ELSE 3)
     /\ handle' = HandleFor(usable, opened)
     /\ copy' = IF opened = "both" /\ ~resume THEN <<>> ELSE copy

\* Requests are sent as long as there may be more.
ReadRequests(n) ==
  [i \in 1 .. n |-> [type |-> "READ", id |-> c.msg_id + i - 1, len |-> c.buflen,
                     offset |-> c.offset + (i - 1) * c.buflen]]

\* The loop, until a reply is awaited.
download_send ==
  LET max_req == IF c.interrupted THEN 0 ELSE c.max_req
      num_req == Cardinality(requests)
      n == MaxOf(0, max_req - num_req)
  IN /\ dir = "download" /\ c.phase = "loop"
     /\ IF num_req = 0 /\ (c.max_req = 0 \/ c.interrupted)
        THEN c' = [c EXCEPT !.phase = "end"] /\ UNCHANGED <<requests, toServer>>
        ELSE /\ c' = [c EXCEPT !.phase = "wait", !.max_req = max_req, !.msg_id = @ + n,
                               !.offset = @ + n * c.buflen]
             /\ requests' = requests \cup {ReadRequests(n)[i] : i \in 1 .. n}
             /\ toServer' = toServer \o ReadRequests(n)
     /\ UNCHANGED <<dir, toClient, handle, copy, fails>>

\* Mutant: no limit.
window_unbounded(max_req, offset) ==
  IF max_req = 0 THEN 0
  ELSE IF c.size > 0 /\ offset > c.size THEN 1 ELSE max_req + 1

\* max_req after a block: one more each time, one request at a time beyond the end.
Window(max_req, offset) ==
  IF max_req = 0 THEN 0
  ELSE IF c.size > 0 /\ offset > c.size THEN 1
  ELSE IF max_req < num_requests THEN max_req + 1 ELSE max_req

\* Mutant: blocks that are out of order raise the mark.
highwater_any(client, offset, len, n) ==
  IF n # len /\ ~client.write_error THEN [client EXCEPT !.write_error = TRUE, !.max_req = 0]
  ELSE [client EXCEPT !.highwater = MaxOf(@, offset + len)]

\* After the write of a block.  A second failure is not noticed.
BlockWritten(client, offset, len, n) ==
  IF n # len /\ ~client.write_error THEN [client EXCEPT !.write_error = TRUE, !.max_req = 0]
  ELSE IF client.reordered THEN client
  ELSE IF offset <= client.highwater THEN [client EXCEPT !.highwater = offset + len]
  ELSE [client EXCEPT !.reordered = TRUE]

\* Mutant: what is missing of a short block is not asked for.
short_is_done(q, len) ==
  /\ requests' = Without(q.id)
  /\ UNCHANGED toServer

\* A block shorter than asked for: the rest is requested under a new id.
ShortBlock(q, len) ==
  LET rest == [q EXCEPT !.id = c.msg_id, !.len = @ - len, !.offset = @ + len]
  IN /\ requests' = Without(q.id) \cup {rest}
     /\ toServer' = Append(toServer, rest)

\* n: how much of the block reaches the local file.
download_data(q, data, n) ==
  LET len == Len(data)
      c1 == BlockWritten(c, q.offset, len, n)
      short == len < q.len
      c2 == [c1 EXCEPT !.phase = "loop", !.msg_id = IF short THEN @ + 1 ELSE @,
                       !.buflen = IF short /\ len < @ THEN MaxOf(MIN_READ_SIZE, len) ELSE @]
  IN /\ n < len => fails.write < MaxWriteFails
     /\ copy' = Written(copy, q.offset, SubSeq(data, 1, n))
     /\ c' = [c2 EXCEPT !.max_req = Window(@, c.offset)]
     /\ fails' = IF n < len THEN [fails EXCEPT !.write = @ + 1, !.here = @ + 1] ELSE fails
     /\ IF short THEN ShortBlock(q, len) ELSE requests' = Without(q.id) /\ UNCHANGED toServer

download_status(q, status) ==
  /\ c' = [c EXCEPT !.phase = "loop", !.max_req = 0, !.read_error = @ \/ status # "EOF"]
  /\ requests' = Without(q.id)
  /\ UNCHANGED <<toServer, copy, fails>>

download_reply ==
  LET r == Head(toClient)
  IN /\ dir = "download" /\ c.phase = "wait" /\ toClient # <<>>
     /\ toClient' = Tail(toClient)
     /\ IF \A q \in requests : q.id # r.id
        THEN c' = Fatal(c) /\ UNCHANGED <<requests, toServer, copy, fails>>
        ELSE \E q \in requests :
               /\ q.id = r.id
               /\ \/ r.status # "DATA" /\ download_status(q, r.status)
                  \/ /\ r.status = "DATA"
                     /\ \E n \in 0 .. Len(r.data) : download_data(q, r.data, n)
     /\ UNCHANGED <<dir, handle>>

\* After the loop.  A signal may arrive between the two tests of interrupted, and CLOSE
\* may fail.
download_end ==
  /\ dir = "download" /\ c.phase = "end"
  /\ \E late \in {TRUE, c.interrupted}, closed \in BOOLEAN :
       LET ok == ~c.read_error /\ ~c.write_error /\ ~late /\ closed
       IN c' = IF ~Quiet THEN Fatal(c)
               ELSE Returned([c EXCEPT !.interrupted = late], IF ok THEN "ok" ELSE "failed", 1)
  /\ copy' = IF c.read_error \/ c.write_error \/ c.interrupted
             THEN ftruncate(copy, c.highwater) ELSE copy
  /\ handle' = "unused"
  /\ UNCHANGED <<dir, requests, toServer, toClient, fails>>

(***************************************************************************)
(* do_upload()                                                             *)
(***************************************************************************)
\* Until the loop.  Only a copy smaller than the file is resumed.
do_upload(resume, opened) ==
  LET size == ResumeAt(resume)
      usable == opened /\ (resume => size < FileSize)
      id == c.msg_id + (IF resume THEN 1 ELSE 0)
  IN /\ c' = IF usable
             THEN [Command(resume) EXCEPT !.msg_id = id + 1, !.id = id, !.startid = id + 1,
                                          !.ackid = id + 1, !.offset = size]
             ELSE Returned(Command(resume), "failed", IF resume /\ ~opened THEN 2 ELSE 1)
     /\ handle' = IF ~usable THEN "unused" ELSE IF resume THEN "append" ELSE "write"
     /\ copy' = IF usable /\ ~resume THEN <<>> ELSE copy

\* Mutant: one more request than there may be.
must_wait_late(id, len) == id = c.startid \/ len = 0 \/ id - c.ackid > num_requests

\* A reply is awaited before more is sent.
MustWait(id, len) == id = c.startid \/ len = 0 \/ id - c.ackid >= num_requests

\* Mutant: the first failure ends the loop.
upload_over_early(len) == len = 0 /\ (requests = {} \/ c.status # "OK")

\* Mutant: only the end of the file ends the loop.
upload_over_eof(len) == len = 0 /\ requests = {} /\ c.offset = FileSize

\* Nothing more to send and nothing outstanding.
upload_over(len) == len = 0 /\ requests = {}

\* One round of the loop, until a reply is awaited.
upload_send ==
  LET len == IF c.interrupted \/ c.status # "OK" THEN 0
             ELSE MinOf(transfer_buflen, FileSize - c.offset)
      id == IF len # 0 THEN c.id + 1 ELSE c.id
      ack == [type |-> "WRITE", id |-> id, len |-> len, offset |-> c.offset]
  IN /\ dir = "upload" /\ c.phase = "loop"
     /\ IF upload_over(len)
        THEN c' = [c EXCEPT !.phase = "end"] /\ UNCHANGED <<requests, toServer>>
        ELSE /\ c' = [c EXCEPT !.phase = IF MustWait(id, len) THEN "wait" ELSE "loop",
                               !.id = id, !.offset = @ + len]
             /\ requests' = IF len # 0 THEN requests \cup {ack} ELSE requests
             /\ toServer' = IF len # 0 THEN Append(toServer, ack) ELSE toServer
     /\ UNCHANGED <<dir, toClient, handle, copy, fails>>

upload_reply ==
  LET r == Head(toClient)
  IN /\ dir = "upload" /\ c.phase = "wait" /\ toClient # <<>>
     /\ toClient' = Tail(toClient)
     /\ IF \E q \in requests : q.id = r.id
        THEN /\ c' = [c EXCEPT !.phase = "loop", !.status = r.status, !.ackid = @ + 1]
             /\ requests' = Without(r.id)
        ELSE c' = Fatal(c) /\ UNCHANGED requests
     /\ UNCHANGED <<dir, toServer, handle, copy, fails>>

upload_end ==
  /\ dir = "upload" /\ c.phase = "end"
  /\ \E closed \in BOOLEAN :
       c' = IF ~Quiet THEN Fatal(c)
            ELSE Returned(c, IF c.status = "OK" /\ closed THEN "ok" ELSE "failed", 1)
  /\ handle' = "unused"
  /\ UNCHANGED <<dir, requests, toServer, toClient, copy, fails>>

(***************************************************************************)
(* The server.                                                             *)
(***************************************************************************)
Reply(id, status, data) ==
  toClient' = Append(toClient, [id |-> id, status |-> status, data |-> data])

\* A read may return less than was asked for.
process_read(q) ==
  /\ IF handle # "read" THEN Reply(q.id, "FAILURE", <<>>) /\ UNCHANGED fails
     ELSE \/ /\ q.offset < FileSize
             /\ \E n \in 1 .. MinOf(q.len, FileSize - q.offset) :
                  Reply(q.id, "DATA", SubSeq(Source, q.offset + 1, q.offset + n))
             /\ UNCHANGED fails
          \/ /\ q.offset >= FileSize
             /\ Reply(q.id, "EOF", <<>>) /\ UNCHANGED fails
          \/ /\ fails.read < MaxReadFails
             /\ Reply(q.id, "FAILURE", <<>>) /\ fails' = [fails EXCEPT !.read = @ + 1]
  /\ UNCHANGED copy

\* n: how much is written; a file opened for appending is not positioned.
process_write(q) ==
  IF handle \in {"write", "append"}
  THEN \E n \in 0 .. q.len :
         /\ n < q.len => fails.write < MaxWriteFails
         /\ Reply(q.id, IF n = q.len THEN "OK" ELSE "FAILURE", <<>>)
         /\ fails' = IF n < q.len THEN [fails EXCEPT !.write = @ + 1, !.here = @ + 1] ELSE fails
         /\ copy' = Written(copy, IF handle = "append" THEN Len(copy) ELSE q.offset,
                            SubSeq(Source, q.offset + 1, q.offset + n))
  ELSE Reply(q.id, "FAILURE", <<>>) /\ UNCHANGED <<fails, copy>>

\* One request, the first unless the server reorders them.
process ==
  /\ \E i \in DOMAIN toServer :
       /\ i = 1 \/ dir \in Reordering
       /\ toServer' = SubSeq(toServer, 1, i - 1) \o SubSeq(toServer, i + 1, Len(toServer))
       /\ \/ toServer[i].type = "READ" /\ process_read(toServer[i])
          \/ toServer[i].type = "WRITE" /\ process_write(toServer[i])
  /\ UNCHANGED <<dir, c, requests, handle>>

(***************************************************************************)
(* Init, Next and the specification.                                       *)
(***************************************************************************)
Init ==
  /\ dir \in Directions
  /\ c = [phase |-> "idle", result |-> "none", commands |-> 0, interrupted |-> FALSE,
          resume |-> FALSE, msg_id |-> 1, offset |-> 0, size |-> 0, buflen |-> transfer_buflen,
          max_req |-> 0, highwater |-> 0, reordered |-> FALSE, read_error |-> FALSE,
          write_error |-> FALSE, status |-> "OK", id |-> 0, startid |-> 0, ackid |-> 0]
  /\ requests = {} /\ toServer = <<>> /\ toClient = <<>>
  /\ handle = "unused" /\ copy = <<>>
  /\ fails = [read |-> 0, write |-> 0, here |-> 0]

get ==
  /\ MayCommand("download")
  /\ \E resume \in BOOLEAN, size \in {0, FileSize}, opened \in {"both", "remote", "none"} :
       do_download(resume, size, opened)
  /\ fails' = [fails EXCEPT !.here = 0]
  /\ UNCHANGED <<dir, requests, toServer, toClient>>

put ==
  /\ MayCommand("upload")
  /\ \E resume \in BOOLEAN, opened \in BOOLEAN : do_upload(resume, opened)
  /\ fails' = [fails EXCEPT !.here = 0]
  /\ UNCHANGED <<dir, requests, toServer, toClient>>

\* SIGINT
cmd_interrupt ==
  /\ c.phase \in {"loop", "wait", "end"} /\ ~c.interrupted
  /\ c' = [c EXCEPT !.interrupted = TRUE]
  /\ UNCHANGED <<dir, requests, toServer, toClient, handle, copy, fails>>

Next ==
  \/ get \/ download_send \/ download_reply \/ download_end
  \/ put \/ upload_send \/ upload_reply \/ upload_end
  \/ process
  \/ cmd_interrupt

Spec == Init /\ [][Next]_vars

\* The client goes on with a transfer and the server with requests; nobody must interrupt.
FairSpec ==
  /\ Spec
  /\ WF_vars(download_send \/ download_reply \/ download_end)
  /\ WF_vars(upload_send \/ upload_reply \/ upload_end)
  /\ WF_vars(process)

(***************************************************************************)
(* Properties.                                                             *)
(***************************************************************************)
IsPrefixOf(s, t) == Len(s) <= Len(t) /\ s = SubSeq(t, 1, Len(s))

\* Types, and requests that were sent are of the transfer under way.
TypeOK ==
  /\ dir \in Directions
  /\ c.phase \in {"idle", "loop", "wait", "end", "fatal"}
  /\ c.result \in {"none", "ok", "failed"} /\ c.commands \in 0 .. MaxCommands
  /\ c.max_req \in 0 .. num_requests /\ c.buflen \in MIN_READ_SIZE .. transfer_buflen
  /\ c.highwater \in 0 .. FileSize /\ c.offset \in Nat
  /\ \A i \in DOMAIN copy : copy[i] \in {Hole} \cup 1 .. FileSize
  /\ handle \in {"unused", "read", "write", "append"}
  /\ \A i \in DOMAIN toServer : toServer[i].len \in 1 .. transfer_buflen
  /\ c.phase \in {"idle", "end"} => requests = {}

\* No reply arrives that the client does not expect, however requests are reordered,
\* repeated with new ids or abandoned: every one is drained before the next command
\* (sftp-client.c:do_download, do_upload, get_status).
RepliesExpected == c.phase # "fatal"

\* A handle is open exactly while a transfer runs, on every way out of it
\* (sftp-client.c:do_close).
HandleClosed == c.phase = "idle" => handle = "unused"

\* A download that reports success has produced the whole file, after any number of
\* earlier attempts, short reads and reordered blocks, unless two writes have failed
\* (sftp-client.c:do_download).
DownloadFaithful ==
  /\ dir = "download" /\ c.phase = "idle" /\ c.result = "ok" /\ fails.write <= 1
  => copy = Source

\* sftp-client.c: a download that fails or is interrupted is truncated "at highest
\* contiguous point to avoid holes".
NoHoles == dir = "download" /\ c.phase = "idle" => IsPrefixOf(copy, Source)

\* So it is as long as no second write fails.
NoHolesButForSecondFailure == fails.write <= 1 => NoHoles

\* Unless a write has failed, the remote copy is after every upload, resumed or
\* interrupted, a prefix of the file, and all of it if success is reported without an
\* interrupt (sftp-client.c:do_upload).
UploadFaithful ==
  dir = "upload" /\ fails.write = 0 =>
    /\ c.phase = "idle" => IsPrefixOf(copy, Source)
    /\ c.phase = "idle" /\ c.result = "ok" /\ ~c.interrupted => copy = Source

\* sftp.1 lets put fail: an upload in which the server failed a write is not successful.
UploadFailureReported ==
  dir = "upload" /\ c.phase = "idle" /\ fails.here > 0 => c.result # "ok"

\* No more than num_requests requests are under way, one more for uploads
\* (sftp-client.c:do_download, do_upload).
PipelineBounded ==
  Len(toServer) + Len(toClient) <= num_requests + (IF dir = "upload" THEN 1 ELSE 0)

\* Every transfer ends (sftp-client.c:do_download, do_upload).
TransferEnds == c.phase # "idle" ~> c.phase = "idle"


(* Each reply belongs to a request under way, the remote handle is closed, and a transfer
   that is reported as complete has copied the file, whatever the order of replies. *)
TransfersSound ==
  /\ RepliesExpected /\ HandleClosed
  /\ DownloadFaithful /\ NoHolesButForSecondFailure /\ UploadFaithful
=============================================================================
