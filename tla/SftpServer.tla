----------------------------- MODULE SftpServer -----------------------------
(***************************************************************************)
(* The SFTP server (sftp-server.c): the loop that reads requests, handles  *)
(* one at a time and writes replies, the table of handles, the requests    *)
(* that are permitted, and what each does to the files.                    *)
(*                                                                         *)
(* A file has a number (inode) and a content, 0 if it is empty and 1 if    *)
(* not; names lead to files, directories and symbolic links that lead      *)
(* nowhere.  Any system call may fail.  Attributes but for the size, and   *)
(* the names a directory lists, are left out.                              *)
(***************************************************************************)
EXTENDS Naturals, Sequences, FiniteSets

CONSTANTS
    SftpRequests,   \* requests the client may send
    InitialFiles,   \* what the names lead to at first
    SftpModes,      \* options it may be started with: readonly (-R), denied (-P), and
                    \* allowed (-p; {} if not given)
    MaxHandles,     \* bound: entries of the table
    QueueLimit,     \* messages that fit into a queue of the server
    Outstanding,    \* bound: requests that were sent and not yet handled
    MaxSftpRequests \* bound: requests of one connection

OneNameOps ==
    {"open", "opendir", "setstat", "remove", "mkdir", "rmdir", "rename", "posix-rename", "hardlink", "symlink"}
TwoNameOps == {"rename", "posix-rename", "hardlink", "symlink"}
SftpOps ==
    OneNameOps \cup {"close", "write", "fsetstat", "read", "stat", "lstat", "fstat", "readdir", "realpath",
                    "readlink", "statvfs", "fstatvfs", "fsync", "lsetstat", "unknown", "unknown extended"}

ASSUME SftpServerAssumption ==
    /\ MaxHandles \in Nat /\ QueueLimit \in Nat \ {0} /\ IsFiniteSet(DOMAIN InitialFiles)
    /\ InitialFiles \in [DOMAIN InitialFiles -> [type : {"none", "file", "dir", "link"}, ino : Nat]]
    /\ \A r \in SftpRequests :
          /\ r.op \in SftpOps
          /\ r.op \in OneNameOps => r.name \in DOMAIN InitialFiles
          /\ r.op \in TwoNameOps => r.name2 \in DOMAIN InitialFiles
    /\ \A m \in SftpModes : m.readonly \in BOOLEAN

VARIABLES
    pipe,               \* requests on their way
    iqueue, oqueue,     \* requests in the server, and how many replies
    sftpd,              \* mode, init_done, whether it has ended, requests sent so far, and
                        \* whether the last message was of an unknown type
    handles, first_unused_handle,
    names, content,     \* the file system
    told                \* for each handle the client was told of: what it stands for

sftpdVars == <<pipe, iqueue, oqueue, sftpd, handles, first_unused_handle, names, content, told>>

Nothing_f == [type |-> "none", ino |-> 0]
Inodes == DOMAIN content
Readonly == sftpd.mode.readonly
Exists(n) == names[n].type # "none"
IsFile(n) == names[n].type = "file"

----------------------------------------------------------------------------
(* Handles: the entries that are not in use form a list.                   *)

Unused(next) == [use |-> "unused", ino |-> 0, writes |-> FALSE, next |-> next]

\* Mistake: the list goes on after the entry that follows in the table.
handle_new_next(use, ino, writes) ==
    LET grown == IF first_unused_handle = 0 THEN Append(handles, Unused(0)) ELSE handles
        i == IF first_unused_handle = 0 THEN Len(grown) ELSE first_unused_handle
    IN [handles |-> [grown EXCEPT ![i] = [use |-> use, ino |-> ino, writes |-> writes, next |-> 0]],
        first |-> IF i < Len(grown) THEN i + 1 ELSE 0, handle |-> i]
\* handle_new(); handles count from 1, and 0 is -1.
handle_new(use, ino, writes) ==
    LET grown == IF first_unused_handle = 0 THEN Append(handles, Unused(0)) ELSE handles
        i == IF first_unused_handle = 0 THEN Len(grown) ELSE first_unused_handle
    IN [handles |-> [grown EXCEPT ![i] = [use |-> use, ino |-> ino, writes |-> writes, next |-> 0]],
        first |-> grown[i].next, handle |-> i]

handle_is_ok(h, use) == h \in DOMAIN handles /\ handles[h].use = use
handle_close(h) ==
    IF handle_is_ok(h, "file") \/ handle_is_ok(h, "dir")
    THEN [handles |-> [handles EXCEPT ![h] = Unused(first_unused_handle)], first |-> h, ok |-> TRUE]
    ELSE [handles |-> handles, first |-> first_unused_handle, ok |-> FALSE]

----------------------------------------------------------------------------
(* What a request does: alternatives, each with its number of replies and  *)
(* what changes.  Which status is sent is left out.                        *)

Kept ==
    [replies |-> 1, names |-> names, content |-> content, handles |-> handles,
     first |-> first_unused_handle, told |-> told]
Answered == {Kept}
Changes(fs, data) == {[Kept EXCEPT !.names = fs, !.content = data]} \cup Answered
Renames(fs) == Changes(fs, content)

\* The table is bounded here: there, only by what an unsigned int can count.
HandleFor_s(use, ino, writes, fs, data) ==
    LET h == handle_new(use, ino, writes) IN
    IF h.handle > MaxHandles THEN {}
    ELSE {[replies |-> 1, names |-> fs, content |-> data, handles |-> h.handles,
           first |-> h.first, told |-> [told EXCEPT ![h.handle] = ino]]}

\* Mistake: only the access mode is looked at.
readonly_mode_only(flags) == Readonly /\ "write" \in flags
readonly_refuses(flags) == Readonly /\ ({"write", "creat", "trunc"} \cap flags # {})

process_open(r) ==
    LET new == Len(content) + 1
        writes == "write" \in r.flags
    IN
    Answered \cup
    IF readonly_refuses(r.flags) THEN {}
    ELSE IF IsFile(r.name) /\ ~({"creat", "excl"} \subseteq r.flags)
    THEN HandleFor_s("file", names[r.name].ino, writes, names,
            IF "trunc" \in r.flags THEN [content EXCEPT ![names[r.name].ino] = 0] ELSE content)
    ELSE IF ~Exists(r.name) /\ "creat" \in r.flags
    THEN HandleFor_s("file", new, writes, [names EXCEPT ![r.name] = [type |-> "file", ino |-> new]],
            Append(content, 0))
    ELSE {}

process_close(r) ==
    LET closed == handle_close(r.handle) IN
    {[Kept EXCEPT !.handles = closed.handles, !.first = closed.first,
        !.told = IF closed.ok THEN [told EXCEPT ![r.handle] = 0] ELSE told]}

\* Requests with data or a status for their reply, that change nothing kept here.
process_read_s(r) == Answered
process_do_stat(r) == Answered
process_readdir(r) == Answered
process_realpath(r) == Answered
process_readlink(r) == Answered
process_extended_statvfs(r) == Answered
process_extended_fsync(r) == Answered
\* WRITE: the system refuses it on a file that was opened for reading.
process_write_s(r) ==
    IF handle_is_ok(r.handle, "file") /\ handles[r.handle].writes
    THEN Changes(names, [content EXCEPT ![handles[r.handle].ino] = 1]) ELSE Answered
\* FSETSTAT, with a new size.
process_fsetstat(r) ==
    IF handle_is_ok(r.handle, "file") /\ handles[r.handle].writes
    THEN Changes(names, [content EXCEPT ![handles[r.handle].ino] = 0]) ELSE Answered
process_setstat(r) ==
    IF IsFile(r.name) THEN Changes(names, [content EXCEPT ![names[r.name].ino] = 0])
    ELSE Answered

process_opendir(r) ==
    Answered \cup
    IF names[r.name].type = "dir" THEN HandleFor_s("dir", names[r.name].ino, FALSE, names, content)
    ELSE {}

process_remove(r) ==
    IF names[r.name].type \in {"file", "link"} THEN Renames([names EXCEPT ![r.name] = Nothing_f])
    ELSE Answered
process_mkdir(r) ==
    IF Exists(r.name) THEN Answered
    ELSE Changes([names EXCEPT ![r.name] = [type |-> "dir", ino |-> Len(content) + 1]],
                 Append(content, 0))
process_rmdir(r) ==
    IF names[r.name].type = "dir" THEN Renames([names EXCEPT ![r.name] = Nothing_f])
    ELSE Answered

\* rename(2) replaces what there is, if it is of the same kind.
rename(old, new) ==
    IF \/ ~Exists(old)
       \/ (names[old].type = "dir") # (names[new].type = "dir") /\ Exists(new)
    THEN Answered
    ELSE IF names[old] = names[new] THEN Answered
    ELSE Renames([names EXCEPT ![new] = names[old], ![old] = Nothing_f])
link(old, new) ==
    IF ~Exists(old) \/ names[old].type = "dir" \/ Exists(new) THEN Answered
    ELSE Renames([names EXCEPT ![new] = names[old]])
\* link() and unlink(), or without links rename(), unless the new name is taken.
xrename(old, new) ==
    IF Exists(new) THEN Answered
    ELSE Renames([names EXCEPT ![new] = names[old], ![old] = Nothing_f])
\* Mistake: what is no regular file is renamed like one.
rename_all(r) == IF ~Exists(r.name) THEN Answered ELSE rename(r.name, r.name2)
\* stat() does not find a link that leads nowhere.
process_rename(r) ==
    IF ~Exists(r.name) THEN Answered
    ELSE IF IsFile(r.name) THEN xrename(r.name, r.name2)
    ELSE IF names[r.name2].type \in {"none", "link"} THEN rename(r.name, r.name2)
    ELSE Answered
process_extended_posix_rename(r) == rename(r.name, r.name2)
process_extended_hardlink(r) == link(r.name, r.name2)
process_symlink(r) ==
    IF Exists(r.name2) THEN Answered
    ELSE Changes([names EXCEPT ![r.name2] = [type |-> "link", ino |-> Len(content) + 1]],
                 Append(content, 0))

does_write ==
    {"write", "setstat", "fsetstat", "remove", "mkdir", "rmdir", "rename", "symlink",
     "posix-rename", "hardlink", "fsync", "lsetstat"}
request_permitted(op) ==
    /\ ~(Readonly /\ op \in does_write)
    /\ op \notin sftpd.mode.denied
    /\ sftpd.mode.allowed = {} \/ op \in sftpd.mode.allowed

handler(r) ==
    CASE r.op = "open" -> process_open(r)
      [] r.op = "close" -> process_close(r)
      [] r.op = "write" -> process_write_s(r)
      [] r.op = "fsetstat" -> process_fsetstat(r)
      [] r.op = "setstat" -> process_setstat(r)
      [] r.op = "opendir" -> process_opendir(r)
      [] r.op = "remove" -> process_remove(r)
      [] r.op = "mkdir" -> process_mkdir(r)
      [] r.op = "rmdir" -> process_rmdir(r)
      [] r.op = "rename" -> process_rename(r)
      [] r.op = "posix-rename" -> process_extended_posix_rename(r)
      [] r.op = "hardlink" -> process_extended_hardlink(r)
      [] r.op = "symlink" -> process_symlink(r)
      [] r.op = "read" -> process_read_s(r)
      [] r.op \in {"stat", "lstat", "fstat"} -> process_do_stat(r)
      [] r.op = "readdir" -> process_readdir(r)
      [] r.op = "realpath" -> process_realpath(r)
      [] r.op = "readlink" -> process_readlink(r)
      [] r.op \in {"statvfs", "fstatvfs"} -> process_extended_statvfs(r)
      [] r.op \in {"fsync", "lsetstat"} -> process_extended_fsync(r)

\* Mistake: a request that is not permitted has no reply.
process_message_quiet(r) ==
    CASE r.op = "init" -> Answered
      [] r.op = "unknown" -> {[Kept EXCEPT !.replies = 0]}
      [] r.op = "unknown extended" -> Answered
      [] OTHER -> IF request_permitted(r.op) THEN handler(r) ELSE {[Kept EXCEPT !.replies = 0]}
\* Messages of an unknown type have no reply; unknown extended requests have.
process_message(r) ==
    CASE r.op = "init" -> Answered
      [] r.op = "unknown" -> {[Kept EXCEPT !.replies = 0]}
      [] r.op = "unknown extended" -> Answered
      [] OTHER -> IF request_permitted(r.op) THEN handler(r) ELSE Answered

----------------------------------------------------------------------------
(* The loop.                                                               *)

SftpSends ==
    /\ sftpd.sent < MaxSftpRequests /\ Len(pipe) + Len(iqueue) < Outstanding
    /\ \E r \in SftpRequests :
        pipe' = Append(pipe, IF sftpd.sent = 0 THEN [op |-> "init"] ELSE r)
    /\ sftpd' = [sftpd EXCEPT !.sent = @ + 1]
    /\ UNCHANGED <<iqueue, oqueue, handles, first_unused_handle, names, content, told>>

\* One turn: n requests are read and m replies written, as far as select() allows, then one
\* request is handled if its reply fits.  Before the first message anything else is fatal.
sftp_server_main ==
    \E n \in 0 .. Len(pipe), m \in 0 .. oqueue :
        LET in == iqueue \o SubSeq(pipe, 1, n)
            out == oqueue - m
            handles_one == in # <<>> /\ out < QueueLimit
        IN
        /\ ~sftpd.ended /\ n + m > 0
        /\ n > 0 => Len(iqueue) < QueueLimit /\ oqueue < QueueLimit
        /\ m = 0 => oqueue = 0 \/ n > 0
        /\ pipe' = SubSeq(pipe, n + 1, Len(pipe))
        /\ iqueue' = IF handles_one THEN Tail(in) ELSE in
        /\ IF ~handles_one \/ (~sftpd.init_done /\ Head(in).op # "init")
           THEN /\ sftpd' = [sftpd EXCEPT !.ended = handles_one]
                /\ oqueue' = out
                /\ UNCHANGED <<handles, first_unused_handle, names, content, told>>
           ELSE \E e \in process_message(Head(in)) :
                /\ oqueue' = out + e.replies
                /\ sftpd' = [sftpd EXCEPT !.init_done = TRUE, !.silent = Head(in).op = "unknown"]
                /\ handles' = e.handles /\ first_unused_handle' = e.first
                /\ names' = e.names /\ content' = e.content /\ told' = e.told

SftpServerStart(fs, mode) ==
    /\ pipe = <<>> /\ iqueue = <<>> /\ oqueue = 0 /\ handles = <<>> /\ first_unused_handle = 0
    /\ sftpd = [mode |-> mode, init_done |-> FALSE, ended |-> FALSE, sent |-> 0, silent |-> FALSE]
    /\ names = fs /\ content = [i \in 1 .. Cardinality({n \in DOMAIN fs : fs[n].ino > 0}) |-> 1]
    /\ told = [h \in 1 .. MaxHandles |-> 0]
SftpServerInit == \E mode \in SftpModes : SftpServerStart(InitialFiles, mode)

SftpServerNext == SftpSends \/ sftp_server_main

SftpServerSpec == SftpServerInit /\ [][SftpServerNext]_sftpdVars

----------------------------------------------------------------------------
(* Properties.                                                             *)

\* From first_unused_handle on the list leads through all entries that are not in use: place[h]
\* counts them from its end.
UnusedHandles == {h \in DOMAIN handles : handles[h].use = "unused"}
ListOfUnused ==
    /\ first_unused_handle = 0 <=> UnusedHandles = {}
    /\ \E place \in [UnusedHandles -> 1 .. Cardinality(UnusedHandles)] :
        /\ \A h, k \in UnusedHandles : place[h] = place[k] => h = k
        /\ \A h \in UnusedHandles :
              IF place[h] = 1 THEN handles[h].next = 0
              ELSE handles[h].next \in UnusedHandles /\ place[handles[h].next] = place[h] - 1
        /\ first_unused_handle # 0 => /\ first_unused_handle \in UnusedHandles
                                     /\ place[first_unused_handle] = Cardinality(UnusedHandles)

\* Handles are reused: each that the client was told of, and has not closed, still stands for
\* the file it was opened for, and the entries that are not in use are those of the list
\* (handle_new(), handle_close()).
HandlesSound ==
    /\ \A h \in DOMAIN handles : handles[h].ino = told[h]
    /\ ListOfUnused

\* The server does not wait for more input while it has a request to answer: there is a reply
\* to be written that ends the wait, but after a message of an unknown type, which has none
\* (sftp_server_main(), which handles one request each time select() returns).
NoRequestWaits == ~sftpd.ended /\ ~sftpd.silent /\ iqueue # <<>> => oqueue # 0

\* In read-only mode no request changes a file, whatever flags it is opened with, and no
\* handle was opened for writing (request_permitted(), process_open()).
ReadonlyKept ==
    Readonly => /\ names = InitialFiles /\ \A i \in Inodes : content[i] = 1
                /\ \A h \in DOMAIN handles : ~handles[h].writes

\* SSH2_FXP_RENAME never replaces a file or a directory, unlike posix-rename@openssh.com
\* (process_rename(), xrename()).
Reachable(fs) == {fs[n].ino : n \in {n \in DOMAIN fs : fs[n].type \in {"file", "dir"}}}
RenameReplacesNothing ==
    [][iqueue \o pipe # <<>> /\ Head(iqueue \o pipe).op = "rename"
        => Reachable(names) \subseteq Reachable(names')]_sftpdVars

(* Handles stay with their files, every complete request is answered, a read-only server
   changes nothing. *)
SftpServerSound == HandlesSound /\ NoRequestWaits /\ ReadonlyKept
=============================================================================
