----------------------------- MODULE SftpBatch -----------------------------
(***************************************************************************)
(* The sftp program (sftp.c): the words of a command line, the commands    *)
(* with their wildcards and whole trees, batch mode and the exit status.   *)
(*                                                                         *)
(* A file system is a function of paths; a path is a sequence of names and *)
(* begins with "/" if it is absolute.  One request is one step: how blocks *)
(* of a file are transferred is the subject of Sftp.                       *)
(***************************************************************************)
EXTENDS Naturals, Sequences, SequencesExt, FiniteSetsExt, Functions

CONSTANTS
    Scripts,        \* sequences of commands, see Command_s
    Destinations,   \* sftp host[:path [local]]: <<path, local>>, or <<>>
    RemoteFiles,    \* the server's files
    LocalFiles,     \* the client's files
    TypedWords,     \* words that a user quotes
    MaxDirDepth,    \* MAX_DIR_DEPTH
    MaxRefusals     \* bound: requests the server refuses

VARIABLES
    batch,          \* batchmode
    script,         \* commands still to be read
    remote, local,  \* file systems
    pwd, lcwd,      \* working directories
    cmd,            \* the command being executed
    interrupted,    \* SIGINT during this command
    refusals,       \* requests refused so far
    ran,            \* commands that ended: [c, failed, err, abort]
    exit,           \* the status of the program
    word            \* a word that is quoted

sftpbatchVars == <<batch, script, remote, local, pwd, lcwd, cmd, interrupted, refusals, ran, exit, word>>

Running == "running"
\* A command: op, dash (it begins with -), path1 and path2 (<<>> if absent), r (-r).
Command_s(op, dash, path1, path2, r) ==
    [op |-> op, dash |-> dash, path1 |-> path1, path2 |-> path2, r |-> r]

----------------------------------------------------------------------------
(* The words of a line.  Characters are strings of length 1.               *)

Wild == {"*", "?", "["}
Quotes == {"'", "\""}

\* st: the state of the automaton; esc: the character before was a backslash.
MakeArgvStep(s, ch) ==
    LET q == IF ch = "\"" THEN "dquote" ELSE "squote"
        mark == IF s.st = "squote" THEN "'" ELSE "\""
        quoted == s.st \in {"squote", "dquote"}
        begun == IF s.st = "start" THEN "unquoted" ELSE s.st
        add(t) == [s EXCEPT !.arg = @ \o t, !.st = begun, !.esc = FALSE]
    IN CASE s.st = "done" -> s
         [] s.esc /\ quoted ->
                IF ch = mark THEN add(<<ch>>)
                ELSE IF ch \in Wild THEN add(<<"\\", "\\", "\\", ch>>) ELSE add(<<"\\", ch>>)
         [] s.esc -> IF ch \in Wild \cup {"\\"} THEN add(<<"\\", ch>>) ELSE add(<<ch>>)
         [] ch = " " ->
                IF s.st = "unquoted" THEN [s EXCEPT !.argv = Append(@, s.arg), !.arg = <<>>, !.st = "start"]
                ELSE IF s.st = "start" THEN s ELSE add(<<ch>>)
         [] ch \in Quotes ->
                IF ~quoted THEN [s EXCEPT !.st = q]
                ELSE IF s.st = q THEN [s EXCEPT !.st = "unquoted"] ELSE add(<<ch>>)
         [] ch = "\\" -> [s EXCEPT !.esc = TRUE, !.st = begun]
         [] ch = "#" /\ ~quoted -> [s EXCEPT !.st = "done", !.last = s.st]
         [] OTHER -> IF quoted /\ ch \in Wild THEN add(<<"\\", ch>>) ELSE add(<<ch>>)

Unterminated == << <<"unterminated">> >>
makeargv(line) ==
    LET s == FoldLeft(MakeArgvStep, [st |-> "start", last |-> "start", esc |-> FALSE, arg |-> <<>>, argv |-> <<>>], line)
    IN IF s.st \in {"squote", "dquote"} THEN Unterminated
       ELSE IF s.st = "unquoted" \/ (s.st = "done" /\ s.last = "unquoted") THEN Append(s.argv, s.arg)
       ELSE s.argv

\* What is left of an escape: glob() drops every backslash, undo_glob_escape() those of makeargv().
UnescapeStep(keep, s, ch) ==
    IF s.esc THEN [esc |-> FALSE, out |-> s.out \o (IF ch \in keep THEN <<"\\", ch>> ELSE <<ch>>)]
    ELSE IF ch = "\\" THEN [s EXCEPT !.esc = TRUE]
    ELSE [s EXCEPT !.out = Append(@, ch)]
undo_glob_escape(arg) ==
    LET s == FoldLeft(LAMBDA x, ch : UnescapeStep({"a", " ", "#", "'", "\""}, x, ch), [esc |-> FALSE, out |-> <<>>], arg)
    IN IF s.esc THEN Append(s.out, "\\") ELSE s.out
\* The name a pattern without wildcards stands for.
globbed(arg) == FoldLeft(LAMBDA x, ch : UnescapeStep({}, x, ch), [esc |-> FALSE, out |-> <<>>], arg).out
HasWildcard(arg) ==
    \E i \in DOMAIN arg :
        arg[i] \in Wild /\ Cardinality({j \in 1..(i - 1) : \A k \in j..(i - 1) : arg[k] = "\\"}) % 2 = 0

----------------------------------------------------------------------------
(* File systems.                                                           *)

Entry(type, data) == [type |-> type, data |-> data]
Exists(fs, p) == p \in DOMAIN fs
IsDir(fs, p) == Exists(fs, p) /\ fs[p].type = "dir"
IsReg(fs, p) == Exists(fs, p) /\ fs[p].type = "file"
Children(fs, d) == {p \in DOMAIN fs : Len(p) = Len(d) + 1 /\ IsPrefix(d, p)}
Under(fs, d) == {p \in DOMAIN fs : IsPrefix(d, p)}
ParentOk(fs, p) == IsDir(fs, Front(p))
With(fs, p, e) == [q \in DOMAIN fs \cup {p} |-> IF q = p THEN e ELSE fs[q]]
Without(fs, p) == Restrict(fs, DOMAIN fs \ {p})
\* Writing to a path creates or replaces a file, if that can be.
MayWrite(fs, p) == ParentOk(fs, p) /\ ~IsDir(fs, p)

make_absolute(p, dir) == IF p # <<>> /\ p[1] = "/" THEN p ELSE dir \o p
\* glob(): a pattern whose last name may be "*".  It sorts.
Matches(fs, p) ==
    SetToSeq(IF Last(p) = "*" THEN Children(fs, Front(p)) ELSE {p} \cap DOMAIN fs)
\* GLOB_NOCHECK
OrItself(found, p) == IF found = <<>> THEN <<p>> ELSE found

----------------------------------------------------------------------------
(* Commands.  cmd.tasks are the requests to come; err is the result so far,*)
(* failed says whether a request ended with an error; torn are the uploads *)
(* with a write that was refused and forgotten.                            *)

NoCommand == [c |-> Command_s("none", FALSE, <<>>, <<>>, FALSE), abort |-> FALSE, tasks |-> <<>>,
              err |-> 0, failed |-> FALSE, want |-> {}, torn |-> {}, only |-> FALSE]
Task(t, src, dst, depth) == [t |-> t, src |-> src, dst |-> dst, depth |-> depth]

\* The destination of one of several matches.
TargetOf(m, dst, into) == IF into THEN Append(dst, Last(m)) ELSE dst
\* Files that a transfer of m to dst must leave there.
Wanted(fs, m, dst, r) ==
    IF IsDir(fs, m) /\ ~r THEN {}
    ELSE {<<p, dst \o SubSeq(p, Len(m) + 1, Len(p))>> : p \in {q \in Under(fs, m) : IsReg(fs, q)}}

Transfer(t, fs, found, dst, into, r) ==
    [i \in DOMAIN found |->
        Task(IF IsDir(fs, found[i]) /\ r THEN t \o "dir" ELSE t, found[i], TargetOf(found[i], dst, into), 0)]

Begun(c, abort, tasks, want) ==
    [NoCommand EXCEPT !.c = c, !.abort = abort /\ ~c.dash, !.tasks = tasks, !.want = want]
Refused_b(c, abort) == [Begun(c, abort, <<>>, {}) EXCEPT !.err = 1, !.failed = TRUE]

\* found: what glob() found.
process_get(c, abort, found) ==
    LET dst == IF c.path2 = <<>> THEN lcwd ELSE make_absolute(c.path2, lcwd)
        into == c.path2 = <<>> \/ IsDir(local, dst) \/ Len(found) > 1
    IN IF found = <<>> \/ (Len(found) > 1 /\ ~IsDir(local, dst))
       THEN Refused_b(c, abort)
       ELSE Begun(c, abort, Transfer("get", remote, found, dst, into, c.r),
                  UNION {Wanted(remote, found[i], TargetOf(found[i], dst, into), c.r) : i \in DOMAIN found})

\* isdir: what the server says of the destination.
process_put(c, abort, isdir) ==
    LET p == make_absolute(c.path1, lcwd)
        found == OrItself(Matches(local, p), p)
        dst == IF c.path2 = <<>> THEN pwd ELSE make_absolute(c.path2, pwd)
        into == c.path2 = <<>> \/ isdir \/ Len(found) > 1
    IN IF Len(found) > 1 /\ c.path2 # <<>> /\ ~isdir
       THEN Refused_b(c, abort)
       ELSE Begun(c, abort, Transfer("put", local, found, dst, into, c.r),
                  UNION {Wanted(local, found[i], TargetOf(found[i], dst, into), c.r) : i \in DOMAIN found})

\* Requests for each match, or for the pattern itself.
ForEach(c, abort, t, found) ==
    LET p == make_absolute(c.path1, pwd)
        targets == OrItself(found, p)
    IN Begun(c, abort, [i \in DOMAIN targets |-> Task(t, targets[i], <<>>, 0)], {})
One(c, abort, t) ==
    Begun(c, abort, <<Task(t, make_absolute(c.path1, pwd), make_absolute(c.path2, pwd), 0)>>, {})

\* A single request of a command: op and the task it is.
Single == {"mkdir", "rmdir", "rename", "ln", "cd", "df", "lcd", "lmkdir"}
Globbing == {"rm", "chmod", "chown"}

\* Only a single directory is read.
do_globbed_ls(c, abort, found) ==
    IF found = <<>> THEN Refused_b(c, abort)
    ELSE IF Len(found) = 1 /\ IsDir(remote, found[1])
    THEN Begun(c, abort, <<Task("lsdir", found[1], <<>>, 0)>>, {})
    ELSE Begun(c, abort, <<>>, {})

\* parse_args() and the switch of parse_dispatch_command(): found is what the server let glob()
\* see of path1, isdir what it says of path2.
Dispatch(c, abort, found, isdir) ==
    CASE c.op = "bad" -> Refused_b(c, abort)
      [] c.op \in {"get", "put"} /\ c.path1 = <<>> -> Refused_b(c, abort)
      [] c.op = "get" -> process_get(c, abort, found)
      [] c.op = "put" -> process_put(c, abort, isdir)
      [] c.op \in Globbing -> ForEach(c, abort, c.op, found)
      [] c.op \in Single -> One(c, abort, c.op)
      [] c.op = "ls" /\ c.path1 = <<>> -> Begun(c, abort, <<Task("lspwd", pwd, <<>>, 0)>>, {})
      [] c.op = "ls" -> do_globbed_ls(c, abort, found)
      [] OTHER -> Begun(c, abort, <<>>, {})     \* blank, quit, pwd, help, !command

\* A request that is about to be answered: refused or not.
Request(ok) ==
    /\ ok \/ refusals < MaxRefusals
    /\ refusals' = IF ok THEN refusals ELSE refusals + 1

\* Lines of the script are read one by one.
NextCommand ==
    /\ exit = Running /\ cmd = NoCommand /\ script # <<>>
    /\ \E ok \in BOOLEAN :
        LET c == Head(script)
            p == make_absolute(c.path1, pwd)
            seen == IF ok THEN Matches(remote, p) ELSE <<>>
        IN /\ Request(ok)
           /\ ok \/ c.op \in {"get", "ls", "put"} \cup Globbing
           /\ cmd' = Dispatch(c, batch, IF c.path1 = <<>> THEN <<>> ELSE seen,
                              ok /\ IsDir(remote, make_absolute(c.path2, pwd)))
    /\ script' = Tail(script) /\ interrupted' = FALSE
    /\ UNCHANGED <<batch, remote, local, pwd, lcwd, ran, exit, word>>

\* sftp host:path: cd to a directory, or get and nothing else; errors end the program.
StartAt(d) ==
    IF d = <<>> THEN NoCommand
    ELSE IF IsDir(remote, d[1]) /\ d[2] = <<>>
    THEN One(Command_s("cd", FALSE, d[1], <<>>, FALSE), TRUE, "cd")
    ELSE [process_get(Command_s("get", FALSE, d[1], d[2], FALSE), TRUE, Matches(remote, d[1])) EXCEPT !.only = TRUE]

----------------------------------------------------------------------------
(* One task.                                                               *)

\* Mistake: the result of a failed transfer is that of the last one.
LastResult(e, ok) == IF ok THEN 0 ELSE 1
\* get and put remember an error.
WorstResult(e, ok) == IF ok THEN e ELSE 1
\* The others overwrite it, and stop at the first if errors count.
TaskDone(ok, err) ==
    cmd' = [cmd EXCEPT !.err = err, !.failed = @ \/ ~ok,
                       !.tasks = IF err # 0 /\ cmd.abort /\ cmd.c.op \notin {"get", "put"} THEN <<>> ELSE Tail(@)]
Step_b(ok) == TaskDone(ok, LastResult(cmd.err, ok))
\* Of a transfer; more are the tasks that follow from it.
Transferred(ok, more) ==
    cmd' = [cmd EXCEPT !.err = WorstResult(@, ok), !.failed = @ \/ ~ok, !.tasks = more \o Tail(@)]

KeepFiles == UNCHANGED <<remote, local>>
KeepDirs == UNCHANGED <<pwd, lcwd>>

\* What may be refused: an open leaves all as it was, a read or the last write a part of the
\* file, a close the whole file.  do_upload() keeps the status of the last reply only, so that
\* a write refused before ("block") goes unnoticed.
Refusable(t) == {"open", "data", "close"} \cup (IF t.t = "put" THEN {"block"} ELSE {})
\* A file is copied, or one of its requests is refused, and the user may interrupt: then the copy
\* is short and only a download fails.
CopyFile(t, ok, stopped, fs, other) ==
    \E at \in IF ok THEN {"nothing"} ELSE Refusable(t) :
        LET can == IsReg(fs, t.src) /\ MayWrite(other, t.dst)
            opened == can /\ at # "open"
            part == stopped \/ at \in {"data", "block"}
            copy == IF opened THEN With(other, t.dst, IF part THEN Entry("file", "part") ELSE fs[t.src])
                    ELSE other
            good == opened /\ at \notin {"data", "close"} /\ ~(t.t = "get" /\ stopped)
        IN /\ stopped => opened
           /\ at \in {"data", "block", "close"} => can
           /\ interrupted' = stopped
           /\ cmd' = [cmd EXCEPT !.err = WorstResult(@, good), !.failed = @ \/ ~good,
                                 !.torn = IF at = "block" THEN @ \cup {t.dst} ELSE @,
                                 !.tasks = Tail(@)]
           /\ IF t.t = "get" THEN local' = copy /\ UNCHANGED remote
              ELSE remote' = copy /\ UNCHANGED local

\* Of the entries of a directory, other than files and directories are passed over.
ReadDir(fs, d) == SetToSeq({p \in Children(fs, d) : fs[p].type \in {"dir", "file"}})
Entries(fs, t) ==
    LET list == ReadDir(fs, t.src)
        kind == IF t.t = "getdir" THEN "get" ELSE "put"
    IN [i \in DOMAIN list |->
            Task(IF IsDir(fs, list[i]) THEN kind \o "dir" ELSE kind, list[i],
                 Append(t.dst, Last(list[i])), t.depth + 1)]
\* Entries, and the attributes of the directory after them.
DirTasks(fs, t) == Append(Entries(fs, t), Task("attributes", t.dst, <<>>, t.depth))

\* An existing file at dst goes unnoticed until something is put into it.
download_dir_internal(t, ok) ==
    LET made == t.depth < MaxDirDepth /\ (Exists(local, t.dst) \/ ParentOk(local, t.dst))
        good == made /\ ok
    IN /\ local' = IF made /\ ~Exists(local, t.dst) THEN With(local, t.dst, Entry("dir", "")) ELSE local
       /\ Transferred(good, IF good THEN DirTasks(remote, t) ELSE <<>>)
       /\ UNCHANGED <<remote, interrupted>>
\* ok: the directory is created, or else found to be there.
upload_dir_internal(t, ok) ==
    LET good == t.depth < MaxDirDepth /\ (IsDir(remote, t.dst) \/ (ok /\ MayWrite(remote, t.dst) /\ ~Exists(remote, t.dst)))
    IN /\ remote' = IF good /\ ~Exists(remote, t.dst) THEN With(remote, t.dst, Entry("dir", "")) ELSE remote
       /\ Transferred(good, IF good THEN DirTasks(local, t) ELSE <<>>)
       /\ UNCHANGED <<local, interrupted>>

do_rm(t, ok) ==
    LET good == ok /\ Exists(remote, t.src) /\ ~IsDir(remote, t.src)
    IN remote' = (IF good THEN Without(remote, t.src) ELSE remote) /\ Step_b(good) /\ UNCHANGED local
do_mkdir(t, ok) ==
    LET good == ok /\ ~Exists(remote, t.src) /\ ParentOk(remote, t.src)
    IN remote' = (IF good THEN With(remote, t.src, Entry("dir", "")) ELSE remote) /\ Step_b(good) /\ UNCHANGED local
do_rmdir(t, ok) ==
    LET good == ok /\ IsDir(remote, t.src) /\ Children(remote, t.src) = {}
    IN remote' = (IF good THEN Without(remote, t.src) ELSE remote) /\ Step_b(good) /\ UNCHANGED local
\* posix-rename replaces the file at the new name; only files are renamed here.
do_rename(t, ok) ==
    LET good == ok /\ IsReg(remote, t.src) /\ MayWrite(remote, t.dst)
    IN /\ remote' = IF good /\ t.src # t.dst THEN Without(With(remote, t.dst, remote[t.src]), t.src) ELSE remote
       /\ Step_b(good) /\ UNCHANGED local
do_hardlink(t, ok) ==
    LET good == ok /\ IsReg(remote, t.src) /\ ~Exists(remote, t.dst) /\ ParentOk(remote, t.dst)
    IN remote' = (IF good THEN With(remote, t.dst, remote[t.src]) ELSE remote) /\ Step_b(good) /\ UNCHANGED local
\* A request about the attributes of a file or the file system it is on.
Attributes(t, ok) == Step_b(ok /\ Exists(remote, t.src)) /\ KeepFiles
\* chown asks for the owners first; without that it goes on to the next unless errors count.
Chown(t, ok) ==
    LET good == ok /\ Exists(remote, t.src)
    IN (IF good \/ cmd.abort THEN Step_b(good) ELSE \E asked \in BOOLEAN : TaskDone(FALSE, IF asked THEN 1 ELSE cmd.err)) /\ KeepFiles
ChangeDir(t, ok) ==
    LET good == ok /\ IsDir(remote, t.src)
    IN pwd' = (IF good THEN t.src ELSE pwd) /\ Step_b(good) /\ UNCHANGED <<remote, local, lcwd>>
LocalChangeDir(t) ==
    LET p == make_absolute(cmd.c.path1, lcwd)
        good == IsDir(local, p)
    IN lcwd' = (IF good THEN p ELSE lcwd) /\ Step_b(good) /\ UNCHANGED <<remote, local, pwd>>
LocalMkdir(t) ==
    LET p == make_absolute(cmd.c.path1, lcwd)
        good == ~Exists(local, p) /\ ParentOk(local, p)
    IN local' = (IF good THEN With(local, p, Entry("dir", "")) ELSE local) /\ Step_b(good) /\ UNCHANGED remote
\* do_ls_dir(): its result is lost if no path was given.
ListDir(t, ok) ==
    (IF t.t = "lspwd" THEN TaskDone(ok, 0) ELSE Step_b(ok)) /\ KeepFiles

\* What an interrupt leaves to be done.
Skipped(t) == interrupted /\ t.t # "attributes"

DoTask ==
    /\ exit = Running /\ cmd # NoCommand /\ cmd.tasks # <<>>
    /\ LET t == Head(cmd.tasks)
       IN \/ /\ Skipped(t)
             /\ cmd' = [cmd EXCEPT !.tasks = Tail(@)]
             /\ KeepFiles /\ KeepDirs /\ UNCHANGED <<interrupted, refusals>>
          \/ /\ ~Skipped(t)
             /\ \E ok \in BOOLEAN :
                /\ Request(ok)
                /\ \/ t.t = "attributes" /\ Transferred(TRUE, <<>>) /\ KeepFiles /\ KeepDirs /\ UNCHANGED interrupted
                   \/ t.t = "get" /\ KeepDirs /\ \E s \in BOOLEAN : CopyFile(t, ok, s, remote, local)
                   \/ t.t = "put" /\ KeepDirs /\ \E s \in BOOLEAN : CopyFile(t, ok, s, local, remote)
                   \/ t.t = "getdir" /\ KeepDirs /\ download_dir_internal(t, ok)
                   \/ t.t = "putdir" /\ KeepDirs /\ upload_dir_internal(t, ok)
                   \/ t.t = "rm" /\ KeepDirs /\ do_rm(t, ok) /\ UNCHANGED interrupted
                   \/ t.t = "mkdir" /\ KeepDirs /\ do_mkdir(t, ok) /\ UNCHANGED interrupted
                   \/ t.t = "rmdir" /\ KeepDirs /\ do_rmdir(t, ok) /\ UNCHANGED interrupted
                   \/ t.t = "rename" /\ KeepDirs /\ do_rename(t, ok) /\ UNCHANGED interrupted
                   \/ t.t = "ln" /\ KeepDirs /\ do_hardlink(t, ok) /\ UNCHANGED interrupted
                   \/ t.t \in {"chmod", "df"} /\ KeepDirs /\ Attributes(t, ok) /\ UNCHANGED interrupted
                   \/ t.t = "chown" /\ KeepDirs /\ Chown(t, ok) /\ UNCHANGED interrupted
                   \/ t.t = "cd" /\ ChangeDir(t, ok) /\ UNCHANGED interrupted
                   \/ t.t = "lcd" /\ ok /\ LocalChangeDir(t) /\ UNCHANGED interrupted
                   \/ t.t = "lmkdir" /\ ok /\ KeepDirs /\ LocalMkdir(t) /\ UNCHANGED interrupted
                   \/ t.t \in {"lspwd", "lsdir"} /\ KeepDirs /\ ListDir(t, ok) /\ UNCHANGED interrupted
    /\ UNCHANGED <<batch, script, ran, exit, word>>

\* The end of parse_dispatch_command() and of a round of interactive_loop().
CommandEnds ==
    /\ exit = Running /\ cmd # NoCommand /\ cmd.tasks = <<>>
    /\ ran' = Append(ran, [c |-> cmd.c, failed |-> cmd.failed, abort |-> cmd.abort])
    /\ exit' = IF cmd.abort /\ cmd.err # 0 THEN "1"
               ELSE IF cmd.c.op = "quit" \/ cmd.only THEN "0" ELSE Running
    /\ cmd' = NoCommand
    /\ UNCHANGED <<batch, script, remote, local, pwd, lcwd, interrupted, refusals, word>>
EndOfScript ==
    /\ exit = Running /\ cmd = NoCommand /\ script = <<>>
    /\ exit' = "0"
    /\ UNCHANGED <<batch, script, remote, local, pwd, lcwd, cmd, interrupted, refusals, ran, word>>
\* get_msg(): the connection is gone.
ConnectionClosed ==
    /\ exit = Running /\ cmd.tasks # <<>>
    /\ exit' = "255"
    /\ UNCHANGED <<batch, script, remote, local, pwd, lcwd, cmd, interrupted, refusals, ran, word>>

SftpBatchStart(b, s, d, w) ==
    /\ batch = b /\ script = s /\ word = w
    /\ remote = RemoteFiles /\ local = LocalFiles
    /\ pwd = <<"/">> /\ lcwd = <<"/">>
    /\ cmd = StartAt(d) /\ interrupted = FALSE /\ refusals = 0 /\ ran = <<>>
    /\ exit = Running
SftpBatchInit ==
    \/ \E b \in BOOLEAN, s \in Scripts : SftpBatchStart(b, s, <<>>, <<>>)
    \/ \E s \in Scripts, d \in Destinations : SftpBatchStart(FALSE, s, d, <<>>)
    \/ \E w \in TypedWords : SftpBatchStart(FALSE, <<>>, <<>>, w)
SftpBatchNext == NextCommand \/ DoTask \/ CommandEnds \/ EndOfScript \/ ConnectionClosed

----------------------------------------------------------------------------
(* Properties.                                                             *)

\* An error counts in batch mode unless the line begins with "-"; the result of ls without a
\* path does not.
Counts(r) == r.abort /\ r.failed /\ ~(r.c.op = "ls" /\ r.c.path1 = <<>>)
\* Batch mode: whatever file or request of a command failed, first or last of many, the command
\* is the last one that is executed and the program says so (sftp.c:1781).  A refused write
\* that a later reply of the same upload covers is no failure (sftp-client.c:1794).
BatchStops ==
    \A i \in DOMAIN ran : Counts(ran[i]) => i = Len(ran) /\ exit = "1"
\* ... and the exit status is 1 for no other reason.
StatusMeansFailure == exit = "1" => Counts(Last(ran))

\* A transfer that reports no error and was not interrupted has copied every regular file of
\* every tree it was asked for, and each of them whole unless a write of that very file was
\* refused and followed by a good reply (sftp-client.c:1517, 1794, 1851).
TreesCopied ==
    (cmd.tasks = <<>> /\ cmd.err = 0 /\ ~interrupted) =>
        \A w \in cmd.want :
            IF cmd.c.op = "get" THEN Exists(local, w[2]) /\ local[w[2]] = remote[w[1]]
            ELSE Exists(remote, w[2]) /\ (w[2] \in cmd.torn \/ remote[w[2]] = local[w[1]])

\* A word in quotes, or with a backslash before every special character, is one argument that
\* stands for itself, whether it goes through glob() or undo_glob_escape().
Written ==
    {<<q>> \o word \o <<q>> : q \in IF ToSet(word) \cap (Quotes \cup {"\\"}) = {} THEN Quotes ELSE {}}
    \cup (IF word = <<>> THEN {}
          ELSE {FlattenSeq([i \in DOMAIN word |-> IF word[i] = "a" THEN <<"a">> ELSE <<"\\", word[i]>>])})
WordsExact ==
    \A line \in Written :
        LET argv == makeargv(<<"a", " ">> \o line \o <<" ", "#", "a">>)
        IN /\ Len(argv) = 2 /\ argv[1] = <<"a">>
           /\ undo_glob_escape(argv[2]) = word
           /\ globbed(argv[2]) = word /\ ~HasWildcard(argv[2])

CommandsSound == BatchStops /\ StatusMeansFailure /\ TreesCopied /\ WordsExact
=============================================================================
