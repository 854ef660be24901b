------------------------------ MODULE Keygen ------------------------------
(***************************************************************************)
(* ssh-keygen and ssh-add at work on the files of one directory:           *)
(* generating key pairs and host keys, changing passphrases and comments,  *)
(* issuing certificates, rewriting known_hosts, and loading identities     *)
(* into the agent (ssh-keygen.c, ssh-add.c, misc.c:xrename()).             *)
(*                                                                         *)
(* A command is a queue of system calls.  Each may fail, and the program   *)
(* may be killed between any two.  A path is a pair of a base name and a   *)
(* suffix.  A number stands for a key pair.                                *)
(***************************************************************************)
EXTENDS Naturals, Sequences, SequencesExt, FiniteSets

CONSTANTS
    HostkeyNames,   \* key_types[]: base names of the host keys, a sequence
    UserNames,      \* base names of user keys
    Words,          \* passphrases; "" is none
    KnownHosts,     \* contents known_hosts may have: sequences of lines
    Invocations,    \* sets of flags the programs are called with
    Serials,        \* first serial numbers of certificates
    MaxKeys,        \* bound on key pairs generated
    MaxCommands     \* bound on commands run

VARIABLES
    fs,             \* path -> contents
    todo,           \* system calls the running command has left
    job,            \* what the running or last command is, and how it ended
    agentids,       \* identities the agent holds: <<key, serial or 0>>
    cached,         \* pass: the passphrase ssh-add keeps for the next file
    made,           \* key pairs generated so far
    commands        \* commands run so far
keygenVars == <<fs, todo, job, agentids, cached, made, commands>>

HostkeySet == Range(HostkeyNames)
AllPaths ==
    ((HostkeySet \cup UserNames) \X {"", ".pub", "-cert.pub", ".tmp", ".pub.tmp"})
    \cup ({"known_hosts"} \X {"", ".old", ".tmp"})
Absent == [kind |-> "none"]
Zero == [kind |-> "empty"]
PrivateFile(key, pass, comment) == [kind |-> "private", key |-> key, pass |-> pass, comment |-> comment]
PublicFile(key, comment) == [kind |-> "public", key |-> key, comment |-> comment]
CertFile(key, serial) == [kind |-> "cert", key |-> key, serial |-> serial]
HostsFile(lines) == [kind |-> "hosts", lines |-> lines]

Call(op, path) == [op |-> op, path |-> path]
Idle == [name |-> "none", end |-> "ok", arg |-> <<>>]

----------------------------------------------------------------------------
(* System calls.                                                           *)

Put(path, f) == fs' = [fs EXCEPT ![path] = f]
Continue == todo' = Tail(todo)
(* exit(): the rest of the command is not done. *)
Exit(end) == todo' = <<>> /\ job' = [job EXCEPT !.end = end]
(* A host key that fails is left, the next one is tried. *)
FailNext ==
    LET rest == {i \in DOMAIN todo : i > 1 /\ todo[i].op = "hostkey"}
    IN IF rest = {} THEN Exit("ok")
       ELSE /\ todo' = SubSeq(todo, CHOOSE i \in rest : \A j \in rest : i <= j, Len(todo))
            /\ UNCHANGED job
GiveUp == IF job.name = "hostkeys" THEN FailNext ELSE Exit("failed")
Rest == <<agentids, cached, made, commands>>

(* Truncated, then written; an error while writing removes the file. *)
SavePrivate(c) ==
    \/ fs[c.path] # Zero /\ Put(c.path, Zero) /\ UNCHANGED <<todo, job>>
    \/ fs[c.path] = Zero /\ Put(c.path, PrivateFile(c.key, c.pass, c.comment)) /\ Continue /\ UNCHANGED job
    \/ fs[c.path] = Zero /\ Put(c.path, Absent) /\ GiveUp
    \/ UNCHANGED fs /\ GiveUp

(* Nothing is flushed before fclose(), whose answer is not looked at: a full
   disk leaves an empty file and no error.  ssh-keygen ends on an error. *)
SavePublic(c) ==
    \/ Put(c.path, c.content) /\ Continue /\ UNCHANGED job
    \/ Put(c.path, Zero) /\ Continue /\ UNCHANGED job
    \/ UNCHANGED fs /\ Exit("failed")

Rename(c) ==
    \/ fs' = [fs EXCEPT ![c.to] = fs[c.path], ![c.path] = Absent] /\ Continue /\ UNCHANGED job
    \/ UNCHANGED fs /\ GiveUp

(* known_hosts: the backup is a link, then the old name goes; the new file takes
   its place; when that fails both copies are removed. *)
Unlink(c) ==
    \/ Put(c.path, Absent) /\ Continue /\ UNCHANGED job
    \/ fs[c.path] # Absent /\ UNCHANGED fs /\ Exit("failed")
xrename(c) ==
    \/ fs[c.to] = Absent /\ Put(c.to, fs[c.path]) /\ Continue /\ UNCHANGED job
    \/ UNCHANGED fs /\ Exit("failed")
xrename_unlink(c) ==
    \/ Put(c.path, Absent) /\ Continue /\ UNCHANGED job
    \/ Put(c.to, Absent) /\ Exit("failed")
PutInPlace(c) ==
    \/ fs' = [fs EXCEPT ![c.to] = fs[c.path], ![c.path] = Absent] /\ Continue /\ UNCHANGED job
    \/ fs' = [fs EXCEPT ![c.path] = Absent, ![c.old] = Absent] /\ Exit("both_removed")

----------------------------------------------------------------------------
(* Host keys (-A).                                                         *)

InstallHostkey(name, key) ==
    LET tmp == <<name, ".tmp">>
        pubtmp == <<name, ".pub.tmp">>
    IN <<[op |-> "save_private", path |-> tmp, key |-> key, pass |-> "", comment |-> "c"],
         [op |-> "save_public", path |-> pubtmp, content |-> PublicFile(key, "c")],
         [op |-> "rename", path |-> pubtmp, to |-> <<name, ".pub">>],
         [op |-> "rename", path |-> tmp, to |-> <<name, "">>]>>
(* Mutant: the private key is put in place before the public one. *)
install_private_first(name, key) ==
    LET c == InstallHostkey(name, key) IN <<c[1], c[2], c[4], c[3]>>
MoveIntoPlace(name, key) == InstallHostkey(name, key)

do_gen_all_hostkeys == [i \in DOMAIN HostkeyNames |-> Call("hostkey", <<HostkeyNames[i], "">>)]

(* A key that is there and not empty is left alone. *)
GenHostkey(c) ==
    IF fs[c.path].kind \notin {"none", "empty"}
    THEN Continue /\ UNCHANGED <<fs, job, made>>
    ELSE \/ /\ made < MaxKeys /\ made' = made + 1
            /\ todo' = MoveIntoPlace(c.path[1], made + 1) \o Tail(todo)
            /\ UNCHANGED <<fs, job>>
         \/ FailNext /\ UNCHANGED <<fs, made>>

----------------------------------------------------------------------------
(* A user's key: generation, passphrase, comment.                          *)

confirm_overwrite(path, answer) == fs[path] = Absent \/ answer
load_identity(name, given) ==
    LET f == fs[<<name, "">>]
    IN f.kind = "private" /\ f.pass \in {"", given}

GenerateKey(name, pass) ==
    <<[op |-> "save_private", path |-> <<name, "">>, key |-> made + 1, pass |-> pass, comment |-> "c"],
      [op |-> "save_public", path |-> <<name, ".pub">>, content |-> PublicFile(made + 1, "c")]>>

(* The new passphrase is asked twice. *)
do_change_passphrase(name, new) ==
    LET f == fs[<<name, "">>]
    IN <<[op |-> "save_private", path |-> <<name, "">>, key |-> f.key, pass |-> new, comment |-> f.comment]>>

(* The same comment again changes nothing, not even a stale public file. *)
do_change_comment(name, comment) ==
    LET f == fs[<<name, "">>]
    IN IF f.comment = comment THEN <<>>
       ELSE <<[op |-> "save_private", path |-> <<name, "">>, key |-> f.key, pass |-> f.pass, comment |-> comment],
              [op |-> "save_public", path |-> <<name, ".pub">>, content |-> PublicFile(f.key, comment)]>>

----------------------------------------------------------------------------
(* Certificates (-s): one serial for all, or counting up (-z +n).          *)

do_ca_sign(names, serial, autoinc) ==
    [i \in DOMAIN names |->
        [op |-> "certify", path |-> <<names[i], "-cert.pub">>, serial |-> IF autoinc THEN serial + i - 1 ELSE serial]]

(* sshkey_load_public() finds the key beside the name it is given. *)
CertifyOne(c) ==
    LET f == fs[<<c.path[1], ".pub">>]
    IN IF f.kind # "public" THEN Exit("failed") /\ UNCHANGED fs
       ELSE \/ Put(c.path, CertFile(f.key, c.serial)) /\ Continue /\ UNCHANGED job
            \/ Put(c.path, Zero) /\ Continue /\ UNCHANGED job
            \/ UNCHANGED fs /\ Exit("failed")

----------------------------------------------------------------------------
(* known_hosts (-H, -R, -F): lines of a host, a key, a marker and a status. *)

known_hosts_hash(l) ==
    IF l.invalid \/ l.hashed \/ l.wild \/ l.marker THEN {l} ELSE {[l EXCEPT !.hashed = TRUE]}
known_hosts_find_delete(l, host) == IF ~l.invalid /\ l.host = host /\ ~l.marker THEN {} ELSE {l}
Rewritten(lines, f(_)) == FlattenSeq([i \in DOMAIN lines |-> SetToSeq(f(lines[i]))])
HasInvalid(lines) == \E i \in DOMAIN lines : lines[i].invalid
FoundKey(lines, host) == \E i \in DOMAIN lines : known_hosts_find_delete(lines[i], host) = {}

ReplaceKnownHosts ==
    LET kh == <<"known_hosts", "">>
        tmp == <<"known_hosts", ".tmp">>
        old == <<"known_hosts", ".old">>
    IN <<[op |-> "unlink", path |-> old], [op |-> "link", path |-> kh, to |-> old],
         [op |-> "unlink_linked", path |-> kh, to |-> old],
         [op |-> "put_in_place", path |-> tmp, to |-> kh, old |-> old]>>

(* Lines are copied to a temporary file; a file with an invalid line stays. *)
do_known_hosts(delete, host) ==
    LET lines == fs[<<"known_hosts", "">>].lines
        new == IF delete THEN Rewritten(lines, LAMBDA l : known_hosts_find_delete(l, host))
               ELSE Rewritten(lines, known_hosts_hash)
    IN IF HasInvalid(lines) \/ (delete /\ ~FoundKey(lines, host)) THEN <<>>
       ELSE <<[op |-> "write_hosts", path |-> <<"known_hosts", ".tmp">>, lines |-> new]>> \o ReplaceKnownHosts
WriteHosts(c) == Put(c.path, HostsFile(c.lines)) /\ Continue /\ UNCHANGED job

----------------------------------------------------------------------------
(* ssh-add.                                                                *)

(* The passphrase of the last file is tried before the user is asked; an empty
   answer gives the file up. *)
Unlocked(f, answer) ==
    CASE f.kind # "private" -> [ok |-> FALSE, pass |-> cached]
      [] f.kind = "private" /\ f.pass = "" -> [ok |-> TRUE, pass |-> cached]
      [] f.kind = "private" /\ f.pass # "" /\ cached = f.pass -> [ok |-> TRUE, pass |-> cached]
      [] OTHER -> [ok |-> answer = f.pass, pass |-> IF answer = f.pass THEN answer ELSE ""]

(* The key, then the certificate beside it when it belongs to the key.  The agent
   may refuse either; the certificate does not count for the exit status. *)
add_file(c, answer) ==
    LET f == fs[c.path]
        u == Unlocked(f, answer)
        cert == fs[<<c.path[1], "-cert.pub">>]
        plain == IF u.ok THEN {<<f.key, 0>>} ELSE {}
        both == IF u.ok /\ cert.kind = "cert" /\ cert.key = f.key
                THEN plain \cup {<<f.key, cert.serial>>} ELSE plain
    IN /\ cached' = u.pass
       /\ \E added \in {both, plain, both \ plain, {}} :
            /\ agentids' = agentids \cup added
            /\ job' = [job EXCEPT !.end = IF u.ok /\ plain \subseteq added THEN @ ELSE "failed"]
       /\ Continue

(* The public file says what to remove; a certificate of another key ends ssh-add. *)
delete_file(c) ==
    LET f == fs[<<c.path[1], ".pub">>]
        cert == fs[<<c.path[1], "-cert.pub">>]
    IN IF f.kind # "public" THEN Continue /\ job' = [job EXCEPT !.end = "failed"] /\ UNCHANGED agentids
       ELSE \E gone \in SUBSET ({<<f.key, 0>>} \cup (IF cert.kind = "cert" /\ cert.key = f.key
                                                     THEN {<<f.key, cert.serial>>} ELSE {})) :
            /\ agentids' = agentids \ gone
            /\ IF cert.kind = "cert" /\ cert.key # f.key THEN Exit("failed")
               ELSE Continue /\ job' = [job EXCEPT !.end = IF gone = {} THEN "failed" ELSE @]

(* -D: only the answer for the current protocol counts. *)
delete_all ==
    \/ agentids' = {} /\ Continue /\ UNCHANGED job
    \/ UNCHANGED agentids /\ Exit("failed")

SshAdd(deleting, names) ==
    [i \in DOMAIN names |-> Call(IF deleting THEN "delete" ELSE "add", <<names[i], "">>)]

----------------------------------------------------------------------------
(* main(): which command a set of flags asks for, in the order of the tests. *)

Precedence == <<"s", "R", "H", "p", "c", "A">>
Usage(flags) == {"p", "c"} \subseteq flags \/ ("l" \in flags /\ flags \cap {"H", "R"} # {})
Selected(flags) ==
    LET asked == {i \in DOMAIN Precedence : Precedence[i] \in flags}
    IN IF asked = {} THEN "generate" ELSE Precedence[CHOOSE i \in asked : \A j \in asked : i <= j]

Begin(name, arg, calls) ==
    /\ todo' = calls
    /\ job' = [name |-> name, end |-> "ok", arg |-> arg]
    /\ UNCHANGED <<fs, agentids>>
OfSsh == UNCHANGED <<cached, made>>

Keygen_main(flags) ==
    /\ ~Usage(flags)
    /\ CASE Selected(flags) = "s" ->
              \E serial \in Serials : \E name \in UserNames :
                  LET names == <<name>> \o SetToSeq(UserNames \ {name})
                  IN Begin("certify", names, do_ca_sign(names, serial, "+" \in flags)) /\ OfSsh
         [] Selected(flags) \in {"R", "H"} ->
              /\ fs[<<"known_hosts", "">>].kind = "hosts"
              /\ LET delete == Selected(flags) = "R"
                     lines == fs[<<"known_hosts", "">>].lines
                 IN \E i \in DOMAIN lines :
                        Begin("hosts", [lines |-> lines, gone |-> IF delete THEN lines[i].host ELSE ""],
                              do_known_hosts(delete, lines[i].host))
              /\ OfSsh
         [] Selected(flags) = "p" ->
              \E name \in UserNames, given \in Words, new \in Words :
                  load_identity(name, given) /\ Begin("passphrase", <<name>>, do_change_passphrase(name, new)) /\ OfSsh
         [] Selected(flags) = "c" ->
              \E name \in UserNames, given \in Words, comment \in {"c", "d"} :
                  load_identity(name, given) /\ Begin("comment", <<name>>, do_change_comment(name, comment)) /\ OfSsh
         [] Selected(flags) = "A" -> Begin("hostkeys", <<>>, do_gen_all_hostkeys) /\ OfSsh
         [] Selected(flags) = "generate" ->
              \E name \in UserNames, pass \in Words, answer \in BOOLEAN :
                  /\ made < MaxKeys /\ made' = made + 1
                  /\ confirm_overwrite(<<name, "">>, answer)
                  /\ Begin("generate", <<name>>, GenerateKey(name, pass)) /\ UNCHANGED cached

Add_main(deleting) ==
    \/ deleting /\ Begin("delete", <<>>, <<Call("delete_all", <<>>)>>) /\ cached' = "" /\ UNCHANGED made
    \/ \E name \in UserNames :
        LET names == <<name>> \o SetToSeq(UserNames \ {name})
        IN Begin(IF deleting THEN "delete" ELSE "add", names, SshAdd(deleting, names)) /\ cached' = "" /\ UNCHANGED made

StartCommand ==
    /\ todo = <<>> /\ commands < MaxCommands /\ commands' = commands + 1
    /\ \/ \E flags \in Invocations : Keygen_main(flags)
       \/ \E deleting \in BOOLEAN : Add_main(deleting)

SystemCall ==
    /\ todo # <<>>
    /\ LET c == Head(todo)
       IN \/ c.op = "save_private" /\ SavePrivate(c) /\ UNCHANGED Rest
          \/ c.op = "save_public" /\ SavePublic(c) /\ UNCHANGED Rest
          \/ c.op = "rename" /\ Rename(c) /\ UNCHANGED Rest
          \/ c.op = "hostkey" /\ GenHostkey(c) /\ UNCHANGED <<agentids, cached, commands>>
          \/ c.op = "certify" /\ CertifyOne(c) /\ UNCHANGED Rest
          \/ c.op = "write_hosts" /\ WriteHosts(c) /\ UNCHANGED Rest
          \/ c.op = "unlink" /\ Unlink(c) /\ UNCHANGED Rest
          \/ c.op = "link" /\ xrename(c) /\ UNCHANGED Rest
          \/ c.op = "unlink_linked" /\ xrename_unlink(c) /\ UNCHANGED Rest
          \/ c.op = "put_in_place" /\ PutInPlace(c) /\ UNCHANGED Rest
          \/ c.op = "add" /\ (\E answer \in Words : add_file(c, answer)) /\ UNCHANGED <<fs, made, commands>>
          \/ c.op = "delete_all" /\ delete_all /\ UNCHANGED <<fs, cached, made, commands>>
          \/ c.op = "delete" /\ delete_file(c) /\ UNCHANGED <<fs, cached, made, commands>>

(* The program is killed; what it wrote stays. *)
Kill == todo # <<>> /\ todo' = <<>> /\ job' = [job EXCEPT !.end = "killed"] /\ UNCHANGED <<fs, Rest>>

KeygenStart(lines) ==
    /\ fs = [p \in AllPaths |-> IF p = <<"known_hosts", "">> THEN HostsFile(lines) ELSE Absent]
    /\ todo = <<>> /\ job = Idle /\ agentids = {} /\ cached = "" /\ made = 0 /\ commands = 0
KeygenInit == \E lines \in KnownHosts : KeygenStart(lines)
KeygenNext == StartCommand \/ SystemCall \/ Kill

----------------------------------------------------------------------------
(* Properties.                                                             *)

(* However often "ssh-keygen -A" was killed or failed before: a host key in place
   has its own public key beside it, or an empty file where the disk was full. *)
HostkeysMatch ==
    \A name \in HostkeySet :
        LET prv == fs[<<name, "">>]
            pub == fs[<<name, ".pub">>]
        IN prv.kind = "private" => pub = Zero \/ (pub.kind = "public" /\ pub.key = prv.key)

(* Rewriting known_hosts loses no line but those of the host that is removed,
   whenever it is stopped: they are in the file or in its backup.  Only when the
   new file cannot be moved into place both are gone. *)
LinesKept ==
    job.name = "hosts" /\ job.end # "both_removed" =>
        LET held == UNION {IF fs[p].kind = "hosts" THEN Range(fs[p].lines) ELSE {} :
                           p \in {<<"known_hosts", "">>, <<"known_hosts", ".old">>}}
        IN \A i \in DOMAIN job.arg.lines :
              LET l == job.arg.lines[i]
              IN (l.host = job.arg.gone /\ ~l.marker) \/ l \in held \/ known_hosts_hash(l) \subseteq held

(* ssh-add ends without an error only if the agent took every key it was given. *)
AddTold ==
    job.name = "add" /\ job.end = "ok" /\ todo = <<>> =>
        \A i \in DOMAIN job.arg : <<fs[<<job.arg[i], "">>].key, 0>> \in agentids

(* Files and agent stay consistent whatever fails and whenever a program is killed. *)
KeygenSound == HostkeysMatch /\ LinesKept /\ AddTold
=============================================================================
