------------------------------ MODULE ServConf ------------------------------
(***************************************************************************)
(* The server's configuration (servconf.c): read at the start, with Match  *)
(* blocks not in force but for "Match all", and again for each connection  *)
(* when the user is known, when only lines of Match blocks are in force;   *)
(* what the second reading sets replaces what the first has set.           *)
(*                                                                         *)
(* Keywords with the same handling are one; the value of an option is the  *)
(* sequence of its words, <<>> if not set, and "bad" a word no option      *)
(* admits.  Most values are checked wherever their line is.                *)
(***************************************************************************)
EXTENDS Naturals, Sequences, SequencesExt

CONSTANTS
    ConfigFiles,        \* what the file may be
    ConfigIncludes,     \* the files that may be included, by name
    ConfigUsers,        \* who may connect
    ServConfMaxDepth,   \* SERVCONF_MAX_DEPTH
    MaxPorts,           \* MAX_PORTS
    MaxSubsystems       \* MAX_SUBSYSTEMS

\* Only outside of Match blocks, or in "Match all": LoginGraceTime and others; the CA and VA
\* options, Ciphers and SyslogFacility; Port; ListenAddress; HostKey; PidFile; Subsystem;
\* PermitUserEnvironment; MaxStartups and FingerprintHash.
GlobalOnly == {"grace", "ca", "port", "listen", "hostkey", "pidfile", "subsystem", "userenv",
               "startups"}
\* PermitRootLogin and most others; RekeyLimit, with its interval; AllowUsers and others;
\* AuthorizedKeysFile; SetEnv; PermitOpen; ForceCommand; Banner, RevokedKeys and others;
\* StreamLocalBindMask and IPQoS; AuthorizedKeysCommand; AuthenticationMethods;
\* PubkeyAlgorithms; AcceptedAlgorithms; the names PermitUserEnvironment admits.
ServerKeywords == GlobalOnly \cup
    {"root", "rekey", "interval", "allow", "keysfile", "setenv", "opens", "force", "banner",
     "mask", "akcommand", "methods", "pubkeyalgs", "accepted", "whitelist"}

VARIABLES
    sconf,      \* phase, user, options (of the server), mo (of the blocks), fatal
    files,      \* the files that are being read, the innermost last
    sactive,    \* *activep
    inforce     \* the lines in force in the first and in the second reading

servconfVars == <<sconf, files, sactive, inforce>>

\* flags: SSHCFG_MATCH_ONLY, SSHCFG_NEVERMATCH; block: the result of the last Match line.
File_c(lines, match_only, never, oactive) ==
    [lines |-> lines, match_only |-> match_only, never |-> never, oactive |-> oactive,
     block |-> "none"]
InFile == Last(files)
SetFile(f) == [files EXCEPT ![Len(files)] = f]

\* What the nesting of blocks and files says of a line.
Reference ==
    /\ \A i \in DOMAIN files : files[i].block # "no"
    /\ sconf.phase = "match" => \E i \in DOMAIN files : files[i].block = "yes"

NotSet == [k \in ServerKeywords |-> <<>>]

----------------------------------------------------------------------------
(* One option.                                                             *)

LineTaken(o) == [options |-> o, fatal |-> ""]
LineFatal(o, k) == [options |-> o, fatal |-> k]
BadWord(v) == "bad" \in ToSet(v)
FirstValue(o, k, v, act) == IF act /\ o[k] = <<>> THEN [o EXCEPT ![k] = v] ELSE o

\* Flags, numbers, times, files; lists whose lines after the first are only checked.
parse_multistate(o, k, v, act) ==
    IF BadWord(v) THEN LineFatal(o, k) ELSE LineTaken(FirstValue(o, k, v, act))
parse_string(o, k, v) ==
    IF BadWord(v) THEN LineFatal(o, k) ELSE LineTaken(FirstValue(o, k, v, TRUE))
\* Checked only when everything is read, or not at all.
server_unchecked(o, k, v, act) == LineTaken(FirstValue(o, k, v, act))
server_port(o, k, v) ==
    IF Len(o[k]) >= MaxPorts \/ BadWord(v) THEN LineFatal(o, k) ELSE LineTaken([o EXCEPT ![k] = @ \o v])
\* An address, or an address and a port.
queue_listen_addr(o, k, v) ==
    IF BadWord(v) THEN LineFatal(o, k) ELSE LineTaken([o EXCEPT ![k] = Append(@, v)])
array_append(o, k, v, act) ==
    IF BadWord(v) THEN LineFatal(o, k) ELSE LineTaken(IF act THEN [o EXCEPT ![k] = @ \o v] ELSE o)
\* "any", "none" or what is admitted, of the first line.
permitted_opens(o, k, v, act) ==
    IF BadWord(v) THEN LineFatal(o, k) ELSE LineTaken(FirstValue(o, k, v, act))
parse_filename(o, k, v, act) ==
    IF BadWord(v) THEN LineFatal(o, k) ELSE LineTaken(FirstValue(o, k, v, act))
server_subsystem(o, k, v, act) ==
    IF Len(o[k]) >= MaxSubsystems \/ (act /\ v[1] \in ToSet(o[k])) THEN LineFatal(o, k)
    ELSE LineTaken(IF act THEN [o EXCEPT ![k] = Append(@, v[1])] ELSE o)
\* The last value counts.
server_last(o, k, v, act) ==
    IF BadWord(v) THEN LineFatal(o, k) ELSE LineTaken(IF act THEN [o EXCEPT ![k] = v] ELSE o)
permit_user_env(o, k, v, act) ==
    IF ~act \/ o[k] # <<>> THEN LineTaken(o)
    ELSE LineTaken([o EXCEPT ![k] = IF v = <<"no">> THEN v ELSE <<"yes">>,
                        !["whitelist"] = IF v \in {<<"no">>, <<"yes">>} THEN <<>> ELSE v])
\* The limit and the interval are each that of the first line that has one.
rekey_limit(o, v, act) ==
    LET limit == FirstValue(o, "rekey", <<v[1]>>, act) IN
    IF BadWord(v) THEN LineFatal(o, "rekey")
    ELSE LineTaken(IF Len(v) = 1 \/ v[2] = "none" THEN limit
              ELSE FirstValue(limit, "interval", <<v[2]>>, act))
\* Checked only if it is used.
authorized_keys_command(o, k, v, act) ==
    IF act /\ o[k] = <<>> /\ BadWord(v) THEN LineFatal(o, k) ELSE LineTaken(FirstValue(o, k, v, act))
\* "any" must appear alone; where the line is not in force, it may be the last.
authentication_methods(o, k, v, act) ==
    IF o[k] # <<>> THEN LineTaken(o)
    ELSE IF \/ v = <<>> \/ BadWord(v)
            \/ \E i, j \in DOMAIN v : i < j /\ v[i] = "any" /\ v[j] # "any"
            \/ act /\ \E i \in DOMAIN v : i > 1 /\ v[i] = "any"
    THEN LineFatal(o, k) ELSE LineTaken(IF act THEN [o EXCEPT ![k] = v] ELSE o)

process_server_option(o, k, v, act) ==
    CASE k = "ca" -> parse_string(o, k, v)
      [] k \in {"accepted", "pubkeyalgs", "force", "keysfile"} -> server_unchecked(o, k, v, act)
      [] k = "port" -> server_port(o, k, v)
      [] k = "listen" -> queue_listen_addr(o, k, v)
      [] k = "opens" -> permitted_opens(o, k, v, act)
      [] k \in {"banner", "pidfile"} -> parse_filename(o, k, v, act)
      [] k \in {"hostkey", "allow"} -> array_append(o, k, v, act)
      [] k = "subsystem" -> server_subsystem(o, k, v, act)
      [] k \in {"mask", "startups"} -> server_last(o, k, v, act)
      [] k = "userenv" -> permit_user_env(o, k, v, act)
      [] k = "rekey" -> rekey_limit(o, v, act)
      [] k = "akcommand" -> authorized_keys_command(o, k, v, act)
      [] k = "methods" -> authentication_methods(o, k, v, act)
      [] OTHER -> parse_multistate(o, k, v, act)

----------------------------------------------------------------------------
(* One line.                                                               *)

\* Criteria: "all" or a set of users.  Without a connection nothing else is met.
server_match_cfg_line(l, never) ==
    \/ l.users = "all"
    \/ sconf.phase = "match" /\ ~never /\ l.users = sconf.user

\* Mistake: an included file is read like the main one.
include_flags_lost(match_only, never) == [match_only |-> FALSE, never |-> FALSE]
\* Of a file that is included from lines not in force, Match blocks are not in force; those
\* of a file that is included before the first block are.
include_flags(match_only, never) ==
    [match_only |-> match_only, never |-> ~match_only /\ ~sactive]

\* A line of a keyword that is not for Match blocks is fatal where it is not in force, and has
\* been processed when a user connects.
ServerOption(l, which) ==
    \E r \in {IF ~sactive /\ l.opt \in GlobalOnly
              THEN IF which = "mo" THEN LineTaken(sconf.mo) ELSE LineFatal(sconf.options, "global")
              ELSE process_server_option(sconf[which], l.opt, l.val, sactive)} :
        sconf' = [sconf EXCEPT ![which] = r.options, !.fatal = r.fatal]

process_server_config_line_depth ==
    LET l == Head(InFile.lines)
        rest == [InFile EXCEPT !.lines = Tail(@)]
        met == server_match_cfg_line(l, InFile.never)
        flags == include_flags(InFile.match_only, InFile.never)
        which == IF sconf.phase = "match" THEN "mo" ELSE "options"
    IN
    /\ files # <<>> /\ InFile.lines # <<>> /\ sconf.fatal = ""
    /\ \/ /\ l.k = "option" /\ files' = SetFile(rest) /\ UNCHANGED sactive
          /\ inforce' = IF Reference
                        THEN [inforce EXCEPT ![which] = Append(@, <<l.opt, l.val>>)]
                        ELSE inforce
          /\ ServerOption(l, which)
       \/ /\ l.k = "match"
          /\ sactive' = (~InFile.never /\ met)
          /\ files' = SetFile([rest EXCEPT !.match_only = FALSE,
                                           !.block = IF met THEN "yes" ELSE "no"])
          /\ UNCHANGED <<sconf, inforce>>
       \/ /\ l.k = "include"
          /\ IF Len(files) > ServConfMaxDepth
             THEN sconf' = [sconf EXCEPT !.fatal = "include"] /\ UNCHANGED files
             ELSE /\ files' = Append(SetFile(rest),
                                     File_c(ConfigIncludes[l.file], flags.match_only, flags.never, sactive))
                  /\ UNCHANGED sconf
          /\ UNCHANGED <<sactive, inforce>>

\* An included file does not change the flag of the one that includes it.
parse_server_config_depth ==
    /\ Len(files) > 1 /\ InFile.lines = <<>> /\ sconf.fatal = ""
    /\ files' = Front(files) /\ sactive' = InFile.oactive
    /\ UNCHANGED <<sconf, inforce>>

\* Defaults; "none" takes a file or a command away, and "any" is no list of methods.
fill_default_server_options(o) ==
    [k \in ServerKeywords |->
        CASE o[k] = <<>> -> IF k \in {"listen", "subsystem", "whitelist", "allow", "setenv", "opens", "force",
                                      "banner", "akcommand", "methods"}
                            THEN <<>> ELSE <<"default">>
          [] k \in {"pidfile", "force", "banner"} /\ o[k] = <<"none">> -> <<>>
          [] k = "hostkey" -> [i \in DOMAIN o[k] |-> IF o[k][i] = "none" THEN "NULL" ELSE o[k][i]]
          [] k = "methods" /\ o[k] = <<"any">> -> <<>>
          [] OTHER -> o[k]]
\* Lists of algorithms are checked when all algorithms are known.
Algorithms_valid(o) == ~BadWord(o["accepted"] \o o["pubkeyalgs"])

\* Addresses without a port are combined with all ports, wherever these were given; the last
\* are the first to be listened on.
add_listen_addr(a, ports) ==
    IF Len(a) = 2 THEN <<a>> ELSE [i \in DOMAIN ports |-> <<a[1], ports[i]>>]
process_queued_listen_addrs(o) ==
    LET ports == IF o["port"] = <<>> THEN <<"default">> ELSE o["port"]
        queue == IF o["listen"] = <<>> THEN << <<"wildcard">> >> ELSE o["listen"]
    IN Reverse(FlattenSeq([i \in DOMAIN queue |-> add_listen_addr(queue[i], ports)]))

\* The server is started; then a user connects: parse_server_match_config().
parse_server_match_config ==
    /\ sconf.phase = "start" /\ Len(files) = 1 /\ InFile.lines = <<>> /\ sconf.fatal = ""
    /\ IF Algorithms_valid(sconf.options)
       THEN /\ \E u \in ConfigUsers :
                sconf' = [sconf EXCEPT !.phase = "match", !.user = u,
                                       !.addrs = process_queued_listen_addrs(sconf.options),
                                       !.options = fill_default_server_options(@)]
            /\ files' = <<File_c(sconf.file, TRUE, FALSE, FALSE)>> /\ sactive' = FALSE
       ELSE sconf' = [sconf EXCEPT !.fatal = "algorithms"] /\ UNCHANGED <<files, sactive>>
    /\ UNCHANGED inforce

\* Mistake: only options without a value are copied.
copy_unset(dst, src) == [k \in ServerKeywords |-> IF dst[k] = <<>> THEN src[k] ELSE dst[k]]
\* Options of the Match blocks replace the others, and "none" takes a command away.
copy_set_server_options(dst, src) ==
    [k \in ServerKeywords |->
        LET v == IF src[k] # <<>> THEN src[k] ELSE dst[k] IN
        CASE k \in GlobalOnly \cup {"accepted"} -> dst[k]
          [] k = "force" /\ v = <<"none">> -> <<>>
          [] OTHER -> v]

\* What forwardings are restricted to: not at all, or to these.
process_permitopen(opens) ==
    CASE opens \in {<<>>, <<"any">>} -> [all |-> TRUE, list |-> <<>>]
      [] opens = <<"none">> -> [all |-> FALSE, list |-> <<>>]
      [] OTHER -> [all |-> FALSE, list |-> opens]

Copies ==
    /\ sconf.phase = "match" /\ Len(files) = 1 /\ InFile.lines = <<>> /\ sconf.fatal = ""
    /\ \E o \in {copy_set_server_options(sconf.options, sconf.mo)} :
        sconf' = [sconf EXCEPT !.phase = "done", !.options = o,
                               !.permits = process_permitopen(o["opens"])]
    /\ files' = <<>> /\ UNCHANGED <<sactive, inforce>>

----------------------------------------------------------------------------
(* sshd -T: the effective configuration, as lines of keywords and words.   *)

\* Nothing is printed for what is not set.
dump_cfg_string(o, k) == IF o[k] = <<>> THEN <<>> ELSE << <<k, o[k]>> >>
dump_cfg_strarray(o, k) ==
    [i \in DOMAIN o[k] |-> <<k, <<IF o[k][i] = "NULL" THEN "(null)" ELSE o[k][i]>> >>]
dump_cfg_strarray_oneline(o, k) ==
    IF o[k] = <<>> /\ k = "methods" THEN << <<k, <<"any">> >> >> ELSE dump_cfg_string(o, k)
format_listen_addrs(addrs) == [i \in DOMAIN addrs |-> <<"listen", addrs[Len(addrs) + 1 - i]>>]
\* Arguments that have forms of their own.
dump_other(o) ==
    << <<"startups", o["startups"]>>, <<"mask", o["mask"]>>,
       <<"rekey", o["rekey"] \o o["interval"]>>,
       <<"opens", IF o["opens"] = <<>> THEN <<"any">> ELSE o["opens"]>>,
       <<"userenv", IF o["whitelist"] = <<>> THEN o["userenv"] ELSE o["whitelist"]>> >>
dump_config(o, addrs) ==
    LET strings == <<"pubkeyalgs", "accepted", "ca", "grace", "root", "pidfile", "banner", "force",
                     "akcommand">>
    IN dump_cfg_strarray(o, "port") \o format_listen_addrs(addrs)
       \o FlattenSeq([i \in DOMAIN strings |-> dump_cfg_string(o, strings[i])])
       \o dump_cfg_strarray_oneline(o, "keysfile") \o dump_cfg_strarray(o, "hostkey")
       \o dump_cfg_strarray(o, "allow") \o dump_cfg_strarray(o, "setenv")
       \o dump_cfg_strarray_oneline(o, "methods") \o dump_cfg_strarray(o, "subsystem")
       \o dump_other(o)

ServConfStart(f) ==
    /\ sconf = [phase |-> "start", file |-> f, user |-> "nobody", options |-> NotSet,
                mo |-> NotSet, addrs |-> <<>>, permits |-> process_permitopen(<<>>), fatal |-> ""]
    /\ files = <<File_c(f, FALSE, FALSE, TRUE)>> /\ sactive = TRUE
    /\ inforce = [options |-> <<>>, mo |-> <<>>]
ServConfInit == \E f \in ConfigFiles : ServConfStart(f)

ServConfNext ==
    \/ process_server_config_line_depth \/ parse_server_config_depth
    \/ parse_server_match_config \/ Copies

----------------------------------------------------------------------------
(* Properties.                                                             *)

\* In the first reading lines outside of Match blocks, and of "Match all", are in force; in
\* the second those of blocks the connection meets, in included files too, whatever files
\* and blocks they are nested in.
BlocksExact == files # <<>> => sactive = Reference

Values(s, k) == LET f == SelectSeq(s, LAMBDA e : e[1] = k) IN [i \in DOMAIN f |-> f[i][2]]
FirstLine(s, k) == LET f == Values(s, k) IN IF f = <<>> THEN <<>> ELSE f[1]
\* Of the lines in force when a user connects, or else of the others.
Lines_of(k) == IF Values(inforce.mo, k) # <<>> THEN "mo" ELSE "options"
Wanted(k) == FirstLine(inforce[Lines_of(k)], k)
Or_default(v) == IF v = <<>> THEN <<"default">> ELSE v
No_none(v) == IF v = <<"none">> THEN <<>> ELSE v

\* For the user who connects, "the keywords on the following lines override those set in the
\* global section", and "only the first instance of the keyword is applied"; lists of names
\* are those of all lines, ForceCommand may be taken away, and so may files outside of Match
\* blocks; keywords for which the last line counts are left out.
MatchOverrides ==
    sconf.phase = "done" =>
        /\ \A k \in {"root", "keysfile", "pubkeyalgs"} : sconf.options[k] = Or_default(Wanted(k))
        /\ \A k \in {"setenv", "akcommand"} : sconf.options[k] = Wanted(k)
        /\ sconf.permits.all = (Wanted("opens") \in {<<>>, <<"any">>})
        /\ Wanted("opens") \notin {<<>>, <<"any">>, <<"none">>} => sconf.permits.list = Wanted("opens")
        /\ sconf.options["rekey"] = Or_default(IF Wanted("rekey") = <<>> THEN <<>> ELSE <<Wanted("rekey")[1]>>)
        /\ sconf.options["allow"] = FlattenSeq(Values(inforce[Lines_of("allow")], "allow"))
        /\ sconf.options["force"] = No_none(Wanted("force"))
        /\ sconf.options["banner"] = IF Lines_of("banner") = "mo" THEN Wanted("banner")
                                     ELSE No_none(Wanted("banner"))
        /\ \A k \in {"grace", "ca", "accepted"} :
                sconf.options[k] = Or_default(FirstLine(inforce.options, k))
        /\ sconf.options["pidfile"] = No_none(Or_default(FirstLine(inforce.options, "pidfile")))
        /\ sconf.options["port"] = Or_default(FlattenSeq(Values(inforce.options, "port")))

\* The server listens on every address at its port or at every port of the file, in whatever
\* order the file has them.
ListensAsAsked ==
    sconf.phase \in {"match", "done"} =>
        LET ports == ToSet(Or_default(FlattenSeq(Values(inforce.options, "port"))))
            asked == ToSet(Values(inforce.options, "listen"))
        IN ToSet(sconf.addrs) =
               {a \in asked : Len(a) = 2} \cup
               {<<a[1], p>> : a \in {b \in asked : Len(b) = 1}, p \in ports} \cup
               {<<"wildcard", p>> : p \in IF asked = {} THEN ports ELSE {}}

\* A file the server has accepted at the start, when it checks lines of Match blocks too, ends
\* no connection when these lines come into force; lines of AuthenticationMethods and of
\* AuthorizedKeysCommand, which are checked more strictly then, may.
AcceptedAtStart ==
    sconf.phase = "match" => sconf.fatal \in {"", "methods", "akcommand"}

\* What the server would be told by the lines it prints.
Reread(lines) ==
    FoldLeft(LAMBDA o, l : process_server_option(o, l[1], l[2], TRUE).options, NotSet, lines)

\* The configuration that is printed for a connection is the one in force: a server that reads
\* it behaves alike.  Not so for what was set to "none", of which nothing or the value NULL is
\* printed, for SetEnv, of which each name is on a line and only the first line counts, and
\* for PermitUserEnvironment when a block for all adds names to "no".
DumpFaithful ==
    sconf.phase = "done" =>
        \E again \in {Reread(dump_config(sconf.options, sconf.addrs))} :
            /\ process_queued_listen_addrs(again) = sconf.addrs
            /\ \A k \in ServerKeywords \ {"listen", "pidfile"} :
                \/ fill_default_server_options(again)[k] = sconf.options[k]
                \/ k \in {"banner", "methods", "opens"} /\ sconf.options[k] \in {<<>>, <<"none">>, <<"any">>}
                \/ k = "hostkey" /\ "NULL" \in ToSet(sconf.options[k])
                \/ k = "setenv" /\ Len(sconf.options[k]) > 1
                \/ k \in {"userenv", "whitelist"} /\ sconf.options["userenv"] # <<"yes">>
=============================================================================
