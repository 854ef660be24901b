------------------------------ MODULE ReadConf ------------------------------
(***************************************************************************)
(* The client's configuration (readconf.c, ssh.c): the command line, the   *)
(* user's file and the system's file, with Host and Match blocks and       *)
(* included files, read once, and a second time when the name of the host  *)
(* has become canonical or a block asks for it.                            *)
(*                                                                         *)
(* A file is a sequence of lines.  Options with the same handling are one  *)
(* keyword here.  Every option is the sequence of its words, <<>> if not   *)
(* set; "bad" is a word no option admits.                                  *)
(***************************************************************************)
EXTENDS Naturals, Sequences, SequencesExt, FiniteSets

CONSTANTS
    UserFiles,          \* what the user's file may be
    SystemFile,         \* the system's file
    IncludedFiles,      \* the files that may be included, by name
    CommandLines,       \* options of the command line
    HostArg, Canonical, \* the name given, and its canonical form
    ReadConfMaxDepth,   \* READCONF_MAX_DEPTH
    MaxIdentityFiles,   \* SSH_MAX_IDENTITY_FILES
    MaxHostsFiles       \* SSH_MAX_HOSTS_FILES

\* Handled like most others; ConnectTimeout, whose "none" is the value of options not set;
\* SyslogFacility; StreamLocalBindMask; IPQoS and TunnelDevice; IdentityFile; SendEnv;
\* ForwardAgent and its path; RekeyLimit and its interval; UserKnownHostsFile; ProxyCommand;
\* ProxyJump; LocalForward and others; ClearAllForwardings; SetEnv and CanonicalDomains;
\* ControlPersist and its timeout; LocalCommand and others.
Keywords == {"user", "hostname", "canonicalize", "timeout", "facility", "mask", "ipqos",
             "identity", "sendenv", "agent", "agentpath", "rekeylimit", "rekeyinterval",
             "hostfiles", "proxy", "jump", "forward", "clear", "environ", "persist",
             "persisttime", "command"}

VARIABLES
    conf,       \* phase, host, options, whether a second pass is wanted, fatal
    stack,      \* the files that are being read, the innermost last
    active,     \* *activep: lines are in force
    obtained    \* the lines in force so far, for the properties

readconfVars == <<conf, stack, active, obtained>>

\* lines: what is left of the file; never: SSHCONF_NEVERMATCH; bad: unknown options in it;
\* oactive: the caller's *activep; holds: the last Host or Match line was met.
Frame(lines, never, oactive) ==
    [lines |-> lines, never |-> never, bad |-> FALSE, oactive |-> oactive, holds |-> TRUE]
Top == Last(stack)
SetTop(f) == [stack EXCEPT ![Len(stack)] = f]

----------------------------------------------------------------------------
(* One option.                                                             *)

IsSet(o, k) == o[k] # <<>>

Parsed(o) == [options |-> o, fatal |-> "no"]
Invalid(v) == "bad" \in ToSet(v)
\* Values are checked whether or not they are in force.
Checked(o, k, v) == [options |-> o, fatal |-> IF Invalid(v) THEN k ELSE "no"]

\* Mistake: the last value is used.
set_last(o, k, v, act) == IF act THEN [o EXCEPT ![k] = v] ELSE o
set_value(o, k, v, act) == IF act /\ ~IsSet(o, k) THEN [o EXCEPT ![k] = v] ELSE o
parse_string_or_flag(o, k, v, act) == Checked(set_value(o, k, v, act), k, v)
parse_time(o, k, v, act) ==
    Checked(IF v = <<"none">> THEN o ELSE set_value(o, k, v, act), k, v)
log_facility(o, k, v) == Checked(set_value(o, k, v, TRUE), k, v)
streamlocal_bind_mask(o, k, v) == Checked([o EXCEPT ![k] = v], k, v)
ip_qos(o, k, v, act) == Checked(IF act THEN [o EXCEPT ![k] = v] ELSE o, k, v)
\* An identity is its file and who named it: 1 for -i, 2 for the user's file, 0 for the system's.
add_identity_file(o, k, v, userprovided) ==
    LET id == <<v[1], userprovided>> IN
    IF id \in ToSet(o[k]) THEN o ELSE [o EXCEPT ![k] = Append(@, id)]
identity_file(o, k, v, userprovided, act) ==
    IF ~act THEN Parsed(o)
    ELSE IF Len(o[k]) >= MaxIdentityFiles THEN [options |-> o, fatal |-> k]
    ELSE Parsed(add_identity_file(o, k, v, userprovided))
send_env(o, k, v, act) == Checked(IF act THEN [o EXCEPT ![k] = @ \o v] ELSE o, k, v)
\* A path means "yes"; it is that of the first line with a path, whatever lines came before.
forward_agent(o, v, act) ==
    IF v \in {<<"yes">>, <<"no">>} THEN Parsed(set_value(o, "agent", v, act))
    ELSE Checked(set_value(set_value(o, "agent", <<"yes">>, act), "agentpath", v, act), "agent", v)
rekey_limit_c(o, v, act) ==
    LET limit == set_value(o, "rekeylimit", <<v[1]>>, act) IN
    Checked(IF Len(v) = 1 \/ v[2] = "none" THEN limit
            ELSE set_value(limit, "rekeyinterval", <<v[2]>>, act), "rekeylimit", v)
parse_char_array(o, k, v, act) ==
    IF act /\ ~IsSet(o, k)
    THEN [options |-> [o EXCEPT ![k] = v], fatal |-> IF Len(v) > MaxHostsFiles THEN k ELSE "no"]
    ELSE Parsed(o)
proxy_command(o, v, act) == Parsed(set_value(o, "proxy", v, act /\ ~IsSet(o, "jump")))
\* A jump host takes the place of a command; "none" sets only that there is none.
parse_jump(o, v, act) ==
    IF ~act \/ IsSet(o, "proxy") \/ IsSet(o, "jump") THEN Checked(o, "jump", v)
    ELSE IF v = <<"none">> THEN Parsed([o EXCEPT !["jump"] = v])
    ELSE Checked([o EXCEPT !["jump"] = v, !["proxy"] = <<"none">>], "jump", v)
add_local_forward(o, k, v) == IF v[1] \in ToSet(o[k]) THEN o ELSE [o EXCEPT ![k] = @ \o v]
forward_line(o, k, v, act) == Checked(IF act THEN add_local_forward(o, k, v) ELSE o, k, v)
\* Of the first line that has any; the others are only checked.
canonical_domains(o, k, v, act) == Checked(set_value(o, k, v, act), k, v)
control_persist(o, v, act) ==
    LET time == v \notin {<<"yes">>, <<"no">>} IN
    Checked(IF ~act \/ IsSet(o, "persist") THEN o
            ELSE [o EXCEPT !["persist"] = IF time THEN <<"yes">> ELSE v,
                           !["persisttime"] = IF time THEN v ELSE <<"0">>], "persist", v)

ProcessOption(o, k, v, userprovided, act) ==
    CASE k = "timeout" -> parse_time(o, k, v, act)
      [] k = "facility" -> log_facility(o, k, v)
      [] k = "mask" -> streamlocal_bind_mask(o, k, v)
      [] k = "ipqos" -> ip_qos(o, k, v, act)
      [] k = "identity" -> identity_file(o, k, v, userprovided, act)
      [] k = "sendenv" -> send_env(o, k, v, act)
      [] k = "agent" -> forward_agent(o, v, act)
      [] k = "rekeylimit" -> rekey_limit_c(o, v, act)
      [] k = "hostfiles" -> parse_char_array(o, k, v, act)
      [] k = "proxy" -> proxy_command(o, v, act)
      [] k = "jump" -> parse_jump(o, v, act)
      [] k = "forward" -> forward_line(o, k, v, act)
      [] k = "environ" -> canonical_domains(o, k, v, act)
      [] k = "persist" -> control_persist(o, v, act)
      [] OTHER -> parse_string_or_flag(o, k, v, act)

----------------------------------------------------------------------------
(* One line.                                                               *)

FinalPass == conf.phase \in {"final_user", "final_system"}

\* SSHCONF_USERCONF, which the files that are included inherit.
Userconf == IF conf.phase \in {"user", "final_user"} THEN 2 ELSE 0

\* A pattern that is negated ends the search.
HostMatches(l) == conf.host \in l.hosts /\ conf.host \notin l.negated

\* The criteria of a line: sets of [attrib, values, negate].
match_cfg_line(criteria) ==
    LET host == IF IsSet(conf.options, "hostname") THEN Head(conf.options["hostname"])
                ELSE conf.host
        user == IF IsSet(conf.options, "user") THEN Head(conf.options["user"]) ELSE "me"
        Met(c) == CASE c.attrib = "host" -> host \in c.values
                    [] c.attrib = "originalhost" -> HostArg \in c.values
                    [] c.attrib = "user" -> user \in c.values
                    [] c.attrib = "final" -> FinalPass
                    [] c.attrib = "all" -> TRUE
    IN \A c \in criteria : Met(c) # c.negate
WantsFinal(criteria) == \E c \in criteria : c.attrib = "final"

\* Mistake: the lines of an included file decide about those after the Include.
end_without_restore ==
    /\ stack # <<>> /\ Top.lines = <<>> /\ conf.fatal = "no"
    /\ stack' = Front(stack) /\ UNCHANGED <<active, obtained>>
    /\ conf' = IF Top.bad THEN [conf EXCEPT !.fatal = "bad options"] ELSE conf
\* The end of read_config_file_depth(); an included file does not change *activep.
end_of_file ==
    /\ stack # <<>> /\ Top.lines = <<>> /\ conf.fatal = "no"
    /\ stack' = Front(stack) /\ active' = Top.oactive /\ UNCHANGED obtained
    /\ conf' = IF Top.bad THEN [conf EXCEPT !.fatal = "bad options"] ELSE conf

\* Files that are included from lines not in force are only parsed.
read_config_file_depth(f, never) == Frame(f, never, active)

process_config_line_depth ==
    LET l == Head(Top.lines)
        rest == [Top EXCEPT !.lines = Tail(@)]
    IN
    /\ stack # <<>> /\ Top.lines # <<>> /\ conf.fatal = "no"
    /\ \/ /\ l.k = "option"
          /\ \E r \in {ProcessOption(conf.options, l.opt, l.val, Userconf, active)} :
                conf' = [conf EXCEPT !.options = r.options, !.fatal = r.fatal]
          /\ obtained' = IF \A i \in DOMAIN stack : stack[i].holds
                         THEN Append(obtained, <<l.opt, l.val, Userconf>>) ELSE obtained
          /\ stack' = SetTop(rest) /\ UNCHANGED active
       \/ /\ l.k = "bad"
          /\ stack' = SetTop([rest EXCEPT !.bad = TRUE]) /\ UNCHANGED <<conf, active, obtained>>
       \/ /\ l.k = "host"
          /\ active' = (~Top.never /\ HostMatches(l))
          /\ stack' = SetTop([rest EXCEPT !.holds = HostMatches(l)])
          /\ UNCHANGED <<conf, obtained>>
       \/ /\ l.k = "match"
          /\ active' = (~Top.never /\ match_cfg_line(l.criteria))
          /\ stack' = SetTop([rest EXCEPT !.holds = match_cfg_line(l.criteria)])
          /\ conf' = [conf EXCEPT !.want_final_pass = @ \/ WantsFinal(l.criteria)]
          /\ UNCHANGED obtained
       \/ /\ l.k = "include"
          /\ IF Len(stack) > ReadConfMaxDepth
             THEN conf' = [conf EXCEPT !.fatal = "includes"] /\ UNCHANGED stack
             ELSE /\ stack' = Append(SetTop(rest),
                                read_config_file_depth(IncludedFiles[l.file], Top.never \/ ~active))
                  /\ UNCHANGED conf
          /\ UNCHANGED <<active, obtained>>

----------------------------------------------------------------------------
(* The program.                                                            *)

Read(file, phase, options) ==
    /\ stack' = <<Frame(file, FALSE, TRUE)>> /\ active' = TRUE
    /\ conf' = [conf EXCEPT !.phase = phase, !.options = options]

\* process_config_files(): the system's file follows the user's.
process_config_files ==
    /\ stack = <<>> /\ conf.fatal = "no" /\ conf.phase \in {"user", "final_user"}
    /\ Read(SystemFile, IF conf.phase = "user" THEN "system" ELSE "final_system", conf.options)
    /\ UNCHANGED obtained

clear_forwardings(o) == IF o["clear"] = <<"yes">> THEN <<>> ELSE o["forward"]
\* Options that are not set when everything is read have their default value; "none" takes a
\* command or a jump host away, and ClearAllForwardings the forwardings.
fill_default_options(o) ==
    [k \in Keywords |->
        CASE k \in {"proxy", "command", "jump"} -> IF o[k] = <<"none">> THEN <<>> ELSE o[k]
          [] k = "forward" -> clear_forwardings(o)
          [] k \in {"user", "hostname", "sendenv", "environ", "agentpath"} -> o[k]
          [] k = "identity" /\ ~IsSet(o, k) -> add_identity_file(o, k, <<"default">>, 0)[k]
          [] OTHER -> IF IsSet(o, k) THEN o[k] ELSE <<"default">>]

\* main(): the name of the host is replaced and made canonical; the files are read again, with
\* the result in place of HostName.
main_hostname ==
    LET name == IF IsSet(conf.options, "hostname") THEN Head(conf.options["hostname"])
                ELSE conf.host
        canonicalize == conf.options["canonicalize"] = <<"yes">>
        filled == IF IsSet(conf.options, "canonicalize") THEN conf.options
                  ELSE [conf.options EXCEPT !["canonicalize"] = <<"no">>]
        host == IF canonicalize /\ name = HostArg THEN Canonical ELSE name
        named == IF IsSet(filled, "hostname") THEN [filled EXCEPT !["hostname"] = <<name>>]
                 ELSE filled
    IN
    /\ stack = <<>> /\ conf.fatal = "no" /\ conf.phase = "system"
    /\ IF canonicalize \/ conf.want_final_pass
       THEN /\ stack' = <<Frame(conf.file, FALSE, TRUE)>> /\ active' = TRUE
            /\ conf' = [conf EXCEPT !.phase = "final_user", !.host = host,
                            !.options = [named EXCEPT !["hostname"] = <<host>>]]
       ELSE /\ conf' = [conf EXCEPT !.phase = "filled", !.host = host,
                                    !.options = fill_default_options(named)]
            /\ UNCHANGED <<stack, active>>
    /\ UNCHANGED obtained

FillsDefaults ==
    /\ stack = <<>> /\ conf.fatal = "no" /\ conf.phase = "final_system"
    /\ conf' = [conf EXCEPT !.phase = "filled", !.options = fill_default_options(@)]
    /\ UNCHANGED <<stack, active, obtained>>

ReadConfStart(f, c) ==
    /\ obtained = [i \in DOMAIN c |-> <<c[i][1], c[i][2], 1>>]
    /\ LET none == [k \in Keywords |-> <<>>]
           given == FoldLeft(LAMBDA o, e : ProcessOption(o, e[1], e[2], 1, TRUE).options, none, c)
       IN conf = [phase |-> "user", file |-> f, host |-> HostArg, options |-> given,
                  want_final_pass |-> FALSE, fatal |-> "no"]
    /\ stack = <<Frame(f, FALSE, TRUE)>> /\ active = TRUE
ReadConfInit == \E f \in UserFiles, c \in CommandLines : ReadConfStart(f, c)

ReadConfNext ==
    \/ process_config_line_depth \/ end_of_file
    \/ process_config_files \/ main_hostname \/ FillsDefaults

----------------------------------------------------------------------------
(* Properties.                                                             *)

\* The one flag that is passed to all files says what the nesting of blocks and files says: a
\* line is in force if the last Host or Match line before it, and before each of the Include
\* lines that lead to it, is met (process_config_line_depth(), read_config_file_depth()).
ActiveExact == stack # <<>> => active = (\A i \in DOMAIN stack : stack[i].holds)

LinesFor(ks) == SelectSeq(obtained, LAMBDA e : e[1] \in ks)
FirstOf(k) == LET s == LinesFor({k}) IN IF s = <<>> THEN <<>> ELSE s[1][2]
Default(v) == IF v = <<>> THEN <<"default">> ELSE v
\* What all lines name, each once.
EachOnce(s) == FoldLeft(LAMBDA t, e : IF e \in ToSet(t) THEN t ELSE Append(t, e), <<>>, s)
AllWords(k) == LET s == LinesFor({k}) IN EachOnce([i \in DOMAIN s |-> s[i][2][1]])
AllIdentities ==
    LET s == LinesFor({"identity"}) IN EachOnce([i \in DOMAIN s |-> <<s[i][2][1], s[i][3]>>])

\* The first value in force, over both passes, is the one used, for the keywords that are
\* handled like most.  No forwarding is lost or registered twice, and no identity is lost or
\* registered twice by the same one of -i, the user's file and the system's file; a file that two
\* of them name is registered for each (add_identity_file()).  What the program sets itself
\* between the passes, for CanonicalizeHostname and HostName, comes last.
FirstObtained ==
    conf.phase = "filled" /\ conf.fatal = "no" =>
        /\ \A k \in {"user", "environ"} : conf.options[k] = FirstOf(k)
        /\ conf.options["hostfiles"] = Default(FirstOf("hostfiles"))
        /\ conf.options["persist"] = CASE FirstOf("persist") = <<>> -> <<"default">>
                                       [] FirstOf("persist") = <<"no">> -> <<"no">>
                                       [] OTHER -> <<"yes">>
        /\ conf.options["persisttime"] \in {FirstOf("persist"), <<"0">>, <<"default">>}
        /\ conf.options["command"] = IF FirstOf("command") = <<"none">> THEN <<>>
                                     ELSE FirstOf("command")
        /\ FirstOf("canonicalize") # <<>> =>
                conf.options["canonicalize"] \in {FirstOf("canonicalize"), <<"no">>}
        /\ conf.options["identity"] = IF AllIdentities = <<>> THEN << <<"default", 0>> >>
                                      ELSE AllIdentities
        /\ conf.options["forward"] = IF FirstOf("clear") = <<"yes">> THEN <<>>
                                     ELSE AllWords("forward")

\* "ProxyJump ... will compete with the ProxyCommand option - whichever is specified first will
\* prevent later instances of the other from taking effect" (ssh_config(5)).
ProxyFirst ==
    conf.phase = "filled" /\ conf.fatal = "no" =>
        LET s == LinesFor({"proxy", "jump"})
            used == IF s = <<>> \/ s[1][2] = <<"none">> THEN "none" ELSE s[1][1]
        IN /\ conf.options["proxy"] = IF used = "proxy" THEN s[1][2] ELSE <<>>
           /\ conf.options["jump"] = IF used = "jump" THEN s[1][2] ELSE <<>>
=============================================================================
