---------------------------- MODULE MCUserauth ----------------------------
(***************************************************************************)
(* Configurations and key options for the runs of Userauth.                *)
(***************************************************************************)
EXTENDS Userauth

Plain(name) == [name |-> name, sub |-> ""]
PamOnly == [name |-> "keyboard-interactive", sub |-> "pam"]

Config(lists, root, empty, pam) ==
  [auth_methods |-> lists, enabled |-> Methods, max_authtries |-> 3,
   permit_root_login |-> root, permit_empty_passwd |-> empty, use_pam |-> pam]

\* Lists that share their first method, that use one method twice, and one of their own.
Mixed == << <<Plain("publickey"), Plain("password")>>,
            <<Plain("publickey"), Plain("publickey")>>,
            <<Plain("hostbased"), Plain("password"), Plain("publickey")>>,
            <<Plain("hostbased"), Plain("hostbased")>> >>
KeyThenPam == << <<Plain("publickey"), PamOnly>>,
                 <<Plain("password"), Plain("keyboard-interactive")>> >>

Usual == {Config(Mixed, "prohibit-password", FALSE, FALSE),
          Config(KeyThenPam, "prohibit-password", FALSE, TRUE),
          Config(<<>>, "yes", TRUE, TRUE)}
ForcedRoot == {Config(<< <<Plain("publickey"), Plain("password")>> >>,
                      "forced-commands-only", FALSE, FALSE)}
AnyMethod == {Config(<<>>, "yes", FALSE, FALSE)}
AllConfigs == Usual \cup ForcedRoot \cup AnyMethod

\* k1 runs one command, k2 has no restriction, k3 runs another command without terminal.
Options == [k \in AuthorizedKeys |->
              [command |-> CASE k = "k1" -> "backup" [] k = "k2" -> "" [] k = "k3" -> "sync",
               pty |-> k # "k3"]]

=============================================================================
