------------------------------- MODULE Xmss -------------------------------
(***************************************************************************)
(* Keys that may use each one-time key once (ssh-xmss.c, sshkey-xmss.c):   *)
(* the index of the next one is in the file .state, its previous content   *)
(* in .ostate, and processes that sign take a lock.  ssh-add -M hands the  *)
(* agent a number of indices, which it uses without the files.  Processes  *)
(* may be killed between any two steps, writing may fail and the file      *)
(* .state may be damaged.                                                  *)
(*                                                                         *)
(* A file holds an index, Absent or Damaged.  The key file itself holds    *)
(* the state of index 0.                                                   *)
(***************************************************************************)
EXTENDS Integers, FiniteSets

CONSTANTS
    Signers,        \* processes that use the key file
    Maxsign,        \* indices that ssh-add asks for
    LastIndex,      \* bound: the last index
    MaxDamages      \* bound: how often the file is damaged

ASSUME XmssAssumption ==
    LastIndex \in Nat /\ Maxsign \in Nat \ {0} /\ MaxDamages \in Nat /\ 0 \notin Signers

VARIABLES
    statefile, ostatefile, nstatefile,
    lockholder,     \* the process with the lock, or 0
    signer,         \* [pc, op, sk (the index in xmss_sk), first (the one it used), have_state]
    agent_keys,     \* what the agent holds: [sk, maxidx]
    issued,         \* the indices of signatures given out
    reused,         \* whether an index has been used twice
    damage          \* how often the file was damaged, and whether two indices or more lay
                    \* between the files then

xmssVars == <<statefile, ostatefile, nstatefile, lockholder, signer, agent_keys, issued, reused, damage>>

Absent == -1
Damaged == -2
Idle_signer == [pc |-> "idle", op |-> "none", sk |-> 0, first |-> 0, have_state |-> FALSE]

Issue(i) == issued' = issued \cup {i} /\ reused' = (reused \/ i \in issued)
KeepIssued == UNCHANGED <<issued, reused>>

----------------------------------------------------------------------------
\* A process loads the key and takes the lock; it gives up if another keeps it.
Lock(p, op) ==
    /\ signer[p].pc = "idle" /\ lockholder = 0
    /\ lockholder' = p
    /\ signer' = [signer EXCEPT ![p] = [Idle_signer EXCEPT !.pc = "locked", !.op = op]]
    /\ UNCHANGED <<statefile, ostatefile, nstatefile, agent_keys, damage>> /\ KeepIssued

\* Mistake: the index of the previous file is used as it is.
forward_after_ostate_not(idx) == idx
forward_after_ostate(idx) == idx + 1

\* sshkey_xmss_get_state(): the index, or Damaged when neither file can be read.
StateFound ==
    CASE statefile >= 0 -> statefile
      [] statefile < 0 /\ ostatefile >= 0 -> forward_after_ostate(ostatefile)
      [] statefile = Absent /\ ostatefile = Absent -> 0
      [] OTHER -> Damaged

Unlocked(p) == lockholder' = 0 /\ signer' = [signer EXCEPT ![p] = Idle_signer]

sshkey_xmss_get_state(p) ==
    /\ signer[p].pc = "locked"
    /\ IF StateFound >= 0
       THEN /\ signer' = [signer EXCEPT ![p] = [@ EXCEPT !.pc = "got", !.sk = StateFound,
                                                         !.have_state = statefile # Absent]]
            /\ UNCHANGED lockholder
       ELSE Unlocked(p)
    /\ UNCHANGED <<statefile, ostatefile, nstatefile, agent_keys, damage>> /\ KeepIssued

\* ssh_xmss_sign(): one index; sshkey_private_serialize_maxsign(): the state goes into the
\* message for the agent, then sshkey_xmss_forward_state() passes Maxsign indices.
forward(p) == IF signer[p].op = "sign" THEN 1 ELSE Maxsign
UseIndex(p) ==
    /\ signer[p].pc = "got" /\ signer[p].sk + forward(p) <= LastIndex
    /\ signer' = [signer EXCEPT ![p] = [@ EXCEPT !.pc = "update", !.first = signer[p].sk,
                                                     !.sk = signer[p].sk + forward(p)]]
    /\ UNCHANGED <<statefile, ostatefile, nstatefile, lockholder, agent_keys, damage>> /\ KeepIssued

----------------------------------------------------------------------------
(* sshkey_xmss_update_state(), one action per file it changes.  When a     *)
(* step fails the signature is discarded.                                  *)

Step(p, pc) == signer' = [signer EXCEPT ![p].pc = pc] /\ UNCHANGED lockholder

WriteState(p) ==
    /\ signer[p].pc = "update"
    /\ nstatefile' \in {Damaged, signer[p].sk}
    /\ IF nstatefile' = Damaged THEN Step(p, "failed")
       ELSE Step(p, IF signer[p].have_state THEN "backup" ELSE "rename")
    /\ UNCHANGED <<statefile, ostatefile, agent_keys, damage>> /\ KeepIssued

UnlinkOstate(p) ==
    /\ signer[p].pc = "backup"
    /\ ostatefile' = Absent /\ Step(p, "link")
    /\ UNCHANGED <<statefile, nstatefile, agent_keys, damage>> /\ KeepIssued

LinkOstate(p) ==
    /\ signer[p].pc = "link"
    /\ \/ ostatefile' = statefile /\ Step(p, "rename")
       \/ UNCHANGED ostatefile /\ Step(p, "failed")
    /\ UNCHANGED <<statefile, nstatefile, agent_keys, damage>> /\ KeepIssued

RenameState(p) ==
    /\ signer[p].pc = "rename"
    /\ \/ statefile' = nstatefile /\ nstatefile' = Absent /\ Step(p, "done")
       \/ UNCHANGED <<statefile, nstatefile>> /\ Step(p, "failed")
    /\ UNCHANGED <<ostatefile, agent_keys, damage>> /\ KeepIssued

\* The end of the update: the lock is given up.
Done(p) ==
    /\ signer[p].pc \in {"done", "failed"}
    /\ nstatefile' = Absent
    /\ IF signer[p].pc = "failed" THEN Unlocked(p)
       ELSE lockholder' = 0 /\ signer' = [signer EXCEPT ![p].pc = "return"]
    /\ UNCHANGED <<statefile, ostatefile, agent_keys, damage>> /\ KeepIssued

\* The signature is returned, or the message sent to the agent.
Return(p) ==
    /\ signer[p].pc = "return"
    /\ signer' = [signer EXCEPT ![p] = Idle_signer]
    /\ IF signer[p].op = "sign" THEN Issue(signer[p].first) /\ UNCHANGED agent_keys
       ELSE /\ agent_keys' = agent_keys \cup {[sk |-> signer[p].first, maxidx |-> signer[p].first + Maxsign]}
            /\ KeepIssued
    /\ UNCHANGED <<statefile, ostatefile, nstatefile, lockholder, damage>>

\* The agent signs with what it was given.
AgentSigns(k) ==
    /\ k.sk < k.maxidx
    /\ Issue(k.sk)
    /\ agent_keys' = (agent_keys \ {k}) \cup {[k EXCEPT !.sk = @ + 1]}
    /\ UNCHANGED <<statefile, ostatefile, nstatefile, lockholder, signer, damage>>

----------------------------------------------------------------------------
\* A process is killed; the file it was writing stays.
Killed(p) ==
    /\ signer[p].pc # "idle"
    /\ signer' = [signer EXCEPT ![p] = Idle_signer]
    /\ lockholder' = IF lockholder = p THEN 0 ELSE lockholder
    /\ UNCHANGED <<statefile, ostatefile, nstatefile, agent_keys, damage>> /\ KeepIssued

DamageState ==
    /\ statefile >= 0 /\ damage.n < MaxDamages
    /\ statefile' = Damaged
    /\ damage' = [n |-> damage.n + 1, gap |-> damage.gap \/ statefile > ostatefile + 1]
    /\ UNCHANGED <<ostatefile, nstatefile, lockholder, signer, agent_keys>> /\ KeepIssued

XmssStart ==
    /\ statefile = Absent /\ ostatefile = Absent /\ nstatefile = Absent /\ lockholder = 0
    /\ signer = [p \in Signers |-> Idle_signer] /\ agent_keys = {} /\ issued = {} /\ reused = FALSE
    /\ damage = [n |-> 0, gap |-> FALSE]

XmssNext ==
    \/ \E p \in Signers :
          \/ \E op \in {"sign", "add"} : Lock(p, op)
          \/ sshkey_xmss_get_state(p)
          \/ UseIndex(p)
          \/ WriteState(p) \/ UnlinkOstate(p) \/ LinkOstate(p) \/ RenameState(p)
          \/ Done(p) \/ Return(p)
          \/ Killed(p)
    \/ \E k \in agent_keys : AgentSigns(k)
    \/ DamageState

XmssSpec == XmssStart /\ [][XmssNext]_xmssVars

----------------------------------------------------------------------------
\* No index signs twice, whichever of the signing process, ssh-add and the agent uses it and
\* wherever they are killed; nor after the file .state is damaged, as long as .ostate is one
\* index behind it: after ssh-add has taken several it is further behind, and
\* sshkey_xmss_get_state() passes only one (sshkey-xmss.c:sshkey_xmss_update_state).
NoIndexTwice == ~damage.gap => ~reused

\* Indices still to be used by the agent are ahead of what was issued and apart from one
\* another and from what the files lead to.
IndicesApart ==
    ~damage.gap =>
        /\ \A k, l \in agent_keys : k # l => k.maxidx <= l.sk \/ l.maxidx <= k.sk
        /\ statefile >= 0 => (\A k \in agent_keys : k.maxidx <= statefile) /\ \A i \in issued : i < statefile

OneTimeKeys == NoIndexTwice /\ IndicesApart
=============================================================================
