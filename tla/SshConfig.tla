------------------------------ MODULE SshConfig ------------------------------
(***************************************************************************)
(* The edits of ~/.ssh/config: by kr (the block it appends, migrates and   *)
(* removes) and by krd when it starts (the old name of the product).       *)
(* A file is the sequence of its parts: the user's lines and blocks of     *)
(* Krypton's lines.  A rewrite reads the file, then backs it up, and then  *)
(* truncates and writes it, as ioutil.WriteFile does.                      *)
(***************************************************************************)
EXTENDS Script, Selection, Integers

CONSTANTS
    Editors,   \* the processes that edit the file
    Versions   \* versions of ssh, <<major, minor>>, or <<>> if not parsed

ASSUME VersionsAssumption == Versions \subseteq {<<>>} \cup (Nat \X Nat)

VARIABLES
    config,      \* ~/.ssh/config
    bak,         \* config.bak.kr
    uninstBak,   \* config.bak.kr.uninstall
    sshVersion,  \* what ssh -V prints
    buf,         \* what each editor has read, and what it will write
    torn         \* the file is truncated, by a rewrite at work or cut short

configVars == <<config, bak, uninstBak, sshVersion, buf, torn>>

(* A block of Krypton's lines has the IdentityAgent or the PKCS11Provider  *)
(* format; "ite" is one that says Kryptonite, from an old release.         *)
Blocks == {"agent", "pkcs11", "agentite", "pkcs11ite"}
Parts  == {"user"} \cup Blocks

(* The old block, a forced one, and a forced one after an upgrade of ssh.  *)
MaxParts == 4
Contents == BoundedSeq(Parts, MaxParts)

NoBuf == [old |-> <<>>, new |-> <<>>]

ConfigTypeOK ==
    /\ {config, bak, uninstBak} \subseteq Contents
    /\ sshVersion \in Versions
    /\ \A p \in Editors : {buf[p].old, buf[p].new} \subseteq Contents
    /\ torn \in BOOLEAN

(* A workstation with or without the block of an old release.              *)
ConfigInit ==
    /\ config \in {<<"user">>, <<"user", "pkcs11ite">>}
    /\ bak = <<>> /\ uninstBak = <<>>
    /\ sshVersion \in Versions
    /\ buf = [p \in Editors |-> NoBuf]
    /\ torn = FALSE

-----------------------------------------------------------------------------
SupportsByMinor(version) ==
    version # <<>> /\ (version[1] > 7 \/ version[2] >= 3)

(* localSSHSupportsIdentityAgent (above: without the test of the major).   *)
SupportsIdentityAgent(version) ==
    /\ version # <<>>
    /\ version[1] > 7 \/ (version[1] >= 7 /\ version[2] >= 3)

KrSSHConfigBlock == IF SupportsIdentityAgent(sshVersion) THEN "agent" ELSE "pkcs11"

MapParts(contents, f) == [i \in DOMAIN contents |->
    IF contents[i] \in DOMAIN f THEN f[contents[i]] ELSE contents[i]]

MigratedHalf(contents) == MapParts(contents, [pkcs11 |-> "both", pkcs11ite |-> "bothite"])

(* The line of the old format is replaced.  (The form above leaves it      *)
(* beside the new one, and is not used.)                                   *)
Migrated(contents) == MapParts(contents, [pkcs11 |-> "agent", pkcs11ite |-> "agentite"])

ReplaceKryptoniteWithKrypton(contents) ==
    MapParts(contents, [agentite |-> "agent", pkcs11ite |-> "pkcs11"])

(* p has read the file, and goes on to write new, or returns.              *)
Reads(p, writes, new, steps) ==
    /\ buf' = [buf EXCEPT ![p] = IF writes THEN [old |-> config, new |-> new] ELSE @]
    /\ Expand(p, IF writes THEN steps ELSE <<>>)
    /\ UNCHANGED <<config, bak, uninstBak, sshVersion, torn>>

EditAlways(p, forceAppend) ==
    /\ At(p, IF forceAppend THEN "force" ELSE "edit")
    /\ LET block  == KrSSHConfigBlock
       IN  Reads(p, ~Contains(config, block), Append(config, block),
                 IF config = <<>> THEN <<"truncate", "write">>
                                  ELSE <<"backup", "truncate", "write">>)

EditWithoutBackup(p, forceAppend) ==
    /\ At(p, IF forceAppend THEN "force" ELSE "edit")
    /\ LET block  == KrSSHConfigBlock
           others == \E i \in DOMAIN config : config[i] \in Blocks
       IN  Reads(p, ~Contains(config, block) /\ (others => forceAppend),
                 Append(config, block), <<"truncate", "write">>)

(* editSSHConfig: append the block, unless it or another one is there.     *)
(* (The forms above, one that appends beside another block and one that    *)
(* makes no backup, are not used.)                                         *)
EditSSHConfig(p, forceAppend) ==
    /\ At(p, IF forceAppend THEN "force" ELSE "edit")
    /\ LET block  == KrSSHConfigBlock
           others == \E i \in DOMAIN config : config[i] \in Blocks
       IN  Reads(p, ~Contains(config, block) /\ (others => forceAppend),
                 Append(config, block),
                 IF config = <<>> THEN <<"truncate", "write">>
                                  ELSE <<"backup", "truncate", "write">>)

(* KR_SKIP_SSH_CONFIG is set, or the user declines.                        *)
EditDeclined(p) ==
    /\ At(p, "edit") \/ At(p, "force")
    /\ Done(p)
    /\ UNCHANGED configVars

MigrateSSHConfig(p) ==
    /\ At(p, "migrate")
    /\ Reads(p, SupportsIdentityAgent(sshVersion) /\ Migrated(config) # config,
             Migrated(config), <<"truncate", "write">>)

(* cleanSSHConfig removes the block this ssh would be given, exactly.      *)
CleanSSHConfig(p) ==
    /\ At(p, "clean")
    /\ Reads(p, TRUE, Only(config, Parts \ {KrSSHConfigBlock}),
             IF config = <<>> THEN <<"truncate", "write">>
                              ELSE <<"backupUninstall", "truncate", "write">>)

(* upgradeSSHConfig, in krd.                                               *)
UpgradeSSHConfig(p) ==
    /\ At(p, "upgrade")
    /\ Reads(p, ReplaceKryptoniteWithKrypton(config) # config,
             ReplaceKryptoniteWithKrypton(config), <<"truncate", "write">>)

(* The steps of a rewrite.  Bound: two programs do not have the file       *)
(* truncated at the same time.                                             *)
WriteFile(p) ==
    /\ \/ /\ At(p, "backup")
          /\ bak' = buf[p].old
          /\ UNCHANGED <<config, uninstBak, torn, buf>>
       \/ /\ At(p, "backupUninstall")
          /\ uninstBak' = buf[p].old
          /\ UNCHANGED <<config, bak, torn, buf>>
       \/ /\ At(p, "truncate") /\ \A q \in Editors : ~At(q, "write")
          /\ config' = <<>> /\ torn' = TRUE
          /\ UNCHANGED <<bak, uninstBak, buf>>
       \/ /\ At(p, "write")
          /\ config' = buf[p].new /\ torn' = FALSE
          /\ buf' = [buf EXCEPT ![p] = NoBuf]
          /\ UNCHANGED <<bak, uninstBak>>
    /\ Done(p)
    /\ UNCHANGED sshVersion

EditStep(p) ==
    \/ \E forceAppend \in BOOLEAN : EditSSHConfig(p, forceAppend)
    \/ EditDeclined(p)
    \/ MigrateSSHConfig(p)
    \/ CleanSSHConfig(p)
    \/ UpgradeSSHConfig(p)
    \/ WriteFile(p)

(* The user installs another ssh, never an older one (external).           *)
AtLeast(v, w) == v[1] > w[1] \/ (v[1] = w[1] /\ v[2] >= w[2])

UpgradeSsh(version) ==
    /\ sshVersion # <<>> => version # <<>> /\ AtLeast(version, sshVersion)
    /\ version # sshVersion
    /\ sshVersion' = version
    /\ UNCHANGED <<config, bak, uninstBak, buf, torn, todo>>
=============================================================================
