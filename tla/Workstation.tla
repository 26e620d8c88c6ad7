---------------------------- MODULE Workstation ----------------------------
(***************************************************************************)
(* The commands of kr that set a workstation up, with the krd processes    *)
(* they start and other programs (krssh) that dial krd at the same time.   *)
(***************************************************************************)
EXTENDS SshConfig, Daemon, GitConfig

CONSTANTS
    Kr,          \* the client that runs kr; the others are krssh
    MaxCommands, \* bound: commands that are run
    MaxFaults    \* bound: interrupted commands and crashes of krd

ASSUME KrAssumption ==
    /\ Kr \in Clients /\ Clients \cap Krds = {} /\ Editors = {Kr} \cup Krds
    /\ MaxCommands \in Nat /\ MaxFaults \in Nat

VARIABLES
    commands, \* how many were run
    faults,   \* how many commands were interrupted, and krds died
    forced,   \* history: a block was appended with --force
    atRisk,   \* history: a rewrite without a backup was cut short, or a
              \* rewrite began from a file that an unfinished one had emptied
    cut,      \* history: a command of kr was interrupted
    turnedOn  \* history: kr codesign on ran beside kr codesign

bounds == <<commands, faults>>
histories == <<forced, atRisk, cut, turnedOn>>
vars == <<todo, configVars, daemonVars, gitVars, bounds, histories>>

Procs == Clients \cup Krds

TypeOK == ConfigTypeOK /\ DaemonTypeOK /\ GitTypeOK

Init ==
    /\ todo = [p \in Procs |-> <<>>]
    /\ ConfigInit /\ DaemonInit /\ GitInit
    /\ commands = 0 /\ faults = 0
    /\ forced = FALSE /\ atRisk = FALSE /\ cut = FALSE /\ turnedOn = FALSE

SocketOf(c) == IF c = Kr THEN "krd.sock" ELSE "krd-hostauth.sock"

(* The commands, as the functions they call.                               *)
PairCommand      == <<"ensure", "edit">> \o DaemonDialWithTimeout
RestartCommand   == <<"migrate", "kill", "wait", "start">>
UninstallCommand == <<"clean", "kill", "wait", "remove", "codesigning">>
CodesignCommand  == DaemonDialWithTimeout \o <<"programKrgpg", "onboard">>

Commands == [
    pair       |-> PairCommand,
    sshConfig  |-> <<"edit">>,
    sshConfigForce |-> <<"force">>,
    restart    |-> RestartCommand,
    uninstall  |-> UninstallCommand,
    codesign   |-> CodesignCommand,
    codesignOn |-> <<"commitOn">>,
    codesignOff |-> <<"commitOff">>,
    codesignUninstall |-> <<"codesigning">>]

Daemonic(steps) == \E i \in DOMAIN steps : steps[i] \in {"ensure", "dial", "kill"}

Begin(c, steps) ==
    /\ todo[c] = <<>> /\ commands < MaxCommands
    /\ commands' = commands + 1
    /\ todo' = [todo EXCEPT ![c] = steps]
    /\ disturbed' = \/ disturbed
                    \/ Daemonic(steps) /\ (~Settled \/ \E d \in Clients \ {c} : todo[d] # <<>>)
    /\ UNCHANGED <<configVars, alive, sock, gitVars, faults>>

RunKr(command) ==
    /\ installed
    /\ Begin(Kr, Commands[command])
    /\ forced' = (forced \/ command = "sshConfigForce")
    /\ turnedOn' = (turnedOn \/ command = "codesignOn")
    /\ UNCHANGED <<atRisk, cut>>

RunKrssh(c) ==
    /\ c # Kr /\ installed
    /\ Begin(c, <<"dial">>)
    /\ UNCHANGED histories

(* PrintFatal: the command ends.                                           *)
Failed(c) ==
    /\ At(c, "failed") /\ Done(c)
    /\ UNCHANGED <<configVars, daemonVars, gitVars, bounds, histories>>

Edit(p) ==
    /\ EditStep(p)
    /\ atRisk' = (atRisk \/ (torn /\ Len(todo'[p]) > Len(todo[p])))
    /\ UNCHANGED <<daemonVars, gitVars, bounds, forced, cut, turnedOn>>

(* The migration is the rewrite of kr that keeps no backup.                *)
IsMigration(b) == b.new # b.old /\ b.new = Migrated(b.old)

Interrupt ==
    /\ faults < MaxFaults /\ faults' = faults + 1
    /\ todo[Kr] # <<>> /\ todo' = [todo EXCEPT ![Kr] = <<>>]
    /\ buf' = [buf EXCEPT ![Kr] = NoBuf]
    /\ cut' = TRUE
    /\ atRisk' = (atRisk \/ (At(Kr, "write") /\ IsMigration(buf[Kr])))
    /\ UNCHANGED <<config, bak, uninstBak, sshVersion, torn, daemonVars, gitVars,
                   commands, forced, turnedOn>>

(* A krd that dies in the middle of its rewrite cuts that short too.       *)
DaemonStep(step, fault) ==
    /\ step
    /\ faults + fault <= MaxFaults /\ faults' = faults + fault
    /\ LET dead == alive \ alive'
       IN  /\ buf' = [p \in Editors |-> IF p \in dead THEN NoBuf ELSE buf[p]]
           /\ atRisk' = (atRisk \/ \E k \in dead : At(k, "write"))
    /\ UNCHANGED <<config, bak, uninstBak, sshVersion, torn, gitVars,
                   commands, forced, cut, turnedOn>>

Next ==
    \/ \E command \in DOMAIN Commands : RunKr(command)
    \/ \E c \in Clients :
          \/ RunKrssh(c)
          \/ Failed(c)
          \/ DaemonStep(DialStep(c, SocketOf(c)), 0)
    \/ \E p \in Editors : Edit(p)
    \/ \E k \in Krds : DaemonStep(KrdStep(k), 0) \/ DaemonStep(Crash(k), 1)
    \/ GitStep(Kr) /\ UNCHANGED <<configVars, daemonVars, bounds, histories>>
    \/ InstallPackage /\ UNCHANGED <<configVars, daemonVars, bounds, histories>>
    \/ \E v \in Versions : UpgradeSsh(v) /\ UNCHANGED <<daemonVars, gitVars, bounds, histories>>
    \/ Interrupt

Spec == Init /\ [][Next]_vars

-----------------------------------------------------------------------------
(* The user's own lines are in ~/.ssh/config or in one of the backups, or  *)
(* about to be written back, whatever is edited, upgraded, interrupted and *)
(* repeated; unless a rewrite without a backup (the migration, the one of  *)
(* krd) was cut short, or a rewrite began from a file that another had     *)
(* emptied, be that one still at work or cut short: its backup, if it      *)
(* makes one, then replaces the last one that had the lines.               *)
LinesKept ==
    \/ \E file \in {config, bak, uninstBak} : Contains(file, "user")
    \/ \E p \in Editors : At(p, "write") /\ Contains(buf[p].new, "user")
    \/ atRisk

(* Only --force puts a second block of Krypton's lines into ~/.ssh/config, *)
(* even when ssh was upgraded, or krd renames the block, meanwhile.        *)
NoSecondBlock ==
    forced \/ Cardinality({i \in DOMAIN config : config[i] \in Blocks}) <= 1

(* ssh knows the option IdentityAgent (it came with 7.3) whenever the file *)
(* has it: otherwise every ssh of the user stops at that line.             *)
IdentityAgentSupported ==
    \A i \in DOMAIN config : config[i] \in {"agent", "agentite"} =>
        sshVersion # <<>> /\ AtLeast(sshVersion, <<7, 3>>)

(* A client that has the daemon for itself gets through, whatever krd left *)
(* behind when it last died: stale sockets, no sockets, no process.        *)
SerialDialsConnect == \A c \in Clients : At(c, "failed") => disturbed

(* One daemon serves all three sockets: what kr pairs with is what ssh     *)
(* signs with.  Two at a time, or a slow one, may share them.              *)
OneDaemonServes ==
    \/ disturbed
    \/ /\ Cardinality(alive) <= 1
       /\ \A k \in alive : At(k, "up") => \A s \in Sockets : sock[s] = k

(* Between commands, git never signs with a program that is gone, nor      *)
(* signs on by a setting that kr codesign made and kr has since taken back.*)
GitKeepsCommitting ==
    ~cut /\ todo[Kr] = <<>> =>
        /\ git.program = "krgpg" => installed
        /\ git.commitSign => git.program = "krgpg" \/ turnedOn
        /\ git.tagSign => git.program = "krgpg"
=============================================================================
