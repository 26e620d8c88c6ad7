------------------------------- MODULE Daemon -------------------------------
(***************************************************************************)
(* The krd processes of a workstation, their sockets, and the programs     *)
(* that start, kill and dial them.                                         *)
(***************************************************************************)
EXTENDS Script, FiniteSets

CONSTANTS
    Krds,      \* krd processes.  Bound: so many at a time
    Clients,   \* the programs that need krd
    NoFile,    \* a socket path without a file
    Stale      \* a socket file that nobody listens on

VARIABLES
    alive,     \* the krd processes there are
    sock,      \* who listens at the path of each socket
    disturbed  \* history: a dial or a restart did not have the daemon for
               \* itself, or a daemon was slower than the second it is given

daemonVars == <<alive, sock, disturbed>>

Sockets == {"krd.sock", "krd-agent.sock", "krd-hostauth.sock"}

DaemonTypeOK ==
    /\ alive \subseteq Krds
    /\ sock \in [Sockets -> Krds \cup {NoFile, Stale}]
    /\ disturbed \in BOOLEAN

DaemonInit ==
    /\ alive = {}
    /\ sock = [s \in Sockets |-> NoFile]
    /\ disturbed = FALSE

-----------------------------------------------------------------------------
(* main of krd: it listens on its sockets one after the other, and catches *)
(* signals only at the end.                                                *)
Main == <<"upgrade", "krd.sock", "krd-agent.sock", "krd-hostauth.sock", "up">>

Settled == \A k \in alive : At(k, "up")

WithoutOwners(ks) == [s \in Sockets |-> IF sock[s] \in ks THEN Stale ELSE sock[s]]

ListenIfAbsent(k, s) ==
    /\ At(k, s)
    /\ \/ sock[s] = NoFile
          /\ sock' = [sock EXCEPT ![s] = k] /\ Done(k) /\ UNCHANGED alive
       \/ sock[s] # NoFile
          /\ alive' = alive \ {k} /\ sock' = WithoutOwners({k})
          /\ todo' = [todo EXCEPT ![k] = <<>>]
    /\ UNCHANGED disturbed

(* AgentListen, DaemonListen and HostAuthListen: "delete UNIX socket in    *)
(* case daemon was not killed cleanly".  (The form above keeps the file,   *)
(* and is not used.)                                                       *)
Listen(k, s) ==
    /\ At(k, s)
    /\ sock' = [sock EXCEPT ![s] = k]
    /\ Done(k)
    /\ UNCHANGED <<alive, disturbed>>

(* Another krd listens between the removal and the call of net.Listen,     *)
(* which fails: log.Fatal runs no deferred Close.                          *)
ListenFails(k, s) ==
    /\ At(k, s) /\ \E j \in alive : sock[s] = j /\ j # k /\ ~At(j, "up")
    /\ alive' = alive \ {k}
    /\ sock' = WithoutOwners({k})
    /\ todo' = [todo EXCEPT ![k] = <<>>]
    /\ UNCHANGED disturbed

(* After the signal main stops the client and closes its listeners, which  *)
(* unlinks their paths, whoever listens there by now.                      *)
Exit(k) ==
    /\ At(k, "stop")
    /\ alive' = alive \ {k}
    /\ sock' = [s \in Sockets |-> NoFile]
    /\ Done(k)
    /\ UNCHANGED disturbed

(* krd dies: its sockets stay.                                             *)
Crash(k) ==
    /\ k \in alive
    /\ alive' = alive \ {k}
    /\ sock' = WithoutOwners({k})
    /\ todo' = [todo EXCEPT ![k] = <<>>]
    /\ disturbed' = (disturbed \/ \E c \in Clients : todo[c] # <<>>)

-----------------------------------------------------------------------------
IsKrdRunning == alive # {}

StartKrd(c, k) ==
    /\ At(c, "start") /\ k \notin alive
    /\ alive' = alive \cup {k}
    /\ todo' = [todo EXCEPT ![c] = Tail(@), ![k] = Main]
    /\ UNCHANGED <<sock, disturbed>>

(* pkill: a krd that is up catches the signal, the others just die.        *)
KillKrd(c) ==
    /\ At(c, "kill")
    /\ LET dead == {k \in alive : ~At(k, "up") /\ ~At(k, "stop")}
       IN  /\ alive' = alive \ dead
           /\ sock' = WithoutOwners(dead)
           /\ todo' = [p \in DOMAIN todo |->
                  IF p = c THEN Tail(todo[c])
                  ELSE IF p \in dead THEN <<>>
                  ELSE IF p \in alive THEN <<"stop">>
                  ELSE todo[p]]
    /\ UNCHANGED disturbed

(* "<-time.After(1 * time.Second)"                                         *)
Wait(c) ==
    /\ At(c, "wait")
    /\ Done(c)
    /\ disturbed' = (disturbed \/ ~Settled)
    /\ UNCHANGED <<alive, sock>>

(* startKrd of kr pair, and the start of DaemonDial.                       *)
EnsureRunning(c, step, steps) ==
    /\ At(c, step)
    /\ Expand(c, IF IsKrdRunning THEN steps ELSE <<"start", "wait">> \o steps)
    /\ UNCHANGED daemonVars

DialAnyway(c) ==
    At(c, "dial") /\ Expand(c, <<"start", "wait", "connect">>) /\ UNCHANGED daemonVars

DaemonDial(c) == EnsureRunning(c, "dial", <<"connect">>)

(* net.Dial in DaemonDial, and in its one retry after a restart.           *)
Connect(c, s) ==
    /\ \/ At(c, "connect")
          /\ Expand(c, IF sock[s] \in alive THEN <<>>
                       ELSE <<"kill", "wait", "start", "wait", "reconnect">>)
       \/ At(c, "reconnect")
          /\ IF sock[s] \in alive THEN Done(c)
             ELSE todo' = [todo EXCEPT ![c] = <<"failed">>]
    /\ UNCHANGED daemonVars

(* pingDaemon gets its answer from a krd that is up, or no answer: an      *)
(* error if krd is gone, a timeout if it does not serve.                   *)
Ping(c, s) ==
    /\ At(c, "ping")
    /\ IF sock[s] \in alive /\ At(sock[s], "up") THEN Done(c)
       ELSE todo' = [todo EXCEPT ![c] = <<"failed">>]
    /\ UNCHANGED daemonVars

DaemonDialWithTimeout == <<"dial", "ping", "dial">>

KrdStep(k) ==
    \/ \E s \in Sockets : Listen(k, s) \/ ListenFails(k, s)
    \/ Exit(k)

DialStep(c, s) ==
    \/ \E k \in Krds : StartKrd(c, k)
    \/ KillKrd(c)
    \/ Wait(c)
    \/ EnsureRunning(c, "ensure", <<>>)
    \/ DaemonDial(c)
    \/ Connect(c, s)
    \/ Ping(c, s)
=============================================================================
