------------------------------- MODULE Krssh -------------------------------
(***************************************************************************)
(* krssh, the ProxyCommand of an SSH session: it forwards bytes both ways, *)
(* takes the host's signature out of the key exchange, hands it to krd     *)
(* before it forwards the packet that holds it, and prints what krd writes *)
(* to the notification files.                                              *)
(***************************************************************************)
EXTENDS NotifyLog, SshPacket

VARIABLES
    proxy,      \* main of each krssh
    prefix,     \* the notifyPrefix channel of each krssh
    hostAuths,  \* host signatures on their way to krd
    own,        \* the logger of the session's prefix
    shared      \* the logger of the shared file

proxyVars == <<proxy, prefix, hostAuths, own, shared, log>>

IsReader(r) == r.open \in BOOLEAN /\ r.offset \in Nat

ProxyTypeOK ==
    /\ proxy \in [Sessions -> {"new", "kex", "send", "forward", "killed", "ended"}]
    /\ prefix \in [Sessions -> {"none", "sent", "taken"}]
    /\ hostAuths \subseteq Sessions
    /\ \A s \in Sessions : IsReader(own[s]) /\ IsReader(shared[s])

ProxyInit ==
    /\ proxy = [s \in Sessions |-> "new"]
    /\ prefix = [s \in Sessions |-> "none"]
    /\ hostAuths = {}
    /\ own = [s \in Sessions |-> Closed]
    /\ shared = [s \in Sessions |-> Closed]

Over(s) == proxy[s] \in {"killed", "ended"}

(* main starts the logger of the shared file.                              *)
Main(s) ==
    /\ proxy[s] = "new"
    /\ proxy' = [proxy EXCEPT ![s] = "kex"]
    /\ log' = [log EXCEPT ![Empty] = OpenReader(log[Empty]).file]
    /\ shared' = [shared EXCEPT ![s] = OpenReader(log[Empty]).reader]
    /\ UNCHANGED <<prefix, hostAuths, own>>

(* What is read from the remote side is a key exchange reply.              *)
HoldsHostAuth(packetLen, paddingLen, isKexReply) ==
    Accepts(packetLen, paddingLen) /\ isKexReply

(* tryParse, at every read after the first: the prefix of a key exchange   *)
(* reply goes to main's goroutine, then krssh dials krd; anything else is  *)
(* only forwarded, and more reads follow, or it was the reply, split over  *)
(* two reads, and the key exchange ends.  What comes later is encrypted.   *)
TryParse(s, packetLen, paddingLen, isKexReply) ==
    /\ proxy[s] = "kex"
    /\ \/ /\ HoldsHostAuth(packetLen, paddingLen, isKexReply)
          /\ proxy' = [proxy EXCEPT ![s] = "send"]
          /\ prefix' = [prefix EXCEPT ![s] = "sent"]
       \/ /\ ~HoldsHostAuth(packetLen, paddingLen, isKexReply)
          /\ proxy' \in {proxy, [proxy EXCEPT ![s] = "forward"]}
          /\ UNCHANGED prefix
    /\ UNCHANGED <<hostAuths, own, shared, log>>

SendHostAuth(s, connected) ==
    /\ proxy[s] = "send"
    /\ proxy' = [proxy EXCEPT ![s] = "forward"]
    /\ hostAuths' = IF connected THEN hostAuths \cup {s} ELSE hostAuths
    /\ UNCHANGED <<prefix, own, shared, log>>

(* main's goroutine starts the logger of the prefix, at any time later.    *)
StartLogger(s) ==
    /\ prefix[s] = "sent" /\ ~Over(s)
    /\ prefix' = [prefix EXCEPT ![s] = "taken"]
    /\ log' = [log EXCEPT ![s] = OpenReader(log[s]).file]
    /\ own' = [own EXCEPT ![s] = OpenReader(log[s]).reader]
    /\ UNCHANGED <<proxy, hostAuths, shared>>

(* One round of the logger of the prefix: STOP ends it and removes the     *)
(* file, KILL ends the process, other lines are printed.                   *)
LogOwnPrintsSignals(s) ==
    /\ HasLine(log[s], own[s])
    /\ own' = [own EXCEPT ![s].offset = @ + 1]
    /\ UNCHANGED <<proxy, prefix, hostAuths, shared, log>>

LogOwn(s) ==
    /\ HasLine(log[s], own[s])
    /\ \/ /\ NextLine(log[s], own[s]) = "STOP"
          /\ own' = [own EXCEPT ![s] = Closed]
          /\ log' = [log EXCEPT ![s] = <<>>]
          /\ UNCHANGED <<proxy, shared>>
       \/ /\ NextLine(log[s], own[s]) = "KILL"
          /\ proxy' = [proxy EXCEPT ![s] = "killed"]
          /\ own' = [own EXCEPT ![s] = Closed]
          /\ shared' = [shared EXCEPT ![s] = Closed]
          /\ UNCHANGED log
       \/ /\ NextLine(log[s], own[s]) \notin {"STOP", "KILL"}
          /\ own' = [own EXCEPT ![s].offset = @ + 1]
          /\ UNCHANGED <<proxy, shared, log>>
    /\ UNCHANGED <<prefix, hostAuths>>

(* One round of the logger of the shared file, which prints every line (a  *)
(* repeated one once, like the other logger).                              *)
LogShared(s) ==
    /\ HasLine(log[Empty], shared[s])
    /\ shared' = [shared EXCEPT ![s].offset = @ + 1]
    /\ UNCHANGED <<proxy, prefix, hostAuths, own, log>>

(* One side closes the connection, or a signal ends krssh.                 *)
Close(s) ==
    /\ proxy[s] \in {"kex", "forward"}
    /\ proxy' = [proxy EXCEPT ![s] = "ended"]
    /\ own' = [own EXCEPT ![s] = Closed]
    /\ shared' = [shared EXCEPT ![s] = Closed]
    /\ UNCHANGED <<prefix, hostAuths, log>>

(* StartNotifyCleanup, in krd: prefixed files untouched for an hour go.    *)
Cleanup(s) ==
    /\ log[s] # <<>>
    /\ log' = [log EXCEPT ![s] = <<>>]
    /\ UNCHANGED <<proxy, prefix, hostAuths, own, shared>>

-----------------------------------------------------------------------------
(* While krssh looks for the key exchange reply, whatever lengths the      *)
(* remote side sends, parseSSHPacket neither slices outside the buffer nor *)
(* takes a wrapped length for a payload: it accepts exactly what fits.     *)
ParsesExactly ==
    \A s \in Sessions : proxy[s] = "kex" =>
        \A packetLen \in PacketLens, paddingLen \in PaddingLens :
            Accepts(packetLen, paddingLen) <=> Fits(packetLen, paddingLen)
=============================================================================
