------------------------------ MODULE SshAgent ------------------------------
(***************************************************************************)
(* krd's SSH agent: Sign waits up to a second for the host's signature of  *)
(* the session (onHostAuth brings it from krssh), asks the phone and tells *)
(* krssh how it went, through the notification file of the session or,     *)
(* when the host is unknown, the one all sessions share.  A session stands *)
(* for its session ID, the one thing its host signature verifies.          *)
(***************************************************************************)
EXTENDS LRU, NotifyLog

CONSTANTS
    MaxSigs,     \* recentSessionIDSignatures, 50 in onHostAuth
    CallbackCap  \* hostAuthCallbacksBySessionID, 128 in ServeKRAgent

ASSUME AgentAssumption ==
    MaxSigs \in Nat \ {0} /\ CallbackCap \in Nat \ {0}

VARIABLES
    krd,        \* the daemon runs or has panicked
    sigs,       \* a.recentSessionIDSignatures, newest first
    callbacks,  \* a.hostAuthCallbacksBySessionID
    sign        \* Sign of each session

agentVars == <<krd, sigs, callbacks, sign, log>>

(* How RequestSignature ends: an error of its own, no response or no       *)
(* signature in it, a rejection, an error of the phone or a signature.     *)
Outcomes == {"failed", "empty", "kill", "answer"}

SignStates ==
    [pc : {"idle", "check", "register", "await", "prepare", "request", "grace",
           "done", "aborted"},
     host : BOOLEAN, acked : BOOLEAN, out : Seq(Lines),
     outcome : Outcomes \cup {"none", "local", "unparsed", "unsupported"}]

NewSign ==
    [pc |-> "idle", host |-> FALSE, acked |-> FALSE, out |-> <<>>, outcome |-> "none"]

AgentTypeOK ==
    /\ krd \in {"up", "panicked"}
    /\ Len(sigs) <= MaxSigs /\ \A i \in DOMAIN sigs : sigs[i] \in Sessions
    /\ IsCache(callbacks, Files) /\ Len(callbacks) <= CallbackCap
    /\ sign \in [Sessions -> SignStates]
    /\ log \in [Files -> Seq(Lines)]

AgentInit ==
    /\ krd = "up" /\ sigs = <<>> /\ callbacks = <<>>
    /\ sign = [s \in Sessions |-> NewSign]
    /\ log = [f \in Files |-> <<>>]

(* notify opens the file of the prefix, which is the host's if known.      *)
FileOf(s) == IF sign[s].host THEN s ELSE Empty

-----------------------------------------------------------------------------
(* List tells whoever listens that there is no pairing.                    *)
List ==
    /\ krd = "up"
    /\ log' = [log EXCEPT ![Empty] = Append(@, "failed")]
    /\ UNCHANGED <<krd, sigs, callbacks, sign>>

(* Sign: the original agent signs if it has the key; a payload that does   *)
(* not parse, or a key of another type, is refused after the wait.         *)
StartSign(s, outcome) ==
    /\ krd = "up"
    /\ sign[s].pc = "idle"
    /\ outcome \in {"none", "local", "unparsed", "unsupported"}
    /\ sign' = [sign EXCEPT ![s].outcome = outcome,
                            ![s].pc = IF outcome = "local" THEN "done" ELSE "check"]
    /\ UNCHANGED <<krd, sigs, callbacks, log>>

(* checkForHostAuth, under the mutex.                                      *)
SessionID(s) == IF sign[s].outcome = "unparsed" THEN Empty ELSE s

CheckForHostAuth(s) ==
    /\ sign[s].pc = "check"
    /\ \/ /\ Contains(sigs, SessionID(s))
          /\ sign' = [sign EXCEPT ![s].pc = "prepare", ![s].host = TRUE]
       \/ /\ ~Contains(sigs, SessionID(s))
          /\ sign' = [sign EXCEPT ![s].pc = "register"]
    /\ UNCHANGED <<krd, sigs, callbacks, log>>

(* The callback is registered under the mutex, taken a second time.        *)
RegisterCallback(s) ==
    /\ sign[s].pc = "register"
    /\ callbacks' = LruAdd(callbacks, SessionID(s), CallbackCap)
    /\ sign' = [sign EXCEPT ![s].pc = "await"]
    /\ UNCHANGED <<krd, sigs, log>>

(* case <-time.After(time.Second).  The other case never happens: sending  *)
(* on a callback panics, see OnHostAuth.  The callback stays in the cache. *)
AwaitForever(s) == FALSE /\ UNCHANGED agentVars

AwaitTimeout(s) ==
    /\ sign[s].pc = "await"
    /\ sign' = [sign EXCEPT ![s].pc = "prepare"]
    /\ UNCHANGED <<krd, sigs, callbacks, log>>

(* The checks after the wait, and the first notification.                  *)
RequestSignature(s) ==
    /\ sign[s].pc = "prepare"
    /\ sign' = [sign EXCEPT
           ![s].pc  = IF sign[s].outcome = "none" THEN "request" ELSE "done",
           ![s].out = IF sign[s].outcome = "none" THEN <<"requesting">> ELSE <<>>]
    /\ UNCHANGED <<krd, sigs, callbacks, log>>

(* onACK, called while RequestSignature waits.                             *)
OnAck(s) ==
    /\ sign[s].pc = "request" /\ sign[s].outcome = "none"
    /\ sign[s].out = <<>> /\ ~sign[s].acked
    /\ sign' = [sign EXCEPT ![s].out = <<"approve">>, ![s].acked = TRUE]
    /\ UNCHANGED <<krd, sigs, callbacks, log>>

(* The lines of each outcome.  STOP only goes to the file of a prefix, and *)
(* not when RequestSignature itself failed.                                *)
Stop(s) == IF sign[s].host THEN <<"STOP">> ELSE <<>>

OutcomeLines(s, outcome) ==
    CASE outcome = "failed" -> <<"failed">>
      [] outcome = "empty"  -> Stop(s)
      [] outcome = "answer" -> <<"answer">> \o Stop(s)
      [] outcome = "kill"   -> <<"KILL">>

Answered(s, outcome) ==
    /\ sign[s].pc = "request" /\ sign[s].outcome = "none"
    /\ sign[s].out = <<>>
    /\ sign' = [sign EXCEPT ![s].outcome = outcome, ![s].out = OutcomeLines(s, outcome)]
    /\ UNCHANGED <<krd, sigs, callbacks, log>>

(* notify: one line of the ones Sign has to write, in order.               *)
Notify(s) ==
    /\ sign[s].out # <<>>
    /\ log' = [log EXCEPT ![FileOf(s)] = Append(@, Head(sign[s].out))]
    /\ sign' = [sign EXCEPT ![s].out = Tail(@)]
    /\ UNCHANGED <<krd, sigs, callbacks>>

(* Sign returns once all is written; after KILL it first gives krssh one   *)
(* second, the time of twenty polls, and then writes STOP.                 *)
Return(s) ==
    /\ sign[s].pc = "request" /\ sign[s].outcome # "none" /\ sign[s].out = <<>>
    /\ sign' = [sign EXCEPT ![s].pc = IF sign[s].outcome = "kill" THEN "grace" ELSE "done"]
    /\ UNCHANGED <<krd, sigs, callbacks, log>>

AfterGrace(s) ==
    /\ sign[s].pc = "grace"
    /\ sign' = [sign EXCEPT ![s].pc = "done", ![s].out = Stop(s)]
    /\ UNCHANGED <<krd, sigs, callbacks, log>>

-----------------------------------------------------------------------------
(* onHostAuth.  The value in the cache is a chan *kr.HostAuth and is       *)
(* asserted to be a hostAuthCallback, a type of its own: when the session  *)
(* has a callback the assertion panics, in a goroutine that nobody         *)
(* recovers, and takes the daemon and its connections with it.             *)
RememberAll(s) == <<s>> \o sigs
RememberOldest(s) == IF Len(sigs) < MaxSigs THEN <<s>> \o sigs ELSE sigs

Remember(s) == IF Len(sigs) < MaxSigs THEN <<s>> \o sigs ELSE <<s>> \o Front(sigs)

OnHostAuth(s) ==
    \/ /\ ~Contains(callbacks, s)
       /\ sigs' = Remember(s)
       /\ UNCHANGED <<krd, callbacks, sign, log>>
    \/ /\ Contains(callbacks, s)
       /\ krd' = "panicked"
       /\ sigs' = <<>> /\ callbacks' = <<>>
       /\ sign' = [t \in Sessions |->
              IF sign[t].pc \in {"idle", "done"} THEN sign[t]
              ELSE [NewSign EXCEPT !.pc = "aborted"]]
       /\ UNCHANGED log

(* The user runs kr restart, or another kr command starts the daemon.      *)
Restart ==
    /\ krd = "panicked"
    /\ krd' = "up"
    /\ UNCHANGED <<sigs, callbacks, sign, log>>
=============================================================================
