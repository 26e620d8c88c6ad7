----------------------------- MODULE SshSession -----------------------------
(***************************************************************************)
(* SSH sessions end to end: krssh, krd's agent and the notification files  *)
(* between them.                                                           *)
(***************************************************************************)
EXTENDS SshAgent, Krssh

CONSTANT Signers  \* the sessions whose ssh asks the agent to sign

ASSUME SignersAssumption == Signers \subseteq Sessions

VARIABLES
    age,   \* history: host signatures krd got from a session's own on, until
           \* Sign looked for it; 0 when it has none
    due    \* history: lines that krd wrote to a file while the session's
           \* logger listened and that it has not read yet

vars == <<agentVars, proxy, prefix, hostAuths, own, shared, age, due>>

TypeOK ==
    /\ AgentTypeOK /\ ProxyTypeOK
    /\ age \in [Sessions -> Nat]
    /\ due \in [Sessions -> SUBSET (Files \X Lines)]

Init ==
    /\ AgentInit /\ ProxyInit
    /\ age = [s \in Sessions |-> 0]
    /\ due = [s \in Sessions |-> {}]

-----------------------------------------------------------------------------
(* Nobody but the session's logger truncates the file of its prefix.       *)
Listening(s, f) ==
    \/ f = s /\ own[s].open
    \/ f = Empty /\ InStep(log[Empty], shared[s])

(* What an agent step appends to a file becomes due for its listeners.     *)
AgentStep(step) ==
    /\ step
    /\ due' = [s \in Sessions |-> due[s] \cup
           {<<f, Last(log'[f])>> : f \in {g \in Files :
               Len(log'[g]) > Len(log[g]) /\ Listening(s, g)}}]
    /\ UNCHANGED <<proxy, prefix, hostAuths, own, shared, age>>

(* A logger's step settles the line it reads (KILL only by ending).        *)
(* Who truncates the shared file cancels what was due from it.             *)
Settled(s) ==
    {d \in due[s] :
        \/ proxy'[s] \in {"killed", "ended"}
        \/ d[1] = Empty /\ log'[Empty] # log[Empty]
        \/ d[1] = Empty /\ shared'[s].offset > shared[s].offset
           /\ d[2] = NextLine(log[Empty], shared[s])
        \/ d[1] = s /\ own'[s] # own[s] /\ HasLine(log[s], own[s])
           /\ d[2] = NextLine(log[s], own[s]) /\ d[2] # "KILL"}

ProxyStep(step) ==
    /\ step
    /\ due' = [s \in Sessions |-> due[s] \ Settled(s)]
    /\ UNCHANGED <<krd, sigs, callbacks, sign, age>>

(* ssh asks for a signature once krssh has forwarded the key exchange.     *)
SshAuthenticates(s, outcome) == s \in Signers /\ proxy[s] = "forward" /\ StartSign(s, outcome)

HostAuthArrives(s) ==
    /\ krd = "up" /\ s \in hostAuths
    /\ OnHostAuth(s)
    /\ hostAuths' = hostAuths \ {s}
    /\ age' = [t \in Sessions |->
           IF sign[t].pc \notin {"idle", "check"} THEN age[t]
           ELSE IF krd' = "panicked" \/ (t # s /\ age[t] = 0) THEN 0
           ELSE age[t] + 1]
    /\ UNCHANGED <<proxy, prefix, own, shared, due>>

(* The end of the second that Sign sleeps.  The guard is an assumption on  *)
(* time, not a check in the code: a second is twenty polls of krssh, and   *)
(* its logger has caught up by then.                                       *)
GraceEnds(s) == ~HasLine(log[s], own[s]) /\ AfterGrace(s)

(* An hour after the last line every logger has.                           *)
CleanUp(s) ==
    /\ sign[s].pc \in {"done", "aborted"} /\ sign[s].out = <<>>
    /\ ~HasLine(log[s], own[s])
    /\ Cleanup(s)

(* ssh lists the keys before it asks for a signature.  Bound: not again    *)
(* while the warning is there.                                             *)
SshLists(s) ==
    /\ s \in Signers /\ proxy[s] = "forward" /\ sign[s].pc = "idle"
    /\ ~Contains(log[Empty], "failed")
    /\ List

SignStep(s) ==
    \/ CheckForHostAuth(s)
    \/ RegisterCallback(s)
    \/ AwaitTimeout(s)
    \/ RequestSignature(s)
    \/ \E outcome \in Outcomes : Answered(s, outcome)
    \/ Notify(s)
    \/ Return(s)
    \/ GraceEnds(s)

LogStep(s) == LogOwn(s) \/ LogShared(s)

Next ==
    \/ \E s \in Sessions :
          \/ AgentStep(SignStep(s) \/ OnAck(s) \/ SshLists(s))
          \/ \E outcome \in {"none", "local", "unparsed", "unsupported"} :
                AgentStep(SshAuthenticates(s, outcome))
          \/ HostAuthArrives(s)
          \/ ProxyStep(Main(s) \/ SendHostAuth(s, krd = "up"))
          \/ \E packetLen \in PacketLens, paddingLen \in PaddingLens, isKexReply \in BOOLEAN :
                ProxyStep(TryParse(s, packetLen, paddingLen, isKexReply))
          \/ ProxyStep(StartLogger(s) \/ LogStep(s) \/ Close(s) \/ CleanUp(s))
    \/ AgentStep(Restart)

(* ssh sends its requests on, krd and krssh run, krssh polls its files.    *)
Fairness ==
    \A s \in Sessions :
        /\ WF_vars(AgentStep(SignStep(s)))
        /\ WF_vars(ProxyStep(LogOwn(s)))
        /\ WF_vars(ProxyStep(LogShared(s)))

Spec == Init /\ [][Next]_vars /\ Fairness

-----------------------------------------------------------------------------
(* Sign gives the phone the host's signature exactly when it is among the  *)
(* MaxSigs latest ones krd got by the time Sign looked: a signature that   *)
(* arrives later, even before the callback is registered, comes too late.  *)
LatestHostsAreKnown ==
    \A s \in Sessions :
        sign[s].pc \in {"prepare", "request", "grace"} /\ sign[s].outcome # "unparsed"
            => (sign[s].host <=> age[s] \in 1..MaxSigs)

(* "signal krssh to kill session, allow 1 second to do so": when the phone *)
(* rejects and the session's logger was there to see it, krssh is gone     *)
(* before Sign returns and ssh can try another key.                        *)
RejectedSessionIsKilled ==
    \A s \in Sessions :
        ~(sign[s].pc = "done" /\ <<s, "KILL">> \in due[s])

(* Every Sign returns, whether or not a host signature comes, unless the   *)
(* daemon dies under it.                                                   *)
SignReturns ==
    \A s \in Sessions : (sign[s].pc = "check") ~> (sign[s].pc \in {"done", "aborted"})

(* What krd writes while a logger of the session listens is read by it,    *)
(* unless krssh ends first or another krssh truncates the shared file.     *)
NotificationsAreRead ==
    \A s \in Sessions : (due[s] # {}) ~> (due[s] = {})

(* The assertion of onHostAuth, cb.(hostAuthCallback): the value found in  *)
(* the cache is a hostAuthCallback.                                        *)
CallbackIsHostAuthCallback == krd # "panicked"
=============================================================================
