------------------------- MODULE SshSession_proofs -------------------------
(***************************************************************************)
(* SSH sessions, for any number of them, any capacity of krd's caches and  *)
(* any width of the lengths in a packet: parseSSHPacket accepts exactly    *)
(* what fits, Sign knows a host exactly when its signature is among the    *)
(* latest, and a rejected session is killed before Sign returns.           *)
(***************************************************************************)
EXTENDS SshSession, LRU_proofs

-----------------------------------------------------------------------------
(* Arithmetic of unsigned integers.                                        *)

LEMMA ModSmall ==
  ASSUME NEW w \in Nat \ {0}, NEW a \in 0..(w - 1)
  PROVE  a % w = a
OBVIOUS

(* What an unsigned subtraction that falls below zero wraps round to.      *)
LEMMA ModWrap ==
  ASSUME NEW w \in Nat \ {0}, NEW a \in (-w)..(-1)
  PROVE  a % w = a + w
OBVIOUS

(* The checks of parseSSHPacket, which work on wrapped lengths, accept     *)
(* exactly the packets whose lengths fit without wrapping.                 *)
LEMMA AcceptsExactly ==
  ASSUME NEW packetLen \in PacketLens, NEW paddingLen \in PaddingLens
  PROVE  Accepts(packetLen, paddingLen) <=> Fits(packetLen, paddingLen)
<1> DEFINE d == packetLen - paddingLen - 1
           n == PayloadLen(packetLen, paddingLen)
<1>1. /\ Word \in Nat \ {0} /\ MaxPadding \in Nat /\ MaxPayload \in Nat /\ BufLen \in Nat
      /\ MaxPayload + MaxPadding + 6 < Word
      /\ packetLen \in Nat /\ packetLen < Word /\ paddingLen \in Nat /\ paddingLen <= MaxPadding
  BY PacketAssumption DEF PacketLens, PaddingLens
<1>2. CASE d >= 0
  <2>1. n = d
    <3>1. d \in 0..(Word - 1)
      BY <1>1, <1>2
    <3> QED BY <1>1, <3>1, ModSmall DEF PayloadLen
  <2>2. d <= MaxPayload => (5 + d) % Word = 5 + d
    <3> SUFFICES ASSUME d <= MaxPayload PROVE (5 + d) % Word = 5 + d
      OBVIOUS
    <3>1. 5 + d \in 0..(Word - 1)
      BY <1>1, <1>2
    <3> QED BY <1>1, <3>1, ModSmall
  <2> QED BY <1>1, <2>1, <2>2 DEF Accepts, Fits
<1>3. CASE ~(d >= 0)
  <2>1. d \in (-Word)..(-1)
    BY <1>1, <1>3
  <2>2. n = d + Word
    BY <1>1, <2>1, ModWrap DEF PayloadLen
  <2>3. ~(n <= MaxPayload) /\ ~(d \in 1..MaxPayload)
    BY <1>1, <1>3, <2>2
  <2> QED BY <2>3 DEF Accepts, Fits
<1> QED BY <1>2, <1>3

-----------------------------------------------------------------------------
(* The inductive invariant.  The types first, with the sequence of host    *)
(* signatures and the readers as such.                                     *)
Reader == [open : BOOLEAN, offset : Nat]

AgentTypes ==
    /\ krd \in {"up", "panicked"}
    /\ sigs \in Seq(Sessions) /\ Len(sigs) <= MaxSigs
    /\ IsCache(callbacks, Files) /\ Len(callbacks) <= CallbackCap
    /\ sign \in [Sessions -> SignStates]
    /\ log \in [Files -> Seq(Lines)]

ProxyTypes ==
    /\ proxy \in [Sessions -> {"new", "kex", "send", "forward", "killed", "ended"}]
    /\ prefix \in [Sessions -> {"none", "sent", "taken"}]
    /\ hostAuths \subseteq Sessions
    /\ own \in [Sessions -> Reader] /\ shared \in [Sessions -> Reader]

HistoryTypes ==
    /\ age \in [Sessions -> Nat]
    /\ due \in [Sessions -> SUBSET (Files \X Lines)]

Types == AgentTypes /\ ProxyTypes /\ HistoryTypes

(* Until Sign looks, the age of a host signature is its place among the    *)
(* recent ones; it leaves them only when there are MaxSigs newer ones.     *)
Aged(s) ==
    sign[s].pc \in {"idle", "check"} =>
        /\ \A i \in 1..Len(sigs) : sigs[i] = s <=> age[s] = i
        /\ age[s] = 0 \/ age[s] <= Len(sigs) \/ Len(sigs) = MaxSigs

(* krssh hands its host's signature over once.                             *)
Fresh(s) ==
    /\ proxy[s] \in {"new", "kex", "send"} => s \notin hostAuths /\ age[s] = 0
    /\ s \in hostAuths => age[s] = 0

(* What Sign found is what it passes on.                                   *)
HostFound(s) ==
    /\ sign[s].pc \in {"idle", "check", "register", "await"} => ~sign[s].host
    /\ sign[s].pc \in {"register", "await", "prepare", "request", "grace"}
       /\ sign[s].outcome # "unparsed" => (sign[s].host <=> age[s] \in 1..MaxSigs)

(* The lines a Sign still has to write, by how far it is.                  *)
ToWrite(s) ==
    \/ sign[s].out = <<>>
    \/ /\ sign[s].pc = "request"
       /\ \/ sign[s].outcome = "none" /\ sign[s].out \in {<<"requesting">>, <<"approve">>}
          \/ sign[s].outcome = "failed" /\ sign[s].out = <<"failed">>
          \/ sign[s].outcome = "empty" /\ sign[s].out = <<"STOP">>
          \/ sign[s].outcome = "answer"
             /\ sign[s].out \in {<<"answer">>, <<"STOP">>, <<"answer", "STOP">>}
          \/ sign[s].outcome = "kill" /\ sign[s].out = <<"KILL">>
    \/ sign[s].pc = "done" /\ sign[s].out = <<"STOP">>

(* The logger of a prefix starts once, and while Sign goes on nobody takes *)
(* lines from it that it has not read.                                     *)
LoggerInStep(s) ==
    /\ proxy[s] \in {"new", "kex"} => prefix[s] = "none"
    /\ own[s].open => prefix[s] = "taken"
    /\ own[s].open /\ sign[s].pc \notin {"done", "aborted"} => own[s].offset <= Len(log[s])

Ending(s) ==
    \/ sign[s].pc \in {"done", "aborted"}
    \/ sign[s].pc = "request" /\ sign[s].outcome \in {"empty", "answer"}

(* STOP comes last, and never to a session that is about to be killed.     *)
StopComesLast(s) ==
    ~Ending(s) => \A i \in 1..Len(log[s]) : log[s][i] # "STOP"

(* As long as KILL is due, the logger has lines to read and comes to it.   *)
KillIsAhead(s) ==
    <<s, "KILL">> \in due[s] /\ sign[s].pc # "aborted" =>
        /\ sign[s].pc \in {"request", "grace"} /\ sign[s].outcome = "kill"
        /\ sign[s].out = <<>>
        /\ own[s].open /\ own[s].offset < Len(log[s])
        /\ log[s][Len(log[s])] = "KILL"

AuthInv(s) == Aged(s) /\ Fresh(s) /\ HostFound(s)
LogInv(s)  == ToWrite(s) /\ LoggerInStep(s) /\ StopComesLast(s) /\ KillIsAhead(s)

Inv == Types /\ \A s \in Sessions : AuthInv(s) /\ LogInv(s)

LEMMA InvImplies ==
  ASSUME Inv
  PROVE  TypeOK /\ LatestHostsAreKnown /\ RejectedSessionIsKilled
<1>1. AgentTypeOK
  <2>1. DOMAIN sigs = 1..Len(sigs) /\ \A i \in 1..Len(sigs) : sigs[i] \in Sessions
    BY LenProperties, ElementOfSeq DEF Inv, Types, AgentTypes
  <2> QED BY <2>1 DEF Inv, Types, AgentTypes, AgentTypeOK
<1>2. ProxyTypeOK
  BY DEF Inv, Types, ProxyTypes, ProxyTypeOK, Reader, IsReader
<1>3. TypeOK
  BY <1>1, <1>2 DEF Inv, Types, HistoryTypes, TypeOK
<1>4. LatestHostsAreKnown
  BY DEF Inv, AuthInv, HostFound, LatestHostsAreKnown
<1>5. RejectedSessionIsKilled
  BY DEF Inv, LogInv, KillIsAhead, RejectedSessionIsKilled
<1> QED BY <1>3, <1>4, <1>5

LEMMA InvInit == Init => Inv
<1> SUFFICES ASSUME Init PROVE Inv
  OBVIOUS
<1> USE DEF Init, AgentInit, ProxyInit
<1>1. <<>> \in Seq(Sessions) /\ <<>> \in Seq(Files) /\ <<>> \in Seq(Lines) /\ Len(<<>>) = 0
  BY EmptySeq
<1>2. AgentTypes
  <2>1. IsCache(<<>>, Files)
    BY <1>1 DEF IsCache, IsInjective
  <2>2. NewSign \in SignStates
    BY <1>1 DEF NewSign, SignStates
  <2> QED BY <1>1, <2>1, <2>2, AgentAssumption DEF AgentTypes
<1>3. ProxyTypes /\ HistoryTypes
  BY DEF ProxyTypes, HistoryTypes, Reader, Closed
<1>4. \A s \in Sessions : AuthInv(s)
  BY <1>1 DEF AuthInv, Aged, Fresh, HostFound, NewSign
<1>5. \A s \in Sessions : LogInv(s)
  BY <1>1 DEF LogInv, ToWrite, LoggerInStep, StopComesLast, KillIsAhead, NewSign, Closed, Files
<1> QED BY <1>2, <1>3, <1>4, <1>5 DEF Inv, Types

-----------------------------------------------------------------------------
(* Frames: a session that a step leaves alone.                             *)

LEMMA AuthFrame ==
  ASSUME NEW s \in Sessions, AuthInv(s), sigs' = sigs, age'[s] = age[s],
         sign'[s] = sign[s], s \in hostAuths' => s \in hostAuths,
         proxy'[s] \in {"new", "kex", "send"} => proxy[s] \in {"new", "kex", "send"}
  PROVE  AuthInv(s)'
BY DEF AuthInv, Aged, Fresh, HostFound

LEMMA LogFrame ==
  ASSUME NEW s \in Sessions, LogInv(s), sign'[s] = sign[s], own'[s] = own[s],
         prefix'[s] = prefix[s], log'[s] = log[s],
         proxy'[s] \in {"new", "kex"} => proxy[s] \in {"new", "kex"},
         <<s, "KILL">> \in due'[s] => <<s, "KILL">> \in due[s]
  PROVE  LogInv(s)'
BY DEF LogInv, ToWrite, LoggerInStep, StopComesLast, KillIsAhead, Ending

LEMMA LastLine ==
  ASSUME NEW file \in Seq(Lines), Len(file) > 0
  PROVE  Last(file) = file[Len(file)] /\ Last(file) \in Lines
<1>1. Len(file) \in 1..Len(file)
  BY LenProperties
<1> QED BY <1>1, ElementOfSeq DEF Last

(* What becomes due when the agent writes.                                 *)
LEMMA DueGrows ==
  ASSUME HistoryTypes, log \in [Files -> Seq(Lines)], log' \in [Files -> Seq(Lines)],
         AgentStep(TRUE)
  PROVE  /\ HistoryTypes'
         /\ \A s \in Sessions : <<s, "KILL">> \in due'[s] =>
               \/ <<s, "KILL">> \in due[s]
               \/ /\ Len(log'[s]) > Len(log[s])
                  /\ own[s].open /\ Last(log'[s]) = "KILL"
<1> DEFINE New(s) == {<<f, Last(log'[f])>> : f \in {g \in Files :
                         Len(log'[g]) > Len(log[g]) /\ Listening(s, g)}}
<1>1. due' = [s \in Sessions |-> due[s] \cup New(s)]
  BY DEF AgentStep
<1>2. \A s : New(s) \subseteq Files \X Lines
  BY LastLine, LenProperties
<1>3. ASSUME NEW s \in Sessions, <<s, "KILL">> \in New(s)
      PROVE  Len(log'[s]) > Len(log[s]) /\ own[s].open /\ Last(log'[s]) = "KILL"
  BY <1>3, EmptyAssumption DEF Listening
<1> HIDE DEF New
<1>4. due' \in [Sessions -> SUBSET (Files \X Lines)]
  BY <1>1, <1>2 DEF HistoryTypes
<1>5. age' \in [Sessions -> Nat]
  BY DEF AgentStep, HistoryTypes
<1> QED BY <1>1, <1>3, <1>4, <1>5 DEF HistoryTypes

(* A step of Sign, or of List, touches one session.                        *)
LEMMA AgentFrame ==
  ASSUME Inv, NEW s \in Sessions, AgentStep(TRUE), sigs' = sigs, AgentTypes',
         \A t \in Sessions \ {s} : sign'[t] = sign[t] /\ log'[t] = log[t],
         AuthInv(s)', LogInv(s)'
  PROVE  Inv'
<1>1. ProxyTypes'
  BY DEF Inv, Types, ProxyTypes, AgentStep
<1>2. /\ HistoryTypes'
      /\ \A t \in Sessions : <<t, "KILL">> \in due'[t] =>
            <<t, "KILL">> \in due[t] \/ Len(log'[t]) > Len(log[t])
  BY DueGrows DEF Inv, Types, AgentTypes
<1>3. ASSUME NEW t \in Sessions \ {s} PROVE AuthInv(t)' /\ LogInv(t)'
  <2>1. AuthInv(t)'
    BY AuthFrame DEF Inv, AgentStep
  <2>2. Len(log[t]) \in Nat /\ log'[t] = log[t]
    BY LenProperties DEF Inv, Types, AgentTypes, Files
  <2>3. <<t, "KILL">> \in due'[t] => <<t, "KILL">> \in due[t]
    BY <1>2, <2>2
  <2>4. LogInv(t)'
    BY <2>2, <2>3, LogFrame DEF Inv, AgentStep
  <2> QED BY <2>1, <2>4
<1> QED BY <1>1, <1>2, <1>3 DEF Inv, Types

(* The steps of Sign that write no line.                                   *)
LEMMA QuietFrame ==
  ASSUME Inv, NEW s \in Sessions, AgentStep(TRUE), UNCHANGED <<krd, sigs, log>>,
         IsCache(callbacks', Files), Len(callbacks') <= CallbackCap,
         NEW q \in SignStates, sign' = [sign EXCEPT ![s] = q],
         AuthInv(s)', ToWrite(s)',
         Ending(s) => Ending(s)',
         sign[s].pc \in {"done", "aborted"} => q.pc \in {"done", "aborted"},
         <<s, "KILL">> \in due[s] => KillIsAhead(s)'
  PROVE  Inv'
<1>1. AgentTypes'
  BY DEF Inv, Types, AgentTypes
<1>2. sign'[s] = q /\ \A t \in Sessions \ {s} : sign'[t] = sign[t]
  BY DEF Inv, Types, AgentTypes
<1>3. Len(log[s]) \in Nat /\ log'[s] = log[s]
  BY LenProperties DEF Inv, Types, AgentTypes, Files
<1>4. <<s, "KILL">> \in due'[s] => <<s, "KILL">> \in due[s]
  BY <1>1, <1>3, DueGrows DEF Inv, Types, AgentTypes
<1>5. LogInv(s)'
  <2>1. LoggerInStep(s)'
    BY <1>2, <1>3 DEF Inv, LogInv, LoggerInStep, AgentStep
  <2>2. StopComesLast(s)'
    BY <1>3 DEF Inv, LogInv, StopComesLast
  <2>3. KillIsAhead(s)'
    BY <1>4 DEF KillIsAhead
  <2> QED BY <2>1, <2>2, <2>3 DEF LogInv
<1> QED BY <1>1, <1>2, <1>5, AgentFrame

-----------------------------------------------------------------------------
(* Sign, step by step.                                                     *)

LEMMA SignRecord ==
  ASSUME Types, NEW s \in Sessions
  PROVE  /\ sign[s] \in SignStates
         /\ sign[s].host \in BOOLEAN /\ sign[s].acked \in BOOLEAN /\ sign[s].out \in Seq(Lines)
BY DEF Types, AgentTypes, SignStates

LEMMA InvStartSign ==
  ASSUME Inv, NEW s \in Sessions, NEW outcome, SshAuthenticates(s, outcome),
         AgentStep(TRUE)
  PROVE  Inv'
<1> DEFINE q == [sign[s] EXCEPT !.outcome = outcome,
                                !.pc = IF outcome = "local" THEN "done" ELSE "check"]
<1>1. sign' = [sign EXCEPT ![s] = q] /\ UNCHANGED <<krd, sigs, callbacks, log>>
  BY DEF SshAuthenticates, StartSign, Inv, Types, AgentTypes
<1>2. sign[s].pc = "idle" /\ outcome \in {"none", "local", "unparsed", "unsupported"}
  BY DEF SshAuthenticates, StartSign
<1>3. q \in SignStates /\ sign'[s] = q
  BY <1>1, <1>2, SignRecord DEF Inv, Types, AgentTypes, SignStates
<1>4. AuthInv(s)'
  BY <1>1, <1>2, <1>3, SignRecord DEF Inv, AuthInv, Aged, Fresh, HostFound, SignStates, AgentStep
<1>5. ToWrite(s)'
  BY <1>2, <1>3, SignRecord DEF Inv, LogInv, ToWrite, SignStates
<1>6. ~Ending(s) /\ <<s, "KILL">> \notin due[s]
  BY <1>2 DEF Inv, LogInv, KillIsAhead, Ending
<1> QED BY <1>1, <1>2, <1>3, <1>4, <1>5, <1>6, QuietFrame DEF Inv, Types, AgentTypes

(* A host is found exactly when its signature is recent enough.            *)
LEMMA FoundIffRecent ==
  ASSUME Types, NEW s \in Sessions, Aged(s), sign[s].pc = "check"
  PROVE  Contains(sigs, s) <=> age[s] \in 1..MaxSigs
<1>1. sigs \in Seq(Sessions) /\ Len(sigs) \in Nat /\ Len(sigs) <= MaxSigs /\ age[s] \in Nat
  BY LenProperties DEF Types, AgentTypes, HistoryTypes
<1>2. Contains(sigs, s) <=> \E i \in 1..Len(sigs) : sigs[i] = s
  BY <1>1, LenProperties DEF Contains
<1>3. Contains(sigs, s) <=> age[s] \in 1..Len(sigs)
  BY <1>1, <1>2 DEF Aged
<1> QED BY <1>1, <1>3, AgentAssumption DEF Aged

LEMMA InvCheckForHostAuth ==
  ASSUME Inv, NEW s \in Sessions, CheckForHostAuth(s), AgentStep(TRUE)
  PROVE  Inv'
<1> DEFINE found == Contains(sigs, SessionID(s))
           q == IF found THEN [sign[s] EXCEPT !.pc = "prepare", !.host = TRUE]
                         ELSE [sign[s] EXCEPT !.pc = "register"]
<1>1. sign' = [sign EXCEPT ![s] = q] /\ UNCHANGED <<krd, sigs, callbacks, log>>
  BY DEF CheckForHostAuth, Inv, Types, AgentTypes
<1>2. sign[s].pc = "check"
  BY DEF CheckForHostAuth
<1>3. q \in SignStates /\ sign'[s] = q
  BY <1>1, <1>2, SignRecord DEF Inv, Types, AgentTypes, SignStates
<1>4. AuthInv(s)'
  <2>1. sign[s].outcome # "unparsed" => (found <=> age[s] \in 1..MaxSigs)
    BY <1>2, FoundIffRecent DEF Inv, AuthInv, SessionID
  <2>2. q.outcome = sign[s].outcome
    BY SignRecord DEF Inv, SignStates
  <2>3. q.pc = (IF found THEN "prepare" ELSE "register") /\ (q.host <=> found)
    BY <1>2, SignRecord DEF Inv, AuthInv, HostFound, SignStates
  <2> HIDE DEF found, q
  <2>4. age'[s] = age[s] /\ proxy' = proxy /\ hostAuths' = hostAuths
    BY DEF AgentStep
  <2> QED BY <1>3, <2>1, <2>2, <2>3, <2>4 DEF Inv, AuthInv, Aged, Fresh, HostFound
<1>5. ToWrite(s)'
  BY <1>2, <1>3, SignRecord DEF Inv, LogInv, ToWrite, SignStates
<1>6. ~Ending(s) /\ <<s, "KILL">> \notin due[s]
  BY <1>2 DEF Inv, LogInv, KillIsAhead, Ending
<1> QED BY <1>1, <1>2, <1>3, <1>4, <1>5, <1>6, QuietFrame DEF Inv, Types, AgentTypes

LEMMA InvRegisterCallback ==
  ASSUME Inv, NEW s \in Sessions, RegisterCallback(s), AgentStep(TRUE)
  PROVE  Inv'
<1> DEFINE q == [sign[s] EXCEPT !.pc = "await"]
<1>1. sign' = [sign EXCEPT ![s] = q] /\ UNCHANGED <<krd, sigs, log>>
  BY DEF RegisterCallback, Inv, Types, AgentTypes
<1>2. sign[s].pc = "register"
  BY DEF RegisterCallback
<1>3. q \in SignStates /\ sign'[s] = q
  BY <1>1, <1>2, SignRecord DEF Inv, Types, AgentTypes, SignStates
<1>4. IsCache(callbacks', Files) /\ Len(callbacks') <= CallbackCap
  <2>1. SessionID(s) \in Files
    BY DEF SessionID, Files
  <2> QED BY <2>1, LruAddKeys, AgentAssumption DEF RegisterCallback, Inv, Types, AgentTypes
<1>5. AuthInv(s)'
  BY <1>1, <1>2, <1>3, SignRecord DEF Inv, AuthInv, Aged, Fresh, HostFound, SignStates, AgentStep
<1>6. ToWrite(s)'
  BY <1>2, <1>3, SignRecord DEF Inv, LogInv, ToWrite, SignStates
<1>7. ~Ending(s) /\ <<s, "KILL">> \notin due[s]
  BY <1>2 DEF Inv, LogInv, KillIsAhead, Ending
<1> QED BY <1>1, <1>2, <1>3, <1>4, <1>5, <1>6, <1>7, QuietFrame DEF Inv, Types, AgentTypes

LEMMA InvAwaitTimeout ==
  ASSUME Inv, NEW s \in Sessions, AwaitTimeout(s), AgentStep(TRUE)
  PROVE  Inv'
<1> DEFINE q == [sign[s] EXCEPT !.pc = "prepare"]
<1>1. sign' = [sign EXCEPT ![s] = q] /\ UNCHANGED <<krd, sigs, callbacks, log>>
  BY DEF AwaitTimeout, Inv, Types, AgentTypes
<1>2. sign[s].pc = "await"
  BY DEF AwaitTimeout
<1>3. q \in SignStates /\ sign'[s] = q
  BY <1>1, <1>2, SignRecord DEF Inv, Types, AgentTypes, SignStates
<1>4. AuthInv(s)'
  BY <1>1, <1>2, <1>3, SignRecord DEF Inv, AuthInv, Aged, Fresh, HostFound, SignStates, AgentStep
<1>5. ToWrite(s)'
  BY <1>2, <1>3, SignRecord DEF Inv, LogInv, ToWrite, SignStates
<1>6. ~Ending(s) /\ <<s, "KILL">> \notin due[s]
  BY <1>2 DEF Inv, LogInv, KillIsAhead, Ending
<1> QED BY <1>1, <1>2, <1>3, <1>4, <1>5, <1>6, QuietFrame DEF Inv, Types, AgentTypes

LEMMA OneLine ==
  ASSUME NEW l \in Lines
  PROVE  <<l>> \in Seq(Lines) /\ <<l>> # <<>> /\ <<l>>[1] = l
BY LenProperties, EmptySeq

LEMMA InvRequestSignature ==
  ASSUME Inv, NEW s \in Sessions, RequestSignature(s), AgentStep(TRUE)
  PROVE  Inv'
<1> DEFINE q == [sign[s] EXCEPT
              !.pc  = IF sign[s].outcome = "none" THEN "request" ELSE "done",
              !.out = IF sign[s].outcome = "none" THEN <<"requesting">> ELSE <<>>]
<1>1. sign' = [sign EXCEPT ![s] = q] /\ UNCHANGED <<krd, sigs, callbacks, log>>
  BY DEF RequestSignature, Inv, Types, AgentTypes
<1>2. sign[s].pc = "prepare"
  BY DEF RequestSignature
<1>3. q \in SignStates /\ sign'[s] = q
  BY <1>1, <1>2, SignRecord, OneLine, EmptySeq DEF Inv, Types, AgentTypes, SignStates, Lines
<1>4. AuthInv(s)'
  BY <1>1, <1>2, <1>3, SignRecord DEF Inv, AuthInv, Aged, Fresh, HostFound, SignStates, AgentStep
<1>5. ToWrite(s)'
  BY <1>2, <1>3, SignRecord DEF Inv, LogInv, ToWrite, SignStates
<1>6. ~Ending(s) /\ <<s, "KILL">> \notin due[s]
  BY <1>2 DEF Inv, LogInv, KillIsAhead, Ending
<1> QED BY <1>1, <1>2, <1>3, <1>4, <1>5, <1>6, QuietFrame DEF Inv, Types, AgentTypes

LEMMA InvOnAck ==
  ASSUME Inv, NEW s \in Sessions, OnAck(s), AgentStep(TRUE)
  PROVE  Inv'
<1> DEFINE q == [sign[s] EXCEPT !.out = <<"approve">>, !.acked = TRUE]
<1>1. sign' = [sign EXCEPT ![s] = q] /\ UNCHANGED <<krd, sigs, callbacks, log>>
  BY DEF OnAck, Inv, Types, AgentTypes
<1>2. sign[s].pc = "request" /\ sign[s].outcome = "none"
  BY DEF OnAck
<1>3. q \in SignStates /\ sign'[s] = q
  BY <1>1, <1>2, SignRecord, OneLine DEF Inv, Types, AgentTypes, SignStates, Lines
<1>4. AuthInv(s)'
  BY <1>1, <1>2, <1>3, SignRecord DEF Inv, AuthInv, Aged, Fresh, HostFound, SignStates, AgentStep
<1>5. ToWrite(s)'
  BY <1>2, <1>3, SignRecord DEF Inv, LogInv, ToWrite, SignStates
<1>6. ~Ending(s) /\ <<s, "KILL">> \notin due[s]
  BY <1>2 DEF Inv, LogInv, KillIsAhead, Ending
<1> QED BY <1>1, <1>2, <1>3, <1>4, <1>5, <1>6, QuietFrame DEF Inv, Types, AgentTypes

LEMMA AnswerLines ==
  /\ <<"answer">> \o <<"STOP">> = <<"answer", "STOP">>
  /\ <<"answer">> \o <<>> = <<"answer">>
  /\ <<"answer", "STOP">> \in Seq(Lines)
<1> DEFINE two == <<"answer", "STOP">>
           cat == <<"answer">> \o <<"STOP">>
<1>1. /\ <<"answer">> \in Seq(Lines) /\ Len(<<"answer">>) = 1 /\ <<"answer">>[1] = "answer"
      /\ <<"STOP">> \in Seq(Lines) /\ Len(<<"STOP">>) = 1 /\ <<"STOP">>[1] = "STOP"
  BY DEF Lines
<1>2. two \in Seq(Lines) /\ Len(two) = 2 /\ two[1] = "answer" /\ two[2] = "STOP"
  BY DEF Lines
<1>3. cat \in Seq(Lines) /\ Len(cat) = 2 /\ cat[1] = "answer" /\ cat[2] = "STOP"
  BY <1>1, ConcatProperties
<1> HIDE DEF two, cat
<1>4. cat = two
  BY <1>2, <1>3, SeqEqual
<1>5. <<"answer">> \o <<>> = <<"answer">>
  BY <1>1, ConcatEmptySeq
<1> QED BY <1>2, <1>4, <1>5 DEF two, cat

LEMMA OutcomeLinesByOutcome ==
  ASSUME NEW s, NEW outcome \in Outcomes
  PROVE  /\ OutcomeLines(s, outcome) \in Seq(Lines)
         /\ outcome = "failed" => OutcomeLines(s, outcome) = <<"failed">>
         /\ outcome = "empty"  => OutcomeLines(s, outcome) \in {<<>>, <<"STOP">>}
         /\ outcome = "answer" => OutcomeLines(s, outcome) \in {<<"answer">>, <<"answer", "STOP">>}
         /\ outcome = "kill"   => OutcomeLines(s, outcome) = <<"KILL">>
<1>1. Stop(s) \in {<<>>, <<"STOP">>}
  BY DEF Stop
<1>2. CASE outcome = "failed"
  BY <1>2, OneLine DEF OutcomeLines, Lines
<1>3. CASE outcome = "empty"
  BY <1>1, <1>3, OneLine, EmptySeq DEF OutcomeLines, Lines
<1>4. CASE outcome = "answer"
  <2>1. OutcomeLines(s, outcome) = <<"answer">> \o Stop(s)
    BY <1>4 DEF OutcomeLines
  <2> QED BY <1>1, <1>4, <2>1, AnswerLines, OneLine DEF Lines
<1>5. CASE outcome = "kill"
  BY <1>5, OneLine DEF OutcomeLines, Lines
<1> QED BY <1>2, <1>3, <1>4, <1>5 DEF Outcomes

LEMMA InvAnswered ==
  ASSUME Inv, NEW s \in Sessions, NEW outcome \in Outcomes, Answered(s, outcome), AgentStep(TRUE)
  PROVE  Inv'
<1> DEFINE lines == OutcomeLines(s, outcome)
           q == [sign[s] EXCEPT !.outcome = outcome, !.out = lines]
<1>1. sign' = [sign EXCEPT ![s] = q] /\ UNCHANGED <<krd, sigs, callbacks, log>>
  BY DEF Answered, Inv, Types, AgentTypes
<1>2. sign[s].pc = "request" /\ sign[s].outcome = "none"
  BY DEF Answered
<1>3. /\ lines \in Seq(Lines)
      /\ outcome = "failed" => lines = <<"failed">>
      /\ outcome = "empty"  => lines \in {<<>>, <<"STOP">>}
      /\ outcome = "answer" => lines \in {<<"answer">>, <<"answer", "STOP">>}
      /\ outcome = "kill"   => lines = <<"KILL">>
  BY OutcomeLinesByOutcome
<1> HIDE DEF lines
<1>4. q \in SignStates /\ sign'[s] = q
  BY <1>1, <1>2, <1>3, SignRecord DEF Inv, Types, AgentTypes, SignStates
<1>5. AuthInv(s)'
  BY <1>1, <1>2, <1>4, SignRecord DEF Inv, AuthInv, Aged, Fresh, HostFound, SignStates,
                                      AgentStep, Outcomes
<1>6. ToWrite(s)'
  <2>1. sign'[s].pc = "request" /\ sign'[s].outcome = outcome /\ sign'[s].out = lines
    BY <1>2, <1>4, SignRecord DEF Inv, SignStates
  <2> QED BY <1>3, <2>1 DEF ToWrite, Outcomes
<1>7. ~Ending(s) /\ <<s, "KILL">> \notin due[s]
  BY <1>2 DEF Inv, LogInv, KillIsAhead, Ending
<1> QED BY <1>1, <1>2, <1>4, <1>5, <1>6, <1>7, QuietFrame DEF Inv, Types, AgentTypes

LEMMA InvReturn ==
  ASSUME Inv, NEW s \in Sessions, Return(s), AgentStep(TRUE)
  PROVE  Inv'
<1> DEFINE q == [sign[s] EXCEPT !.pc = IF sign[s].outcome = "kill" THEN "grace" ELSE "done"]
<1>1. sign' = [sign EXCEPT ![s] = q] /\ UNCHANGED <<krd, sigs, callbacks, log>>
  BY DEF Return, Inv, Types, AgentTypes
<1>2. sign[s].pc = "request" /\ sign[s].outcome # "none" /\ sign[s].out = <<>>
  BY DEF Return
<1>3. q \in SignStates /\ sign'[s] = q
  BY <1>1, <1>2, SignRecord DEF Inv, Types, AgentTypes, SignStates
<1>4. AuthInv(s)'
  BY <1>1, <1>2, <1>3, SignRecord DEF Inv, AuthInv, Aged, Fresh, HostFound, SignStates, AgentStep
<1>5. ToWrite(s)'
  BY <1>2, <1>3, SignRecord DEF Inv, ToWrite, SignStates
<1>6. Ending(s) => Ending(s)'
  BY <1>2, <1>3, SignRecord DEF Inv, Ending, SignStates
<1>7. <<s, "KILL">> \in due[s] => KillIsAhead(s)'
  BY <1>1, <1>2, <1>3, SignRecord DEF Inv, LogInv, KillIsAhead, SignStates, AgentStep
<1> QED BY <1>1, <1>2, <1>3, <1>4, <1>5, <1>6, <1>7, QuietFrame DEF Inv, Types, AgentTypes

(* At the end of the second after KILL the logger has read everything, so  *)
(* it cannot still have KILL ahead of it.                                  *)
LEMMA InvGraceEnds ==
  ASSUME Inv, NEW s \in Sessions, GraceEnds(s), AgentStep(TRUE)
  PROVE  Inv'
<1> DEFINE q == [sign[s] EXCEPT !.pc = "done", !.out = Stop(s)]
<1>1. sign' = [sign EXCEPT ![s] = q] /\ UNCHANGED <<krd, sigs, callbacks, log>>
  BY DEF GraceEnds, AfterGrace, Inv, Types, AgentTypes
<1>2. sign[s].pc = "grace" /\ ~HasLine(log[s], own[s])
  BY DEF GraceEnds, AfterGrace
<1>3. Stop(s) \in {<<>>, <<"STOP">>} /\ Stop(s) \in Seq(Lines)
  BY OneLine, EmptySeq DEF Stop, Lines
<1>4. q \in SignStates /\ sign'[s] = q
  BY <1>1, <1>2, <1>3, SignRecord DEF Inv, Types, AgentTypes, SignStates
<1>5. AuthInv(s)'
  BY <1>1, <1>2, <1>4, SignRecord DEF Inv, AuthInv, Aged, Fresh, HostFound, SignStates, AgentStep
<1>6. ToWrite(s)'
  BY <1>3, <1>4, SignRecord DEF Inv, ToWrite, SignStates
<1>7. Ending(s) => Ending(s)'
  BY <1>4, SignRecord DEF Inv, Ending, SignStates
<1>8. <<s, "KILL">> \notin due[s]
  BY <1>2 DEF Inv, LogInv, KillIsAhead, HasLine
<1> QED BY <1>1, <1>2, <1>4, <1>5, <1>6, <1>7, <1>8, QuietFrame DEF Inv, Types, AgentTypes

-----------------------------------------------------------------------------
(* notify appends a line to one file.                                      *)

LEMMA AppendLine ==
  ASSUME NEW file \in Seq(Lines), NEW l \in Lines
  PROVE  /\ Append(file, l) \in Seq(Lines)
         /\ Len(Append(file, l)) = Len(file) + 1
         /\ \A i \in 1..Len(file) : Append(file, l)[i] = file[i]
         /\ Append(file, l)[Len(file) + 1] = l
BY AppendProperties

(* The first of the lines to write, and what is left then.                 *)
LEMMA FirstLine ==
  ASSUME Inv, NEW s \in Sessions, sign[s].out # <<>>
  PROVE  /\ Head(sign[s].out) \in Lines /\ Tail(sign[s].out) \in Seq(Lines)
         /\ Tail(sign[s].out) # <<>> =>
               /\ sign[s].pc = "request" /\ sign[s].outcome = "answer"
               /\ Tail(sign[s].out) = <<"STOP">>
         /\ Head(sign[s].out) = "KILL" =>
               /\ sign[s].pc = "request" /\ sign[s].outcome = "kill"
               /\ Tail(sign[s].out) = <<>>
         /\ Head(sign[s].out) = "STOP" => Ending(s)
<1>1. sign[s].out \in Seq(Lines)
  BY SignRecord DEF Inv
<1>2. ToWrite(s)
  BY DEF Inv, LogInv
<1>3. Head(sign[s].out) \in Lines /\ Tail(sign[s].out) \in Seq(Lines)
  BY <1>1, HeadTailProperties
<1>4. \A l \in Lines : Head(<<l>>) = l /\ Tail(<<l>>) = <<>>
  OBVIOUS
<1>5. Head(<<"answer", "STOP">>) = "answer" /\ Tail(<<"answer", "STOP">>) = <<"STOP">>
  OBVIOUS
<1> QED BY <1>2, <1>3, <1>4, <1>5 DEF ToWrite, Ending, Lines

LEMMA InvNotify ==
  ASSUME Inv, NEW s \in Sessions, Notify(s), AgentStep(TRUE)
  PROVE  Inv'
<1> DEFINE l == Head(sign[s].out)
           q == [sign[s] EXCEPT !.out = Tail(sign[s].out)]
           f == FileOf(s)
<1>1. /\ sign[s].out # <<>> /\ sign' = [sign EXCEPT ![s] = q]
      /\ log' = [log EXCEPT ![f] = Append(log[f], l)] /\ UNCHANGED <<krd, sigs, callbacks>>
  BY DEF Notify, Inv, Types, AgentTypes
<1>2. f \in {s, Empty} /\ f \in Files /\ s \in Files /\ Empty \in Files /\ s # Empty
  BY EmptyAssumption DEF FileOf, Files
<1>3. /\ l \in Lines /\ Tail(sign[s].out) \in Seq(Lines)
      /\ Tail(sign[s].out) # <<>> =>
            /\ sign[s].pc = "request" /\ sign[s].outcome = "answer"
            /\ Tail(sign[s].out) = <<"STOP">>
      /\ l = "KILL" => /\ sign[s].pc = "request" /\ sign[s].outcome = "kill"
                       /\ Tail(sign[s].out) = <<>>
      /\ l = "STOP" => Ending(s)
  BY <1>1, FirstLine
<1> HIDE DEF l, f
<1>4. /\ q \in SignStates /\ sign'[s] = q
      /\ q.pc = sign[s].pc /\ q.outcome = sign[s].outcome /\ q.host = sign[s].host
      /\ q.out = Tail(sign[s].out)
  BY <1>1, <1>3, SignRecord DEF Inv, Types, AgentTypes, SignStates
<1> HIDE DEF q
<1>5. /\ log[f] \in Seq(Lines) /\ log[s] \in Seq(Lines) /\ Len(log[s]) \in Nat
      /\ Append(log[f], l) \in Seq(Lines)
      /\ Len(Append(log[f], l)) = Len(log[f]) + 1
      /\ \A i \in 1..Len(log[f]) : Append(log[f], l)[i] = log[f][i]
      /\ Append(log[f], l)[Len(log[f]) + 1] = l
  BY <1>2, <1>3, AppendLine, LenProperties DEF Inv, Types, AgentTypes
<1>6. AgentTypes'
  BY <1>1, <1>2, <1>4, <1>5 DEF Inv, Types, AgentTypes
<1>7. \A t \in Sessions \ {s} : sign'[t] = sign[t] /\ log'[t] = log[t]
  BY <1>1, <1>2, EmptyAssumption DEF Inv, Types, AgentTypes, Files
<1>8. AuthInv(s)'
  BY <1>1, <1>4 DEF Inv, AuthInv, Aged, Fresh, HostFound, AgentStep
<1>9. \/ log'[s] = log[s]
      \/ log'[s] = Append(log[s], l)
  BY <1>1, <1>2 DEF Inv, Types, AgentTypes
<1>10. \/ log'[s] = log[s]
       \/ /\ Len(log'[s]) = Len(log[s]) + 1 /\ log'[s][Len(log[s]) + 1] = l
          /\ \A i \in 1..Len(log[s]) : log'[s][i] = log[s][i]
  <2>1. /\ Len(Append(log[s], l)) = Len(log[s]) + 1
        /\ \A i \in 1..Len(log[s]) : Append(log[s], l)[i] = log[s][i]
        /\ Append(log[s], l)[Len(log[s]) + 1] = l
    BY <1>3, <1>5, AppendLine
  <2>2. CASE log'[s] = Append(log[s], l)
    BY <2>1, <2>2, Zenon
  <2> QED BY <1>9, <2>2
<1>11. ToWrite(s)'
  BY <1>3, <1>4 DEF ToWrite
<1>12. LoggerInStep(s)'
  <2>1. Len(log'[s]) >= Len(log[s])
    BY <1>5, <1>10
  <2>2. own[s].offset \in Nat /\ Len(log'[s]) \in Nat
    BY <1>5, <1>10 DEF Inv, Types, ProxyTypes, Reader
  <2> QED BY <1>4, <1>5, <2>1, <2>2 DEF Inv, LogInv, LoggerInStep, AgentStep
<1>13. StopComesLast(s)'
  <2> SUFFICES ASSUME ~Ending(s)', NEW i \in 1..Len(log'[s])
               PROVE  log'[s][i] # "STOP"
    BY DEF StopComesLast
  <2>1. ~Ending(s)
    BY <1>4 DEF Ending
  <2> QED BY <1>3, <1>5, <1>10, <2>1 DEF Inv, LogInv, StopComesLast
<1>14. KillIsAhead(s)'
  <2> SUFFICES ASSUME <<s, "KILL">> \in due'[s], sign'[s].pc # "aborted"
               PROVE  /\ sign'[s].pc \in {"request", "grace"} /\ sign'[s].outcome = "kill"
                      /\ sign'[s].out = <<>>
                      /\ own'[s].open /\ own'[s].offset < Len(log'[s])
                      /\ log'[s][Len(log'[s])] = "KILL"
    BY DEF KillIsAhead
  <2>1. <<s, "KILL">> \notin due[s]
    BY <1>1, <1>4 DEF Inv, LogInv, KillIsAhead
  <2>2. Len(log'[s]) > Len(log[s]) /\ own[s].open /\ Last(log'[s]) = "KILL"
    BY <1>6, <2>1, DueGrows DEF Inv, Types, AgentTypes
  <2>3. l = "KILL" /\ log'[s][Len(log'[s])] = l /\ Len(log'[s]) = Len(log[s]) + 1
    BY <1>5, <1>10, <2>2 DEF Last
  <2>4. own[s].offset <= Len(log[s]) /\ own[s].offset \in Nat
    BY <1>3, <2>2, <2>3 DEF Inv, Types, ProxyTypes, Reader, LogInv, LoggerInStep
  <2> QED BY <1>3, <1>4, <1>5, <2>2, <2>3, <2>4 DEF AgentStep
<1> QED BY <1>1, <1>6, <1>7, <1>8, <1>11, <1>12, <1>13, <1>14, AgentFrame DEF LogInv

LEMMA InvSshLists ==
  ASSUME Inv, NEW s \in Sessions, SshLists(s), AgentStep(TRUE)
  PROVE  Inv'
<1>1. /\ log' = [log EXCEPT ![Empty] = Append(log[Empty], "failed")]
      /\ UNCHANGED <<krd, sigs, callbacks, sign>>
  BY DEF SshLists, List
<1>2. Empty \in Files /\ \A t \in Sessions : t \in Files /\ t # Empty
  BY EmptyAssumption DEF Files
<1>3. Append(log[Empty], "failed") \in Seq(Lines)
  BY <1>2, AppendLine DEF Inv, Types, AgentTypes, Lines
<1>4. AgentTypes' /\ \A t \in Sessions : log'[t] = log[t]
  BY <1>1, <1>2, <1>3 DEF Inv, Types, AgentTypes
<1>5. AuthInv(s)'
  BY <1>1, AuthFrame DEF Inv, AgentStep
<1>6. <<s, "KILL">> \in due'[s] => <<s, "KILL">> \in due[s]
  <2>1. Len(log[s]) \in Nat
    BY <1>2, LenProperties DEF Inv, Types, AgentTypes
  <2> QED BY <1>4, <2>1, DueGrows DEF Inv, Types, AgentTypes
<1>7. LogInv(s)'
  BY <1>1, <1>4, <1>6, LogFrame DEF Inv, AgentStep
<1> QED BY <1>1, <1>4, <1>5, <1>7, AgentFrame

LEMMA InvRestart ==
  ASSUME Inv, Restart, AgentStep(TRUE)
  PROVE  Inv'
<1>1. krd' = "up" /\ UNCHANGED <<sigs, callbacks, sign, log>>
  BY DEF Restart
<1>2. AgentTypes' /\ ProxyTypes'
  BY <1>1 DEF Inv, Types, AgentTypes, ProxyTypes, AgentStep
<1>3. HistoryTypes'
  BY <1>2, DueGrows DEF Inv, Types, AgentTypes
<1>4. ASSUME NEW s \in Sessions PROVE AuthInv(s)' /\ LogInv(s)'
  <2>1. Len(log[s]) \in Nat
    BY LenProperties DEF Inv, Types, AgentTypes, Files
  <2>2. <<s, "KILL">> \in due'[s] => <<s, "KILL">> \in due[s]
    BY <1>1, <1>2, <2>1, DueGrows DEF Inv, Types, AgentTypes
  <2> QED BY <1>1, <2>2, AuthFrame, LogFrame DEF Inv, AgentStep
<1> QED BY <1>2, <1>3, <1>4 DEF Inv, Types

-----------------------------------------------------------------------------
(* onHostAuth puts a signature in front and drops the oldest one when      *)
(* there are MaxSigs.                                                      *)

LEMMA RememberPlaces ==
  ASSUME Types, NEW s \in Sessions
  PROVE  /\ Remember(s) \in Seq(Sessions)
         /\ Len(Remember(s)) = IF Len(sigs) < MaxSigs THEN Len(sigs) + 1 ELSE MaxSigs
         /\ \A i \in 1..Len(Remember(s)) :
               Remember(s)[i] = IF i = 1 THEN s ELSE sigs[i - 1]
<1>1. /\ sigs \in Seq(Sessions) /\ Len(sigs) \in Nat /\ Len(sigs) <= MaxSigs
      /\ MaxSigs \in Nat \ {0}
  BY LenProperties, AgentAssumption DEF Types, AgentTypes
<1>2. <<s>> \in Seq(Sessions) /\ Len(<<s>>) = 1 /\ <<s>>[1] = s
  OBVIOUS
<1>3. CASE Len(sigs) < MaxSigs
  <2>1. Remember(s) = <<s>> \o sigs
    BY <1>3 DEF Remember
  <2> QED BY <1>1, <1>2, <1>3, <2>1, ConcatProperties
<1>4. CASE ~(Len(sigs) < MaxSigs)
  <2> DEFINE rest == SubSeq(sigs, 1, Len(sigs) - 1)
  <2>1. Remember(s) = <<s>> \o rest
    BY <1>4 DEF Remember, Front
  <2>2. /\ rest \in Seq(Sessions) /\ Len(rest) = Len(sigs) - 1
        /\ \A j \in 1..(Len(sigs) - 1) : rest[j] = sigs[j]
    <3>1. \A j \in 1..(Len(sigs) - 1) : sigs[j] \in Sessions
      BY <1>1, ElementOfSeq
    <3>2. /\ SubSeq(sigs, 1, Len(sigs) - 1) \in Seq(Sessions)
          /\ Len(SubSeq(sigs, 1, Len(sigs) - 1)) =
                IF 1 <= Len(sigs) - 1 THEN Len(sigs) - 1 - 1 + 1 ELSE 0
          /\ \A j \in 1 .. Len(sigs) - 1 - 1 + 1 :
                SubSeq(sigs, 1, Len(sigs) - 1)[j] = sigs[1 + j - 1]
      BY <1>1, <3>1, SubSeqProperties
    <3>3. Len(sigs) - 1 - 1 + 1 = Len(sigs) - 1 /\ Len(sigs) - 1 \in Nat
      BY <1>1, <1>4
    <3>4. ASSUME NEW j \in 1..(Len(sigs) - 1) PROVE rest[j] = sigs[j]
      <4>1. 1 + j - 1 = j
        OBVIOUS
      <4> QED BY <3>2, <3>3, <4>1
    <3> QED BY <3>2, <3>3, <3>4
  <2> HIDE DEF rest
  <2> QED BY <1>1, <1>2, <1>4, <2>1, <2>2, ConcatProperties
<1> QED BY <1>3, <1>4

LEMMA InvHostAuthArrives ==
  ASSUME Inv, NEW s \in Sessions, HostAuthArrives(s)
  PROVE  Inv'
<1> DEFINE Looking(t) == sign[t].pc \in {"idle", "check"}
<1>1. /\ s \in hostAuths /\ hostAuths' = hostAuths \ {s} /\ krd = "up"
      /\ UNCHANGED <<proxy, prefix, own, shared, due>> /\ log' = log
      /\ \A t \in Sessions : age'[t] =
            IF ~Looking(t) THEN age[t]
            ELSE IF krd' = "panicked" \/ (t # s /\ age[t] = 0) THEN 0 ELSE age[t] + 1
  BY DEF HostAuthArrives, OnHostAuth
<1>2. ProxyTypes' /\ HistoryTypes'
  <2>1. age' \in [Sessions -> Nat]
    BY DEF Inv, Types, HistoryTypes, HostAuthArrives
  <2> QED BY <1>1, <2>1 DEF Inv, Types, ProxyTypes, HistoryTypes
<1>3. age[s] = 0 /\ proxy[s] \notin {"new", "kex", "send"}
  BY <1>1 DEF Inv, AuthInv, Fresh
<1>4. \A t \in Sessions : Fresh(t)'
  BY <1>1, <1>3 DEF Inv, AuthInv, Fresh
<1>5. CASE ~Contains(callbacks, s)
  <2>1. sigs' = Remember(s) /\ UNCHANGED <<krd, callbacks, sign, log>>
    BY <1>5 DEF HostAuthArrives, OnHostAuth
  <2>2. /\ sigs' \in Seq(Sessions)
        /\ Len(sigs') = IF Len(sigs) < MaxSigs THEN Len(sigs) + 1 ELSE MaxSigs
        /\ \A i \in 1..Len(sigs') : sigs'[i] = IF i = 1 THEN s ELSE sigs[i - 1]
    BY <2>1, RememberPlaces DEF Inv, Types
  <2>3. /\ sigs \in Seq(Sessions) /\ Len(sigs) \in Nat /\ Len(sigs) <= MaxSigs
        /\ MaxSigs \in Nat \ {0}
    BY LenProperties, AgentAssumption DEF Inv, Types, AgentTypes
  <2>4. AgentTypes'
    BY <2>1, <2>2, <2>3 DEF Inv, Types, AgentTypes
  <2>5. ASSUME NEW t \in Sessions PROVE AuthInv(t)' /\ LogInv(t)'
    <3>1. LogInv(t)'
      BY <1>1, <2>1, LogFrame DEF Inv
    <3>2. HostFound(t)'
      BY <1>1, <2>1 DEF Inv, AuthInv, HostFound
    <3>3. Aged(t)'
      <4> SUFFICES ASSUME Looking(t)
                   PROVE  /\ \A i \in 1..Len(sigs') : sigs'[i] = t <=> age'[t] = i
                          /\ age'[t] = 0 \/ age'[t] <= Len(sigs') \/ Len(sigs') = MaxSigs
        BY <2>1 DEF Aged
      <4>1. age[t] \in Nat
        BY DEF Inv, Types, HistoryTypes
      <4>2. /\ \A i \in 1..Len(sigs) : sigs[i] = t <=> age[t] = i
            /\ age[t] = 0 \/ age[t] <= Len(sigs) \/ Len(sigs) = MaxSigs
        BY DEF Inv, AuthInv, Aged
      <4>3. age'[t] = IF t # s /\ age[t] = 0 THEN 0 ELSE age[t] + 1
        BY <1>1, <2>1
      <4>4. ASSUME NEW i \in 1..Len(sigs') PROVE sigs'[i] = t <=> age'[t] = i
        <5>1. CASE i = 1
          BY <1>3, <2>2, <4>1, <4>3, <5>1
        <5>2. CASE i # 1
          <6>1. i - 1 \in 1..Len(sigs) /\ sigs'[i] = sigs[i - 1]
            BY <2>2, <2>3, <5>2
          <6>2. sigs[i - 1] = t <=> age[t] = i - 1
            BY <4>2, <6>1
          <6> QED BY <1>3, <4>1, <4>3, <5>2, <6>1, <6>2
        <5> QED BY <5>1, <5>2
      <4>5. age'[t] = 0 \/ age'[t] <= Len(sigs') \/ Len(sigs') = MaxSigs
        BY <1>3, <2>2, <2>3, <4>1, <4>2, <4>3
      <4> QED BY <4>4, <4>5
    <3> QED BY <1>4, <3>1, <3>2, <3>3 DEF AuthInv
  <2> QED BY <1>2, <2>4, <2>5 DEF Inv, Types
<1>6. CASE Contains(callbacks, s)
  <2>1. /\ krd' = "panicked" /\ sigs' = <<>> /\ callbacks' = <<>> /\ log' = log
        /\ sign' = [t \in Sessions |-> IF sign[t].pc \in {"idle", "done"} THEN sign[t]
                                       ELSE [NewSign EXCEPT !.pc = "aborted"]]
    BY <1>6 DEF HostAuthArrives, OnHostAuth
  <2>2. <<>> \in Seq(Sessions) /\ <<>> \in Seq(Files) /\ <<>> \in Seq(Lines) /\ Len(<<>>) = 0
    BY EmptySeq
  <2> DEFINE gone == [NewSign EXCEPT !.pc = "aborted"]
  <2>3. gone \in SignStates /\ gone.pc = "aborted" /\ gone.out = <<>>
    BY <2>2 DEF NewSign, SignStates
  <2> HIDE DEF gone
  <2>4. AgentTypes'
    <3>1. IsCache(<<>>, Files)
      BY <2>2 DEF IsCache, IsInjective
    <3> QED BY <2>1, <2>2, <2>3, <3>1, AgentAssumption DEF Inv, Types, AgentTypes, gone
  <2>5. ASSUME NEW t \in Sessions PROVE AuthInv(t)' /\ LogInv(t)'
    <3>1. \/ sign'[t] = sign[t] /\ sign[t].pc \in {"idle", "done"}
          \/ sign'[t] = gone
      BY <2>1 DEF gone
    <3>2. Looking(t) => age'[t] = 0
      BY <1>1, <2>1
    <3>3. Aged(t)' /\ HostFound(t)'
      BY <2>1, <2>2, <2>3, <3>1, <3>2 DEF Inv, AuthInv, Aged, HostFound
    <3>4. LogInv(t)'
      <4>1. CASE sign'[t] = sign[t]
        BY <1>1, <4>1, LogFrame DEF Inv
      <4>2. CASE sign'[t] = gone
        BY <1>1, <2>3, <4>2 DEF Inv, LogInv, ToWrite, LoggerInStep, StopComesLast,
                                KillIsAhead, Ending
      <4> QED BY <3>1, <4>1, <4>2
    <3> QED BY <1>4, <3>3, <3>4 DEF AuthInv
  <2> QED BY <1>2, <2>4, <2>5 DEF Inv, Types
<1> QED BY <1>5, <1>6

-----------------------------------------------------------------------------
(* krssh.  A step of one krssh touches its own session and perhaps the     *)
(* shared file; what is due only shrinks.                                  *)

LEMMA ProxyFrame ==
  ASSUME Inv, NEW s \in Sessions, ProxyStep(TRUE),
         ProxyTypes', log' \in [Files -> Seq(Lines)],
         \A t \in Sessions \ {s} :
            /\ proxy'[t] = proxy[t] /\ prefix'[t] = prefix[t] /\ own'[t] = own[t]
            /\ log'[t] = log[t] /\ (t \in hostAuths' <=> t \in hostAuths),
         AuthInv(s)', LogInv(s)'
  PROVE  Inv'
<1>1. UNCHANGED <<krd, sigs, callbacks, sign, age>>
  BY DEF ProxyStep
<1>2. \A t \in Sessions : due'[t] \subseteq due[t]
  BY DEF ProxyStep
<1>3. HistoryTypes'
  BY <1>1, <1>2 DEF Inv, Types, HistoryTypes, ProxyStep
<1>4. AgentTypes'
  BY <1>1 DEF Inv, Types, AgentTypes
<1>5. ASSUME NEW t \in Sessions \ {s} PROVE AuthInv(t)' /\ LogInv(t)'
  BY <1>1, <1>2, AuthFrame, LogFrame DEF Inv
<1> QED BY <1>3, <1>4, <1>5 DEF Inv, Types

LEMMA OpenedFile ==
  ASSUME NEW f
  PROVE  /\ OpenReader(f).file = <<>> /\ OpenReader(f).reader = [open |-> TRUE, offset |-> 0]
         /\ OpenReader(f).reader \in Reader
BY DEF OpenReader, Reader

LEMMA InvMain ==
  ASSUME Inv, NEW s \in Sessions, Main(s), ProxyStep(TRUE)
  PROVE  Inv'
<1>1. /\ proxy[s] = "new" /\ proxy' = [proxy EXCEPT ![s] = "kex"]
      /\ log' = [log EXCEPT ![Empty] = <<>>]
      /\ UNCHANGED <<prefix, hostAuths, own>>
  BY OpenedFile DEF Main
<1>2. ProxyTypes'
  BY OpenedFile DEF Inv, Types, ProxyTypes, Main
<1>3. log' \in [Files -> Seq(Lines)] /\ \A t \in Sessions : log'[t] = log[t]
  BY <1>1, EmptySeq, EmptyAssumption DEF Inv, Types, AgentTypes, Files
<1>4. proxy'[s] = "kex" /\ \A t \in Sessions \ {s} : proxy'[t] = proxy[t]
  BY <1>1 DEF Inv, Types, ProxyTypes
<1>5. AuthInv(s)'
  BY <1>1, <1>4, AuthFrame DEF Inv, ProxyStep
<1>6. LogInv(s)'
  BY <1>1, <1>3, <1>4, LogFrame DEF Inv, ProxyStep
<1> QED BY <1>1, <1>2, <1>3, <1>4, <1>5, <1>6, ProxyFrame

LEMMA InvSendHostAuth ==
  ASSUME Inv, NEW s \in Sessions, NEW connected, SendHostAuth(s, connected), ProxyStep(TRUE)
  PROVE  Inv'
<1>1. /\ proxy[s] = "send" /\ proxy' = [proxy EXCEPT ![s] = "forward"]
      /\ hostAuths' = (IF connected THEN hostAuths \cup {s} ELSE hostAuths)
      /\ UNCHANGED <<prefix, own, shared, log>>
  BY DEF SendHostAuth
<1>2. ProxyTypes'
  BY <1>1 DEF Inv, Types, ProxyTypes
<1>3. proxy'[s] = "forward" /\ \A t \in Sessions \ {s} : proxy'[t] = proxy[t]
  BY <1>1 DEF Inv, Types, ProxyTypes
<1>4. AuthInv(s)'
  BY <1>1, <1>3 DEF Inv, AuthInv, Aged, Fresh, HostFound, ProxyStep
<1>5. LogInv(s)'
  BY <1>1, <1>3, LogFrame DEF Inv, ProxyStep
<1> QED BY <1>1, <1>2, <1>3, <1>4, <1>5, ProxyFrame DEF Inv, Types, AgentTypes

LEMMA InvTryParse ==
  ASSUME Inv, NEW s \in Sessions, NEW packetLen, NEW paddingLen, NEW isKexReply,
         TryParse(s, packetLen, paddingLen, isKexReply), ProxyStep(TRUE)
  PROVE  Inv'
<1>1. /\ proxy[s] = "kex" /\ UNCHANGED <<hostAuths, own, shared, log>>
      /\ \/ /\ proxy' = [proxy EXCEPT ![s] = "send"]
            /\ prefix' = [prefix EXCEPT ![s] = "sent"]
         \/ proxy' = [proxy EXCEPT ![s] = "forward"] /\ UNCHANGED prefix
         \/ UNCHANGED <<proxy, prefix>>
  BY DEF TryParse
<1>2. ProxyTypes'
  BY <1>1 DEF Inv, Types, ProxyTypes
<1>3. /\ proxy'[s] \in {"kex", "send", "forward"}
      /\ \A t \in Sessions \ {s} : proxy'[t] = proxy[t] /\ prefix'[t] = prefix[t]
  BY <1>1 DEF Inv, Types, ProxyTypes
<1>4. AuthInv(s)'
  BY <1>1, <1>3, AuthFrame DEF Inv, ProxyStep
<1>5. ~own[s].open
  BY <1>1 DEF Inv, LogInv, LoggerInStep
<1>6. LogInv(s)'
  <2>1. CASE UNCHANGED <<proxy, prefix>>
    BY <1>1, <2>1, LogFrame DEF Inv, ProxyStep
  <2>2. CASE proxy'[s] \in {"send", "forward"}
    BY <1>1, <1>5, <2>2 DEF Inv, LogInv, ToWrite, LoggerInStep, StopComesLast, KillIsAhead,
                            Ending, ProxyStep
  <2> QED BY <1>1, <2>1, <2>2 DEF Inv, Types, ProxyTypes
<1> QED BY <1>1, <1>2, <1>3, <1>4, <1>6, ProxyFrame DEF Inv, Types, AgentTypes

(* The logger of a prefix truncates the file when it starts.  Nothing was  *)
(* due to it before.                                                       *)
LEMMA InvStartLogger ==
  ASSUME Inv, NEW s \in Sessions, StartLogger(s), ProxyStep(TRUE)
  PROVE  Inv'
<1>1. /\ prefix[s] = "sent" /\ prefix' = [prefix EXCEPT ![s] = "taken"]
      /\ log' = [log EXCEPT ![s] = <<>>]
      /\ own' = [own EXCEPT ![s] = [open |-> TRUE, offset |-> 0]]
      /\ UNCHANGED <<proxy, hostAuths, shared>>
  BY OpenedFile DEF StartLogger
<1>2. ProxyTypes'
  BY <1>1 DEF Inv, Types, ProxyTypes, Reader
<1>3. /\ s \in Files /\ log' \in [Files -> Seq(Lines)] /\ log'[s] = <<>>
      /\ \A t \in Sessions \ {s} : log'[t] = log[t]
  BY <1>1, EmptySeq DEF Inv, Types, AgentTypes, Files
<1>4. /\ prefix'[s] = "taken" /\ own'[s] = [open |-> TRUE, offset |-> 0]
      /\ \A t \in Sessions \ {s} : prefix'[t] = prefix[t] /\ own'[t] = own[t]
  BY <1>1 DEF Inv, Types, ProxyTypes
<1>5. AuthInv(s)'
  BY <1>1, AuthFrame DEF Inv, ProxyStep
<1>6. <<s, "KILL">> \in due[s] => sign[s].pc = "aborted"
  BY <1>1 DEF Inv, LogInv, LoggerInStep, KillIsAhead
<1>7. Len(log'[s]) = 0 /\ proxy[s] \notin {"new", "kex"}
  BY <1>1, <1>3, EmptySeq DEF Inv, LogInv, LoggerInStep
<1>8. LogInv(s)'
  BY <1>1, <1>4, <1>6, <1>7 DEF Inv, LogInv, ToWrite, LoggerInStep, StopComesLast,
                                KillIsAhead, Ending, ProxyStep
<1> QED BY <1>1, <1>2, <1>3, <1>4, <1>5, <1>8, ProxyFrame

(* A krssh that ends has nothing due any more.                             *)
LEMMA EndSettles ==
  ASSUME NEW s \in Sessions, ProxyStep(TRUE), proxy'[s] \in {"killed", "ended"}
  PROVE  due'[s] = {}
BY DEF ProxyStep, Settled

LEMMA InvLogOwn ==
  ASSUME Inv, NEW s \in Sessions, LogOwn(s), ProxyStep(TRUE)
  PROVE  Inv'
<1>1. HasLine(log[s], own[s]) /\ own[s] \in Reader /\ own[s].open /\ s \in Files
  BY DEF LogOwn, HasLine, Inv, Types, ProxyTypes, Files
<1>2. /\ log[s] \in Seq(Lines) /\ Len(log[s]) \in Nat
      /\ own[s].offset \in Nat /\ own[s].offset < Len(log[s])
      /\ own[s].offset + 1 \in 1..Len(log[s])
  BY <1>1, LenProperties DEF HasLine, Inv, Types, AgentTypes, Reader
<1> DEFINE line == NextLine(log[s], own[s])
<1>3. line = log[s][own[s].offset + 1]
  BY DEF NextLine
<1> HIDE DEF line
<1>4. CASE line = "STOP"
  <2>1. /\ own' = [own EXCEPT ![s] = Closed] /\ log' = [log EXCEPT ![s] = <<>>]
        /\ UNCHANGED <<proxy, shared, prefix, hostAuths>>
    BY <1>4 DEF LogOwn, line
  <2>2. ProxyTypes' /\ log' \in [Files -> Seq(Lines)]
    BY <2>1, <1>1, EmptySeq DEF Inv, Types, ProxyTypes, AgentTypes, Reader, Closed
  <2>3. /\ own'[s] = Closed /\ log'[s] = <<>>
        /\ \A t \in Sessions \ {s} : own'[t] = own[t] /\ log'[t] = log[t]
    BY <2>1, <1>1 DEF Inv, Types, ProxyTypes, AgentTypes, Files
  <2>4. Ending(s)
    BY <1>2, <1>3, <1>4 DEF Inv, LogInv, StopComesLast
  <2>5. AuthInv(s)'
    BY <2>1, AuthFrame DEF Inv, ProxyStep
  <2>6. LogInv(s)'
    <3>1. <<s, "KILL">> \in due[s] => sign[s].pc = "aborted"
      BY <2>4 DEF Inv, LogInv, KillIsAhead, Ending
    <3>2. Len(<<>>) = 0 /\ ~Closed.open
      BY EmptySeq DEF Closed
    <3> QED BY <2>1, <2>3, <3>1, <3>2 DEF Inv, LogInv, ToWrite, LoggerInStep, StopComesLast,
                                          KillIsAhead, Ending, ProxyStep
  <2> QED BY <2>1, <2>2, <2>3, <2>5, <2>6, ProxyFrame
<1>5. CASE line = "KILL"
  <2>1. /\ proxy' = [proxy EXCEPT ![s] = "killed"] /\ own' = [own EXCEPT ![s] = Closed]
        /\ shared' = [shared EXCEPT ![s] = Closed] /\ UNCHANGED <<prefix, hostAuths, log>>
    BY <1>5 DEF LogOwn, line
  <2>2. ProxyTypes'
    BY <2>1 DEF Inv, Types, ProxyTypes, Reader, Closed
  <2>3. /\ own'[s] = Closed /\ proxy'[s] = "killed"
        /\ \A t \in Sessions \ {s} : own'[t] = own[t] /\ proxy'[t] = proxy[t]
    BY <2>1 DEF Inv, Types, ProxyTypes
  <2>4. AuthInv(s)'
    BY <2>1, <2>3, AuthFrame DEF Inv, ProxyStep
  <2>5. LogInv(s)'
    <3>1. due'[s] = {} /\ ~Closed.open
      BY <2>3, EndSettles DEF Closed
    <3> QED BY <2>1, <2>3, <3>1 DEF Inv, LogInv, ToWrite, LoggerInStep, StopComesLast,
                                    KillIsAhead, Ending, ProxyStep
  <2> QED BY <2>1, <2>2, <2>3, <2>4, <2>5, ProxyFrame DEF Inv, Types, AgentTypes
<1>6. CASE line \notin {"STOP", "KILL"}
  <2> DEFINE r == [own[s] EXCEPT !.offset = own[s].offset + 1]
  <2>1. own' = [own EXCEPT ![s] = r] /\ UNCHANGED <<proxy, shared, log, prefix, hostAuths>>
    BY <1>6 DEF LogOwn, line, Inv, Types, ProxyTypes
  <2>2. r \in Reader /\ r.open /\ r.offset = own[s].offset + 1
    BY <1>1, <1>2 DEF Reader
  <2> HIDE DEF r
  <2>3. ProxyTypes' /\ own'[s] = r /\ \A t \in Sessions \ {s} : own'[t] = own[t]
    BY <2>1, <2>2 DEF Inv, Types, ProxyTypes
  <2>4. AuthInv(s)'
    BY <2>1, AuthFrame DEF Inv, ProxyStep
  <2>5. LogInv(s)'
    <3>1. log[s][Len(log[s])] = "KILL" => own[s].offset + 1 < Len(log[s])
      BY <1>2, <1>3, <1>6
    <3>2. due'[s] \subseteq due[s] /\ sign' = sign
      BY DEF ProxyStep
    <3>3. ToWrite(s)' /\ StopComesLast(s)'
      BY <2>1, <3>2 DEF Inv, LogInv, ToWrite, StopComesLast, Ending
    <3>4. LoggerInStep(s)'
      BY <1>1, <1>2, <2>1, <2>2, <2>3, <3>2 DEF Inv, LogInv, LoggerInStep
    <3>5. KillIsAhead(s)'
      BY <2>1, <2>2, <2>3, <3>1, <3>2 DEF Inv, LogInv, KillIsAhead
    <3> QED BY <3>3, <3>4, <3>5 DEF LogInv
  <2> QED BY <2>1, <2>3, <2>4, <2>5, ProxyFrame DEF Inv, Types, AgentTypes
<1> QED BY <1>4, <1>5, <1>6

LEMMA InvLogShared ==
  ASSUME Inv, NEW s \in Sessions, LogShared(s), ProxyStep(TRUE)
  PROVE  Inv'
<1>1. /\ shared' = [shared EXCEPT ![s].offset = @ + 1]
      /\ UNCHANGED <<proxy, prefix, hostAuths, own, log>>
  BY DEF LogShared
<1>2. ProxyTypes'
  BY <1>1 DEF Inv, Types, ProxyTypes, Reader
<1>3. AuthInv(s)' /\ LogInv(s)'
  BY <1>1, AuthFrame, LogFrame DEF Inv, ProxyStep
<1> QED BY <1>1, <1>2, <1>3, ProxyFrame DEF Inv, Types, AgentTypes

LEMMA InvClose ==
  ASSUME Inv, NEW s \in Sessions, Close(s), ProxyStep(TRUE)
  PROVE  Inv'
<1>1. /\ proxy' = [proxy EXCEPT ![s] = "ended"] /\ own' = [own EXCEPT ![s] = Closed]
      /\ shared' = [shared EXCEPT ![s] = Closed] /\ UNCHANGED <<prefix, hostAuths, log>>
  BY DEF Close
<1>2. ProxyTypes'
  BY <1>1 DEF Inv, Types, ProxyTypes, Reader, Closed
<1>3. /\ own'[s] = Closed /\ proxy'[s] = "ended"
      /\ \A t \in Sessions \ {s} : own'[t] = own[t] /\ proxy'[t] = proxy[t]
  BY <1>1 DEF Inv, Types, ProxyTypes
<1>4. AuthInv(s)'
  BY <1>1, <1>3, AuthFrame DEF Inv, ProxyStep
<1>5. LogInv(s)'
  <2>1. due'[s] = {} /\ ~Closed.open
    BY <1>3, EndSettles DEF Closed
  <2> QED BY <1>1, <1>3, <2>1 DEF Inv, LogInv, ToWrite, LoggerInStep, StopComesLast,
                                  KillIsAhead, Ending, ProxyStep
<1> QED BY <1>1, <1>2, <1>3, <1>4, <1>5, ProxyFrame DEF Inv, Types, AgentTypes

LEMMA InvCleanUp ==
  ASSUME Inv, NEW s \in Sessions, CleanUp(s), ProxyStep(TRUE)
  PROVE  Inv'
<1>1. /\ sign[s].pc \in {"done", "aborted"} /\ log' = [log EXCEPT ![s] = <<>>]
      /\ UNCHANGED <<proxy, prefix, hostAuths, own, shared>>
  BY DEF CleanUp, Cleanup
<1>2. ProxyTypes'
  BY <1>1 DEF Inv, Types, ProxyTypes
<1>3. log' \in [Files -> Seq(Lines)] /\ \A t \in Sessions \ {s} : log'[t] = log[t]
  BY <1>1, EmptySeq DEF Inv, Types, AgentTypes, Files
<1>4. AuthInv(s)'
  BY <1>1, AuthFrame DEF Inv, ProxyStep
<1>5. LogInv(s)'
  BY <1>1 DEF Inv, LogInv, ToWrite, LoggerInStep, StopComesLast, KillIsAhead, Ending, ProxyStep
<1> QED BY <1>1, <1>2, <1>3, <1>4, <1>5, ProxyFrame

-----------------------------------------------------------------------------
LEMMA InvUnchanged ==
  ASSUME Inv, UNCHANGED vars
  PROVE  Inv'
<1>1. /\ UNCHANGED <<krd, sigs, callbacks, sign, log, age, due>>
      /\ UNCHANGED <<proxy, prefix, hostAuths, own, shared>>
  BY DEF vars, agentVars
<1>2. Types'
  BY <1>1 DEF Inv, Types, AgentTypes, ProxyTypes, HistoryTypes
<1> QED BY <1>1, <1>2, AuthFrame, LogFrame DEF Inv

LEMMA InvAgentStep ==
  ASSUME Inv, NEW s \in Sessions,
         \/ AgentStep(SignStep(s) \/ OnAck(s) \/ SshLists(s))
         \/ \E outcome \in {"none", "local", "unparsed", "unsupported"} :
               AgentStep(SshAuthenticates(s, outcome))
  PROVE  Inv'
<1>1. AgentStep(TRUE)
  BY DEF AgentStep
<1>2. CASE CheckForHostAuth(s)
  BY <1>1, <1>2, InvCheckForHostAuth
<1>3. CASE RegisterCallback(s)
  BY <1>1, <1>3, InvRegisterCallback
<1>4. CASE AwaitTimeout(s)
  BY <1>1, <1>4, InvAwaitTimeout
<1>5. CASE RequestSignature(s)
  BY <1>1, <1>5, InvRequestSignature
<1>6. CASE \E outcome \in Outcomes : Answered(s, outcome)
  BY <1>1, <1>6, InvAnswered
<1>7. CASE Notify(s)
  BY <1>1, <1>7, InvNotify
<1>8. CASE Return(s)
  BY <1>1, <1>8, InvReturn
<1>9. CASE GraceEnds(s)
  BY <1>1, <1>9, InvGraceEnds
<1>10. CASE OnAck(s)
  BY <1>1, <1>10, InvOnAck
<1>11. CASE SshLists(s)
  BY <1>1, <1>11, InvSshLists
<1>12. ASSUME NEW outcome, SshAuthenticates(s, outcome) PROVE Inv'
  BY <1>1, <1>12, InvStartSign
<1> QED BY <1>2, <1>3, <1>4, <1>5, <1>6, <1>7, <1>8, <1>9, <1>10, <1>11, <1>12
        DEF AgentStep, SignStep

LEMMA InvProxyStep ==
  ASSUME Inv, NEW s \in Sessions,
         \/ ProxyStep(Main(s) \/ SendHostAuth(s, krd = "up"))
         \/ \E packetLen \in PacketLens, paddingLen \in PaddingLens, isKexReply \in BOOLEAN :
               ProxyStep(TryParse(s, packetLen, paddingLen, isKexReply))
         \/ ProxyStep(StartLogger(s) \/ LogStep(s) \/ Close(s) \/ CleanUp(s))
  PROVE  Inv'
<1>1. ProxyStep(TRUE)
  BY DEF ProxyStep
<1>2. CASE Main(s)
  BY <1>1, <1>2, InvMain
<1>3. CASE SendHostAuth(s, krd = "up")
  BY <1>1, <1>3, InvSendHostAuth
<1>4. ASSUME NEW packetLen, NEW paddingLen, NEW isKexReply,
             TryParse(s, packetLen, paddingLen, isKexReply)
      PROVE  Inv'
  BY <1>1, <1>4, InvTryParse
<1>5. CASE StartLogger(s)
  BY <1>1, <1>5, InvStartLogger
<1>6. CASE LogStep(s)
  BY <1>1, <1>6, InvLogOwn, InvLogShared DEF LogStep
<1>7. CASE Close(s) \/ CleanUp(s)
  BY <1>1, <1>7, InvClose, InvCleanUp
<1> QED BY <1>2, <1>3, <1>4, <1>5, <1>6, <1>7 DEF ProxyStep

LEMMA InvNext == Inv /\ [Next]_vars => Inv'
<1> SUFFICES ASSUME Inv, [Next]_vars PROVE Inv'
  OBVIOUS
<1>1. CASE AgentStep(Restart)
  <2>1. Restart /\ AgentStep(TRUE)
    BY <1>1 DEF AgentStep
  <2> QED BY <2>1, InvRestart
<1> QED BY <1>1, InvUnchanged, InvAgentStep, InvHostAuthArrives, InvProxyStep DEF Next

(* krssh, the agent and the notification files keep in step in every       *)
(* reachable state.                                                        *)
THEOREM Structure == Spec => []Inv
BY InvInit, InvNext, PTL DEF Spec

(* The variables have their types; in particular krd never keeps more      *)
(* than MaxSigs host signatures or CallbackCap callbacks.                  *)
THEOREM TypeCorrect == Spec => []TypeOK
BY Structure, InvImplies, PTL

(* parseSSHPacket accepts exactly the packets that fit its buffer, for     *)
(* every width of the lengths, padding and payload limit that              *)
(* PacketAssumption allows, and so for uint32, 255 and 1<<18.              *)
THEOREM PacketsParsedExactly == Spec => []ParsesExactly
<1>1. ParsesExactly
  BY AcceptsExactly DEF ParsesExactly
<1> QED BY <1>1, PTL

(* Sign passes the host's signature on exactly when it is among the        *)
(* MaxSigs latest ones krd had got by the time it looked.                  *)
THEOREM LatestHostsKnown == Spec => []LatestHostsAreKnown
BY Structure, InvImplies, PTL

(* Sign does not return from a rejection while the session's logger, if it *)
(* was there to see KILL, is still running.                                *)
THEOREM RejectedKilled == Spec => []RejectedSessionIsKilled
BY Structure, InvImplies, PTL
=============================================================================
