------------------------- MODULE Workstation_proofs -------------------------
(***************************************************************************)
(* What the commands of kr leave behind on a workstation, for any number   *)
(* of krd processes and of programs that dial krd, any versions of ssh,    *)
(* and as many commands, interruptions and crashes as one likes.           *)
(***************************************************************************)
EXTENDS Workstation, Selection_proofs, FiniteSetTheorems

Rewriting == {"backup", "backupUninstall", "truncate", "write"}

KrdSteps ==
    {"upgrade", "truncate", "write", "krd.sock", "krd-agent.sock", "krd-hostauth.sock", "up", "stop"}

(* The steps about krd.                                                    *)
DialSteps ==
    {"ensure", "dial", "ping", "connect", "reconnect", "start", "wait", "kill", "failed"}

(* The steps that make git sign, or go with the commands that do; and the  *)
(* ones that stop it from signing.                                         *)
SigningSteps  == {"programKrgpg", "onboard", "commitOn", "tagOn",
                  "dial", "ping", "connect", "reconnect"}
RemovingSteps == {"remove", "codesigning", "programUnset", "commitOff", "tagOff"}

ClientSteps ==
    DialSteps \cup SigningSteps \cup RemovingSteps \cup Rewriting
        \cup {"edit", "force", "migrate", "clean"}

(* A rewrite of the file that was begun comes before everything else.      *)
Plain(s) == ToSet(s) \cap Rewriting = {}

Writing(s)    == s # <<>> /\ Head(s) = "write" /\ Plain(Tail(s))
Truncating(s) == s # <<>> /\ Head(s) = "truncate" /\ Writing(Tail(s))
BackingUp(s)  == s # <<>> /\ Head(s) \in {"backup", "backupUninstall"} /\ Truncating(Tail(s))

InOrder(s) == Plain(s) \/ Writing(s) \/ Truncating(s) \/ BackingUp(s)

KrdScript(s) ==
    /\ s \in Seq(KrdSteps) /\ InOrder(s)
    /\ "stop" \in ToSet(s) => s = <<"stop">>
    /\ \A i \in 1..Len(s) : s[i] = "up" => i = Len(s)
    /\ s # <<>> => s[Len(s)] \in {"up", "stop"}

(* What a step about krd comes after.                                      *)
Preceded(s) ==
    \A i \in 2..Len(s) :
        /\ s[i] = "ping" => s[i - 1] \in {"dial", "connect", "reconnect"}
        /\ s[i] = "reconnect" => s[i - 1] = "wait" /\ (i > 2 => s[i - 2] = "start")
        /\ s[i] = "start" => s[i - 1] = "wait" /\ (i > 2 => s[i - 2] = "kill")
        /\ s[i - 1] \in {"kill", "start"} => s[i] = "wait"

(* Two programs never run as one command, and signing is not switched on   *)
(* before the program is set.                                              *)
SetsGit(s) ==
    /\ ToSet(s) \cap SigningSteps = {} \/ ToSet(s) \cap RemovingSteps = {}
    /\ \A i \in 1..Len(s) : s[i] = "remove" => i < Len(s) /\ s[i + 1] = "codesigning"
    /\ \A i \in 1..Len(s) : s[i] = "programUnset" =>
          i + 1 < Len(s) /\ s[i + 1] = "commitOff" /\ s[i + 2] = "tagOff"
    /\ \A i, j \in 1..Len(s) : s[i] = "onboard" /\ s[j] = "programKrgpg" => j < i

ClientScript(s) == s \in Seq(ClientSteps) /\ InOrder(s) /\ Preceded(s) /\ SetsGit(s)

AnyStep == KrdSteps \cup ClientSteps

ScriptInv ==
    /\ todo \in [Procs -> Seq(AnyStep)]
    /\ alive \subseteq Krds
    /\ \A k \in Krds : KrdScript(todo[k]) /\ (k \in alive <=> todo[k] # <<>>)
    /\ \A c \in Clients : ClientScript(todo[c])

-----------------------------------------------------------------------------
(* The old block is one of the first two parts, and there are four only if *)
(* the last one is in the format of today.                                 *)
Fits(file) ==
    /\ file \in Seq(Parts) /\ Len(file) <= 4
    /\ \A i \in 1..Len(file) : i > 2 => file[i] \in {"agent", "pkcs11"}
    /\ ~Contains(file, "agent") => Len(file) <= 3

OneBlock(file) == Rare(file, Blocks, Len(file))

WithoutAgent(file) == ~Contains(file, "agent") /\ ~Contains(file, "agentite")

FileInv ==
    /\ Fits(config) /\ Fits(bak) /\ Fits(uninstBak)
    /\ buf \in [Editors -> [old : Seq(Parts), new : Seq(Parts)]]
    /\ \A p \in Editors : Fits(buf[p].old) /\ Fits(buf[p].new)
    /\ sshVersion \in Versions /\ torn \in BOOLEAN /\ forced \in BOOLEAN
    /\ ~SupportsIdentityAgent(sshVersion) =>
          WithoutAgent(config) /\ \A p \in Editors : WithoutAgent(buf[p].new)
    /\ ~forced =>
          /\ OneBlock(config) /\ \A p \in Editors : OneBlock(buf[p].new)
          /\ "force" \notin ToSet(todo[Kr])

(* Where the user's lines are while nothing put them at risk.              *)
AtOneOf(p, steps) == \E step \in steps : At(p, step)

BackedUp == Contains(bak, "user") \/ Contains(uninstBak, "user")

LinesInv ==
    /\ atRisk \in BOOLEAN
    /\ ~atRisk =>
          /\ \A p \in Editors : AtOneOf(p, Rewriting) =>
                Contains(buf[p].old, "user") /\ Contains(buf[p].new, "user")
          /\ ~torn => Contains(config, "user")
          /\ torn => BackedUp \/ \E p \in Editors : At(p, "write")
          /\ AtOneOf(Kr, {"truncate", "write"}) => BackedUp \/ IsMigration(buf[Kr])

-----------------------------------------------------------------------------
GitInv ==
    LET s == ToSet(todo[Kr])
    IN  /\ GitTypeOK /\ turnedOn \in BOOLEAN /\ cut \in BOOLEAN
        /\ "programKrgpg" \in s => installed
        /\ "onboard" \in s => git.program = "krgpg" \/ "programKrgpg" \in s
        /\ "tagOn" \in s => git.program = "krgpg"
        /\ "commitOn" \in s => git.program = "krgpg" \/ turnedOn
        /\ ~cut =>
              /\ git.program = "krgpg" =>
                    installed \/ "codesigning" \in s \/ "programUnset" \in s
              /\ git.commitSign => git.program = "krgpg" \/ turnedOn \/ "commitOff" \in s
              /\ git.tagSign => git.program = "krgpg" \/ "tagOff" \in s

-----------------------------------------------------------------------------
DialsKrd(c) == ToSet(todo[c]) \cap DialSteps # {}

(* As long as each client had the daemon for itself: there is one krd, the *)
(* sockets it has passed are its own, and a client at the step finds what  *)
(* the steps before it have seen to.                                       *)
OneKrd == \A j, k \in alive : j = k

OwnSockets ==
    \A k \in alive : At(k, "stop") \/ \A s \in Sockets : s \in ToSet(todo[k]) \/ sock[s] = k

OneDials == \A c, d \in Clients : DialsKrd(c) /\ DialsKrd(d) => c = d

Finds(c) ==
    /\ DialsKrd(c) => Settled \/ At(c, "wait")
    /\ At(c, "start") => alive = {}
    /\ At(c, "ping") \/ At(c, "reconnect") => alive # {}
    /\ At(c, "wait") /\ Len(todo[c]) > 1 =>
          /\ todo[c][2] = "start" => \A k \in alive : At(k, "stop")
          /\ todo[c][2] = "reconnect" => alive # {} /\ \A k \in alive : ~At(k, "stop")
    /\ "failed" \notin ToSet(todo[c])

DaemonInv ==
    /\ sock \in [Sockets -> Krds \cup {NoFile, Stale}] /\ disturbed \in BOOLEAN
    /\ ~disturbed => OneKrd /\ OwnSockets /\ OneDials /\ \A c \in Clients : Finds(c)

Inv == ScriptInv /\ FileInv /\ LinesInv /\ GitInv /\ DaemonInv

-----------------------------------------------------------------------------
(* A script whose first step was replaced by the steps of a function.      *)
After(steps, s) == steps \o Tail(s)

LEMMA AfterElements ==
  ASSUME NEW S, NEW s \in Seq(S), s # <<>>, NEW steps \in Seq(S)
  PROVE  /\ After(steps, s) \in Seq(S)
         /\ Len(After(steps, s)) = Len(steps) + Len(s) - 1
         /\ \A i \in 1..(Len(steps) + Len(s) - 1) :
               After(steps, s)[i] = IF i <= Len(steps) THEN steps[i] ELSE s[i - Len(steps) + 1]
<1> DEFINE t == Tail(s)
           a == steps \o t
<1>1. /\ t \in Seq(S) /\ Len(t) = Len(s) - 1 /\ Len(s) \in Nat /\ Len(s) > 0
      /\ \A i \in 1..Len(t) : t[i] = s[i + 1]
  BY HeadTailProperties
<1> HIDE DEF t
<1>2. /\ a \in Seq(S) /\ Len(a) = Len(steps) + Len(t)
      /\ \A i \in 1..Len(steps) + Len(t) : a[i] = IF i <= Len(steps) THEN steps[i] ELSE t[i - Len(steps)]
  BY <1>1, ConcatProperties, Zenon
<1>3. After(steps, s) = a
  BY Zenon DEF After, t
<1> HIDE DEF a
<1>4. Len(steps) \in Nat
  OBVIOUS
<1>5. \A i \in 1..(Len(steps) + Len(s) - 1) :
         a[i] = IF i <= Len(steps) THEN steps[i] ELSE s[i - Len(steps) + 1]
  <2> SUFFICES ASSUME NEW i \in 1..(Len(steps) + Len(s) - 1)
               PROVE  a[i] = IF i <= Len(steps) THEN steps[i] ELSE s[i - Len(steps) + 1]
    OBVIOUS
  <2>1. i \in 1..Len(steps) + Len(t)
    BY <1>1, <1>4
  <2>2. CASE i <= Len(steps)
    BY <1>2, <2>1, <2>2
  <2>3. CASE ~(i <= Len(steps))
    <3>1. i - Len(steps) \in 1..Len(t) /\ a[i] = t[i - Len(steps)]
      BY <1>1, <1>2, <1>4, <2>1, <2>3
    <3> QED BY <1>1, <2>3, <3>1
  <2> QED BY <2>2, <2>3
<1>6. Len(a) = Len(steps) + Len(s) - 1
  BY <1>1, <1>2, <1>4
<1> QED BY <1>2, <1>3, <1>5, <1>6, Zenon

LEMMA Members ==
  ASSUME NEW S, NEW s \in Seq(S)
  PROVE  /\ \A x : x \in ToSet(s) <=> \E i \in 1..Len(s) : s[i] = x
         /\ ToSet(s) \subseteq S
BY DEF ToSet

LEMMA HeadTail ==
  ASSUME NEW S, NEW s \in Seq(S), s # <<>>
  PROVE  /\ Head(s) = s[1] /\ Tail(s) \in Seq(S) /\ Len(Tail(s)) = Len(s) - 1
         /\ Len(s) \in Nat /\ Len(s) > 0
         /\ \A i \in 1..Len(Tail(s)) : Tail(s)[i] = s[i + 1]
         /\ ToSet(s) = {Head(s)} \cup ToSet(Tail(s)) /\ Head(s) \in S
<1> DEFINE t == Tail(s)
<1>1. /\ Head(s) = s[1] /\ t \in Seq(S) /\ Len(t) = Len(s) - 1 /\ Len(s) \in Nat /\ Len(s) > 0
      /\ \A i \in 1..Len(t) : t[i] = s[i + 1]
  BY HeadTailProperties
<1> HIDE DEF t
<1>2. \A x : x \in ToSet(s) => x = Head(s) \/ x \in ToSet(t)
  <2> SUFFICES ASSUME NEW x, x \in ToSet(s), x # Head(s) PROVE x \in ToSet(t)
    OBVIOUS
  <2>1. PICK i \in 1..Len(s) : s[i] = x
    BY Members
  <2>2. i - 1 \in 1..Len(t) /\ t[i - 1] = x
    BY <1>1, <2>1
  <2> QED BY <1>1, <2>2, Members
<1>3. \A x : x = Head(s) \/ x \in ToSet(t) => x \in ToSet(s)
  <2>1. 1 \in 1..Len(s)
    BY <1>1
  <2>2. Head(s) \in ToSet(s)
    BY <1>1, <2>1, Members
  <2>3. ASSUME NEW x, x \in ToSet(t) PROVE x \in ToSet(s)
    <3>1. PICK i \in 1..Len(t) : t[i] = x
      BY <1>1, <2>3, Members
    <3>2. i + 1 \in 1..Len(s) /\ s[i + 1] = x
      BY <1>1, <3>1
    <3> QED BY <3>2, Members
  <2> QED BY <2>2, <2>3
<1>4. ToSet(s) = {Head(s)} \cup ToSet(t)
  BY <1>2, <1>3
<1>5. Head(s) \in S
  BY <1>1
<1> QED BY <1>1, <1>4, <1>5 DEF t

LEMMA AfterMembers ==
  ASSUME NEW S, NEW s \in Seq(S), s # <<>>, NEW steps \in Seq(S)
  PROVE  ToSet(After(steps, s)) = ToSet(steps) \cup ToSet(Tail(s))
<1> DEFINE t == Tail(s)
           a == After(steps, s)
<1>1. /\ t \in Seq(S) /\ Len(t) = Len(s) - 1 /\ Len(s) \in Nat /\ Len(s) > 0
      /\ \A i \in 1..Len(t) : t[i] = s[i + 1]
  BY HeadTail
<1>2. /\ a \in Seq(S) /\ Len(a) = Len(steps) + Len(s) - 1
      /\ \A i \in 1..Len(a) : a[i] = IF i <= Len(steps) THEN steps[i] ELSE s[i - Len(steps) + 1]
  BY AfterElements
<1>3. Len(steps) \in Nat
  OBVIOUS
<1> HIDE DEF t, a
<1>4. ASSUME NEW x, x \in ToSet(a) PROVE x \in ToSet(steps) \cup ToSet(t)
  <2>1. PICK i \in 1..Len(a) : a[i] = x
    BY <1>2, <1>4, Members
  <2>2. CASE i <= Len(steps)
    <3>1. i \in 1..Len(steps) /\ steps[i] = x
      BY <1>2, <1>3, <2>1, <2>2
    <3> QED BY <3>1, Members
  <2>3. CASE ~(i <= Len(steps))
    <3>1. i - Len(steps) \in 1..Len(t)
      BY <1>1, <1>2, <1>3, <2>1, <2>3
    <3>2. t[i - Len(steps)] = s[i - Len(steps) + 1]
      BY <1>1, <3>1
    <3>3. s[i - Len(steps) + 1] = x
      BY <1>2, <2>1, <2>3
    <3> QED BY <1>1, <3>1, <3>2, <3>3, Members
  <2> QED BY <2>2, <2>3
<1>5. ASSUME NEW x, x \in ToSet(steps) PROVE x \in ToSet(a)
  <2>1. PICK i \in 1..Len(steps) : steps[i] = x
    BY <1>5, Members
  <2>2. i \in 1..Len(a) /\ a[i] = x
    BY <1>1, <1>2, <1>3, <2>1
  <2> QED BY <1>2, <2>2, Members
<1>6. ASSUME NEW x, x \in ToSet(t) PROVE x \in ToSet(a)
  <2>1. PICK i \in 1..Len(t) : t[i] = x
    BY <1>1, <1>6, Members
  <2>2. i + Len(steps) \in 1..Len(a) /\ ~(i + Len(steps) <= Len(steps))
    BY <1>1, <1>2, <1>3
  <2>3. a[i + Len(steps)] = s[i + 1] /\ t[i] = s[i + 1]
    <3>1. (i + Len(steps)) - Len(steps) + 1 = i + 1
      BY <1>1, <1>3
    <3>2. a[i + Len(steps)] = s[(i + Len(steps)) - Len(steps) + 1]
      BY <1>2, <2>2
    <3> QED BY <1>1, <3>1, <3>2
  <2> QED BY <1>2, <2>1, <2>2, <2>3, Members
<1>7. ToSet(a) = ToSet(steps) \cup ToSet(t)
  BY <1>4, <1>5, <1>6
<1> QED BY <1>7 DEF a, t

LEMMA AfterNothing ==
  ASSUME NEW S, NEW s \in Seq(S), s # <<>>
  PROVE  After(<<>>, s) = Tail(s)
<1>1. Tail(s) \in Seq(S)
  BY HeadTail
<1> QED BY <1>1, ConcatEmptySeq, Zenon DEF After

LEMMA AfterTail ==
  ASSUME NEW S, NEW s \in Seq(S), s # <<>>, NEW steps \in Seq(S), steps # <<>>
  PROVE  /\ After(steps, s) # <<>> /\ Head(After(steps, s)) = Head(steps)
         /\ Tail(After(steps, s)) = After(Tail(steps), s)
<1> DEFINE a == After(steps, s)
           u == Tail(steps)
           b == After(u, s)
           c == Tail(a)
<1>1. /\ u \in Seq(S) /\ Len(u) = Len(steps) - 1 /\ Len(steps) \in Nat /\ Len(steps) > 0
      /\ Head(steps) = steps[1] /\ \A i \in 1..Len(u) : u[i] = steps[i + 1]
  BY HeadTail
<1>2. Len(s) \in Nat /\ Len(s) > 0
  BY HeadTail
<1>3. /\ a \in Seq(S) /\ Len(a) = Len(steps) + Len(s) - 1
      /\ \A i \in 1..(Len(steps) + Len(s) - 1) :
            a[i] = IF i <= Len(steps) THEN steps[i] ELSE s[i - Len(steps) + 1]
  BY AfterElements
<1> HIDE DEF u
<1>4. /\ b \in Seq(S) /\ Len(b) = Len(u) + Len(s) - 1
      /\ \A i \in 1..(Len(u) + Len(s) - 1) :
            b[i] = IF i <= Len(u) THEN u[i] ELSE s[i - Len(u) + 1]
  <2>1. u \in Seq(S)
    BY <1>1
  <2> HIDE DEF a
  <2> QED BY <2>1, AfterElements
<1> HIDE DEF a, b
<1>5. a # <<>>
  BY <1>1, <1>2, <1>3
<1>6. /\ c \in Seq(S) /\ Len(c) = Len(a) - 1 /\ Head(a) = a[1]
      /\ \A i \in 1..Len(c) : c[i] = a[i + 1]
  BY <1>3, <1>5, HeadTail
<1> HIDE DEF c
<1>7. a[1] = steps[1]
  BY <1>1, <1>2, <1>3
<1>8. Len(c) = Len(b)
  BY <1>1, <1>3, <1>4, <1>6
<1>9. \A i \in 1..Len(c) : c[i] = b[i]
  <2> SUFFICES ASSUME NEW i \in 1..Len(c) PROVE c[i] = b[i]
    OBVIOUS
  <2>1. i \in 1..(Len(u) + Len(s) - 1) /\ i + 1 \in 1..(Len(steps) + Len(s) - 1)
    BY <1>1, <1>2, <1>3, <1>4, <1>6
  <2>2. c[i] = a[i + 1]
    BY <1>6
  <2>3. CASE i <= Len(u)
    <3>1. i + 1 <= Len(steps) /\ i \in 1..Len(u)
      BY <1>1, <2>1, <2>3
    <3> QED BY <1>1, <1>3, <1>4, <2>1, <2>2, <2>3, <3>1
  <2>4. CASE ~(i <= Len(u))
    <3>1. ~(i + 1 <= Len(steps)) /\ i - Len(u) + 1 = i + 1 - Len(steps) + 1
      BY <1>1, <2>1, <2>4
    <3>2. a[i + 1] = s[i + 1 - Len(steps) + 1]
      BY <1>3, <2>1, <3>1
    <3>3. b[i] = s[i - Len(u) + 1]
      BY <1>4, <2>1, <2>4
    <3> QED BY <2>2, <3>1, <3>2, <3>3, Zenon
  <2> QED BY <2>3, <2>4
<1>10. c = b
  BY <1>4, <1>6, <1>8, <1>9, SeqEqual
<1> QED BY <1>1, <1>5, <1>6, <1>7, <1>10 DEF a, b, c, u

-----------------------------------------------------------------------------
(* Rewrites are in order, whatever step comes next.                        *)
LEMMA TailInOrder ==
  ASSUME NEW S, NEW s \in Seq(S), s # <<>>, InOrder(s)
  PROVE  /\ InOrder(Tail(s))
         /\ Head(s) \notin Rewriting => Plain(s)
         /\ Head(s) \in {"write"} \cup (S \ Rewriting) => Plain(Tail(s))
         /\ Head(s) = "truncate" => Writing(Tail(s))
         /\ Head(s) \in {"backup", "backupUninstall"} => Truncating(Tail(s))
<1>1. ToSet(s) = {Head(s)} \cup ToSet(Tail(s)) /\ Head(s) \in S
  BY HeadTail
<1>2. CASE Plain(s)
  BY <1>1, <1>2 DEF InOrder, Plain, Rewriting
<1>3. CASE Writing(s)
  BY <1>1, <1>3 DEF InOrder, Writing, Rewriting
<1>4. CASE Truncating(s)
  BY <1>1, <1>4 DEF InOrder, Truncating, Rewriting
<1>5. CASE BackingUp(s)
  BY <1>1, <1>5 DEF InOrder, BackingUp, Rewriting
<1> QED BY <1>2, <1>3, <1>4, <1>5 DEF InOrder

Rewrites == {<<"truncate", "write">>, <<"backup", "truncate", "write">>,
             <<"backupUninstall", "truncate", "write">>}

LEMMA AfterInOrder ==
  ASSUME NEW S, NEW s \in Seq(S), s # <<>>, InOrder(s), Head(s) \notin Rewriting,
         NEW steps \in Seq(S), ToSet(steps) \cap Rewriting = {} \/ steps \in Rewrites
  PROVE  InOrder(After(steps, s))
<1>1. Plain(Tail(s)) /\ After(<<>>, s) = Tail(s)
  <2>1. Head(s) \in S
    BY HeadTail
  <2> QED BY <2>1, TailInOrder, AfterNothing
<1>2. CASE ToSet(steps) \cap Rewriting = {}
  <2>1. ToSet(After(steps, s)) = ToSet(steps) \cup ToSet(Tail(s))
    BY AfterMembers
  <2> QED BY <1>1, <1>2, <2>1 DEF InOrder, Plain
<1>3. ASSUME <<"write">> \in Seq(S) PROVE Writing(After(<<"write">>, s))
  <2>1. /\ After(<<"write">>, s) # <<>> /\ Head(After(<<"write">>, s)) = Head(<<"write">>)
        /\ Tail(After(<<"write">>, s)) = After(Tail(<<"write">>), s)
    BY <1>3, AfterTail
  <2>2. Head(<<"write">>) = "write" /\ Tail(<<"write">>) = <<>>
    OBVIOUS
  <2> QED BY <1>1, <2>1, <2>2, Zenon DEF Writing
<1>4. ASSUME <<"truncate", "write">> \in Seq(S)
      PROVE  Truncating(After(<<"truncate", "write">>, s))
  <2> DEFINE w == <<"truncate", "write">>
  <2>1. /\ After(w, s) # <<>> /\ Head(After(w, s)) = Head(w)
        /\ Tail(After(w, s)) = After(Tail(w), s)
    BY <1>4, AfterTail
  <2>2. Head(w) = "truncate" /\ Tail(w) = <<"write">>
    OBVIOUS
  <2>3. Tail(w) \in Seq(S)
    BY <1>4, HeadTail
  <2> HIDE DEF w
  <2>4. Writing(After(<<"write">>, s))
    BY <1>3, <2>2, <2>3
  <2> QED BY <2>1, <2>2, <2>4, Zenon DEF Truncating, w
<1>5. ASSUME NEW b \in {"backup", "backupUninstall"}, <<b, "truncate", "write">> \in Seq(S)
      PROVE  BackingUp(After(<<b, "truncate", "write">>, s))
  <2> DEFINE w == <<b, "truncate", "write">>
  <2>1. /\ After(w, s) # <<>> /\ Head(After(w, s)) = Head(w)
        /\ Tail(After(w, s)) = After(Tail(w), s)
    BY <1>5, AfterTail
  <2>2. Head(w) = b /\ Tail(w) = <<"truncate", "write">>
    OBVIOUS
  <2>3. Tail(w) \in Seq(S)
    BY <1>5, HeadTail
  <2> HIDE DEF w
  <2>4. Truncating(After(<<"truncate", "write">>, s))
    BY <1>4, <2>2, <2>3
  <2> QED BY <1>5, <2>1, <2>2, <2>4, Zenon DEF BackingUp, w
<1>6. CASE steps = <<"truncate", "write">>
  BY <1>4, <1>6 DEF InOrder
<1>7. CASE steps = <<"backup", "truncate", "write">>
  BY <1>5, <1>7 DEF InOrder
<1>8. CASE steps = <<"backupUninstall", "truncate", "write">>
  BY <1>5, <1>8 DEF InOrder
<1> QED BY <1>2, <1>6, <1>7, <1>8 DEF Rewrites

LEMMA AfterPreceded ==
  ASSUME NEW S, NEW s \in Seq(S), s # <<>>, Preceded(s), NEW steps \in Seq(S), Preceded(steps),
         steps # <<>> =>
            /\ Head(s) \notin {"wait", "start", "kill"}
            /\ steps[Len(steps)] \notin {"start", "kill"}
            /\ Head(s) \in {"dial", "connect", "reconnect"} =>
                  steps[Len(steps)] \in {"dial", "connect", "reconnect"}
  PROVE  Preceded(After(steps, s))
<1> DEFINE t == After(steps, s)
           n == Len(steps)
           m == Len(s)
<1>1. n \in Nat /\ m \in Nat /\ m > 0 /\ Head(s) = s[1] /\ (n = 0 <=> steps = <<>>)
  BY HeadTail, EmptySeq
<1>2. /\ Len(t) = n + m - 1
      /\ \A i \in 1..(n + m - 1) : t[i] = IF i <= n THEN steps[i] ELSE s[i - n + 1]
  BY AfterElements
<1> HIDE DEF t
<1> DEFINE Pings(r, i) == r[i] = "ping" => r[i - 1] \in {"dial", "connect", "reconnect"}
           Others(r, i) ==
              /\ r[i] = "reconnect" => r[i - 1] = "wait" /\ (i > 2 => r[i - 2] = "start")
              /\ r[i] = "start" => r[i - 1] = "wait" /\ (i > 2 => r[i - 2] = "kill")
              /\ r[i - 1] \in {"kill", "start"} => r[i] = "wait"
<1>3. /\ \A i \in 2..m : Pings(s, i) /\ Others(s, i)
      /\ \A i \in 2..n : Pings(steps, i) /\ Others(steps, i)
  BY DEF Preceded
<1>4. ASSUME NEW i \in 2..Len(t) PROVE Pings(t, i) /\ Others(t, i)
  <2>1. i \in 1..(n + m - 1) /\ i - 1 \in 1..(n + m - 1) /\ (i > 2 => i - 2 \in 1..(n + m - 1))
    BY <1>1, <1>2, <1>4
  <2>2. CASE i <= n
    <3>1. t[i] = steps[i] /\ t[i - 1] = steps[i - 1] /\ (i > 2 => t[i - 2] = steps[i - 2])
      BY <1>1, <1>2, <2>1, <2>2
    <3>2. i \in 2..n
      BY <1>1, <2>1, <2>2, <1>4
    <3> QED BY <1>3, <3>1, <3>2
  <2>3. CASE i = n + 1
    <3>1. n > 0 /\ steps # <<>> /\ 2 \in 2..m
      BY <1>1, <1>2, <1>4, <2>1, <2>3
    <3>2. t[i] = s[2] /\ t[i - 1] = steps[n]
      <4>1. i - n + 1 = 2 /\ i - 1 = n /\ ~(i <= n)
        BY <1>1, <2>3
      <4> QED BY <1>1, <1>2, <2>1, <3>1, <4>1
    <3>3. Pings(s, 2) /\ Others(s, 2)
      BY <1>3, <3>1
    <3> QED BY <1>1, <3>1, <3>2, <3>3
  <2>4. CASE i = n + 2 /\ n > 0
    <3>1. steps # <<>> /\ 2 \in 2..m /\ 3 \in 2..m
      BY <1>1, <1>2, <1>4, <2>1, <2>4
    <3>2. t[i] = s[3] /\ t[i - 1] = s[2] /\ t[i - 2] = steps[n]
      <4>1. i - n + 1 = 3 /\ i - 1 - n + 1 = 2 /\ i - 2 = n /\ ~(i <= n) /\ ~(i - 1 <= n)
        BY <1>1, <2>4
      <4>2. t[i] = s[i - n + 1] /\ t[i - 1] = s[i - 1 - n + 1]
        BY <1>2, <2>1, <4>1
      <4>3. t[n] = steps[n]
        BY <1>1, <1>2, <2>4
      <4> QED BY <4>1, <4>2, <4>3, Zenon
    <3>3. Pings(s, 3) /\ Others(s, 3) /\ Others(s, 2)
      BY <1>3, <3>1
    <3> QED BY <1>1, <3>1, <3>2, <3>3
  <2>5. CASE i > n + 2 \/ (i = n + 2 /\ n = 0)
    <3> DEFINE j == i - n + 1
    <3>1. j \in 2..m /\ (i > 2 => j - 2 \in 1..m)
      BY <1>1, <1>2, <1>4, <2>1, <2>5
    <3>2. t[i] = s[j] /\ t[i - 1] = s[j - 1]
      <4>1. ~(i <= n) /\ ~(i - 1 <= n) /\ i - 1 - n + 1 = j - 1
        BY <1>1, <2>1, <2>5
      <4>2. t[i] = s[i - n + 1] /\ t[i - 1] = s[i - 1 - n + 1]
        BY <1>2, <2>1, <4>1
      <4> QED BY <4>1, <4>2
    <3>3. i > 2 => t[i - 2] = s[j - 2]
      <4> SUFFICES ASSUME i > 2 PROVE t[i - 2] = s[j - 2]
        OBVIOUS
      <4>1. ~(i - 2 <= n) /\ i - 2 - n + 1 = j - 2
        BY <1>1, <2>1, <2>5
      <4>2. t[i - 2] = s[i - 2 - n + 1]
        BY <1>2, <2>1, <4>1
      <4> QED BY <4>1, <4>2
    <3>4. Pings(s, j) /\ Others(s, j)
      BY <1>3, <3>1
    <3>5. i > 2 => j > 2
      BY <1>1, <2>1, <2>5
    <3> HIDE DEF j
    <3> QED BY <3>2, <3>3, <3>4, <3>5
  <2> QED BY <1>1, <2>1, <2>2, <2>3, <2>4, <2>5
<1>5. \A i \in 2..Len(t) : Pings(t, i) /\ Others(t, i)
  BY <1>4
<1> QED BY <1>5 DEF Preceded, t

(* A step about git expands into such steps of its kind.                   *)
SameKind(step, steps) ==
    /\ steps \cap SigningSteps # {} => step \in SigningSteps
    /\ steps \cap RemovingSteps # {} => step \in RemovingSteps
    /\ steps \cap {"onboard", "programKrgpg"} = {}

LEMMA AfterSetsGit ==
  ASSUME NEW S, NEW s \in Seq(S), s # <<>>, SetsGit(s), NEW steps \in Seq(S), SetsGit(steps),
         SameKind(Head(s), ToSet(steps))
  PROVE  SetsGit(After(steps, s))
<1> DEFINE t == After(steps, s)
           n == Len(steps)
           m == Len(s)
<1>1. /\ n \in Nat /\ m \in Nat /\ m > 0 /\ Head(s) = s[1]
      /\ ToSet(s) = {Head(s)} \cup ToSet(Tail(s))
  BY HeadTail
<1>2. /\ Len(t) = n + m - 1
      /\ \A i \in 1..(n + m - 1) : t[i] = IF i <= n THEN steps[i] ELSE s[i - n + 1]
  BY AfterElements
<1>3. ToSet(t) = ToSet(steps) \cup ToSet(Tail(s))
  BY AfterMembers
<1>4. \A i \in 1..n : steps[i] \in ToSet(steps)
  BY Members
<1>0. /\ \A i \in 1..m : s[i] = "remove" => i < m /\ s[i + 1] = "codesigning"
      /\ \A i \in 1..m : s[i] = "programUnset" =>
            i + 1 < m /\ s[i + 1] = "commitOff" /\ s[i + 2] = "tagOff"
      /\ \A i, j \in 1..m : s[i] = "onboard" /\ s[j] = "programKrgpg" => j < i
  BY DEF SetsGit
<1>a. /\ \A i \in 1..n : steps[i] = "remove" => i < n /\ steps[i + 1] = "codesigning"
      /\ \A i \in 1..n : steps[i] = "programUnset" =>
            i + 1 < n /\ steps[i + 1] = "commitOff" /\ steps[i + 2] = "tagOff"
  BY DEF SetsGit
<1> HIDE DEF t
<1>5. ToSet(t) \cap SigningSteps = {} \/ ToSet(t) \cap RemovingSteps = {}
  BY <1>1, <1>3 DEF SetsGit, SameKind
<1> HIDE DEF n, m
<1>6. ASSUME NEW i \in 1..Len(t), i <= n PROVE t[i] = steps[i] /\ i \in 1..n
  BY <1>1, <1>2, <1>6
<1>7. ASSUME NEW i \in 1..Len(t), ~(i <= n) PROVE t[i] = s[i - n + 1] /\ i - n + 1 \in 2..m
  BY <1>1, <1>2, <1>7
<1>8. ASSUME NEW i \in 1..Len(t), t[i] = "remove"
      PROVE  i < Len(t) /\ t[i + 1] = "codesigning"
  <2>1. CASE i <= n
    <3>1. i < n /\ steps[i + 1] = "codesigning"
      BY <1>1, <1>a, <1>6, <1>8, <2>1
    <3> QED BY <1>1, <1>2, <3>1
  <2>2. CASE ~(i <= n)
    <3> DEFINE j == i - n + 1
    <3>1. j \in 1..m /\ s[j] = "remove"
      BY <1>1, <1>7, <1>8, <2>2
    <3>2. j < m /\ s[j + 1] = "codesigning"
      BY <1>1, <1>0, <3>1
    <3>3. i + 1 \in 1..(n + m - 1) /\ ~(i + 1 <= n) /\ i + 1 - n + 1 = j + 1 /\ i < Len(t)
      BY <1>1, <1>2, <2>2, <3>2
    <3>4. t[i + 1] = s[i + 1 - n + 1]
      BY <1>1, <1>2, <3>3
    <3> QED BY <1>1, <3>2, <3>3, <3>4
  <2> QED BY <1>1, <2>1, <2>2
<1>9. ASSUME NEW i \in 1..Len(t), t[i] = "programUnset"
      PROVE  i + 1 < Len(t) /\ t[i + 1] = "commitOff" /\ t[i + 2] = "tagOff"
  <2>1. CASE i <= n
    <3>1. i + 1 < n /\ steps[i + 1] = "commitOff" /\ steps[i + 2] = "tagOff"
      BY <1>1, <1>a, <1>6, <1>9, <2>1
    <3> QED BY <1>1, <1>2, <3>1
  <2>2. CASE ~(i <= n)
    <3> DEFINE j == i - n + 1
    <3>a. t[i] = s[j] /\ j \in 2..m
      BY <1>7, <2>2
    <3>1. j \in 1..m /\ s[j] = "programUnset"
      BY <1>1, <1>9, <3>a
    <3>2. j + 1 < m /\ s[j + 1] = "commitOff" /\ s[j + 2] = "tagOff"
      BY <1>1, <1>0, <3>1
    <3>3. /\ i + 1 \in 1..(n + m - 1) /\ ~(i + 1 <= n) /\ i + 1 - n + 1 = j + 1
          /\ i + 2 \in 1..(n + m - 1) /\ ~(i + 2 <= n) /\ i + 2 - n + 1 = j + 2 /\ i + 1 < Len(t)
      BY <1>1, <1>2, <2>2, <3>2
    <3>4. t[i + 1] = s[i + 1 - n + 1] /\ t[i + 2] = s[i + 2 - n + 1]
      BY <1>1, <1>2, <3>3
    <3> QED BY <1>1, <3>2, <3>3, <3>4
  <2> QED BY <1>1, <2>1, <2>2
<1>10. ASSUME NEW i \in 1..Len(t), NEW j \in 1..Len(t), t[i] = "onboard", t[j] = "programKrgpg"
       PROVE  j < i
  <2>1. ~(i <= n) /\ ~(j <= n)
    BY <1>1, <1>4, <1>6, <1>10 DEF SameKind
  <2>a. t[i] = s[i - n + 1] /\ i - n + 1 \in 2..m
    BY <1>1, <1>7, <2>1
  <2>b. t[j] = s[j - n + 1] /\ j - n + 1 \in 2..m
    BY <1>1, <1>7, <2>1
  <2>2. /\ s[i - n + 1] = "onboard" /\ i - n + 1 \in 1..m
        /\ s[j - n + 1] = "programKrgpg" /\ j - n + 1 \in 1..m
    BY <1>1, <1>10, <2>a, <2>b
  <2>3. j - n + 1 < i - n + 1
    BY <1>1, <1>0, <2>2
  <2> QED BY <1>1, <2>3
<1> QED BY <1>5, <1>8, <1>9, <1>10 DEF SetsGit, t

-----------------------------------------------------------------------------
(* The functions that the steps of a client call.                          *)
Calls(step, steps) ==
    \/ steps = <<>>
    \/ step = "ensure" /\ steps = <<"start", "wait">>
    \/ step = "dial" /\ steps \in {<<"connect">>, <<"start", "wait", "connect">>}
    \/ step = "connect" /\ steps = <<"kill", "wait", "start", "wait", "reconnect">>
    \/ step \in {"edit", "force", "migrate", "clean"} /\ steps \in Rewrites
    \/ step = "onboard" /\ steps = <<"commitOn", "tagOn">>
    \/ step = "codesigning" /\ steps = <<"programUnset", "commitOff", "tagOff">>

LEMMA AfterClient ==
  ASSUME NEW s, ClientScript(s), s # <<>>, NEW steps \in Seq(ClientSteps),
         Preceded(steps), SetsGit(steps), SameKind(Head(s), ToSet(steps)),
         steps # <<>> =>
            /\ Head(s) \notin {"wait", "start", "kill"} \cup Rewriting
            /\ ToSet(steps) \cap Rewriting = {} \/ steps \in Rewrites
            /\ steps[Len(steps)] \notin {"start", "kill"}
            /\ Head(s) \in {"dial", "connect", "reconnect"} =>
                  steps[Len(steps)] \in {"dial", "connect", "reconnect"}
  PROVE  ClientScript(After(steps, s))
<1>1. s \in Seq(ClientSteps) /\ InOrder(s) /\ Preceded(s) /\ SetsGit(s)
  BY DEF ClientScript
<1>2. After(steps, s) \in Seq(ClientSteps)
  BY <1>1, AfterElements
<1>3. Preceded(After(steps, s))
  BY <1>1, AfterPreceded
<1>4. SetsGit(After(steps, s))
  BY <1>1, AfterSetsGit
<1>5. InOrder(After(steps, s))
  <2>1. CASE steps = <<>>
    <3>1. After(<<>>, s) = Tail(s) /\ InOrder(Tail(s))
      BY <1>1, AfterNothing, TailInOrder
    <3> QED BY <2>1, <3>1
  <2>2. CASE steps # <<>>
    BY <1>1, <2>2, AfterInOrder
  <2> QED BY <2>1, <2>2
<1> QED BY <1>2, <1>3, <1>4, <1>5 DEF ClientScript

LEMMA EmptyScript ==
  /\ <<>> \in Seq(KrdSteps) /\ <<>> \in Seq(ClientSteps) /\ ToSet(<<>>) = {} /\ Len(<<>>) = 0
  /\ Plain(<<>>) /\ Preceded(<<>>) /\ SetsGit(<<>>) /\ KrdScript(<<>>) /\ ClientScript(<<>>)
<1>1. <<>> \in Seq(KrdSteps) /\ <<>> \in Seq(ClientSteps) /\ Len(<<>>) = 0
  OBVIOUS
<1>2. ToSet(<<>>) = {}
  BY DEF ToSet
<1>3. Plain(<<>>) /\ InOrder(<<>>)
  BY <1>2 DEF Plain, InOrder
<1>4. Preceded(<<>>)
  BY DEF Preceded
<1>5. SetsGit(<<>>)
  BY <1>2 DEF SetsGit
<1> QED BY <1>1, <1>2, <1>3, <1>4, <1>5 DEF KrdScript, ClientScript

LEMMA ClientExpands ==
  ASSUME NEW s, ClientScript(s), s # <<>>, NEW steps, Calls(Head(s), steps)
  PROVE  ClientScript(After(steps, s)) /\ steps \in Seq(ClientSteps)
<1> USE DEF Rewriting
<1>1. CASE steps = <<>>
  <2>1. SameKind(Head(s), ToSet(steps))
    BY <1>1, EmptyScript DEF SameKind
  <2> QED BY <1>1, <2>1, EmptyScript, AfterClient
<1>2. CASE Head(s) = "ensure" /\ steps = <<"start", "wait">>
  <2>1. steps \in Seq(ClientSteps) /\ Len(steps) = 2 /\ steps[1] = "start" /\ steps[2] = "wait"
    BY <1>2 DEF ClientSteps, DialSteps
  <2>2. ToSet(steps) = {"start", "wait"}
    BY <2>1 DEF ToSet
  <2>3. Preceded(steps) /\ SetsGit(steps)
    BY <2>1, <2>2 DEF Preceded, SetsGit, SigningSteps, RemovingSteps
  <2> QED BY <1>2, <2>1, <2>2, <2>3, AfterClient DEF SameKind, SigningSteps, RemovingSteps
<1>3. CASE Head(s) = "dial" /\ steps = <<"connect">>
  <2>1. steps \in Seq(ClientSteps) /\ Len(steps) = 1 /\ steps[1] = "connect"
    BY <1>3 DEF ClientSteps, DialSteps
  <2>2. ToSet(steps) = {"connect"}
    BY <2>1 DEF ToSet
  <2>3. Preceded(steps) /\ SetsGit(steps)
    BY <2>1, <2>2 DEF Preceded, SetsGit, SigningSteps, RemovingSteps
  <2> QED BY <1>3, <2>1, <2>2, <2>3, AfterClient DEF SameKind, SigningSteps, RemovingSteps
<1>4. CASE Head(s) = "dial" /\ steps = <<"start", "wait", "connect">>
  <2>1. /\ steps \in Seq(ClientSteps) /\ Len(steps) = 3
        /\ steps[1] = "start" /\ steps[2] = "wait" /\ steps[3] = "connect"
    BY <1>4 DEF ClientSteps, DialSteps
  <2>2. ToSet(steps) = {"start", "wait", "connect"}
    BY <2>1 DEF ToSet
  <2>3. Preceded(steps) /\ SetsGit(steps)
    BY <2>1, <2>2 DEF Preceded, SetsGit, SigningSteps, RemovingSteps
  <2> QED BY <1>4, <2>1, <2>2, <2>3, AfterClient DEF SameKind, SigningSteps, RemovingSteps
<1>5. CASE Head(s) = "connect" /\ steps = <<"kill", "wait", "start", "wait", "reconnect">>
  <2>1. /\ steps \in Seq(ClientSteps) /\ Len(steps) = 5
        /\ steps[1] = "kill" /\ steps[2] = "wait" /\ steps[3] = "start" /\ steps[4] = "wait"
        /\ steps[5] = "reconnect"
    BY <1>5 DEF ClientSteps, DialSteps
  <2>2. ToSet(steps) = {"kill", "wait", "start", "reconnect"}
    BY <2>1 DEF ToSet
  <2>3. Preceded(steps) /\ SetsGit(steps)
    BY <2>1, <2>2 DEF Preceded, SetsGit, SigningSteps, RemovingSteps
  <2> QED BY <1>5, <2>1, <2>2, <2>3, AfterClient DEF SameKind, SigningSteps, RemovingSteps
<1>6. CASE Head(s) \in {"edit", "force", "migrate", "clean"} /\ steps = <<"truncate", "write">>
  <2>1. steps \in Seq(ClientSteps) /\ Len(steps) = 2 /\ steps[1] = "truncate" /\ steps[2] = "write"
    BY <1>6 DEF ClientSteps
  <2>2. ToSet(steps) = {"truncate", "write"}
    BY <2>1 DEF ToSet
  <2>3. Preceded(steps) /\ SetsGit(steps)
    BY <2>1, <2>2 DEF Preceded, SetsGit, SigningSteps, RemovingSteps
  <2> QED BY <1>6, <2>1, <2>2, <2>3, AfterClient DEF SameKind, SigningSteps, RemovingSteps, Rewrites
<1>7. ASSUME NEW b \in {"backup", "backupUninstall"}, Head(s) \in {"edit", "force", "migrate", "clean"},
             steps = <<b, "truncate", "write">>
      PROVE  ClientScript(After(steps, s)) /\ steps \in Seq(ClientSteps)
  <2>1. /\ steps \in Seq(ClientSteps) /\ Len(steps) = 3
        /\ steps[1] = b /\ steps[2] = "truncate" /\ steps[3] = "write"
    BY <1>7 DEF ClientSteps
  <2>2. ToSet(steps) = {b, "truncate", "write"}
    BY <2>1 DEF ToSet
  <2>3. Preceded(steps) /\ SetsGit(steps)
    BY <1>7, <2>1, <2>2 DEF Preceded, SetsGit, SigningSteps, RemovingSteps
  <2> QED BY <1>7, <2>1, <2>2, <2>3, AfterClient DEF SameKind, SigningSteps, RemovingSteps, Rewrites
<1>8. CASE Head(s) = "onboard" /\ steps = <<"commitOn", "tagOn">>
  <2>1. steps \in Seq(ClientSteps) /\ Len(steps) = 2 /\ steps[1] = "commitOn" /\ steps[2] = "tagOn"
    BY <1>8 DEF ClientSteps, SigningSteps
  <2>2. ToSet(steps) = {"commitOn", "tagOn"}
    BY <2>1 DEF ToSet
  <2>3. Preceded(steps) /\ SetsGit(steps)
    BY <2>1, <2>2 DEF Preceded, SetsGit, SigningSteps, RemovingSteps
  <2> QED BY <1>8, <2>1, <2>2, <2>3, AfterClient DEF SameKind, SigningSteps, RemovingSteps
<1>9. CASE Head(s) = "codesigning" /\ steps = <<"programUnset", "commitOff", "tagOff">>
  <2>1. /\ steps \in Seq(ClientSteps) /\ Len(steps) = 3
        /\ steps[1] = "programUnset" /\ steps[2] = "commitOff" /\ steps[3] = "tagOff"
    BY <1>9 DEF ClientSteps, RemovingSteps
  <2>2. ToSet(steps) = {"programUnset", "commitOff", "tagOff"}
    BY <2>1 DEF ToSet
  <2>3. Preceded(steps) /\ SetsGit(steps)
    BY <2>1, <2>2 DEF Preceded, SetsGit, SigningSteps, RemovingSteps
  <2> QED BY <1>9, <2>1, <2>2, <2>3, AfterClient DEF SameKind, SigningSteps, RemovingSteps
<1> QED BY <1>1, <1>2, <1>3, <1>4, <1>5, <1>6, <1>7, <1>8, <1>9 DEF Calls, Rewrites

KrdCalls(step, steps) ==
    \/ steps = <<>>
    \/ step = "upgrade" /\ steps = <<"truncate", "write">>

LEMMA KrdExpands ==
  ASSUME NEW s, KrdScript(s), s # <<>>, NEW steps, KrdCalls(Head(s), steps)
  PROVE  /\ KrdScript(After(steps, s)) /\ steps \in Seq(KrdSteps)
         /\ After(steps, s) # <<>> <=> Head(s) \notin {"up", "stop"}
         /\ "stop" \notin ToSet(After(steps, s))
<1> DEFINE t == After(steps, s)
           n == Len(steps)
           m == Len(s)
<1>1. /\ s \in Seq(KrdSteps) /\ InOrder(s)
      /\ \A i \in 1..m : s[i] = "up" => i = m
      /\ s[m] \in {"up", "stop"}
  BY DEF KrdScript
<1>2. /\ Head(s) = s[1] /\ m \in Nat /\ m > 0 /\ Len(Tail(s)) = m - 1 /\ Tail(s) \in Seq(KrdSteps)
      /\ ToSet(s) = {Head(s)} \cup ToSet(Tail(s))
  BY <1>1, HeadTail
<1>3. /\ steps \in Seq(KrdSteps) /\ n \in Nat /\ (n = 0 <=> steps = <<>>)
      /\ \A i \in 1..n : steps[i] \in Rewriting
      /\ n > 0 => s[1] = "upgrade"
  <2>1. CASE steps = <<>>
    BY <2>1, EmptyScript
  <2>2. CASE Head(s) = "upgrade" /\ steps = <<"truncate", "write">>
    BY <1>2, <2>2 DEF KrdSteps, Rewriting
  <2> QED BY <2>1, <2>2 DEF KrdCalls
<1>4. /\ t \in Seq(KrdSteps) /\ Len(t) = n + m - 1
      /\ \A i \in 1..(n + m - 1) : t[i] = IF i <= n THEN steps[i] ELSE s[i - n + 1]
  BY <1>1, <1>3, AfterElements
<1>5. ToSet(t) = ToSet(steps) \cup ToSet(Tail(s))
  BY <1>1, <1>3, AfterMembers
<1>6. "stop" \notin ToSet(t)
  <2>1. "stop" \notin ToSet(steps)
    BY <1>3, Members DEF Rewriting
  <2>2. ASSUME "stop" \in ToSet(Tail(s)) PROVE FALSE
    <3>1. s = <<"stop">>
      BY <1>2, <2>2 DEF KrdScript
    <3>2. Tail(s) = <<>>
      BY <3>1
    <3> QED BY <2>2, <3>2, EmptyScript
  <2> QED BY <1>5, <2>1, <2>2
<1>7. InOrder(t)
  <2>1. CASE steps = <<>>
    <3>1. After(<<>>, s) = Tail(s) /\ InOrder(Tail(s))
      BY <1>1, AfterNothing, TailInOrder
    <3> QED BY <2>1, <3>1
  <2>2. CASE Head(s) = "upgrade" /\ steps = <<"truncate", "write">>
    <3>1. steps \in Rewrites /\ Head(s) \notin Rewriting
      BY <2>2 DEF Rewrites, Rewriting
    <3> QED BY <1>1, <1>3, <3>1, AfterInOrder
  <2> QED BY <2>1, <2>2 DEF KrdCalls
<1> HIDE DEF t
<1>8. t # <<>> <=> Len(t) > 0
  BY <1>4, EmptySeq
<1>9. m > 1 => s[1] \notin {"up", "stop"}
  <2> SUFFICES ASSUME m > 1 PROVE s[1] \notin {"up", "stop"}
    OBVIOUS
  <2>1. s[1] # "up"
    <3>1. 1 \in 1..m /\ 1 # m
      BY <1>2
    <3> QED BY <1>1, <3>1
  <2>2. s # <<"stop">>
    <3>1. Len(<<"stop">>) = 1
      OBVIOUS
    <3> QED BY <1>2, <3>1
  <2>3. s[1] \in ToSet(s)
    BY <1>2
  <2> QED BY <2>1, <2>2, <2>3 DEF KrdScript
<1>10. t # <<>> <=> Head(s) \notin {"up", "stop"}
  <2>1. CASE m = 1
    <3>1. s[1] \in {"up", "stop"} /\ n = 0
      BY <1>1, <1>2, <1>3, <2>1
    <3> QED BY <1>2, <1>4, <1>8, <2>1, <3>1
  <2>2. CASE m > 1
    BY <1>2, <1>3, <1>4, <1>8, <1>9, <2>2
  <2> QED BY <1>2, <2>1, <2>2
<1>11. \A i \in 1..Len(t) : t[i] = "up" => i = Len(t)
  <2> SUFFICES ASSUME NEW i \in 1..Len(t), t[i] = "up" PROVE i = Len(t)
    OBVIOUS
  <2>1. ASSUME i <= n PROVE FALSE
    <3>1. i \in 1..n /\ t[i] = steps[i]
      BY <1>2, <1>3, <1>4, <2>1
    <3>2. "up" \in Rewriting
      BY <1>3, <3>1
    <3> QED BY <3>2 DEF Rewriting
  <2>2. t[i] = s[i - n + 1] /\ i - n + 1 \in 1..m
    BY <1>2, <1>3, <1>4, <2>1
  <2>3. i - n + 1 = m
    BY <1>1, <2>2
  <2> QED BY <1>2, <1>3, <1>4, <2>3
<1>12. t # <<>> => t[Len(t)] \in {"up", "stop"}
  <2> SUFFICES ASSUME t # <<>> PROVE t[Len(t)] \in {"up", "stop"}
    OBVIOUS
  <2>1. m > 1
    <3>1. m # 1
      BY <1>1, <1>2, <1>10
    <3> QED BY <1>2, <3>1
  <2>2. Len(t) \in 1..(n + m - 1) /\ ~(Len(t) <= n) /\ Len(t) - n + 1 = m
    BY <1>2, <1>3, <1>4, <2>1
  <2>3. t[Len(t)] = s[Len(t) - n + 1]
    BY <1>4, <2>2
  <2> QED BY <1>1, <2>2, <2>3
<1>13. KrdScript(t)
  BY <1>4, <1>6, <1>7, <1>11, <1>12 DEF KrdScript
<1> QED BY <1>3, <1>6, <1>10, <1>13 DEF t

LEMMA MainScript ==
  /\ KrdScript(Main) /\ Main # <<>> /\ Sockets \subseteq ToSet(Main) /\ Head(Main) = "upgrade"
  /\ KrdScript(<<"stop">>) /\ <<"stop">> # <<>> /\ Head(<<"stop">>) = "stop"
<1> DEFINE s == Main
           t == <<"stop">>
<1>1. /\ s \in Seq(KrdSteps) /\ Len(s) = 5 /\ s[1] = "upgrade" /\ s[2] = "krd.sock"
      /\ s[3] = "krd-agent.sock" /\ s[4] = "krd-hostauth.sock" /\ s[5] = "up" /\ Head(s) = "upgrade"
  BY DEF Main, KrdSteps
<1>2. t \in Seq(KrdSteps) /\ Len(t) = 1 /\ t[1] = "stop" /\ Head(t) = "stop"
  BY DEF KrdSteps
<1> HIDE DEF s, t
<1>3. ToSet(s) = {"upgrade", "krd.sock", "krd-agent.sock", "krd-hostauth.sock", "up"}
  BY <1>1 DEF ToSet
<1>4. ToSet(t) = {"stop"}
  BY <1>2 DEF ToSet
<1>5. KrdScript(s) /\ s # <<>>
  BY <1>1, <1>3 DEF KrdScript, InOrder, Plain, Rewriting
<1>6. KrdScript(t) /\ t # <<>>
  BY <1>2, <1>4 DEF KrdScript, InOrder, Plain, Rewriting, t
<1> QED BY <1>1, <1>2, <1>3, <1>5, <1>6 DEF s, t, Sockets

-----------------------------------------------------------------------------
(* The commands, step by step.                                             *)
LEMMA PairSteps ==
  ASSUME NEW s, s = PairCommand
  PROVE  /\ s \in Seq(ClientSteps) /\ Len(s) = 5
         /\ s[1] = "ensure" /\ s[2] = "edit" /\ s[3] = "dial" /\ s[4] = "ping" /\ s[5] = "dial"
<1> DEFINE a == <<"ensure", "edit">>
           b == <<"dial", "ping", "dial">>
<1>1. a \in Seq(ClientSteps) /\ b \in Seq(ClientSteps)
  BY DEF ClientSteps, DialSteps
<1>2. PICK x, y : x = a /\ y = b
  OBVIOUS
<1>3. s = x \o y
  BY <1>2, Zenon DEF PairCommand, DaemonDialWithTimeout
<1>4. /\ Len(s) = 5
      /\ s[1] = "ensure" /\ s[2] = "edit" /\ s[3] = "dial" /\ s[4] = "ping" /\ s[5] = "dial"
  BY <1>2, <1>3
<1>5. s \in Seq(ClientSteps)
  BY <1>1, <1>2, <1>3, ConcatProperties, Zenon
<1> QED BY <1>4, <1>5

LEMMA CodesignSteps ==
  ASSUME NEW s, s = CodesignCommand
  PROVE  /\ s \in Seq(ClientSteps) /\ Len(s) = 5
         /\ s[1] = "dial" /\ s[2] = "ping" /\ s[3] = "dial" /\ s[4] = "programKrgpg" /\ s[5] = "onboard"
<1> DEFINE a == <<"dial", "ping", "dial">>
           b == <<"programKrgpg", "onboard">>
<1>1. a \in Seq(ClientSteps) /\ b \in Seq(ClientSteps)
  BY DEF ClientSteps, DialSteps, SigningSteps
<1>2. PICK x, y : x = a /\ y = b
  OBVIOUS
<1>3. s = x \o y
  BY <1>2, Zenon DEF CodesignCommand, DaemonDialWithTimeout
<1>4. /\ Len(s) = 5
      /\ s[1] = "dial" /\ s[2] = "ping" /\ s[3] = "dial" /\ s[4] = "programKrgpg" /\ s[5] = "onboard"
  BY <1>2, <1>3
<1>5. s \in Seq(ClientSteps)
  BY <1>1, <1>2, <1>3, ConcatProperties, Zenon
<1> QED BY <1>4, <1>5

(* What a command begins with, and what it may do.                         *)
Opens(s, command) ==
    /\ ClientScript(s) /\ Plain(s) /\ s # <<>>
    /\ "force" \in ToSet(s) => command = "sshConfigForce"
    /\ "commitOn" \in ToSet(s) => command = "codesignOn"
    /\ "tagOn" \notin ToSet(s)
    /\ "onboard" \in ToSet(s) => "programKrgpg" \in ToSet(s)
    /\ ToSet(s) \cap DialSteps # {} => Daemonic(s)
    /\ "failed" \notin ToSet(s)
    /\ Head(s) \notin {"start", "ping", "reconnect", "wait", "failed"}

LEMMA DialOpens == Opens(<<"dial">>, "krssh") /\ ToSet(<<"dial">>) = {"dial"} /\ Daemonic(<<"dial">>)
<1> DEFINE s == <<"dial">>
<1>1. s \in Seq(ClientSteps) /\ Len(s) = 1 /\ s[1] = "dial" /\ Head(s) = "dial" /\ s # <<>>
  BY DEF ClientSteps, DialSteps
<1> HIDE DEF s
<1>2. ToSet(s) = {"dial"} /\ Daemonic(s)
  BY <1>1 DEF ToSet, Daemonic
<1>3. ClientScript(s) /\ Plain(s)
  BY <1>1, <1>2 DEF ClientScript, InOrder, Plain, Rewriting, Preceded, SetsGit, SigningSteps,
                    RemovingSteps
<1>4. Opens(s, "krssh")
  BY <1>1, <1>2, <1>3 DEF Opens
<1> QED BY <1>2, <1>4 DEF s

LEMMA CommandOpens ==
  ASSUME NEW command \in DOMAIN Commands
  PROVE  Opens(Commands[command], command)
<1> DEFINE s == Commands[command]
<1> USE DEF ToSet
<1>1. ASSUME command = "pair" PROVE Opens(s, command)
  <2>1. s = PairCommand
    BY <1>1, Zenon DEF Commands
  <2> HIDE DEF s
  <2>2. /\ s \in Seq(ClientSteps) /\ Len(s) = 5 /\ s # <<>> /\ Head(s) = "ensure"
        /\ s[1] = "ensure" /\ s[2] = "edit" /\ s[3] = "dial" /\ s[4] = "ping" /\ s[5] = "dial"
    BY <2>1, PairSteps
  <2>3. ToSet(s) = {"ensure", "edit", "dial", "ping"}
    BY <2>2
  <2>4. ClientScript(s) /\ Plain(s)
    BY <2>2, <2>3 DEF ClientScript, InOrder, Plain, Rewriting, Preceded, SetsGit, SigningSteps,
                      RemovingSteps
  <2>5. Daemonic(s)
    BY <2>2 DEF Daemonic
  <2> QED BY <2>2, <2>3, <2>4, <2>5 DEF Opens
<1>2. ASSUME NEW step \in {"edit", "force", "commitOn", "commitOff", "codesigning"}, s = <<step>>,
             step = "force" => command = "sshConfigForce", step = "commitOn" => command = "codesignOn"
      PROVE  Opens(s, command)
  <2>1. s = <<step>>
    BY <1>2
  <2> HIDE DEF s
  <2>2. s \in Seq(ClientSteps) /\ Len(s) = 1 /\ s[1] = step /\ Head(s) = step /\ s # <<>>
    BY <2>1 DEF ClientSteps, SigningSteps, RemovingSteps
  <2>3. ToSet(s) = {step}
    BY <2>2
  <2>4. ClientScript(s) /\ Plain(s)
    BY <1>2, <2>2, <2>3 DEF ClientScript, InOrder, Plain, Rewriting, Preceded, SetsGit,
                            SigningSteps, RemovingSteps
  <2> QED BY <1>2, <2>2, <2>3, <2>4 DEF Opens, DialSteps
<1>3. ASSUME command = "restart" PROVE Opens(s, command)
  <2>1. s = <<"migrate", "kill", "wait", "start">>
    BY <1>3, Zenon DEF Commands, RestartCommand
  <2> HIDE DEF s
  <2>2. /\ s \in Seq(ClientSteps) /\ Len(s) = 4 /\ s # <<>> /\ Head(s) = "migrate"
        /\ s[1] = "migrate" /\ s[2] = "kill" /\ s[3] = "wait" /\ s[4] = "start"
    BY <2>1 DEF ClientSteps, DialSteps
  <2>3. ToSet(s) = {"migrate", "kill", "wait", "start"}
    BY <2>2
  <2>4. ClientScript(s) /\ Plain(s)
    BY <2>2, <2>3 DEF ClientScript, InOrder, Plain, Rewriting, Preceded, SetsGit, SigningSteps,
                      RemovingSteps
  <2>5. Daemonic(s)
    BY <2>2 DEF Daemonic
  <2> QED BY <2>2, <2>3, <2>4, <2>5 DEF Opens
<1>4. ASSUME command = "uninstall" PROVE Opens(s, command)
  <2>1. s = <<"clean", "kill", "wait", "remove", "codesigning">>
    BY <1>4, Zenon DEF Commands, UninstallCommand
  <2> HIDE DEF s
  <2>2. /\ s \in Seq(ClientSteps) /\ Len(s) = 5 /\ s # <<>> /\ Head(s) = "clean"
        /\ s[1] = "clean" /\ s[2] = "kill" /\ s[3] = "wait" /\ s[4] = "remove" /\ s[5] = "codesigning"
    BY <2>1 DEF ClientSteps, DialSteps, RemovingSteps
  <2>3. ToSet(s) = {"clean", "kill", "wait", "remove", "codesigning"}
    BY <2>2
  <2>4. ClientScript(s) /\ Plain(s)
    BY <2>2, <2>3 DEF ClientScript, InOrder, Plain, Rewriting, Preceded, SetsGit, SigningSteps,
                      RemovingSteps
  <2>5. Daemonic(s)
    BY <2>2 DEF Daemonic
  <2> QED BY <2>2, <2>3, <2>4, <2>5 DEF Opens
<1>5. ASSUME command = "codesign" PROVE Opens(s, command)
  <2>1. s = CodesignCommand
    BY <1>5, Zenon DEF Commands
  <2> HIDE DEF s
  <2>2. /\ s \in Seq(ClientSteps) /\ Len(s) = 5 /\ s # <<>> /\ Head(s) = "dial"
        /\ s[1] = "dial" /\ s[2] = "ping" /\ s[3] = "dial" /\ s[4] = "programKrgpg" /\ s[5] = "onboard"
    BY <2>1, CodesignSteps
  <2>3. ToSet(s) = {"dial", "ping", "programKrgpg", "onboard"}
    BY <2>2
  <2>4. ClientScript(s) /\ Plain(s)
    BY <2>2, <2>3 DEF ClientScript, InOrder, Plain, Rewriting, Preceded, SetsGit, SigningSteps,
                      RemovingSteps
  <2>5. Daemonic(s)
    BY <2>2 DEF Daemonic
  <2> QED BY <2>2, <2>3, <2>4, <2>5 DEF Opens
<1>6. command \in {"pair", "sshConfig", "sshConfigForce", "restart", "uninstall", "codesign",
                   "codesignOn", "codesignOff", "codesignUninstall"}
  BY DEF Commands
<1>8. ASSUME command = "sshConfig" PROVE Opens(s, command)
  <2>1. s = <<"edit">>
    BY <1>8, Zenon DEF Commands
  <2> HIDE DEF s
  <2> QED BY <1>2, <1>8, <2>1
<1>9. ASSUME command = "sshConfigForce" PROVE Opens(s, command)
  <2>1. s = <<"force">>
    BY <1>9, Zenon DEF Commands
  <2> HIDE DEF s
  <2> QED BY <1>2, <1>9, <2>1
<1>10. ASSUME command = "codesignOn" PROVE Opens(s, command)
  <2>1. s = <<"commitOn">>
    BY <1>10, Zenon DEF Commands
  <2> HIDE DEF s
  <2> QED BY <1>2, <1>10, <2>1
<1>11. ASSUME command = "codesignOff" PROVE Opens(s, command)
  <2>1. s = <<"commitOff">>
    BY <1>11, Zenon DEF Commands
  <2> HIDE DEF s
  <2> QED BY <1>2, <1>11, <2>1
<1>12. ASSUME command = "codesignUninstall" PROVE Opens(s, command)
  <2>1. s = <<"codesigning">>
    BY <1>12, Zenon DEF Commands
  <2> HIDE DEF s
  <2> QED BY <1>2, <1>12, <2>1
<1> HIDE DEF s
<1>13. Opens(s, command)
  BY <1>1, <1>3, <1>4, <1>5, <1>6, <1>8, <1>9, <1>10, <1>11, <1>12
<1> QED BY <1>13 DEF s

-----------------------------------------------------------------------------
(* The scripts of all processes stay what they are.                        *)
LEMMA FailedScript ==
  ASSUME NEW s, s = <<"failed">>
  PROVE  /\ ClientScript(s) /\ Plain(s) /\ Len(s) = 1 /\ s # <<>> /\ Head(s) = "failed"
         /\ ToSet(s) = {"failed"}
<1>1. s \in Seq(ClientSteps) /\ Len(s) = 1 /\ s[1] = "failed" /\ Head(s) = "failed" /\ s # <<>>
  BY DEF ClientSteps, DialSteps
<1>2. ToSet(s) = {"failed"}
  BY <1>1 DEF ToSet
<1>3. ClientScript(s) /\ Plain(s)
  BY <1>1, <1>2 DEF ClientScript, InOrder, Plain, Rewriting, Preceded, SetsGit, SigningSteps,
                    RemovingSteps
<1> QED BY <1>1, <1>2, <1>3

LEMMA Widen ==
  /\ \A s \in Seq(ClientSteps) : s \in Seq(AnyStep)
  /\ \A s \in Seq(KrdSteps) : s \in Seq(AnyStep)
<1>1. ClientSteps \subseteq AnyStep /\ KrdSteps \subseteq AnyStep
  BY DEF AnyStep
<1> QED BY <1>1, SeqDef

LEMMA ScriptClient ==
  ASSUME ScriptInv, NEW c \in Clients, NEW x, ClientScript(x),
         todo' = [todo EXCEPT ![c] = x], alive' = alive
  PROVE  ScriptInv' /\ todo'[c] = x /\ \A p \in Procs \ {c} : todo'[p] = todo[p]
<1>1. todo \in [Procs -> Seq(AnyStep)] /\ c \in Procs /\ c \notin Krds
  BY KrAssumption DEF ScriptInv, Procs
<1>2. x \in Seq(AnyStep)
  BY Widen DEF ClientScript
<1>3. todo' \in [Procs -> Seq(AnyStep)] /\ todo'[c] = x /\ \A p \in Procs \ {c} : todo'[p] = todo[p]
  BY <1>1, <1>2
<1>4. \A k \in Krds : todo'[k] = todo[k]
  BY <1>1, <1>3 DEF Procs
<1>5. \A d \in Clients : ClientScript(todo'[d])
  BY <1>3 DEF ScriptInv, Procs
<1> QED BY <1>3, <1>4, <1>5 DEF ScriptInv

LEMMA ScriptKrd ==
  ASSUME ScriptInv, NEW k \in Krds, NEW x, KrdScript(x),
         todo' = [todo EXCEPT ![k] = x], alive' \subseteq Krds,
         \A j \in Krds : j \in alive' <=> (IF j = k THEN x # <<>> ELSE j \in alive)
  PROVE  ScriptInv' /\ todo'[k] = x /\ \A p \in Procs \ {k} : todo'[p] = todo[p]
<1>1. todo \in [Procs -> Seq(AnyStep)] /\ k \in Procs /\ k \notin Clients
  BY KrAssumption DEF ScriptInv, Procs
<1>2. x \in Seq(AnyStep)
  BY Widen DEF KrdScript
<1>3. todo' \in [Procs -> Seq(AnyStep)] /\ todo'[k] = x /\ \A p \in Procs \ {k} : todo'[p] = todo[p]
  BY <1>1, <1>2
<1>4. \A c \in Clients : todo'[c] = todo[c]
  BY <1>1, <1>3 DEF Procs
<1>5. \A j \in Krds : KrdScript(todo'[j]) /\ (j \in alive' <=> todo'[j] # <<>>)
  BY <1>3 DEF ScriptInv, Procs
<1> QED BY <1>3, <1>4, <1>5 DEF ScriptInv

LEMMA ScriptFrame ==
  ASSUME ScriptInv, todo' = todo, alive' = alive
  PROVE  ScriptInv'
BY DEF ScriptInv

(* One step of one process, which may call a function.                     *)
Moves(p, steps) ==
    /\ todo' = [todo EXCEPT ![p] = After(steps, todo[p])]
    /\ todo'[p] = After(steps, todo[p]) /\ \A q \in Procs \ {p} : todo'[q] = todo[q]
    /\ ToSet(todo'[p]) = ToSet(steps) \cup ToSet(Tail(todo[p]))
    /\ ToSet(todo[p]) = {Head(todo[p])} \cup ToSet(Tail(todo[p]))
    /\ Len(todo'[p]) = Len(steps) + Len(todo[p]) - 1 /\ Len(steps) \in Nat

LEMMA ExpandAfter ==
  ASSUME NEW p, NEW steps, Expand(p, steps)
  PROVE  todo' = [todo EXCEPT ![p] = After(steps, todo[p])]
BY DEF Expand, After

LEMMA ClientMoves ==
  ASSUME ScriptInv, NEW c \in Clients, todo[c] # <<>>, NEW steps, Calls(Head(todo[c]), steps),
         Expand(c, steps), alive' = alive
  PROVE  ScriptInv' /\ Moves(c, steps) /\ steps \in Seq(ClientSteps)
<1>1. todo' = [todo EXCEPT ![c] = After(steps, todo[c])]
  BY ExpandAfter
<1>2. ClientScript(todo[c]) /\ todo[c] \in Seq(ClientSteps)
  BY DEF ScriptInv, ClientScript
<1>3. ClientScript(After(steps, todo[c])) /\ steps \in Seq(ClientSteps)
  BY <1>2, ClientExpands
<1>4. ScriptInv' /\ todo'[c] = After(steps, todo[c]) /\ \A p \in Procs \ {c} : todo'[p] = todo[p]
  BY <1>1, <1>3, ScriptClient
<1>5. ToSet(After(steps, todo[c])) = ToSet(steps) \cup ToSet(Tail(todo[c]))
  BY <1>2, <1>3, AfterMembers
<1>6. ToSet(todo[c]) = {Head(todo[c])} \cup ToSet(Tail(todo[c]))
  BY <1>2, HeadTail
<1>7. Len(After(steps, todo[c])) = Len(steps) + Len(todo[c]) - 1
  BY <1>2, <1>3, AfterElements
<1> QED BY <1>1, <1>3, <1>4, <1>5, <1>6, <1>7 DEF Moves

LEMMA KrdMoves ==
  ASSUME ScriptInv, NEW k \in Krds, todo[k] # <<>>, NEW steps, KrdCalls(Head(todo[k]), steps),
         Expand(k, steps),
         alive' = IF Head(todo[k]) \in {"up", "stop"} THEN alive \ {k} ELSE alive
  PROVE  ScriptInv' /\ Moves(k, steps) /\ steps \in Seq(KrdSteps)
<1>1. todo' = [todo EXCEPT ![k] = After(steps, todo[k])]
  BY ExpandAfter
<1>2. KrdScript(todo[k]) /\ todo[k] \in Seq(KrdSteps) /\ k \in alive /\ alive \subseteq Krds
  BY DEF ScriptInv, KrdScript
<1>3. /\ KrdScript(After(steps, todo[k])) /\ steps \in Seq(KrdSteps)
      /\ After(steps, todo[k]) # <<>> <=> Head(todo[k]) \notin {"up", "stop"}
  BY <1>2, KrdExpands
<1>4. ScriptInv' /\ todo'[k] = After(steps, todo[k]) /\ \A p \in Procs \ {k} : todo'[p] = todo[p]
  <2> DEFINE x == After(steps, todo[k])
  <2>1. KrdScript(x) /\ todo' = [todo EXCEPT ![k] = x]
    BY <1>1, <1>3
  <2>2. \A j \in Krds : j \in alive' <=> (IF j = k THEN x # <<>> ELSE j \in alive)
    BY <1>2, <1>3
  <2>3. alive' \subseteq Krds
    BY <1>2
  <2> HIDE DEF x
  <2>4. ScriptInv' /\ todo'[k] = x /\ \A p \in Procs \ {k} : todo'[p] = todo[p]
    BY <2>1, <2>2, <2>3, ScriptKrd
  <2> QED BY <2>4 DEF x
<1>5. ToSet(After(steps, todo[k])) = ToSet(steps) \cup ToSet(Tail(todo[k]))
  BY <1>2, <1>3, AfterMembers
<1>6. ToSet(todo[k]) = {Head(todo[k])} \cup ToSet(Tail(todo[k]))
  BY <1>2, HeadTail
<1>7. Len(After(steps, todo[k])) = Len(steps) + Len(todo[k]) - 1
  BY <1>2, <1>3, AfterElements
<1> QED BY <1>1, <1>3, <1>4, <1>5, <1>6, <1>7 DEF Moves

LEMMA HeadOf ==
  ASSUME ScriptInv
  PROVE  /\ \A c \in Clients : todo[c] # <<>> => Head(todo[c]) \in ClientSteps
         /\ \A k \in Krds : todo[k] # <<>> => Head(todo[k]) \in KrdSteps
         /\ \A p \in Procs : todo[p] # <<>> => Head(todo[p]) \in ToSet(todo[p])
         /\ \A p \in Procs : todo[p] \in Seq(AnyStep) /\ Len(todo[p]) \in Nat
<1>1. ASSUME NEW c \in Clients, todo[c] # <<>> PROVE Head(todo[c]) \in ClientSteps
  <2>1. todo[c] \in Seq(ClientSteps)
    BY DEF ScriptInv, ClientScript
  <2> QED BY <1>1, <2>1, HeadTail
<1>2. ASSUME NEW k \in Krds, todo[k] # <<>> PROVE Head(todo[k]) \in KrdSteps
  <2>1. todo[k] \in Seq(KrdSteps)
    BY DEF ScriptInv, KrdScript
  <2> QED BY <1>2, <2>1, HeadTail
<1>3. ASSUME NEW p \in Procs PROVE todo[p] \in Seq(AnyStep) /\ Len(todo[p]) \in Nat
  BY DEF ScriptInv
<1>4. ASSUME NEW p \in Procs, todo[p] # <<>> PROVE Head(todo[p]) \in ToSet(todo[p])
  <2>1. ToSet(todo[p]) = {Head(todo[p])} \cup ToSet(Tail(todo[p]))
    BY <1>3, <1>4, HeadTail
  <2> QED BY <2>1
<1> QED BY <1>1, <1>2, <1>3, <1>4

LEMMA NothingCalled == \A step : Calls(step, <<>>) /\ KrdCalls(step, <<>>)
<1>1. ASSUME NEW steps, steps = <<>>, NEW step PROVE Calls(step, steps) /\ KrdCalls(step, steps)
  BY <1>1, Zenon DEF Calls, KrdCalls
<1> QED BY <1>1

(* What an edit of the file calls.                                         *)
EditKind(step, steps) ==
    \/ step \in {"edit", "force", "migrate", "clean"} /\ steps \in Rewrites
    \/ step = "upgrade" /\ steps = <<"truncate", "write">>

LEMMA EditorIs == \A p \in Editors : p \in Procs /\ (p = Kr \/ p \in Krds) /\ Kr \notin Krds
BY KrAssumption DEF Procs

LEMMA ReadsMoves ==
  ASSUME ScriptInv, alive' = alive, NEW p \in Editors, NEW writes \in BOOLEAN, NEW new, NEW steps,
         Reads(p, writes, new, steps), todo[p] # <<>>, EditKind(Head(todo[p]), steps)
  PROVE  ScriptInv' /\ Moves(p, IF writes THEN steps ELSE <<>>)
<1> DEFINE x == IF writes THEN steps ELSE <<>>
<1>1. Expand(p, x)
  BY DEF Reads
<1>2. p = Kr => Calls(Head(todo[p]), x)
  <2>1. p = Kr => Head(todo[p]) # "upgrade"
    BY HeadOf, KrAssumption DEF ClientSteps, DialSteps, SigningSteps, RemovingSteps, Rewriting
  <2> QED BY <2>1 DEF EditKind, Calls
<1>3. p \in Krds => KrdCalls(Head(todo[p]), x) /\ Head(todo[p]) \notin {"up", "stop"}
  <2>1. p \in Krds => Head(todo[p]) \notin {"edit", "force", "migrate", "clean"}
    BY HeadOf DEF KrdSteps
  <2>2. Head(todo[p]) \notin {"up", "stop"}
    BY DEF EditKind
  <2>3. CASE ~writes
    <3>1. x = <<>>
      BY <2>3
    <3> HIDE DEF x
    <3> QED BY <2>2, <3>1, NothingCalled
  <2>4. CASE writes
    <3>1. x = steps
      BY <2>4
    <3> HIDE DEF x
    <3> QED BY <2>1, <2>2, <3>1, Zenon DEF EditKind, KrdCalls
  <2> QED BY <2>3, <2>4
<1> HIDE DEF x
<1>4. CASE p = Kr
  BY <1>1, <1>2, <1>4, ClientMoves, KrAssumption DEF x
<1>5. CASE p \in Krds
  BY <1>1, <1>3, <1>5, KrdMoves DEF x
<1> QED BY <1>4, <1>5, EditorIs

LEMMA EditDone ==
  ASSUME ScriptInv, alive' = alive, NEW p \in Editors, Done(p), todo[p] # <<>>,
         Head(todo[p]) \in {"edit", "force"} \cup Rewriting
  PROVE  ScriptInv' /\ Moves(p, <<>>)
<1>1. Expand(p, <<>>) /\ Head(todo[p]) \notin {"up", "stop"}
  BY DEF Done, Rewriting
<1>2. CASE p = Kr
  BY <1>1, <1>2, ClientMoves, KrAssumption DEF Calls
<1>3. CASE p \in Krds
  <2>1. KrdCalls(Head(todo[p]), <<>>)
    BY NothingCalled
  <2>2. alive' = IF Head(todo[p]) \in {"up", "stop"} THEN alive \ {p} ELSE alive
    BY <1>1
  <2> QED BY <1>1, <1>3, <2>1, <2>2, KrdMoves
<1> QED BY <1>2, <1>3, EditorIs

(* An edit reads the file, or takes the next step of a rewrite.            *)
LEMMA EditKinds ==
  ASSUME NEW p, EditStep(p)
  PROVE  /\ todo[p] # <<>>
         /\ \/ \E writes \in BOOLEAN : \E new, steps :
                  Reads(p, writes, new, steps) /\ EditKind(Head(todo[p]), steps)
            \/ Done(p) /\ Head(todo[p]) \in {"edit", "force"} \cup Rewriting
<1>1. ASSUME NEW f \in BOOLEAN, EditSSHConfig(p, f)
      PROVE  /\ todo[p] # <<>>
             /\ \E writes \in BOOLEAN : \E new, steps :
                  Reads(p, writes, new, steps) /\ EditKind(Head(todo[p]), steps)
  <2> DEFINE b == KrSSHConfigBlock
             others == \E i \in DOMAIN config : config[i] \in Blocks
             w == ~Contains(config, b) /\ (others => f)
             steps == IF config = <<>> THEN <<"truncate", "write">>
                                       ELSE <<"backup", "truncate", "write">>
  <2>1. Reads(p, w, Append(config, b), steps) /\ At(p, IF f THEN "force" ELSE "edit")
    BY <1>1, Zenon DEF EditSSHConfig
  <2>2. steps \in Rewrites
    BY DEF Rewrites
  <2>3. todo[p] # <<>> /\ Head(todo[p]) \in {"edit", "force"}
    BY <2>1 DEF At
  <2>4. w \in BOOLEAN
    OBVIOUS
  <2> HIDE DEF w, steps, b
  <2>5. EditKind(Head(todo[p]), steps)
    BY <2>2, <2>3 DEF EditKind
  <2> QED BY <2>1, <2>3, <2>4, <2>5, Zenon
<1>2. ASSUME EditDeclined(p) \/ WriteFile(p)
      PROVE  todo[p] # <<>> /\ Done(p) /\ Head(todo[p]) \in {"edit", "force"} \cup Rewriting
  BY <1>2 DEF EditDeclined, WriteFile, At, Rewriting
<1>3. ASSUME MigrateSSHConfig(p)
      PROVE  /\ todo[p] # <<>>
             /\ \E writes \in BOOLEAN : \E new, steps :
                  Reads(p, writes, new, steps) /\ EditKind(Head(todo[p]), steps)
  <2> DEFINE w == SupportsIdentityAgent(sshVersion) /\ Migrated(config) # config
             steps == <<"truncate", "write">>
  <2>1. Reads(p, w, Migrated(config), steps) /\ At(p, "migrate")
    BY <1>3, Zenon DEF MigrateSSHConfig
  <2>2. steps \in Rewrites
    BY DEF Rewrites
  <2>3. todo[p] # <<>> /\ Head(todo[p]) = "migrate"
    BY <2>1 DEF At
  <2>4. w \in BOOLEAN
    BY DEF SupportsIdentityAgent
  <2> HIDE DEF w, steps
  <2>5. EditKind(Head(todo[p]), steps)
    BY <2>2, <2>3 DEF EditKind
  <2> QED BY <2>1, <2>3, <2>4, <2>5, Zenon
<1>4. ASSUME CleanSSHConfig(p)
      PROVE  /\ todo[p] # <<>>
             /\ \E writes \in BOOLEAN : \E new, steps :
                  Reads(p, writes, new, steps) /\ EditKind(Head(todo[p]), steps)
  <2> DEFINE n == Only(config, Parts \ {KrSSHConfigBlock})
             steps == IF config = <<>> THEN <<"truncate", "write">>
                                       ELSE <<"backupUninstall", "truncate", "write">>
  <2>1. Reads(p, TRUE, n, steps) /\ At(p, "clean")
    BY <1>4, Zenon DEF CleanSSHConfig
  <2>2. steps \in Rewrites
    BY DEF Rewrites
  <2>3. todo[p] # <<>> /\ Head(todo[p]) = "clean"
    BY <2>1 DEF At
  <2> HIDE DEF n, steps
  <2>5. EditKind(Head(todo[p]), steps)
    BY <2>2, <2>3 DEF EditKind
  <2> QED BY <2>1, <2>3, <2>5, Zenon
<1>5. ASSUME UpgradeSSHConfig(p)
      PROVE  /\ todo[p] # <<>>
             /\ \E writes \in BOOLEAN : \E new, steps :
                  Reads(p, writes, new, steps) /\ EditKind(Head(todo[p]), steps)
  <2> DEFINE w == ReplaceKryptoniteWithKrypton(config) # config
             steps == <<"truncate", "write">>
  <2>1. Reads(p, w, ReplaceKryptoniteWithKrypton(config), steps) /\ At(p, "upgrade")
    BY <1>5, Zenon DEF UpgradeSSHConfig
  <2>3. todo[p] # <<>> /\ Head(todo[p]) = "upgrade"
    BY <2>1 DEF At
  <2>4. w \in BOOLEAN
    OBVIOUS
  <2>5. EditKind(Head(todo[p]), steps)
    BY <2>3 DEF EditKind
  <2> HIDE DEF w, steps
  <2> QED BY <2>1, <2>3, <2>4, <2>5, Zenon
<1> QED BY <1>1, <1>2, <1>3, <1>4, <1>5 DEF EditStep

LEMMA EditCalls ==
  ASSUME ScriptInv, alive' = alive, NEW p \in Editors, EditStep(p)
  PROVE  /\ ScriptInv' /\ todo[p] # <<>>
         /\ Head(todo[p]) \in {"edit", "force", "migrate", "clean", "upgrade"} \cup Rewriting
         /\ \E steps : /\ Moves(p, steps)
                       /\ p = Kr => Calls(Head(todo[p]), steps)
                       /\ "stop" \notin ToSet(steps)
<1>0. /\ todo[p] # <<>>
      /\ Head(todo[p]) \in {"edit", "force", "migrate", "clean", "upgrade"} \cup Rewriting
  BY EditKinds DEF EditKind
<1>1. CASE Done(p) /\ Head(todo[p]) \in {"edit", "force"} \cup Rewriting
  <2>1. ScriptInv' /\ Moves(p, <<>>)
    BY <1>0, <1>1, EditDone
  <2> QED BY <1>0, <2>1, NothingCalled, EmptyScript
<1>2. ASSUME NEW writes \in BOOLEAN, NEW new, NEW steps, Reads(p, writes, new, steps),
             EditKind(Head(todo[p]), steps)
      PROVE  /\ ScriptInv'
             /\ \E x : /\ Moves(p, x)
                       /\ p = Kr => Calls(Head(todo[p]), x)
                       /\ "stop" \notin ToSet(x)
  <2> DEFINE x == IF writes THEN steps ELSE <<>>
  <2>1. ScriptInv' /\ Moves(p, x)
    BY <1>0, <1>2, ReadsMoves
  <2>2. p = Kr => Calls(Head(todo[p]), x)
    <3>1. p = Kr => Head(todo[p]) # "upgrade"
      BY <1>0, HeadOf, KrAssumption DEF ClientSteps, DialSteps, SigningSteps, RemovingSteps, Rewriting
    <3> QED BY <1>2, <3>1 DEF EditKind, Calls
  <2>3. "stop" \notin ToSet(x)
    <3>1. CASE ~writes
      <4>1. x = <<>>
        BY <3>1
      <4> HIDE DEF x
      <4> QED BY <4>1, EmptyScript
    <3>2. CASE writes
      <4>1. x \in Rewrites
        BY <1>2, <3>2 DEF EditKind, Rewrites
      <4> HIDE DEF x
      <4> QED BY <4>1 DEF Rewrites, ToSet
    <3> QED BY <3>1, <3>2
  <2> HIDE DEF x
  <2> QED BY <2>1, <2>2, <2>3
<1> QED BY <1>0, <1>1, <1>2, EditKinds

LEMMA StartMoves ==
  ASSUME ScriptInv, NEW c \in Clients, NEW k \in Krds, StartKrd(c, k)
  PROVE  /\ ScriptInv' /\ todo'[c] = Tail(todo[c]) /\ todo'[k] = Main
         /\ \A p \in Procs \ {c, k} : todo'[p] = todo[p]
<1>1. todo \in [Procs -> Seq(AnyStep)] /\ c \in Procs /\ k \in Procs /\ c # k
  BY KrAssumption DEF ScriptInv, Procs
<1>2. ClientScript(todo[c]) /\ todo[c] # <<>> /\ todo[c] \in Seq(ClientSteps)
  BY DEF StartKrd, At, ScriptInv, ClientScript
<1>3. ClientScript(Tail(todo[c])) /\ Tail(todo[c]) \in Seq(AnyStep)
  <2>1. ClientScript(After(<<>>, todo[c]))
    BY <1>2, NothingCalled, ClientExpands
  <2>2. After(<<>>, todo[c]) = Tail(todo[c])
    BY <1>2, AfterNothing
  <2> QED BY <2>1, <2>2, Widen DEF ClientScript
<1>4. KrdScript(Main) /\ Main # <<>> /\ Main \in Seq(AnyStep)
  BY MainScript, Widen DEF KrdScript
<1>5. /\ todo' = [todo EXCEPT ![c] = Tail(@), ![k] = Main] /\ alive' = alive \cup {k}
  BY DEF StartKrd
<1>6. /\ todo' \in [Procs -> Seq(AnyStep)] /\ todo'[c] = Tail(todo[c]) /\ todo'[k] = Main
      /\ \A p \in Procs \ {c, k} : todo'[p] = todo[p]
  BY <1>1, <1>3, <1>4, <1>5
<1>7. \A j \in Krds : KrdScript(todo'[j]) /\ (j \in alive' <=> todo'[j] # <<>>)
  <2> SUFFICES ASSUME NEW j \in Krds PROVE KrdScript(todo'[j]) /\ (j \in alive' <=> todo'[j] # <<>>)
    OBVIOUS
  <2>1. CASE j = k
    BY <1>4, <1>5, <1>6, <2>1
  <2>2. CASE j # k
    BY <1>5, <1>6, <2>2, KrAssumption DEF ScriptInv, Procs
  <2> QED BY <2>1, <2>2
<1>8. \A d \in Clients : ClientScript(todo'[d])
  <2> SUFFICES ASSUME NEW d \in Clients PROVE ClientScript(todo'[d])
    OBVIOUS
  <2>1. CASE d = c
    BY <1>3, <1>6, <2>1
  <2>2. CASE d # c
    BY <1>6, <2>2, KrAssumption DEF ScriptInv, Procs
  <2> QED BY <2>1, <2>2
<1> QED BY <1>5, <1>6, <1>7, <1>8 DEF ScriptInv

LEMMA KillMoves ==
  ASSUME ScriptInv, NEW c \in Clients, KillKrd(c)
  PROVE  /\ ScriptInv' /\ todo'[c] = Tail(todo[c])
         /\ \A d \in Clients \ {c} : todo'[d] = todo[d]
         /\ \A k \in alive' : todo'[k] = <<"stop">> /\ k \in alive
         /\ \A k \in Krds \ alive' : todo'[k] = <<>>
<1> DEFINE dead == {k \in alive : ~At(k, "up") /\ ~At(k, "stop")}
<1>1. todo \in [Procs -> Seq(AnyStep)] /\ c \in Procs /\ c \notin alive /\ c \notin dead
  BY KrAssumption DEF ScriptInv, Procs
<1>2. ClientScript(todo[c]) /\ todo[c] # <<>> /\ todo[c] \in Seq(ClientSteps)
  BY DEF KillKrd, At, ScriptInv, ClientScript
<1>3. ClientScript(Tail(todo[c])) /\ Tail(todo[c]) \in Seq(AnyStep)
  <2>1. ClientScript(After(<<>>, todo[c]))
    BY <1>2, NothingCalled, ClientExpands
  <2>2. After(<<>>, todo[c]) = Tail(todo[c])
    BY <1>2, AfterNothing
  <2> QED BY <2>1, <2>2, Widen DEF ClientScript
<1>4. PICK x, y : x = <<"stop">> /\ y = <<>>
  OBVIOUS
<1>5. /\ KrdScript(x) /\ x # <<>> /\ x \in Seq(AnyStep) /\ KrdScript(y) /\ y \in Seq(AnyStep)
  BY <1>4, MainScript, EmptyScript, Widen DEF KrdScript
<1>6. todo' = [p \in Procs |-> IF p = c THEN Tail(todo[c])
                               ELSE IF p \in dead THEN y ELSE IF p \in alive THEN x ELSE todo[p]]
  <2>1. todo' = [p \in DOMAIN todo |-> IF p = c THEN Tail(todo[c])
                               ELSE IF p \in dead THEN y ELSE IF p \in alive THEN x ELSE todo[p]]
    BY <1>4, Zenon DEF KillKrd
  <2>2. DOMAIN todo = Procs
    BY <1>1
  <2> QED BY <2>1, <2>2
<1>7. alive' = alive \ dead /\ alive \subseteq Krds /\ dead \subseteq alive
  BY DEF KillKrd, ScriptInv
<1> HIDE DEF dead
<1>8. todo' \in [Procs -> Seq(AnyStep)]
  BY <1>1, <1>3, <1>5, <1>6
<1>9. todo'[c] = Tail(todo[c])
  BY <1>1, <1>6
<1>10. \A k \in alive' : k \in Krds /\ todo'[k] = x /\ k \in alive
  BY <1>1, <1>6, <1>7, KrAssumption DEF Procs
<1>11. \A k \in Krds \ alive' : todo'[k] = y
  <2> SUFFICES ASSUME NEW k \in Krds \ alive' PROVE todo'[k] = y
    OBVIOUS
  <2>1. k \in Procs /\ k # c
    BY KrAssumption DEF Procs
  <2>2. CASE k \in dead
    BY <1>6, <2>1, <2>2
  <2>3. CASE k \notin dead
    <3>1. k \notin alive
      BY <1>7, <2>3
    <3>2. todo[k] = <<>>
      BY <3>1 DEF ScriptInv
    <3>3. todo'[k] = todo[k]
      BY <1>6, <2>1, <2>3, <3>1
    <3> QED BY <1>4, <3>2, <3>3
  <2> QED BY <2>2, <2>3
<1>12. \A d \in Clients \ {c} : todo'[d] = todo[d]
  <2> SUFFICES ASSUME NEW d \in Clients \ {c} PROVE todo'[d] = todo[d]
    OBVIOUS
  <2>1. d \in Procs /\ d \notin alive /\ d \notin dead
    BY <1>7, KrAssumption DEF Procs
  <2> QED BY <1>6, <2>1
<1>13. \A k \in Krds : KrdScript(todo'[k]) /\ (k \in alive' <=> todo'[k] # <<>>)
  BY <1>4, <1>5, <1>10, <1>11
<1>14. \A d \in Clients : ClientScript(todo'[d])
  BY <1>3, <1>9, <1>12 DEF ScriptInv
<1>15. ScriptInv'
  BY <1>7, <1>8, <1>13, <1>14 DEF ScriptInv
<1> QED BY <1>4, <1>9, <1>10, <1>11, <1>12, <1>15

(* The steps of a client that leave krd alone.                             *)
LEMMA EnsureCalls ==
  ASSUME ScriptInv, NEW c \in Clients,
         EnsureRunning(c, "ensure", <<>>) \/ DaemonDial(c)
  PROVE  /\ ScriptInv' /\ UNCHANGED daemonVars /\ todo[c] # <<>>
         /\ \E steps : /\ Moves(c, steps) /\ Calls(Head(todo[c]), steps)
                       /\ (At(c, "ensure") \/ At(c, "dial"))
                       /\ alive # {} => steps = IF At(c, "ensure") THEN <<>> ELSE <<"connect">>
                       /\ alive = {} => steps = IF At(c, "ensure") THEN <<"start", "wait">>
                                                ELSE <<"start", "wait", "connect">>
<1>1. alive' = alive /\ UNCHANGED daemonVars
  BY DEF EnsureRunning, DaemonDial, daemonVars
<1>2. CASE EnsureRunning(c, "ensure", <<>>)
  <2> DEFINE steps == IF alive # {} THEN <<>> ELSE <<"start", "wait">>
  <2>1. Expand(c, IF alive # {} THEN <<>> ELSE <<"start", "wait">> \o <<>>) /\ At(c, "ensure")
    BY <1>2, Zenon DEF EnsureRunning, IsKrdRunning
  <2>2. <<"start", "wait">> \o <<>> = <<"start", "wait">>
    <3>1. <<"start", "wait">> \in Seq({"start", "wait"})
      OBVIOUS
    <3> QED BY <3>1, ConcatEmptySeq, Zenon
  <2>3. Expand(c, steps)
    BY <2>1, <2>2, Zenon
  <2>4. todo[c] # <<>> /\ Head(todo[c]) = "ensure"
    BY <2>1 DEF At
  <2>5. Calls(Head(todo[c]), steps)
    BY <2>4 DEF Calls
  <2>6. /\ alive # {} => steps = IF At(c, "ensure") THEN <<>> ELSE <<"connect">>
        /\ alive = {} => steps = IF At(c, "ensure") THEN <<"start", "wait">>
                                                ELSE <<"start", "wait", "connect">>
    BY <2>1, Zenon
  <2> HIDE DEF steps
  <2>7. ScriptInv' /\ Moves(c, steps)
    BY <1>1, <2>3, <2>4, <2>5, ClientMoves
  <2> QED BY <1>1, <2>1, <2>4, <2>5, <2>6, <2>7, Zenon
<1>3. CASE DaemonDial(c)
  <2> DEFINE steps == IF alive # {} THEN <<"connect">> ELSE <<"start", "wait", "connect">>
  <2>1. Expand(c, IF alive # {} THEN <<"connect">> ELSE <<"start", "wait">> \o <<"connect">>) /\ At(c, "dial")
    BY <1>3, Zenon DEF EnsureRunning, IsKrdRunning, DaemonDial
  <2>2. <<"start", "wait">> \o <<"connect">> = <<"start", "wait", "connect">>
    <3>1. PICK x, y, z : x = <<"start", "wait">> /\ y = <<"connect">> /\ z = <<"start", "wait", "connect">>
      OBVIOUS
    <3>2. x \in Seq(ClientSteps) /\ y \in Seq(ClientSteps) /\ z \in Seq(ClientSteps)
      BY <3>1 DEF ClientSteps, DialSteps
    <3>3. PICK w : w = x \o y
      OBVIOUS
    <3>4. Len(w) = 3 /\ w[1] = "start" /\ w[2] = "wait" /\ w[3] = "connect"
      BY <3>1, <3>3
    <3>5. w \in Seq(ClientSteps)
      BY <3>2, <3>3, ConcatProperties, Zenon
    <3>6. Len(z) = 3 /\ z[1] = "start" /\ z[2] = "wait" /\ z[3] = "connect"
      BY <3>1
    <3>7. \A i \in 1..Len(w) : w[i] = z[i]
      BY <3>4, <3>6
    <3>8. w = z
      BY <3>2, <3>4, <3>5, <3>6, <3>7, SeqEqual
    <3> QED BY <3>1, <3>3, <3>8, Zenon
  <2>3. Expand(c, steps)
    BY <2>1, <2>2, Zenon
  <2>4. todo[c] # <<>> /\ Head(todo[c]) = "dial"
    BY <2>1 DEF At
  <2>5. Calls(Head(todo[c]), steps)
    BY <2>4 DEF Calls
  <2>6. /\ alive # {} => steps = IF At(c, "ensure") THEN <<>> ELSE <<"connect">>
        /\ alive = {} => steps = IF At(c, "ensure") THEN <<"start", "wait">>
                                                ELSE <<"start", "wait", "connect">>
    <3>1. ~At(c, "ensure")
      BY <2>4 DEF At
    <3> QED BY <3>1, Zenon
  <2> HIDE DEF steps
  <2>7. ScriptInv' /\ Moves(c, steps)
    BY <1>1, <2>3, <2>4, <2>5, ClientMoves
  <2> QED BY <1>1, <2>1, <2>4, <2>5, <2>6, <2>7, Zenon
<1> QED BY <1>2, <1>3

(* The script of c is replaced by an error message.                        *)
Fails(c) ==
    /\ todo' = [todo EXCEPT ![c] = <<"failed">>]
    /\ todo'[c] = <<"failed">> /\ \A p \in Procs \ {c} : todo'[p] = todo[p]

LEMMA FailsScript ==
  ASSUME ScriptInv, NEW c \in Clients, alive' = alive, todo' = [todo EXCEPT ![c] = <<"failed">>]
  PROVE  ScriptInv' /\ Fails(c)
<1>1. PICK x : x = <<"failed">>
  OBVIOUS
<1>2. ClientScript(x) /\ todo' = [todo EXCEPT ![c] = x]
  BY <1>1, FailedScript
<1>3. ScriptInv' /\ todo'[c] = x /\ \A p \in Procs \ {c} : todo'[p] = todo[p]
  BY <1>2, ScriptClient
<1> QED BY <1>1, <1>3 DEF Fails

LEMMA ConnectCalls ==
  ASSUME ScriptInv, NEW c \in Clients, NEW s, Connect(c, s)
  PROVE  /\ ScriptInv' /\ UNCHANGED daemonVars /\ todo[c] # <<>>
         /\ \/ /\ At(c, "connect") \/ At(c, "reconnect")
               /\ sock[s] \in alive /\ Moves(c, <<>>)
            \/ At(c, "connect") /\ sock[s] \notin alive
               /\ Moves(c, <<"kill", "wait", "start", "wait", "reconnect">>)
            \/ At(c, "reconnect") /\ sock[s] \notin alive /\ Fails(c)
<1>1. alive' = alive /\ UNCHANGED daemonVars
  BY DEF Connect, daemonVars
<1> DEFINE steps == <<"kill", "wait", "start", "wait", "reconnect">>
<1>2. CASE (At(c, "connect") \/ At(c, "reconnect")) /\ sock[s] \in alive /\ Expand(c, <<>>)
  <2>1. todo[c] # <<>>
    BY <1>2 DEF At
  <2>2. ScriptInv' /\ Moves(c, <<>>)
    BY <1>1, <1>2, <2>1, NothingCalled, ClientMoves
  <2> QED BY <1>1, <1>2, <2>1, <2>2
<1>3. CASE At(c, "connect") /\ sock[s] \notin alive /\ Expand(c, steps)
  <2>1. todo[c] # <<>> /\ Head(todo[c]) = "connect"
    BY <1>3 DEF At
  <2>2. Calls(Head(todo[c]), steps)
    BY <2>1 DEF Calls
  <2> HIDE DEF steps
  <2>3. ScriptInv' /\ Moves(c, steps)
    BY <1>1, <1>3, <2>1, <2>2, ClientMoves
  <2> QED BY <1>1, <1>3, <2>1, <2>3 DEF steps
<1>4. CASE At(c, "reconnect") /\ sock[s] \notin alive /\ todo' = [todo EXCEPT ![c] = <<"failed">>]
  <2>1. todo[c] # <<>>
    BY <1>4 DEF At
  <2> QED BY <1>1, <1>4, <2>1, FailsScript
<1> QED BY <1>2, <1>3, <1>4, Zenon DEF Connect, Done

LEMMA PingCalls ==
  ASSUME ScriptInv, NEW c \in Clients, NEW s, Ping(c, s)
  PROVE  /\ ScriptInv' /\ UNCHANGED daemonVars /\ todo[c] # <<>> /\ At(c, "ping")
         /\ \/ Moves(c, <<>>)
            \/ ~(sock[s] \in alive /\ At(sock[s], "up")) /\ Fails(c)
<1>1. alive' = alive /\ UNCHANGED daemonVars /\ At(c, "ping") /\ todo[c] # <<>>
  BY DEF Ping, daemonVars, At
<1>2. CASE Done(c)
  <2>1. Expand(c, <<>>)
    BY <1>2 DEF Done
  <2> QED BY <1>1, <2>1, NothingCalled, ClientMoves
<1>3. CASE ~(sock[s] \in alive /\ At(sock[s], "up")) /\ todo' = [todo EXCEPT ![c] = <<"failed">>]
  BY <1>1, <1>3, FailsScript
<1> QED BY <1>2, <1>3, Zenon DEF Ping

LEMMA WaitCalls ==
  ASSUME ScriptInv, NEW c \in Clients, Wait(c)
  PROVE  ScriptInv' /\ Moves(c, <<>>)
<1>1. todo[c] # <<>> /\ Expand(c, <<>>) /\ alive' = alive
  BY DEF Wait, At, Done
<1> QED BY <1>1, NothingCalled, ClientMoves

LEMMA KrdEnds ==
  ASSUME ScriptInv, NEW k \in Krds, alive' = alive \ {k}, todo' = [todo EXCEPT ![k] = <<>>]
  PROVE  ScriptInv' /\ todo'[k] = <<>> /\ \A p \in Procs \ {k} : todo'[p] = todo[p]
<1>1. PICK x : x = <<>>
  OBVIOUS
<1>2. KrdScript(x) /\ todo' = [todo EXCEPT ![k] = x] /\ alive \subseteq Krds
  BY <1>1, EmptyScript DEF ScriptInv
<1>3. ScriptInv' /\ todo'[k] = x /\ \A p \in Procs \ {k} : todo'[p] = todo[p]
  BY <1>1, <1>2, ScriptKrd
<1> QED BY <1>1, <1>3

LEMMA ListenCalls ==
  ASSUME ScriptInv, NEW k \in Krds, NEW s \in Sockets, Listen(k, s)
  PROVE  ScriptInv' /\ Moves(k, <<>>) /\ todo[k] # <<>> /\ Head(todo[k]) = s
<1>1. todo[k] # <<>> /\ Expand(k, <<>>) /\ alive' = alive /\ Head(todo[k]) = s
  BY DEF Listen, At, Done
<1>2. alive' = IF Head(todo[k]) \in {"up", "stop"} THEN alive \ {k} ELSE alive
  BY <1>1 DEF Sockets
<1> QED BY <1>1, <1>2, NothingCalled, KrdMoves

LEMMA ExitCalls ==
  ASSUME ScriptInv, NEW k \in Krds, Exit(k)
  PROVE  ScriptInv' /\ Moves(k, <<>>) /\ todo'[k] = <<>>
<1>1. todo[k] # <<>> /\ Expand(k, <<>>) /\ alive' = alive \ {k} /\ Head(todo[k]) = "stop"
  BY DEF Exit, At, Done
<1>2. ScriptInv' /\ Moves(k, <<>>)
  BY <1>1, NothingCalled, KrdMoves
<1>3. todo'[k] = <<>>
  BY <1>1, <1>2 DEF ScriptInv
<1> QED BY <1>2, <1>3

LEMMA BeginMoves ==
  ASSUME ScriptInv, NEW c \in Clients, NEW s, NEW command, Opens(s, command), Begin(c, s)
  PROVE  ScriptInv' /\ todo'[c] = s /\ \A p \in Procs \ {c} : todo'[p] = todo[p]
BY ScriptClient DEF Begin, Opens

LEMMA GitCalls ==
  ASSUME ScriptInv, GitStep(Kr), UNCHANGED daemonVars
  PROVE  /\ ScriptInv' /\ todo[Kr] # <<>>
         /\ \E steps : Moves(Kr, steps) /\ Expand(Kr, steps) /\ Calls(Head(todo[Kr]), steps)
<1>1. alive' = alive /\ Kr \in Clients
  BY KrAssumption DEF daemonVars
<1>2. /\ todo[Kr] # <<>> 
      /\ \E steps : Expand(Kr, steps) /\ Calls(Head(todo[Kr]), steps)
  <2>1. CASE SetGitConfig(Kr)
    <3>1. Expand(Kr, <<>>) /\ todo[Kr] # <<>>
      BY <2>1 DEF SetGitConfig, At, Done
    <3> QED BY <3>1, NothingCalled
  <2>2. CASE OnboardAutoCommitSign(Kr)
    <3> DEFINE steps == <<"commitOn", "tagOn">>
    <3>1. (Expand(Kr, <<>>) \/ Expand(Kr, steps)) /\ todo[Kr] # <<>> /\ Head(todo[Kr]) = "onboard"
      BY <2>2, Zenon DEF OnboardAutoCommitSign, At, Done
    <3>2. Calls(Head(todo[Kr]), steps)
      BY <3>1 DEF Calls
    <3> HIDE DEF steps
    <3> QED BY <3>1, <3>2, NothingCalled
  <2>3. CASE UninstallCodesigning(Kr)
    <3> DEFINE steps == <<"programUnset", "commitOff", "tagOff">>
    <3>1. (Expand(Kr, <<>>) \/ Expand(Kr, steps)) /\ todo[Kr] # <<>> /\ Head(todo[Kr]) = "codesigning"
      BY <2>3, Zenon DEF UninstallCodesigning, At
    <3>2. Calls(Head(todo[Kr]), steps)
      BY <3>1 DEF Calls
    <3> HIDE DEF steps
    <3> QED BY <3>1, <3>2, NothingCalled
  <2>4. CASE RemovePackage(Kr)
    <3>1. Expand(Kr, <<>>) /\ todo[Kr] # <<>>
      BY <2>4 DEF RemovePackage, At, Done
    <3> QED BY <3>1, NothingCalled
  <2> QED BY <2>1, <2>2, <2>3, <2>4 DEF GitStep
<1> QED BY <1>1, <1>2, ClientMoves

LEMMA ScriptInit == Init => ScriptInv
<1> SUFFICES ASSUME Init PROVE ScriptInv
  OBVIOUS
<1>1. PICK x : x = <<>>
  OBVIOUS
<1>2. todo = [p \in Procs |-> x] /\ alive = {}
  BY <1>1 DEF Init, DaemonInit
<1>3. x \in Seq(AnyStep) /\ KrdScript(x) /\ ClientScript(x)
  BY <1>1, EmptyScript, Widen
<1>4. \A p \in Procs : todo[p] = x
  BY <1>2
<1>5. todo \in [Procs -> Seq(AnyStep)]
  BY <1>2, <1>3
<1> QED BY <1>1, <1>2, <1>3, <1>4, <1>5 DEF ScriptInv, Procs

LEMMA ScriptStep == ScriptInv /\ [Next]_vars => ScriptInv'
<1> SUFFICES ASSUME ScriptInv, [Next]_vars PROVE ScriptInv'
  OBVIOUS
<1>1. ASSUME NEW command \in DOMAIN Commands, RunKr(command) PROVE ScriptInv'
  BY <1>1, CommandOpens, BeginMoves, KrAssumption DEF RunKr
<1>2. ASSUME NEW c \in Clients, RunKrssh(c) PROVE ScriptInv'
  BY <1>2, DialOpens, BeginMoves DEF RunKrssh
<1>3. ASSUME NEW c \in Clients, Failed(c) PROVE ScriptInv'
  <2>1. todo[c] # <<>> /\ Expand(c, <<>>) /\ alive' = alive
    BY <1>3 DEF Failed, At, Done, daemonVars
  <2> QED BY <2>1, NothingCalled, ClientMoves
<1>4. ASSUME NEW c \in Clients, DialStep(c, SocketOf(c)) PROVE ScriptInv'
  BY <1>4, StartMoves, KillMoves, WaitCalls, EnsureCalls, ConnectCalls, PingCalls, Zenon DEF DialStep
<1>5. ASSUME NEW p \in Editors, Edit(p) PROVE ScriptInv'
  <2>1. EditStep(p) /\ alive' = alive
    BY <1>5 DEF Edit, daemonVars
  <2> QED BY <2>1, EditKinds, ReadsMoves, EditDone
<1>6. ASSUME NEW k \in Krds, KrdStep(k) \/ Crash(k) PROVE ScriptInv'
  <2>1. CASE Crash(k)
    BY <2>1, KrdEnds DEF Crash
  <2>2. CASE Exit(k)
    BY <2>2, ExitCalls
  <2>3. ASSUME NEW s \in Sockets, Listen(k, s) PROVE ScriptInv'
    BY <2>3, ListenCalls
  <2>4. ASSUME NEW s \in Sockets, ListenFails(k, s) PROVE ScriptInv'
    BY <2>4, KrdEnds DEF ListenFails
  <2> QED BY <1>6, <2>1, <2>2, <2>3, <2>4 DEF KrdStep
<1>7. CASE GitStep(Kr) /\ UNCHANGED <<configVars, daemonVars, bounds, histories>>
  BY <1>7, GitCalls
<1>8. CASE InstallPackage /\ UNCHANGED <<configVars, daemonVars, bounds, histories>>
  BY <1>8, ScriptFrame DEF InstallPackage, daemonVars
<1>9. ASSUME NEW v \in Versions, UpgradeSsh(v), UNCHANGED <<daemonVars, gitVars, bounds, histories>>
      PROVE  ScriptInv'
  BY <1>9, ScriptFrame DEF UpgradeSsh, daemonVars
<1>10. CASE Interrupt
  <2>1. todo' = [todo EXCEPT ![Kr] = <<>>] /\ alive' = alive
    BY <1>10 DEF Interrupt, daemonVars
  <2> QED BY <2>1, EmptyScript, ScriptClient, KrAssumption
<1>11. CASE UNCHANGED vars
  BY <1>11, ScriptFrame DEF vars, daemonVars
<1>12. CASE Next
  BY <1>1, <1>2, <1>3, <1>4, <1>5, <1>6, <1>7, <1>8, <1>9, <1>10, <1>12, Zenon DEF Next, DaemonStep
<1> QED BY <1>11, <1>12

-----------------------------------------------------------------------------
(* What each edit makes of a file.                                         *)
LEMMA Appended ==
  ASSUME NEW file, Fits(file), NEW b \in {"agent", "pkcs11"}, ~Contains(file, b),
         b = "pkcs11" => ~Contains(file, "agent"), NEW new, new = Append(file, b)
  PROVE  /\ Fits(new) /\ (Contains(file, "user") => Contains(new, "user"))
         /\ b = "pkcs11" /\ WithoutAgent(file) => WithoutAgent(new)
         /\ (\A i \in 1..Len(file) : file[i] \notin Blocks) => OneBlock(new)
<1> DEFINE n == Len(file)
<1>1. /\ file \in Seq(Parts) /\ n \in Nat /\ n <= 4
      /\ \A i \in 1..n : i > 2 => file[i] \in {"agent", "pkcs11"}
      /\ ~Contains(file, "agent") => n <= 3
  BY DEF Fits
<1>2. /\ new \in Seq(Parts) /\ Len(new) = n + 1 /\ new[n + 1] = b
      /\ \A i \in 1..n : new[i] = file[i]
  BY <1>1 DEF Parts, Blocks
<1>3. n <= 3
  BY <1>1
<1>4. b = "pkcs11" => n <= 2
  <2>1. ASSUME b = "pkcs11", n = 3 PROVE FALSE
    <3>1. file[3] \in {"agent", "pkcs11"} /\ 3 \in 1..n
      BY <1>1, <2>1
    <3> QED BY <2>1, <3>1 DEF Contains
  <2> HIDE DEF n
  <2> QED BY <1>1, <1>3, <2>1
<1> HIDE DEF n
<1>5. \A i \in 1..Len(new) : i \in 1..n \/ i = n + 1
  BY <1>1, <1>2
<1>6. Fits(new)
  <2>1. \A i \in 1..Len(new) : i > 2 => new[i] \in {"agent", "pkcs11"}
    BY <1>1, <1>2, <1>5
  <2>2. ~Contains(new, "agent") => Len(new) <= 3
    <3>1. n + 1 \in 1..Len(new)
      BY <1>1, <1>2
    <3>2. ~Contains(new, "agent") => b = "pkcs11"
      BY <1>2, <3>1 DEF Contains
    <3> QED BY <1>1, <1>2, <1>4, <3>2
  <2> QED BY <1>1, <1>2, <1>3, <2>1, <2>2 DEF Fits
<1>7. Contains(file, "user") => Contains(new, "user")
  <2>1. \A i \in 1..n : i \in 1..Len(new)
    BY <1>1, <1>2
  <2> QED BY <1>2, <2>1 DEF Contains, n
<1>8. b = "pkcs11" /\ WithoutAgent(file) => WithoutAgent(new)
  BY <1>2, <1>5 DEF WithoutAgent, Contains, n
<1>9. (\A i \in 1..n : file[i] \notin Blocks) => OneBlock(new)
  BY <1>2, <1>5 DEF OneBlock, Rare
<1> QED BY <1>6, <1>7, <1>8, <1>9 DEF n

(* A file with parts of another form in their places.                      *)
Renamed(file, new) ==
    /\ Len(new) = Len(file)
    /\ \A i \in 1..Len(file) :
          /\ new[i] \in Parts /\ (new[i] \in Blocks <=> file[i] \in Blocks)
          /\ file[i] = "agent" => new[i] = "agent"
          /\ file[i] \in {"agent", "pkcs11"} => new[i] \in {"agent", "pkcs11"}

LEMMA RenamedFits ==
  ASSUME NEW file, Fits(file), NEW new \in Seq(Parts), Renamed(file, new)
  PROVE  /\ Fits(new) /\ (Contains(file, "user") => Contains(new, "user"))
         /\ OneBlock(file) => OneBlock(new)
<1>1. /\ file \in Seq(Parts) /\ Len(file) \in Nat /\ Len(file) <= 4
      /\ \A i \in 1..Len(file) : i > 2 => file[i] \in {"agent", "pkcs11"}
      /\ ~Contains(file, "agent") => Len(file) <= 3
  BY DEF Fits
<1>2. /\ Len(new) = Len(file)
      /\ \A i \in 1..Len(file) :
          /\ new[i] \in Parts /\ (new[i] \in Blocks <=> file[i] \in Blocks)
          /\ file[i] = "agent" => new[i] = "agent"
          /\ file[i] \in {"agent", "pkcs11"} => new[i] \in {"agent", "pkcs11"}
  BY DEF Renamed
<1>3. Contains(file, "agent") => Contains(new, "agent")
  BY <1>2 DEF Contains
<1>4. \A i \in 1..Len(file) : file[i] = "user" => new[i] = "user"
  BY <1>2 DEF Parts, Blocks
<1>5. Contains(file, "user") => Contains(new, "user")
  BY <1>2, <1>4 DEF Contains
<1>6. Fits(new)
  BY <1>1, <1>2, <1>3 DEF Fits
<1>7. OneBlock(file) => OneBlock(new)
  BY <1>2 DEF OneBlock, Rare
<1> QED BY <1>5, <1>6, <1>7

LEMMA MigratedFits ==
  ASSUME NEW file, Fits(file)
  PROVE  /\ Fits(Migrated(file)) /\ (Contains(file, "user") => Contains(Migrated(file), "user"))
         /\ OneBlock(file) => OneBlock(Migrated(file))
<1> DEFINE f == [pkcs11 |-> "agent", pkcs11ite |-> "agentite"]
           new == Migrated(file)
<1>1. file \in Seq(Parts) /\ Len(file) \in Nat /\ DOMAIN file = 1..Len(file)
  BY DEF Fits
<1>2. DOMAIN f = {"pkcs11", "pkcs11ite"} /\ f["pkcs11"] = "agent" /\ f["pkcs11ite"] = "agentite"
  OBVIOUS
<1>3. new = [i \in DOMAIN file |-> IF file[i] \in DOMAIN f THEN f[file[i]] ELSE file[i]]
  BY Zenon DEF Migrated, MapParts
<1> HIDE DEF new, f
<1>4. /\ new = [i \in 1..Len(file) |-> new[i]]
      /\ \A i \in 1..Len(file) :
            new[i] = IF file[i] = "pkcs11" THEN "agent"
                     ELSE IF file[i] = "pkcs11ite" THEN "agentite" ELSE file[i]
  BY <1>1, <1>2, <1>3
<1>5. \A i \in 1..Len(file) : file[i] \in Parts
  BY <1>1
<1>6. \A i \in 1..Len(file) : new[i] \in Parts
  BY <1>4, <1>5 DEF Parts, Blocks
<1>7. new \in Seq(Parts) /\ Len(new) = Len(file)
  BY <1>1, <1>4, <1>6, IsASeq
<1>8. Renamed(file, new)
  BY <1>4, <1>5, <1>6, <1>7 DEF Renamed, Parts, Blocks
<1> QED BY <1>7, <1>8, RenamedFits DEF new

LEMMA ReplacedFits ==
  ASSUME NEW file, Fits(file), NEW new, new = ReplaceKryptoniteWithKrypton(file)
  PROVE  /\ Fits(new) /\ (Contains(file, "user") => Contains(new, "user"))
         /\ OneBlock(file) => OneBlock(new)
         /\ WithoutAgent(file) => WithoutAgent(new)
<1> DEFINE f == [agentite |-> "agent", pkcs11ite |-> "pkcs11"]
<1>1. file \in Seq(Parts) /\ Len(file) \in Nat /\ DOMAIN file = 1..Len(file)
  BY DEF Fits
<1>2. DOMAIN f = {"agentite", "pkcs11ite"} /\ f["agentite"] = "agent" /\ f["pkcs11ite"] = "pkcs11"
  OBVIOUS
<1>3. new = [i \in DOMAIN file |-> IF file[i] \in DOMAIN f THEN f[file[i]] ELSE file[i]]
  BY Zenon DEF ReplaceKryptoniteWithKrypton, MapParts
<1> HIDE DEF f
<1>4. /\ new = [i \in 1..Len(file) |-> new[i]]
      /\ \A i \in 1..Len(file) :
            new[i] = IF file[i] = "agentite" THEN "agent"
                     ELSE IF file[i] = "pkcs11ite" THEN "pkcs11" ELSE file[i]
  BY <1>1, <1>2, <1>3
<1>5. \A i \in 1..Len(file) : file[i] \in Parts
  BY <1>1
<1>6. \A i \in 1..Len(file) : new[i] \in Parts
  BY <1>4, <1>5 DEF Parts, Blocks
<1>7. new \in Seq(Parts) /\ Len(new) = Len(file)
  BY <1>1, <1>4, <1>6, IsASeq
<1>8. Renamed(file, new)
  BY <1>4, <1>5, <1>6, <1>7 DEF Renamed, Parts, Blocks
<1>9. WithoutAgent(file) => WithoutAgent(new)
  BY <1>4, <1>7 DEF WithoutAgent, Contains
<1> QED BY <1>7, <1>8, <1>9, RenamedFits

LEMMA CleanedFits ==
  ASSUME NEW file, Fits(file), NEW b \in {"agent", "pkcs11"},
         NEW new, new = Only(file, Parts \ {b})
  PROVE  /\ Fits(new) /\ (Contains(file, "user") => Contains(new, "user"))
         /\ OneBlock(file) => OneBlock(new)
         /\ WithoutAgent(file) => WithoutAgent(new)
<1> DEFINE S == Parts \ {b}
<1>1. /\ file \in Seq(Parts) /\ Len(file) \in Nat /\ Len(file) <= 4
      /\ \A i \in 1..Len(file) : i > 2 => file[i] \in {"agent", "pkcs11"}
      /\ ~Contains(file, "agent") => Len(file) <= 3
      /\ \A i \in 1..Len(file) : file[i] \in Parts
  BY DEF Fits
<1>2. Selected(Parts, file, S, new, Len(file))
  BY <1>1, OnlySelects
<1>a. S \subseteq Parts /\ "user" \in S
  BY DEF Parts, Blocks
<1> HIDE DEF S
<1>3. /\ new \in Seq(Parts) /\ Len(new) \in Nat /\ Len(new) <= Len(file)
      /\ \A j \in 1..Len(new) : \E k \in j..Len(file) : new[j] = file[k] /\ file[k] \in S
      /\ \A k \in 1..Len(file) : file[k] \in S => \E j \in 1..Len(new) : new[j] = file[k]
      /\ (\E k \in 1..Len(file) : file[k] \notin S) => Len(new) < Len(file)
  <2>1. /\ new \in Seq(Parts) /\ Len(new) <= Len(file)
        /\ \A j \in 1..Len(new) : \E k \in j..Len(file) : new[j] = file[k] /\ file[k] \in S
        /\ \A k \in 1..Len(file) : file[k] \in S => \E j \in 1..Len(new) : new[j] = file[k]
        /\ (\E k \in 1..Len(file) : file[k] \notin S) => Len(new) < Len(file)
    BY <1>2, Zenon DEF Selected
  <2>2. Len(new) \in Nat
    BY <2>1
  <2> QED BY <2>1, <2>2, Zenon
<1>b. Len(new) <= 4
  BY <1>1, <1>3
<1>4. OneBlock(file) => OneBlock(new)
  BY <1>1, OnlyKeepsRare DEF OneBlock
<1>5. Contains(file, "user") => Contains(new, "user")
  BY <1>3, <1>a DEF Contains
<1>6. \A j \in 1..Len(new) : j > 2 => new[j] \in {"agent", "pkcs11"}
  <2> SUFFICES ASSUME NEW j \in 1..Len(new), j > 2 PROVE new[j] \in {"agent", "pkcs11"}
    OBVIOUS
  <2>1. PICK k \in j..Len(file) : new[j] = file[k]
    BY <1>3
  <2>2. k \in 1..Len(file) /\ k > 2
    BY <1>1, <2>1
  <2> QED BY <1>1, <2>1, <2>2
<1>7. ~Contains(new, "agent") => Len(new) <= 3
  <2> SUFFICES ASSUME ~Contains(new, "agent"), Contains(file, "agent") PROVE Len(new) <= 3
    BY <1>1, <1>3
  <2>1. PICK k \in 1..Len(file) : file[k] = "agent"
    BY DEF Contains
  <2>2. file[k] \notin S
    BY <1>3, <2>1, ZenonT(60) DEF Contains
  <2> QED BY <1>1, <1>3, <2>2
<1>8. WithoutAgent(file) => WithoutAgent(new)
  <2>1. ASSUME NEW j \in 1..Len(new) PROVE \E k \in 1..Len(file) : new[j] = file[k]
    <3>1. PICK k \in j..Len(file) : new[j] = file[k]
      BY <1>3
    <3>2. k \in 1..Len(file)
      BY <1>1, <1>3, <3>1
    <3> QED BY <3>1, <3>2
  <2> QED BY <2>1 DEF WithoutAgent, Contains
<1>9. Fits(new)
  BY <1>3, <1>b, <1>6, <1>7, Zenon DEF Fits
<1> QED BY <1>4, <1>5, <1>8, <1>9

-----------------------------------------------------------------------------
(* The steps that a function adds to a script.                             *)
Adds(step, S) ==
    \/ S = {}
    \/ step \in {"ensure", "dial"} /\ S \subseteq {"start", "wait", "connect"}
    \/ step = "connect" /\ S \subseteq {"kill", "wait", "start", "reconnect"}
    \/ step \in {"edit", "force", "migrate", "clean"} /\ S \subseteq Rewriting
    \/ step = "onboard" /\ S = {"commitOn", "tagOn"}
    \/ step = "codesigning" /\ S = {"programUnset", "commitOff", "tagOff"}

LEMMA CallsAdd ==
  ASSUME NEW step, NEW steps, Calls(step, steps)
  PROVE  Adds(step, ToSet(steps))
<1>1. CASE steps = <<>>
  BY <1>1, EmptyScript DEF Adds
<1>2. CASE step = "ensure" /\ steps = <<"start", "wait">>
  BY <1>2 DEF Adds, ToSet
<1>3. CASE step = "dial" /\ steps = <<"connect">>
  BY <1>3 DEF Adds, ToSet
<1>4. CASE step = "dial" /\ steps = <<"start", "wait", "connect">>
  BY <1>4 DEF Adds, ToSet
<1>5. CASE step = "connect" /\ steps = <<"kill", "wait", "start", "wait", "reconnect">>
  BY <1>5 DEF Adds, ToSet
<1>6. CASE step \in {"edit", "force", "migrate", "clean"} /\ steps = <<"truncate", "write">>
  BY <1>6 DEF Adds, ToSet, Rewriting
<1>7. ASSUME NEW b \in {"backup", "backupUninstall"}, step \in {"edit", "force", "migrate", "clean"},
             steps = <<b, "truncate", "write">>
      PROVE  Adds(step, ToSet(steps))
  <2>1. ToSet(steps) \subseteq Rewriting
    BY <1>7 DEF ToSet, Rewriting
  <2> QED BY <1>7, <2>1 DEF Adds
<1>8. CASE step = "onboard" /\ steps = <<"commitOn", "tagOn">>
  <2>1. ToSet(steps) = {"commitOn", "tagOn"}
    BY <1>8 DEF ToSet
  <2> QED BY <1>8, <2>1 DEF Adds
<1>9. CASE step = "codesigning" /\ steps = <<"programUnset", "commitOff", "tagOff">>
  <2>1. /\ Len(steps) = 3 /\ DOMAIN steps = 1..3
        /\ steps[1] = "programUnset" /\ steps[2] = "commitOff" /\ steps[3] = "tagOff"
    BY <1>9
  <2>2. ToSet(steps) = {"programUnset", "commitOff", "tagOff"}
    BY <2>1 DEF ToSet
  <2> QED BY <1>9, <2>2 DEF Adds
<1> QED BY <1>1, <1>2, <1>3, <1>4, <1>5, <1>6, <1>7, <1>8, <1>9 DEF Calls, Rewrites

(* The next state of the script of kr, unless a command begins.            *)
KrTurn ==
    \/ todo'[Kr] = todo[Kr]
    \/ Fails(Kr) /\ (At(Kr, "ping") \/ At(Kr, "reconnect"))
    \/ \E S : /\ todo[Kr] # <<>> /\ Adds(Head(todo[Kr]), S)
              /\ ToSet(todo'[Kr]) = S \cup ToSet(Tail(todo[Kr]))
              /\ ToSet(todo[Kr]) = {Head(todo[Kr])} \cup ToSet(Tail(todo[Kr]))

LEMMA MovesTurn ==
  ASSUME NEW p \in Procs, NEW steps, Moves(p, steps),
         p = Kr => todo[Kr] # <<>> /\ Calls(Head(todo[Kr]), steps)
  PROVE  KrTurn
<1>1. CASE p # Kr
  BY <1>1, KrAssumption DEF Moves, KrTurn, Procs
<1>2. CASE p = Kr
  BY <1>2, CallsAdd DEF Moves, KrTurn
<1> QED BY <1>1, <1>2

LEMMA DialTurn ==
  ASSUME ScriptInv, NEW c \in Clients, NEW s, DialStep(c, s)
  PROVE  KrTurn
<1>0. Kr \in Clients /\ Kr \in Procs /\ c \in Procs /\ Kr \notin Krds
  BY KrAssumption DEF Procs
<1>1. ASSUME todo[c] # <<>>, todo'[c] = Tail(todo[c]), c = Kr PROVE KrTurn
  <2>1. ToSet(todo[Kr]) = {Head(todo[Kr])} \cup ToSet(Tail(todo[Kr]))
    BY <1>0, <1>1, HeadOf, HeadTail
  <2>2. Adds(Head(todo[Kr]), {})
    BY DEF Adds
  <2> QED BY <1>1, <2>1, <2>2 DEF KrTurn
<1>2. ASSUME NEW k \in Krds, StartKrd(c, k) PROVE KrTurn
  <2>1. /\ todo'[c] = Tail(todo[c]) /\ \A p \in Procs \ {c, k} : todo'[p] = todo[p]
    BY <1>2, StartMoves
  <2>2. todo[c] # <<>>
    BY <1>2 DEF StartKrd, At
  <2>3. CASE c = Kr
    BY <1>1, <2>1, <2>2, <2>3
  <2>4. CASE c # Kr
    BY <1>0, <2>1, <2>4 DEF KrTurn
  <2> QED BY <2>3, <2>4
<1>3. ASSUME KillKrd(c) PROVE KrTurn
  <2>1. /\ todo'[c] = Tail(todo[c]) /\ \A d \in Clients \ {c} : todo'[d] = todo[d]
    BY <1>3, KillMoves
  <2>2. todo[c] # <<>>
    BY <1>3 DEF KillKrd, At
  <2>3. CASE c = Kr
    BY <1>1, <2>1, <2>2, <2>3
  <2>4. CASE c # Kr
    BY <1>0, <2>1, <2>4 DEF KrTurn
  <2> QED BY <2>3, <2>4
<1>4. ASSUME Wait(c) PROVE KrTurn
  <2>1. Moves(c, <<>>) /\ todo[c] # <<>>
    BY <1>4, WaitCalls DEF Wait, At
  <2> QED BY <1>0, <2>1, NothingCalled, MovesTurn
<1>5. ASSUME EnsureRunning(c, "ensure", <<>>) \/ DaemonDial(c) PROVE KrTurn
  <2>1. todo[c] # <<>> /\ \E steps : Moves(c, steps) /\ Calls(Head(todo[c]), steps)
    BY <1>5, EnsureCalls, Zenon
  <2> QED BY <1>0, <2>1, MovesTurn
<1>6. ASSUME Connect(c, s) PROVE KrTurn
  <2> DEFINE steps == <<"kill", "wait", "start", "wait", "reconnect">>
  <2>1. /\ todo[c] # <<>>
        /\ Moves(c, <<>>) \/ (At(c, "connect") /\ Moves(c, steps)) \/ (At(c, "reconnect") /\ Fails(c))
    BY <1>6, ConnectCalls, Zenon
  <2>2. At(c, "connect") => Calls(Head(todo[c]), steps)
    BY DEF Calls, At
  <2> HIDE DEF steps
  <2>3. CASE Moves(c, <<>>)
    BY <1>0, <2>1, <2>3, NothingCalled, MovesTurn
  <2>4. CASE At(c, "connect") /\ Moves(c, steps)
    BY <1>0, <2>1, <2>2, <2>4, MovesTurn
  <2>5. CASE At(c, "reconnect") /\ Fails(c)
    BY <1>0, <2>5 DEF KrTurn, Fails
  <2> QED BY <2>1, <2>3, <2>4, <2>5
<1>7. ASSUME Ping(c, s) PROVE KrTurn
  <2>1. todo[c] # <<>> /\ At(c, "ping") /\ (Moves(c, <<>>) \/ Fails(c))
    BY <1>7, PingCalls, Zenon
  <2>3. CASE Moves(c, <<>>)
    BY <1>0, <2>1, <2>3, NothingCalled, MovesTurn
  <2>5. CASE Fails(c)
    BY <1>0, <2>1, <2>5 DEF KrTurn, Fails
  <2> QED BY <2>1, <2>3, <2>5
<1> QED BY <1>2, <1>3, <1>4, <1>5, <1>6, <1>7, Zenon DEF DialStep

LEMMA KrdTurn ==
  ASSUME ScriptInv, NEW k \in Krds, KrdStep(k) \/ Crash(k)
  PROVE  /\ \A c \in Clients : todo'[c] = todo[c]
         /\ \A j \in Krds \ {k} : todo'[j] = todo[j]
<1>0. \A c \in Clients : c # k /\ c \in Procs
  BY KrAssumption DEF Procs
<1>a. \A j \in Krds : j \in Procs
  BY DEF Procs
<1>1. CASE Crash(k)
  BY <1>0, <1>a, <1>1, KrdEnds DEF Crash
<1>2. CASE Exit(k)
  BY <1>0, <1>a, <1>2, ExitCalls DEF Moves
<1>3. ASSUME NEW s \in Sockets, Listen(k, s)
      PROVE  /\ \A c \in Clients : todo'[c] = todo[c]
             /\ \A j \in Krds \ {k} : todo'[j] = todo[j]
  BY <1>0, <1>a, <1>3, ListenCalls DEF Moves
<1>4. ASSUME NEW s \in Sockets, ListenFails(k, s)
      PROVE  /\ \A c \in Clients : todo'[c] = todo[c]
             /\ \A j \in Krds \ {k} : todo'[j] = todo[j]
  BY <1>0, <1>a, <1>4, KrdEnds DEF ListenFails
<1> QED BY <1>1, <1>2, <1>3, <1>4 DEF KrdStep

LEMMA EditTurn ==
  ASSUME ScriptInv, alive' = alive, NEW p \in Editors, EditStep(p)
  PROVE  KrTurn
BY EditCalls, EditorIs, MovesTurn

LEMMA TurnKeepsForce ==
  ASSUME ScriptInv, KrTurn, "force" \notin ToSet(todo[Kr])
  PROVE  "force" \notin ToSet(todo'[Kr])
<1>2. CASE Fails(Kr)
  <2>1. PICK x : x = <<"failed">>
    OBVIOUS
  <2>2. todo'[Kr] = x /\ ToSet(x) = {"failed"}
    BY <1>2, <2>1, FailedScript DEF Fails
  <2> QED BY <2>2
<1>3. ASSUME NEW S, todo[Kr] # <<>>, Adds(Head(todo[Kr]), S),
             ToSet(todo'[Kr]) = S \cup ToSet(Tail(todo[Kr])),
             ToSet(todo[Kr]) = {Head(todo[Kr])} \cup ToSet(Tail(todo[Kr]))
      PROVE  "force" \notin ToSet(todo'[Kr])
  <2>1. "force" \notin S
    BY <1>3 DEF Adds, Rewriting
  <2> QED BY <1>3, <2>1
<1> QED BY <1>2, <1>3 DEF KrTurn

-----------------------------------------------------------------------------
(* The files stay within their bounds.                                     *)
BufType == [old : Seq(Parts), new : Seq(Parts)]

LEMMA EmptyFile ==
  ASSUME NEW file, file = <<>>
  PROVE  Fits(file) /\ OneBlock(file) /\ WithoutAgent(file) /\ ~Contains(file, "user")
BY DEF Fits, OneBlock, Rare, WithoutAgent, Contains

LEMMA NoBufFits ==
  /\ NoBuf \in BufType /\ Fits(NoBuf.old) /\ Fits(NoBuf.new)
  /\ OneBlock(NoBuf.new) /\ WithoutAgent(NoBuf.new)
<1>1. PICK x : x = <<>>
  OBVIOUS
<1>2. NoBuf = [old |-> x, new |-> x] /\ x \in Seq(Parts)
  BY <1>1 DEF NoBuf
<1>3. NoBuf \in BufType /\ NoBuf.old = x /\ NoBuf.new = x
  BY <1>2 DEF BufType
<1> QED BY <1>1, <1>3, EmptyFile

LEMMA FileInit == Init => FileInv
<1> SUFFICES ASSUME Init PROVE FileInv
  OBVIOUS
<1>1. /\ config \in {<<"user">>, <<"user", "pkcs11ite">>} /\ bak = <<>> /\ uninstBak = <<>>
      /\ sshVersion \in Versions /\ buf = [p \in Editors |-> NoBuf] /\ torn = FALSE
      /\ forced = FALSE /\ todo = [p \in Procs |-> <<>>]
  BY DEF Init, ConfigInit
<1>2. /\ config \in Seq(Parts) /\ Len(config) <= 2
      /\ \A i \in 1..Len(config) : (i = 1 /\ config[i] = "user") \/ (i = 2 /\ config[i] = "pkcs11ite")
  <2>1. CASE config = <<"user">>
    <3>1. config \in Seq(Parts) /\ Len(config) = 1 /\ config[1] = "user"
      BY <2>1 DEF Parts, Blocks
    <3> QED BY <3>1
  <2>2. CASE config = <<"user", "pkcs11ite">>
    <3>1. config \in Seq(Parts) /\ Len(config) = 2 /\ config[1] = "user" /\ config[2] = "pkcs11ite"
      BY <2>2 DEF Parts, Blocks
    <3> QED BY <3>1
  <2> QED BY <1>1, <2>1, <2>2
<1>3. Fits(config) /\ OneBlock(config) /\ WithoutAgent(config)
  <2>2. \A i \in 1..Len(config) : config[i] \in Blocks => i = 2
    BY <1>2 DEF Blocks
  <2>3. OneBlock(config)
    BY <2>2 DEF OneBlock, Rare
  <2>4. WithoutAgent(config)
    BY <1>2 DEF WithoutAgent, Contains
  <2>5. Len(config) <= 3 /\ \A i \in 1..Len(config) : ~(i > 2)
    <3>1. Len(config) \in Nat /\ Len(config) <= 2
      BY <1>2
    <3> QED BY <3>1
  <2> QED BY <1>2, <2>3, <2>4, <2>5 DEF Fits
<1>4. Fits(bak) /\ Fits(uninstBak)
  BY <1>1, EmptyFile
<1>5. \A p \in Editors : buf[p] = NoBuf
  BY <1>1
<1>6. buf \in [Editors -> BufType]
  BY <1>1, NoBufFits
<1>7. "force" \notin ToSet(todo[Kr])
  <2>1. todo[Kr] = <<>>
    BY <1>1, KrAssumption DEF Procs
  <2> QED BY <2>1, EmptyScript
<1> QED BY <1>1, <1>3, <1>4, <1>5, <1>6, <1>7, NoBufFits DEF FileInv, BufType

(* Buffers are forgotten, and nothing else happens to the files.           *)
Forgets == buf' \in [Editors -> BufType] /\ \A p \in Editors : buf'[p] \in {buf[p], NoBuf}

LEMMA FileFrame ==
  ASSUME FileInv, Forgets, UNCHANGED <<config, bak, uninstBak, sshVersion, torn>>,
         forced' \in BOOLEAN, forced => forced', ~forced' => "force" \notin ToSet(todo'[Kr])
  PROVE  FileInv'
<1>1. /\ Fits(config') /\ Fits(bak') /\ Fits(uninstBak') /\ sshVersion' \in Versions
      /\ torn' \in BOOLEAN
  BY DEF FileInv
<1>2. \A p \in Editors : Fits(buf'[p].old) /\ Fits(buf'[p].new)
  BY NoBufFits DEF FileInv, Forgets
<1>3. ~SupportsIdentityAgent(sshVersion') =>
          WithoutAgent(config') /\ \A p \in Editors : WithoutAgent(buf'[p].new)
  BY NoBufFits DEF FileInv, Forgets
<1>4. ~forced' =>
          /\ OneBlock(config') /\ \A p \in Editors : OneBlock(buf'[p].new)
          /\ "force" \notin ToSet(todo'[Kr])
  BY NoBufFits DEF FileInv, Forgets
<1>5. buf' \in [Editors -> [old : Seq(Parts), new : Seq(Parts)]]
  BY DEF Forgets, BufType
<1> QED BY <1>1, <1>2, <1>3, <1>4, <1>5 DEF FileInv

LEMMA KeepsBuffers ==
  ASSUME FileInv
  PROVE  /\ buf' = buf => Forgets
         /\ \A p \in Editors : buf' = [buf EXCEPT ![p] = NoBuf] => Forgets
         /\ \A dead : buf' = [p \in Editors |-> IF p \in dead THEN NoBuf ELSE buf[p]] => Forgets
<1>1. buf \in [Editors -> BufType]
  BY DEF FileInv, BufType
<1>2. NoBuf \in BufType
  BY NoBufFits
<1>3. ASSUME NEW p \in Editors, buf' = [buf EXCEPT ![p] = NoBuf] PROVE Forgets
  BY <1>1, <1>2, <1>3 DEF Forgets
<1>4. ASSUME NEW dead, buf' = [p \in Editors |-> IF p \in dead THEN NoBuf ELSE buf[p]] PROVE Forgets
  BY <1>1, <1>2, <1>4 DEF Forgets
<1>5. buf' = buf => Forgets
  BY <1>1 DEF Forgets
<1> QED BY <1>3, <1>4, <1>5

(* A read of the file, of which new is to be written.                      *)
LEMMA FileReads ==
  ASSUME FileInv, NEW p \in Editors, NEW writes \in BOOLEAN, NEW new, NEW steps,
         Reads(p, writes, new, steps), forced' = forced,
         ~forced => "force" \notin ToSet(todo'[Kr]),
         writes => /\ Fits(new) /\ (~forced => OneBlock(new))
                   /\ ~SupportsIdentityAgent(sshVersion) => WithoutAgent(new)
  PROVE  FileInv'
<1>1. UNCHANGED <<config, bak, uninstBak, sshVersion, torn>>
  BY DEF Reads
<1>2. CASE ~writes
  <2>1. buf' = buf
    BY <1>2 DEF Reads, FileInv
  <2> QED BY <1>1, <2>1, KeepsBuffers, FileFrame DEF FileInv
<1>3. CASE writes
  <2> DEFINE b == [old |-> config, new |-> new]
  <2>1. buf' = [buf EXCEPT ![p] = b]
    BY <1>3 DEF Reads
  <2>2. b \in BufType /\ b.old = config /\ b.new = new
    BY <1>3 DEF FileInv, Fits, BufType
  <2> HIDE DEF b
  <2>3. /\ buf' \in [Editors -> BufType] /\ buf'[p] = b
        /\ \A q \in Editors : q # p => buf'[q] = buf[q]
    BY <2>1, <2>2 DEF FileInv, BufType
  <2>4. \A q \in Editors : Fits(buf'[q].old) /\ Fits(buf'[q].new)
    BY <1>3, <2>2, <2>3 DEF FileInv
  <2>5. ~SupportsIdentityAgent(sshVersion) => \A q \in Editors : WithoutAgent(buf'[q].new)
    BY <1>3, <2>2, <2>3 DEF FileInv
  <2>6. ~forced => \A q \in Editors : OneBlock(buf'[q].new)
    BY <1>3, <2>2, <2>3 DEF FileInv
  <2>7. buf' \in [Editors -> [old : Seq(Parts), new : Seq(Parts)]]
    BY <2>3 DEF BufType
  <2>8. /\ config' = config /\ bak' = bak /\ uninstBak' = uninstBak /\ sshVersion' = sshVersion
        /\ torn' = torn
    BY <1>1
  <2> QED BY <2>4, <2>5, <2>6, <2>7, <2>8 DEF FileInv
<1> QED BY <1>2, <1>3

LEMMA EditKeepsFiles ==
  ASSUME ScriptInv, FileInv, alive' = alive, NEW p \in Editors, EditStep(p), forced' = forced
  PROVE  FileInv'
<1>1. ~forced => "force" \notin ToSet(todo'[Kr])
  BY EditTurn, TurnKeepsForce DEF FileInv
<1>2. /\ Fits(config) /\ (~forced => OneBlock(config)) /\ forced \in BOOLEAN
      /\ ~SupportsIdentityAgent(sshVersion) => WithoutAgent(config)
  BY DEF FileInv
<1>3. ASSUME NEW f \in BOOLEAN, EditSSHConfig(p, f) PROVE FileInv'
  <2> DEFINE b == KrSSHConfigBlock
             others == \E i \in DOMAIN config : config[i] \in Blocks
             w == ~Contains(config, b) /\ (others => f)
             steps == IF config = <<>> THEN <<"truncate", "write">>
                                       ELSE <<"backup", "truncate", "write">>
             new == Append(config, b)
  <2>1. Reads(p, w, new, steps) /\ At(p, IF f THEN "force" ELSE "edit")
    BY <1>3, Zenon DEF EditSSHConfig
  <2>2. /\ b \in {"agent", "pkcs11"} /\ (b = "pkcs11" <=> ~SupportsIdentityAgent(sshVersion))
    BY DEF KrSSHConfigBlock
  <2>3. w /\ b = "pkcs11" => ~Contains(config, "agent")
    BY <1>2, <2>2 DEF WithoutAgent
  <2>4. ~forced => ~f
    <3> SUFFICES ASSUME f, ~forced PROVE FALSE
      OBVIOUS
    <3>1. todo[p] # <<>> /\ Head(todo[p]) = "force"
      BY <2>1 DEF At
    <3>2. p \notin Krds
      BY <3>1, HeadOf DEF KrdSteps
    <3>3. "force" \in ToSet(todo[Kr])
      BY <3>1, <3>2, EditorIs, HeadOf
    <3> QED BY <3>3 DEF FileInv
  <2>5. DOMAIN config = 1..Len(config)
    BY <1>2 DEF Fits
  <2>6. ASSUME w PROVE \A i \in 1..Len(config) : ~f => config[i] \notin Blocks
    BY <2>5, <2>6
  <2>7. w \in BOOLEAN /\ (w => ~Contains(config, b))
    OBVIOUS
  <2> HIDE DEF w, steps, b, others
  <2>8. w => /\ Fits(new) /\ (~forced => OneBlock(new))
             /\ ~SupportsIdentityAgent(sshVersion) => WithoutAgent(new)
    <3> SUFFICES ASSUME w PROVE /\ Fits(new) /\ (~forced => OneBlock(new))
                                /\ ~SupportsIdentityAgent(sshVersion) => WithoutAgent(new)
      OBVIOUS
    <3>1. /\ Fits(new)
          /\ b = "pkcs11" /\ WithoutAgent(config) => WithoutAgent(new)
          /\ (\A i \in 1..Len(config) : config[i] \notin Blocks) => OneBlock(new)
      BY <1>2, <2>2, <2>3, <2>7, Appended
    <3> HIDE DEF new
    <3> QED BY <1>2, <2>2, <2>4, <2>6, <3>1
  <2> HIDE DEF new
  <2> QED BY <1>1, <2>1, <2>7, <2>8, FileReads
<1>4. ASSUME MigrateSSHConfig(p) PROVE FileInv'
  <2> DEFINE w == SupportsIdentityAgent(sshVersion) /\ Migrated(config) # config
             steps == <<"truncate", "write">>
             new == Migrated(config)
  <2>1. Reads(p, w, new, steps)
    BY <1>4, Zenon DEF MigrateSSHConfig
  <2>2. w \in BOOLEAN /\ (w => SupportsIdentityAgent(sshVersion))
    BY DEF SupportsIdentityAgent
  <2>3. Fits(new) /\ (~forced => OneBlock(new))
    BY <1>2, MigratedFits
  <2> HIDE DEF w, steps, new
  <2> QED BY <1>1, <2>1, <2>2, <2>3, FileReads
<1>5. ASSUME CleanSSHConfig(p) PROVE FileInv'
  <2> DEFINE new == Only(config, Parts \ {KrSSHConfigBlock})
             steps == IF config = <<>> THEN <<"truncate", "write">>
                                       ELSE <<"backupUninstall", "truncate", "write">>
  <2>1. Reads(p, TRUE, new, steps)
    BY <1>5, Zenon DEF CleanSSHConfig
  <2>2. KrSSHConfigBlock \in {"agent", "pkcs11"}
    BY DEF KrSSHConfigBlock
  <2>3. Fits(new) /\ (~forced => OneBlock(new)) /\ (WithoutAgent(config) => WithoutAgent(new))
    BY <1>2, <2>2, CleanedFits
  <2> HIDE DEF new, steps
  <2> QED BY <1>1, <1>2, <2>1, <2>3, FileReads
<1>6. ASSUME UpgradeSSHConfig(p) PROVE FileInv'
  <2> DEFINE new == ReplaceKryptoniteWithKrypton(config)
             w == new # config
             steps == <<"truncate", "write">>
  <2>1. Reads(p, w, new, steps)
    BY <1>6, Zenon DEF UpgradeSSHConfig
  <2>2. w \in BOOLEAN
    OBVIOUS
  <2>3. Fits(new) /\ (~forced => OneBlock(new)) /\ (WithoutAgent(config) => WithoutAgent(new))
    BY <1>2, ReplacedFits
  <2> HIDE DEF w, new, steps
  <2> QED BY <1>1, <1>2, <2>1, <2>2, <2>3, FileReads
<1>7. ASSUME EditDeclined(p) PROVE FileInv'
  <2>1. buf' = buf /\ UNCHANGED <<config, bak, uninstBak, sshVersion, torn>>
    BY <1>7 DEF EditDeclined, configVars
  <2>2. Forgets
    BY <2>1, KeepsBuffers
  <2> QED BY <1>1, <1>2, <2>1, <2>2, FileFrame
<1>8. ASSUME WriteFile(p) PROVE FileInv'
  <2>1. sshVersion' = sshVersion
    BY <1>8 DEF WriteFile
  <2>2. Fits(<<>>) /\ OneBlock(<<>>) /\ WithoutAgent(<<>>)
    BY EmptyFile
  <2>3. Fits(buf[p].old)
    BY DEF FileInv
  <2>4. CASE bak' = buf[p].old /\ UNCHANGED <<config, uninstBak, torn, buf>>
    BY <1>1, <2>1, <2>3, <2>4 DEF FileInv
  <2>5. CASE uninstBak' = buf[p].old /\ UNCHANGED <<config, bak, torn, buf>>
    BY <1>1, <2>1, <2>3, <2>5 DEF FileInv
  <2>6. CASE config' = <<>> /\ torn' = TRUE /\ UNCHANGED <<bak, uninstBak, buf>>
    BY <1>1, <2>1, <2>2, <2>6 DEF FileInv
  <2>7. CASE config' = buf[p].new /\ torn' = FALSE /\ buf' = [buf EXCEPT ![p] = NoBuf]
             /\ UNCHANGED <<bak, uninstBak>>
    <3>1. Forgets
      BY <2>7, KeepsBuffers
    <3>2. \A q \in Editors : Fits(buf'[q].old) /\ Fits(buf'[q].new)
      BY <3>1, NoBufFits DEF FileInv, Forgets
    <3>3. ~SupportsIdentityAgent(sshVersion') =>
              WithoutAgent(config') /\ \A q \in Editors : WithoutAgent(buf'[q].new)
      BY <2>1, <2>7, <3>1, NoBufFits DEF FileInv, Forgets
    <3>4. ~forced' =>
              /\ OneBlock(config') /\ \A q \in Editors : OneBlock(buf'[q].new)
              /\ "force" \notin ToSet(todo'[Kr])
      BY <1>1, <2>7, <3>1, NoBufFits DEF FileInv, Forgets
    <3>5. buf' \in [Editors -> [old : Seq(Parts), new : Seq(Parts)]]
      BY <3>1 DEF Forgets, BufType
    <3>6. /\ Fits(config') /\ Fits(bak') /\ Fits(uninstBak') /\ sshVersion' \in Versions
          /\ torn' \in BOOLEAN /\ forced' \in BOOLEAN
      BY <2>1, <2>7 DEF FileInv
    <3> QED BY <3>2, <3>3, <3>4, <3>5, <3>6 DEF FileInv
  <2> QED BY <1>8, <2>4, <2>5, <2>6, <2>7, Zenon DEF WriteFile
<1> QED BY <1>3, <1>4, <1>5, <1>6, <1>7, <1>8 DEF EditStep

(* A newer ssh does not lose the option.                                   *)
LEMMA NewerSupports ==
  ASSUME sshVersion \in Versions, NEW v \in Versions, UpgradeSsh(v), SupportsIdentityAgent(sshVersion)
  PROVE  SupportsIdentityAgent(v)
<1>1. sshVersion # <<>> /\ v # <<>> /\ AtLeast(v, sshVersion)
  BY DEF SupportsIdentityAgent, UpgradeSsh
<1>2. sshVersion \in Nat \X Nat /\ v \in Nat \X Nat
  BY <1>1, VersionsAssumption
<1>3. sshVersion[1] \in Nat /\ sshVersion[2] \in Nat /\ v[1] \in Nat /\ v[2] \in Nat
  BY <1>2
<1> QED BY <1>1, <1>3 DEF AtLeast, SupportsIdentityAgent

LEMMA FileStep == ScriptInv /\ FileInv /\ [Next]_vars => FileInv'
<1> SUFFICES ASSUME ScriptInv, FileInv, [Next]_vars PROVE FileInv'
  OBVIOUS
<1>0. forced \in BOOLEAN /\ (~forced => "force" \notin ToSet(todo[Kr]))
  BY DEF FileInv
<1>1. ASSUME NEW command \in DOMAIN Commands, RunKr(command) PROVE FileInv'
  <2>1. /\ UNCHANGED <<config, bak, uninstBak, sshVersion, torn>> /\ buf' = buf
        /\ forced' = (forced \/ command = "sshConfigForce") /\ Begin(Kr, Commands[command])
    BY <1>1 DEF RunKr, Begin, configVars
  <2>2. Forgets
    BY <2>1, KeepsBuffers
  <2>3. todo'[Kr] = Commands[command] /\ Opens(Commands[command], command)
    BY <2>1, CommandOpens, BeginMoves, KrAssumption
  <2>4. ~forced' => "force" \notin ToSet(todo'[Kr])
    BY <2>1, <2>3 DEF Opens
  <2>5. forced' \in BOOLEAN /\ (forced => forced')
    BY <1>0, <2>1
  <2> QED BY <2>1, <2>2, <2>4, <2>5, FileFrame
<1>2. ASSUME NEW c \in Clients, RunKrssh(c) PROVE FileInv'
  <2>1. /\ UNCHANGED <<config, bak, uninstBak, sshVersion, torn>> /\ buf' = buf
        /\ forced' = forced /\ Begin(c, <<"dial">>) /\ c # Kr
    BY <1>2 DEF RunKrssh, Begin, configVars, histories
  <2>2. Forgets
    BY <2>1, KeepsBuffers
  <2>3. todo'[Kr] = todo[Kr]
    BY <2>1, DialOpens, BeginMoves, KrAssumption DEF Procs
  <2> QED BY <1>0, <2>1, <2>2, <2>3, FileFrame
<1>3. ASSUME NEW c \in Clients, Failed(c) PROVE FileInv'
  <2>1. /\ UNCHANGED <<config, bak, uninstBak, sshVersion, torn>> /\ buf' = buf
        /\ forced' = forced /\ todo[c] # <<>> /\ Expand(c, <<>>) /\ alive' = alive
    BY <1>3 DEF Failed, At, Done, configVars, histories, daemonVars
  <2>2. Forgets
    BY <2>1, KeepsBuffers
  <2>3. KrTurn
    <3>1. Moves(c, <<>>) /\ c \in Procs
      BY <2>1, NothingCalled, ClientMoves DEF Procs
    <3> QED BY <2>1, <3>1, NothingCalled, MovesTurn
  <2> QED BY <1>0, <2>1, <2>2, <2>3, TurnKeepsForce, FileFrame
<1>4. ASSUME NEW step, NEW fault, DaemonStep(step, fault),
             todo'[Kr] = todo[Kr] \/ KrTurn
      PROVE  FileInv'
  <2>1. UNCHANGED <<config, bak, uninstBak, sshVersion, torn>> /\ forced' = forced
    BY <1>4 DEF DaemonStep
  <2>2. Forgets
    <3>1. PICK dead : buf' = [p \in Editors |-> IF p \in dead THEN NoBuf ELSE buf[p]]
      BY <1>4, Zenon DEF DaemonStep
    <3> QED BY <3>1, KeepsBuffers
  <2> QED BY <1>0, <1>4, <2>1, <2>2, TurnKeepsForce, FileFrame
<1>5. ASSUME NEW c \in Clients, DaemonStep(DialStep(c, SocketOf(c)), 0) PROVE FileInv'
  <2>1. DialStep(c, SocketOf(c))
    BY <1>5 DEF DaemonStep
  <2>2. KrTurn
    BY <2>1, DialTurn
  <2> QED BY <1>4, <1>5, <2>2
<1>6. ASSUME NEW k \in Krds, DaemonStep(KrdStep(k), 0) PROVE FileInv'
  <2>1. KrdStep(k)
    BY <1>6 DEF DaemonStep
  <2> QED BY <1>4, <1>6, <2>1, KrdTurn, KrAssumption
<1>7. ASSUME NEW k \in Krds, DaemonStep(Crash(k), 1) PROVE FileInv'
  <2>1. Crash(k)
    BY <1>7 DEF DaemonStep
  <2> QED BY <1>4, <1>7, <2>1, KrdTurn, KrAssumption
<1>8. ASSUME NEW p \in Editors, Edit(p) PROVE FileInv'
  BY <1>8, EditKeepsFiles DEF Edit, daemonVars
<1>9. CASE GitStep(Kr) /\ UNCHANGED <<configVars, daemonVars, bounds, histories>>
  <2>1. UNCHANGED <<config, bak, uninstBak, sshVersion, torn>> /\ buf' = buf /\ forced' = forced
    BY <1>9 DEF configVars, histories
  <2>2. Forgets
    BY <2>1, KeepsBuffers
  <2>3. KrTurn
    BY <1>9, GitCalls, MovesTurn, KrAssumption DEF Procs
  <2> QED BY <1>0, <2>1, <2>2, <2>3, TurnKeepsForce, FileFrame
<1>10. CASE (InstallPackage /\ UNCHANGED <<configVars, daemonVars, bounds, histories>>) \/ UNCHANGED vars
  <2>1. /\ UNCHANGED <<config, bak, uninstBak, sshVersion, torn>> /\ buf' = buf /\ forced' = forced
        /\ todo' = todo
    BY <1>10 DEF configVars, histories, vars, InstallPackage
  <2> QED BY <1>0, <2>1, KeepsBuffers, FileFrame
<1>11. ASSUME NEW v \in Versions, UpgradeSsh(v), UNCHANGED <<daemonVars, gitVars, bounds, histories>>
       PROVE  FileInv'
  <2>1. /\ config' = config /\ bak' = bak /\ uninstBak' = uninstBak /\ buf' = buf /\ torn' = torn
        /\ todo' = todo /\ sshVersion' = v /\ forced' = forced
    BY <1>11 DEF UpgradeSsh, histories
  <2>2. SupportsIdentityAgent(sshVersion) => SupportsIdentityAgent(v)
    BY <1>11, NewerSupports DEF FileInv
  <2> QED BY <2>1, <2>2 DEF FileInv
<1>12. CASE Interrupt
  <2>1. /\ UNCHANGED <<config, bak, uninstBak, sshVersion, torn>> /\ forced' = forced
        /\ buf' = [buf EXCEPT ![Kr] = NoBuf] /\ todo' = [todo EXCEPT ![Kr] = <<>>]
    BY <1>12 DEF Interrupt
  <2>2. Forgets
    BY <2>1, KeepsBuffers, KrAssumption
  <2>3. todo'[Kr] = <<>>
    BY <2>1, KrAssumption DEF ScriptInv, Procs
  <2> QED BY <1>0, <2>1, <2>2, <2>3, EmptyScript, FileFrame
<1>13. CASE Next
  BY <1>1, <1>2, <1>3, <1>5, <1>6, <1>7, <1>8, <1>9, <1>10, <1>11, <1>12, <1>13, Zenon DEF Next
<1> QED BY <1>10, <1>13

-----------------------------------------------------------------------------
(* The user's lines.  A process is as far in a rewrite as it was:          *)
SameRewrite(p) == \A step \in Rewriting : At(p, step)' <=> At(p, step)

NoRewrite(p) == \A step \in Rewriting : ~At(p, step)'

LEMMA InOrderOf ==
  ASSUME ScriptInv, NEW p \in Procs
  PROVE  InOrder(todo[p]) /\ todo[p] \in Seq(AnyStep)
BY DEF ScriptInv, ClientScript, KrdScript, Procs

LEMMA PlainHead ==
  ASSUME NEW s \in Seq(AnyStep), Plain(s), s # <<>>
  PROVE  Head(s) \notin Rewriting
<1>1. ToSet(s) = {Head(s)} \cup ToSet(Tail(s))
  BY HeadTail
<1> QED BY <1>1 DEF Plain

LEMMA PlainStep ==
  ASSUME ScriptInv', NEW p \in Procs, Plain(todo'[p])
  PROVE  NoRewrite(p)
<1>1. todo'[p] \in Seq(AnyStep)
  BY DEF ScriptInv
<1> QED BY <1>1, PlainHead DEF NoRewrite, At

(* A step that is not part of a rewrite, and starts none.                  *)
LEMMA QuietStep ==
  ASSUME ScriptInv, ScriptInv', NEW p \in Procs, todo[p] # <<>>, Head(todo[p]) \notin Rewriting,
         NEW steps, Moves(p, steps), ToSet(steps) \cap Rewriting = {}
  PROVE  SameRewrite(p) /\ NoRewrite(p)
<1>1. InOrder(todo[p]) /\ todo[p] \in Seq(AnyStep)
  BY InOrderOf
<1>2. Plain(todo[p])
  BY <1>1, TailInOrder
<1>3. Plain(todo'[p])
  BY <1>2 DEF Moves, Plain
<1>4. NoRewrite(p)
  BY <1>3, PlainStep
<1> QED BY <1>4 DEF SameRewrite, NoRewrite, At

LEMMA SameScript ==
  ASSUME NEW p, todo'[p] = todo[p]
  PROVE  SameRewrite(p)
BY DEF SameRewrite, At

LEMMA EndedScript ==
  ASSUME NEW p, todo'[p] = <<>>
  PROVE  NoRewrite(p)
BY DEF NoRewrite, At

(* Processes that are cut short while nobody writes.                       *)
LEMMA LinesFrame ==
  ASSUME LinesInv, config' = config, bak' = bak, uninstBak' = uninstBak, torn' = torn, NEW dead,
         \A p \in Editors \ dead : buf'[p] = buf[p] /\ SameRewrite(p),
         \A p \in Editors \cap dead : NoRewrite(p),
         atRisk' \in BOOLEAN, atRisk => atRisk',
         ~atRisk' => \A p \in Editors \cap dead : At(p, "write") => BackedUp
  PROVE  LinesInv'
<1> SUFFICES ASSUME ~atRisk'
             PROVE  /\ \A p \in Editors : (AtOneOf(p, Rewriting))' =>
                          Contains(buf'[p].old, "user") /\ Contains(buf'[p].new, "user")
                    /\ ~torn' => Contains(config', "user")
                    /\ torn' => BackedUp' \/ \E p \in Editors : At(p, "write")'
                    /\ (AtOneOf(Kr, {"truncate", "write"}))' => BackedUp' \/ IsMigration(buf'[Kr])
  BY DEF LinesInv
<1>1. /\ \A p \in Editors : AtOneOf(p, Rewriting) =>
            Contains(buf[p].old, "user") /\ Contains(buf[p].new, "user")
      /\ ~torn => Contains(config, "user")
      /\ torn => BackedUp \/ \E p \in Editors : At(p, "write")
      /\ AtOneOf(Kr, {"truncate", "write"}) => BackedUp \/ IsMigration(buf[Kr])
  BY DEF LinesInv
<1>2. BackedUp' <=> BackedUp
  BY DEF BackedUp
<1>3. ASSUME NEW p \in Editors, (AtOneOf(p, Rewriting))'
      PROVE  p \notin dead /\ buf'[p] = buf[p] /\ AtOneOf(p, Rewriting)
  BY <1>3 DEF AtOneOf, SameRewrite, NoRewrite
<1>4. torn' => BackedUp' \/ \E p \in Editors : At(p, "write")'
  <2> SUFFICES ASSUME torn, ~BackedUp PROVE \E p \in Editors : At(p, "write")'
    BY <1>2
  <2>1. PICK p \in Editors : At(p, "write")
    BY <1>1
  <2>2. p \notin dead
    BY <2>1
  <2> QED BY <2>1, <2>2 DEF SameRewrite, Rewriting
<1>5. (AtOneOf(Kr, {"truncate", "write"}))' => BackedUp' \/ IsMigration(buf'[Kr])
  <2> SUFFICES ASSUME NEW step \in {"truncate", "write"}, At(Kr, step)'
               PROVE  BackedUp \/ IsMigration(buf'[Kr])
    BY <1>2 DEF AtOneOf
  <2>1. step \in Rewriting /\ Kr \in Editors
    BY KrAssumption DEF Rewriting
  <2>2. Kr \notin dead /\ At(Kr, step) /\ buf'[Kr] = buf[Kr]
    BY <2>1 DEF SameRewrite, NoRewrite
  <2> QED BY <1>1, <2>2 DEF AtOneOf
<1> QED BY <1>1, <1>3, <1>4, <1>5

LEMMA LinesInit == Init => LinesInv
<1> SUFFICES ASSUME Init PROVE LinesInv
  OBVIOUS
<1>1. /\ config \in {<<"user">>, <<"user", "pkcs11ite">>} /\ torn = FALSE /\ atRisk = FALSE
      /\ todo = [p \in Procs |-> <<>>]
  BY DEF Init, ConfigInit
<1>2. Contains(config, "user")
  <2>1. CASE config = <<"user">>
    BY <2>1 DEF Contains
  <2>2. CASE config = <<"user", "pkcs11ite">>
    BY <2>2 DEF Contains
  <2> QED BY <1>1, <2>1, <2>2
<1>3. \A p \in Editors : todo[p] = <<>> /\ Kr \in Editors
  BY <1>1, EditorIs, KrAssumption
<1>4. \A p \in Editors : \A step : ~At(p, step)
  BY <1>3 DEF At
<1> QED BY <1>1, <1>2, <1>4, KrAssumption DEF LinesInv, AtOneOf

(* What a step of krd or of a client does to the rewrites.                 *)
LEMMA DialRewrites ==
  ASSUME ScriptInv, NEW c \in Clients, NEW s, DialStep(c, s)
  PROVE  /\ \A p \in Procs \ (alive \ alive') : SameRewrite(p)
         /\ \A p \in alive \ alive' : NoRewrite(p)
<1>0. ScriptInv' /\ c \in Procs /\ c \notin Krds /\ alive \subseteq Krds
  <2>1. ScriptInv'
    BY StartMoves, KillMoves, WaitCalls, EnsureCalls, ConnectCalls, PingCalls, Zenon DEF DialStep
  <2> QED BY <2>1, KrAssumption DEF Procs, ScriptInv
<1>1. ASSUME todo[c] # <<>>, Head(todo[c]) \in DialSteps, todo'[c] = Tail(todo[c]) PROVE SameRewrite(c)
  <2>1. InOrder(todo[c]) /\ todo[c] \in Seq(AnyStep) /\ Head(todo[c]) \notin Rewriting
    BY <1>0, <1>1, InOrderOf DEF DialSteps, Rewriting
  <2>2. Plain(todo[c])
    BY <1>1, <2>1, TailInOrder
  <2>3. ToSet(todo[c]) = {Head(todo[c])} \cup ToSet(Tail(todo[c]))
    BY <1>1, <2>1, HeadTail
  <2>4. Plain(todo'[c])
    BY <1>1, <2>2, <2>3 DEF Plain
  <2>5. NoRewrite(c)
    BY <1>0, <2>4, PlainStep
  <2> QED BY <2>1, <2>5 DEF NoRewrite, SameRewrite, At
<1>2. ASSUME alive' = alive, \A p \in Procs \ {c} : todo'[p] = todo[p], SameRewrite(c)
      PROVE  /\ \A p \in Procs \ (alive \ alive') : SameRewrite(p)
             /\ \A p \in alive \ alive' : NoRewrite(p)
  BY <1>2, SameScript
<1>3. ASSUME NEW steps, Moves(c, steps), todo[c] # <<>>, Head(todo[c]) \in DialSteps,
             Calls(Head(todo[c]), steps), alive' = alive
      PROVE  /\ \A p \in Procs \ (alive \ alive') : SameRewrite(p)
             /\ \A p \in alive \ alive' : NoRewrite(p)
  <2>1. ToSet(steps) \cap Rewriting = {}
    BY <1>3, CallsAdd DEF Adds, DialSteps, Rewriting
  <2>2. SameRewrite(c)
    BY <1>0, <1>3, <2>1, QuietStep DEF DialSteps, Rewriting
  <2> QED BY <1>2, <1>3, <2>2 DEF Moves
<1>4. ASSUME Fails(c), At(c, "ping") \/ At(c, "reconnect"), alive' = alive
      PROVE  /\ \A p \in Procs \ (alive \ alive') : SameRewrite(p)
             /\ \A p \in alive \ alive' : NoRewrite(p)
  <2>1. PICK x : x = <<"failed">>
    OBVIOUS
  <2>2. todo'[c] = x /\ Plain(x)
    BY <1>4, <2>1, FailedScript DEF Fails
  <2>3. NoRewrite(c)
    BY <1>0, <2>2, PlainStep
  <2>4. SameRewrite(c)
    BY <1>4, <2>3 DEF NoRewrite, SameRewrite, At, Rewriting
  <2> QED BY <1>2, <1>4, <2>4 DEF Fails
<1>5. ASSUME NEW k \in Krds, StartKrd(c, k)
      PROVE  /\ \A p \in Procs \ (alive \ alive') : SameRewrite(p)
             /\ \A p \in alive \ alive' : NoRewrite(p)
  <2>1. /\ todo'[c] = Tail(todo[c]) /\ todo'[k] = Main
        /\ \A p \in Procs \ {c, k} : todo'[p] = todo[p]
    BY <1>5, StartMoves
  <2>2. /\ todo[c] # <<>> /\ Head(todo[c]) \in DialSteps /\ k \notin alive /\ alive' = alive \cup {k}
    BY <1>5 DEF StartKrd, At, DialSteps
  <2>3. SameRewrite(c)
    BY <1>1, <2>1, <2>2
  <2>4. SameRewrite(k)
    <3>1. todo[k] = <<>>
      BY <2>2 DEF ScriptInv
    <3>2. Main # <<>> /\ Head(Main) = "upgrade"
      BY MainScript
    <3> QED BY <2>1, <3>1, <3>2 DEF SameRewrite, At, Rewriting
  <2> QED BY <2>1, <2>2, <2>3, <2>4, SameScript
<1>6. ASSUME KillKrd(c)
      PROVE  /\ \A p \in Procs \ (alive \ alive') : SameRewrite(p)
             /\ \A p \in alive \ alive' : NoRewrite(p)
  <2>1. /\ todo'[c] = Tail(todo[c])
        /\ \A d \in Clients \ {c} : todo'[d] = todo[d]
        /\ \A k \in alive' : todo'[k] = <<"stop">> /\ k \in alive
        /\ \A k \in Krds \ alive' : todo'[k] = <<>>
    BY <1>6, KillMoves
  <2>2. /\ todo[c] # <<>> /\ Head(todo[c]) \in DialSteps
        /\ alive' = alive \ {k \in alive : ~At(k, "up") /\ ~At(k, "stop")}
    BY <1>6 DEF KillKrd, At, DialSteps
  <2>3. SameRewrite(c)
    BY <1>1, <2>1, <2>2
  <2>4. \A k \in alive \ alive' : NoRewrite(k)
    BY <1>0, <2>1, EndedScript
  <2>5. ASSUME NEW k \in Krds, k \notin alive PROVE SameRewrite(k)
    <3>1. todo'[k] = <<>> /\ todo[k] = <<>>
      BY <2>1, <2>2, <2>5 DEF ScriptInv
    <3> QED BY <3>1 DEF SameRewrite, At
  <2>6. ASSUME NEW k \in alive' PROVE SameRewrite(k)
    <3>1. Head(<<"stop">>) = "stop"
      OBVIOUS
    <3>2. todo'[k] # <<>> /\ Head(todo'[k]) = "stop"
      BY <2>1, <3>1, MainScript
    <3>3. At(k, "up") \/ At(k, "stop")
      BY <2>1, <2>2
    <3> QED BY <3>2, <3>3 DEF SameRewrite, At, Rewriting
  <2>7. ASSUME NEW p \in Procs \ (alive \ alive') PROVE SameRewrite(p)
    <3>1. CASE p \in Clients
      BY <2>1, <2>3, <3>1, SameScript
    <3>2. CASE p \in Krds
      BY <2>5, <2>6, <2>7, <3>2
    <3> QED BY <3>1, <3>2 DEF Procs
  <2> QED BY <2>4, <2>7
<1>7. ASSUME Wait(c)
      PROVE  /\ \A p \in Procs \ (alive \ alive') : SameRewrite(p)
             /\ \A p \in alive \ alive' : NoRewrite(p)
  <2>1. Moves(c, <<>>) /\ todo[c] # <<>> /\ Head(todo[c]) \in DialSteps /\ alive' = alive
    BY <1>7, WaitCalls DEF Wait, At, DialSteps
  <2> QED BY <1>3, <2>1, NothingCalled
<1>8. ASSUME EnsureRunning(c, "ensure", <<>>) \/ DaemonDial(c)
      PROVE  /\ \A p \in Procs \ (alive \ alive') : SameRewrite(p)
             /\ \A p \in alive \ alive' : NoRewrite(p)
  <2>1. /\ UNCHANGED daemonVars /\ todo[c] # <<>>
        /\ \E steps : Moves(c, steps) /\ Calls(Head(todo[c]), steps) /\ (At(c, "ensure") \/ At(c, "dial"))
    BY <1>8, EnsureCalls, Zenon
  <2>2. Head(todo[c]) \in DialSteps /\ alive' = alive
    BY <2>1 DEF At, DialSteps, daemonVars
  <2> QED BY <1>3, <2>1, <2>2
<1>9. ASSUME Connect(c, s)
      PROVE  /\ \A p \in Procs \ (alive \ alive') : SameRewrite(p)
             /\ \A p \in alive \ alive' : NoRewrite(p)
  <2> DEFINE steps == <<"kill", "wait", "start", "wait", "reconnect">>
  <2>1. /\ UNCHANGED daemonVars /\ todo[c] # <<>> /\ (At(c, "connect") \/ At(c, "reconnect"))
        /\ Moves(c, <<>>) \/ (At(c, "connect") /\ Moves(c, steps)) \/ (At(c, "reconnect") /\ Fails(c))
    BY <1>9, ConnectCalls, Zenon
  <2>2. At(c, "connect") => Calls(Head(todo[c]), steps)
    BY DEF Calls, At
  <2>3. Head(todo[c]) \in DialSteps /\ alive' = alive
    BY <2>1 DEF At, DialSteps, daemonVars
  <2> HIDE DEF steps
  <2>4. CASE Moves(c, <<>>)
    BY <1>3, <2>1, <2>3, <2>4, NothingCalled
  <2>5. CASE At(c, "connect") /\ Moves(c, steps)
    BY <1>3, <2>1, <2>2, <2>3, <2>5
  <2>6. CASE At(c, "reconnect") /\ Fails(c)
    BY <1>4, <2>3, <2>6
  <2> QED BY <2>1, <2>4, <2>5, <2>6
<1>10. ASSUME Ping(c, s)
      PROVE  /\ \A p \in Procs \ (alive \ alive') : SameRewrite(p)
             /\ \A p \in alive \ alive' : NoRewrite(p)
  <2>1. /\ UNCHANGED daemonVars /\ todo[c] # <<>> /\ At(c, "ping") /\ (Moves(c, <<>>) \/ Fails(c))
    BY <1>10, PingCalls, Zenon
  <2>3. Head(todo[c]) \in DialSteps /\ alive' = alive
    BY <2>1 DEF At, DialSteps, daemonVars
  <2>4. CASE Moves(c, <<>>)
    BY <1>3, <2>1, <2>3, <2>4, NothingCalled
  <2>6. CASE Fails(c)
    BY <1>4, <2>1, <2>3, <2>6
  <2> QED BY <2>1, <2>4, <2>6
<1> QED BY <1>5, <1>6, <1>7, <1>8, <1>9, <1>10, Zenon DEF DialStep

LEMMA KrdRewrites ==
  ASSUME ScriptInv, NEW k \in Krds, KrdStep(k) \/ Crash(k)
  PROVE  /\ \A p \in Procs \ (alive \ alive') : SameRewrite(p)
         /\ \A p \in alive \ alive' : NoRewrite(p)
<1>0. /\ \A p \in Procs \ {k} : SameRewrite(p)
      /\ k \in Procs /\ alive \subseteq Krds
  BY KrdTurn, SameScript DEF Procs, ScriptInv
<1>1. ASSUME todo'[k] = <<>>, alive' = alive \ {k}, k \in alive
      PROVE  /\ \A p \in Procs \ (alive \ alive') : SameRewrite(p)
             /\ \A p \in alive \ alive' : NoRewrite(p)
  BY <1>0, <1>1, EndedScript
<1>2. ASSUME todo[k] # <<>> PROVE k \in alive
  BY <1>2 DEF ScriptInv
<1>3. ASSUME NEW s \in Sockets, Listen(k, s)
      PROVE  /\ \A p \in Procs \ (alive \ alive') : SameRewrite(p)
             /\ \A p \in alive \ alive' : NoRewrite(p)
  <2>1. ScriptInv' /\ Moves(k, <<>>) /\ todo[k] # <<>> /\ Head(todo[k]) \notin Rewriting
    BY <1>3, ListenCalls DEF Sockets, Rewriting
  <2>2. SameRewrite(k) /\ alive' = alive
    BY <1>0, <1>3, <2>1, EmptyScript, QuietStep DEF Listen
  <2> QED BY <1>0, <2>2
<1>4. CASE Exit(k)
  <2>1. todo'[k] = <<>> /\ alive' = alive \ {k} /\ todo[k] # <<>>
    BY <1>4, ExitCalls DEF Exit, At
  <2> QED BY <1>1, <1>2, <2>1
<1>5. ASSUME NEW s \in Sockets, ListenFails(k, s)
      PROVE  /\ \A p \in Procs \ (alive \ alive') : SameRewrite(p)
             /\ \A p \in alive \ alive' : NoRewrite(p)
  <2>1. alive' = alive \ {k} /\ todo[k] # <<>> /\ todo' = [todo EXCEPT ![k] = <<>>]
    BY <1>5 DEF ListenFails, At
  <2>2. todo'[k] = <<>>
    BY <2>1, KrdEnds
  <2> QED BY <1>1, <1>2, <2>1, <2>2
<1>6. CASE Crash(k)
  <2>1. alive' = alive \ {k} /\ k \in alive /\ todo' = [todo EXCEPT ![k] = <<>>]
    BY <1>6 DEF Crash
  <2>2. todo'[k] = <<>>
    BY <2>1, KrdEnds
  <2> QED BY <1>1, <2>1, <2>2
<1> QED BY <1>3, <1>4, <1>5, <1>6 DEF KrdStep

(* A read that ends in a rewrite: what was read has the user's lines, or   *)
(* the file was truncated at the time and they are at risk.                *)
LEMMA LinesReads ==
  ASSUME ScriptInv, FileInv, LinesInv, alive' = alive, NEW p \in Editors, NEW writes \in BOOLEAN,
         NEW new, NEW steps, Reads(p, writes, new, steps), todo[p] # <<>>,
         EditKind(Head(todo[p]), steps),
         atRisk' = (atRisk \/ (torn /\ Len(todo'[p]) > Len(todo[p]))),
         Contains(config, "user") => Contains(new, "user"),
         p = Kr /\ writes /\ Contains(config, "user") =>
            Head(steps) \in {"backup", "backupUninstall"} \/ (new # config /\ new = Migrated(config))
  PROVE  LinesInv'
<1> DEFINE x == IF writes THEN steps ELSE <<>>
<1>1. ScriptInv' /\ Moves(p, x) /\ p \in Procs
  BY ReadsMoves, EditorIs
<1>2. config' = config /\ bak' = bak /\ uninstBak' = uninstBak /\ torn' = torn
  BY DEF Reads
<1>3. \A q \in Editors : q # p => SameRewrite(q)
  BY <1>1, EditorIs, SameScript DEF Moves
<1>4. Head(todo[p]) \notin Rewriting
  BY DEF EditKind, Rewriting
<1>5. atRisk' \in BOOLEAN /\ (atRisk => atRisk') /\ torn \in BOOLEAN
  BY DEF FileInv
<1>6. CASE ~writes
  <2>1. buf' = buf /\ x = <<>>
    BY <1>6 DEF Reads, FileInv
  <2> HIDE DEF x
  <2>2. SameRewrite(p)
    BY <1>1, <1>4, <2>1, QuietStep, EmptyScript
  <2>3. \A q \in Editors \ {} : buf'[q] = buf[q] /\ SameRewrite(q)
    BY <1>3, <2>1, <2>2
  <2>4. \A q \in Editors \cap {} : NoRewrite(q)
    OBVIOUS
  <2>5. ~atRisk' => \A q \in Editors \cap {} : At(q, "write") => BackedUp
    OBVIOUS
  <2> QED BY <1>2, <1>5, <2>3, <2>4, <2>5, LinesFrame
<1>7. CASE writes
  <2>1. x = steps /\ buf' = [buf EXCEPT ![p] = [old |-> config, new |-> new]]
    BY <1>7 DEF Reads
  <2> HIDE DEF x
  <2>2. /\ buf'[p].old = config /\ buf'[p].new = new
        /\ \A q \in Editors : q # p => buf'[q] = buf[q]
    BY <2>1 DEF FileInv
  <2>3. steps \in Seq(AnyStep) /\ steps # <<>> /\ Len(steps) > 1 /\ steps \in Rewrites
    <3>1. CASE steps = <<"truncate", "write">>
      BY <3>1 DEF AnyStep, ClientSteps, Rewriting, Rewrites
    <3>2. CASE steps = <<"backup", "truncate", "write">>
      BY <3>2 DEF AnyStep, ClientSteps, Rewriting, Rewrites
    <3>3. CASE steps = <<"backupUninstall", "truncate", "write">>
      BY <3>3 DEF AnyStep, ClientSteps, Rewriting, Rewrites
    <3> QED BY <3>1, <3>2, <3>3 DEF EditKind, Rewrites
  <2>4. Len(todo'[p]) > Len(todo[p])
    <3>1. /\ Len(todo'[p]) = Len(steps) + Len(todo[p]) - 1
          /\ Len(steps) \in Nat /\ Len(todo[p]) \in Nat /\ Len(steps) > 1
      BY <1>1, <2>1, <2>3, HeadOf DEF Moves
    <3> QED BY <3>1
  <2>5. Head(todo'[p]) = Head(steps)
    <3>1. todo'[p] = After(steps, todo[p]) /\ todo[p] \in Seq(AnyStep)
      BY <1>1, <2>1, HeadOf DEF Moves
    <3> QED BY <2>3, <3>1, AfterTail
  <2> SUFFICES ASSUME ~atRisk' PROVE LinesInv'
    BY <1>5 DEF LinesInv
  <2>6. ~atRisk /\ ~torn
    BY <1>5, <2>4
  <2>7. Contains(config, "user") /\ Contains(new, "user")
    BY <2>6 DEF LinesInv
  <2>8. ASSUME NEW q \in Editors, (AtOneOf(q, Rewriting))'
        PROVE  Contains(buf'[q].old, "user") /\ Contains(buf'[q].new, "user")
    <3>1. CASE q = p
      BY <2>2, <2>7, <3>1
    <3>2. CASE q # p
      BY <1>3, <2>2, <2>6, <2>8, <3>2 DEF LinesInv, AtOneOf, SameRewrite
    <3> QED BY <3>1, <3>2
  <2>9. (AtOneOf(Kr, {"truncate", "write"}))' => BackedUp' \/ IsMigration(buf'[Kr])
    <3> SUFFICES ASSUME NEW step \in {"truncate", "write"}, At(Kr, step)'
                 PROVE  BackedUp' \/ IsMigration(buf'[Kr])
      BY DEF AtOneOf
    <3>1. CASE p = Kr
      <4>1. Head(steps) = step
        BY <2>5, <3>1 DEF At
      <4>2. new # config /\ new = Migrated(config)
        BY <1>7, <2>7, <3>1, <4>1
      <4> QED BY <2>2, <3>1, <4>2 DEF IsMigration
    <3>2. CASE p # Kr
      <4>1. step \in Rewriting /\ Kr \in Editors
        BY KrAssumption DEF Rewriting
      <4>2. At(Kr, step) /\ buf'[Kr] = buf[Kr]
        BY <1>3, <2>2, <3>2, <4>1 DEF SameRewrite
      <4>3. BackedUp \/ IsMigration(buf[Kr])
        BY <2>6, <4>2 DEF LinesInv, AtOneOf
      <4> QED BY <1>2, <4>2, <4>3 DEF BackedUp
    <3> QED BY <3>1, <3>2
  <2> QED BY <1>2, <1>5, <2>6, <2>7, <2>8, <2>9 DEF LinesInv
<1> QED BY <1>6, <1>7

(* The steps of a rewrite follow one another.                              *)
LEMMA RewriteMoves ==
  ASSUME ScriptInv, NEW p \in Editors, Done(p), todo[p] # <<>>, Head(todo[p]) \in Rewriting,
         alive' = alive
  PROVE  /\ ScriptInv' /\ Moves(p, <<>>)
         /\ Head(todo[p]) \in {"backup", "backupUninstall"} => At(p, "truncate")'
         /\ Head(todo[p]) = "truncate" => At(p, "write")'
         /\ Head(todo[p]) = "write" => NoRewrite(p)
<1>1. ScriptInv' /\ Moves(p, <<>>) /\ p \in Procs
  BY EditDone, EditorIs
<1>2. InOrder(todo[p]) /\ todo[p] \in Seq(AnyStep)
  BY <1>1, InOrderOf
<1>3. todo'[p] = Tail(todo[p])
  BY <1>1, <1>2, AfterNothing DEF Moves
<1>4. /\ Head(todo[p]) = "write" => Plain(Tail(todo[p]))
      /\ Head(todo[p]) = "truncate" => Writing(Tail(todo[p]))
      /\ Head(todo[p]) \in {"backup", "backupUninstall"} => Truncating(Tail(todo[p]))
  BY <1>2, TailInOrder
<1>5. Head(todo[p]) \in {"backup", "backupUninstall"} => At(p, "truncate")'
  BY <1>3, <1>4 DEF Truncating, At
<1>6. Head(todo[p]) = "truncate" => At(p, "write")'
  BY <1>3, <1>4 DEF Writing, At
<1>7. Head(todo[p]) = "write" => NoRewrite(p)
  BY <1>1, <1>3, <1>4, PlainStep
<1> QED BY <1>1, <1>5, <1>6, <1>7

LEMMA WriteKeepsLines ==
  ASSUME ScriptInv, FileInv, LinesInv, alive' = alive, NEW p \in Editors, WriteFile(p),
         atRisk' \in BOOLEAN, atRisk => atRisk'
  PROVE  LinesInv'
<1> SUFFICES ASSUME ~atRisk'
             PROVE  /\ \A q \in Editors : (AtOneOf(q, Rewriting))' =>
                          Contains(buf'[q].old, "user") /\ Contains(buf'[q].new, "user")
                    /\ ~torn' => Contains(config', "user")
                    /\ torn' => BackedUp' \/ \E q \in Editors : At(q, "write")'
                    /\ (AtOneOf(Kr, {"truncate", "write"}))' => BackedUp' \/ IsMigration(buf'[Kr])
  BY DEF LinesInv
<1>1. /\ \A q \in Editors : AtOneOf(q, Rewriting) =>
            Contains(buf[q].old, "user") /\ Contains(buf[q].new, "user")
      /\ ~torn => Contains(config, "user")
      /\ torn => BackedUp \/ \E q \in Editors : At(q, "write")
      /\ AtOneOf(Kr, {"truncate", "write"}) => BackedUp \/ IsMigration(buf[Kr])
  BY DEF LinesInv
<1>2. todo[p] # <<>> /\ Head(todo[p]) \in Rewriting /\ Done(p)
  BY DEF WriteFile, At, Rewriting
<1>3. /\ Moves(p, <<>>)
      /\ Head(todo[p]) \in {"backup", "backupUninstall"} => At(p, "truncate")'
      /\ Head(todo[p]) = "truncate" => At(p, "write")'
      /\ Head(todo[p]) = "write" => NoRewrite(p)
  BY <1>2, RewriteMoves
<1>4. \A q \in Editors : q # p => SameRewrite(q)
  BY <1>3, EditorIs, SameScript DEF Moves
<1>5. AtOneOf(p, Rewriting) /\ Contains(buf[p].old, "user") /\ Contains(buf[p].new, "user")
  <2>1. AtOneOf(p, Rewriting)
    BY <1>2 DEF AtOneOf, At
  <2> QED BY <1>1, <2>1
<1>6. ASSUME buf' = buf
      PROVE  \A q \in Editors : (AtOneOf(q, Rewriting))' =>
                          Contains(buf'[q].old, "user") /\ Contains(buf'[q].new, "user")
  <2> SUFFICES ASSUME NEW q \in Editors, (AtOneOf(q, Rewriting))'
               PROVE  Contains(buf[q].old, "user") /\ Contains(buf[q].new, "user")
    BY <1>6
  <2>1. AtOneOf(q, Rewriting)
    BY <1>4, <1>5 DEF AtOneOf, SameRewrite
  <2> QED BY <1>1, <2>1
<1>7. ASSUME NEW step \in {"truncate", "write"}, At(Kr, step)', p # Kr
      PROVE  BackedUp \/ IsMigration(buf[Kr])
  <2>1. step \in Rewriting /\ Kr \in Editors
    BY KrAssumption DEF Rewriting
  <2>2. At(Kr, step)
    BY <1>4, <1>7, <2>1 DEF SameRewrite
  <2> QED BY <1>1, <2>2 DEF AtOneOf
<1>8. CASE /\ At(p, "backup") \/ At(p, "backupUninstall")
           /\ bak' = buf[p].old \/ uninstBak' = buf[p].old
           /\ config' = config /\ torn' = torn /\ buf' = buf
  <2>1. BackedUp'
    BY <1>5, <1>8 DEF BackedUp
  <2> QED BY <1>1, <1>6, <1>8, <2>1
<1>9. CASE /\ At(p, "truncate") /\ config' = <<>> /\ torn' = TRUE
           /\ bak' = bak /\ uninstBak' = uninstBak /\ buf' = buf
  <2>1. At(p, "write")'
    BY <1>3, <1>9 DEF At
  <2>2. BackedUp' <=> BackedUp
    BY <1>9 DEF BackedUp
  <2>3. (AtOneOf(Kr, {"truncate", "write"}))' => BackedUp' \/ IsMigration(buf'[Kr])
    <3>1. CASE p = Kr
      BY <1>1, <1>9, <2>2, <3>1 DEF AtOneOf
    <3>2. CASE p # Kr
      BY <1>7, <1>9, <2>2, <3>2 DEF AtOneOf
    <3> QED BY <3>1, <3>2
  <2> QED BY <1>6, <1>9, <2>1, <2>3
<1>10. CASE /\ At(p, "write") /\ config' = buf[p].new /\ torn' = FALSE
            /\ buf' = [buf EXCEPT ![p] = NoBuf] /\ bak' = bak /\ uninstBak' = uninstBak
  <2>1. NoRewrite(p)
    BY <1>3, <1>10 DEF At
  <2>2. \A q \in Editors : q # p => buf'[q] = buf[q]
    BY <1>10 DEF FileInv
  <2>3. BackedUp' <=> BackedUp
    BY <1>10 DEF BackedUp
  <2>4. ASSUME NEW q \in Editors, (AtOneOf(q, Rewriting))'
        PROVE  Contains(buf'[q].old, "user") /\ Contains(buf'[q].new, "user")
    <3>1. q # p
      BY <2>1, <2>4 DEF AtOneOf, NoRewrite
    <3>2. AtOneOf(q, Rewriting)
      BY <1>4, <2>4, <3>1 DEF AtOneOf, SameRewrite
    <3> QED BY <1>1, <2>2, <3>1, <3>2
  <2>5. (AtOneOf(Kr, {"truncate", "write"}))' => BackedUp' \/ IsMigration(buf'[Kr])
    <3> SUFFICES ASSUME NEW step \in {"truncate", "write"}, At(Kr, step)'
                 PROVE  BackedUp' \/ IsMigration(buf'[Kr])
      BY DEF AtOneOf
    <3>1. p # Kr
      BY <2>1 DEF NoRewrite, Rewriting
    <3>2. buf'[Kr] = buf[Kr]
      BY <2>2, <3>1, KrAssumption
    <3> QED BY <1>7, <2>3, <3>1, <3>2
  <2> QED BY <1>5, <1>10, <2>4, <2>5
<1> QED BY <1>8, <1>9, <1>10 DEF WriteFile

LEMMA LinesStay ==
  ASSUME LinesInv, UNCHANGED <<config, bak, uninstBak, torn, buf>>,
         \A p \in Editors : SameRewrite(p), atRisk' \in BOOLEAN, atRisk => atRisk'
  PROVE  LinesInv'
<1>1. \A q \in Editors \ {} : buf'[q] = buf[q] /\ SameRewrite(q)
  OBVIOUS
<1>2. \A q \in Editors \cap {} : NoRewrite(q)
  OBVIOUS
<1>3. ~atRisk' => \A q \in Editors \cap {} : At(q, "write") => BackedUp
  OBVIOUS
<1>4. config' = config /\ bak' = bak /\ uninstBak' = uninstBak /\ torn' = torn
  OBVIOUS
<1> QED BY <1>1, <1>2, <1>3, <1>4, LinesFrame

LEMMA EditKeepsLines ==
  ASSUME ScriptInv, FileInv, LinesInv, alive' = alive, NEW p \in Editors, EditStep(p),
         atRisk' = (atRisk \/ (torn /\ Len(todo'[p]) > Len(todo[p])))
  PROVE  LinesInv'
<1>1. atRisk' \in BOOLEAN /\ (atRisk => atRisk') /\ Fits(config)
  BY DEF FileInv
<1>2. KrSSHConfigBlock \in {"agent", "pkcs11"}
  BY DEF KrSSHConfigBlock
<1>3. Contains(config, "user") => config # <<>>
  BY EmptyFile
<1>4. ASSUME NEW f \in BOOLEAN, EditSSHConfig(p, f) PROVE LinesInv'
  <2> DEFINE b == KrSSHConfigBlock
             others == \E i \in DOMAIN config : config[i] \in Blocks
             w == ~Contains(config, b) /\ (others => f)
             steps == IF config = <<>> THEN <<"truncate", "write">>
                                       ELSE <<"backup", "truncate", "write">>
             new == Append(config, b)
  <2>1. Reads(p, w, new, steps) /\ At(p, IF f THEN "force" ELSE "edit")
    BY <1>4, Zenon DEF EditSSHConfig
  <2>2. Contains(config, "user") => Contains(new, "user")
    <3>1. /\ config \in Seq(Parts) /\ b \in Parts
      BY <1>1, <1>2 DEF Fits, Parts, Blocks
    <3> HIDE DEF b
    <3>2. Len(new) = Len(config) + 1 /\ \A i \in 1..Len(config) : new[i] = config[i] /\ Len(config) \in Nat
      BY <3>1
    <3> HIDE DEF new
    <3>3. \A i \in 1..Len(config) : i \in 1..Len(new)
      BY <3>2
    <3> QED BY <3>2, <3>3 DEF Contains
  <2>3. todo[p] # <<>> /\ Head(todo[p]) \in {"edit", "force"}
    BY <2>1 DEF At
  <2>4. EditKind(Head(todo[p]), steps)
    BY <2>3 DEF EditKind, Rewrites
  <2>5. Contains(config, "user") => Head(steps) = "backup"
    BY <1>3
  <2>6. w \in BOOLEAN
    OBVIOUS
  <2> HIDE DEF w, steps, b, others, new
  <2> QED BY <2>1, <2>2, <2>3, <2>4, <2>5, <2>6, LinesReads
<1>5. ASSUME MigrateSSHConfig(p) PROVE LinesInv'
  <2> DEFINE w == SupportsIdentityAgent(sshVersion) /\ Migrated(config) # config
             steps == <<"truncate", "write">>
             new == Migrated(config)
  <2>1. Reads(p, w, new, steps) /\ At(p, "migrate")
    BY <1>5, Zenon DEF MigrateSSHConfig
  <2>2. w \in BOOLEAN /\ (w => new # config /\ new = Migrated(config))
    BY DEF SupportsIdentityAgent
  <2>3. todo[p] # <<>> /\ Head(todo[p]) = "migrate"
    BY <2>1 DEF At
  <2>4. EditKind(Head(todo[p]), steps)
    BY <2>3 DEF EditKind, Rewrites
  <2>5. Contains(config, "user") => Contains(new, "user")
    BY <1>1, MigratedFits
  <2> HIDE DEF w, steps, new
  <2> QED BY <2>1, <2>2, <2>3, <2>4, <2>5, LinesReads
<1>6. ASSUME CleanSSHConfig(p) PROVE LinesInv'
  <2> DEFINE new == Only(config, Parts \ {KrSSHConfigBlock})
             steps == IF config = <<>> THEN <<"truncate", "write">>
                                       ELSE <<"backupUninstall", "truncate", "write">>
  <2>1. Reads(p, TRUE, new, steps) /\ At(p, "clean")
    BY <1>6, Zenon DEF CleanSSHConfig
  <2>2. Contains(config, "user") => Contains(new, "user")
    BY <1>1, <1>2, CleanedFits
  <2>3. todo[p] # <<>> /\ Head(todo[p]) = "clean"
    BY <2>1 DEF At
  <2>4. EditKind(Head(todo[p]), steps)
    BY <2>3 DEF EditKind, Rewrites
  <2>5. Contains(config, "user") => Head(steps) = "backupUninstall"
    BY <1>3
  <2> HIDE DEF new, steps
  <2> QED BY <2>1, <2>2, <2>3, <2>4, <2>5, LinesReads
<1>7. ASSUME UpgradeSSHConfig(p) PROVE LinesInv'
  <2> DEFINE new == ReplaceKryptoniteWithKrypton(config)
             w == new # config
             steps == <<"truncate", "write">>
  <2>1. Reads(p, w, new, steps) /\ At(p, "upgrade")
    BY <1>7, Zenon DEF UpgradeSSHConfig
  <2>2. w \in BOOLEAN
    OBVIOUS
  <2>3. Contains(config, "user") => Contains(new, "user")
    BY <1>1, ReplacedFits
  <2>4. todo[p] # <<>> /\ Head(todo[p]) = "upgrade"
    BY <2>1 DEF At
  <2>5. EditKind(Head(todo[p]), steps)
    BY <2>4 DEF EditKind
  <2>6. p # Kr
    BY <2>4, HeadOf, KrAssumption DEF ClientSteps, DialSteps, SigningSteps, RemovingSteps, Rewriting
  <2> HIDE DEF w, new, steps
  <2> QED BY <2>1, <2>2, <2>3, <2>4, <2>5, <2>6, LinesReads
<1>8. ASSUME EditDeclined(p) PROVE LinesInv'
  <2>1. /\ UNCHANGED <<config, bak, uninstBak, torn, buf>> /\ Done(p) /\ todo[p] # <<>>
        /\ Head(todo[p]) \in {"edit", "force"}
    BY <1>8 DEF EditDeclined, configVars, At
  <2>2. ScriptInv' /\ Moves(p, <<>>)
    BY <2>1, EditDone
  <2>3. SameRewrite(p)
    BY <2>1, <2>2, QuietStep, EmptyScript, EditorIs DEF Rewriting
  <2>4. \A q \in Editors : SameRewrite(q)
    BY <2>2, <2>3, EditorIs, SameScript DEF Moves
  <2> QED BY <1>1, <2>1, <2>4, LinesStay
<1>9. ASSUME WriteFile(p) PROVE LinesInv'
  BY <1>1, <1>9, WriteKeepsLines
<1> QED BY <1>4, <1>5, <1>6, <1>7, <1>8, <1>9 DEF EditStep

LEMMA LinesStep == ScriptInv /\ FileInv /\ LinesInv /\ [Next]_vars => LinesInv'
<1> SUFFICES ASSUME ScriptInv, FileInv, LinesInv, [Next]_vars PROVE LinesInv'
  OBVIOUS
<1>0. atRisk \in BOOLEAN /\ Kr \in Clients /\ Kr \in Procs /\ Kr \in Editors
  BY KrAssumption DEF LinesInv, Procs
<1>a. ScriptInv'
  BY ScriptStep
<1>b. ASSUME NEW c \in Clients, todo[c] = <<>> \/ (todo[c] # <<>> /\ Plain(todo[c])), Plain(todo'[c]),
             \A p \in Procs \ {c} : todo'[p] = todo[p]
      PROVE  \A p \in Editors : SameRewrite(p)
  <2>1. c \in Procs /\ todo[c] \in Seq(AnyStep)
    BY HeadOf DEF Procs
  <2>2. NoRewrite(c)
    BY <1>a, <1>b, <2>1, PlainStep
  <2>3. \A step \in Rewriting : ~At(c, step)
    BY <1>b, <2>1, PlainHead DEF At
  <2>4. SameRewrite(c)
    BY <2>2, <2>3 DEF SameRewrite, NoRewrite
  <2> QED BY <1>b, <2>4, SameScript, EditorIs
<1>1. ASSUME NEW command \in DOMAIN Commands, RunKr(command) PROVE LinesInv'
  <2>1. /\ UNCHANGED <<config, bak, uninstBak, torn, buf>> /\ atRisk' = atRisk
        /\ Begin(Kr, Commands[command]) /\ todo[Kr] = <<>>
    BY <1>1 DEF RunKr, Begin, configVars
  <2>2. /\ todo'[Kr] = Commands[command] /\ Opens(Commands[command], command)
        /\ \A p \in Procs \ {Kr} : todo'[p] = todo[p]
    BY <2>1, CommandOpens, BeginMoves, KrAssumption
  <2>3. Plain(todo'[Kr])
    BY <2>2 DEF Opens
  <2> QED BY <1>0, <1>b, <2>1, <2>2, <2>3, LinesStay
<1>2. ASSUME NEW c \in Clients, RunKrssh(c) PROVE LinesInv'
  <2>1. /\ UNCHANGED <<config, bak, uninstBak, torn, buf>> /\ atRisk' = atRisk
        /\ Begin(c, <<"dial">>) /\ todo[c] = <<>>
    BY <1>2 DEF RunKrssh, Begin, configVars, histories
  <2>2. /\ todo'[c] = <<"dial">> /\ Opens(<<"dial">>, "krssh")
        /\ \A p \in Procs \ {c} : todo'[p] = todo[p]
    BY <2>1, DialOpens, BeginMoves
  <2>3. Plain(todo'[c])
    BY <2>2 DEF Opens
  <2> QED BY <1>0, <1>b, <2>1, <2>2, <2>3, LinesStay
<1>3. ASSUME NEW c \in Clients, Failed(c) PROVE LinesInv'
  <2>1. /\ UNCHANGED <<config, bak, uninstBak, torn, buf>> /\ atRisk' = atRisk
        /\ todo[c] # <<>> /\ Expand(c, <<>>) /\ alive' = alive /\ Head(todo[c]) \notin Rewriting
    BY <1>3 DEF Failed, At, Done, configVars, histories, daemonVars, Rewriting
  <2>2. Moves(c, <<>>) /\ c \in Procs
    BY <2>1, NothingCalled, ClientMoves DEF Procs
  <2>3. SameRewrite(c)
    BY <1>a, <2>1, <2>2, EmptyScript, QuietStep
  <2>4. \A p \in Editors : SameRewrite(p)
    BY <2>2, <2>3, SameScript, EditorIs DEF Moves
  <2> QED BY <1>0, <2>1, <2>4, LinesStay
<1>4. ASSUME NEW step, NEW fault, DaemonStep(step, fault),
             \A p \in Procs \ (alive \ alive') : SameRewrite(p),
             \A p \in alive \ alive' : NoRewrite(p)
      PROVE  LinesInv'
  <2> DEFINE dead == alive \ alive'
  <2>1. config' = config /\ bak' = bak /\ uninstBak' = uninstBak /\ torn' = torn
    BY <1>4 DEF DaemonStep
  <2>2. /\ buf' = [p \in Editors |-> IF p \in dead THEN NoBuf ELSE buf[p]]
        /\ atRisk' = (atRisk \/ \E k \in dead : At(k, "write"))
    BY <1>4, Zenon DEF DaemonStep
  <2>3. \A p \in Editors \ dead : buf'[p] = buf[p] /\ SameRewrite(p)
    BY <1>4, <2>2, EditorIs
  <2>4. \A p \in Editors \cap dead : NoRewrite(p)
    BY <1>4
  <2>5. ~atRisk' => \A p \in Editors \cap dead : At(p, "write") => BackedUp
    BY <2>2
  <2>6. atRisk' \in BOOLEAN /\ (atRisk => atRisk')
    BY <2>2
  <2> HIDE DEF dead
  <2> QED BY <2>1, <2>3, <2>4, <2>5, <2>6, LinesFrame
<1>5. ASSUME NEW c \in Clients, DaemonStep(DialStep(c, SocketOf(c)), 0) PROVE LinesInv'
  <2>1. DialStep(c, SocketOf(c))
    BY <1>5 DEF DaemonStep
  <2>2. /\ \A p \in Procs \ (alive \ alive') : SameRewrite(p)
        /\ \A p \in alive \ alive' : NoRewrite(p)
    BY <2>1, DialRewrites
  <2> QED BY <1>4, <1>5, <2>2
<1>6. ASSUME NEW k \in Krds, DaemonStep(KrdStep(k), 0) PROVE LinesInv'
  <2>1. KrdStep(k)
    BY <1>6 DEF DaemonStep
  <2> QED BY <1>4, <1>6, <2>1, KrdRewrites
<1>7. ASSUME NEW k \in Krds, DaemonStep(Crash(k), 1) PROVE LinesInv'
  <2>1. Crash(k)
    BY <1>7 DEF DaemonStep
  <2> QED BY <1>4, <1>7, <2>1, KrdRewrites
<1>8. ASSUME NEW p \in Editors, Edit(p) PROVE LinesInv'
  BY <1>8, EditKeepsLines DEF Edit, daemonVars
<1>9. CASE GitStep(Kr) /\ UNCHANGED <<configVars, daemonVars, bounds, histories>>
  <2>1. UNCHANGED <<config, bak, uninstBak, torn, buf>> /\ atRisk' = atRisk
    BY <1>9 DEF configVars, histories
  <2>2. PICK steps : Moves(Kr, steps) /\ Calls(Head(todo[Kr]), steps) /\ todo[Kr] # <<>>
    BY <1>9, GitCalls
  <2>3. Head(todo[Kr]) \in GitSteps \cup {"onboard", "codesigning", "remove"}
    BY <1>9 DEF GitStep, SetGitConfig, OnboardAutoCommitSign, UninstallCodesigning, RemovePackage, At
  <2>4. Head(todo[Kr]) \notin Rewriting /\ ToSet(steps) \cap Rewriting = {}
    BY <2>2, <2>3, CallsAdd DEF Adds, GitSteps, Rewriting
  <2>5. SameRewrite(Kr)
    BY <1>0, <1>a, <2>2, <2>4, QuietStep
  <2>6. \A p \in Editors : SameRewrite(p)
    BY <2>2, <2>5, SameScript, EditorIs DEF Moves
  <2> QED BY <1>0, <2>1, <2>6, LinesStay
<1>10. CASE \/ InstallPackage /\ UNCHANGED <<configVars, daemonVars, bounds, histories>>
            \/ \E v \in Versions : UpgradeSsh(v) /\ UNCHANGED <<daemonVars, gitVars, bounds, histories>>
            \/ UNCHANGED vars
  <2>1. UNCHANGED <<config, bak, uninstBak, torn, buf>> /\ atRisk' = atRisk /\ todo' = todo
    BY <1>10 DEF configVars, histories, vars, InstallPackage, UpgradeSsh
  <2>2. \A p \in Editors : SameRewrite(p)
    BY <2>1, SameScript
  <2> QED BY <1>0, <2>1, <2>2, LinesStay
<1>11. CASE Interrupt
  <2>1. /\ config' = config /\ bak' = bak /\ uninstBak' = uninstBak /\ torn' = torn
        /\ buf' = [buf EXCEPT ![Kr] = NoBuf] /\ todo' = [todo EXCEPT ![Kr] = <<>>]
        /\ atRisk' = (atRisk \/ (At(Kr, "write") /\ IsMigration(buf[Kr])))
    BY <1>11 DEF Interrupt
  <2>2. todo'[Kr] = <<>> /\ \A p \in Procs \ {Kr} : todo'[p] = todo[p]
    BY <1>0, <2>1 DEF ScriptInv
  <2>3. \A p \in Editors \ {Kr} : buf'[p] = buf[p] /\ SameRewrite(p)
    BY <2>1, <2>2, SameScript, EditorIs DEF FileInv
  <2>4. \A p \in Editors \cap {Kr} : NoRewrite(p)
    BY <2>2, EndedScript
  <2>5. ~atRisk' => \A p \in Editors \cap {Kr} : At(p, "write") => BackedUp
    BY <2>1 DEF LinesInv, AtOneOf
  <2>6. atRisk' \in BOOLEAN /\ (atRisk => atRisk')
    BY <2>1
  <2> QED BY <2>1, <2>3, <2>4, <2>5, <2>6, LinesFrame
<1>12. CASE Next
  BY <1>1, <1>2, <1>3, <1>5, <1>6, <1>7, <1>8, <1>9, <1>10, <1>11, <1>12, Zenon DEF Next
<1> QED BY <1>10, <1>12

-----------------------------------------------------------------------------
(* Git.                                                                    *)
GitHeads == GitSteps \cup {"onboard", "codesigning", "remove"}

LEMMA GitScript ==
  ASSUME ScriptInv, todo[Kr] # <<>>
  PROVE  /\ ToSet(todo[Kr]) = {Head(todo[Kr])} \cup ToSet(Tail(todo[Kr]))
         /\ Head(todo[Kr]) \in SigningSteps => ToSet(todo[Kr]) \cap RemovingSteps = {}
         /\ Head(todo[Kr]) \in RemovingSteps => ToSet(todo[Kr]) \cap SigningSteps = {}
         /\ Head(todo[Kr]) = "remove" => "codesigning" \in ToSet(Tail(todo[Kr]))
         /\ Head(todo[Kr]) = "programUnset" =>
               "commitOff" \in ToSet(Tail(todo[Kr])) /\ "tagOff" \in ToSet(Tail(todo[Kr]))
         /\ Head(todo[Kr]) = "onboard" => "programKrgpg" \notin ToSet(todo[Kr])
<1> DEFINE s == todo[Kr]
           t == Tail(s)
<1>1. s \in Seq(ClientSteps) /\ SetsGit(s) /\ s # <<>>
  BY KrAssumption DEF ScriptInv, ClientScript
<1>2. /\ Head(s) = s[1] /\ t \in Seq(ClientSteps) /\ Len(t) = Len(s) - 1
      /\ Len(s) \in Nat /\ Len(s) > 0 /\ \A i \in 1..Len(t) : t[i] = s[i + 1]
      /\ ToSet(s) = {Head(s)} \cup ToSet(t)
  BY <1>1, HeadTail
<1> HIDE DEF s, t
<1>3. \A i \in 1..Len(t) : t[i] \in ToSet(t)
  BY <1>2, Members
<1>4. Head(s) = "remove" => "codesigning" \in ToSet(t)
  <2> SUFFICES ASSUME s[1] = "remove" PROVE "codesigning" \in ToSet(t)
    BY <1>2
  <2>1. 1 < Len(s) /\ s[2] = "codesigning"
    BY <1>1, <1>2 DEF SetsGit
  <2>2. 1 \in 1..Len(t) /\ t[1] = "codesigning"
    BY <1>2, <2>1
  <2> QED BY <1>3, <2>2
<1>5. Head(s) = "programUnset" => "commitOff" \in ToSet(t) /\ "tagOff" \in ToSet(t)
  <2> SUFFICES ASSUME s[1] = "programUnset" PROVE "commitOff" \in ToSet(t) /\ "tagOff" \in ToSet(t)
    BY <1>2
  <2>1. 2 < Len(s) /\ s[2] = "commitOff" /\ s[3] = "tagOff"
    BY <1>1, <1>2 DEF SetsGit
  <2>2. 1 \in 1..Len(t) /\ t[1] = "commitOff" /\ 2 \in 1..Len(t) /\ t[2] = "tagOff"
    BY <1>2, <2>1
  <2> QED BY <1>3, <2>2
<1>6. Head(s) = "onboard" => "programKrgpg" \notin ToSet(s)
  <2> SUFFICES ASSUME s[1] = "onboard", "programKrgpg" \in ToSet(s) PROVE FALSE
    BY <1>2
  <2>1. PICK j \in 1..Len(s) : s[j] = "programKrgpg"
    BY <1>1, Members
  <2>2. j < 1
    BY <1>1, <1>2, <2>1 DEF SetsGit
  <2> QED BY <2>1, <2>2
<1>7. ToSet(s) \cap SigningSteps = {} \/ ToSet(s) \cap RemovingSteps = {}
  BY <1>1 DEF SetsGit
<1> QED BY <1>2, <1>4, <1>5, <1>6, <1>7 DEF s, t

LEMMA GitStarts == Init => GitInv
<1> SUFFICES ASSUME Init PROVE GitInv
  OBVIOUS
<1>1. /\ \E p \in {"unset", "gpg"} : git = [program |-> p, commitSign |-> FALSE, tagSign |-> FALSE]
      /\ installed = TRUE /\ cut = FALSE /\ turnedOn = FALSE /\ todo = [p \in Procs |-> <<>>]
  BY DEF Init, GitInit
<1>2. /\ GitTypeOK /\ git.program # "krgpg" /\ git.commitSign = FALSE /\ git.tagSign = FALSE
  BY <1>1 DEF GitTypeOK
<1>3. ToSet(todo[Kr]) = {}
  <2>1. todo[Kr] = <<>>
    BY <1>1, KrAssumption DEF Procs
  <2> QED BY <2>1, EmptyScript
<1> QED BY <1>1, <1>2, <1>3 DEF GitInv

(* Steps that are not about git leave those of the script that are.        *)
LEMMA GitQuiet ==
  ASSUME ScriptInv, GitInv, KrTurn, UNCHANGED gitVars, turnedOn' = turnedOn, cut' = cut,
         todo'[Kr] = todo[Kr] \/ Head(todo[Kr]) \notin GitHeads
  PROVE  GitInv'
<1> DEFINE s == ToSet(todo[Kr])
           t == ToSet(todo'[Kr])
           R == GitSteps \cup {"onboard", "codesigning"}
<1>1. git' = git /\ installed' = installed
  BY DEF gitVars
<1>2. CASE t \cap R = s \cap R
  <2>1. \A step \in R : step \in t <=> step \in s
    BY <1>2
  <2> HIDE DEF s, t
  <2>2. /\ "programKrgpg" \in t <=> "programKrgpg" \in s
        /\ "onboard" \in t <=> "onboard" \in s
        /\ "tagOn" \in t <=> "tagOn" \in s
        /\ "commitOn" \in t <=> "commitOn" \in s
        /\ "codesigning" \in t <=> "codesigning" \in s
        /\ "programUnset" \in t <=> "programUnset" \in s
        /\ "commitOff" \in t <=> "commitOff" \in s
        /\ "tagOff" \in t <=> "tagOff" \in s
    BY <2>1 DEF GitSteps
  <2> QED BY <1>1, <2>2 DEF GitInv, s, t, GitTypeOK
<1>3. CASE Fails(Kr) /\ (At(Kr, "ping") \/ At(Kr, "reconnect"))
  <2>1. PICK x : x = <<"failed">>
    OBVIOUS
  <2>2. todo'[Kr] = x /\ ToSet(x) = {"failed"}
    BY <1>3, <2>1, FailedScript DEF Fails
  <2>3. todo[Kr] # <<>> /\ Head(todo[Kr]) \in SigningSteps
    BY <1>3 DEF At, SigningSteps
  <2>4. s \cap RemovingSteps = {}
    BY <2>3, GitScript
  <2>5. "codesigning" \notin s /\ "programUnset" \notin s /\ "commitOff" \notin s /\ "tagOff" \notin s
    BY <2>4 DEF RemovingSteps
  <2>6. t = {"failed"}
    BY <2>2
  <2> HIDE DEF s, t
  <2> QED BY <1>1, <2>5, <2>6 DEF GitInv, s, t, GitTypeOK
<1>4. ASSUME NEW S, todo[Kr] # <<>>, Adds(Head(todo[Kr]), S), t = S \cup ToSet(Tail(todo[Kr])),
             s = {Head(todo[Kr])} \cup ToSet(Tail(todo[Kr])), Head(todo[Kr]) \notin GitHeads
      PROVE  t \cap R = s \cap R
  <2>1. S \cap R = {}
    BY <1>4 DEF Adds, GitHeads, GitSteps, Rewriting
  <2>2. Head(todo[Kr]) \notin R
    BY <1>4 DEF GitHeads
  <2> QED BY <1>4, <2>1, <2>2
<1> QED BY <1>2, <1>3, <1>4 DEF KrTurn

LEMMA GitStepKeeps ==
  ASSUME ScriptInv, GitInv, GitStep(Kr), UNCHANGED daemonVars, turnedOn' = turnedOn, cut' = cut
  PROVE  GitInv'
<1> DEFINE s == ToSet(todo[Kr])
           r == ToSet(Tail(todo[Kr]))
           t == ToSet(todo'[Kr])
           h == Head(todo[Kr])
<1>1. todo[Kr] # <<>> /\ alive' = alive /\ Kr \in Clients
  BY GitCalls, KrAssumption DEF daemonVars
<1>2. /\ s = {h} \cup r
      /\ h \in SigningSteps => s \cap RemovingSteps = {}
      /\ h \in RemovingSteps => s \cap SigningSteps = {}
      /\ h = "remove" => "codesigning" \in r
      /\ h = "programUnset" => "commitOff" \in r /\ "tagOff" \in r
      /\ h = "onboard" => "programKrgpg" \notin s
  BY <1>1, GitScript
<1>3. ASSUME Expand(Kr, <<>>) PROVE t = r
  <2>1. Moves(Kr, <<>>)
    BY <1>1, <1>3, NothingCalled, ClientMoves
  <2> QED BY <2>1, EmptyScript DEF Moves
<1>4. /\ git \in [program : {"unset", "gpg", "krgpg"}, commitSign : BOOLEAN, tagSign : BOOLEAN]
      /\ installed \in BOOLEAN /\ turnedOn \in BOOLEAN /\ cut \in BOOLEAN
      /\ "programKrgpg" \in s => installed
      /\ "onboard" \in s => git.program = "krgpg" \/ "programKrgpg" \in s
      /\ "tagOn" \in s => git.program = "krgpg"
      /\ "commitOn" \in s => git.program = "krgpg" \/ turnedOn
      /\ ~cut => /\ git.program = "krgpg" => installed \/ "codesigning" \in s \/ "programUnset" \in s
                 /\ git.commitSign => git.program = "krgpg" \/ turnedOn \/ "commitOff" \in s
                 /\ git.tagSign => git.program = "krgpg" \/ "tagOff" \in s
  BY DEF GitInv, GitTypeOK
<1> DEFINE Goal ==
      /\ git' \in [program : {"unset", "gpg", "krgpg"}, commitSign : BOOLEAN, tagSign : BOOLEAN]
      /\ installed' \in BOOLEAN
      /\ "programKrgpg" \in t => installed'
      /\ "onboard" \in t => git'.program = "krgpg" \/ "programKrgpg" \in t
      /\ "tagOn" \in t => git'.program = "krgpg"
      /\ "commitOn" \in t => git'.program = "krgpg" \/ turnedOn
      /\ ~cut => /\ git'.program = "krgpg" => installed' \/ "codesigning" \in t \/ "programUnset" \in t
                 /\ git'.commitSign => git'.program = "krgpg" \/ turnedOn \/ "commitOff" \in t
                 /\ git'.tagSign => git'.program = "krgpg" \/ "tagOff" \in t
<1>5. SUFFICES Goal
  BY <1>4 DEF GitInv, GitTypeOK
<1> HIDE DEF s, r, t, h
<1> USE DEF SigningSteps, RemovingSteps
<1>6. CASE SetGitConfig(Kr)
  <2>1. t = r /\ installed' = installed
    BY <1>3, <1>6 DEF SetGitConfig, Done
  <2>2. CASE h = "programKrgpg" /\ git' = [git EXCEPT !.program = "krgpg"]
    <3>1. /\ git'.program = "krgpg" /\ git'.commitSign = git.commitSign /\ git'.tagSign = git.tagSign
          /\ git' \in [program : {"unset", "gpg", "krgpg"}, commitSign : BOOLEAN, tagSign : BOOLEAN]
      BY <1>4, <2>2
    <3> QED BY <1>2, <1>4, <2>1, <2>2, <3>1
  <2>3. CASE h = "programUnset" /\ git' = [git EXCEPT !.program = "unset"]
    <3>1. /\ git'.program = "unset" /\ git'.commitSign = git.commitSign /\ git'.tagSign = git.tagSign
          /\ git' \in [program : {"unset", "gpg", "krgpg"}, commitSign : BOOLEAN, tagSign : BOOLEAN]
      BY <1>4, <2>3
    <3> QED BY <1>2, <1>4, <2>1, <2>3, <3>1
  <2>4. CASE h = "commitOn" /\ git' = [git EXCEPT !.commitSign = TRUE]
    <3>1. /\ git'.program = git.program /\ git'.commitSign = TRUE /\ git'.tagSign = git.tagSign
          /\ git' \in [program : {"unset", "gpg", "krgpg"}, commitSign : BOOLEAN, tagSign : BOOLEAN]
      BY <1>4, <2>4
    <3> QED BY <1>2, <1>4, <2>1, <2>4, <3>1
  <2>5. CASE h = "commitOff" /\ git' = [git EXCEPT !.commitSign = FALSE]
    <3>1. /\ git'.program = git.program /\ git'.commitSign = FALSE /\ git'.tagSign = git.tagSign
          /\ git' \in [program : {"unset", "gpg", "krgpg"}, commitSign : BOOLEAN, tagSign : BOOLEAN]
      BY <1>4, <2>5
    <3> QED BY <1>2, <1>4, <2>1, <2>5, <3>1
  <2>6. CASE h = "tagOn" /\ git' = [git EXCEPT !.tagSign = TRUE]
    <3>1. /\ git'.program = git.program /\ git'.commitSign = git.commitSign /\ git'.tagSign = TRUE
          /\ git' \in [program : {"unset", "gpg", "krgpg"}, commitSign : BOOLEAN, tagSign : BOOLEAN]
      BY <1>4, <2>6
    <3> QED BY <1>2, <1>4, <2>1, <2>6, <3>1
  <2>7. CASE h = "tagOff" /\ git' = [git EXCEPT !.tagSign = FALSE]
    <3>1. /\ git'.program = git.program /\ git'.commitSign = git.commitSign /\ git'.tagSign = FALSE
          /\ git' \in [program : {"unset", "gpg", "krgpg"}, commitSign : BOOLEAN, tagSign : BOOLEAN]
      BY <1>4, <2>7
    <3> QED BY <1>2, <1>4, <2>1, <2>7, <3>1
  <2> HIDE DEF Goal
  <2>8. ASSUME NEW step \in GitSteps, At(Kr, step),
               git' = CASE step = "programKrgpg" -> [git EXCEPT !.program = "krgpg"]
                        [] step = "programUnset" -> [git EXCEPT !.program = "unset"]
                        [] step = "commitOn"     -> [git EXCEPT !.commitSign = TRUE]
                        [] step = "commitOff"    -> [git EXCEPT !.commitSign = FALSE]
                        [] step = "tagOn"        -> [git EXCEPT !.tagSign = TRUE]
                        [] step = "tagOff"       -> [git EXCEPT !.tagSign = FALSE]
        PROVE  Goal
    <3>1. h = step
      BY <2>8 DEF At, h
    <3>2. CASE step = "programKrgpg"
      BY <2>2, <2>8, <3>1, <3>2
    <3>3. CASE step = "programUnset"
      BY <2>3, <2>8, <3>1, <3>3
    <3>4. CASE step = "commitOn"
      BY <2>4, <2>8, <3>1, <3>4
    <3>5. CASE step = "commitOff"
      BY <2>5, <2>8, <3>1, <3>5
    <3>6. CASE step = "tagOn"
      BY <2>6, <2>8, <3>1, <3>6
    <3>7. CASE step = "tagOff"
      BY <2>7, <2>8, <3>1, <3>7
    <3> QED BY <2>8, <3>2, <3>3, <3>4, <3>5, <3>6, <3>7 DEF GitSteps
  <2> QED BY <1>6, <2>8, Zenon DEF SetGitConfig
<1>7. CASE OnboardAutoCommitSign(Kr)
  <2>1. git' = git /\ installed' = installed /\ h = "onboard"
    BY <1>7 DEF OnboardAutoCommitSign, gitVars, At, h
  <2>2. CASE Expand(Kr, <<>>)
    BY <1>2, <1>3, <1>4, <2>1, <2>2
  <2>3. CASE Expand(Kr, <<"commitOn", "tagOn">>)
    <3> DEFINE x == <<"commitOn", "tagOn">>
    <3>1. Calls(Head(todo[Kr]), x) /\ ToSet(x) = {"commitOn", "tagOn"}
      BY <2>1 DEF Calls, ToSet, h
    <3>2. Expand(Kr, x)
      BY <2>3
    <3> HIDE DEF x
    <3>3. Moves(Kr, x)
      BY <1>1, <3>1, <3>2, ClientMoves
    <3>4. t = {"commitOn", "tagOn"} \cup r
      BY <3>1, <3>3 DEF Moves, t, r
    <3> QED BY <1>2, <1>4, <2>1, <3>4
  <2> QED BY <1>7, <2>2, <2>3 DEF OnboardAutoCommitSign, Done
<1>8. CASE UninstallCodesigning(Kr)
  <2>1. git' = git /\ installed' = installed /\ h = "codesigning"
    BY <1>8 DEF UninstallCodesigning, gitVars, At, h
  <2>2. CASE git.program # "krgpg" /\ Expand(Kr, <<>>)
    BY <1>2, <1>3, <1>4, <2>1, <2>2
  <2>3. CASE Expand(Kr, <<"programUnset", "commitOff", "tagOff">>)
    <3> DEFINE x == <<"programUnset", "commitOff", "tagOff">>
    <3>1. Calls(Head(todo[Kr]), x)
      BY <2>1 DEF Calls, h
    <3>a. DOMAIN x = 1..3 /\ x[1] = "programUnset" /\ x[2] = "commitOff" /\ x[3] = "tagOff"
      OBVIOUS
    <3>2. Expand(Kr, x)
      BY <2>3
    <3> HIDE DEF x
    <3>b. ToSet(x) = {"programUnset", "commitOff", "tagOff"}
      BY <3>a DEF ToSet
    <3>3. Moves(Kr, x)
      BY <1>1, <3>1, <3>2, ClientMoves
    <3>4. t = {"programUnset", "commitOff", "tagOff"} \cup r
      BY <3>b, <3>3 DEF Moves, t, r
    <3> QED BY <1>2, <1>4, <2>1, <3>4
  <2> QED BY <1>8, <2>2, <2>3, Zenon DEF UninstallCodesigning
<1>9. CASE RemovePackage(Kr)
  <2>1. git' = git /\ installed' \in {FALSE, installed} /\ h = "remove" /\ t = r
    BY <1>3, <1>9 DEF RemovePackage, At, h, Done
  <2> QED BY <1>2, <1>4, <2>1
<1> QED BY <1>6, <1>7, <1>8, <1>9 DEF GitStep

LEMMA DialFrame ==
  ASSUME ScriptInv, NEW c \in Clients, NEW s, DialStep(c, s)
  PROVE  /\ todo[c] # <<>> /\ Head(todo[c]) \in DialSteps \ GitHeads
         /\ \A d \in Clients \ {c} : todo'[d] = todo[d]
<1>0. \A d \in Clients : d \in Procs /\ d \notin Krds
  BY KrAssumption DEF Procs
<1> USE DEF At, DialSteps, GitHeads, GitSteps
<1>1. ASSUME NEW k \in Krds, StartKrd(c, k)
      PROVE  /\ todo[c] # <<>> /\ Head(todo[c]) \in DialSteps \ GitHeads
             /\ \A d \in Clients \ {c} : todo'[d] = todo[d]
  <2>1. Head(todo[c]) = "start" /\ todo[c] # <<>>
    BY <1>1 DEF StartKrd
  <2> QED BY <1>0, <1>1, <2>1, StartMoves
<1>2. CASE KillKrd(c)
  <2>1. Head(todo[c]) = "kill" /\ todo[c] # <<>>
    BY <1>2 DEF KillKrd
  <2> QED BY <1>0, <1>2, <2>1, KillMoves
<1>3. CASE Wait(c)
  <2>1. Head(todo[c]) = "wait" /\ todo[c] # <<>>
    BY <1>3 DEF Wait
  <2>2. \A d \in Clients \ {c} : todo'[d] = todo[d]
    BY <1>0, <1>3, WaitCalls DEF Moves
  <2> QED BY <2>1, <2>2
<1>4. CASE EnsureRunning(c, "ensure", <<>>) \/ DaemonDial(c)
  <2>1. todo[c] # <<>> /\ Head(todo[c]) \in {"ensure", "dial"}
    BY <1>4 DEF EnsureRunning, DaemonDial
  <2>2. \E steps : Moves(c, steps)
    BY <1>4, EnsureCalls
  <2>3. \A d \in Clients \ {c} : todo'[d] = todo[d]
    BY <1>0, <2>2 DEF Moves
  <2> QED BY <2>1, <2>3
<1>5. CASE Connect(c, s)
  <2>1. todo[c] # <<>> /\ Head(todo[c]) \in {"connect", "reconnect"}
    BY <1>5 DEF Connect
  <2>2. Fails(c) \/ \E steps : Moves(c, steps)
    BY <1>5, ConnectCalls
  <2>3. \A d \in Clients \ {c} : todo'[d] = todo[d]
    BY <1>0, <2>2 DEF Moves, Fails
  <2> QED BY <2>1, <2>3
<1>6. CASE Ping(c, s)
  <2>1. todo[c] # <<>> /\ Head(todo[c]) = "ping"
    BY <1>6 DEF Ping
  <2>2. Fails(c) \/ \E steps : Moves(c, steps)
    BY <1>6, PingCalls
  <2>3. \A d \in Clients \ {c} : todo'[d] = todo[d]
    BY <1>0, <2>2 DEF Moves, Fails
  <2> QED BY <2>1, <2>3
<1> QED BY <1>1, <1>2, <1>3, <1>4, <1>5, <1>6, Zenon DEF DialStep

LEMMA GitNext == ScriptInv /\ GitInv /\ [Next]_vars => GitInv'
<1> SUFFICES ASSUME ScriptInv, GitInv, [Next]_vars PROVE GitInv'
  OBVIOUS
<1>0. Kr \in Clients /\ Kr \in Procs /\ Kr \notin Krds
  BY KrAssumption DEF Procs
<1>a. ASSUME todo'[Kr] = todo[Kr], UNCHANGED gitVars, turnedOn' = turnedOn, cut' = cut PROVE GitInv'
  BY <1>a, GitQuiet DEF KrTurn
<1>1. ASSUME NEW command \in DOMAIN Commands, RunKr(command) PROVE GitInv'
  <2>1. /\ git' = git /\ installed' = installed /\ installed = TRUE /\ cut' = cut
        /\ turnedOn' = (turnedOn \/ command = "codesignOn")
        /\ Begin(Kr, Commands[command]) /\ todo[Kr] = <<>>
    BY <1>1 DEF RunKr, Begin, gitVars, GitInv, GitTypeOK
  <2>2. todo'[Kr] = Commands[command] /\ Opens(Commands[command], command)
    BY <1>0, <2>1, CommandOpens, BeginMoves
  <2> DEFINE t == ToSet(todo'[Kr])
  <2>3. /\ "commitOn" \in t => command = "codesignOn"
        /\ "tagOn" \notin t /\ "onboard" \in t => "programKrgpg" \in t
    BY <2>2 DEF Opens
  <2>4. ToSet(todo[Kr]) = {}
    BY <2>1, EmptyScript
  <2>5. /\ turnedOn \in BOOLEAN /\ GitTypeOK
        /\ ~cut => /\ git.program = "krgpg" => installed
                   /\ git.commitSign => git.program = "krgpg" \/ turnedOn
                   /\ git.tagSign => git.program = "krgpg"
    BY <2>4 DEF GitInv
  <2> HIDE DEF t
  <2>6. "tagOn" \notin t
    BY <2>2 DEF Opens, t
  <2>7. /\ "programKrgpg" \in t => installed'
        /\ "onboard" \in t => git'.program = "krgpg" \/ "programKrgpg" \in t
        /\ "tagOn" \in t => git'.program = "krgpg"
        /\ "commitOn" \in t => git'.program = "krgpg" \/ turnedOn'
    BY <2>1, <2>2, <2>3, <2>6 DEF Opens, t
  <2>8. ~cut' =>
           /\ git'.program = "krgpg" => installed' \/ "codesigning" \in t \/ "programUnset" \in t
           /\ git'.commitSign => git'.program = "krgpg" \/ turnedOn' \/ "commitOff" \in t
           /\ git'.tagSign => git'.program = "krgpg" \/ "tagOff" \in t
    BY <2>1, <2>5
  <2>9. GitTypeOK' /\ turnedOn' \in BOOLEAN /\ cut' \in BOOLEAN
    BY <2>1, <2>5 DEF GitTypeOK, GitInv
  <2> QED BY <2>7, <2>8, <2>9 DEF GitInv, t
<1>2. ASSUME NEW c \in Clients, RunKrssh(c) PROVE GitInv'
  <2>1. Begin(c, <<"dial">>) /\ UNCHANGED gitVars /\ turnedOn' = turnedOn /\ cut' = cut /\ c # Kr
    BY <1>2 DEF RunKrssh, Begin, gitVars, histories
  <2>2. todo'[Kr] = todo[Kr]
    BY <1>0, <2>1, DialOpens, BeginMoves
  <2> QED BY <1>a, <2>1, <2>2
<1>3. ASSUME NEW c \in Clients, Failed(c) PROVE GitInv'
  <2>1. /\ todo[c] # <<>> /\ Expand(c, <<>>) /\ alive' = alive /\ Head(todo[c]) = "failed"
        /\ UNCHANGED gitVars /\ turnedOn' = turnedOn /\ cut' = cut
    BY <1>3 DEF Failed, At, Done, daemonVars, histories
  <2>2. Moves(c, <<>>) /\ c \in Procs
    BY <2>1, NothingCalled, ClientMoves DEF Procs
  <2>3. KrTurn
    BY <2>1, <2>2, NothingCalled, MovesTurn
  <2>4. todo'[Kr] = todo[Kr] \/ Head(todo[Kr]) \notin GitHeads
    BY <1>0, <2>1, <2>2 DEF Moves, GitHeads, GitSteps
  <2> QED BY <2>1, <2>3, <2>4, GitQuiet
<1>4. ASSUME NEW c \in Clients, DaemonStep(DialStep(c, SocketOf(c)), 0) PROVE GitInv'
  <2>1. DialStep(c, SocketOf(c)) /\ UNCHANGED gitVars /\ turnedOn' = turnedOn /\ cut' = cut
    BY <1>4 DEF DaemonStep
  <2>2. todo'[Kr] = todo[Kr] \/ Head(todo[Kr]) \notin GitHeads
    BY <1>0, <2>1, DialFrame
  <2> QED BY <2>1, <2>2, DialTurn, GitQuiet
<1>5. ASSUME NEW k \in Krds, DaemonStep(KrdStep(k), 0) \/ DaemonStep(Crash(k), 1) PROVE GitInv'
  <2>1. KrdStep(k) \/ Crash(k)
    BY <1>5 DEF DaemonStep
  <2>2. UNCHANGED gitVars /\ turnedOn' = turnedOn /\ cut' = cut
    BY <1>5 DEF DaemonStep
  <2> QED BY <1>0, <1>a, <2>1, <2>2, KrdTurn
<1>6. ASSUME NEW p \in Editors, Edit(p) PROVE GitInv'
  <2>1. /\ EditStep(p) /\ alive' = alive /\ UNCHANGED gitVars
        /\ turnedOn' = turnedOn /\ cut' = cut
    BY <1>6 DEF Edit, daemonVars
  <2>2. todo'[Kr] = todo[Kr] \/ Head(todo[Kr]) \notin GitHeads
    <3>1. CASE p = Kr
      <4>1. Head(todo[p]) \in {"edit", "force", "migrate", "clean", "upgrade"} \cup Rewriting
        BY <2>1, EditCalls
      <4> QED BY <3>1, <4>1 DEF GitHeads, GitSteps, Rewriting
    <3>2. CASE p # Kr
      <4>1. \E steps : Moves(p, steps)
        BY <2>1, EditCalls
      <4> QED BY <1>0, <3>2, <4>1 DEF Moves
    <3> QED BY <3>1, <3>2
  <2> QED BY <2>1, <2>2, EditTurn, GitQuiet
<1>7. CASE GitStep(Kr) /\ UNCHANGED <<configVars, daemonVars, bounds, histories>>
  BY <1>7, GitStepKeeps DEF histories
<1>8. CASE InstallPackage /\ UNCHANGED <<configVars, daemonVars, bounds, histories>>
  <2>1. todo' = todo /\ git' = git /\ installed' = TRUE /\ cut' = cut /\ turnedOn' = turnedOn
    BY <1>8 DEF InstallPackage, histories
  <2> QED BY <2>1 DEF GitInv, GitTypeOK
<1>9. CASE \/ \E v \in Versions : UpgradeSsh(v) /\ UNCHANGED <<daemonVars, gitVars, bounds, histories>>
           \/ UNCHANGED vars
  <2>1. todo' = todo /\ UNCHANGED gitVars /\ cut' = cut /\ turnedOn' = turnedOn
    BY <1>9 DEF UpgradeSsh, histories, vars
  <2> QED BY <1>a, <2>1
<1>10. CASE Interrupt
  <2>1. /\ todo' = [todo EXCEPT ![Kr] = <<>>] /\ git' = git /\ installed' = installed
        /\ cut' = TRUE /\ turnedOn' = turnedOn
    BY <1>10 DEF Interrupt, gitVars
  <2>2. todo'[Kr] = <<>>
    BY <1>0, <2>1 DEF ScriptInv
  <2>3. ToSet(todo'[Kr]) = {}
    BY <2>2, EmptyScript
  <2>4. GitTypeOK' /\ turnedOn' \in BOOLEAN
    BY <2>1 DEF GitInv, GitTypeOK
  <2> QED BY <2>1, <2>3, <2>4 DEF GitInv
<1>11. CASE Next
  BY <1>1, <1>2, <1>3, <1>4, <1>5, <1>6, <1>7, <1>8, <1>9, <1>10, <1>11, Zenon DEF Next
<1> QED BY <1>9, <1>11

-----------------------------------------------------------------------------
(* Krd and the clients that dial it.                                       *)

LEMMA NextStep ==
  ASSUME ScriptInv, NEW c \in Clients, todo[c] # <<>>, Tail(todo[c]) # <<>>
  PROVE  LET s == todo[c]
             t == Tail(todo[c])
         IN  /\ Len(s) > 1 /\ s[2] = Head(t)
             /\ Head(t) = "ping" => Head(s) \in {"dial", "connect", "reconnect"}
             /\ Head(t) \in {"reconnect", "start"} => Head(s) = "wait"
             /\ Head(s) \in {"kill", "start"} => Head(t) = "wait"
             /\ Head(t) = "wait" /\ Len(t) > 1 =>
                   /\ t[2] = "start" => Head(s) = "kill"
                   /\ t[2] = "reconnect" => Head(s) = "start"
<1> DEFINE s == todo[c]
           t == Tail(s)
<1>1. s \in Seq(ClientSteps) /\ Preceded(s) /\ s # <<>> /\ t # <<>>
  BY DEF ScriptInv, ClientScript
<1>2. /\ Head(s) = s[1] /\ t \in Seq(ClientSteps) /\ Len(t) = Len(s) - 1
      /\ Len(s) \in Nat /\ \A i \in 1..Len(t) : t[i] = s[i + 1]
  BY <1>1, HeadTail
<1> HIDE DEF s, t
<1>3. Head(t) = t[1] /\ Len(t) > 0
  BY <1>1, <1>2, HeadTail
<1>4. Len(s) > 1 /\ Head(t) = s[2] /\ (Len(t) > 1 => Len(s) > 2 /\ t[2] = s[3])
  BY <1>2, <1>3
<1>5. /\ s[2] = "ping" => s[1] \in {"dial", "connect", "reconnect"}
      /\ s[2] \in {"reconnect", "start"} => s[1] = "wait"
      /\ s[1] \in {"kill", "start"} => s[2] = "wait"
  <2>1. 2 \in 2..Len(s) /\ 2 - 1 = 1
    BY <1>2, <1>4
  <2> QED BY <1>1, <2>1 DEF Preceded
<1>6. Len(s) > 2 => (s[3] = "start" => s[1] = "kill") /\ (s[3] = "reconnect" => s[1] = "start")
  <2> SUFFICES ASSUME Len(s) > 2
               PROVE  (s[3] = "start" => s[1] = "kill") /\ (s[3] = "reconnect" => s[1] = "start")
    OBVIOUS
  <2>1. 3 \in 2..Len(s) /\ 3 - 2 = 1
    BY <1>2
  <2> QED BY <1>1, <2>1 DEF Preceded
<1> QED BY <1>2, <1>4, <1>5, <1>6 DEF s, t

(* The client goes on to its next step.                                    *)
LEMMA TailFinds ==
  ASSUME ScriptInv, NEW c \in Clients, todo[c] # <<>>, todo'[c] = Tail(todo[c]),
         "failed" \notin ToSet(todo[c]),
         Settled' \/ Head(todo[c]) \in {"kill", "start"},
         Head(todo[c]) = "wait" /\ Len(todo[c]) > 1 =>
            /\ todo[c][2] = "start" => alive' = {}
            /\ todo[c][2] = "reconnect" => alive' # {},
         Head(todo[c]) \in {"dial", "connect", "reconnect"} => alive' # {},
         Head(todo[c]) = "kill" => \A k \in alive' : At(k, "stop")',
         Head(todo[c]) = "start" => alive' # {} /\ \A k \in alive' : ~At(k, "stop")'
  PROVE  Finds(c)'
<1> DEFINE t == Tail(todo[c])
<1>1. todo[c] \in Seq(ClientSteps)
  BY DEF ScriptInv, ClientScript
<1>2. ToSet(todo[c]) = {Head(todo[c])} \cup ToSet(t)
  BY <1>1, HeadTail
<1>3. "failed" \notin ToSet(todo'[c])
  BY <1>2
<1>4. CASE t = <<>>
  <2>1. todo'[c] = <<>> /\ ToSet(todo'[c]) = {}
    BY <1>4, EmptyScript
  <2> QED BY <1>3, <2>1 DEF Finds, DialsKrd, At
<1>5. CASE t # <<>>
  <2>1. /\ Len(todo[c]) > 1 /\ todo[c][2] = Head(t)
        /\ Head(t) = "ping" => Head(todo[c]) \in {"dial", "connect", "reconnect"}
        /\ Head(t) \in {"reconnect", "start"} => Head(todo[c]) = "wait"
        /\ Head(todo[c]) \in {"kill", "start"} => Head(t) = "wait"
        /\ Head(t) = "wait" /\ Len(t) > 1 =>
              /\ t[2] = "start" => Head(todo[c]) = "kill"
              /\ t[2] = "reconnect" => Head(todo[c]) = "start"
    BY <1>5, NextStep
  <2>2. todo'[c] = t
    OBVIOUS
  <2> HIDE DEF t
  <2>3. \A step : At(c, step)' <=> Head(t) = step
    BY <1>5, <2>2 DEF At
  <2>4. Settled' \/ At(c, "wait")'
    BY <2>1, <2>3
  <2>5. At(c, "start")' => alive' = {}
    BY <2>1, <2>3
  <2>6. (At(c, "ping") \/ At(c, "reconnect"))' => alive' # {}
    <3>1. CASE Head(t) = "ping"
      BY <2>1, <3>1
    <3>2. CASE Head(t) = "reconnect"
      BY <2>1, <3>2
    <3> QED BY <2>3, <3>1, <3>2
  <2>7. At(c, "wait")' /\ Len(t) > 1 =>
           /\ t[2] = "start" => \A k \in alive' : At(k, "stop")'
           /\ t[2] = "reconnect" => alive' # {} /\ \A k \in alive' : ~At(k, "stop")'
    BY <2>1, <2>3
  <2> QED BY <1>3, <2>2, <2>4, <2>5, <2>6, <2>7 DEF Finds
<1> QED BY <1>4, <1>5

(* The client calls a function.                                            *)
LEMMA CallFinds ==
  ASSUME ScriptInv, NEW c \in Clients, todo[c] # <<>>, NEW steps \in Seq(ClientSteps), steps # <<>>,
         Moves(c, steps), "failed" \notin ToSet(todo[c]) \cup ToSet(steps), Settled',
         Head(steps) \notin {"ping", "reconnect", "wait"}, Head(steps) = "start" => alive' = {}
  PROVE  Finds(c)'
<1>1. todo[c] \in Seq(ClientSteps)
  BY DEF ScriptInv, ClientScript
<1>2. todo'[c] # <<>> /\ Head(todo'[c]) = Head(steps)
  BY <1>1, AfterTail DEF Moves
<1>3. "failed" \notin ToSet(todo'[c])
  BY DEF Moves
<1>4. \A step : At(c, step)' <=> Head(steps) = step
  BY <1>2 DEF At
<1> QED BY <1>3, <1>4 DEF Finds

(* A client that is not concerned with krd.                                *)
LEMMA IdleFinds ==
  ASSUME NEW c \in Clients, ScriptInv', ~DialsKrd(c)'
  PROVE  Finds(c)'
<1>1. todo'[c] # <<>> => Head(todo'[c]) \in ToSet(todo'[c])
  <2>1. todo'[c] \in Seq(ClientSteps)
    BY DEF ScriptInv, ClientScript
  <2> QED BY <2>1, HeadTail
<1>2. ToSet(todo'[c]) \cap DialSteps = {}
  BY DEF DialsKrd
<1>3. \A step \in DialSteps : ~At(c, step)' /\ step \notin ToSet(todo'[c])
  BY <1>1, <1>2 DEF At
<1> QED BY <1>3 DEF Finds, DialSteps

(* A client that does nothing while krd does nothing.                      *)
LEMMA SameFinds ==
  ASSUME NEW c, Finds(c), todo'[c] = todo[c], alive' = alive, \A k \in alive : todo'[k] = todo[k]
  PROVE  Finds(c)'
<1>1. \A k \in alive, step \in {"up", "stop"} : At(k, step)' <=> At(k, step)
  BY DEF At
<1>2. Settled' <=> Settled
  BY <1>1 DEF Settled
<1>3. \A step : At(c, step)' <=> At(c, step)
  BY DEF At
<1>4. DialsKrd(c)' <=> DialsKrd(c)
  BY DEF DialsKrd
<1> QED BY <1>1, <1>2, <1>3, <1>4 DEF Finds

(* One client takes a step about krd, and it is the only one that dials.   *)
LEMMA OnlyDials ==
  ASSUME ScriptInv', OneDials, NEW c \in Clients, DialsKrd(c),
         \A d \in Clients \ {c} : todo'[d] = todo[d], Finds(c)'
  PROVE  OneDials' /\ \A d \in Clients : Finds(d)'
<1>1. \A d \in Clients \ {c} : ~DialsKrd(d)'
  <2>1. \A d \in Clients \ {c} : ~DialsKrd(d)
    BY DEF OneDials
  <2> QED BY <2>1 DEF DialsKrd
<1>2. OneDials'
  BY <1>1 DEF OneDials
<1>3. \A d \in Clients \ {c} : Finds(d)'
  BY <1>1, IdleFinds
<1> QED BY <1>2, <1>3

LEMMA UpScript ==
  ASSUME ScriptInv, NEW k \in alive, At(k, "up")
  PROVE  ToSet(todo[k]) = {"up"}
<1> DEFINE x == todo[k]
<1>1. KrdScript(x) /\ x # <<>> /\ Head(x) = "up" /\ x \in Seq(KrdSteps)
  BY DEF ScriptInv, At, KrdScript
<1>2. Head(x) = x[1] /\ Len(x) \in Nat /\ Len(x) > 0
  BY <1>1, HeadTail
<1>3. 1 \in 1..Len(x) /\ x[1] = "up" /\ \A i \in 1..Len(x) : x[i] = "up" => i = Len(x)
  BY <1>1, <1>2 DEF KrdScript
<1>4. Len(x) = 1
  BY <1>2, <1>3
<1> HIDE DEF x
<1>5. \A y : y \in ToSet(x) <=> \E i \in 1..Len(x) : x[i] = y
  BY <1>1, Members DEF x
<1>6. \A y : y \in ToSet(x) <=> y = "up"
  BY <1>3, <1>4, <1>5
<1> QED BY <1>6 DEF x

(* What an undisturbed client that dials krd finds: the one krd, up.       *)
LEMMA FindsKrd ==
  ASSUME ScriptInv, DaemonInv, ~disturbed, NEW c \in Clients,
         At(c, "ping") \/ At(c, "reconnect"), NEW s \in Sockets
  PROVE  sock[s] \in alive /\ At(sock[s], "up")
<1>1. OneKrd /\ OwnSockets /\ Finds(c)
  BY DEF DaemonInv
<1>2. DialsKrd(c) /\ ~At(c, "wait")
  <2>1. Head(todo[c]) \in DialSteps /\ todo[c] # <<>>
    BY DEF At, DialSteps
  <2>2. Head(todo[c]) \in ToSet(todo[c])
    BY <2>1, HeadOf DEF Procs
  <2> QED BY <2>1, <2>2 DEF DialsKrd, At
<1>3. PICK k \in alive : At(k, "up")
  BY <1>1, <1>2 DEF Finds, Settled
<1>4. ToSet(todo[k]) = {"up"}
  BY <1>3, UpScript
<1>5. sock[s] = k
  BY <1>1, <1>3, <1>4 DEF OwnSockets, At, Sockets
<1> QED BY <1>3, <1>5

LEMMA DaemonStarts == Init => DaemonInv
<1> SUFFICES ASSUME Init PROVE DaemonInv
  OBVIOUS
<1>1. /\ alive = {} /\ sock = [s \in Sockets |-> NoFile] /\ disturbed = FALSE
      /\ todo = [p \in Procs |-> <<>>]
  BY DEF Init, DaemonInit
<1>2. sock \in [Sockets -> Krds \cup {NoFile, Stale}]
  BY <1>1
<1>3. \A c \in Clients : todo[c] = <<>> /\ ToSet(todo[c]) = {}
  <2>1. \A c \in Clients : todo[c] = <<>>
    BY <1>1 DEF Procs
  <2> QED BY <2>1, EmptyScript
<1>4. \A c \in Clients : Finds(c) /\ ~DialsKrd(c)
  BY <1>3 DEF Finds, DialsKrd, At
<1> QED BY <1>1, <1>2, <1>4 DEF DaemonInv, OneKrd, OwnSockets, OneDials

LEMMA OrphansType ==
  ASSUME sock \in [Sockets -> Krds \cup {NoFile, Stale}], NEW ks
  PROVE  WithoutOwners(ks) \in [Sockets -> Krds \cup {NoFile, Stale}]
BY DEF WithoutOwners

LEMMA Dialing ==
  ASSUME ScriptInv, NEW c \in Clients, todo[c] # <<>>, Head(todo[c]) \in DialSteps
  PROVE  DialsKrd(c)
<1>1. Head(todo[c]) \in ToSet(todo[c])
  BY HeadOf DEF Procs
<1> QED BY <1>1 DEF DialsKrd

(* The client starts, kills or waits for krd.                              *)
LEMMA RestartKeeps ==
  ASSUME ScriptInv, DaemonInv, NEW c \in Clients,
         (\E k \in Krds : StartKrd(c, k)) \/ KillKrd(c) \/ Wait(c)
  PROVE  DaemonInv'
<1>0. \A p \in Krds : p \in Procs /\ p # c
  BY KrAssumption DEF Procs
<1>1. sock \in [Sockets -> Krds \cup {NoFile, Stale}] /\ disturbed \in BOOLEAN /\ alive \subseteq Krds
  BY DEF DaemonInv, ScriptInv
<1>2. ASSUME NEW k \in Krds, StartKrd(c, k) PROVE DaemonInv'
  <2>1. /\ ScriptInv' /\ todo'[c] = Tail(todo[c]) /\ todo'[k] = Main
        /\ \A d \in Clients \ {c} : todo'[d] = todo[d]
    <3>1. \A d \in Clients : d \in Procs /\ d # k
      BY KrAssumption DEF Procs
    <3> QED BY <1>2, <3>1, StartMoves
  <2>2. /\ sock' = sock /\ disturbed' = disturbed /\ alive' = alive \cup {k}
        /\ todo[c] # <<>> /\ Head(todo[c]) = "start"
    BY <1>2 DEF StartKrd, At
  <2>3. SUFFICES ASSUME ~disturbed PROVE OneKrd' /\ OwnSockets' /\ OneDials' /\ \A d \in Clients : Finds(d)'
    BY <1>1, <2>2 DEF DaemonInv
  <2>4. OneDials /\ Finds(c) /\ DialsKrd(c)
    BY <2>2, <2>3, Dialing DEF DaemonInv, DialSteps
  <2>5. alive' = {k}
    BY <2>2, <2>4 DEF Finds, At
  <2>6. todo'[k] # <<>> /\ Head(todo'[k]) = "upgrade" /\ Sockets \subseteq ToSet(todo'[k])
    BY <2>1, MainScript
  <2>7. OneKrd' /\ OwnSockets'
    BY <2>5, <2>6 DEF OneKrd, OwnSockets
  <2>8. \A j \in alive' : ~At(j, "stop")'
    BY <2>5, <2>6 DEF At
  <2>9. Finds(c)'
    BY <2>1, <2>2, <2>4, <2>5, <2>8, TailFinds DEF Finds
  <2> QED BY <2>1, <2>4, <2>7, <2>9, OnlyDials
<1>3. ASSUME KillKrd(c) PROVE DaemonInv'
  <2>1. /\ ScriptInv' /\ todo'[c] = Tail(todo[c])
        /\ \A d \in Clients \ {c} : todo'[d] = todo[d]
        /\ \A k \in alive' : todo'[k] = <<"stop">> /\ k \in alive
    BY <1>3, KillMoves
  <2>2. /\ \E dead : sock' = WithoutOwners(dead)
        /\ disturbed' = disturbed /\ todo[c] # <<>> /\ Head(todo[c]) = "kill"
    BY <1>3 DEF KillKrd, At
  <2>a. sock' \in [Sockets -> Krds \cup {NoFile, Stale}]
    BY <1>1, <2>2, OrphansType
  <2>3. SUFFICES ASSUME ~disturbed PROVE OneKrd' /\ OwnSockets' /\ OneDials' /\ \A d \in Clients : Finds(d)'
    BY <1>1, <2>2, <2>a DEF DaemonInv
  <2>4. OneKrd /\ OneDials /\ Finds(c) /\ DialsKrd(c)
    BY <2>2, <2>3, Dialing DEF DaemonInv, DialSteps
  <2>5. \A k \in alive' : At(k, "stop")'
    BY <2>1, MainScript DEF At
  <2>6. OneKrd' /\ OwnSockets'
    BY <2>1, <2>4, <2>5 DEF OneKrd, OwnSockets
  <2>7. Finds(c)'
    BY <2>1, <2>2, <2>4, <2>5, TailFinds DEF Finds
  <2> QED BY <2>1, <2>4, <2>6, <2>7, OnlyDials
<1>4. ASSUME Wait(c) PROVE DaemonInv'
  <2>1. ScriptInv' /\ Moves(c, <<>>)
    BY <1>4, WaitCalls
  <2>2. /\ sock' = sock /\ alive' = alive /\ disturbed' = (disturbed \/ ~Settled)
        /\ todo[c] # <<>> /\ Head(todo[c]) = "wait"
    BY <1>4 DEF Wait, At
  <2>3. SUFFICES ASSUME ~disturbed, Settled
                 PROVE  OneKrd' /\ OwnSockets' /\ OneDials' /\ \A d \in Clients : Finds(d)'
    BY <1>1, <2>2 DEF DaemonInv
  <2>4. OneKrd /\ OwnSockets /\ OneDials /\ Finds(c) /\ DialsKrd(c)
    BY <2>2, <2>3, Dialing DEF DaemonInv, DialSteps
  <2>5. todo[c] \in Seq(AnyStep)
    BY HeadOf DEF Procs
  <2>6. /\ todo'[c] = Tail(todo[c]) /\ \A k \in alive : todo'[k] = todo[k]
        /\ \A d \in Clients \ {c} : todo'[d] = todo[d]
    <3>1. After(<<>>, todo[c]) = Tail(todo[c])
      BY <2>2, <2>5, AfterNothing
    <3> QED BY <1>0, <1>1, <2>1, <3>1 DEF Moves, Procs
  <2>7. OneKrd' /\ OwnSockets' /\ Settled'
    BY <2>2, <2>3, <2>4, <2>6 DEF OneKrd, OwnSockets, Settled, At
  <2>8. /\ Len(todo[c]) > 1 /\ todo[c][2] = "start" => alive' = {}
        /\ Len(todo[c]) > 1 /\ todo[c][2] = "reconnect" => alive' # {}
    BY <2>2, <2>3, <2>4 DEF Finds, Settled, At
  <2>9. Finds(c)'
    BY <2>2, <2>4, <2>6, <2>7, <2>8, TailFinds DEF Finds
  <2> QED BY <2>1, <2>4, <2>6, <2>7, <2>9, OnlyDials
<1> QED BY <1>2, <1>3, <1>4

(* The client looks for krd, or talks to it: only its own script changes.  *)
LEMMA TalkKeeps ==
  ASSUME ScriptInv, DaemonInv, NEW c \in Clients, NEW s \in Sockets,
         EnsureRunning(c, "ensure", <<>>) \/ DaemonDial(c) \/ Connect(c, s) \/ Ping(c, s)
  PROVE  DaemonInv'
<1>0. \A p \in Krds : p \in Procs /\ p # c
  BY KrAssumption DEF Procs
<1>1. sock \in [Sockets -> Krds \cup {NoFile, Stale}] /\ disturbed \in BOOLEAN /\ alive \subseteq Krds
  BY DEF DaemonInv, ScriptInv
<1>2. /\ sock' = sock /\ alive' = alive /\ disturbed' = disturbed /\ todo[c] # <<>>
      /\ Head(todo[c]) \in {"ensure", "dial", "connect", "reconnect", "ping"}
  BY DEF EnsureRunning, DaemonDial, Connect, Ping, daemonVars, At
<1>3. SUFFICES ASSUME ~disturbed PROVE OneKrd' /\ OwnSockets' /\ OneDials' /\ \A d \in Clients : Finds(d)'
  BY <1>1, <1>2 DEF DaemonInv
<1>4. OneKrd /\ OwnSockets /\ OneDials /\ Finds(c) /\ DialsKrd(c)
  BY <1>2, <1>3, Dialing DEF DaemonInv, DialSteps
<1>5. Settled /\ "failed" \notin ToSet(todo[c])
  BY <1>2, <1>4 DEF Finds, At
<1>6. ASSUME NEW steps, Moves(c, steps)
      PROVE  /\ \A k \in alive : todo'[k] = todo[k]
             /\ \A d \in Clients \ {c} : todo'[d] = todo[d]
  BY <1>0, <1>1, <1>6 DEF Moves, Procs
<1>7. ASSUME NEW steps, Moves(c, steps), ScriptInv', Settled' => Finds(c)'
      PROVE  OneKrd' /\ OwnSockets' /\ OneDials' /\ \A d \in Clients : Finds(d)'
  <2>1. OneKrd' /\ OwnSockets' /\ Settled'
    BY <1>2, <1>4, <1>5, <1>6, <1>7 DEF OneKrd, OwnSockets, Settled, At
  <2> QED BY <1>4, <1>6, <1>7, <2>1, OnlyDials
<1>8. ASSUME Moves(c, <<>>), ScriptInv',
             Head(todo[c]) \in {"dial", "connect", "reconnect"} => alive # {}
      PROVE  OneKrd' /\ OwnSockets' /\ OneDials' /\ \A d \in Clients : Finds(d)'
  <2>1. todo[c] \in Seq(AnyStep)
    BY HeadOf DEF Procs
  <2>2. todo'[c] = Tail(todo[c])
    BY <1>2, <1>8, <2>1, AfterNothing DEF Moves
  <2>3. Settled' => Finds(c)'
    BY <1>2, <1>5, <1>8, <2>2, TailFinds
  <2> QED BY <1>7, <1>8, <2>3
<1>9. CASE EnsureRunning(c, "ensure", <<>>) \/ DaemonDial(c)
  <2>1. ScriptInv' /\ (At(c, "ensure") \/ At(c, "dial"))
    BY <1>9, EnsureCalls
  <2>2. PICK steps : /\ Moves(c, steps)
                     /\ alive # {} => steps = IF At(c, "ensure") THEN <<>> ELSE <<"connect">>
                     /\ alive = {} => steps = IF At(c, "ensure") THEN <<"start", "wait">>
                                              ELSE <<"start", "wait", "connect">>
    BY <1>9, EnsureCalls
  <2>3. CASE steps = <<>> /\ At(c, "ensure")
    <3>1. Moves(c, <<>>) /\ Head(todo[c]) = "ensure"
      BY <2>2, <2>3 DEF At
    <3> QED BY <1>8, <2>1, <3>1
  <2>4. CASE steps = <<"connect">>
    <3>1. /\ steps \in Seq(ClientSteps) /\ steps # <<>> /\ Head(steps) = "connect"
          /\ ToSet(steps) = {"connect"}
      BY <2>4 DEF ClientSteps, DialSteps, ToSet
    <3>2. Settled' => Finds(c)'
      BY <1>2, <1>5, <2>2, <3>1, CallFinds
    <3> QED BY <1>7, <2>1, <2>2, <3>2
  <2>5. CASE alive = {} /\ steps \in {<<"start", "wait">>, <<"start", "wait", "connect">>}
    <3>1. /\ steps \in Seq(ClientSteps) /\ steps # <<>> /\ Head(steps) = "start"
      <4>1. CASE steps = <<"start", "wait">>
        BY <4>1 DEF ClientSteps, DialSteps
      <4>2. CASE steps = <<"start", "wait", "connect">>
        BY <4>2 DEF ClientSteps, DialSteps
      <4> QED BY <2>5, <4>1, <4>2
    <3>2. ToSet(steps) \subseteq {"start", "wait", "connect"}
      BY <2>5 DEF ToSet
    <3>3. Settled' => Finds(c)'
      BY <1>2, <1>5, <2>2, <2>5, <3>1, <3>2, CallFinds
    <3> QED BY <1>7, <2>1, <2>2, <3>3
  <2> QED BY <2>1, <2>2, <2>3, <2>4, <2>5
<1>10. CASE Connect(c, s)
  <2>1. ScriptInv'
    BY <1>10, ConnectCalls
  <2>2. CASE sock[s] \in alive /\ Moves(c, <<>>)
    BY <1>8, <2>1, <2>2
  <2>3. CASE Moves(c, <<"kill", "wait", "start", "wait", "reconnect">>)
    <3> DEFINE steps == <<"kill", "wait", "start", "wait", "reconnect">>
    <3>1. /\ steps \in Seq(ClientSteps) /\ steps # <<>> /\ Head(steps) = "kill"
      BY DEF ClientSteps, DialSteps
    <3>a. DOMAIN steps = 1..5 /\ \A i \in 1..5 : steps[i] # "failed"
      OBVIOUS
    <3>b. Moves(c, steps)
      BY <2>3
    <3> HIDE DEF steps
    <3>2. "failed" \notin ToSet(steps)
      BY <3>a DEF ToSet
    <3>3. Settled' => Finds(c)'
      BY <1>2, <1>5, <3>b, <3>1, <3>2, CallFinds
    <3> QED BY <1>7, <2>1, <3>b, <3>3
  <2>4. CASE At(c, "reconnect") /\ sock[s] \notin alive
    BY <1>3, <2>4, FindsKrd
  <2> QED BY <1>10, <2>2, <2>3, <2>4, ConnectCalls
<1>11. CASE Ping(c, s)
  <2>1. ScriptInv' /\ At(c, "ping")
    BY <1>11, PingCalls
  <2>2. Moves(c, <<>>)
    BY <1>3, <1>11, <2>1, PingCalls, FindsKrd
  <2>3. Head(todo[c]) = "ping"
    BY <2>1 DEF At
  <2> QED BY <1>8, <2>1, <2>2, <2>3
<1> QED BY <1>9, <1>10, <1>11

(* Krd goes on with main.                                                  *)
LEMMA MainKeeps ==
  ASSUME ScriptInv, ScriptInv', DaemonInv, NEW k \in Krds, NEW steps, Moves(k, steps),
         todo[k] # <<>>, Head(todo[k]) \notin {"up", "stop"}, "stop" \notin ToSet(steps),
         alive' = alive, disturbed' = disturbed,
         sock' \in [Sockets -> Krds \cup {NoFile, Stale}],
         \A s \in Sockets : sock'[s] = IF s = Head(todo[k]) THEN k ELSE sock[s]
  PROVE  DaemonInv'
<1>0. \A p \in Krds \cup Clients : p \in Procs /\ (p \in Clients => p # k)
  BY KrAssumption DEF Procs
<1>1. disturbed \in BOOLEAN /\ k \in alive /\ alive \subseteq Krds /\ KrdScript(todo[k])
  BY DEF DaemonInv, ScriptInv
<1>2. SUFFICES ASSUME ~disturbed
               PROVE  OneKrd' /\ OwnSockets' /\ OneDials' /\ \A d \in Clients : Finds(d)'
  BY <1>1 DEF DaemonInv
<1>3. OneKrd /\ OwnSockets /\ OneDials /\ \A d \in Clients : Finds(d)
  BY <1>2 DEF DaemonInv
<1>4. \A d \in Clients : todo'[d] = todo[d]
  BY <1>0 DEF Moves
<1>5. alive = {k}
  BY <1>1, <1>3 DEF OneKrd
<1>6. ~At(k, "stop") /\ ~At(k, "up") /\ ~Settled
  BY <1>1 DEF At, Settled
<1>7. "stop" \notin ToSet(todo'[k])
  <2>1. "stop" \notin ToSet(todo[k])
    BY <1>1, MainScript DEF KrdScript
  <2> QED BY <2>1 DEF Moves
<1>8. ~At(k, "stop")' 
  <2>1. CASE todo'[k] = <<>>
    BY <2>1 DEF At
  <2>2. CASE todo'[k] # <<>>
    <3>2. todo'[k] \in Seq(AnyStep)
      BY <1>0 DEF ScriptInv
    <3>3. Head(todo'[k]) \in ToSet(todo'[k])
      BY <2>2, <3>2, HeadTail
    <3> QED BY <1>7, <3>3 DEF At
  <2> QED BY <2>1, <2>2
<1>9. OneKrd'
  BY <1>3 DEF OneKrd
<1>10. OwnSockets'
  <2>1. \A s \in Sockets : s \in ToSet(todo[k]) \/ sock[s] = k
    BY <1>1, <1>3, <1>6 DEF OwnSockets
  <2>2. \A s \in Sockets : s \in ToSet(todo'[k]) \/ sock'[s] = k
    <3> SUFFICES ASSUME NEW s \in Sockets PROVE s \in ToSet(todo'[k]) \/ sock'[s] = k
      OBVIOUS
    <3>1. CASE s = Head(todo[k])
      BY <3>1
    <3>2. CASE s # Head(todo[k])
      <4>1. s \in ToSet(Tail(todo[k])) \/ sock[s] = k
        BY <2>1, <3>2 DEF Moves
      <4> QED BY <3>2, <4>1 DEF Moves
    <3> QED BY <3>1, <3>2
  <2> QED BY <1>5, <2>2 DEF OwnSockets
<1>11. OneDials'
  BY <1>3, <1>4 DEF OneDials, DialsKrd
<1>12. ASSUME NEW d \in Clients PROVE Finds(d)'
  <2>1. Finds(d) /\ todo'[d] = todo[d]
    BY <1>3, <1>4
  <2>2. \A step : At(d, step)' <=> At(d, step)
    BY <2>1 DEF At
  <2>3. DialsKrd(d)' <=> DialsKrd(d)
    BY <2>1 DEF DialsKrd
  <2> QED BY <1>5, <1>6, <1>8, <2>1, <2>2, <2>3 DEF Finds
<1> QED BY <1>9, <1>10, <1>11, <1>12

LEMMA KrdKeeps ==
  ASSUME ScriptInv, DaemonInv, NEW k \in Krds, KrdStep(k) \/ Crash(k)
  PROVE  DaemonInv'
<1>1. /\ sock \in [Sockets -> Krds \cup {NoFile, Stale}] /\ disturbed \in BOOLEAN
      /\ ~disturbed => OneKrd /\ OwnSockets /\ OneDials /\ \A c \in Clients : Finds(c)
  BY DEF DaemonInv
<1>2. \A c \in Clients : todo'[c] = todo[c]
  BY KrdTurn
<1>3. ASSUME NEW s \in Sockets, Listen(k, s) PROVE DaemonInv'
  <2>1. ScriptInv' /\ Moves(k, <<>>) /\ todo[k] # <<>> /\ Head(todo[k]) = s
    BY <1>3, ListenCalls
  <2>2. sock' = [sock EXCEPT ![s] = k] /\ alive' = alive /\ disturbed' = disturbed
    BY <1>3 DEF Listen
  <2>3. /\ sock' \in [Sockets -> Krds \cup {NoFile, Stale}]
        /\ \A r \in Sockets : sock'[r] = IF r = Head(todo[k]) THEN k ELSE sock[r]
    BY <1>1, <2>1, <2>2
  <2>4. Head(todo[k]) \notin {"up", "stop"}
    BY <2>1 DEF Sockets
  <2> QED BY <2>1, <2>2, <2>3, <2>4, EmptyScript, MainKeeps
<1>4. ASSUME alive' = alive \ {k}, ScriptInv', disturbed' \in BOOLEAN, disturbed => disturbed',
             k \in alive, \E ks : sock' = WithoutOwners(ks) \/ sock' = [s \in Sockets |-> NoFile],
             ~disturbed' => \A c \in Clients : todo[c] = <<>> \/ At(k, "stop")
      PROVE  DaemonInv'
  <2>1. sock' \in [Sockets -> Krds \cup {NoFile, Stale}]
    BY <1>1, <1>4, OrphansType
  <2>2. SUFFICES ASSUME ~disturbed'
                 PROVE  OneKrd' /\ OwnSockets' /\ OneDials' /\ \A c \in Clients : Finds(c)'
    BY <1>4, <2>1 DEF DaemonInv
  <2>3. OneKrd /\ OneDials /\ \A c \in Clients : Finds(c)
    BY <1>1, <1>4, <2>2
  <2>4. alive' = {} /\ alive = {k}
    BY <1>4, <2>3 DEF OneKrd
  <2>5. OneDials'
    BY <1>2, <2>3 DEF OneDials, DialsKrd
  <2>6. ASSUME NEW c \in Clients PROVE Finds(c)'
    <3>1. CASE todo[c] = <<>>
      <4>1. todo'[c] = <<>> /\ ToSet(todo'[c]) = {}
        BY <1>2, <3>1, EmptyScript
      <4> QED BY <4>1 DEF Finds, At, DialsKrd
    <3>2. CASE todo[c] # <<>> /\ At(k, "stop")
      <4>1. ~Settled /\ Finds(c)
        BY <1>4, <2>3, <3>2 DEF Settled, At
      <4>2. ~At(c, "ping") /\ ~At(c, "reconnect")
        <5>1. ~(Head(todo[c]) \in DialSteps /\ Head(todo[c]) # "wait")
          BY <3>2, <4>1, Dialing DEF Finds, At
        <5> QED BY <5>1 DEF At, DialSteps
      <4>3. \A step : At(c, step)' <=> At(c, step)
        BY <1>2 DEF At
      <4>4. At(c, "wait") /\ Len(todo[c]) > 1 => todo[c][2] # "reconnect"
        BY <1>4, <3>2, <4>1 DEF Finds
      <4>5. Settled' /\ "failed" \notin ToSet(todo[c])
        BY <2>4, <4>1 DEF Settled, Finds
      <4> QED BY <1>2, <2>4, <4>2, <4>3, <4>4, <4>5 DEF Finds
    <3> QED BY <1>4, <2>2, <3>1, <3>2
  <2> QED BY <2>4, <2>5, <2>6 DEF OneKrd, OwnSockets
<1>5. ASSUME NEW s \in Sockets, ListenFails(k, s) PROVE DaemonInv'
  <2>1. /\ alive' = alive \ {k} /\ disturbed' = disturbed /\ sock' = WithoutOwners({k})
        /\ todo' = [todo EXCEPT ![k] = <<>>] /\ todo[k] # <<>>
        /\ \E j \in alive : j # k
    BY <1>5 DEF ListenFails, At
  <2>2. ScriptInv' /\ k \in alive
    BY <2>1, KrdEnds DEF ScriptInv
  <2>3. disturbed
    BY <1>1, <2>1, <2>2 DEF OneKrd
  <2> QED BY <1>1, <1>4, <2>1, <2>2, <2>3
<1>6. ASSUME Exit(k) PROVE DaemonInv'
  <2>1. /\ alive' = alive \ {k} /\ disturbed' = disturbed /\ sock' = [s \in Sockets |-> NoFile]
        /\ At(k, "stop") /\ todo[k] # <<>>
    BY <1>6 DEF Exit, At
  <2>2. ScriptInv' /\ k \in alive
    BY <1>6, <2>1, ExitCalls DEF ScriptInv
  <2> QED BY <1>1, <1>4, <2>1, <2>2
<1>7. ASSUME Crash(k) PROVE DaemonInv'
  <2>1. /\ alive' = alive \ {k} /\ k \in alive /\ sock' = WithoutOwners({k})
        /\ disturbed' = (disturbed \/ \E c \in Clients : todo[c] # <<>>)
        /\ todo' = [todo EXCEPT ![k] = <<>>]
    BY <1>7 DEF Crash
  <2>2. ScriptInv'
    BY <2>1, KrdEnds
  <2> QED BY <1>1, <1>4, <2>1, <2>2
<1> QED BY <1>3, <1>5, <1>6, <1>7 DEF KrdStep

(* A step of kr that is not about krd.                                     *)
LEMMA QuietKeeps ==
  ASSUME ScriptInv, ScriptInv', DaemonInv, UNCHANGED daemonVars, todo[Kr] # <<>>,
         Head(todo[Kr]) \notin DialSteps, NEW steps, Moves(Kr, steps), Calls(Head(todo[Kr]), steps)
  PROVE  DaemonInv'
<1>0. /\ Kr \in Clients /\ \A p \in Krds : p \in Procs /\ p # Kr
      /\ \A d \in Clients : d \in Procs
  BY KrAssumption DEF Procs
<1>1. /\ sock' = sock /\ alive' = alive /\ disturbed' = disturbed /\ alive \subseteq Krds
      /\ sock \in [Sockets -> Krds \cup {NoFile, Stale}] /\ disturbed \in BOOLEAN
  BY DEF daemonVars, DaemonInv, ScriptInv
<1>2. SUFFICES ASSUME ~disturbed
               PROVE  OneKrd' /\ OwnSockets' /\ OneDials' /\ \A d \in Clients : Finds(d)'
  BY <1>1 DEF DaemonInv
<1>3. OneKrd /\ OwnSockets /\ OneDials /\ \A d \in Clients : Finds(d)
  BY <1>2 DEF DaemonInv
<1>4. /\ \A k \in alive : todo'[k] = todo[k]
      /\ \A d \in Clients \ {Kr} : todo'[d] = todo[d]
  BY <1>0, <1>1 DEF Moves
<1>5. OneKrd' /\ OwnSockets' /\ (Settled' <=> Settled)
  BY <1>1, <1>3, <1>4 DEF OneKrd, OwnSockets, Settled, At
<1>6. ToSet(steps) \cap DialSteps = {}
  <2>1. Adds(Head(todo[Kr]), ToSet(steps))
    BY CallsAdd
  <2> QED BY <2>1 DEF Adds, DialSteps, Rewriting
<1>7. DialsKrd(Kr)' => DialsKrd(Kr)
  BY <1>6 DEF DialsKrd, Moves
<1>8. OneDials'
  <2>1. \A d \in Clients : DialsKrd(d)' => DialsKrd(d)
    BY <1>4, <1>7 DEF DialsKrd
  <2> QED BY <1>3, <2>1 DEF OneDials
<1>9. \A d \in Clients \ {Kr} : Finds(d)'
  BY <1>1, <1>3, <1>4, SameFinds
<1>10. Finds(Kr)'
  <2>1. CASE ~DialsKrd(Kr)'
    BY <1>0, <2>1, IdleFinds
  <2>2. CASE DialsKrd(Kr)'
    <3>1. Settled' /\ "failed" \notin ToSet(todo[Kr])
      <4>1. Finds(Kr) /\ DialsKrd(Kr) /\ ~At(Kr, "wait")
        BY <1>0, <1>3, <1>7, <2>2 DEF At, DialSteps
      <4> QED BY <1>5, <4>1 DEF Finds
    <3>2. steps \in Seq(ClientSteps)
      BY <1>0, ClientExpands DEF ScriptInv
    <3>3. CASE steps = <<>>
      <4>1. todo[Kr] \in Seq(AnyStep)
        BY <1>0, HeadOf
      <4>2. todo'[Kr] = Tail(todo[Kr])
        BY <3>3, <4>1, AfterNothing DEF Moves
      <4>3. Head(todo[Kr]) \notin {"wait", "dial", "connect", "reconnect", "kill", "start"}
        BY DEF DialSteps
      <4> QED BY <1>0, <3>1, <4>2, <4>3, TailFinds
    <3>4. CASE steps # <<>>
      <4>1. Head(steps) \in ToSet(steps)
        BY <3>2, <3>4, HeadTail
      <4>2. Head(steps) \notin {"ping", "reconnect", "wait", "start"} /\ "failed" \notin ToSet(steps)
        BY <1>6, <4>1 DEF DialSteps
      <4> QED BY <1>0, <3>1, <3>2, <3>4, <4>2, CallFinds
    <3> QED BY <3>3, <3>4
  <2> QED BY <2>1, <2>2
<1> QED BY <1>5, <1>8, <1>9, <1>10

LEMMA EditKeepsDaemon ==
  ASSUME ScriptInv, DaemonInv, UNCHANGED daemonVars, NEW p \in Editors, EditStep(p)
  PROVE  DaemonInv'
<1>1. alive' = alive /\ sock' = sock /\ disturbed' = disturbed
  BY DEF daemonVars
<1>2. /\ ScriptInv' /\ todo[p] # <<>>
      /\ Head(todo[p]) \in {"edit", "force", "migrate", "clean", "upgrade"} \cup Rewriting
  BY <1>1, EditCalls
<1>3. PICK steps : /\ Moves(p, steps) /\ (p = Kr => Calls(Head(todo[p]), steps))
                   /\ "stop" \notin ToSet(steps)
  BY <1>1, EditCalls
<1>4. Head(todo[p]) \notin DialSteps \cup Sockets \cup {"up", "stop"}
  BY <1>2 DEF DialSteps, Sockets, Rewriting
<1>5. CASE p = Kr
  BY <1>2, <1>3, <1>4, <1>5, QuietKeeps
<1>6. CASE p \in Krds
  <2>1. /\ sock' \in [Sockets -> Krds \cup {NoFile, Stale}]
        /\ \A s \in Sockets : sock'[s] = IF s = Head(todo[p]) THEN p ELSE sock[s]
    BY <1>1, <1>4 DEF DaemonInv
  <2> QED BY <1>1, <1>2, <1>3, <1>4, <1>6, <2>1, MainKeeps
<1> QED BY <1>5, <1>6, EditorIs

(* A program is started.                                                   *)
LEMMA BeginKeeps ==
  ASSUME ScriptInv, DaemonInv, NEW c \in Clients, NEW s, NEW command, Opens(s, command), Begin(c, s)
  PROVE  DaemonInv'
<1>0. \A k \in Krds : k # c /\ k \in Procs
  BY KrAssumption DEF Procs
<1>1. ScriptInv' /\ todo'[c] = s /\ \A p \in Procs \ {c} : todo'[p] = todo[p]
  BY BeginMoves
<1>2. /\ sock' = sock /\ alive' = alive /\ alive \subseteq Krds /\ todo[c] = <<>>
      /\ disturbed' = \/ disturbed
                      \/ Daemonic(s) /\ (~Settled \/ \E d \in Clients \ {c} : todo[d] # <<>>)
      /\ sock \in [Sockets -> Krds \cup {NoFile, Stale}] /\ disturbed \in BOOLEAN
  BY DEF Begin, DaemonInv, ScriptInv
<1>a. disturbed' \in BOOLEAN
  BY <1>2
<1>3. SUFFICES ASSUME ~disturbed, Daemonic(s) => Settled /\ \A d \in Clients \ {c} : todo[d] = <<>>
               PROVE  OneKrd' /\ OwnSockets' /\ OneDials' /\ \A d \in Clients : Finds(d)'
  BY <1>2, <1>a DEF DaemonInv
<1>4. OneKrd /\ OwnSockets /\ OneDials /\ \A d \in Clients : Finds(d)
  BY <1>3 DEF DaemonInv
<1>5. /\ \A k \in alive : todo'[k] = todo[k]
      /\ \A d \in Clients \ {c} : todo'[d] = todo[d]
  BY <1>0, <1>1, <1>2 DEF Procs
<1>6. OneKrd' /\ OwnSockets' /\ (Settled' <=> Settled)
  BY <1>2, <1>4, <1>5 DEF OneKrd, OwnSockets, Settled, At
<1>7. \A d \in Clients \ {c} : Finds(d)'
  BY <1>2, <1>4, <1>5, SameFinds
<1>8. CASE ToSet(s) \cap DialSteps = {}
  <2>1. ~DialsKrd(c)'
    BY <1>1, <1>8 DEF DialsKrd
  <2>2. Finds(c)'
    BY <1>1, <2>1, IdleFinds
  <2>3. OneDials'
    BY <1>4, <1>5, <2>1 DEF OneDials, DialsKrd
  <2> QED BY <1>6, <1>7, <2>2, <2>3
<1>9. CASE ToSet(s) \cap DialSteps # {}
  <2>1. Settled /\ \A d \in Clients \ {c} : todo[d] = <<>>
    BY <1>3, <1>9 DEF Opens
  <2>2. \A d \in Clients \ {c} : ~DialsKrd(d)'
    BY <1>5, <2>1, EmptyScript DEF DialsKrd
  <2>3. OneDials'
    BY <2>2 DEF OneDials
  <2>4. todo'[c] # <<>> /\ Head(todo'[c]) \notin {"start", "ping", "reconnect", "wait", "failed"}
    BY <1>1 DEF Opens
  <2>5. "failed" \notin ToSet(todo'[c])
    BY <1>1 DEF Opens
  <2>6. Finds(c)'
    BY <1>6, <2>1, <2>4, <2>5 DEF Finds, At
  <2> QED BY <1>6, <1>7, <2>3, <2>6
<1> QED BY <1>8, <1>9

LEMMA DaemonNext == ScriptInv /\ DaemonInv /\ [Next]_vars => DaemonInv'
<1> SUFFICES ASSUME ScriptInv, DaemonInv, [Next]_vars PROVE DaemonInv'
  OBVIOUS
<1>0. Kr \in Clients /\ Kr \in Procs /\ Kr \notin Krds
  BY KrAssumption DEF Procs
<1>a. ScriptInv'
  BY ScriptStep
<1>1. ASSUME NEW command \in DOMAIN Commands, RunKr(command) PROVE DaemonInv'
  BY <1>0, <1>1, CommandOpens, BeginKeeps DEF RunKr
<1>2. ASSUME NEW c \in Clients, RunKrssh(c) PROVE DaemonInv'
  BY <1>2, DialOpens, BeginKeeps DEF RunKrssh
<1>3. ASSUME NEW c \in Clients, Failed(c) PROVE DaemonInv'
  <2>1. /\ todo[c] # <<>> /\ Head(todo[c]) = "failed"
        /\ sock' = sock /\ disturbed' = disturbed
    BY <1>3 DEF Failed, At, daemonVars
  <2>2. "failed" \in ToSet(todo[c])
    BY <2>1, HeadOf DEF Procs
  <2>3. disturbed
    BY <2>2 DEF DaemonInv, Finds
  <2> QED BY <2>1, <2>3 DEF DaemonInv
<1>4. ASSUME NEW c \in Clients, DaemonStep(DialStep(c, SocketOf(c)), 0) PROVE DaemonInv'
  <2>1. DialStep(c, SocketOf(c)) /\ SocketOf(c) \in Sockets
    BY <1>4 DEF DaemonStep, SocketOf, Sockets
  <2> QED BY <2>1, RestartKeeps, TalkKeeps DEF DialStep
<1>5. ASSUME NEW k \in Krds, DaemonStep(KrdStep(k), 0) \/ DaemonStep(Crash(k), 1) PROVE DaemonInv'
  <2>1. KrdStep(k) \/ Crash(k)
    BY <1>5 DEF DaemonStep
  <2> QED BY <2>1, KrdKeeps
<1>6. ASSUME NEW p \in Editors, Edit(p) PROVE DaemonInv'
  BY <1>6, EditKeepsDaemon DEF Edit
<1>7. CASE GitStep(Kr) /\ UNCHANGED <<configVars, daemonVars, bounds, histories>>
  <2>1. PICK steps : Moves(Kr, steps) /\ Calls(Head(todo[Kr]), steps) /\ todo[Kr] # <<>>
    BY <1>7, GitCalls
  <2>2. Head(todo[Kr]) \in GitSteps \cup {"onboard", "codesigning", "remove"}
    BY <1>7 DEF GitStep, SetGitConfig, OnboardAutoCommitSign, UninstallCodesigning, RemovePackage, At
  <2>3. Head(todo[Kr]) \notin DialSteps
    BY <2>2 DEF GitSteps, DialSteps
  <2> QED BY <1>7, <1>a, <2>1, <2>3, QuietKeeps
<1>8. CASE \/ InstallPackage /\ UNCHANGED <<configVars, daemonVars, bounds, histories>>
           \/ \E v \in Versions : UpgradeSsh(v) /\ UNCHANGED <<daemonVars, gitVars, bounds, histories>>
           \/ UNCHANGED vars
  <2>1. todo' = todo /\ alive' = alive /\ sock' = sock /\ disturbed' = disturbed
    BY <1>8 DEF InstallPackage, UpgradeSsh, daemonVars, vars
  <2>2. \A c \in Clients : Finds(c) => Finds(c)'
    BY <2>1, SameFinds
  <2> QED BY <2>1, <2>2 DEF DaemonInv, OneKrd, OwnSockets, OneDials, DialsKrd, At
<1>9. CASE Interrupt
  <2>1. /\ todo' = [todo EXCEPT ![Kr] = <<>>] /\ alive' = alive /\ sock' = sock
        /\ disturbed' = disturbed
    BY <1>9 DEF Interrupt, daemonVars
  <2>2. todo'[Kr] = <<>> /\ \A p \in Procs \ {Kr} : todo'[p] = todo[p]
    BY <1>0, <2>1 DEF ScriptInv
  <2>3. /\ \A k \in alive : todo'[k] = todo[k]
        /\ \A d \in Clients \ {Kr} : todo'[d] = todo[d]
    BY <1>0, <2>2 DEF ScriptInv, Procs
  <2>4. ~DialsKrd(Kr)'
    BY <2>2, EmptyScript DEF DialsKrd
  <2>5. \A d \in Clients \ {Kr} : Finds(d) => Finds(d)'
    BY <2>1, <2>3, SameFinds
  <2>6. Finds(Kr)'
    BY <1>0, <1>a, <2>4, IdleFinds
  <2>7. OneKrd => OneKrd'
    BY <2>1 DEF OneKrd
  <2>8. OwnSockets => OwnSockets'
    BY <2>1, <2>3 DEF OwnSockets, At
  <2>9. OneDials => OneDials'
    BY <2>3, <2>4 DEF OneDials, DialsKrd
  <2> QED BY <2>1, <2>5, <2>6, <2>7, <2>8, <2>9 DEF DaemonInv
<1>10. CASE Next
  BY <1>1, <1>2, <1>3, <1>4, <1>5, <1>6, <1>7, <1>8, <1>9, <1>10, Zenon DEF Next
<1> QED BY <1>8, <1>10

-----------------------------------------------------------------------------
(* The inductive invariant.                                                *)

LEMMA InvHolds == Spec => []Inv
<1>1. Init => Inv
  BY ScriptInit, FileInit, LinesInit, GitStarts, DaemonStarts DEF Inv
<1>2. Inv /\ [Next]_vars => Inv'
  BY ScriptStep, FileStep, LinesStep, GitNext, DaemonNext DEF Inv
<1> QED BY <1>1, <1>2, PTL DEF Spec

LEMMA FileContents ==
  ASSUME NEW file, Fits(file)
  PROVE  file \in Contents
<1>1. file \in Seq(Parts) /\ Len(file) <= 4
  BY Zenon DEF Fits
<1>2. file \in [1..Len(file) -> Parts] /\ Len(file) \in 0..4
  <2>1. Len(file) \in Nat /\ file \in [1..Len(file) -> Parts]
    BY <1>1, LenProperties
  <2> QED BY <1>1, <2>1
<1> QED BY <1>2 DEF Contents, BoundedSeq, SeqOf, MaxParts

(* The files stay within the parts and the length that the model gives     *)
(* them (CleanSSHConfig, EditSSHConfig and MigrateSSHConfig of             *)
(* sshconfig.go never add more), the processes, the sockets and the git    *)
(* settings have their types.                                              *)
THEOREM TypeCorrect == Spec => []TypeOK
<1>1. Inv => TypeOK
  <2> SUFFICES ASSUME Inv PROVE TypeOK
    OBVIOUS
  <2>1. ConfigTypeOK
    BY FileContents DEF Inv, FileInv, ConfigTypeOK
  <2>2. DaemonTypeOK /\ GitTypeOK
    BY DEF Inv, ScriptInv, DaemonInv, GitInv, DaemonTypeOK
  <2> QED BY <2>1, <2>2 DEF TypeOK
<1> QED BY <1>1, InvHolds, PTL

(* The rewrites of ~/.ssh/config by kr and krd, in any interleaving and    *)
(* with any upgrade of ssh and interruption between their steps, never     *)
(* lose the user's lines, but for the two histories that atRisk names.     *)
THEOREM UserLinesKept == Spec => []LinesKept
<1>1. Inv => LinesKept
  <2> SUFFICES ASSUME Inv, ~atRisk PROVE LinesKept
    BY DEF LinesKept
  <2>1. /\ \A p \in Editors : AtOneOf(p, Rewriting) => Contains(buf[p].new, "user")
        /\ ~torn => Contains(config, "user")
        /\ torn => BackedUp \/ \E p \in Editors : At(p, "write")
    BY DEF Inv, LinesInv
  <2>2. \A p \in Editors : At(p, "write") => AtOneOf(p, Rewriting)
    BY DEF AtOneOf, Rewriting
  <2> QED BY <2>1, <2>2 DEF LinesKept, BackedUp
<1> QED BY <1>1, InvHolds, PTL

(* Without --force, neither the append of kr nor the renaming of krd nor   *)
(* the migration leaves two blocks of Krypton's lines in ~/.ssh/config.    *)
THEOREM OneBlockOnly == Spec => []NoSecondBlock
<1>1. Inv => NoSecondBlock
  <2> SUFFICES ASSUME Inv, ~forced PROVE NoSecondBlock
    BY DEF NoSecondBlock
  <2> DEFINE S == {i \in DOMAIN config : config[i] \in Blocks}
  <2>1. OneBlock(config) /\ config \in Seq(Parts)
    BY DEF Inv, FileInv, Fits
  <2>2. \A i, j \in S : i = j
    BY <2>1 DEF OneBlock, Rare
  <2> HIDE DEF S
  <2>3. Cardinality(S) <= 1
    <3>1. CASE S = {}
      BY <3>1, FS_EmptySet
    <3>2. CASE S # {}
      <4>1. PICK x : S = {x}
        BY <2>2, <3>2
      <4> QED BY <4>1, FS_Singleton
    <3> QED BY <3>1, <3>2
  <2> QED BY <2>3 DEF NoSecondBlock, S
<1> QED BY <1>1, InvHolds, PTL

(* IdentityAgent is in ~/.ssh/config only while ssh is at least 7.3: kr    *)
(* and krd write it after localSSHSupportsIdentityAgent, and ssh is only   *)
(* ever upgraded.                                                          *)
THEOREM AgentSupported == Spec => []IdentityAgentSupported
<1>1. Inv => IdentityAgentSupported
  <2> SUFFICES ASSUME Inv, NEW i \in DOMAIN config, config[i] \in {"agent", "agentite"}
               PROVE  sshVersion # <<>> /\ AtLeast(sshVersion, <<7, 3>>)
    BY DEF IdentityAgentSupported
  <2>1. ~WithoutAgent(config)
    BY DEF WithoutAgent, Contains, Inv, FileInv, Fits
  <2>2. SupportsIdentityAgent(sshVersion) /\ sshVersion \in Versions
    BY <2>1 DEF Inv, FileInv
  <2>3. sshVersion # <<>> /\ sshVersion \in Nat \X Nat
    BY <2>2, VersionsAssumption DEF SupportsIdentityAgent
  <2> QED BY <2>2, <2>3 DEF SupportsIdentityAgent, AtLeast
<1> QED BY <1>1, InvHolds, PTL

(* DaemonDial, its one retry after a restart, and the ping of kr get       *)
(* through to krd whenever the client has the daemon for itself, whatever  *)
(* sockets an earlier krd left.                                            *)
THEOREM DialsConnect == Spec => []SerialDialsConnect
<1>1. Inv => SerialDialsConnect
  <2> SUFFICES ASSUME Inv, NEW c \in Clients, At(c, "failed"), ~disturbed PROVE FALSE
    BY DEF SerialDialsConnect, Inv, DaemonInv
  <2>1. "failed" \in ToSet(todo[c])
    BY HeadOf DEF Inv, Procs, At
  <2> QED BY <2>1 DEF Inv, DaemonInv, Finds
<1> QED BY <1>1, InvHolds, PTL

(* StartKrd, KillKrd and the listeners of krd leave one daemon, which      *)
(* listens on all three sockets once it is up, as long as the clients do   *)
(* not restart it under each other.                                        *)
THEOREM OneDaemon == Spec => []OneDaemonServes
<1>1. Inv => OneDaemonServes
  <2> SUFFICES ASSUME Inv, ~disturbed
               PROVE  /\ Cardinality(alive) <= 1
                      /\ \A k \in alive : At(k, "up") => \A s \in Sockets : sock[s] = k
    BY DEF OneDaemonServes, Inv, DaemonInv
  <2>1. OneKrd /\ OwnSockets /\ ScriptInv
    BY DEF Inv, DaemonInv
  <2>2. Cardinality(alive) <= 1
    <3>1. CASE alive = {}
      BY <3>1, FS_EmptySet
    <3>2. CASE alive # {}
      <4>1. PICK x : alive = {x}
        BY <2>1, <3>2 DEF OneKrd
      <4> QED BY <4>1, FS_Singleton
    <3> QED BY <3>1, <3>2
  <2>3. ASSUME NEW k \in alive, At(k, "up"), NEW s \in Sockets PROVE sock[s] = k
    <3>1. ToSet(todo[k]) = {"up"} /\ ~At(k, "stop")
      BY <2>1, <2>3, UpScript DEF At
    <3> QED BY <2>1, <3>1 DEF OwnSockets, Sockets
  <2> QED BY <2>2, <2>3
<1> QED BY <1>1, InvHolds, PTL

(* After any commands of kr codesign and kr uninstall that ran to their    *)
(* end, git signs only with a program that is there, and only by settings  *)
(* that were not taken back with it.                                       *)
THEOREM GitStaysUsable == Spec => []GitKeepsCommitting
<1>1. Inv => GitKeepsCommitting
  <2> SUFFICES ASSUME Inv, ~cut, todo[Kr] = <<>>
               PROVE  /\ git.program = "krgpg" => installed
                      /\ git.commitSign => git.program = "krgpg" \/ turnedOn
                      /\ git.tagSign => git.program = "krgpg"
    BY DEF GitKeepsCommitting, Inv, GitInv
  <2>1. ToSet(todo[Kr]) = {}
    BY EmptyScript
  <2> QED BY <2>1 DEF Inv, GitInv
<1> QED BY <1>1, InvHolds, PTL
=============================================================================
