-------------------------- MODULE Transport_proofs --------------------------
(***************************************************************************)
(* The transport implements a Channel in either direction, for any number  *)
(* of messages, readers and failing AWS calls.  The two directions share   *)
(* only the queues that exist, so the invariant has one part for each.     *)
(***************************************************************************)
EXTENDS Transport, TLAPS

(* What both directions share.                                             *)
SharedOK ==
    /\ exists \subseteq {"send", "recv"}
    /\ setup \in {"send", "recv", "done", "failed"}
    /\ faults \in 0..MaxFaults

SendTypes ==
    /\ sendQueue \in [Outgoing -> Nat]
    /\ sender \in [Outgoing -> {"idle", "send", "create", "again", "sent", "failed"}]
    /\ push \in [Outgoing -> {"idle", "publish", "enable", "again", "done"}]
    /\ endpoint \in {"none", "enabled", "disabled"}
    /\ received \subseteq Outgoing

(* A call of SendToQueue leaves at most one copy in the queue, and it makes *)
(* at most two that can: a copy needs the queue, and once the queue exists *)
(* the branch that creates it is closed.                                   *)
Copies(m) ==
    /\ sender[m] \in {"idle", "send", "create"} => sendQueue[m] = 0
    /\ sender[m] = "again" => sendQueue[m] <= 1
    /\ sendQueue[m] <= 2
    /\ sendQueue[m] > 0 => "send" \in exists

(* Before SendMessage there is nothing of a message, and a SendToQueue     *)
(* that returned no error left a copy, which only the phone removes.       *)
Accounted(m) ==
    /\ sender[m] = "idle" => push[m] = "idle" /\ m \notin received
    /\ sender[m] = "sent" => sendQueue[m] > 0 \/ m \in received

SendInv == SendTypes /\ \A m \in Outgoing : Copies(m) /\ Accounted(m)

ReadTypes ==
    /\ recvQueue \in [Incoming -> {"new", "visible", "inflight", "deleted"}]
    /\ reader \in [Readers -> [pc : {"receive", "create", "again", "delete"},
                               batch : SUBSET Incoming]]
    /\ handed \subseteq Incoming /\ told \subseteq Incoming

(* A Read holds messages only between its two calls, and only messages the *)
(* phone did send.                                                         *)
Holds(r) ==
    /\ reader[r].pc # "delete" => reader[r].batch = {}
    /\ \A m \in reader[r].batch : recvQueue[m] # "new"

(* A deleted answer is in the hands of a Read, was returned by one, or was *)
(* part of a batch whose Read returned an error.                           *)
Traced(m) ==
    /\ m \in handed => recvQueue[m] # "new" /\ m \notin Garbled
    /\ recvQueue[m] = "deleted" /\ m \notin Garbled => m \in Held \cup handed \cup told

ReadInv ==
    /\ ReadTypes
    /\ \A r \in Readers : Holds(r)
    /\ \A m \in Incoming : Traced(m)

Inv == SharedOK /\ SendInv /\ ReadInv

LEMMA InvTypes == Inv => TypeOK
<1> SUFFICES ASSUME Inv PROVE TypeOK
  OBVIOUS
<1>1. \A m \in Outgoing : sendQueue[m] \in 0..2
  BY DEF Inv, SendInv, SendTypes, Copies
<1>2. sendQueue \in [Outgoing -> 0..2]
  BY <1>1 DEF Inv, SendInv, SendTypes
<1> QED BY <1>2 DEF Inv, SharedOK, SendInv, SendTypes, ReadInv, ReadTypes, TypeOK

LEMMA InvInit == Init => Inv
<1> SUFFICES ASSUME Init PROVE Inv
  OBVIOUS
<1>1. SharedOK
  BY TransportAssumption DEF Init, SharedOK
<1>2. SendInv
  BY DEF Init, SendInv, SendTypes, Copies, Accounted
<1>3. ReadInv
  BY DEF Init, Idle, ReadInv, ReadTypes, Holds, Traced
<1> QED BY <1>1, <1>2, <1>3 DEF Inv

-----------------------------------------------------------------------------
(* Frames: what an action leaves alone keeps its part of the invariant.    *)

LEMMA CallFaults ==
  ASSUME SharedOK, NEW ok, NEW applied, Call(ok, applied)
  PROVE  faults' \in 0..MaxFaults /\ ok \in BOOLEAN /\ applied \in BOOLEAN /\ (ok => applied)
BY TransportAssumption DEF SharedOK, Call

(* Queues are created and never deleted.                                   *)
LEMMA CreateGrows ==
  ASSUME SharedOK, NEW q \in {"send", "recv"}, NEW applied \in BOOLEAN, CreateQueue(q, applied)
  PROVE  exists \subseteq exists' /\ exists' \subseteq {"send", "recv"}
BY DEF SharedOK, CreateQueue

LEMMA SendFrame ==
  ASSUME SendInv, exists \subseteq exists', UNCHANGED phoneVars
  PROVE  SendInv'
BY DEF SendInv, SendTypes, Copies, Accounted, phoneVars

LEMMA ReadFrame ==
  ASSUME ReadInv, UNCHANGED readVars
  PROVE  ReadInv'
BY DEF ReadInv, ReadTypes, Holds, Traced, Held, readVars

(* An action about one outgoing message keeps SendInv if it keeps it for   *)
(* that message.                                                           *)
LEMMA OneMessage ==
  ASSUME SendInv, SendTypes', NEW m \in Outgoing, Copies(m)', Accounted(m)',
         exists \subseteq exists',
         \A n \in Outgoing \ {m} :
            /\ sender'[n] = sender[n] /\ push'[n] = push[n] /\ sendQueue'[n] = sendQueue[n]
            /\ n \in received' <=> n \in received
  PROVE  SendInv'
<1>1. ASSUME NEW n \in Outgoing, n # m PROVE Copies(n)' /\ Accounted(n)'
  BY <1>1 DEF SendInv, Copies, Accounted
<1> QED BY <1>1 DEF SendInv

-----------------------------------------------------------------------------
(* Workstation to phone.                                                   *)

LEMMA InvSetup ==
  ASSUME Inv, NEW ok, NEW applied, Setup(ok, applied)
  PROVE  Inv'
<1>1. SharedOK' /\ exists \subseteq exists'
  BY CallFaults, CreateGrows DEF Inv, SharedOK, Setup
<1> QED BY <1>1, SendFrame, ReadFrame DEF Inv, Setup, phoneVars, readVars

LEMMA InvSendMessage ==
  ASSUME Inv, NEW m \in Outgoing, SendMessage(m)
  PROVE  Inv'
<1>1. SharedOK' /\ ReadInv'
  BY ReadFrame DEF Inv, SharedOK, SendMessage
<1>2. SendTypes'
  BY DEF Inv, SendInv, SendTypes, SendMessage
<1>3. Copies(m)' /\ Accounted(m)'
  BY DEF Inv, SendInv, SendTypes, SendMessage, Copies, Accounted
<1>4. SendInv'
  BY <1>2, <1>3, OneMessage DEF Inv, SendInv, SendTypes, SendMessage
<1> QED BY <1>1, <1>4 DEF Inv

LEMMA InvSendToQueue ==
  ASSUME Inv, NEW m \in Outgoing, NEW ok, NEW applied, SendToQueue(m, ok, applied)
  PROVE  Inv'
<1> USE DEF SendToQueue, SendCall
<1>1. SharedOK' /\ ReadInv'
  BY CallFaults, ReadFrame DEF Inv, SharedOK
<1>2. SendTypes'
  BY CallFaults DEF Inv, SendInv, SendTypes
<1>3. Copies(m)' /\ Accounted(m)'
  <2>1. CASE "send" \in exists
    BY <2>1, CallFaults DEF Inv, SendInv, SendTypes, Copies, Accounted
  <2>2. CASE "send" \notin exists
    BY <2>2 DEF Inv, SendInv, SendTypes, Copies, Accounted
  <2> QED BY <2>1, <2>2
<1>4. SendInv'
  BY <1>2, <1>3, OneMessage DEF Inv, SendInv, SendTypes
<1> QED BY <1>1, <1>4 DEF Inv

LEMMA InvSendCreatesQueue ==
  ASSUME Inv, NEW m \in Outgoing, NEW ok, NEW applied, SendCreatesQueue(m, ok, applied)
  PROVE  Inv'
<1> USE DEF SendCreatesQueue, SendCreates
<1>1. SharedOK' /\ ReadInv' /\ exists \subseteq exists'
  BY CallFaults, CreateGrows, ReadFrame DEF Inv, SharedOK
<1>2. SendTypes'
  BY DEF Inv, SendInv, SendTypes
<1>3. Copies(m)' /\ Accounted(m)'
  BY DEF Inv, SendInv, SendTypes, Copies, Accounted
<1>4. SendInv'
  BY <1>1, <1>2, <1>3, OneMessage DEF Inv, SendInv, SendTypes
<1> QED BY <1>1, <1>4 DEF Inv

LEMMA InvPush ==
  ASSUME Inv, NEW m \in Outgoing, NEW ok, NEW applied, PushStep(m, ok, applied)
  PROVE  Inv'
<1> USE DEF PushStep, PushToSNS, EnableSNSEndpoint
<1>1. SharedOK' /\ ReadInv'
  BY CallFaults, ReadFrame DEF Inv, SharedOK
<1>2. SendTypes'
  BY CallFaults DEF Inv, SendInv, SendTypes
<1>3. Copies(m)' /\ Accounted(m)'
  BY DEF Inv, SendInv, SendTypes, Copies, Accounted
<1>4. SendInv'
  BY <1>2, <1>3, OneMessage DEF Inv, SendInv, SendTypes
<1> QED BY <1>1, <1>4 DEF Inv

LEMMA InvPhonePoll ==
  ASSUME Inv, NEW m \in Outgoing, PhonePoll(m)
  PROVE  Inv'
<1>1. SharedOK' /\ ReadInv'
  BY ReadFrame DEF Inv, SharedOK, PhonePoll
<1>2. SendTypes'
  BY DEF Inv, SendInv, SendTypes, PhonePoll
<1>3. Copies(m)' /\ Accounted(m)'
  BY DEF Inv, SendInv, SendTypes, PhonePoll, Copies, Accounted
<1>4. SendInv'
  BY <1>2, <1>3, OneMessage DEF Inv, SendInv, SendTypes, PhonePoll
<1> QED BY <1>1, <1>4 DEF Inv

LEMMA InvEndpoint ==
  ASSUME Inv, EndpointKnown \/ EndpointDisabled
  PROVE  Inv'
<1> USE DEF EndpointKnown, EndpointDisabled
<1>1. SharedOK' /\ ReadInv'
  BY CallFaults, ReadFrame DEF Inv, SharedOK
<1>2. SendInv'
  BY DEF Inv, SendInv, SendTypes, Copies, Accounted
<1> QED BY <1>1, <1>2 DEF Inv

-----------------------------------------------------------------------------
(* Phone to workstation.                                                   *)

LEMMA HeldMembers == \A m : m \in Held <=> \E r \in Readers : m \in reader[r].batch
BY DEF Held

LEMMA HeldMembersPrime == \A m : m \in Held' <=> \E r \in Readers : m \in reader'[r].batch
BY DEF Held

(* What a receive call may return is visible, so it was sent and is not    *)
(* deleted.                                                                *)
LEMMA BatchIsVisible ==
  ASSUME NEW applied, NEW b \in IF applied THEN Batches ELSE {{}}
  PROVE  b \subseteq Incoming /\ \A m \in b : recvQueue[m] = "visible"
BY DEF Batches, Visible

(* A Read that hands nothing out: messages are hidden, none is deleted,    *)
(* and the Read holds only what it has just received.                      *)
LEMMA ReceiveKeeps ==
  ASSUME ReadInv, NEW r \in Readers, NEW pc \in {"receive", "create", "again", "delete"},
         NEW b \in SUBSET Incoming, NEW h \in SUBSET Incoming,
         \A m \in b : recvQueue[m] = "visible",
         h = {} \/ (h = b /\ pc = "delete"),
         reader[r].pc # "delete",
         Hide(b), ReadTo(r, pc, h), UNCHANGED <<handed, told>>
  PROVE  ReadInv'
<1>1. ReadTypes'
  BY DEF ReadInv, ReadTypes, Hide, ReadTo
<1>2. \A m \in Incoming : recvQueue'[m] = IF m \in b THEN "inflight" ELSE recvQueue[m]
  BY DEF Hide
<1>3. /\ reader'[r] = [pc |-> pc, batch |-> h]
      /\ \A q \in Readers \ {r} : reader'[q] = reader[q]
  BY DEF ReadInv, ReadTypes, ReadTo
<1>4. \A q \in Readers : Holds(q)'
  BY <1>1, <1>2, <1>3 DEF ReadInv, ReadTypes, Holds
<1>5. Held \subseteq Held'
  BY <1>3, HeldMembers, HeldMembersPrime DEF ReadInv, Holds
<1>6. \A m \in Incoming : Traced(m)'
  BY <1>2, <1>5 DEF ReadInv, Traced
<1> QED BY <1>1, <1>4, <1>6 DEF ReadInv

LEMMA NothingHidden ==
  ASSUME ReadTypes, UNCHANGED recvQueue
  PROVE  Hide({})
BY DEF ReadTypes, Hide

LEMMA InvReceiveFirst ==
  ASSUME Inv, NEW r \in Readers, NEW ok, NEW applied, ReceiveFirst(r, ok, applied)
  PROVE  Inv'
<1>1. SharedOK' /\ SendInv'
  BY CallFaults, SendFrame DEF Inv, SharedOK, ReceiveFirst
<1>2. reader[r].pc # "delete" /\ UNCHANGED <<handed, told>>
  BY DEF ReceiveFirst
<1>3. CASE "recv" \in exists
  <2>1. PICK b \in IF applied THEN Batches ELSE {{}} :
           /\ Hide(b)
           /\ ReadTo(r, IF ~ok THEN "again" ELSE IF b = {} THEN "receive" ELSE "delete",
                     IF ok THEN b ELSE {})
    BY <1>3 DEF ReceiveFirst
  <2>2. b \subseteq Incoming /\ \A m \in b : recvQueue[m] = "visible"
    BY BatchIsVisible
  <2>3. CASE ok /\ b # {}
    <3>1. ReadTo(r, "delete", b)
      BY <2>1, <2>3
    <3> QED BY <1>1, <1>2, <2>1, <2>2, <3>1, ReceiveKeeps DEF Inv
  <2>4. CASE ~ok
    <3>1. ReadTo(r, "again", {})
      BY <2>1, <2>4
    <3> QED BY <1>1, <1>2, <2>1, <2>2, <3>1, ReceiveKeeps DEF Inv
  <2>5. CASE ok /\ b = {}
    <3>1. ReadTo(r, "receive", {})
      BY <2>1, <2>5
    <3> QED BY <1>1, <1>2, <2>1, <2>2, <3>1, ReceiveKeeps DEF Inv
  <2> QED BY <2>3, <2>4, <2>5
<1>4. CASE "recv" \notin exists
  <2>1. ReadTo(r, "create", {}) /\ UNCHANGED recvQueue
    BY <1>4 DEF ReceiveFirst
  <2>2. Hide({})
    BY <2>1, NothingHidden DEF Inv, ReadInv
  <2> QED BY <1>1, <1>2, <2>1, <2>2, ReceiveKeeps DEF Inv
<1> QED BY <1>3, <1>4

LEMMA InvReadCreatesQueue ==
  ASSUME Inv, NEW r \in Readers, NEW ok, NEW applied, ReadCreatesQueue(r, ok, applied)
  PROVE  Inv'
<1>1. SharedOK' /\ exists \subseteq exists'
  BY CallFaults, CreateGrows DEF Inv, SharedOK, ReadCreatesQueue
<1>2. SendInv'
  BY <1>1, SendFrame DEF Inv, ReadCreatesQueue
<1>3. Hide({})
  BY NothingHidden DEF Inv, ReadInv, ReadCreatesQueue
<1>4. ReadTo(r, "again", {}) \/ ReadTo(r, "receive", {})
  BY DEF ReadCreatesQueue
<1>5. reader[r].pc # "delete" /\ UNCHANGED <<handed, told>>
  BY DEF ReadCreatesQueue
<1> QED BY <1>1, <1>2, <1>3, <1>4, <1>5, ReceiveKeeps DEF Inv

LEMMA InvReceiveAgain ==
  ASSUME Inv, NEW r \in Readers, NEW ok, NEW applied, ReceiveAgain(r, ok, applied)
  PROVE  Inv'
<1> USE DEF ReceiveAgain, ReceiveAndThrowAway
<1>1. SharedOK' /\ SendInv'
  BY CallFaults, SendFrame DEF Inv, SharedOK
<1>2. PICK b \in IF applied THEN Batches ELSE {{}} : Hide(b)
  BY DEF Hide
<1>3. b \subseteq Incoming /\ \A m \in b : recvQueue[m] = "visible"
  BY BatchIsVisible
<1> QED BY <1>1, <1>2, <1>3, ReceiveKeeps DEF Inv

LEMMA InvReadDeletes ==
  ASSUME Inv, NEW r \in Readers, ReadDeletes(r)
  PROVE  Inv'
<1> USE DEF ReadDeletes, DeleteAndHand
<1>1. PICK deleted \in SUBSET reader[r].batch, err \in BOOLEAN :
         /\ DeleteOutcome(reader[r].batch, deleted, err)
         /\ recvQueue' = [m \in Incoming |-> IF m \in deleted THEN "deleted" ELSE recvQueue[m]]
         /\ handed' = IF err THEN handed ELSE handed \cup (reader[r].batch \ Garbled)
         /\ told' = IF err THEN told \cup reader[r].batch ELSE told
  OBVIOUS
<1>2. SharedOK' /\ SendInv'
  BY <1>1, SendFrame, TransportAssumption DEF Inv, SharedOK, DeleteOutcome
<1>3. reader[r].batch \subseteq Incoming
  BY DEF Inv, ReadInv, ReadTypes
<1>4. ReadTypes'
  <2>1. recvQueue' \in [Incoming -> {"new", "visible", "inflight", "deleted"}]
    BY <1>1 DEF Inv, ReadInv, ReadTypes
  <2>2. reader' \in [Readers -> [pc : {"receive", "create", "again", "delete"},
                                 batch : SUBSET Incoming]]
    BY DEF Inv, ReadInv, ReadTypes, ReadTo
  <2>3. handed' \subseteq Incoming /\ told' \subseteq Incoming
    BY <1>1, <1>3 DEF Inv, ReadInv, ReadTypes
  <2> QED BY <2>1, <2>2, <2>3 DEF ReadTypes
<1>5. /\ reader'[r] = [pc |-> "receive", batch |-> {}]
      /\ \A q \in Readers \ {r} : reader'[q] = reader[q]
  BY DEF Inv, ReadInv, ReadTypes, ReadTo
<1>6. \A m \in Incoming : recvQueue'[m] = IF m \in deleted THEN "deleted" ELSE recvQueue[m]
  BY <1>1
<1>7. ASSUME NEW q \in Readers PROVE Holds(q)'
  BY <1>4, <1>5, <1>6 DEF Inv, ReadInv, ReadTypes, Holds
<1>8. Held \subseteq Held' \cup reader[r].batch
  BY <1>5, HeldMembers, HeldMembersPrime
<1>9. ASSUME NEW m \in Incoming PROVE Traced(m)'
  <2>1. m \in handed' => recvQueue'[m] # "new" /\ m \notin Garbled
    BY <1>1, <1>6 DEF Inv, ReadInv, Traced, Holds
  <2>2. ASSUME recvQueue'[m] = "deleted", m \notin Garbled
        PROVE  m \in Held' \cup handed' \cup told'
    <3>1. m \in deleted \/ m \in Held \cup handed \cup told
      BY <1>6, <2>2 DEF Inv, ReadInv, Traced
    <3>2. m \in reader[r].batch => m \in handed' \cup told'
      BY <1>1, <2>2
    <3> QED BY <1>1, <1>8, <3>1, <3>2
  <2> QED BY <2>1, <2>2 DEF Traced
<1> QED BY <1>2, <1>4, <1>7, <1>9 DEF Inv, ReadInv

LEMMA InvShow ==
  ASSUME Inv, NEW m \in Incoming, PhoneSend(m) \/ VisibilityTimeout(m)
  PROVE  Inv'
<1> USE DEF PhoneSend, VisibilityTimeout
<1>1. SharedOK' /\ SendInv'
  BY SendFrame DEF Inv, SharedOK
<1>2. ReadTypes' /\ \A r \in Readers : Holds(r)'
  BY DEF Inv, ReadInv, ReadTypes, Holds
<1>3. Held' = Held
  BY DEF Held
<1>4. \A n \in Incoming : Traced(n)'
  BY <1>3 DEF Inv, ReadInv, ReadTypes, Traced
<1> QED BY <1>1, <1>2, <1>4 DEF Inv, ReadInv

LEMMA InvNext == Inv /\ [Next]_vars => Inv'
<1> SUFFICES ASSUME Inv, [Next]_vars PROVE Inv'
  OBVIOUS
<1>1. CASE UNCHANGED vars
  <2>1. SharedOK' /\ UNCHANGED phoneVars /\ UNCHANGED readVars /\ exists' = exists
    BY <1>1 DEF Inv, SharedOK, vars, phoneVars, readVars
  <2> QED BY <2>1, SendFrame, ReadFrame DEF Inv
<1>2. ASSUME NEW ok \in BOOLEAN, NEW applied \in BOOLEAN, Setup(ok, applied) PROVE Inv'
  BY <1>2, InvSetup
<1>3. ASSUME NEW ok \in BOOLEAN, NEW applied \in BOOLEAN, NEW m \in Outgoing,
             SendStep(m, ok, applied) \/ PushStep(m, ok, applied)
      PROVE  Inv'
  BY <1>3, InvSendToQueue, InvSendCreatesQueue, InvPush DEF SendStep
<1>4. ASSUME NEW ok \in BOOLEAN, NEW applied \in BOOLEAN, NEW r \in Readers,
             ReadStep(r, ok, applied)
      PROVE  Inv'
  BY <1>4, InvReceiveFirst, InvReadCreatesQueue, InvReceiveAgain DEF ReadStep
<1>5. ASSUME NEW m \in Outgoing, SendMessage(m) \/ PhonePoll(m) PROVE Inv'
  BY <1>5, InvSendMessage, InvPhonePoll
<1>6. ASSUME NEW m \in Incoming, PhoneSend(m) \/ VisibilityTimeout(m) PROVE Inv'
  BY <1>6, InvShow
<1>7. ASSUME NEW r \in Readers, ReadDeletes(r) PROVE Inv'
  BY <1>7, InvReadDeletes
<1>8. CASE EndpointKnown \/ EndpointDisabled
  BY <1>8, InvEndpoint
<1> QED BY <1>1, <1>2, <1>3, <1>4, <1>5, <1>6, <1>7, <1>8 DEF Next

(* The bookkeeping of both directions holds in every reachable state.      *)
THEOREM Structure == Spec => []Inv
BY InvInit, InvNext, PTL DEF Spec

(* SendToQueue never leaves more than two copies of a message in the       *)
(* queue, however its calls fail: part of the type invariant.              *)
THEOREM TypeCorrect == Spec => []TypeOK
BY Structure, InvTypes, PTL

-----------------------------------------------------------------------------
(* Refinement.  Either direction has the same shape: the messages that     *)
(* were put in, all of them under way, delivered or lost.                  *)

LEMMA LostSplit ==
  ASSUME NEW in, NEW transit, NEW transitN, NEW got, NEW gotN,
         transitN \subseteq transit, transit \subseteq in,
         got \subseteq gotN, gotN \subseteq got \cup transit
  PROVE  in \ (transitN \cup gotN) =
            (in \ (transit \cup got)) \cup ((transit \ transitN) \ gotN)
OBVIOUS

Started == {m \in Outgoing : sender[m] # "idle"}
FailedSends == {m \in Outgoing : sender[m] = "failed"}

LEMMA SendChannelState ==
  ASSUME SendInv
  PROVE  /\ UnderWay \subseteq Started /\ received \subseteq Started
         /\ Started \ (UnderWay \cup received) \subseteq FailedSends
BY DEF SendInv, SendTypes, Copies, Accounted, UnderWay, Started, FailedSends

(* A step after SendMessage: what the phone gets was under way, and what   *)
(* is no longer under way was got or reported.                             *)
LEMMA SendProgress ==
  ASSUME SendInv, SendInv', Started' = Started,
         UnderWay' \subseteq UnderWay, FailedSends \subseteq FailedSends',
         received \subseteq received', received' \subseteq received \cup UnderWay
  PROVE  Send!Progress
<1> DEFINE delivered == received' \ received
           gone == UnderWay \ UnderWay'
           reported == FailedSends'
<1>1. /\ delivered \in SUBSET UnderWay /\ gone \in SUBSET UnderWay
      /\ reported \in SUBSET Outgoing
  BY DEF FailedSends
<1>2. received' = received \cup delivered /\ UnderWay' = UnderWay \ gone
  OBVIOUS
<1>3. (Started \ (UnderWay \cup received))' =
         (Started \ (UnderWay \cup received)) \cup (gone \ received')
  BY SendChannelState, LostSplit
<1>4. FailedSends' = FailedSends \cup reported
  OBVIOUS
<1>5. (Started \ (UnderWay \cup received))' \subseteq FailedSends'
  BY DEF SendInv, SendTypes, Copies, Accounted, UnderWay, Started, FailedSends
<1> HIDE DEF delivered, gone, reported
<1> QED BY <1>1, <1>2, <1>3, <1>4, <1>5 DEF Send!Progress, Started, FailedSends

LEMMA SendStutters ==
  ASSUME UNCHANGED <<sendQueue, sender, push, received>>
  PROVE  UNCHANGED <<UnderWay, received, Started \ (UnderWay \cup received), FailedSends>>
BY DEF UnderWay, Started, FailedSends

LEMMA SendMessagePuts ==
  ASSUME SendInv, NEW m \in Outgoing, SendMessage(m)
  PROVE  Send!Put(m)
<1>1. m \notin UnderWay \cup received \cup Started
  BY DEF SendInv, SendTypes, Copies, Accounted, UnderWay, Started, SendMessage
<1>2. /\ UnderWay' = UnderWay \cup {m} /\ received' = received
      /\ Started' = Started \cup {m} /\ FailedSends' = FailedSends
  BY DEF SendInv, SendTypes, Copies, UnderWay, Started, FailedSends, SendMessage
<1>3. (Started \ (UnderWay \cup received))' = Started \ (UnderWay \cup received)
  BY <1>1, <1>2
<1> QED BY <1>1, <1>2, <1>3 DEF Send!Put, Started, FailedSends

LEMMA SendStepProgress ==
  ASSUME SendInv, SendInv', NEW m \in Outgoing, NEW ok, NEW applied,
         \/ SendStep(m, ok, applied) \/ PushStep(m, ok, applied) \/ PhonePoll(m)
  PROVE  Send!Progress
<1> USE DEF SendStep, SendToQueue, SendCall, SendCreatesQueue, SendCreates,
            PushStep, PushToSNS, EnableSNSEndpoint, PhonePoll
<1>1. Started' = Started /\ FailedSends \subseteq FailedSends'
  BY DEF SendInv, SendTypes, Started, FailedSends
<1>2. UnderWay' \subseteq UnderWay
  BY DEF SendInv, SendTypes, UnderWay
<1>3. received \subseteq received' /\ received' \subseteq received \cup UnderWay
  BY DEF SendInv, SendTypes, UnderWay
<1> QED BY <1>1, <1>2, <1>3, SendProgress

(* The workstation's side of the transport is a channel: a request whose   *)
(* SendMessage or PushAlert returned no error is on its way or with the    *)
(* phone, whichever calls failed and however the goroutines interleave.    *)
THEOREM SendImplementsChannel == Spec => SendIsChannel
<1>1. Init => Send!Init
  BY DEF Init, Send!Init, UnderWay
<1>2. Inv /\ Inv' /\ [Next]_vars =>
         [Send!Next]_<<UnderWay, received,
                       {m \in Outgoing : sender[m] # "idle"} \ (UnderWay \cup received),
                       {m \in Outgoing : sender[m] = "failed"}>>
  <2> SUFFICES ASSUME Inv, Inv', [Next]_vars
               PROVE  [Send!Next]_<<UnderWay, received,
                                    Started \ (UnderWay \cup received), FailedSends>>
    BY DEF Started, FailedSends
  <2>1. SendInv /\ SendInv'
    BY DEF Inv
  <2>2. ASSUME NEW m \in Outgoing, SendMessage(m) PROVE Send!Next
    BY <2>1, <2>2, SendMessagePuts DEF Send!Next
  <2>3. ASSUME NEW m \in Outgoing, NEW ok \in BOOLEAN, NEW applied \in BOOLEAN,
               SendStep(m, ok, applied) \/ PushStep(m, ok, applied) \/ PhonePoll(m)
        PROVE  Send!Next
    BY <2>1, <2>3, SendStepProgress DEF Send!Next
  <2>4. ASSUME UNCHANGED vars \/ \E ok, applied \in BOOLEAN : Setup(ok, applied)
                  \/ \E r \in Readers : ReadStep(r, ok, applied)
        PROVE  UNCHANGED <<sendQueue, sender, push, received>>
    BY <2>4 DEF vars, phoneVars, Setup, ReadStep, ReceiveFirst, ReadCreatesQueue,
                ReceiveAgain, ReceiveAndThrowAway
  <2>5. ASSUME \/ \E m \in Incoming : PhoneSend(m) \/ VisibilityTimeout(m)
               \/ \E r \in Readers : ReadDeletes(r)
               \/ EndpointKnown \/ EndpointDisabled
        PROVE  UNCHANGED <<sendQueue, sender, push, received>>
    BY <2>5 DEF phoneVars, PhoneSend, VisibilityTimeout, ReadDeletes, DeleteAndHand,
                EndpointKnown, EndpointDisabled
  <2>6. CASE UNCHANGED <<sendQueue, sender, push, received>>
    BY <2>6, SendStutters
  <2> QED BY <2>2, <2>3, <2>4, <2>5, <2>6 DEF Next
<1> QED BY <1>1, <1>2, Structure, PTL DEF Spec, SendIsChannel, Send!Spec

-----------------------------------------------------------------------------
(* The answers the phone has sent, as far as they are base64.              *)
Sent == {m \in Incoming \ Garbled : recvQueue[m] # "new"}

LEMMA RecvChannelState ==
  ASSUME ReadInv
  PROVE  /\ Answers \subseteq Sent /\ handed \subseteq Sent
         /\ {m \in Incoming \ Garbled : recvQueue[m] = "deleted"} \ (Held \cup handed) =
               Sent \ (Answers \cup handed)
         /\ Sent \ (Answers \cup handed) \subseteq told \ Garbled
BY HeldMembers DEF ReadInv, ReadTypes, Holds, Traced, Answers, Sent

LEMMA RecvChannelStatePrime ==
  ASSUME ReadInv'
  PROVE  /\ {m \in Incoming \ Garbled : recvQueue'[m] = "deleted"} \ (Held' \cup handed') =
               Sent' \ (Answers' \cup handed')
         /\ Sent' \ (Answers' \cup handed') \subseteq told' \ Garbled
BY HeldMembersPrime DEF ReadInv, ReadTypes, Holds, Traced, Answers, Sent

LEMMA RecvProgress ==
  ASSUME ReadInv, ReadInv', Sent' = Sent, Answers' \subseteq Answers, told \subseteq told',
         handed \subseteq handed', handed' \subseteq handed \cup Answers
  PROVE  Recv!Progress
<1> DEFINE delivered == handed' \ handed
           gone == Answers \ Answers'
           reported == told' \ Garbled
           gap == Sent \ (Answers \cup handed)
<1>1. /\ delivered \in SUBSET Answers /\ gone \in SUBSET Answers
      /\ reported \in SUBSET (Incoming \ Garbled)
  BY DEF ReadInv, ReadTypes
<1>2. handed' = handed \cup delivered /\ Answers' = Answers \ gone
  OBVIOUS
<1>3. gap' = gap \cup (gone \ handed')
  BY RecvChannelState, LostSplit
<1>4. told' \ Garbled = (told \ Garbled) \cup reported
  OBVIOUS
<1>5. gap' \subseteq told' \ Garbled
  BY RecvChannelStatePrime
<1>6. /\ gap = {m \in Incoming \ Garbled : recvQueue[m] = "deleted"} \ (Held \cup handed)
      /\ gap' = {m \in Incoming \ Garbled : recvQueue'[m] = "deleted"} \ (Held' \cup handed')
  BY RecvChannelState, RecvChannelStatePrime
<1> HIDE DEF delivered, gone, reported, gap
<1> QED BY <1>1, <1>2, <1>3, <1>4, <1>5, <1>6 DEF Recv!Progress

LEMMA RecvStutters ==
  ASSUME UNCHANGED readVars
  PROVE  UNCHANGED <<Answers, handed,
            {m \in Incoming \ Garbled : recvQueue[m] = "deleted"} \ (Held \cup handed),
            told \ Garbled>>
BY DEF readVars, Answers, Held

(* A message that is not base64 is no answer: sending it is a stutter.     *)
LEMMA PhoneSendPuts ==
  ASSUME ReadInv, ReadInv', NEW m \in Incoming, PhoneSend(m)
  PROVE  Recv!Next \/ UNCHANGED <<Answers, handed,
            {n \in Incoming \ Garbled : recvQueue[n] = "deleted"} \ (Held \cup handed),
            told \ Garbled>>
<1>1. Held' = Held /\ handed' = handed /\ told' = told
  BY DEF PhoneSend, Held
<1>2. \A n \in Incoming : recvQueue'[n] = IF n = m THEN "visible" ELSE recvQueue[n]
  BY DEF ReadInv, ReadTypes, PhoneSend
<1>3. {n \in Incoming \ Garbled : recvQueue'[n] = "deleted"} =
         {n \in Incoming \ Garbled : recvQueue[n] = "deleted"}
  BY <1>2 DEF PhoneSend
<1>4. CASE m \in Garbled
  <2>1. Answers' = Answers
    BY <1>1, <1>2, <1>4 DEF Answers
  <2> QED BY <1>1, <1>3, <2>1
<1>5. CASE m \notin Garbled
  <2>1. m \notin Answers \cup handed /\ recvQueue[m] # "deleted"
    BY HeldMembers DEF ReadInv, Holds, Traced, Answers, PhoneSend
  <2>2. Answers' = Answers \cup {m}
    BY <1>1, <1>2, <1>5 DEF Answers
  <2>3. Recv!Put(m)
    BY <1>1, <1>3, <2>1, <2>2 DEF Recv!Put
  <2> QED BY <1>5, <2>3 DEF Recv!Next
<1> QED BY <1>4, <1>5

(* A receive call moves messages into a Read, never out of the channel.    *)
LEMMA ReceiveProgress ==
  ASSUME ReadInv, ReadInv', NEW r \in Readers, NEW pc, NEW b, NEW h,
         b \subseteq Incoming, \A m \in b : recvQueue[m] = "visible",
         h = {} \/ h = b, reader[r].pc # "delete",
         Hide(b), ReadTo(r, pc, h), UNCHANGED <<handed, told>>
  PROVE  Recv!Progress
<1>1. \A m \in Incoming : recvQueue'[m] = IF m \in b THEN "inflight" ELSE recvQueue[m]
  BY DEF Hide
<1>2. /\ reader'[r] = [pc |-> pc, batch |-> h]
      /\ \A q \in Readers \ {r} : reader'[q] = reader[q]
  BY DEF ReadInv, ReadTypes, ReadTo
<1>3. Held' \subseteq Held \cup b
  BY <1>2, HeldMembers, HeldMembersPrime
<1>4. Sent' = Sent /\ Answers' \subseteq Answers
  BY <1>1, <1>3 DEF Sent, Answers
<1> QED BY <1>4, RecvProgress

LEMMA ReadStepProgress ==
  ASSUME ReadInv, ReadInv', NEW r \in Readers, NEW ok \in BOOLEAN, NEW applied \in BOOLEAN,
         ReadStep(r, ok, applied)
  PROVE  Recv!Progress
<1>1. CASE ReceiveFirst(r, ok, applied)
  <2>1. reader[r].pc # "delete" /\ UNCHANGED <<handed, told>>
    BY <1>1 DEF ReceiveFirst
  <2>2. CASE "recv" \in exists
    <3>1. PICK b \in IF applied THEN Batches ELSE {{}} :
             /\ Hide(b)
             /\ ReadTo(r, IF ~ok THEN "again" ELSE IF b = {} THEN "receive" ELSE "delete",
                       IF ok THEN b ELSE {})
      BY <1>1, <2>2 DEF ReceiveFirst
    <3>2. b \subseteq Incoming /\ \A m \in b : recvQueue[m] = "visible"
      BY BatchIsVisible
    <3> QED BY <2>1, <3>1, <3>2, ReceiveProgress
  <2>3. CASE "recv" \notin exists
    <3>1. ReadTo(r, "create", {}) /\ Hide({})
      BY <1>1, <2>3, NothingHidden DEF ReceiveFirst, ReadInv
    <3> QED BY <2>1, <3>1, ReceiveProgress
  <2> QED BY <2>2, <2>3
<1>2. CASE ReadCreatesQueue(r, ok, applied)
  <2>1. Hide({})
    BY <1>2, NothingHidden DEF ReadInv, ReadCreatesQueue
  <2> QED BY <1>2, <2>1, ReceiveProgress DEF ReadCreatesQueue
<1>3. CASE ReceiveAgain(r, ok, applied)
  <2>1. PICK b \in IF applied THEN Batches ELSE {{}} : Hide(b)
    BY <1>3 DEF ReceiveAgain, ReceiveAndThrowAway, Hide
  <2>2. b \subseteq Incoming /\ \A m \in b : recvQueue[m] = "visible"
    BY BatchIsVisible
  <2> QED BY <1>3, <2>1, <2>2, ReceiveProgress DEF ReceiveAgain, ReceiveAndThrowAway
<1> QED BY <1>1, <1>2, <1>3 DEF ReadStep

LEMMA ReadDeletesProgress ==
  ASSUME ReadInv, ReadInv', NEW r \in Readers, ReadDeletes(r)
  PROVE  Recv!Progress
<1>1. PICK deleted \in SUBSET reader[r].batch, err \in BOOLEAN :
         /\ recvQueue' = [m \in Incoming |-> IF m \in deleted THEN "deleted" ELSE recvQueue[m]]
         /\ handed' = IF err THEN handed ELSE handed \cup (reader[r].batch \ Garbled)
         /\ told' = IF err THEN told \cup reader[r].batch ELSE told
  BY DEF ReadDeletes, DeleteAndHand
<1>2. reader[r].batch \subseteq Incoming /\ reader[r].batch \subseteq Held
  BY HeldMembers DEF ReadInv, ReadTypes
<1>3. Held' \subseteq Held
  <2>1. /\ reader'[r].batch = {}
        /\ \A q \in Readers \ {r} : reader'[q] = reader[q]
    BY DEF ReadInv, ReadTypes, ReadDeletes, DeleteAndHand, ReadTo
  <2> QED BY <2>1, HeldMembers, HeldMembersPrime
<1>4. \A m \in Incoming : recvQueue'[m] = IF m \in deleted THEN "deleted" ELSE recvQueue[m]
  BY <1>1
<1>5. Sent' = Sent
  BY <1>4 DEF Sent, ReadInv, Holds
<1>6. Answers' \subseteq Answers
  BY <1>3, <1>4 DEF Answers
<1>7. handed \subseteq handed' /\ handed' \subseteq handed \cup Answers /\ told \subseteq told'
  BY <1>1, <1>2 DEF Answers
<1> QED BY <1>5, <1>6, <1>7, RecvProgress

LEMMA VisibilityProgress ==
  ASSUME ReadInv, ReadInv', NEW m \in Incoming, VisibilityTimeout(m)
  PROVE  Recv!Progress
<1>1. Held' = Held /\ handed' = handed /\ told' = told
  BY DEF VisibilityTimeout, Held
<1>2. Sent' = Sent /\ Answers' = Answers
  BY <1>1 DEF ReadInv, ReadTypes, Sent, Answers, VisibilityTimeout
<1> QED BY <1>1, <1>2, RecvProgress

(* The phone's side is a channel: an answer is receivable until a Read     *)
(* hands it out, and only a Read that returns the error of its delete call *)
(* may lose it; what the second ReceiveMessage throws away comes back.     *)
THEOREM ReceiveImplementsChannel == Spec => ReceiveIsChannel
<1>1. Init => Recv!Init
  BY DEF Init, Idle, Recv!Init, Answers, Held
<1>2. Inv /\ Inv' /\ [Next]_vars =>
         [Recv!Next]_<<Answers, handed,
            {m \in Incoming \ Garbled : recvQueue[m] = "deleted"} \ (Held \cup handed),
            told \ Garbled>>
  <2> SUFFICES ASSUME Inv, Inv', [Next]_vars
      PROVE  Recv!Next \/ UNCHANGED <<Answers, handed,
                {m \in Incoming \ Garbled : recvQueue[m] = "deleted"} \ (Held \cup handed),
                told \ Garbled>>
    OBVIOUS
  <2>1. ReadInv /\ ReadInv'
    BY DEF Inv
  <2>2. ASSUME NEW m \in Incoming, PhoneSend(m)
        PROVE  Recv!Next \/ UNCHANGED <<Answers, handed,
                  {n \in Incoming \ Garbled : recvQueue[n] = "deleted"} \ (Held \cup handed),
                  told \ Garbled>>
    BY <2>1, <2>2, PhoneSendPuts
  <2>3. ASSUME NEW m \in Incoming, VisibilityTimeout(m) PROVE Recv!Next
    BY <2>1, <2>3, VisibilityProgress DEF Recv!Next
  <2>4. ASSUME NEW ok \in BOOLEAN, NEW applied \in BOOLEAN, NEW r \in Readers,
               ReadStep(r, ok, applied)
        PROVE  Recv!Next
    BY <2>1, <2>4, ReadStepProgress DEF Recv!Next
  <2>5. ASSUME NEW r \in Readers, ReadDeletes(r) PROVE Recv!Next
    BY <2>1, <2>5, ReadDeletesProgress DEF Recv!Next
  <2>6. ASSUME \/ UNCHANGED vars \/ EndpointKnown \/ EndpointDisabled
               \/ \E ok, applied \in BOOLEAN : Setup(ok, applied)
               \/ \E m \in Outgoing : SendMessage(m) \/ PhonePoll(m)
        PROVE  UNCHANGED readVars
    BY <2>6 DEF vars, readVars, EndpointKnown, EndpointDisabled, Setup, SendMessage, PhonePoll
  <2>7. ASSUME NEW ok \in BOOLEAN, NEW applied \in BOOLEAN, NEW m \in Outgoing,
               SendStep(m, ok, applied) \/ PushStep(m, ok, applied)
        PROVE  UNCHANGED readVars
    BY <2>7 DEF readVars, SendStep, SendToQueue, SendCall, SendCreatesQueue, SendCreates,
                PushStep, PushToSNS, EnableSNSEndpoint
  <2>8. CASE UNCHANGED readVars
    BY <2>8, RecvStutters
  <2> QED BY <2>2, <2>3, <2>4, <2>5, <2>6, <2>7, <2>8 DEF Next
<1> QED BY <1>1, <1>2, Structure, PTL DEF Spec, ReceiveIsChannel, Recv!Spec
=============================================================================
