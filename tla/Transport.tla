----------------------------- MODULE Transport -----------------------------
(***************************************************************************)
(* AWSTransport: how krd and the phone exchange ciphertexts through a pair *)
(* of SQS queues and SNS push notifications.  One action per AWS call, so  *)
(* that the calls of several goroutines interleave: every request that     *)
(* waits runs a Read of its own.  A call may fail, before or after AWS did *)
(* the work; at most MaxFaults calls do.                                   *)
(***************************************************************************)
EXTENDS Integers, FiniteSets

CONSTANTS
    Outgoing,   \* messages krd sends, one SendMessage or PushAlert each
    Incoming,   \* messages the phone sends
    Garbled,    \* messages of the phone that are not base64
    Readers,    \* goroutines that call Read
    MaxBatch,   \* MaxNumberOfMessages, 10 in ReceiveAndDeleteFromQueue
    MaxFaults   \* bound: AWS calls that fail

ASSUME TransportAssumption ==
    /\ Garbled \subseteq Incoming /\ Outgoing \cap Incoming = {}
    /\ MaxBatch \in Nat \ {0} /\ MaxFaults \in Nat

VARIABLES
    exists,    \* the queues that exist
    setup,     \* Setup: the queue to create next, or the outcome
    sendQueue, \* how many copies of a message are in the send queue
    recvQueue, \* where a message of the phone is
    sender,    \* SendToQueue of each outgoing message
    push,      \* the push goroutine of each outgoing message
    endpoint,  \* the phone's SNS endpoint: no ARN known, enabled or disabled
    reader,    \* Read of each goroutine
    received,  \* outgoing messages the phone has got
    handed,    \* incoming messages Read has returned
    told,      \* incoming messages a Read received but answered with an error
    faults

vars == <<exists, setup, sendQueue, recvQueue, sender, push, endpoint, reader,
          received, handed, told, faults>>
phoneVars == <<sendQueue, sender, push, endpoint, received>>
readVars  == <<recvQueue, reader, handed, told>>

Idle == [pc |-> "receive", batch |-> {}]

TypeOK ==
    /\ exists \subseteq {"send", "recv"}
    /\ setup \in {"send", "recv", "done", "failed"}
    /\ sendQueue \in [Outgoing -> 0..2]
    /\ recvQueue \in [Incoming -> {"new", "visible", "inflight", "deleted"}]
    /\ sender \in [Outgoing -> {"idle", "send", "create", "again", "sent", "failed"}]
    /\ push \in [Outgoing -> {"idle", "publish", "enable", "again", "done"}]
    /\ endpoint \in {"none", "enabled", "disabled"}
    /\ reader \in [Readers -> [pc : {"receive", "create", "again", "delete"},
                               batch : SUBSET Incoming]]
    /\ received \subseteq Outgoing
    /\ handed \subseteq Incoming /\ told \subseteq Incoming
    /\ faults \in 0..MaxFaults

Init ==
    /\ exists = {} /\ setup = "send"
    /\ sendQueue = [m \in Outgoing |-> 0]
    /\ recvQueue = [m \in Incoming |-> "new"]
    /\ sender = [m \in Outgoing |-> "idle"]
    /\ push = [m \in Outgoing |-> "idle"]
    /\ endpoint = "none"
    /\ reader = [r \in Readers |-> Idle]
    /\ received = {} /\ handed = {} /\ told = {}
    /\ faults = 0

(* The outcomes of an AWS call: it succeeds, or it fails although its      *)
(* effect took place, or it fails without one.                             *)
Call(ok, applied) ==
    /\ ok \in BOOLEAN /\ applied \in BOOLEAN
    /\ ok => applied
    /\ faults' = IF ok THEN faults ELSE faults + 1
    /\ faults' <= MaxFaults

CreateQueue(q, applied) ==
    exists' = IF applied THEN exists \cup {q} ELSE exists

-----------------------------------------------------------------------------
(* Setup creates both queues when a pairing starts.                        *)
Setup(ok, applied) ==
    /\ setup \in {"send", "recv"}
    /\ Call(ok, applied)
    /\ CreateQueue(setup, applied)
    /\ setup' = IF ~ok THEN "failed" ELSE IF setup = "send" THEN "recv" ELSE "done"
    /\ UNCHANGED <<phoneVars, readVars>>

(* SendMessage and PushAlert start the push and go on to SendToQueue.      *)
SendMessage(m) ==
    /\ sender[m] = "idle"
    /\ sender' = [sender EXCEPT ![m] = "send"]
    /\ push' = [push EXCEPT ![m] = IF endpoint = "none" THEN "done" ELSE "publish"]
    /\ UNCHANGED <<exists, setup, sendQueue, endpoint, received, readVars, faults>>

(* The sqs.SendMessage calls of SendToQueue: a first failure of any kind   *)
(* is retried once, after the queue was created if it did not exist.       *)
SendCall(m, ok, applied, afterRetry) ==
    /\ sender[m] \in {"send", "again"}
    /\ \/ /\ "send" \in exists
          /\ Call(ok, applied)
          /\ sendQueue' = [sendQueue EXCEPT ![m] = IF applied THEN @ + 1 ELSE @]
          /\ sender' = [sender EXCEPT ![m] =
                 IF ok THEN "sent" ELSE IF @ = "send" THEN "again" ELSE afterRetry]
       \/ /\ "send" \notin exists /\ ~ok /\ ~applied
          /\ sender' = [sender EXCEPT ![m] = "create"]
          /\ UNCHANGED <<sendQueue, faults>>
    /\ UNCHANGED <<exists, setup, push, endpoint, received, readVars>>

SendToQueueDropsError(m, ok, applied) == SendCall(m, ok, applied, "sent")

SendToQueueRetries(m, ok, applied) == SendCall(m, ok, applied, "again")

(* The retry's error is returned.  (The forms above drop it and retry      *)
(* without end, and are not used.)                                         *)
SendToQueue(m, ok, applied) == SendCall(m, ok, applied, "failed")

SendCreates(m, ok, applied, next) ==
    /\ sender[m] = "create"
    /\ Call(ok, applied)
    /\ CreateQueue("send", applied)
    /\ sender' = [sender EXCEPT ![m] = IF ok THEN next ELSE "failed"]
    /\ UNCHANGED <<setup, sendQueue, push, endpoint, received, readVars>>

SendCreatesQueueOnly(m, ok, applied) == SendCreates(m, ok, applied, "sent")

(* Once the queue is created, the message is sent again.  (The form above  *)
(* forgets it, and is not used.)                                           *)
SendCreatesQueue(m, ok, applied) == SendCreates(m, ok, applied, "again")

(* pushToSNS: the first Publish, and the second one once the endpoint was  *)
(* enabled.  Errors are logged, no caller hears of them.                   *)
PushToSNS(m, ok, applied) ==
    /\ push[m] \in {"publish", "again"}
    /\ \/ /\ endpoint = "enabled"
          /\ Call(ok, applied)
          /\ received' = IF applied THEN received \cup {m} ELSE received
          /\ push' = [push EXCEPT ![m] = "done"]
       \/ /\ endpoint = "disabled" /\ ~ok /\ ~applied
          /\ push' = [push EXCEPT ![m] = IF @ = "publish" THEN "enable" ELSE "done"]
          /\ UNCHANGED <<received, faults>>
    /\ UNCHANGED <<exists, setup, sendQueue, sender, endpoint, readVars>>

EnableSNSEndpoint(m, ok, applied) ==
    /\ push[m] = "enable"
    /\ Call(ok, applied)
    /\ endpoint' = IF applied THEN "enabled" ELSE endpoint
    /\ push' = [push EXCEPT ![m] = IF ok THEN "again" ELSE "done"]
    /\ UNCHANGED <<exists, setup, sendQueue, sender, received, readVars>>

-----------------------------------------------------------------------------
(* ReceiveAndDeleteFromQueue, the ReceiveMessage calls.  SQS hides what it *)
(* returns until the visibility timeout.  The second call of a Read throws *)
(* its messages away and the Read returns none.                            *)
Visible == {m \in Incoming : recvQueue[m] = "visible"}

Batches ==
    {b \in SUBSET Visible : Cardinality(b) <= MaxBatch /\ (b = {} => Visible = {})}

Hide(b) == recvQueue' = [m \in Incoming |-> IF m \in b THEN "inflight" ELSE recvQueue[m]]

ReadTo(r, pc, batch) ==
    reader' = [reader EXCEPT ![r] = [pc |-> pc, batch |-> batch]]

ReceiveFirst(r, ok, applied) ==
    /\ reader[r].pc = "receive"
    /\ \/ /\ "recv" \in exists
          /\ Call(ok, applied)
          /\ \E b \in IF applied THEN Batches ELSE {{}} :
                /\ Hide(b)
                /\ ReadTo(r, IF ~ok THEN "again" ELSE IF b = {} THEN "receive" ELSE "delete",
                          IF ok THEN b ELSE {})
       \/ /\ "recv" \notin exists /\ ~ok /\ ~applied
          /\ ReadTo(r, "create", {})
          /\ UNCHANGED <<recvQueue, faults>>
    /\ UNCHANGED <<exists, setup, phoneVars, handed, told>>

ReadCreatesQueue(r, ok, applied) ==
    /\ reader[r].pc = "create"
    /\ Call(ok, applied)
    /\ CreateQueue("recv", applied)
    /\ ReadTo(r, IF ok THEN "again" ELSE "receive", {})
    /\ UNCHANGED <<setup, phoneVars, recvQueue, handed, told>>

ReceiveAndThrowAway(r, ok, applied, after) ==
    /\ reader[r].pc = "again"
    /\ Call(ok, applied)
    /\ \E b \in IF applied THEN Batches ELSE {{}} :
          recvQueue' = [m \in Incoming |-> IF m \in b THEN after ELSE recvQueue[m]]
    /\ ReadTo(r, "receive", {})
    /\ UNCHANGED <<exists, setup, phoneVars, handed, told>>

ReceiveAgainAlsoDeletes(r, ok, applied) == ReceiveAndThrowAway(r, ok, applied, "deleted")

(* (The form above deletes what it throws away, and is not used.)          *)
ReceiveAgain(r, ok, applied) == ReceiveAndThrowAway(r, ok, applied, "inflight")

(* DeleteMessageBatch, and what Read does with its outcome: an error hands *)
(* no message out, deleted or not.  Entries that SQS fails to delete one   *)
(* by one raise no error.  Read skips what is not base64.                  *)
DeleteOutcome(batch, deleted, err) ==
    /\ deleted \subseteq batch
    /\ faults' = IF deleted = batch /\ ~err THEN faults ELSE faults + 1
    /\ faults' <= MaxFaults

DeleteAndHand(r, readable) ==
    /\ reader[r].pc = "delete"
    /\ \E deleted \in SUBSET reader[r].batch, err \in BOOLEAN :
          /\ DeleteOutcome(reader[r].batch, deleted, err)
          /\ recvQueue' = [m \in Incoming |-> IF m \in deleted THEN "deleted" ELSE recvQueue[m]]
          /\ handed' = IF err THEN handed ELSE handed \cup readable
          /\ told' = IF err THEN told \cup reader[r].batch ELSE told
    /\ ReadTo(r, "receive", {})
    /\ UNCHANGED <<exists, setup, phoneVars>>

ReadStopsAtGarbled(r) ==
    DeleteAndHand(r, IF reader[r].batch \cap Garbled # {} THEN {} ELSE reader[r].batch)

(* (The form above gives up at a message that is not base64, and is not    *)
(* used.)                                                                  *)
ReadDeletes(r) == DeleteAndHand(r, reader[r].batch \ Garbled)

-----------------------------------------------------------------------------
(* The phone and AWS.  The phone polls its queue, answers what it got once *)
(* its queue exists and announces its endpoint, which AWS may disable.     *)
PhonePoll(m) ==
    /\ sendQueue[m] > 0
    /\ sendQueue' = [sendQueue EXCEPT ![m] = @ - 1]
    /\ received' = received \cup {m}
    /\ UNCHANGED <<exists, setup, sender, push, endpoint, readVars, faults>>

PhoneSend(m) ==
    /\ recvQueue[m] = "new" /\ "recv" \in exists /\ received # {}
    /\ recvQueue' = [recvQueue EXCEPT ![m] = "visible"]
    /\ UNCHANGED <<exists, setup, phoneVars, reader, handed, told, faults>>

VisibilityTimeout(m) ==
    /\ recvQueue[m] = "inflight"
    /\ recvQueue' = [recvQueue EXCEPT ![m] = "visible"]
    /\ UNCHANGED <<exists, setup, phoneVars, reader, handed, told, faults>>

EndpointKnown ==
    /\ endpoint = "none"
    /\ endpoint' = "enabled"
    /\ UNCHANGED <<exists, setup, sendQueue, sender, push, received, readVars, faults>>

EndpointDisabled ==
    /\ endpoint = "enabled"
    /\ Call(FALSE, TRUE)
    /\ endpoint' = "disabled"
    /\ UNCHANGED <<exists, setup, sendQueue, sender, push, received, readVars>>

-----------------------------------------------------------------------------
SendStep(m, ok, applied) ==
    \/ SendToQueue(m, ok, applied)
    \/ SendCreatesQueue(m, ok, applied)

PushStep(m, ok, applied) ==
    \/ PushToSNS(m, ok, applied)
    \/ EnableSNSEndpoint(m, ok, applied)

ReadStep(r, ok, applied) ==
    \/ ReceiveFirst(r, ok, applied)
    \/ ReadCreatesQueue(r, ok, applied)
    \/ ReceiveAgain(r, ok, applied)

Next ==
    \/ \E ok, applied \in BOOLEAN :
          \/ Setup(ok, applied)
          \/ \E m \in Outgoing : SendStep(m, ok, applied) \/ PushStep(m, ok, applied)
          \/ \E r \in Readers : ReadStep(r, ok, applied)
    \/ \E m \in Outgoing : SendMessage(m) \/ PhonePoll(m)
    \/ \E m \in Incoming : PhoneSend(m) \/ VisibilityTimeout(m)
    \/ \E r \in Readers : ReadDeletes(r)
    \/ EndpointKnown
    \/ EndpointDisabled

(* A Read that was started goes on, requests keep starting new ones, the   *)
(* phone polls and SQS shows again what was not deleted.                   *)
Fairness ==
    /\ WF_vars(\E ok, applied \in BOOLEAN : Setup(ok, applied))
    /\ \A m \in Outgoing :
          /\ WF_vars(\E ok, applied \in BOOLEAN : SendStep(m, ok, applied))
          /\ WF_vars(PhonePoll(m))
    /\ \A r \in Readers :
          WF_vars(ReadDeletes(r) \/ \E ok, applied \in BOOLEAN : ReadStep(r, ok, applied))
    /\ \A m \in Incoming : WF_vars(VisibilityTimeout(m))

Spec == Init /\ [][Next]_vars /\ Fairness

-----------------------------------------------------------------------------
(* Workstation to phone: a message is under way while its SendToQueue or   *)
(* its push goes on or a copy is in the queue.                             *)
UnderWay ==
    {m \in Outgoing : \/ sender[m] \in {"send", "create", "again"}
                      \/ push[m] \in {"publish", "enable", "again"}
                      \/ sendQueue[m] > 0}

Send == INSTANCE Channel WITH
    Messages <- Outgoing,
    transit  <- UnderWay,
    got      <- received,
    lost     <- {m \in Outgoing : sender[m] # "idle"} \ (UnderWay \cup received),
    told     <- {m \in Outgoing : sender[m] = "failed"}

(* Phone to workstation: a message is under way until it is deleted and no *)
(* Read holds it any more.                                                 *)
Held == UNION {reader[r].batch : r \in Readers}

Answers ==
    {m \in Incoming \ Garbled : recvQueue[m] \in {"visible", "inflight"} \/ m \in Held}

Recv == INSTANCE Channel WITH
    Messages <- Incoming \ Garbled,
    transit  <- Answers,
    got      <- handed,
    lost     <- {m \in Incoming \ Garbled : recvQueue[m] = "deleted"} \ (Held \cup handed),
    told     <- told \ Garbled

(* A request whose SendMessage or PushAlert returned no error reaches the  *)
(* phone or is on its way: a retried, duplicated or half failed            *)
(* SendToQueue never loses it in silence (Channel).                        *)
SendIsChannel == Send!Spec

(* Whatever the phone answers stays receivable until a Read hands it out;  *)
(* only a Read whose delete call failed may lose it, and that Read returns *)
(* the error.  What the second ReceiveMessage throws away comes back.      *)
ReceiveIsChannel == Recv!Spec

(* Once AWS calls stop failing, a request that was sent without an error   *)
(* does reach the phone, although its queue may have been missing.         *)
SentArrives == \A m \in Outgoing : (sender[m] = "sent") ~> (m \in received)

(* Every answer that is base64 is handed out in the end, or a Read         *)
(* reported an error: a garbled message in the same batch does not take    *)
(* the others with it.                                                     *)
AnswersArrive ==
    \A m \in Incoming \ Garbled : (recvQueue[m] = "visible") ~> (m \in handed \cup told)
=============================================================================
