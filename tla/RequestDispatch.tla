-------------------------- MODULE RequestDispatch --------------------------
(***************************************************************************)
(* How krd's EnclaveClient matches responses with the callers that wait    *)
(* for them: tryRequest (the caller), sendRequestAndReceiveResponses (the  *)
(* worker goroutine of a request) and handleMessage (run by a worker that  *)
(* polls SQS or by the Bluetooth goroutine).  Caller and worker share a    *)
(* buffered channel cb, registered under the request ID in an LRU cache.   *)
(*                                                                         *)
(* ec.Mutex is modelled explicitly, because handleMessage, the worker that *)
(* gives up and the unpair command all send on cb while they hold it: the  *)
(* send waits when the buffer is full.  A step that takes the mutex and    *)
(* may have to wait is split in two, taking the mutex and finishing.       *)
(*                                                                         *)
(* Time is abstracted to what the code compares: elapsed[r] is 0 before    *)
(* the timeout of request r, 1 after it and 2 after timeout + ACKDelay.    *)
(***************************************************************************)
EXTENDS LRU

CONSTANTS
    Requests,    \* request IDs; each names one caller, worker and channel
    Free,        \* ec.Mutex is not held
    NoRequest,   \* the holder of ec.Mutex serves no single request
    CbCap,       \* buffer of a callback channel, 5 in tryRequest
    CacheCap,    \* 128 in UnpairedEnclaveClient
    MaxAcks      \* bound: how often ACKs of one request are delivered

ASSUME CapAssumption == CbCap \in Nat \ {0} /\ CacheCap \in Nat \ {0}
ASSUME AckAssumption == MaxAcks \in Nat

VARIABLES
    mutex,      \* Free, or what ec.Mutex was taken for
    callbacks,  \* ec.requestCallbacksByRequestID
    ackedIDs,   \* ec.ackedRequestIDs
    cb,         \* the channel of each request
    caller,     \* tryRequest of each request
    worker,     \* sendRequestAndReceiveResponses of each request
    elapsed,    \* the phase of each request's deadlines
    pairing,    \* no pairing, one that waits for the phone's key, or paired
    keyKnown,   \* history: some pairing has had the phone's key
    acks,       \* history: ACKs handled per request
    evicted     \* history: callbacks that the cache pushed out

locals == <<cb, caller, worker>>
vars   == <<mutex, callbacks, ackedIDs, locals, elapsed, pairing,
            keyKnown, acks, evicted>>

(* What is sent on a callback channel; "nil" cancels the request.          *)
Items == {"ack", "response", "nil"}

CallerStates ==
    [pc : {"idle", "waiting", "alert", "returning", "done"},
     ack : BOOLEAN, alert : BOOLEAN, callback : Items,
     err : {"none", "timeout", "notPaired"}]

WorkerStates == {"idle", "register", "receive", "unacked", "giveup", "done"}

IdleCaller ==
    [pc |-> "idle", ack |-> FALSE, alert |-> FALSE, callback |-> "nil", err |-> "none"]

Holds ==
    [op : {"ack", "response", "giveup"}, req : Requests]
        \cup [op : {"unpair"}, req : {NoRequest}]

ASSUME NameAssumption == NoRequest \notin Requests /\ Free \notin Holds

TypeOK ==
    /\ mutex \in Holds \cup {Free}
    /\ IsCache(callbacks, Requests) /\ Len(callbacks) <= CacheCap
    /\ IsCache(ackedIDs, Requests) /\ Len(ackedIDs) <= CacheCap
    /\ cb \in [Requests -> Seq(Items)]
    /\ \A r \in Requests : Len(cb[r]) <= CbCap
    /\ caller \in [Requests -> CallerStates]
    /\ worker \in [Requests -> WorkerStates]
    /\ elapsed \in [Requests -> 0..2]
    /\ pairing \in {"none", "waiting", "paired"}
    /\ keyKnown \in BOOLEAN
    /\ acks \in [Requests -> 0..MaxAcks]
    /\ evicted \subseteq Requests

Init ==
    /\ mutex = Free
    /\ callbacks = <<>>
    /\ ackedIDs = <<>>
    /\ cb = [r \in Requests |-> <<>>]
    /\ caller = [r \in Requests |-> IdleCaller]
    /\ worker = [r \in Requests |-> "idle"]
    /\ elapsed = [r \in Requests |-> 0]
    /\ pairing = "none"
    /\ keyKnown = FALSE
    /\ acks = [r \in Requests |-> 0]
    /\ evicted = {}

-----------------------------------------------------------------------------
(* The caller: tryRequest.                                                 *)

(* The alert timer may fire later, or not: it is not armed when the alert  *)
(* goes out with the request.                                              *)
TryRequest(r) ==
    /\ mutex = Free
    /\ caller[r].pc = "idle"
    /\ \/ /\ pairing = "none"
          /\ caller' = [caller EXCEPT ![r].pc = "done", ![r].err = "notPaired"]
          /\ worker' = worker
       \/ /\ pairing # "none"
          /\ caller' = [caller EXCEPT ![r].pc = "waiting", ![r].alert = TRUE]
          /\ worker' = [worker EXCEPT ![r] = "register"]
    /\ UNCHANGED <<mutex, callbacks, ackedIDs, cb, elapsed, pairing, keyKnown,
                   acks, evicted>>

(* case callback = <-cb: an ACK extends the wait and makes the alert timer *)
(* pointless, anything else ends the wait.                                 *)
ReceiveCallback(r) ==
    /\ caller[r].pc = "waiting"
    /\ cb[r] # <<>>
    /\ cb' = [cb EXCEPT ![r] = Tail(@)]
    /\ \/ /\ Head(cb[r]) = "ack"
          /\ caller' = [caller EXCEPT ![r].callback = "ack", ![r].ack = TRUE,
                                      ![r].alert = FALSE]
       \/ /\ Head(cb[r]) # "ack"
          /\ caller' = [caller EXCEPT ![r] =
                 [IdleCaller EXCEPT !.pc = "returning", !.callback = Head(cb[r])]]
    /\ UNCHANGED <<mutex, callbacks, ackedIDs, worker, elapsed, pairing,
                   keyKnown, acks, evicted>>

(* case <-timeoutChan: the timeout of the request, or ACKDelay after an    *)
(* ACK, which may be sooner or later than the worker's own deadline.       *)
CallerTimeout(r) ==
    /\ caller[r].pc = "waiting"
    /\ caller[r].ack \/ elapsed[r] >= 1
    /\ caller' = [caller EXCEPT ![r] =
           [IdleCaller EXCEPT !.pc = "returning", !.callback = caller[r].callback,
                              !.err = "timeout"]]
    /\ UNCHANGED <<mutex, callbacks, ackedIDs, cb, worker, elapsed, pairing,
                   keyKnown, acks, evicted>>

(* case <-sendAlertChan: the caller needs ec.Mutex before it goes on, and  *)
(* does not read cb meanwhile.                                             *)
AlertTimer(r) ==
    /\ caller[r].pc = "waiting"
    /\ caller[r].alert
    /\ caller' = [caller EXCEPT ![r].alert = FALSE, ![r].pc = "alert"]
    /\ UNCHANGED <<mutex, callbacks, ackedIDs, cb, worker, elapsed, pairing,
                   keyKnown, acks, evicted>>

SendAlert(r) ==
    /\ mutex = Free
    /\ caller[r].pc = "alert"
    /\ caller' = [caller EXCEPT ![r].pc = "waiting"]
    /\ UNCHANGED <<mutex, callbacks, ackedIDs, cb, worker, elapsed, pairing,
                   keyKnown, acks, evicted>>

(* Without a callback, an unpaired client reports ErrNotPaired: IsPaired   *)
(* takes the mutex, and only then is it called.                            *)
Return(r) ==
    /\ caller[r].pc = "returning"
    /\ caller[r].callback = "nil" => mutex = Free
    /\ caller' = [caller EXCEPT ![r] =
           [IdleCaller EXCEPT !.pc = "done",
                              !.err = IF caller[r].callback = "nil" /\ pairing # "paired"
                                      THEN "notPaired" ELSE caller[r].err]]
    /\ UNCHANGED <<mutex, callbacks, ackedIDs, cb, worker, elapsed, pairing,
                   keyKnown, acks, evicted>>

(* Time passes; it is not counted when nobody will look at the clock.      *)
Elapse(r) ==
    /\ \/ caller[r].pc \in {"waiting", "alert"}
       \/ worker[r] \in {"register", "receive", "unacked"}
    /\ elapsed[r] < 2
    /\ elapsed' = [elapsed EXCEPT ![r] = @ + 1]
    /\ UNCHANGED <<mutex, callbacks, ackedIDs, locals, pairing, keyKnown, acks,
                   evicted>>

-----------------------------------------------------------------------------
(* The worker: sendRequestAndReceiveResponses.                             *)

(* Add the callback and send the request.  A request that cannot be sent   *)
(* yet is queued, one that cannot be sent at all is polled for anyway.     *)
Register(r) ==
    /\ mutex = Free
    /\ worker[r] = "register"
    /\ callbacks' = LruAdd(callbacks, r, CacheCap)
    /\ evicted' = evicted \cup (ToSet(callbacks) \ ToSet(callbacks'))
    /\ worker' = [worker EXCEPT ![r] = "receive"]
    /\ UNCHANGED <<mutex, ackedIDs, cb, caller, elapsed, pairing, keyKnown,
                   acks>>

EndlessPatience(r, acked) == FALSE

(* Past its deadline: ACKDelay is granted to a request that was seen to be *)
(* acknowledged.  (It is preceded by the form it would have with a         *)
(* plausible bug, as are some definitions below; no step uses those.)      *)
Expired(r, acked) == elapsed[r] = 2 \/ (elapsed[r] = 1 /\ ~acked)

(* The end of one round of the receive loop looks both caches up and then, *)
(* with the mutex released, at the clock.  That the request is not yet     *)
(* acknowledged may be out of date by then, so this case takes two steps.  *)
CheckPending(r) ==
    /\ mutex = Free
    /\ worker[r] = "receive"
    /\ callbacks' = LruGet(callbacks, r)
    /\ ackedIDs' = LruGet(ackedIDs, r)
    /\ worker' = [worker EXCEPT ![r] =
           CASE ~Contains(callbacks, r) -> "giveup"
             [] Contains(callbacks, r) /\ ~Contains(ackedIDs, r) -> "unacked"
             [] Contains(callbacks, r) /\ Contains(ackedIDs, r) ->
                   IF Expired(r, TRUE) THEN "giveup" ELSE "receive"]
    /\ UNCHANGED <<mutex, cb, caller, elapsed, pairing, keyKnown, acks, evicted>>

CheckTime(r) ==
    /\ worker[r] = "unacked"
    /\ worker' = [worker EXCEPT ![r] = IF Expired(r, FALSE) THEN "giveup" ELSE "receive"]
    /\ UNCHANGED <<mutex, callbacks, ackedIDs, cb, caller, elapsed, pairing,
                   keyKnown, acks, evicted>>

(* After the loop: nothing to do, or give up on the request.               *)
GiveUp(r) ==
    /\ mutex = Free
    /\ worker[r] = "giveup"
    /\ \/ /\ Contains(callbacks, r)
          /\ mutex' = [op |-> "giveup", req |-> r]
          /\ worker' = worker
       \/ /\ ~Contains(callbacks, r)
          /\ mutex' = mutex
          /\ worker' = [worker EXCEPT ![r] = "done"]
    /\ UNCHANGED <<callbacks, ackedIDs, cb, caller, elapsed, pairing, keyKnown,
                   acks, evicted>>

-----------------------------------------------------------------------------
(* handleMessage takes ec.Mutex, in the Bluetooth goroutine or in a worker *)
(* that is receiving; which one it is makes no difference, since neither   *)
(* goes on before the mutex is free.  The same message may be delivered    *)
(* again, over either medium, and the pairing it was decrypted under may   *)
(* have been dropped since: handleMessage does not look.                   *)

(* A phone may have answered request r.                                    *)
WasSent(r) == keyKnown /\ worker[r] \notin {"idle", "register"}

HandleAck(r) ==
    /\ mutex = Free
    /\ WasSent(r)
    /\ acks[r] < MaxAcks
    /\ acks' = [acks EXCEPT ![r] = @ + 1]
    /\ mutex' = [op |-> "ack", req |-> r]
    /\ UNCHANGED <<callbacks, ackedIDs, locals, elapsed, pairing, keyKnown,
                   evicted>>

HandleResponse(r) ==
    /\ mutex = Free
    /\ WasSent(r)
    /\ mutex' = [op |-> "response", req |-> r]
    /\ UNCHANGED <<callbacks, ackedIDs, locals, elapsed, pairing, keyKnown,
                   acks, evicted>>

(* An unpair command unpairs only if it was decrypted under the pairing    *)
(* that is current when handleMessage gets the mutex.  It cancels every    *)
(* callback either way.                                                    *)
HandleUnpair(current) ==
    /\ mutex = Free
    /\ keyKnown
    /\ current => pairing = "paired"
    /\ pairing' = IF current THEN "none" ELSE pairing
    /\ mutex' = [op |-> "unpair", req |-> NoRequest]
    /\ UNCHANGED <<callbacks, ackedIDs, locals, elapsed, keyKnown, acks,
                   evicted>>

-----------------------------------------------------------------------------
(* Finishing what ec.Mutex was taken for.  Deliver waits for room in cb.   *)

Deliver(r, item) ==
    /\ Len(cb[r]) < CbCap
    /\ cb' = [cb EXCEPT ![r] = Append(@, item)]

(* An ACK leaves the callback registered.                                  *)
FinishAck ==
    LET r == mutex.req
    IN  /\ mutex # Free
        /\ mutex.op = "ack"
        /\ \/ Contains(callbacks, r) /\ Deliver(r, "ack")
           \/ ~Contains(callbacks, r) /\ cb' = cb
        /\ callbacks' = LruGet(callbacks, r)
        /\ ackedIDs' = LruAdd(ackedIDs, r, CacheCap)
        /\ mutex' = Free
        /\ UNCHANGED <<caller, worker, elapsed, pairing, keyKnown, acks,
                       evicted>>

KeptCallbacks(r) == LruGet(callbacks, r)

(* The callback is removed with the first response that is not an ACK.     *)
AnsweredCallbacks(r) == LruRemove(callbacks, r)

FinishResponse ==
    LET r == mutex.req
    IN  /\ mutex # Free
        /\ mutex.op = "response"
        /\ \/ Contains(callbacks, r) /\ Deliver(r, "response")
           \/ ~Contains(callbacks, r) /\ cb' = cb
        /\ callbacks' = AnsweredCallbacks(r)
        /\ mutex' = Free
        /\ UNCHANGED <<ackedIDs, caller, worker, elapsed, pairing, keyKnown,
                       acks, evicted>>

LeakedCallbacks(r) == callbacks

(* ... and when the worker gives up.                                       *)
AbandonedCallbacks(r) == LruRemove(callbacks, r)

FinishGiveUp ==
    LET r == mutex.req
    IN  /\ mutex # Free
        /\ mutex.op = "giveup"
        /\ Deliver(r, "nil")
        /\ callbacks' = AbandonedCallbacks(r)
        /\ worker' = [worker EXCEPT ![r] = "done"]
        /\ mutex' = Free
        /\ UNCHANGED <<ackedIDs, caller, elapsed, pairing, keyKnown, acks,
                       evicted>>

(* The unpair command cancels the callbacks one by one, oldest first.      *)
SilentCancel(r) == cb' = cb

NotifyCancelled(r) == Deliver(r, "nil")

CancelOldest ==
    /\ mutex # Free
    /\ mutex.op = "unpair"
    /\ callbacks # <<>>
    /\ NotifyCancelled(Last(callbacks))
    /\ callbacks' = LruRemoveOldest(callbacks)
    /\ UNCHANGED <<mutex, ackedIDs, caller, worker, elapsed, pairing, keyKnown,
                   acks, evicted>>

MissingUnlock == mutex' = mutex

Unlock == mutex' = Free

FinishUnpair ==
    /\ mutex # Free
    /\ mutex.op = "unpair"
    /\ callbacks = <<>>
    /\ Unlock
    /\ UNCHANGED <<callbacks, ackedIDs, locals, elapsed, pairing, keyKnown,
                   acks, evicted>>

-----------------------------------------------------------------------------
(* The pairing as other operations of the client change it.                *)

Pair ==
    /\ mutex = Free
    /\ pairing' = "waiting"
    /\ UNCHANGED <<mutex, callbacks, ackedIDs, locals, elapsed, keyKnown, acks,
                   evicted>>

UnwrapKey ==
    /\ pairing = "waiting"
    /\ pairing' = "paired"
    /\ keyKnown' = TRUE
    /\ UNCHANGED <<mutex, callbacks, ackedIDs, locals, elapsed, acks,
                   evicted>>

Unpair ==
    /\ mutex = Free
    /\ pairing # "none"
    /\ pairing' = "none"
    /\ UNCHANGED <<mutex, callbacks, ackedIDs, locals, elapsed, keyKnown, acks,
                   evicted>>

-----------------------------------------------------------------------------
CallerStep(r) ==
    \/ TryRequest(r) \/ ReceiveCallback(r) \/ CallerTimeout(r)
    \/ AlertTimer(r) \/ SendAlert(r) \/ Return(r) \/ Elapse(r)

WorkerStep(r) == Register(r) \/ CheckPending(r) \/ CheckTime(r) \/ GiveUp(r)

HandleStep ==
    \/ \E r \in Requests : HandleAck(r) \/ HandleResponse(r)
    \/ \E current \in BOOLEAN : HandleUnpair(current)

HolderStep ==
    FinishAck \/ FinishResponse \/ FinishGiveUp \/ CancelOldest \/ FinishUnpair

PairingStep == Pair \/ UnwrapKey \/ Unpair

Next ==
    \/ \E r \in Requests : CallerStep(r) \/ WorkerStep(r)
    \/ HandleStep
    \/ HolderStep
    \/ PairingStep

Spec == Init /\ [][Next]_vars

(* Time passes, a goroutine that can run is scheduled, and ec.Mutex is     *)
(* fair: since Go 1.9 a waiter that was starved is handed the lock, so a   *)
(* step that needs it and finds it free again and again is taken.          *)
Fairness ==
    /\ WF_vars(HolderStep)
    /\ \A r \in Requests :
          /\ WF_vars(Elapse(r))
          /\ WF_vars(ReceiveCallback(r) \/ CallerTimeout(r))
          /\ SF_vars(SendAlert(r))
          /\ SF_vars(Return(r))
          /\ SF_vars(WorkerStep(r))

FairSpec == Spec /\ Fairness

-----------------------------------------------------------------------------
(* What the properties rest on.                                            *)

Waiting(r) == caller[r].pc \in {"waiting", "alert"}

(* tryRequest has got something else than an ACK.                          *)
Answered(r) == caller[r].pc \in {"returning", "done"} /\ caller[r].err = "none"

(* handleMessage is about to put an ACK into the channel of r.             *)
Acking(r) == mutex = [op |-> "ack", req |-> r]

(* A worker that holds ec.Mutex to give up has a callback to cancel.       *)
HolderOK ==
    \A r \in Requests : mutex = [op |-> "giveup", req |-> r] =>
        worker[r] = "giveup" /\ Contains(callbacks, r)

(* tryRequest starts the worker, and nothing is in the channel of a        *)
(* request before the worker has registered it.                            *)
Unsent(r) ==
    /\ caller[r].pc = "idle" => worker[r] = "idle"
    /\ worker[r] \in {"idle", "register"} => cb[r] = <<>> /\ ~Answered(r)

HasWorker(r) == Contains(callbacks, r) => worker[r] \in {"receive", "unacked", "giveup"}

FinalAnswer(r) ==
    /\ \A i \in 1..Len(cb[r]) : cb[r][i] # "ack" => i = Len(cb[r]) /\ ~Contains(callbacks, r)
    /\ Answered(r) => cb[r] = <<>> /\ ~Contains(callbacks, r)

(* A request without a callback was answered or evicted, and the answer    *)
(* stays in the channel until the caller takes it.                         *)
AnswerKept(r) ==
    Waiting(r) /\ worker[r] \notin {"idle", "register"} /\ ~Contains(callbacks, r) =>
        r \in evicted \/ (cb[r] # <<>> /\ cb[r][Len(cb[r])] # "ack")

(* The channel of a pending request holds only ACKs that were handled.     *)
AcksOnly(r) ==
    Contains(callbacks, r) => Len(cb[r]) + (IF Acking(r) THEN 1 ELSE 0) <= acks[r]

RequestOK(r) ==
    Unsent(r) /\ HasWorker(r) /\ FinalAnswer(r) /\ AnswerKept(r) /\ AcksOnly(r)

Inv == TypeOK /\ HolderOK /\ \A r \in Requests : RequestOK(r)

-----------------------------------------------------------------------------
(* Properties.                                                             *)

(* A caller gets at most one final answer, however often the phone's       *)
(* response is delivered and whatever else ends the request: once a        *)
(* response or a nil was put into cb, nothing follows it, and the callback *)
(* is no longer registered.                                                *)
OneFinalAnswer == \A r \in Requests : FinalAnswer(r)

(* The requests whose channel the holder of ec.Mutex will send to.         *)
Receivers ==
    {r \in Requests : /\ mutex # Free
                      /\ mutex.op = "unpair" \/ mutex.req = r
                      /\ Contains(callbacks, r)}

(* Whoever holds ec.Mutex finds room in the channel it sends to, although  *)
(* the caller may have left long ago: the daemon never hangs with its      *)
(* mutex held.  It needs fewer ACKs per request than the channel holds.    *)
MutexNeverStuck == \A r \in Receivers : Len(cb[r]) < CbCap

(* A caller is never left waiting for an answer nobody will give: when its *)
(* worker is gone, the answer is in the channel, unless the cache evicted  *)
(* the callback (more than CacheCap requests at once).                     *)
NobodyWaitsForNothing ==
    \A r \in Requests :
        Waiting(r) /\ worker[r] = "done" => cb[r] # <<>> \/ r \in evicted

(* No callback outlives the worker that registered it.                     *)
CallbackHasWorker == \A r \in Requests : HasWorker(r)

(* tryRequest always returns.                                              *)
EveryRequestReturns ==
    \A r \in Requests : caller[r].pc = "waiting" ~> caller[r].pc = "done"

(* Every callback is removed in the end, answered or not.                  *)
EveryCallbackIsRemoved ==
    \A r \in Requests : Contains(callbacks, r) ~> ~Contains(callbacks, r)
=============================================================================
