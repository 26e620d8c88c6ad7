----------------------- MODULE RequestDispatch_proofs -----------------------
(***************************************************************************)
(* Proofs about the request table, for any number of requests and any      *)
(* capacity of the channels and of the LRU caches.                         *)
(***************************************************************************)
EXTENDS RequestDispatch, LRU_proofs

(* A request whose own state a step leaves alone, and which it takes out   *)
(* of the cache only by eviction, stays in order.                          *)
LEMMA Untouched ==
  ASSUME NEW u \in Requests, RequestOK(u), Len(cb[u]) \in Nat, acks[u] \in Nat,
         cb'[u] = cb[u], caller'[u] = caller[u], worker'[u] = worker[u], acks'[u] = acks[u],
         Contains(callbacks', u) => Contains(callbacks, u),
         Contains(callbacks, u) => Contains(callbacks', u) \/ u \in evicted',
         evicted \subseteq evicted',
         Acking(u)' => Acking(u)
  PROVE  RequestOK(u)'
<1>1. Unsent(u)'
  BY DEF RequestOK, Unsent, Answered
<1>2. HasWorker(u)'
  BY DEF RequestOK, HasWorker
<1>3. FinalAnswer(u)'
  BY DEF RequestOK, FinalAnswer, Answered
<1>4. AnswerKept(u)'
  BY DEF RequestOK, AnswerKept, Waiting
<1>5. AcksOnly(u)'
  <2> SUFFICES ASSUME Contains(callbacks', u)
               PROVE  Len(cb'[u]) + (IF Acking(u)' THEN 1 ELSE 0) <= acks'[u]
    BY DEF AcksOnly
  <2>1. Len(cb[u]) + (IF Acking(u) THEN 1 ELSE 0) <= acks[u]
    BY DEF RequestOK, AcksOnly
  <2>2. CASE Acking(u)
    <3>1. CASE Acking(u)'
      BY <2>1, <2>2, <3>1
    <3>2. CASE ~Acking(u)'
      BY <2>1, <2>2, <3>2
    <3> QED BY <3>1, <3>2
  <2>3. CASE ~Acking(u)
    BY <2>1, <2>3
  <2> QED BY <2>2, <2>3
<1> QED BY <1>1, <1>2, <1>3, <1>4, <1>5 DEF RequestOK

(* The types that the steps below need.                                    *)
LEMMA Types ==
  ASSUME TypeOK
  PROVE  /\ caller \in [Requests -> CallerStates] /\ worker \in [Requests -> WorkerStates]
         /\ cb \in [Requests -> Seq(Items)] /\ acks \in [Requests -> 0..MaxAcks]
         /\ \A u \in Requests : Len(cb[u]) \in Nat /\ acks[u] \in Nat
         /\ IsCache(callbacks, Requests) /\ IsCache(ackedIDs, Requests)
BY LenProperties, AckAssumption DEF TypeOK

(* What the holder of ec.Mutex serves.                                     *)
LEMMA HolderShape ==
  ASSUME TypeOK, mutex # Free
  PROVE  \/ /\ mutex.op \in {"ack", "response", "giveup"}
            /\ mutex.req \in Requests
            /\ mutex = [op |-> mutex.op, req |-> mutex.req]
         \/ mutex = [op |-> "unpair", req |-> NoRequest]
BY DEF TypeOK, Holds

(* A step of the caller that changes nothing else, and neither starts to   *)
(* wait nor takes an answer from the channel.                              *)
LEMMA CallerChange ==
  ASSUME Inv, NEW r \in Requests, NEW x \in CallerStates,
         caller' = [caller EXCEPT ![r] = x],
         UNCHANGED <<mutex, callbacks, ackedIDs, cb, worker, elapsed, pairing,
                     keyKnown, acks, evicted>>,
         x.pc # "idle",
         x.pc \in {"waiting", "alert"} => Waiting(r),
         x.pc \in {"returning", "done"} /\ x.err = "none" => Answered(r)
  PROVE  Inv'
<1>0. TypeOK
  BY DEF Inv
<1>1. caller'[r] = x /\ \A u \in Requests : u # r => caller'[u] = caller[u]
  BY <1>0, Types
<1>2. TypeOK'
  BY <1>0, Types DEF TypeOK
<1>3. HolderOK'
  BY DEF Inv, HolderOK
<1>4. \A u \in Requests : u # r => RequestOK(u)'
  BY <1>0, <1>1, Types, Untouched DEF Inv, Acking
<1>5. RequestOK(r)'
  <2>1. RequestOK(r)
    BY DEF Inv
  <2>2. Waiting(r)' => Waiting(r)
    BY <1>1 DEF Waiting
  <2>3. Answered(r)' => Answered(r)
    BY <1>1 DEF Answered
  <2>4. Unsent(r)' /\ HasWorker(r)'
    BY <1>1, <2>1, <2>3 DEF RequestOK, Unsent, HasWorker
  <2>5. FinalAnswer(r)'
    BY <2>1, <2>3 DEF RequestOK, FinalAnswer
  <2>6. AnswerKept(r)' /\ AcksOnly(r)'
    BY <2>1, <2>2 DEF RequestOK, AnswerKept, AcksOnly, Acking
  <2> QED BY <2>4, <2>5, <2>6 DEF RequestOK
<1> QED BY <1>2, <1>3, <1>4, <1>5 DEF Inv

(* tryRequest.                                                             *)
LEMMA InvTryRequest ==
  ASSUME Inv, NEW r \in Requests, TryRequest(r)
  PROVE  Inv'
<1>0. TypeOK /\ caller[r] \in CallerStates
  BY Types DEF Inv
<1>1. CASE pairing = "none"
  <2> DEFINE x == [[caller[r] EXCEPT !.pc = "done"] EXCEPT !.err = "notPaired"]
  <2>1. x \in CallerStates /\ x.pc = "done" /\ x.err = "notPaired"
    BY <1>0 DEF CallerStates
  <2>2. /\ caller' = [caller EXCEPT ![r] = x]
        /\ UNCHANGED <<mutex, callbacks, ackedIDs, cb, worker, elapsed, pairing,
                       keyKnown, acks, evicted>>
    BY <1>1 DEF TryRequest
  <2> HIDE DEF x
  <2> QED BY <2>1, <2>2, CallerChange
<1>2. CASE pairing # "none"
  <2> DEFINE x == [[caller[r] EXCEPT !.pc = "waiting"] EXCEPT !.alert = TRUE]
  <2>1. x \in CallerStates /\ x.pc = "waiting"
    BY <1>0 DEF CallerStates
  <2>2. /\ caller' = [caller EXCEPT ![r] = x] /\ worker' = [worker EXCEPT ![r] = "register"]
        /\ UNCHANGED <<mutex, callbacks, ackedIDs, cb, elapsed, pairing, keyKnown,
                       acks, evicted>>
        /\ mutex = Free /\ caller[r].pc = "idle"
    BY <1>2 DEF TryRequest
  <2> HIDE DEF x
  <2>3. /\ caller'[r] = x /\ worker'[r] = "register"
        /\ \A u \in Requests : u # r => caller'[u] = caller[u] /\ worker'[u] = worker[u]
    BY <1>0, <2>2, Types
  <2>4. TypeOK'
    BY <1>0, <2>1, <2>2, Types DEF TypeOK, WorkerStates
  <2>5. HolderOK'
    BY <2>2, NameAssumption DEF HolderOK, Holds
  <2>6. \A u \in Requests : u # r => RequestOK(u)'
    BY <1>0, <2>2, <2>3, Types, Untouched DEF Inv, Acking
  <2>7. RequestOK(r)'
    <3>1. worker[r] = "idle" /\ cb[r] = <<>> /\ ~Contains(callbacks, r)
      BY <2>2 DEF Inv, RequestOK, Unsent, HasWorker
    <3>2. ~Answered(r)'
      BY <2>1, <2>3 DEF Answered
    <3> QED BY <2>1, <2>2, <2>3, <3>1, <3>2
        DEF RequestOK, Unsent, HasWorker, FinalAnswer, AnswerKept, AcksOnly
  <2> QED BY <2>4, <2>5, <2>6, <2>7 DEF Inv
<1> QED BY <1>1, <1>2

LEMMA InvReceiveCallback ==
  ASSUME Inv, NEW r \in Requests, ReceiveCallback(r)
  PROVE  Inv'
<1> DEFINE c == cb[r]
<1>0. TypeOK /\ RequestOK(r) /\ caller[r] \in CallerStates /\ c \in Seq(Items) /\ c # <<>>
  BY Types DEF Inv, ReceiveCallback
<1>1. /\ Len(c) \in Nat /\ Len(c) # 0 /\ Head(c) = c[1] /\ Head(c) \in Items
      /\ Tail(c) \in Seq(Items) /\ Len(Tail(c)) = Len(c) - 1
      /\ \A i \in 1..(Len(c) - 1) : Tail(c)[i] = c[i + 1]
  BY <1>0, HeadTailProperties, EmptySeq, ElementOfSeq
<1>2. /\ cb'[r] = Tail(c)
      /\ \A u \in Requests : u # r => cb'[u] = cb[u] /\ caller'[u] = caller[u]
      /\ cb' \in [Requests -> Seq(Items)]
      /\ \A u \in Requests : Len(cb'[u]) <= CbCap
  BY <1>0, <1>1, Types, CapAssumption DEF ReceiveCallback, TypeOK
<1>3. UNCHANGED <<mutex, callbacks, ackedIDs, worker, elapsed, pairing, keyKnown, acks, evicted>>
  BY DEF ReceiveCallback
<1>4. PICK x \in CallerStates :
         /\ caller' = [caller EXCEPT ![r] = x]
         /\ \/ c[1] = "ack" /\ x.pc = "waiting"
            \/ c[1] # "ack" /\ x.pc = "returning"
  <2> DEFINE a == [[[caller[r] EXCEPT !.callback = "ack"] EXCEPT !.ack = TRUE] EXCEPT !.alert = FALSE]
             b == [IdleCaller EXCEPT !.pc = "returning", !.callback = Head(c)]
  <2>1. a \in CallerStates /\ a.pc = "waiting"
    BY <1>0 DEF CallerStates, ReceiveCallback, Items
  <2>2. b \in CallerStates /\ b.pc = "returning"
    BY <1>1 DEF CallerStates, IdleCaller, Items
  <2>3. \/ c[1] = "ack" /\ caller' = [caller EXCEPT ![r] = a]
        \/ c[1] # "ack" /\ caller' = [caller EXCEPT ![r] = b]
    BY <1>1 DEF ReceiveCallback
  <2> HIDE DEF a, b
  <2> QED BY <2>1, <2>2, <2>3
<1>5. caller'[r] = x /\ caller' \in [Requests -> CallerStates]
  BY <1>0, <1>4, Types
<1>6. TypeOK'
  BY <1>0, <1>2, <1>3, <1>5 DEF TypeOK
<1>7. HolderOK'
  BY <1>3 DEF Inv, HolderOK
<1>8. \A u \in Requests : u # r => RequestOK(u)'
  BY <1>0, <1>2, <1>3, Types, Untouched DEF Inv, Acking
<1>9. worker[r] \notin {"idle", "register"} /\ caller[r].pc = "waiting"
  BY <1>0 DEF RequestOK, Unsent, ReceiveCallback
<1>10. Unsent(r)' /\ HasWorker(r)'
  BY <1>0, <1>3, <1>4, <1>5, <1>9 DEF RequestOK, Unsent, HasWorker
<1>11. FinalAnswer(r)'
  <2>1. \A i \in 1..Len(c) : c[i] # "ack" => i = Len(c) /\ ~Contains(callbacks, r)
    BY <1>0 DEF RequestOK, FinalAnswer
  <2>2. \A i \in 1..Len(cb'[r]) : cb'[r][i] # "ack" => i = Len(cb'[r]) /\ ~Contains(callbacks', r)
    BY <1>1, <1>2, <1>3, <2>1
  <2>3. CASE c[1] = "ack"
    BY <1>4, <1>5, <2>2, <2>3 DEF FinalAnswer, Answered
  <2>4. CASE c[1] # "ack"
    <3>0. 1 \in 1..Len(c)
      BY <1>1
    <3>1. Len(c) = 1 /\ ~Contains(callbacks, r)
      BY <2>1, <2>4, <3>0
    <3>2. cb'[r] = <<>>
      BY <1>1, <1>2, <3>1, EmptySeq
    <3> QED BY <1>3, <2>2, <3>1, <3>2 DEF FinalAnswer
  <2> QED BY <2>3, <2>4
<1>12. AnswerKept(r)'
  <2>1. CASE c[1] = "ack" /\ ~Contains(callbacks, r) /\ r \notin evicted
    <3>1. c[Len(c)] # "ack"
      BY <1>0, <1>9, <2>1 DEF RequestOK, AnswerKept, Waiting
    <3>2. Len(c) - 1 \in 1..(Len(c) - 1)
      BY <1>1, <2>1, <3>1
    <3>3. cb'[r][Len(cb'[r])] = c[Len(c)] /\ Len(cb'[r]) # 0
      BY <1>1, <1>2, <3>2
    <3>4. cb'[r] # <<>>
      BY <3>3, EmptySeq
    <3> QED BY <3>1, <3>3, <3>4 DEF AnswerKept
  <2>2. CASE c[1] # "ack"
    BY <1>4, <1>5, <2>2 DEF AnswerKept, Waiting
  <2>3. CASE Contains(callbacks, r) \/ r \in evicted
    BY <1>3, <2>3 DEF AnswerKept
  <2> QED BY <2>1, <2>2, <2>3
<1>13. AcksOnly(r)'
  <2> SUFFICES ASSUME Contains(callbacks, r)
               PROVE  Len(cb'[r]) + (IF Acking(r) THEN 1 ELSE 0) <= acks[r]
    BY <1>3 DEF AcksOnly, Acking
  <2>1. Len(c) + (IF Acking(r) THEN 1 ELSE 0) <= acks[r] /\ acks[r] \in Nat
    BY <1>0, Types DEF RequestOK, AcksOnly
  <2>2. CASE Acking(r)
    BY <1>1, <1>2, <2>1, <2>2
  <2>3. CASE ~Acking(r)
    BY <1>1, <1>2, <2>1, <2>3
  <2> QED BY <2>2, <2>3
<1> QED BY <1>6, <1>7, <1>8, <1>10, <1>11, <1>12, <1>13 DEF Inv, RequestOK

LEMMA InvCallerTimeout ==
  ASSUME Inv, NEW r \in Requests, CallerTimeout(r)
  PROVE  Inv'
<1> DEFINE x == [IdleCaller EXCEPT !.pc = "returning", !.callback = caller[r].callback,
                                   !.err = "timeout"]
<1>1. caller[r].callback \in Items
  BY Types DEF Inv, CallerStates
<1>2. x \in CallerStates /\ x.pc = "returning" /\ x.err = "timeout"
  BY <1>1 DEF CallerStates, IdleCaller
<1>3. /\ caller' = [caller EXCEPT ![r] = x]
      /\ UNCHANGED <<mutex, callbacks, ackedIDs, cb, worker, elapsed, pairing,
                     keyKnown, acks, evicted>>
  BY DEF CallerTimeout
<1> HIDE DEF x
<1> QED BY <1>2, <1>3, CallerChange

LEMMA InvAlertTimer ==
  ASSUME Inv, NEW r \in Requests, AlertTimer(r)
  PROVE  Inv'
<1> DEFINE x == [[caller[r] EXCEPT !.alert = FALSE] EXCEPT !.pc = "alert"]
<1>1. caller[r] \in CallerStates
  BY Types DEF Inv
<1>2. x \in CallerStates /\ x.pc = "alert" /\ Waiting(r)
  BY <1>1 DEF CallerStates, AlertTimer, Waiting
<1>3. /\ caller' = [caller EXCEPT ![r] = x]
      /\ UNCHANGED <<mutex, callbacks, ackedIDs, cb, worker, elapsed, pairing,
                     keyKnown, acks, evicted>>
  BY DEF AlertTimer
<1> HIDE DEF x
<1> QED BY <1>2, <1>3, CallerChange

LEMMA InvSendAlert ==
  ASSUME Inv, NEW r \in Requests, SendAlert(r)
  PROVE  Inv'
<1> DEFINE x == [caller[r] EXCEPT !.pc = "waiting"]
<1>1. caller[r] \in CallerStates
  BY Types DEF Inv
<1>2. x \in CallerStates /\ x.pc = "waiting" /\ Waiting(r)
  BY <1>1 DEF CallerStates, SendAlert, Waiting
<1>3. /\ caller' = [caller EXCEPT ![r] = x]
      /\ UNCHANGED <<mutex, callbacks, ackedIDs, cb, worker, elapsed, pairing,
                     keyKnown, acks, evicted>>
  BY DEF SendAlert
<1> HIDE DEF x
<1> QED BY <1>2, <1>3, CallerChange

LEMMA InvReturn ==
  ASSUME Inv, NEW r \in Requests, Return(r)
  PROVE  Inv'
<1> DEFINE e == IF caller[r].callback = "nil" /\ pairing # "paired"
                THEN "notPaired" ELSE caller[r].err
           x == [IdleCaller EXCEPT !.pc = "done", !.err = e]
<1>1. e \in {"none", "timeout", "notPaired"} /\ (e = "none" => caller[r].err = "none")
  BY Types DEF Inv, CallerStates
<1>2. x = [IdleCaller EXCEPT !.pc = "done", !.err = e] /\ caller' = [caller EXCEPT ![r] = x]
      /\ UNCHANGED <<mutex, callbacks, ackedIDs, cb, worker, elapsed, pairing,
                     keyKnown, acks, evicted>>
      /\ caller[r].pc = "returning"
  BY DEF Return
<1> HIDE DEF e
<1>3. x \in CallerStates /\ x.pc = "done" /\ x.err = e
  BY <1>1 DEF CallerStates, IdleCaller, Items
<1> HIDE DEF x
<1>4. x.err = "none" => Answered(r)
  BY <1>1, <1>2, <1>3 DEF Answered
<1> QED BY <1>2, <1>3, <1>4, CallerChange

LEMMA InvElapse ==
  ASSUME Inv, NEW r \in Requests, Elapse(r)
  PROVE  Inv'
<1>0. TypeOK
  BY DEF Inv
<1>1. /\ UNCHANGED <<mutex, callbacks, ackedIDs, cb, caller, worker, pairing, keyKnown,
                     acks, evicted>>
      /\ elapsed' \in [Requests -> 0..2]
  <2>1. elapsed \in [Requests -> 0..2]
    BY <1>0 DEF TypeOK
  <2>2. elapsed[r] < 2 /\ elapsed' = [elapsed EXCEPT ![r] = elapsed[r] + 1]
    BY DEF Elapse
  <2>3. elapsed[r] + 1 \in 0..2
    BY <2>1, <2>2
  <2>4. elapsed' \in [Requests -> 0..2]
    BY <2>1, <2>2, <2>3
  <2> QED BY <2>4 DEF Elapse, locals
<1>2. TypeOK'
  BY <1>0, <1>1 DEF TypeOK
<1>3. HolderOK'
  BY <1>1 DEF Inv, HolderOK
<1>4. \A u \in Requests : RequestOK(u)'
  BY <1>0, <1>1, Types, Untouched DEF Inv, Acking
<1> QED BY <1>2, <1>3, <1>4 DEF Inv

(* sendRequestAndReceiveResponses.                                         *)

(* Adding a callback may evict another request's, but never its own.       *)
LEMMA InvRegister ==
  ASSUME Inv, NEW r \in Requests, Register(r)
  PROVE  Inv'
<1>0. TypeOK /\ RequestOK(r) /\ worker[r] = "register" /\ mutex = Free
  BY DEF Inv, Register
<1>1. UNCHANGED <<mutex, ackedIDs, cb, caller, elapsed, pairing, keyKnown, acks>>
  BY DEF Register
<1>2. /\ IsCache(callbacks', Requests) /\ Len(callbacks') <= CacheCap
      /\ \A x : Contains(callbacks', x) => Contains(callbacks, x) \/ x = r
      /\ Contains(callbacks', r)
  <2>1. /\ IsCache(callbacks, Requests) /\ Len(callbacks) <= CacheCap
        /\ CacheCap \in Nat \ {0}
    BY <1>0, CapAssumption DEF TypeOK
  <2> QED BY <2>1, LruAddKeys DEF Register
<1>3. /\ evicted' = evicted \cup (ToSet(callbacks) \ ToSet(callbacks'))
      /\ worker' = [worker EXCEPT ![r] = "receive"]
  BY DEF Register
<1>4. /\ \A x : x \in ToSet(callbacks) <=> Contains(callbacks, x)
      /\ \A x : x \in ToSet(callbacks') <=> Contains(callbacks', x)
  <2>1. IsCache(callbacks, Requests)
    BY <1>0 DEF TypeOK
  <2>2. \A x : x \in ToSet(callbacks) <=> Contains(callbacks, x)
    BY <2>1, CacheKeys
  <2>3. \A x : x \in ToSet(callbacks') <=> Contains(callbacks', x)
    BY <1>2, CacheKeys
  <2> QED BY <2>2, <2>3
<1>5. evicted' \subseteq Requests
  <2>1. ToSet(callbacks) \subseteq Requests
    BY <1>0, CacheKeys DEF TypeOK
  <2> QED BY <1>0, <1>3, <2>1 DEF TypeOK
<1>6. /\ worker'[r] = "receive" /\ worker' \in [Requests -> WorkerStates]
      /\ \A u \in Requests : u # r => worker'[u] = worker[u]
  BY <1>0, <1>3, Types DEF WorkerStates
<1>7. TypeOK'
  BY <1>0, <1>1, <1>2, <1>5, <1>6 DEF TypeOK
<1>8. HolderOK'
  BY <1>0, <1>1, NameAssumption DEF HolderOK, Holds
<1>9. ASSUME NEW u \in Requests, u # r PROVE RequestOK(u)'
  <2>1. /\ Contains(callbacks', u) => Contains(callbacks, u)
        /\ Contains(callbacks, u) => Contains(callbacks', u) \/ u \in evicted'
        /\ evicted \subseteq evicted'
    BY <1>2, <1>3, <1>4, <1>9
  <2> QED BY <1>0, <1>1, <1>6, <1>9, <2>1, Types, Untouched DEF Inv, Acking
<1>10. RequestOK(r)'
  <2>1. cb[r] = <<>> /\ ~Answered(r) /\ caller[r].pc # "idle"
    BY <1>0 DEF RequestOK, Unsent
  <2>2. ~Acking(r)'
    BY <1>0, <1>1, NameAssumption DEF Acking, Holds
  <2>3. Len(cb'[r]) = 0 /\ acks'[r] \in Nat
    BY <1>0, <1>1, <2>1, Types, EmptySeq
  <2>4. AcksOnly(r)'
    BY <2>2, <2>3 DEF AcksOnly
  <2>5. ~ \E i \in 1..Len(cb'[r]) : TRUE
    BY <2>3
  <2>6. ~Answered(r)'
    BY <1>1, <2>1 DEF Answered
  <2> QED BY <1>1, <1>2, <1>6, <2>1, <2>4, <2>5, <2>6
      DEF RequestOK, Unsent, HasWorker, FinalAnswer, AnswerKept
<1> QED BY <1>7, <1>8, <1>9, <1>10 DEF Inv

(* The worker goes on, with the same callbacks in some order.              *)
LEMMA WorkerChange ==
  ASSUME Inv, NEW r \in Requests, NEW w \in {"receive", "unacked", "giveup", "done"},
         worker' = [worker EXCEPT ![r] = w],
         UNCHANGED <<mutex, cb, caller, elapsed, pairing, keyKnown, acks, evicted>>,
         worker[r] \in {"receive", "unacked"} \/ mutex = Free,
         worker[r] \notin {"idle", "register"},
         w = "done" => ~Contains(callbacks, r),
         IsCache(callbacks', Requests), Len(callbacks') <= CacheCap,
         \A x : Contains(callbacks', x) <=> Contains(callbacks, x),
         IsCache(ackedIDs', Requests), Len(ackedIDs') <= CacheCap
  PROVE  Inv'
<1>0. TypeOK /\ RequestOK(r)
  BY DEF Inv
<1>1. /\ worker'[r] = w /\ worker' \in [Requests -> WorkerStates]
      /\ \A u \in Requests : u # r => worker'[u] = worker[u]
  BY <1>0, Types DEF WorkerStates
<1>2. TypeOK'
  BY <1>0, <1>1 DEF TypeOK
<1>3. HolderOK'
  BY <1>1, NameAssumption DEF Inv, HolderOK, Holds
<1>4. \A u \in Requests : u # r => RequestOK(u)'
  BY <1>0, <1>1, Types, Untouched DEF Inv, Acking
<1>5. Unsent(r)' /\ HasWorker(r)'
  BY <1>0, <1>1 DEF RequestOK, Unsent, HasWorker
<1>6. FinalAnswer(r)'
  BY <1>0 DEF RequestOK, FinalAnswer, Answered
<1>7. AnswerKept(r)' /\ AcksOnly(r)'
  BY <1>0, <1>1 DEF RequestOK, AnswerKept, Waiting, AcksOnly, Acking
<1> QED BY <1>2, <1>3, <1>4, <1>5, <1>6, <1>7 DEF Inv, RequestOK

LEMMA InvCheckPending ==
  ASSUME Inv, NEW r \in Requests, CheckPending(r)
  PROVE  Inv'
<1>1. /\ IsCache(callbacks, Requests) /\ IsCache(ackedIDs, Requests)
      /\ Len(callbacks) <= CacheCap /\ Len(ackedIDs) <= CacheCap
  BY DEF Inv, TypeOK
<1>2. /\ IsCache(callbacks', Requests) /\ Len(callbacks') <= CacheCap
      /\ \A x : Contains(callbacks', x) <=> Contains(callbacks, x)
      /\ IsCache(ackedIDs', Requests) /\ Len(ackedIDs') <= CacheCap
  BY <1>1, LruGetKeys DEF CheckPending
<1>3. \E w \in {"receive", "unacked", "giveup", "done"} :
         worker' = [worker EXCEPT ![r] = w] /\ w # "done"
  BY DEF CheckPending
<1>4. /\ UNCHANGED <<mutex, cb, caller, elapsed, pairing, keyKnown, acks, evicted>>
      /\ worker[r] = "receive"
  BY DEF CheckPending
<1> QED BY <1>2, <1>3, <1>4, WorkerChange

LEMMA InvCheckTime ==
  ASSUME Inv, NEW r \in Requests, CheckTime(r)
  PROVE  Inv'
<1>1. \E w \in {"receive", "unacked", "giveup", "done"} :
         worker' = [worker EXCEPT ![r] = w] /\ w # "done"
  BY DEF CheckTime
<1>2. /\ UNCHANGED <<mutex, callbacks, ackedIDs, cb, caller, elapsed, pairing, keyKnown,
                     acks, evicted>>
      /\ worker[r] = "unacked"
  BY DEF CheckTime
<1>3. /\ IsCache(callbacks', Requests) /\ Len(callbacks') <= CacheCap
      /\ IsCache(ackedIDs', Requests) /\ Len(ackedIDs') <= CacheCap
  BY <1>2 DEF Inv, TypeOK
<1> QED BY <1>1, <1>2, <1>3, WorkerChange

LEMMA InvGiveUp ==
  ASSUME Inv, NEW r \in Requests, GiveUp(r)
  PROVE  Inv'
<1>0. TypeOK /\ mutex = Free /\ worker[r] = "giveup"
  BY DEF Inv, GiveUp
<1>1. UNCHANGED <<callbacks, ackedIDs, cb, caller, elapsed, pairing, keyKnown, acks, evicted>>
  BY DEF GiveUp
<1>2. CASE mutex' = [op |-> "giveup", req |-> r] /\ worker' = worker /\ Contains(callbacks, r)
  <2>1. TypeOK'
    BY <1>0, <1>1, <1>2 DEF TypeOK, Holds
  <2>2. HolderOK'
    BY <1>0, <1>1, <1>2 DEF HolderOK
  <2>3. \A u \in Requests : RequestOK(u)'
    BY <1>0, <1>1, <1>2, Types, Untouched DEF Inv, Acking
  <2> QED BY <2>1, <2>2, <2>3 DEF Inv
<1>3. CASE /\ mutex' = mutex /\ worker' = [worker EXCEPT ![r] = "done"]
           /\ ~Contains(callbacks, r)
  <2>1. /\ IsCache(callbacks', Requests) /\ Len(callbacks') <= CacheCap
        /\ IsCache(ackedIDs', Requests) /\ Len(ackedIDs') <= CacheCap
    BY <1>0, <1>1 DEF TypeOK
  <2> QED BY <1>0, <1>1, <1>3, <2>1, WorkerChange
<1> QED BY <1>2, <1>3 DEF GiveUp

(* handleMessage takes the mutex.                                          *)
LEMMA InvHandleAck ==
  ASSUME Inv, NEW r \in Requests, HandleAck(r)
  PROVE  Inv'
<1>0. TypeOK /\ mutex = Free /\ acks[r] \in Nat /\ acks[r] < MaxAcks
  BY Types DEF Inv, HandleAck
<1>1. /\ UNCHANGED <<callbacks, ackedIDs, cb, caller, worker, elapsed, pairing, keyKnown, evicted>>
      /\ mutex' = [op |-> "ack", req |-> r]
      /\ acks' = [acks EXCEPT ![r] = acks[r] + 1]
  BY DEF HandleAck, locals
<1>2. /\ acks'[r] = acks[r] + 1 /\ acks' \in [Requests -> 0..MaxAcks]
      /\ \A u \in Requests : u # r => acks'[u] = acks[u]
  BY <1>0, <1>1, Types, AckAssumption
<1>3. TypeOK'
  BY <1>0, <1>1, <1>2 DEF TypeOK, Holds
<1>4. HolderOK'
  BY <1>1 DEF HolderOK
<1>5. \A u \in Requests : u # r => RequestOK(u)'
  BY <1>0, <1>1, <1>2, Types, Untouched DEF Inv, Acking
<1>6. RequestOK(r)'
  <2>1. RequestOK(r) /\ ~Acking(r)
    BY <1>0, NameAssumption DEF Inv, Acking, Holds
  <2>2. Unsent(r)' /\ HasWorker(r)' /\ FinalAnswer(r)' /\ AnswerKept(r)'
    BY <1>1, <2>1 DEF RequestOK, Unsent, HasWorker, FinalAnswer, AnswerKept, Answered, Waiting
  <2>3. Contains(callbacks, r) => Len(cb[r]) + 0 <= acks[r]
    BY <2>1 DEF RequestOK, AcksOnly
  <2>4. Len(cb[r]) \in Nat
    BY <1>0, Types
  <2>5. Acking(r)'
    BY <1>1 DEF Acking
  <2>6. AcksOnly(r)'
    BY <1>0, <1>1, <1>2, <2>3, <2>4, <2>5 DEF AcksOnly
  <2> QED BY <2>2, <2>6 DEF RequestOK
<1> QED BY <1>3, <1>4, <1>5, <1>6 DEF Inv

LEMMA InvHandleResponse ==
  ASSUME Inv, NEW r \in Requests, HandleResponse(r)
  PROVE  Inv'
<1>0. TypeOK /\ mutex = Free
  BY DEF Inv, HandleResponse
<1>1. /\ UNCHANGED <<callbacks, ackedIDs, cb, caller, worker, elapsed, pairing, keyKnown,
                     acks, evicted>>
      /\ mutex' = [op |-> "response", req |-> r]
  BY DEF HandleResponse, locals
<1>2. TypeOK'
  BY <1>0, <1>1 DEF TypeOK, Holds
<1>3. HolderOK'
  BY <1>1 DEF HolderOK
<1>4. \A u \in Requests : RequestOK(u)'
  BY <1>0, <1>1, Types, Untouched DEF Inv, Acking
<1> QED BY <1>2, <1>3, <1>4 DEF Inv

LEMMA InvHandleUnpair ==
  ASSUME Inv, NEW current \in BOOLEAN, HandleUnpair(current)
  PROVE  Inv'
<1>0. TypeOK /\ mutex = Free
  BY DEF Inv, HandleUnpair
<1>1. /\ UNCHANGED <<callbacks, ackedIDs, cb, caller, worker, elapsed, keyKnown, acks, evicted>>
      /\ mutex' = [op |-> "unpair", req |-> NoRequest]
      /\ pairing' \in {"none", pairing}
  BY DEF HandleUnpair, locals
<1>2. TypeOK'
  BY <1>0, <1>1 DEF TypeOK, Holds
<1>3. HolderOK'
  BY <1>1 DEF HolderOK
<1>4. \A u \in Requests : RequestOK(u)'
  BY <1>0, <1>1, Types, Untouched DEF Inv, Acking
<1> QED BY <1>2, <1>3, <1>4 DEF Inv

(* The pairing plays no part in the invariant.                             *)
LEMMA InvPairingStep ==
  ASSUME Inv, PairingStep
  PROVE  Inv'
<1>0. TypeOK
  BY DEF Inv
<1>1. /\ UNCHANGED <<mutex, callbacks, ackedIDs, cb, caller, worker, elapsed, acks, evicted>>
      /\ pairing' \in {"none", "waiting", "paired"} /\ keyKnown' \in BOOLEAN
  BY <1>0 DEF PairingStep, Pair, UnwrapKey, Unpair, locals, TypeOK
<1>2. TypeOK'
  BY <1>0, <1>1 DEF TypeOK
<1>3. HolderOK'
  BY <1>1 DEF Inv, HolderOK
<1>4. \A u \in Requests : RequestOK(u)'
  BY <1>0, <1>1, Types, Untouched DEF Inv, Acking
<1> QED BY <1>2, <1>3, <1>4 DEF Inv

(* Finishing what the mutex was taken for.                                 *)

(* The channel of a pending request holds ACKs only, so its caller has not *)
(* been answered, and one more item is the last one.                       *)
LEMMA PendingChannel ==
  ASSUME Inv, NEW r \in Requests, Contains(callbacks, r), NEW item \in Items,
         Deliver(r, item)
  PROVE  /\ \A i \in 1..Len(cb[r]) : cb[r][i] = "ack"
         /\ ~Answered(r) /\ caller[r].pc # "idle"
         /\ worker[r] \in {"receive", "unacked", "giveup"}
         /\ cb' \in [Requests -> Seq(Items)] /\ Len(cb'[r]) <= CbCap
         /\ Len(cb[r]) \in Nat /\ Len(cb'[r]) = Len(cb[r]) + 1
         /\ cb'[r][Len(cb'[r])] = item
         /\ \A i \in 1..Len(cb[r]) : cb'[r][i] = cb[r][i]
         /\ \A u \in Requests : u # r => cb'[u] = cb[u]
<1>0. TypeOK /\ RequestOK(r)
  BY DEF Inv
<1>1. /\ \A i \in 1..Len(cb[r]) : cb[r][i] = "ack"
      /\ ~Answered(r) /\ caller[r].pc # "idle"
      /\ worker[r] \in {"receive", "unacked", "giveup"}
  BY <1>0 DEF RequestOK, FinalAnswer, HasWorker, Unsent
<1>2. /\ cb \in [Requests -> Seq(Items)] /\ cb[r] \in Seq(Items)
      /\ Len(cb[r]) \in Nat /\ Len(cb[r]) < CbCap
      /\ cb' = [cb EXCEPT ![r] = Append(cb[r], item)]
  BY <1>0, Types DEF Deliver
<1>3. /\ Append(cb[r], item) \in Seq(Items)
      /\ Len(Append(cb[r], item)) = Len(cb[r]) + 1
      /\ Append(cb[r], item)[Len(cb[r]) + 1] = item
      /\ \A i \in 1..Len(cb[r]) : Append(cb[r], item)[i] = cb[r][i]
  BY <1>2, AppendProperties
<1>4. /\ cb'[r] = Append(cb[r], item) /\ cb' \in [Requests -> Seq(Items)]
      /\ \A u \in Requests : u # r => cb'[u] = cb[u]
  BY <1>2, <1>3
<1> QED BY <1>1, <1>2, <1>3, <1>4, CapAssumption

(* A final answer: the callback goes with it.                              *)
LEMMA FinalDelivery ==
  ASSUME Inv, NEW r \in Requests, Contains(callbacks, r),
         NEW item \in {"response", "nil"}, Deliver(r, item),
         ~Contains(callbacks', r), caller' = caller,
         worker'[r] \in {worker[r], "done"}
  PROVE  RequestOK(r)'
<1>0. item \in Items /\ item # "ack"
  BY DEF Items
<1>1. /\ \A i \in 1..Len(cb[r]) : cb[r][i] = "ack"
      /\ ~Answered(r) /\ caller[r].pc # "idle"
      /\ worker[r] \in {"receive", "unacked", "giveup"}
      /\ Len(cb[r]) \in Nat /\ Len(cb'[r]) = Len(cb[r]) + 1
      /\ cb'[r][Len(cb'[r])] = item
      /\ \A i \in 1..Len(cb[r]) : cb'[r][i] = cb[r][i]
  BY <1>0, PendingChannel
<1>2. Unsent(r)' /\ HasWorker(r)' /\ AcksOnly(r)'
  BY <1>1 DEF Unsent, HasWorker, AcksOnly
<1>3. ~Answered(r)'
  BY <1>1 DEF Answered
<1>4. \A i \in 1..Len(cb'[r]) : cb'[r][i] # "ack" => i = Len(cb'[r])
  BY <1>1
<1>5. FinalAnswer(r)'
  BY <1>3, <1>4 DEF FinalAnswer
<1>6. cb'[r] # <<>>
  BY <1>1, EmptySeq
<1>7. AnswerKept(r)'
  BY <1>0, <1>1, <1>6 DEF AnswerKept
<1> QED BY <1>2, <1>5, <1>7 DEF RequestOK

LEMMA InvFinishAck ==
  ASSUME Inv, FinishAck
  PROVE  Inv'
<1>0. TypeOK /\ mutex # Free /\ mutex.op = "ack"
  BY DEF Inv, FinishAck
<1>1. PICK r \in Requests : mutex = [op |-> "ack", req |-> r] /\ mutex.req = r
  BY <1>0, HolderShape
<1>2. /\ UNCHANGED <<caller, worker, elapsed, pairing, keyKnown, acks, evicted>>
      /\ mutex' = Free /\ callbacks' = LruGet(callbacks, r)
      /\ ackedIDs' = LruAdd(ackedIDs, r, CacheCap)
      /\ \/ Contains(callbacks, r) /\ Deliver(r, "ack")
         \/ ~Contains(callbacks, r) /\ cb' = cb
  BY <1>1 DEF FinishAck
<1>3. /\ IsCache(callbacks', Requests) /\ Len(callbacks') <= CacheCap
      /\ \A x : Contains(callbacks', x) <=> Contains(callbacks, x)
  BY <1>0, <1>1, <1>2, LruGetKeys DEF TypeOK
<1>4. IsCache(ackedIDs', Requests) /\ Len(ackedIDs') <= CacheCap
  BY <1>0, <1>1, <1>2, LruAddKeys, CapAssumption DEF TypeOK
<1>5. HolderOK'
  BY <1>2, NameAssumption DEF HolderOK, Holds
<1>6. \A u \in Requests : ~Acking(u)'
  BY <1>2, NameAssumption DEF Acking, Holds
<1>7. CASE ~Contains(callbacks, r) /\ cb' = cb
  <2>1. TypeOK'
    BY <1>0, <1>2, <1>3, <1>4, <1>7 DEF TypeOK
  <2>2. \A u \in Requests : RequestOK(u)'
    BY <1>0, <1>2, <1>3, <1>6, <1>7, Types, Untouched DEF Inv
  <2> QED BY <1>5, <2>1, <2>2 DEF Inv
<1>8. CASE Contains(callbacks, r) /\ Deliver(r, "ack")
  <2>1. /\ \A i \in 1..Len(cb[r]) : cb[r][i] = "ack"
        /\ ~Answered(r) /\ caller[r].pc # "idle"
        /\ worker[r] \in {"receive", "unacked", "giveup"}
        /\ cb' \in [Requests -> Seq(Items)] /\ Len(cb'[r]) <= CbCap
        /\ Len(cb[r]) \in Nat /\ Len(cb'[r]) = Len(cb[r]) + 1
        /\ cb'[r][Len(cb'[r])] = "ack"
        /\ \A i \in 1..Len(cb[r]) : cb'[r][i] = cb[r][i]
        /\ \A u \in Requests : u # r => cb'[u] = cb[u]
    BY <1>1, <1>8, PendingChannel DEF Items
  <2>2. TypeOK'
    BY <1>0, <1>2, <1>3, <1>4, <2>1 DEF TypeOK
  <2>3. \A u \in Requests : u # r => RequestOK(u)'
    BY <1>0, <1>2, <1>3, <1>6, <2>1, Types, Untouched DEF Inv
  <2>4. Unsent(r)' /\ HasWorker(r)' /\ AnswerKept(r)'
    BY <1>2, <1>3, <1>8, <2>1 DEF Unsent, HasWorker, AnswerKept
  <2>5. FinalAnswer(r)'
    <3>1. \A i \in 1..Len(cb'[r]) : cb'[r][i] = "ack"
      BY <2>1
    <3>2. ~Answered(r)'
      BY <1>2, <2>1 DEF Answered
    <3> QED BY <3>1, <3>2 DEF FinalAnswer
  <2>6. AcksOnly(r)'
    <3>1. Len(cb[r]) + 1 <= acks[r]
      BY <1>1, <1>8 DEF Inv, RequestOK, AcksOnly, Acking
    <3>2. Len(cb'[r]) + 0 <= acks'[r]
      BY <1>2, <2>1, <3>1
    <3> QED BY <1>1, <1>6, <3>2 DEF AcksOnly
  <2> QED BY <1>5, <2>2, <2>3, <2>4, <2>5, <2>6 DEF Inv, RequestOK
<1> QED BY <1>2, <1>7, <1>8

(* What FinishResponse and FinishGiveUp have in common: the callback of r  *)
(* is removed, after an answer was delivered if it was there.              *)
LEMMA InvRemoved ==
  ASSUME Inv, NEW r \in Requests, NEW item \in {"response", "nil"},
         UNCHANGED <<ackedIDs, caller, elapsed, pairing, keyKnown, acks, evicted>>,
         mutex' = Free, callbacks' = LruRemove(callbacks, r),
         \/ Contains(callbacks, r) /\ Deliver(r, item)
         \/ ~Contains(callbacks, r) /\ cb' = cb /\ worker' = worker,
         worker' \in [Requests -> WorkerStates], worker'[r] \in {worker[r], "done"},
         \A u \in Requests : u # r => worker'[u] = worker[u]
  PROVE  Inv'
<1>0. TypeOK
  BY DEF Inv
<1>1. /\ IsCache(callbacks', Requests) /\ Len(callbacks') <= CacheCap
      /\ \A x : Contains(callbacks', x) <=> Contains(callbacks, x) /\ x # r
  <2>1. IsCache(callbacks, Requests) /\ Len(callbacks) <= CacheCap /\ Len(callbacks) \in Nat
    BY <1>0, LenProperties DEF TypeOK, IsCache
  <2>2. /\ IsCache(callbacks', Requests)
        /\ \A x : Contains(callbacks', x) <=> Contains(callbacks, x) /\ x # r
        /\ Len(callbacks') = IF Contains(callbacks, r) THEN Len(callbacks) - 1 ELSE Len(callbacks)
    BY <2>1, LruRemoveKeys
  <2>3. CASE Contains(callbacks, r)
    BY <2>1, <2>2, <2>3, CapAssumption
  <2>4. CASE ~Contains(callbacks, r)
    BY <2>1, <2>2, <2>4
  <2> QED BY <2>3, <2>4
<1>2. HolderOK'
  BY NameAssumption DEF HolderOK, Holds
<1>3. \A u \in Requests : ~Acking(u)'
  BY NameAssumption DEF Acking, Holds
<1>4. CASE ~Contains(callbacks, r) /\ cb' = cb /\ worker' = worker
  <2>1. TypeOK'
    BY <1>0, <1>1, <1>4 DEF TypeOK
  <2>2. \A u \in Requests : RequestOK(u)'
    BY <1>0, <1>1, <1>3, <1>4, Types, Untouched DEF Inv
  <2> QED BY <1>2, <2>1, <2>2 DEF Inv
<1>5. CASE Contains(callbacks, r) /\ Deliver(r, item)
  <2>1. /\ cb' \in [Requests -> Seq(Items)] /\ Len(cb'[r]) <= CbCap
        /\ \A u \in Requests : u # r => cb'[u] = cb[u]
    BY <1>5, PendingChannel DEF Items
  <2>2. TypeOK'
    BY <1>0, <1>1, <2>1 DEF TypeOK
  <2>3. \A u \in Requests : u # r => RequestOK(u)'
    BY <1>0, <1>1, <1>3, <2>1, Types, Untouched DEF Inv
  <2>4. RequestOK(r)'
    BY <1>1, <1>5, FinalDelivery
  <2> QED BY <1>2, <2>2, <2>3, <2>4 DEF Inv
<1> QED BY <1>4, <1>5

LEMMA InvFinishResponse ==
  ASSUME Inv, FinishResponse
  PROVE  Inv'
<1>0. TypeOK /\ mutex # Free /\ mutex.op = "response"
  BY DEF Inv, FinishResponse
<1>1. PICK r \in Requests : mutex.req = r
  BY <1>0, HolderShape
<1>2. /\ UNCHANGED <<ackedIDs, caller, worker, elapsed, pairing, keyKnown, acks, evicted>>
      /\ mutex' = Free /\ callbacks' = LruRemove(callbacks, r)
      /\ \/ Contains(callbacks, r) /\ Deliver(r, "response")
         \/ ~Contains(callbacks, r) /\ cb' = cb
  BY <1>1 DEF FinishResponse, AnsweredCallbacks
<1>3. worker' \in [Requests -> WorkerStates]
  BY <1>0, <1>2, Types
<1> QED BY <1>2, <1>3, InvRemoved

LEMMA InvFinishGiveUp ==
  ASSUME Inv, FinishGiveUp
  PROVE  Inv'
<1>0. TypeOK /\ mutex # Free /\ mutex.op = "giveup"
  BY DEF Inv, FinishGiveUp
<1>1. PICK r \in Requests : mutex = [op |-> "giveup", req |-> r] /\ mutex.req = r
  BY <1>0, HolderShape
<1>2. /\ UNCHANGED <<ackedIDs, caller, elapsed, pairing, keyKnown, acks, evicted>>
      /\ mutex' = Free /\ callbacks' = LruRemove(callbacks, r)
      /\ Deliver(r, "nil") /\ worker' = [worker EXCEPT ![r] = "done"]
  BY <1>1 DEF FinishGiveUp, AbandonedCallbacks
<1>3. Contains(callbacks, r)
  BY <1>1 DEF Inv, HolderOK
<1>4. /\ worker' \in [Requests -> WorkerStates] /\ worker'[r] = "done"
      /\ \A u \in Requests : u # r => worker'[u] = worker[u]
  BY <1>0, <1>2, Types DEF WorkerStates
<1> QED BY <1>2, <1>3, <1>4, InvRemoved

LEMMA InvCancelOldest ==
  ASSUME Inv, CancelOldest
  PROVE  Inv'
<1>0. TypeOK /\ mutex = [op |-> "unpair", req |-> NoRequest]
  BY HolderShape DEF Inv, CancelOldest
<1>1. IsCache(callbacks, Requests) /\ callbacks # <<>> /\ Len(callbacks) <= CacheCap
      /\ Len(callbacks) \in Nat
  BY <1>0, LenProperties DEF TypeOK, IsCache, CancelOldest
<1>2. PICK r \in Requests : r = Last(callbacks)
  BY <1>1, LruRemoveOldestKeys
<1>3. /\ UNCHANGED <<mutex, ackedIDs, caller, worker, elapsed, pairing, keyKnown, acks, evicted>>
      /\ callbacks' = LruRemoveOldest(callbacks) /\ Deliver(r, "nil")
  BY <1>2 DEF CancelOldest, NotifyCancelled
<1>4. /\ IsCache(callbacks', Requests) /\ Len(callbacks') <= CacheCap
      /\ \A x : Contains(callbacks', x) <=> Contains(callbacks, x) /\ x # r
      /\ Contains(callbacks, r)
  <2>1. /\ IsCache(callbacks', Requests) /\ Len(callbacks') = Len(callbacks) - 1
        /\ \A x : Contains(callbacks', x) <=> Contains(callbacks, x) /\ x # r
        /\ Contains(callbacks, r)
    BY <1>1, <1>2, <1>3, LruRemoveOldestKeys
  <2> QED BY <1>1, <2>1, CapAssumption
<1>5. /\ cb' \in [Requests -> Seq(Items)] /\ Len(cb'[r]) <= CbCap
      /\ \A u \in Requests : u # r => cb'[u] = cb[u]
  BY <1>3, <1>4, PendingChannel DEF Items
<1>6. TypeOK'
  BY <1>0, <1>3, <1>4, <1>5 DEF TypeOK
<1>7. HolderOK'
  BY <1>0, <1>3 DEF HolderOK
<1>8. \A u \in Requests : u # r => RequestOK(u)'
  BY <1>0, <1>3, <1>4, <1>5, Types, Untouched DEF Inv, Acking
<1>9. RequestOK(r)'
  BY <1>3, <1>4, FinalDelivery
<1> QED BY <1>6, <1>7, <1>8, <1>9 DEF Inv

LEMMA InvFinishUnpair ==
  ASSUME Inv, FinishUnpair
  PROVE  Inv'
<1>0. TypeOK
  BY DEF Inv
<1>1. /\ UNCHANGED <<callbacks, ackedIDs, cb, caller, worker, elapsed, pairing, keyKnown,
                     acks, evicted>>
      /\ mutex' = Free
  BY DEF FinishUnpair, Unlock, locals
<1>2. TypeOK'
  BY <1>0, <1>1 DEF TypeOK
<1>3. HolderOK' /\ \A u \in Requests : ~Acking(u)'
  BY <1>1, NameAssumption DEF HolderOK, Acking, Holds
<1>4. \A u \in Requests : RequestOK(u)'
  BY <1>0, <1>1, <1>3, Types, Untouched DEF Inv
<1> QED BY <1>2, <1>3, <1>4 DEF Inv

-----------------------------------------------------------------------------
LEMMA InvInit == Init => Inv
<1> SUFFICES ASSUME Init PROVE Inv
  OBVIOUS
<1>1. IsCache(<<>>, Requests) /\ Len(<<>>) = 0 /\ <<>> \in Seq(Items)
  <2>1. <<>> \in Seq(Requests) /\ Len(<<>>) = 0 /\ <<>> \in Seq(Items)
    BY EmptySeq
  <2>2. \A i, j \in 1..Len(<<>>) : <<>>[i] = <<>>[j] => i = j
    BY <2>1
  <2> QED BY <2>1, <2>2, InjectiveIndices DEF IsCache
<1>2. IdleCaller \in CallerStates /\ IdleCaller.pc = "idle"
  BY DEF IdleCaller, CallerStates, Items
<1>3. TypeOK
  <2>1. \A r \in Requests : Len(cb[r]) <= CbCap
    BY <1>1, CapAssumption DEF Init
  <2>2. Len(callbacks) <= CacheCap /\ Len(ackedIDs) <= CacheCap
    BY <1>1, CapAssumption DEF Init
  <2>3. IsCache(callbacks, Requests) /\ IsCache(ackedIDs, Requests)
    BY <1>1 DEF Init
  <2>4. cb \in [Requests -> Seq(Items)] /\ caller \in [Requests -> CallerStates]
    BY <1>1, <1>2 DEF Init
  <2>5. /\ worker \in [Requests -> WorkerStates]
        /\ elapsed \in [Requests -> 0..2]
        /\ acks \in [Requests -> 0..MaxAcks]
    BY AckAssumption DEF Init, WorkerStates
  <2>6. /\ mutex \in Holds \cup {Free}
        /\ pairing \in {"none", "waiting", "paired"}
        /\ keyKnown \in BOOLEAN
        /\ evicted \subseteq Requests
    BY DEF Init
  <2> QED BY <2>1, <2>2, <2>3, <2>4, <2>5, <2>6 DEF TypeOK
<1>4. HolderOK
  BY NameAssumption DEF Init, HolderOK, Holds
<1>5. ASSUME NEW r \in Requests PROVE RequestOK(r)
  <2>1. /\ cb[r] = <<>> /\ worker[r] = "idle" /\ caller[r].pc = "idle"
        /\ ~Contains(callbacks, r)
    BY <1>1, <1>2 DEF Init, Contains
  <2>2. Len(cb[r]) = 0
    BY <1>1, <2>1
  <2>3. ~Answered(r) /\ ~Waiting(r)
    BY <2>1 DEF Answered, Waiting
  <2> QED BY <2>1, <2>2, <2>3
      DEF RequestOK, Unsent, HasWorker, FinalAnswer, AnswerKept, AcksOnly
<1> QED BY <1>3, <1>4, <1>5 DEF Inv

LEMMA InvNext == Inv /\ [Next]_vars => Inv'
<1> SUFFICES ASSUME Inv, [Next]_vars PROVE Inv'
  OBVIOUS
<1>1. ASSUME NEW r \in Requests, CallerStep(r) PROVE Inv'
  <2>1. CASE TryRequest(r)
    BY <2>1, InvTryRequest
  <2>2. CASE ReceiveCallback(r)
    BY <2>2, InvReceiveCallback
  <2>3. CASE CallerTimeout(r)
    BY <2>3, InvCallerTimeout
  <2>4. CASE AlertTimer(r)
    BY <2>4, InvAlertTimer
  <2>5. CASE SendAlert(r)
    BY <2>5, InvSendAlert
  <2>6. CASE Return(r)
    BY <2>6, InvReturn
  <2>7. CASE Elapse(r)
    BY <2>7, InvElapse
  <2> QED BY <1>1, <2>1, <2>2, <2>3, <2>4, <2>5, <2>6, <2>7 DEF CallerStep
<1>2. ASSUME NEW r \in Requests, WorkerStep(r) PROVE Inv'
  <2>1. CASE Register(r)
    BY <2>1, InvRegister
  <2>2. CASE CheckPending(r)
    BY <2>2, InvCheckPending
  <2>3. CASE CheckTime(r)
    BY <2>3, InvCheckTime
  <2>4. CASE GiveUp(r)
    BY <2>4, InvGiveUp
  <2> QED BY <1>2, <2>1, <2>2, <2>3, <2>4 DEF WorkerStep
<1>3. CASE HandleStep
  <2>1. ASSUME NEW r \in Requests, HandleAck(r) PROVE Inv'
    BY <2>1, InvHandleAck
  <2>2. ASSUME NEW r \in Requests, HandleResponse(r) PROVE Inv'
    BY <2>2, InvHandleResponse
  <2>3. ASSUME NEW current \in BOOLEAN, HandleUnpair(current) PROVE Inv'
    BY <2>3, InvHandleUnpair
  <2> QED BY <1>3, <2>1, <2>2, <2>3 DEF HandleStep
<1>4. CASE HolderStep
  <2>1. CASE FinishAck
    BY <2>1, InvFinishAck
  <2>2. CASE FinishResponse
    BY <2>2, InvFinishResponse
  <2>3. CASE FinishGiveUp
    BY <2>3, InvFinishGiveUp
  <2>4. CASE CancelOldest
    BY <2>4, InvCancelOldest
  <2>5. CASE FinishUnpair
    BY <2>5, InvFinishUnpair
  <2> QED BY <1>4, <2>1, <2>2, <2>3, <2>4, <2>5 DEF HolderStep
<1>5. CASE PairingStep
  BY <1>5, InvPairingStep
<1>6. CASE UNCHANGED vars
  <2>1. UNCHANGED <<mutex, callbacks, ackedIDs, cb, caller, worker, elapsed, pairing,
                    keyKnown, acks, evicted>>
    BY <1>6 DEF vars, locals
  <2>2. TypeOK' /\ HolderOK'
    BY <2>1 DEF Inv, TypeOK, HolderOK
  <2>3. \A u \in Requests : RequestOK(u)'
    BY <2>1, Types, Untouched DEF Inv, Acking
  <2> QED BY <2>2, <2>3 DEF Inv
<1> QED BY <1>1, <1>2, <1>3, <1>4, <1>5, <1>6 DEF Next

(* The request table, the channels and the goroutines that share them fit  *)
(* together in every reachable state.                                      *)
THEOREM Structure == Spec => []Inv
<1> QED BY InvInit, InvNext, PTL DEF Spec

(* Every variable keeps its type; the caches and channels respect their    *)
(* capacities.                                                             *)
THEOREM TypeCorrect == Spec => []TypeOK
<1>1. Inv => TypeOK
  BY DEF Inv
<1> QED BY <1>1, Structure, PTL

(* A caller gets at most one final answer.                                 *)
THEOREM AtMostOneAnswer == Spec => []OneFinalAnswer
<1>1. Inv => OneFinalAnswer
  BY DEF Inv, RequestOK, OneFinalAnswer
<1> QED BY <1>1, Structure, PTL

(* No callback outlives its worker.                                        *)
THEOREM NoLeakedCallback == Spec => []CallbackHasWorker
<1>1. Inv => CallbackHasWorker
  BY DEF Inv, RequestOK, CallbackHasWorker
<1> QED BY <1>1, Structure, PTL

(* When the worker is gone, the answer is in the channel, unless the cache *)
(* evicted the callback.                                                   *)
THEOREM AnswerIsThere == Spec => []NobodyWaitsForNothing
<1>1. Inv => NobodyWaitsForNothing
  <2> SUFFICES ASSUME Inv, NEW r \in Requests, Waiting(r), worker[r] = "done"
               PROVE  cb[r] # <<>> \/ r \in evicted
    BY DEF NobodyWaitsForNothing
  <2>1. ~Contains(callbacks, r)
    BY DEF Inv, RequestOK, HasWorker
  <2> QED BY <2>1 DEF Inv, RequestOK, AnswerKept
<1> QED BY <1>1, Structure, PTL

(* With fewer ACKs per request than a channel holds, whoever holds         *)
(* ec.Mutex finds room in the channel it sends to.                         *)
THEOREM MutexIsReleased ==
  ASSUME MaxAcks < CbCap
  PROVE  Spec => []MutexNeverStuck
<1>1. Inv => MutexNeverStuck
  <2> SUFFICES ASSUME Inv, NEW r \in Receivers PROVE Len(cb[r]) < CbCap
    BY DEF MutexNeverStuck
  <2>1. r \in Requests /\ Contains(callbacks, r)
    BY DEF Receivers
  <2>2. Len(cb[r]) \in Nat /\ acks[r] \in 0..MaxAcks
    BY <2>1, Types DEF Inv
  <2>3. Len(cb[r]) + (IF Acking(r) THEN 1 ELSE 0) <= acks[r]
    BY <2>1 DEF Inv, RequestOK, AcksOnly
  <2>4. Len(cb[r]) <= acks[r]
    <3>1. CASE Acking(r)
      BY <2>2, <2>3, <3>1
    <3>2. CASE ~Acking(r)
      BY <2>2, <2>3, <3>2
    <3> QED BY <3>1, <3>2
  <2> QED BY <2>2, <2>4, CapAssumption, AckAssumption
<1> QED BY <1>1, Structure, PTL
=============================================================================
