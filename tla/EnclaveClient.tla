--------------------------- MODULE EnclaveClient ---------------------------
(***************************************************************************)
(* The pairing life cycle of krd's EnclaveClient: the current pairing      *)
(* secret, the phone's public key it waits for, the messages queued until  *)
(* that key arrives, the cached profile, and the copy of pairing and       *)
(* profile that the persister keeps on disk and Start loads.               *)
(*                                                                         *)
(* Every step is what one goroutine does between two points where another  *)
(* can run: a critical section of ec.Mutex, one of the pairing secret's    *)
(* own mutex, or a file write that holds neither.  A goroutine that read   *)
(* ec.pairingSecret keeps that value in its own state while the client may *)
(* be unpaired or paired again; a crash can happen at any point.           *)
(*                                                                         *)
(* Pairings are numbered in the order GeneratePairingSecret makes them     *)
(* (two pairings are Equal exactly when they are the same one), a phone is *)
(* its public key, and a profile is the phone it came from.                *)
(***************************************************************************)
EXTENDS Naturals, Sequences

CONSTANTS
    MaxPairings,    \* bound: how often `kr pair` is run
    Keys,           \* public keys of the phones that may scan the QR code
    Requests,       \* request IDs; each names one caller and its goroutine
    MeRequests,     \* the requests among them that ask for the profile
    QueueCap,       \* 128 in sendMessage
    Bluetooth,      \* the goroutine that reads the Bluetooth channel
    NoKey,          \* a nil key or a nil profile
    NoMessage       \* a reader that holds no ciphertext

ASSUME PairingsAssumption == MaxPairings \in Nat
ASSUME QueueAssumption    == QueueCap \in Nat
ASSUME MeAssumption       == MeRequests \subseteq Requests
ASSUME ReaderAssumption   == Bluetooth \notin Requests
ASSUME KeyAssumption      == NoKey \notin Keys
ASSUME BodyAssumption     == "unpair" \notin Requests /\ "none" \notin Requests

NoPairing == 0
Pairings  == 1..MaxPairings
Readers   == Requests \cup {Bluetooth}

(* A ciphertext as a phone sends it.  A wrapped public key carries no body; *)
(* a sealed message is the response to a request or the unpair command.    *)
Ciphertexts ==
    [header : {"wrappedKey", "sealed"}, pairing : Pairings, key : Keys,
     body : Requests \cup {"unpair", "none"}]

(* What krd sends: a request, or the notice that it dropped the pairing.   *)
Outgoing == [msg : Requests \cup {"unpair"}, pairing : Pairings, key : Keys]

VARIABLES
    pairingSecret,  \* ec.pairingSecret
    generated,      \* how many pairing secrets were generated
    enclaveKey,     \* EnclavePublicKey of each pairing secret in memory
    outgoingQueue,  \* ec.outgoingQueue
    cachedMe,       \* ec.cachedMe
    pending,        \* keys of ec.requestCallbacksByRequestID
    savedPairing, savedKey,  \* pairing.json
    savedMe,        \* the file "me"
    reader,         \* the handleCiphertext call of each reading goroutine
    request,        \* tryRequest and sendRequestAndReceiveResponses
    notices,        \* goroutines that will send an unpair request
    sent,           \* history: what was handed to the transport
    savedBy,        \* history: who wrote pairing.json last
    retired,        \* history: pairings that Pair or Unpair gave up
    overflowed      \* history: requests dropped by a full outgoingQueue

memory  == <<pairingSecret, enclaveKey, outgoingQueue, cachedMe, pending>>
disk    == <<savedPairing, savedKey, savedMe, savedBy>>
history == <<generated, sent, retired, overflowed>>
vars    == <<memory, disk, history, reader, request, notices>>

ReaderStates ==
    [pc : {"idle", "unwrap", "flush", "save", "resend", "handle"},
     ps : Pairings \cup {NoPairing},
     ctxt : Ciphertexts \cup {NoMessage},
     queue : Seq(Requests)]

RequestStates ==
    [caller : {"idle", "waiting", "saving", "done"},
     worker : {"idle", "register", "encrypt", "enqueue", "polling", "done"},
     ps : Pairings \cup {NoPairing},
     me : Keys \cup {NoKey},
     alert : BOOLEAN]

IdleReader  == [pc |-> "idle", ps |-> NoPairing, ctxt |-> NoMessage, queue |-> <<>>]
IdleRequest == [caller |-> "idle", worker |-> "idle", ps |-> NoPairing,
                me |-> NoKey, alert |-> FALSE]

TypeOK ==
    /\ pairingSecret \in Pairings \cup {NoPairing}
    /\ generated \in Pairings \cup {0}
    /\ enclaveKey \in [Pairings -> Keys \cup {NoKey}]
    /\ outgoingQueue \in Seq(Requests) /\ Len(outgoingQueue) <= QueueCap
    /\ cachedMe \in Keys \cup {NoKey}
    /\ pending \subseteq Requests
    /\ savedPairing \in Pairings \cup {NoPairing}
    /\ savedKey \in Keys \cup {NoKey}
    /\ savedMe \in Keys \cup {NoKey}
    /\ savedBy \in {"nobody", "pair", "unwrap", "message"}
    /\ reader \in [Readers -> ReaderStates]
    /\ request \in [Requests -> RequestStates]
    /\ notices \subseteq Pairings
    /\ sent \subseteq Outgoing
    /\ retired \subseteq Pairings
    /\ overflowed \subseteq Requests

Init ==
    /\ pairingSecret = NoPairing
    /\ generated = 0
    /\ enclaveKey = [p \in Pairings |-> NoKey]
    /\ outgoingQueue = <<>>
    /\ cachedMe = NoKey
    /\ pending = {}
    /\ savedPairing = NoPairing /\ savedKey = NoKey /\ savedMe = NoKey
    /\ savedBy = "nobody"
    /\ reader = [t \in Readers |-> IdleReader]
    /\ request = [r \in Requests |-> IdleRequest]
    /\ notices = {}
    /\ sent = {}
    /\ retired = {}
    /\ overflowed = {}

-----------------------------------------------------------------------------
(* The conditions and values the steps below turn on.  Each is preceded by *)
(* the form it would have with a plausible bug, which no step uses.        *)

AnyPairing(p) == TRUE

(* ec.pairingSecret.Equals(p)                                              *)
IsCurrent(p) == pairingSecret = p

AnyKey(p) == TRUE

(* UnwrapKeyIfPresent ignores a wrapped key when it already has one.       *)
WaitsForKey(p) == enclaveKey[p] = NoKey

UncappedQueue == TRUE

(* sendMessage appends only below the cap.                                 *)
HasRoom == Len(outgoingQueue) < QueueCap

ForgottenQueue == <<>>

(* What handleCiphertext takes along when it empties the queue.            *)
TakenQueue == outgoingQueue

KeylessCopy(p) == NoKey

(* The key that pairingToPersisted copies.                                 *)
PersistedKey(p) == enclaveKey[p]

-----------------------------------------------------------------------------
(* The persister.                                                          *)

SavePairing(p, k, by) ==
    savedPairing' = p /\ savedKey' = k /\ savedBy' = by

DeletePairing ==
    savedPairing' = NoPairing /\ savedKey' = NoKey /\ savedBy' = "nobody"

DeleteMe == savedMe' = NoKey

-----------------------------------------------------------------------------
(* Pair and Unpair, as the control server calls them.                      *)

(* unpair with sendUnpairRequest: forget the pairing in memory and on disk *)
(* and let a goroutine tell the phone.  The outgoing queue stays.          *)
Unpair ==
    /\ pairingSecret # NoPairing
    /\ pairingSecret' = NoPairing
    /\ cachedMe' = NoKey
    /\ DeleteMe
    /\ DeletePairing
    /\ notices' = notices \cup {pairingSecret}
    /\ retired' = retired \cup {pairingSecret}
    /\ UNCHANGED <<generated, enclaveKey, outgoingQueue, pending, reader,
                   request, sent, overflowed>>

(* generatePairing unpairs only if there is a current pairing (a profile   *)
(* that is cached without one stays cached), then makes and saves the new  *)
(* pairing, which has no key yet, and empties the queue.                   *)
Pair ==
    /\ generated < MaxPairings
    /\ LET dropped == {pairingSecret} \ {NoPairing}
       IN  /\ cachedMe' = IF dropped = {} THEN cachedMe ELSE NoKey
           /\ notices' = notices \cup dropped
           /\ retired' = retired \cup dropped
    /\ DeleteMe
    /\ generated' = generated + 1
    /\ pairingSecret' = generated + 1
    /\ outgoingQueue' = <<>>
    /\ SavePairing(generated + 1, NoKey, "pair")
    /\ UNCHANGED <<enclaveKey, pending, reader, request, sent, overflowed>>

(* The goroutine unpair started: without the phone's key the notice is     *)
(* dropped, since it is sent with queue = false.                           *)
SendUnpairRequest(p) ==
    /\ p \in notices
    /\ notices' = notices \ {p}
    /\ sent' = IF enclaveKey[p] = NoKey THEN sent
               ELSE sent \cup {[msg |-> "unpair", pairing |-> p, key |-> enclaveKey[p]]}
    /\ UNCHANGED <<memory, disk, generated, retired, overflowed, reader, request>>

-----------------------------------------------------------------------------
(* A request: tryRequest is the caller, sendRequestAndReceiveResponses the *)
(* worker.  Without a pairing tryRequest returns ErrNotPaired at once and  *)
(* changes nothing.                                                        *)

TryRequest(r) ==
    /\ request[r].caller = "idle"
    /\ pairingSecret # NoPairing
    /\ request' = [request EXCEPT ![r] =
           [caller |-> "waiting", worker |-> "register", ps |-> pairingSecret,
            me |-> NoKey, alert |-> TRUE]]
    /\ UNCHANGED <<memory, disk, history, reader, notices>>

(* The worker registers the callback ...                                   *)
Register(r) ==
    /\ request[r].worker = "register"
    /\ request' = [request EXCEPT ![r].worker = "encrypt"]
    /\ pending' = pending \cup {r}
    /\ UNCHANGED <<pairingSecret, enclaveKey, outgoingQueue, cachedMe, disk,
                   history, reader, notices>>

(* ... and calls sendMessage, which sends the sealed request or learns     *)
(* that the phone's key has not come yet.  A network error is tolerated:   *)
(* no phone answers such a message.                                        *)
SendMessage(r) ==
    LET p == request[r].ps
        k == enclaveKey[p]
    IN  /\ request[r].worker = "encrypt"
        /\ \/ /\ k = NoKey
              /\ request' = [request EXCEPT ![r].worker = "enqueue"]
              /\ sent' = sent
           \/ /\ k # NoKey
              /\ request' = [request EXCEPT ![r].worker = "polling"]
              /\ sent' = sent \cup {[msg |-> r, pairing |-> p, key |-> k]}
        /\ UNCHANGED <<memory, disk, generated, retired, overflowed, reader, notices>>

(* sendMessage takes ec.Mutex only now, after EncryptMessage failed: the   *)
(* message goes to whatever queue the client has at this moment.           *)
Enqueue(r) ==
    /\ request[r].worker = "enqueue"
    /\ request' = [request EXCEPT ![r].worker = "polling"]
    /\ \/ /\ HasRoom
          /\ outgoingQueue' = Append(outgoingQueue, r)
          /\ overflowed' = overflowed
       \/ /\ ~HasRoom
          /\ outgoingQueue' = outgoingQueue
          /\ overflowed' = overflowed \cup {r}
    /\ UNCHANGED <<pairingSecret, enclaveKey, cachedMe, pending, disk,
                   generated, sent, retired, reader, notices>>

(* The alert timer: the request is pushed again, to the current pairing.   *)
PushAlert(r) ==
    /\ request[r].caller = "waiting"
    /\ request[r].alert
    /\ pairingSecret # NoPairing
    /\ enclaveKey[pairingSecret] # NoKey
    /\ request' = [request EXCEPT ![r].alert = FALSE]
    /\ sent' = sent \cup {[msg |-> r, pairing |-> pairingSecret,
                           key |-> enclaveKey[pairingSecret]]}
    /\ UNCHANGED <<memory, disk, generated, retired, overflowed, reader, notices>>

CallerTimeout(r) ==
    /\ request[r].caller = "waiting"
    /\ request' = [request EXCEPT ![r].caller = "done"]
    /\ UNCHANGED <<memory, disk, history, reader, notices>>

(* The worker leaves its loop, past the deadline or because the callback   *)
(* is gone; a callback still there is sent nil and removed.                *)
GiveUp(r) ==
    /\ request[r].worker = "polling"
    /\ reader[r] = IdleReader
    /\ request' = [request EXCEPT ![r].worker = "done",
           ![r].caller = IF r \in pending /\ @ = "waiting" THEN "done" ELSE @]
    /\ pending' = pending \ {r}
    /\ UNCHANGED <<pairingSecret, enclaveKey, outgoingQueue, cachedMe, disk,
                   history, reader, notices>>

(* RequestMe got a MeResponse: it takes ec.Mutex and stores the profile,   *)
(* without looking at the pairing again.                                   *)
SaveMe(r) ==
    /\ request[r].caller = "saving"
    /\ cachedMe' = request[r].me
    /\ savedMe' = request[r].me
    /\ request' = [request EXCEPT ![r].caller = "done", ![r].me = NoKey]
    /\ UNCHANGED <<pairingSecret, enclaveKey, outgoingQueue, pending, savedPairing,
                   savedKey, savedBy, history, reader, notices>>

-----------------------------------------------------------------------------
(* handleCiphertext, in the Bluetooth goroutine or in a polling worker.    *)

(* What a phone may have sent: its wrapped key once the QR code was shown, *)
(* an unpair command, or a response to a request it received.  The same    *)
(* ciphertext can arrive any number of times, late, or never.              *)
InFlight(c) ==
    /\ c.pairing <= generated
    /\ \/ c.header = "wrappedKey" /\ c.body = "none"
       \/ c.header = "sealed" /\ c.body = "unpair"
       \/ /\ c.header = "sealed"
          /\ [msg |-> c.body, pairing |-> c.pairing, key |-> c.key] \in sent
          /\ c.body \in Requests

(* A worker reads the SQS queue of the pairing its request was made under. *)
CanReceive(t, c) ==
    t # Bluetooth => request[t].worker = "polling" /\ c.pairing = request[t].ps

HandleCiphertext(t, c) ==
    /\ reader[t].pc = "idle"
    /\ InFlight(c)
    /\ CanReceive(t, c)
    /\ pairingSecret # NoPairing
    /\ reader' = [reader EXCEPT ![t] =
           [pc |-> "unwrap", ps |-> pairingSecret, ctxt |-> c, queue |-> <<>>]]
    /\ UNCHANGED <<memory, disk, history, request, notices>>

(* UnwrapKeyIfPresent and DecryptMessage on the pairing read above.  A key *)
(* wrapped for another pairing does not unwrap, a message sealed by or for *)
(* somebody else does not open, and both are dropped.                      *)
Unwrap(t) ==
    LET c == reader[t].ctxt
        p == reader[t].ps
        accepts == c.header = "wrappedKey" /\ WaitsForKey(p) /\ c.pairing = p
        opens   == c.header = "sealed" /\ c.pairing = p /\ c.key = enclaveKey[p]
    IN  /\ reader[t].pc = "unwrap"
        /\ \/ /\ accepts
              /\ enclaveKey' = [enclaveKey EXCEPT ![p] = c.key]
              /\ reader' = [reader EXCEPT ![t].pc = "flush", ![t].ctxt = NoMessage]
           \/ /\ opens
              /\ enclaveKey' = enclaveKey
              /\ reader' = [reader EXCEPT ![t].pc = "handle"]
           \/ /\ ~accepts /\ ~opens
              /\ enclaveKey' = enclaveKey
              /\ reader' = [reader EXCEPT ![t] = IdleReader]
        /\ UNCHANGED <<pairingSecret, outgoingQueue, cachedMe, pending, disk,
                       history, request, notices>>

(* After a key was unwrapped: take the client's queue under ec.Mutex ...   *)
Flush(t) ==
    /\ reader[t].pc = "flush"
    /\ reader' = [reader EXCEPT ![t].pc = "save", ![t].queue = TakenQueue]
    /\ outgoingQueue' = <<>>
    /\ UNCHANGED <<pairingSecret, enclaveKey, cachedMe, pending, disk, history,
                   request, notices>>

(* ... save the pairing that was read at the start, with no lock held ...  *)
SaveUnwrapped(t) ==
    /\ reader[t].pc = "save"
    /\ SavePairing(reader[t].ps, PersistedKey(reader[t].ps), "unwrap")
    /\ reader' = [reader EXCEPT ![t].pc = "resend"]
    /\ UNCHANGED <<memory, savedMe, history, request, notices>>

(* ... and send what was queued to the phone of that pairing.              *)
Resend(t) ==
    LET p == reader[t].ps
        q == reader[t].queue
    IN  /\ reader[t].pc = "resend"
        /\ sent' = sent \cup {[msg |-> q[i], pairing |-> p, key |-> enclaveKey[p]] :
                                 i \in 1..Len(q)}
        /\ reader' = [reader EXCEPT ![t] = IdleReader]
        /\ UNCHANGED <<memory, disk, generated, retired, overflowed, request, notices>>

(* handleMessage with an UnpairResponse: unpair is a no-op unless the      *)
(* message is from the current pairing, but every pending callback is      *)
(* cancelled either way.                                                   *)
HandleUnpair(t) ==
    /\ reader[t].pc = "handle"
    /\ reader[t].ctxt.body = "unpair"
    /\ \/ /\ IsCurrent(reader[t].ps)
          /\ pairingSecret' = NoPairing
          /\ cachedMe' = NoKey
          /\ DeleteMe
          /\ DeletePairing
          /\ retired' = retired \cup {reader[t].ps}
       \/ /\ ~IsCurrent(reader[t].ps)
          /\ UNCHANGED <<pairingSecret, cachedMe, disk, retired>>
    /\ pending' = {}
    /\ request' = [r \in Requests |->
           IF r \in pending /\ request[r].caller = "waiting"
           THEN [request[r] EXCEPT !.caller = "done"] ELSE request[r]]
    /\ reader' = [reader EXCEPT ![t] = IdleReader]
    /\ UNCHANGED <<enclaveKey, outgoingQueue, generated, sent, overflowed, notices>>

(* handleMessage with any other response.  One that brings an SNS endpoint *)
(* or a tracking ID saves the pairing again, if it still is the current    *)
(* one.  The callback gets the response and is removed.                    *)
HandleResponse(t, updates) ==
    LET r == reader[t].ctxt.body
        p == reader[t].ps
        delivered == r \in pending /\ request[r].caller = "waiting"
    IN  /\ reader[t].pc = "handle"
        /\ r \in Requests
        /\ IF updates /\ IsCurrent(p)
           THEN SavePairing(p, PersistedKey(p), "message")
           ELSE UNCHANGED <<savedPairing, savedKey, savedBy>>
        /\ pending' = pending \ {r}
        /\ request' = IF delivered
                      THEN [request EXCEPT
                              ![r].caller = IF r \in MeRequests THEN "saving" ELSE "done",
                              ![r].me = IF r \in MeRequests THEN reader[t].ctxt.key ELSE NoKey]
                      ELSE request
        /\ reader' = [reader EXCEPT ![t] = IdleReader]
        /\ UNCHANGED <<pairingSecret, enclaveKey, outgoingQueue, cachedMe, savedMe,
                       history, notices>>

-----------------------------------------------------------------------------
(* The daemon stops and is started again.  Start loads pairing and profile *)
(* independently of each other; every goroutine and queue is gone.         *)

Start(p, k, me) ==
    /\ savedPairing' = p /\ savedKey' = k /\ savedMe' = me /\ savedBy' = savedBy
    /\ pairingSecret' = p
    /\ enclaveKey' = [q \in Pairings |-> IF q = p THEN k ELSE NoKey]
    /\ cachedMe' = me
    /\ outgoingQueue' = <<>>
    /\ pending' = {}
    /\ reader' = [t \in Readers |-> IdleReader]
    /\ request' = [r \in Requests |->
           IF request[r].caller = "idle" THEN request[r]
           ELSE [IdleRequest EXCEPT !.caller = "done", !.worker = "done",
                                    !.ps = request[r].ps]]
    /\ notices' = {}
    /\ UNCHANGED history

Restart == Start(savedPairing, savedKey, savedMe)

(* A crash inside Pair or Unpair, which remove "me", then pairing.json.    *)
CrashWhileClearing(removed) ==
    /\ pairingSecret # NoPairing \/ generated < MaxPairings
    /\ IF removed THEN Start(NoPairing, NoKey, NoKey)
                  ELSE Start(savedPairing, savedKey, NoKey)

(* A crash inside SavePairing: WriteFile truncates pairing.json first, and *)
(* LoadPairing cannot parse what is left.                                  *)
CrashWhileSaving(t) ==
    /\ \/ reader[t].pc = "save"
       \/ /\ reader[t].pc = "handle"
          /\ reader[t].ctxt.body \in Requests
          /\ IsCurrent(reader[t].ps)
    /\ Start(NoPairing, NoKey, savedMe)

(* A crash inside SaveMe loses the profile in the same way.                *)
CrashWhileSavingMe(r) ==
    /\ request[r].caller = "saving"
    /\ Start(savedPairing, savedKey, NoKey)

-----------------------------------------------------------------------------
RequestStep(r) ==
    \/ TryRequest(r) \/ Register(r) \/ SendMessage(r) \/ Enqueue(r)
    \/ PushAlert(r) \/ CallerTimeout(r) \/ GiveUp(r) \/ SaveMe(r)

ReaderStep(t) ==
    \/ Unwrap(t) \/ Flush(t) \/ SaveUnwrapped(t) \/ Resend(t) \/ HandleUnpair(t)
    \/ \E updates \in BOOLEAN : HandleResponse(t, updates)

Crash ==
    \/ Restart
    \/ \E removed \in BOOLEAN : CrashWhileClearing(removed)
    \/ \E t \in Readers : CrashWhileSaving(t)
    \/ \E r \in Requests : CrashWhileSavingMe(r)

(* Everything that happens while the daemon keeps running.                 *)
Running ==
    \/ Pair
    \/ Unpair
    \/ \E p \in Pairings : SendUnpairRequest(p)
    \/ \E r \in Requests : RequestStep(r)
    \/ \E t \in Readers, c \in Ciphertexts : HandleCiphertext(t, c)
    \/ \E t \in Readers : ReaderStep(t)

Next == Running \/ Crash

Spec == Init /\ [][Next]_vars

(* The daemon never stops.                                                 *)
RunningSpec == Init /\ [][Running]_vars

(* A goroutine that is inside handleCiphertext is scheduled again: the     *)
(* critical sections modelled here are short and end by themselves.        *)
Fairness == \A t \in Readers : WF_vars(ReaderStep(t))

FairSpec == Spec /\ Fairness

-----------------------------------------------------------------------------
(* What the properties rest on.                                            *)

(* A reader at work holds a pairing that exists, and past UnwrapKeyIfPresent *)
(* one that has its key; it holds queued messages only between the flush   *)
(* and the end.                                                            *)
ReaderOK ==
    \A t \in Readers :
        /\ reader[t].pc # "idle" => reader[t].ps \in 1..generated
        /\ reader[t].pc \in {"unwrap", "handle"} => reader[t].ctxt \in Ciphertexts
        /\ reader[t].pc \in {"flush", "save", "resend", "handle"} =>
              enclaveKey[reader[t].ps] # NoKey
        /\ reader[t].pc \notin {"save", "resend"} => reader[t].queue = <<>>

(* A worker at work serves a request made under a pairing that exists, and *)
(* there is no worker before tryRequest was called.                        *)
RequestOK ==
    \A r \in Requests :
        /\ request[r].worker \notin {"idle", "done"} => request[r].ps \in 1..generated
        /\ request[r].caller = "idle" => request[r].worker = "idle"

(* A pairing that was not generated yet is nowhere and has no key.         *)
FreshOK ==
    /\ pairingSecret <= generated
    /\ savedPairing <= generated
    /\ \A p \in Pairings : p > generated => enclaveKey[p] = NoKey

Inv == TypeOK /\ ReaderOK /\ RequestOK /\ FreshOK

-----------------------------------------------------------------------------
(* Properties.                                                             *)

(* pairing.json may hold another pairing than the current one only if the  *)
(* last writer was handleCiphertext after unwrapping a key, which saves    *)
(* without ec.Mutex (enclave_client.go:611).  Pair, Unpair, the unpair     *)
(* command and the saves of handleMessage never leave a stale file, and a  *)
(* crash in the middle of any of them does not either.                     *)
OnlyUnwrapSaveIsStale ==
    savedPairing \notin {NoPairing, pairingSecret} => savedBy = "unwrap"

(* The copy of a pairing on disk lags behind the one in memory only while  *)
(* the goroutine that unwrapped its key is between UnwrapKeyIfPresent and  *)
(* SavePairing; then it lacks the key, and it never holds another key.     *)
KeyLossWindow ==
    savedPairing # NoPairing /\ savedKey # enclaveKey[savedPairing] =>
        /\ savedKey = NoKey
        /\ \E t \in Readers : /\ reader[t].ps = savedPairing
                              /\ reader[t].pc \in {"flush", "save"}

(* Where a request can be once its worker has called sendMessage.          *)
Accounted(r) ==
    \/ r \in overflowed
    \/ \E m \in sent : m.msg = r
    \/ \E i \in 1..Len(outgoingQueue) : outgoingQueue[i] = r
    \/ \E t \in Readers : \E i \in 1..Len(reader[t].queue) : reader[t].queue[i] = r

(* A request made under the current pairing whose worker is polling for    *)
(* the answer was handed to the transport, or waits in the queue, or is in *)
(* the hands of a goroutine that flushed the queue: only the cap of the    *)
(* queue loses a request.                                                  *)
RequestNeverVanishes ==
    \A r \in Requests :
        request[r].worker = "polling" /\ request[r].ps = pairingSecret => Accounted(r)

(* The first phone whose key is unwrapped keeps the pairing, whatever      *)
(* other wrapped keys arrive.  Only a restart can lose the key, and not    *)
(* one that was saved for the pairing that the restart brings back.        *)
FirstKeyWins ==
    [][\A p \in Pairings : enclaveKey[p] # NoKey =>
          \/ enclaveKey'[p] = enclaveKey[p]
          \/ /\ enclaveKey'[p] = NoKey
             /\ pairingSecret' # p \/ savedPairing # p \/ savedKey = NoKey]_vars

(* The window of KeyLossWindow closes by itself: the key of the current    *)
(* pairing reaches the disk unless the pairing or the file is replaced.    *)
KeyLossWindowCloses ==
    \A p \in Pairings :
        (pairingSecret = p /\ savedPairing = p /\ savedKey # enclaveKey[p])
            ~> (pairingSecret # p \/ savedPairing # p \/ savedKey = enclaveKey[p])

(* A pairing that Pair or Unpair gave up is never current again            *)
(* (control_server.go:113, "initiate new pairing (clearing any existing)").*)
RetiredStaysRetired == pairingSecret \notin retired

(* Without a pairing there is no profile to show: the test of the control  *)
(* server says of a profile request "expected 404, not paired"             *)
(* (krd/control_server_test.go:138), and unpair clears the cached profile. *)
UnpairedHasNoProfile == pairingSecret = NoPairing => cachedMe = NoKey
=============================================================================
