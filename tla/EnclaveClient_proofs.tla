------------------------ MODULE EnclaveClient_proofs ------------------------
(***************************************************************************)
(* Proofs about the pairing life cycle, for any number of pairings,        *)
(* phones, requests and any queue capacity.                                *)
(***************************************************************************)
EXTENDS EnclaveClient, TLAPS

(* The pairings are natural numbers, and none of them is NoPairing.        *)
LEMMA PairingFacts ==
  /\ NoPairing \notin Pairings
  /\ \A p \in Pairings : p \in Nat /\ p > 0 /\ p <= MaxPairings
  /\ \A n \in Nat : n < MaxPairings => n + 1 \in Pairings
BY PairingsAssumption DEF Pairings, NoPairing

(* A goroutine that does nothing is in a legal state.                      *)
LEMMA IdleStates == IdleReader \in ReaderStates /\ IdleRequest \in RequestStates
BY DEF IdleReader, IdleRequest, ReaderStates, RequestStates

(* One request changes, to a legal state whose worker, when it is at work, *)
(* serves a generated pairing: then all requests are still in order.       *)
LEMMA RequestFrame ==
  ASSUME Inv, NEW r \in Requests, NEW x \in RequestStates,
         request' = [request EXCEPT ![r] = x],
         generated' = generated,
         x.worker \notin {"idle", "done"} => x.ps \in 1..generated,
         x.caller = "idle" => x.worker = "idle"
  PROVE  request' \in [Requests -> RequestStates] /\ RequestOK'
<1>1. request \in [Requests -> RequestStates]
  BY DEF Inv, TypeOK
<1>2. request' \in [Requests -> RequestStates]
  BY <1>1
<1>3. \A u \in Requests : request'[u] = IF u = r THEN x ELSE request[u]
  BY <1>1
<1>4. RequestOK'
  BY <1>3 DEF Inv, RequestOK
<1> QED BY <1>2, <1>4

(* The same for one reader, when no key in memory is lost.                 *)
LEMMA ReaderFrame ==
  ASSUME Inv, NEW t \in Readers, NEW x \in ReaderStates,
         reader' = [reader EXCEPT ![t] = x],
         generated' = generated,
         \A p \in Pairings : enclaveKey[p] # NoKey => enclaveKey'[p] # NoKey,
         x.pc # "idle" => x.ps \in 1..generated,
         x.pc \in {"unwrap", "handle"} => x.ctxt \in Ciphertexts,
         x.pc \in {"flush", "save", "resend", "handle"} => enclaveKey'[x.ps] # NoKey,
         x.pc \notin {"save", "resend"} => x.queue = <<>>
  PROVE  reader' \in [Readers -> ReaderStates] /\ ReaderOK'
<1>1. reader \in [Readers -> ReaderStates]
  BY DEF Inv, TypeOK
<1>2. reader' \in [Readers -> ReaderStates]
  BY <1>1
<1>3. \A u \in Readers : reader'[u] = IF u = t THEN x ELSE reader[u]
  BY <1>1
<1>4. 1..generated \subseteq Pairings
  BY PairingsAssumption DEF Inv, TypeOK, Pairings
<1>5. ReaderOK'
  BY <1>3, <1>4 DEF Inv, ReaderOK
<1> QED BY <1>2, <1>5

(* The initial state satisfies the structural invariant.                   *)
LEMMA InvInit == Init => Inv
<1> SUFFICES ASSUME Init PROVE Inv
  OBVIOUS
<1>1. TypeOK
  BY PairingFacts, QueueAssumption, IdleStates DEF Init, TypeOK, NoPairing
<1>2. ReaderOK
  BY DEF Init, ReaderOK, IdleReader
<1>3. RequestOK
  BY DEF Init, RequestOK, IdleRequest
<1>4. FreshOK
  BY DEF Init, FreshOK, NoPairing
<1> QED BY <1>1, <1>2, <1>3, <1>4 DEF Inv

(* Pair installs a pairing that nothing refers to yet.                     *)
LEMMA InvPair == Inv /\ Pair => Inv'
<1> SUFFICES ASSUME Inv, Pair PROVE Inv'
  OBVIOUS
<1> USE PairingFacts DEF Inv, Pair, SavePairing, DeleteMe
<1>1. generated \in Pairings \cup {0}
  BY DEF TypeOK
<1>2. generated \in Nat
  BY <1>1
<1>3. generated + 1 \in Pairings
  BY <1>2
<1>4. {pairingSecret} \ {NoPairing} \subseteq Pairings
  BY DEF TypeOK
<1>5. notices' \subseteq Pairings /\ retired' \subseteq Pairings
  BY <1>4 DEF TypeOK
<1>6. outgoingQueue' \in Seq(Requests) /\ Len(outgoingQueue') <= QueueCap
  BY QueueAssumption
<1>7. cachedMe' \in Keys \cup {NoKey}
  BY DEF TypeOK
<1>8. TypeOK'
  BY <1>3, <1>5, <1>6, <1>7 DEF TypeOK
<1>9. ReaderOK'
  BY <1>2 DEF ReaderOK, TypeOK
<1>10. RequestOK'
  BY <1>2 DEF RequestOK, TypeOK
<1>11. FreshOK'
  BY <1>2 DEF FreshOK, TypeOK
<1> QED BY <1>8, <1>9, <1>10, <1>11

(* Unpair and the unpair command only forget.                              *)
LEMMA InvUnpair == Inv /\ Unpair => Inv'
<1> SUFFICES ASSUME Inv, Unpair PROVE Inv'
  OBVIOUS
<1> USE PairingFacts DEF Inv, Unpair, DeletePairing, DeleteMe
<1>1. TypeOK'
  BY DEF TypeOK, NoPairing
<1>2. ReaderOK' /\ RequestOK'
  BY DEF ReaderOK, RequestOK
<1>3. FreshOK'
  BY DEF FreshOK, TypeOK, NoPairing
<1> QED BY <1>1, <1>2, <1>3

LEMMA InvSendUnpairRequest ==
  ASSUME NEW p \in Pairings, Inv, SendUnpairRequest(p)
  PROVE  Inv'
<1> USE DEF Inv, SendUnpairRequest, memory, disk
<1>1. sent' \subseteq Outgoing
  BY DEF TypeOK, Outgoing
<1>2. TypeOK'
  BY <1>1 DEF TypeOK
<1>3. ReaderOK' /\ RequestOK' /\ FreshOK'
  BY DEF ReaderOK, RequestOK, FreshOK
<1> QED BY <1>2, <1>3

(* The steps of a caller and its worker.                                   *)
LEMMA InvTryRequest ==
  ASSUME NEW r \in Requests, Inv, TryRequest(r)
  PROVE  Inv'
<1> USE PairingFacts DEF Inv, TryRequest, memory, disk, history
<1> DEFINE x == [caller |-> "waiting", worker |-> "register", ps |-> pairingSecret,
                 me |-> NoKey, alert |-> TRUE]
<1>1. pairingSecret \in 1..generated
  BY DEF TypeOK, FreshOK, NoPairing
<1>2. x \in RequestStates
  BY DEF TypeOK, RequestStates
<1>3. request' \in [Requests -> RequestStates] /\ RequestOK'
  BY <1>1, <1>2, RequestFrame
<1>4. TypeOK'
  BY <1>3 DEF TypeOK
<1>5. ReaderOK' /\ FreshOK'
  BY DEF ReaderOK, FreshOK
<1> QED BY <1>3, <1>4, <1>5

LEMMA InvRegister ==
  ASSUME NEW r \in Requests, Inv, Register(r)
  PROVE  Inv'
<1> USE DEF Inv
<1> DEFINE x == [request[r] EXCEPT !.worker = "encrypt"]
<1>1. request[r] \in RequestStates
  BY DEF TypeOK
<1>2. x \in RequestStates /\ x.ps = request[r].ps /\ x.caller = request[r].caller
  BY <1>1 DEF RequestStates
<1>3. request' = [request EXCEPT ![r] = x] /\ generated' = generated
  BY DEF Register, history
<1>4. request[r].ps \in 1..generated /\ request[r].caller # "idle"
  BY DEF Register, RequestOK
<1> HIDE DEF x
<1>5. request' \in [Requests -> RequestStates] /\ RequestOK'
  BY <1>2, <1>3, <1>4, RequestFrame
<1>6. TypeOK'
  BY <1>5 DEF Register, TypeOK, disk, history
<1>7. ReaderOK' /\ FreshOK'
  BY DEF Register, ReaderOK, FreshOK, disk, history
<1> QED BY <1>5, <1>6, <1>7

LEMMA InvSendMessage ==
  ASSUME NEW r \in Requests, Inv, SendMessage(r)
  PROVE  Inv'
<1> USE PairingFacts DEF Inv
<1>1. request[r] \in RequestStates
  BY DEF TypeOK
<1>2. request[r].ps \in 1..generated /\ request[r].caller # "idle"
  BY DEF SendMessage, RequestOK
<1>3. request[r].ps \in Pairings
  BY <1>2, PairingsAssumption DEF TypeOK, Pairings
<1>4. sent' \subseteq Outgoing
  BY <1>3 DEF SendMessage, TypeOK, Outgoing
<1>5. request' \in [Requests -> RequestStates] /\ RequestOK'
  <2> DEFINE x(w) == [request[r] EXCEPT !.worker = w]
  <2>1. PICK w \in {"enqueue", "polling"} : request' = [request EXCEPT ![r].worker = w]
    BY DEF SendMessage
  <2>2. /\ x(w) \in RequestStates
        /\ x(w).ps = request[r].ps /\ x(w).caller = request[r].caller
    BY <1>1 DEF RequestStates
  <2>3. request' = [request EXCEPT ![r] = x(w)]
    BY <2>1
  <2>4. generated' = generated
    BY DEF SendMessage
  <2> HIDE DEF x
  <2> QED BY <1>2, <2>2, <2>3, <2>4, RequestFrame
<1>6. TypeOK'
  BY <1>4, <1>5 DEF SendMessage, TypeOK, disk, memory
<1>7. ReaderOK' /\ FreshOK'
  BY DEF SendMessage, ReaderOK, FreshOK, disk, memory
<1> QED BY <1>5, <1>6, <1>7

LEMMA InvEnqueue ==
  ASSUME NEW r \in Requests, Inv, Enqueue(r)
  PROVE  Inv'
<1> USE DEF Inv
<1> DEFINE x == [request[r] EXCEPT !.worker = "polling"]
<1>1. request[r] \in RequestStates
  BY DEF TypeOK
<1>2. x \in RequestStates /\ x.ps = request[r].ps /\ x.caller = request[r].caller
  BY <1>1 DEF RequestStates
<1>3. request' = [request EXCEPT ![r] = x] /\ generated' = generated
  BY DEF Enqueue
<1>4. request[r].ps \in 1..generated /\ request[r].caller # "idle"
  BY DEF Enqueue, RequestOK
<1> HIDE DEF x
<1>5. request' \in [Requests -> RequestStates] /\ RequestOK'
  BY <1>2, <1>3, <1>4, RequestFrame
<1>6. outgoingQueue' \in Seq(Requests) /\ Len(outgoingQueue') <= QueueCap
  BY QueueAssumption DEF Enqueue, TypeOK, HasRoom
<1>7. TypeOK'
  BY <1>5, <1>6 DEF Enqueue, TypeOK, disk
<1>8. ReaderOK' /\ FreshOK'
  BY DEF Enqueue, ReaderOK, FreshOK, disk
<1> QED BY <1>5, <1>7, <1>8

LEMMA InvPushAlert ==
  ASSUME NEW r \in Requests, Inv, PushAlert(r)
  PROVE  Inv'
<1> USE DEF Inv
<1> DEFINE x == [request[r] EXCEPT !.alert = FALSE]
<1>1. request[r] \in RequestStates
  BY DEF TypeOK
<1>2. /\ x \in RequestStates /\ x.ps = request[r].ps
      /\ x.worker = request[r].worker /\ x.caller = request[r].caller
  BY <1>1 DEF RequestStates
<1>3. request' = [request EXCEPT ![r] = x] /\ generated' = generated
  BY DEF PushAlert
<1>4. /\ x.worker \notin {"idle", "done"} => x.ps \in 1..generated
      /\ x.caller = "idle" => x.worker = "idle"
  BY <1>2 DEF RequestOK
<1> HIDE DEF x
<1>5. request' \in [Requests -> RequestStates] /\ RequestOK'
  BY <1>2, <1>3, <1>4, RequestFrame
<1>6. sent' \subseteq Outgoing
  BY DEF PushAlert, TypeOK, Outgoing
<1>7. TypeOK'
  BY <1>5, <1>6 DEF PushAlert, TypeOK, disk, memory
<1>8. ReaderOK' /\ FreshOK'
  BY DEF PushAlert, ReaderOK, FreshOK, disk, memory
<1> QED BY <1>5, <1>7, <1>8

LEMMA InvCallerTimeout ==
  ASSUME NEW r \in Requests, Inv, CallerTimeout(r)
  PROVE  Inv'
<1> USE DEF Inv
<1> DEFINE x == [request[r] EXCEPT !.caller = "done"]
<1>1. request[r] \in RequestStates
  BY DEF TypeOK
<1>2. /\ x \in RequestStates /\ x.ps = request[r].ps
      /\ x.worker = request[r].worker /\ x.caller = "done"
  BY <1>1 DEF RequestStates
<1>3. request' = [request EXCEPT ![r] = x] /\ generated' = generated
  BY DEF CallerTimeout, history
<1>4. x.worker \notin {"idle", "done"} => x.ps \in 1..generated
  BY <1>2 DEF RequestOK
<1> HIDE DEF x
<1>5. request' \in [Requests -> RequestStates] /\ RequestOK'
  BY <1>2, <1>3, <1>4, RequestFrame
<1>6. TypeOK'
  BY <1>5 DEF CallerTimeout, TypeOK, disk, memory, history
<1>7. ReaderOK' /\ FreshOK'
  BY DEF CallerTimeout, ReaderOK, FreshOK, disk, memory, history
<1> QED BY <1>5, <1>6, <1>7

LEMMA InvGiveUp ==
  ASSUME NEW r \in Requests, Inv, GiveUp(r)
  PROVE  Inv'
<1> USE DEF Inv
<1> DEFINE x == [[request[r] EXCEPT !.worker = "done"] EXCEPT
                    !.caller = IF r \in pending /\ @ = "waiting" THEN "done" ELSE @]
<1>1. request[r] \in RequestStates
  BY DEF TypeOK
<1>2. /\ x \in RequestStates /\ x.worker = "done"
      /\ x.caller = "idle" => request[r].caller = "idle"
  BY <1>1 DEF RequestStates
<1>3. request' = [request EXCEPT ![r] = x] /\ generated' = generated
  BY DEF GiveUp, history
<1>4. request[r].caller # "idle"
  BY DEF GiveUp, RequestOK
<1> HIDE DEF x
<1>5. request' \in [Requests -> RequestStates] /\ RequestOK'
  BY <1>2, <1>3, <1>4, RequestFrame
<1>6. TypeOK'
  BY <1>5 DEF GiveUp, TypeOK, disk, history
<1>7. ReaderOK' /\ FreshOK'
  BY DEF GiveUp, ReaderOK, FreshOK, disk, history
<1> QED BY <1>5, <1>6, <1>7

LEMMA InvSaveMe ==
  ASSUME NEW r \in Requests, Inv, SaveMe(r)
  PROVE  Inv'
<1> USE DEF Inv
<1> DEFINE x == [[request[r] EXCEPT !.caller = "done"] EXCEPT !.me = NoKey]
<1>1. request[r] \in RequestStates
  BY DEF TypeOK
<1>2. /\ x \in RequestStates /\ x.ps = request[r].ps
      /\ x.worker = request[r].worker /\ x.caller = "done"
      /\ request[r].me \in Keys \cup {NoKey}
  BY <1>1 DEF RequestStates
<1>3. request' = [request EXCEPT ![r] = x] /\ generated' = generated
  BY DEF SaveMe, history
<1>4. x.worker \notin {"idle", "done"} => x.ps \in 1..generated
  BY <1>2 DEF RequestOK
<1> HIDE DEF x
<1>5. request' \in [Requests -> RequestStates] /\ RequestOK'
  BY <1>2, <1>3, <1>4, RequestFrame
<1>6. TypeOK'
  BY <1>2, <1>5 DEF SaveMe, TypeOK, history
<1>7. ReaderOK' /\ FreshOK'
  BY DEF SaveMe, ReaderOK, FreshOK, history
<1> QED BY <1>5, <1>6, <1>7

(* The steps of handleCiphertext.  A reader past its first step holds a    *)
(* generated pairing, so that its key is a key of enclaveKey's domain.     *)
LEMMA ReaderAtWork ==
  ASSUME Inv, NEW t \in Readers, reader[t].pc # "idle"
  PROVE  /\ reader[t] \in ReaderStates
         /\ reader[t].ps \in 1..generated
         /\ reader[t].ps \in Pairings
         /\ reader[t].pc \in {"unwrap", "handle"} => reader[t].ctxt \in Ciphertexts
<1>1. reader[t] \in ReaderStates
  BY DEF Inv, TypeOK
<1>2. reader[t].ps \in 1..generated
  BY DEF Inv, ReaderOK
<1>3. reader[t].ps \in Pairings
  BY <1>2, PairingsAssumption DEF Inv, TypeOK, Pairings
<1> QED BY <1>1, <1>2, <1>3 DEF Inv, ReaderOK

LEMMA InvHandleCiphertext ==
  ASSUME NEW t \in Readers, NEW c \in Ciphertexts, Inv, HandleCiphertext(t, c)
  PROVE  Inv'
<1> USE DEF Inv
<1> DEFINE x == [pc |-> "unwrap", ps |-> pairingSecret, ctxt |-> c, queue |-> <<>>]
<1>1. pairingSecret \in 1..generated
  BY PairingFacts DEF HandleCiphertext, TypeOK, FreshOK, NoPairing
<1>2. x \in ReaderStates
  BY DEF TypeOK, ReaderStates
<1>3. reader' = [reader EXCEPT ![t] = x] /\ generated' = generated /\ enclaveKey' = enclaveKey
  BY DEF HandleCiphertext, history, memory
<1>4. reader' \in [Readers -> ReaderStates] /\ ReaderOK'
  BY <1>1, <1>2, <1>3, ReaderFrame
<1>5. TypeOK'
  BY <1>4 DEF HandleCiphertext, TypeOK, disk, memory, history
<1>6. RequestOK' /\ FreshOK'
  BY DEF HandleCiphertext, RequestOK, FreshOK, disk, memory, history
<1> QED BY <1>4, <1>5, <1>6

(* Unwrapping only ever adds the key of a generated pairing.               *)
LEMMA UnwrapKeys ==
  ASSUME NEW t \in Readers, Inv, Unwrap(t)
  PROVE  /\ enclaveKey' \in [Pairings -> Keys \cup {NoKey}]
         /\ \A p \in Pairings : enclaveKey[p] # NoKey => enclaveKey'[p] = enclaveKey[p]
         /\ \A p \in Pairings : p > generated => enclaveKey'[p] = enclaveKey[p]
         /\ reader'[t].pc \in {"flush", "handle"} => enclaveKey'[reader[t].ps] # NoKey
<1>1. /\ reader[t].ctxt \in Ciphertexts
      /\ reader[t].ps \in Pairings /\ reader[t].ps \in 1..generated
  BY ReaderAtWork DEF Unwrap
<1>2. reader[t].ctxt.key \in Keys
  BY <1>1 DEF Ciphertexts
<1>3. /\ enclaveKey \in [Pairings -> Keys \cup {NoKey}]
      /\ reader \in [Readers -> ReaderStates]
      /\ generated \in Nat
  BY PairingFacts DEF Inv, TypeOK
<1>4. CASE /\ WaitsForKey(reader[t].ps)
           /\ enclaveKey' = [enclaveKey EXCEPT ![reader[t].ps] = reader[t].ctxt.key]
  BY <1>1, <1>2, <1>3, <1>4, KeyAssumption, PairingFacts DEF WaitsForKey
<1>5. CASE /\ enclaveKey' = enclaveKey
           /\ reader[t].ctxt.key = enclaveKey[reader[t].ps]
  BY <1>1, <1>2, <1>3, <1>5, KeyAssumption
<1>6. CASE enclaveKey' = enclaveKey /\ reader' = [reader EXCEPT ![t] = IdleReader]
  BY <1>1, <1>3, <1>6 DEF IdleReader
<1> QED BY <1>4, <1>5, <1>6 DEF Unwrap

LEMMA InvUnwrap ==
  ASSUME NEW t \in Readers, Inv, Unwrap(t)
  PROVE  Inv'
<1> USE DEF Inv
<1>1. /\ reader[t] \in ReaderStates /\ reader[t].ps \in 1..generated
      /\ reader[t].ctxt \in Ciphertexts /\ reader[t].pc = "unwrap"
      /\ reader[t].queue = <<>>
  BY ReaderAtWork DEF Unwrap, ReaderOK
<1>2. generated' = generated
  BY DEF Unwrap, history
<1>3. PICK x \in ReaderStates :
          /\ reader' = [reader EXCEPT ![t] = x]
          /\ x.pc \in {"idle", "flush", "handle"}
          /\ x.pc # "idle" => x.ps = reader[t].ps
          /\ x.pc = "handle" => x.ctxt \in Ciphertexts
          /\ x.queue = <<>>
  <2> DEFINE a == [[reader[t] EXCEPT !.pc = "flush"] EXCEPT !.ctxt = NoMessage]
             b == [reader[t] EXCEPT !.pc = "handle"]
  <2>1. /\ a \in ReaderStates /\ a.pc = "flush" /\ a.ps = reader[t].ps
        /\ a.queue = <<>>
    BY <1>1 DEF ReaderStates
  <2>2. /\ b \in ReaderStates /\ b.pc = "handle" /\ b.ps = reader[t].ps
        /\ b.queue = <<>> /\ b.ctxt \in Ciphertexts
    BY <1>1 DEF ReaderStates
  <2>3. IdleReader.pc = "idle" /\ IdleReader.queue = <<>>
    BY DEF IdleReader
  <2>4. reader' \in {[reader EXCEPT ![t] = a], [reader EXCEPT ![t] = b],
                     [reader EXCEPT ![t] = IdleReader]}
    BY DEF Unwrap
  <2> HIDE DEF a, b
  <2> QED BY <2>1, <2>2, <2>3, <2>4, IdleStates
<1>4. reader'[t] = x
  BY <1>3 DEF TypeOK
<1>5. reader' \in [Readers -> ReaderStates] /\ ReaderOK'
  BY <1>1, <1>2, <1>3, <1>4, UnwrapKeys, ReaderFrame, PairingFacts
<1>6. TypeOK'
  BY <1>5, UnwrapKeys DEF Unwrap, TypeOK, disk, history
<1>7. RequestOK'
  BY DEF Unwrap, RequestOK, history
<1>8. FreshOK'
  BY UnwrapKeys DEF Unwrap, FreshOK, history, disk
<1> QED BY <1>5, <1>6, <1>7, <1>8

LEMMA InvFlush ==
  ASSUME NEW t \in Readers, Inv, Flush(t)
  PROVE  Inv'
<1> USE DEF Inv
<1> DEFINE x == [[reader[t] EXCEPT !.pc = "save"] EXCEPT !.queue = TakenQueue]
<1>1. /\ reader[t] \in ReaderStates /\ reader[t].ps \in 1..generated
      /\ enclaveKey[reader[t].ps] # NoKey
  BY ReaderAtWork DEF Flush, ReaderOK
<1>2. x \in ReaderStates /\ x.ps = reader[t].ps /\ x.pc = "save"
  BY <1>1 DEF ReaderStates, TypeOK, TakenQueue
<1>3. reader' = [reader EXCEPT ![t] = x] /\ generated' = generated /\ enclaveKey' = enclaveKey
  BY DEF Flush, history
<1> HIDE DEF x
<1>4. reader' \in [Readers -> ReaderStates] /\ ReaderOK'
  BY <1>1, <1>2, <1>3, ReaderFrame
<1>5. outgoingQueue' \in Seq(Requests) /\ Len(outgoingQueue') <= QueueCap
  BY QueueAssumption DEF Flush
<1>6. TypeOK'
  BY <1>4, <1>5 DEF Flush, TypeOK, disk, history
<1>7. RequestOK' /\ FreshOK'
  BY DEF Flush, RequestOK, FreshOK, disk, history
<1> QED BY <1>4, <1>6, <1>7

LEMMA InvSaveUnwrapped ==
  ASSUME NEW t \in Readers, Inv, SaveUnwrapped(t)
  PROVE  Inv'
<1> USE DEF Inv
<1> DEFINE x == [reader[t] EXCEPT !.pc = "resend"]
<1>1. /\ reader[t] \in ReaderStates /\ reader[t].ps \in 1..generated
      /\ reader[t].ps \in Pairings /\ enclaveKey[reader[t].ps] # NoKey
  BY ReaderAtWork DEF SaveUnwrapped, ReaderOK
<1>2. x \in ReaderStates /\ x.ps = reader[t].ps /\ x.pc = "resend"
  BY <1>1 DEF ReaderStates
<1>3. reader' = [reader EXCEPT ![t] = x] /\ generated' = generated /\ enclaveKey' = enclaveKey
  BY DEF SaveUnwrapped, history, memory
<1> HIDE DEF x
<1>4. reader' \in [Readers -> ReaderStates] /\ ReaderOK'
  BY <1>1, <1>2, <1>3, ReaderFrame
<1>5. savedPairing' = reader[t].ps /\ savedKey' = enclaveKey[reader[t].ps] /\ savedBy' = "unwrap"
  BY DEF SaveUnwrapped, SavePairing, PersistedKey
<1>6. savedKey' \in Keys \cup {NoKey}
  BY <1>1, <1>5 DEF TypeOK
<1>7. TypeOK'
  BY <1>1, <1>4, <1>5, <1>6 DEF SaveUnwrapped, TypeOK, memory, history
<1>8. RequestOK'
  BY DEF SaveUnwrapped, RequestOK, history
<1>9. FreshOK'
  BY <1>1, <1>5, PairingFacts DEF SaveUnwrapped, FreshOK, TypeOK, memory, history
<1> QED BY <1>4, <1>7, <1>8, <1>9

LEMMA InvResend ==
  ASSUME NEW t \in Readers, Inv, Resend(t)
  PROVE  Inv'
<1> USE DEF Inv
<1>1. /\ reader[t] \in ReaderStates /\ reader[t].ps \in Pairings
      /\ enclaveKey[reader[t].ps] \in Keys
  BY ReaderAtWork DEF Resend, ReaderOK, TypeOK
<1>2. reader[t].queue \in Seq(Requests)
  BY <1>1 DEF ReaderStates
<1>3. \A i \in 1..Len(reader[t].queue) :
        [msg |-> reader[t].queue[i], pairing |-> reader[t].ps,
         key |-> enclaveKey[reader[t].ps]] \in Outgoing
  BY <1>1, <1>2 DEF Outgoing
<1>4. sent' \subseteq Outgoing
  BY <1>3 DEF Resend, TypeOK
<1>5. /\ reader' = [reader EXCEPT ![t] = IdleReader]
      /\ generated' = generated /\ enclaveKey' = enclaveKey
  BY DEF Resend, memory
<1>6. IdleReader.pc = "idle" /\ IdleReader.queue = <<>>
  BY DEF IdleReader
<1>7. reader' \in [Readers -> ReaderStates] /\ ReaderOK'
  BY <1>5, <1>6, IdleStates, ReaderFrame
<1>8. TypeOK'
  BY <1>4, <1>7 DEF Resend, TypeOK, memory, disk
<1>9. RequestOK' /\ FreshOK'
  BY DEF Resend, RequestOK, FreshOK, memory, disk
<1> QED BY <1>7, <1>8, <1>9

(* handleMessage returns its reader to idle, whatever the message.         *)
LEMMA ReaderDone ==
  ASSUME Inv, NEW t \in Readers, reader' = [reader EXCEPT ![t] = IdleReader],
         generated' = generated, enclaveKey' = enclaveKey
  PROVE  reader' \in [Readers -> ReaderStates] /\ ReaderOK'
<1>1. IdleReader.pc = "idle" /\ IdleReader.queue = <<>>
  BY DEF IdleReader
<1> QED BY <1>1, IdleStates, ReaderFrame

LEMMA InvHandleUnpair ==
  ASSUME NEW t \in Readers, Inv, HandleUnpair(t)
  PROVE  Inv'
<1> USE DEF Inv
<1>1. reader' \in [Readers -> ReaderStates] /\ ReaderOK'
  BY ReaderDone DEF HandleUnpair
<1>2. \A r \in Requests : /\ request[r] \in RequestStates
                          /\ [request[r] EXCEPT !.caller = "done"] \in RequestStates
                          /\ [request[r] EXCEPT !.caller = "done"].ps = request[r].ps
                          /\ [request[r] EXCEPT !.caller = "done"].worker = request[r].worker
                          /\ [request[r] EXCEPT !.caller = "done"].caller = "done"
  BY DEF TypeOK, RequestStates
<1>3. request' = [r \in Requests |->
           IF r \in pending /\ request[r].caller = "waiting"
           THEN [request[r] EXCEPT !.caller = "done"] ELSE request[r]]
  BY DEF HandleUnpair
<1>4. request' \in [Requests -> RequestStates]
  BY <1>2, <1>3
<1>5. \A r \in Requests : /\ request'[r].ps = request[r].ps
                          /\ request'[r].worker = request[r].worker
                          /\ request'[r].caller \in {request[r].caller, "done"}
  BY <1>2, <1>3
<1>6. RequestOK'
  BY <1>5 DEF HandleUnpair, RequestOK
<1>7. reader[t].ps \in Pairings
  BY ReaderAtWork DEF HandleUnpair
<1>8. TypeOK'
  BY <1>1, <1>4, <1>7 DEF HandleUnpair, TypeOK, DeleteMe, DeletePairing, disk
<1>9. FreshOK'
  BY PairingFacts DEF HandleUnpair, FreshOK, TypeOK, DeletePairing, disk, NoPairing
<1> QED BY <1>1, <1>6, <1>8, <1>9

LEMMA InvHandleResponse ==
  ASSUME NEW t \in Readers, NEW updates \in BOOLEAN, Inv, HandleResponse(t, updates)
  PROVE  Inv'
<1> USE DEF Inv
<1> DEFINE r == reader[t].ctxt.body
<1>1. /\ reader[t].ctxt \in Ciphertexts /\ reader[t].ps \in Pairings
      /\ reader[t].ps \in 1..generated /\ r \in Requests
  BY ReaderAtWork DEF HandleResponse
<1>2. reader[t].ctxt.key \in Keys
  BY <1>1 DEF Ciphertexts
<1>3. generated' = generated /\ enclaveKey' = enclaveKey
  BY DEF HandleResponse, history
<1>4. reader' \in [Readers -> ReaderStates] /\ ReaderOK'
  BY <1>3, ReaderDone DEF HandleResponse
<1>5. request' \in [Requests -> RequestStates] /\ RequestOK'
  <2> DEFINE x == [[request[r] EXCEPT !.caller = IF r \in MeRequests THEN "saving" ELSE "done"]
                     EXCEPT !.me = IF r \in MeRequests THEN reader[t].ctxt.key ELSE NoKey]
  <2>1. request[r] \in RequestStates
    BY <1>1 DEF TypeOK
  <2>2. /\ x \in RequestStates /\ x.ps = request[r].ps
        /\ x.worker = request[r].worker /\ x.caller # "idle"
    BY <1>2, <2>1 DEF RequestStates
  <2>3. x.worker \notin {"idle", "done"} => x.ps \in 1..generated
    BY <1>1, <2>2 DEF RequestOK
  <2>4. request' = [request EXCEPT ![r] = x] \/ request' = request
    BY DEF HandleResponse
  <2> HIDE DEF x
  <2>5. CASE request' = [request EXCEPT ![r] = x]
    BY <1>1, <1>3, <2>2, <2>3, <2>5, RequestFrame
  <2>6. CASE request' = request
    BY <1>3, <2>6 DEF RequestOK, TypeOK
  <2> QED BY <2>4, <2>5, <2>6
<1>6. /\ savedPairing' \in {savedPairing, reader[t].ps}
      /\ savedKey' \in {savedKey, enclaveKey[reader[t].ps]}
      /\ savedBy' \in {savedBy, "message"}
  BY DEF HandleResponse, SavePairing, PersistedKey
<1>7. /\ savedPairing' \in Pairings \cup {NoPairing}
      /\ savedKey' \in Keys \cup {NoKey}
      /\ savedBy' \in {"nobody", "pair", "unwrap", "message"}
  BY <1>1, <1>6 DEF TypeOK
<1>8. TypeOK'
  BY <1>4, <1>5, <1>7 DEF HandleResponse, TypeOK, history
<1>9. FreshOK'
  BY <1>1, <1>6, PairingFacts DEF HandleResponse, FreshOK, TypeOK, history
<1> QED BY <1>4, <1>5, <1>8, <1>9

(* A restart leaves nothing in memory but what it loads from the disk.     *)
LEMMA InvStart ==
  ASSUME Inv, NEW p \in {NoPairing, savedPairing}, NEW k \in Keys \cup {NoKey},
         NEW me \in Keys \cup {NoKey}, Start(p, k, me)
  PROVE  Inv'
<1> USE DEF Inv
<1>1. reader' \in [Readers -> ReaderStates] /\ ReaderOK'
  <2>1. IdleReader.pc = "idle" /\ IdleReader.queue = <<>>
    BY DEF IdleReader
  <2>2. \A t \in Readers : reader'[t] = IdleReader
    BY DEF Start
  <2>3. reader' \in [Readers -> ReaderStates]
    BY IdleStates DEF Start
  <2> QED BY <2>1, <2>2, <2>3 DEF ReaderOK
<1>2. request' \in [Requests -> RequestStates] /\ RequestOK'
  <2> DEFINE x(r) == [IdleRequest EXCEPT !.caller = "done", !.worker = "done",
                                         !.ps = request[r].ps]
  <2>1. \A r \in Requests : /\ request[r] \in RequestStates
                            /\ x(r) \in RequestStates
                            /\ x(r).worker = "done" /\ x(r).caller = "done"
    BY DEF TypeOK, RequestStates, IdleRequest
  <2>2. request' = [r \in Requests |->
                      IF request[r].caller = "idle" THEN request[r] ELSE x(r)]
    BY DEF Start
  <2> HIDE DEF x
  <2>3. request' \in [Requests -> RequestStates]
    BY <2>1, <2>2
  <2>4. \A r \in Requests : \/ request'[r] = request[r]
                            \/ request'[r].worker = "done" /\ request'[r].caller = "done"
    BY <2>1, <2>2
  <2>5. generated' = generated
    BY DEF Start, history
  <2>6. RequestOK'
    BY <2>4, <2>5 DEF RequestOK
  <2> QED BY <2>3, <2>6
<1>3. p \in Pairings \cup {NoPairing} /\ p <= generated
  BY PairingFacts DEF TypeOK, FreshOK, NoPairing
<1>4. outgoingQueue' \in Seq(Requests) /\ Len(outgoingQueue') <= QueueCap
  <2>1. outgoingQueue' = <<>>
    BY DEF Start
  <2> QED BY <2>1, QueueAssumption
<1>5. /\ enclaveKey' \in [Pairings -> Keys \cup {NoKey}]
      /\ \A q \in Pairings : enclaveKey'[q] = IF q = p THEN k ELSE NoKey
  BY DEF Start
<1>6. TypeOK'
  BY <1>1, <1>2, <1>3, <1>4, <1>5 DEF Start, TypeOK, history
<1>7. FreshOK'
  <2>1. pairingSecret' = p /\ savedPairing' = p /\ generated' = generated
    BY DEF Start, history
  <2>2. generated \in Nat /\ p \in Nat
    BY <1>3, PairingFacts DEF TypeOK, NoPairing
  <2> QED BY <1>3, <1>5, <2>1, <2>2, PairingFacts DEF FreshOK
<1> QED BY <1>1, <1>2, <1>6, <1>7

LEMMA CrashIsStart ==
  ASSUME Inv, Crash
  PROVE  \E p \in {NoPairing, savedPairing}, k \in {NoKey, savedKey}, me \in {NoKey, savedMe} :
            /\ Start(p, k, me)
            /\ \/ p = savedPairing /\ k = savedKey
               \/ p = NoPairing /\ k = NoKey
BY DEF Crash, Restart, CrashWhileClearing, CrashWhileSaving, CrashWhileSavingMe

(* Every step preserves the structural invariant.                          *)
LEMMA InvNext == Inv /\ [Next]_vars => Inv'
<1> SUFFICES ASSUME Inv, [Next]_vars PROVE Inv'
  OBVIOUS
<1>1. CASE Pair
  BY <1>1, InvPair
<1>2. CASE Unpair
  BY <1>2, InvUnpair
<1>3. ASSUME NEW p \in Pairings, SendUnpairRequest(p) PROVE Inv'
  BY <1>3, InvSendUnpairRequest
<1>4. ASSUME NEW r \in Requests, RequestStep(r) PROVE Inv'
  <2>1. CASE TryRequest(r)
    BY <2>1, InvTryRequest
  <2>2. CASE SendMessage(r)
    BY <2>2, InvSendMessage
  <2>3. CASE Enqueue(r)
    BY <2>3, InvEnqueue
  <2>4. CASE PushAlert(r)
    BY <2>4, InvPushAlert
  <2>5. CASE CallerTimeout(r)
    BY <2>5, InvCallerTimeout
  <2>6. CASE GiveUp(r)
    BY <2>6, InvGiveUp
  <2>7. CASE SaveMe(r)
    BY <2>7, InvSaveMe
  <2>8. CASE Register(r)
    BY <2>8, InvRegister
  <2> QED BY <1>4, <2>1, <2>2, <2>3, <2>4, <2>5, <2>6, <2>7, <2>8 DEF RequestStep
<1>5. ASSUME NEW t \in Readers, NEW c \in Ciphertexts, HandleCiphertext(t, c) PROVE Inv'
  BY <1>5, InvHandleCiphertext
<1>6. ASSUME NEW t \in Readers, ReaderStep(t) PROVE Inv'
  <2>1. CASE Unwrap(t)
    BY <2>1, InvUnwrap
  <2>2. CASE Flush(t)
    BY <2>2, InvFlush
  <2>3. CASE SaveUnwrapped(t)
    BY <2>3, InvSaveUnwrapped
  <2>4. CASE Resend(t)
    BY <2>4, InvResend
  <2>5. CASE HandleUnpair(t)
    BY <2>5, InvHandleUnpair
  <2>6. ASSUME NEW updates \in BOOLEAN, HandleResponse(t, updates) PROVE Inv'
    BY <2>6, InvHandleResponse
  <2> QED BY <1>6, <2>1, <2>2, <2>3, <2>4, <2>5, <2>6 DEF ReaderStep
<1>7. CASE Crash
  <2>1. savedKey \in Keys \cup {NoKey} /\ savedMe \in Keys \cup {NoKey}
    BY DEF Inv, TypeOK
  <2> QED BY <1>7, <2>1, CrashIsStart, InvStart
<1>8. CASE UNCHANGED vars
  BY <1>8 DEF vars, memory, disk, history, Inv, TypeOK, ReaderOK, RequestOK, FreshOK
<1> QED BY <1>1, <1>2, <1>3, <1>4, <1>5, <1>6, <1>7, <1>8 DEF Next, Running

(* In every reachable state the variables have their types, a goroutine    *)
(* inside handleCiphertext or sendRequestAndReceiveResponses holds a       *)
(* pairing that was generated, and the queue respects its cap.             *)
THEOREM Structure == Spec => []Inv
<1>1. Init => Inv
  BY InvInit
<1>2. Inv /\ [Next]_vars => Inv'
  BY InvNext
<1> QED BY <1>1, <1>2, PTL DEF Spec

(* The outgoing queue never exceeds its cap, and every variable keeps its  *)
(* type.                                                                   *)
THEOREM TypeCorrect == Spec => []TypeOK
<1>1. Inv => TypeOK
  BY DEF Inv
<1> QED BY <1>1, Structure, PTL

(* pairing.json is stale only after a save by handleCiphertext.  The       *)
(* property is inductive by itself: every other writer either installs the *)
(* pairing it saves in the same critical section, or checks that it still  *)
(* is the current one, and a restart makes the saved pairing current.      *)
THEOREM OnlyUnwrapSavesStale == Spec => []OnlyUnwrapSaveIsStale
<1>1. Init => OnlyUnwrapSaveIsStale
  BY DEF Init, OnlyUnwrapSaveIsStale
<1>2. OnlyUnwrapSaveIsStale /\ [Next]_vars => OnlyUnwrapSaveIsStale'
  <2> SUFFICES ASSUME OnlyUnwrapSaveIsStale, [Next]_vars PROVE OnlyUnwrapSaveIsStale'
    OBVIOUS
  <2> USE DEF OnlyUnwrapSaveIsStale
  <2>1. CASE Pair
    BY <2>1 DEF Pair, SavePairing
  <2>2. CASE Unpair
    BY <2>2 DEF Unpair, DeletePairing
  <2>3. ASSUME NEW p \in Pairings, SendUnpairRequest(p) PROVE OnlyUnwrapSaveIsStale'
    BY <2>3 DEF SendUnpairRequest, memory, disk
  <2>4. ASSUME NEW r \in Requests, RequestStep(r) PROVE OnlyUnwrapSaveIsStale'
    BY <2>4 DEF RequestStep, TryRequest, Register, SendMessage, Enqueue, PushAlert,
                CallerTimeout, GiveUp, SaveMe, memory, disk
  <2>5. ASSUME NEW t \in Readers, NEW c \in Ciphertexts, HandleCiphertext(t, c)
        PROVE  OnlyUnwrapSaveIsStale'
    BY <2>5 DEF HandleCiphertext, memory, disk
  <2>6. ASSUME NEW t \in Readers, ReaderStep(t) PROVE OnlyUnwrapSaveIsStale'
    <3>1. CASE Unwrap(t) \/ Flush(t) \/ Resend(t)
      BY <3>1 DEF Unwrap, Flush, Resend, memory, disk
    <3>2. CASE SaveUnwrapped(t)
      BY <3>2 DEF SaveUnwrapped, SavePairing
    <3>3. CASE HandleUnpair(t)
      BY <3>3 DEF HandleUnpair, DeletePairing, disk
    <3>4. ASSUME NEW updates \in BOOLEAN, HandleResponse(t, updates)
          PROVE  OnlyUnwrapSaveIsStale'
      BY <3>4 DEF HandleResponse, SavePairing, IsCurrent
    <3> QED BY <2>6, <3>1, <3>2, <3>3, <3>4 DEF ReaderStep
  <2>7. CASE Crash
    BY <2>7 DEF Crash, Restart, CrashWhileClearing, CrashWhileSaving,
                CrashWhileSavingMe, Start
  <2>8. CASE UNCHANGED vars
    BY <2>8 DEF vars, memory, disk
  <2> QED BY <2>1, <2>2, <2>3, <2>4, <2>5, <2>6, <2>7, <2>8 DEF Next, Running
<1> QED BY <1>1, <1>2, PTL DEF Spec

-----------------------------------------------------------------------------
(* The window in which the key of the saved pairing is only in memory.     *)

(* A step that touches neither the file nor the keys, and takes no reader  *)
(* out of the window, keeps the property.                                  *)
LEMMA WindowFrame ==
  ASSUME KeyLossWindow, UNCHANGED <<savedPairing, savedKey, enclaveKey>>,
         \A t \in Readers : reader[t].pc \in {"flush", "save"} =>
             /\ reader'[t].ps = reader[t].ps
             /\ reader'[t].pc \in {"flush", "save"}
  PROVE  KeyLossWindow'
BY DEF KeyLossWindow

(* UnwrapKeyIfPresent opens the window only when the file lacks the key.   *)
LEMMA WindowUnwrap ==
  ASSUME NEW t \in Readers, Inv, KeyLossWindow, Unwrap(t)
  PROVE  KeyLossWindow'
<1>1. /\ reader[t] \in ReaderStates /\ reader[t].ps \in Pairings
      /\ reader[t].pc = "unwrap"
  BY ReaderAtWork DEF Unwrap
<1>2. reader \in [Readers -> ReaderStates] /\ enclaveKey \in [Pairings -> Keys \cup {NoKey}]
  BY DEF Inv, TypeOK
<1>3. \A u \in Readers : u # t => reader'[u] = reader[u]
  BY <1>2 DEF Unwrap
<1>4. savedPairing' = savedPairing /\ savedKey' = savedKey
  BY DEF Unwrap, disk
<1>5. CASE enclaveKey' = enclaveKey
  BY <1>1, <1>3, <1>4, <1>5, WindowFrame
<1>6. CASE /\ WaitsForKey(reader[t].ps)
           /\ enclaveKey' = [enclaveKey EXCEPT ![reader[t].ps] = reader[t].ctxt.key]
           /\ reader' = [reader EXCEPT ![t].pc = "flush", ![t].ctxt = NoMessage]
  <2>1. reader'[t].pc = "flush" /\ reader'[t].ps = reader[t].ps
    <3> DEFINE x == [[reader[t] EXCEPT !.pc = "flush"] EXCEPT !.ctxt = NoMessage]
    <3>1. reader'[t] = x
      BY <1>2, <1>6
    <3>2. x.pc = "flush" /\ x.ps = reader[t].ps
      BY <1>1 DEF ReaderStates
    <3> QED BY <3>1, <3>2
  <2>2. CASE savedPairing = reader[t].ps
    BY <1>2, <1>4, <1>6, <2>1, <2>2 DEF KeyLossWindow, WaitsForKey
  <2>3. CASE savedPairing # reader[t].ps
    <3>1. savedPairing # NoPairing => enclaveKey'[savedPairing] = enclaveKey[savedPairing]
      BY <1>1, <1>2, <1>6, <2>3 DEF Inv, TypeOK
    <3> QED BY <1>1, <1>3, <1>4, <3>1 DEF KeyLossWindow
  <2> QED BY <2>2, <2>3
<1> QED BY <1>5, <1>6 DEF Unwrap

LEMMA WindowNext == Inv /\ KeyLossWindow /\ [Next]_vars => KeyLossWindow'
<1> SUFFICES ASSUME Inv, KeyLossWindow, [Next]_vars PROVE KeyLossWindow'
  OBVIOUS
<1>0. reader \in [Readers -> ReaderStates]
  BY DEF Inv, TypeOK
<1>1. CASE Pair
  <2>1. generated + 1 \in Pairings /\ generated \in Nat
    BY <1>1, PairingFacts DEF Pair, Inv, TypeOK
  <2>2. enclaveKey[generated + 1] = NoKey
    BY <2>1 DEF Inv, FreshOK
  <2> QED BY <1>1, <2>2 DEF Pair, SavePairing, KeyLossWindow
<1>2. CASE Unpair
  BY <1>2 DEF Unpair, DeletePairing, KeyLossWindow
<1>3. ASSUME NEW p \in Pairings, SendUnpairRequest(p) PROVE KeyLossWindow'
  BY <1>3, WindowFrame DEF SendUnpairRequest, memory, disk
<1>4. ASSUME NEW r \in Requests, RequestStep(r) PROVE KeyLossWindow'
  BY <1>4, WindowFrame DEF RequestStep, TryRequest, Register, SendMessage, Enqueue, PushAlert,
     CallerTimeout, GiveUp, SaveMe, memory, disk
<1>5. ASSUME NEW t \in Readers, NEW c \in Ciphertexts, HandleCiphertext(t, c)
      PROVE  KeyLossWindow'
  <2>1. \A u \in Readers : u # t => reader'[u] = reader[u]
    BY <1>0, <1>5 DEF HandleCiphertext
  <2>2. reader[t].pc = "idle" /\ UNCHANGED <<savedPairing, savedKey, enclaveKey>>
    BY <1>5 DEF HandleCiphertext, memory, disk
  <2> QED BY <2>1, <2>2, WindowFrame
<1>6. ASSUME NEW t \in Readers, ReaderStep(t) PROVE KeyLossWindow'
  <2>1. CASE Unwrap(t)
    BY <2>1, WindowUnwrap
  <2>2. CASE Flush(t)
    <3> DEFINE x == [[reader[t] EXCEPT !.pc = "save"] EXCEPT !.queue = TakenQueue]
    <3>1. reader' = [reader EXCEPT ![t] = x]
      BY <2>2 DEF Flush
    <3>2. x.pc = "save" /\ x.ps = reader[t].ps
      BY <1>0 DEF ReaderStates
    <3>3. \A u \in Readers : reader'[u] = IF u = t THEN x ELSE reader[u]
      BY <1>0, <3>1
    <3>4. UNCHANGED <<savedPairing, savedKey, enclaveKey>>
      BY <2>2 DEF Flush, disk
    <3> HIDE DEF x
    <3> QED BY <3>2, <3>3, <3>4, WindowFrame
  <2>3. CASE SaveUnwrapped(t)
    BY <2>3 DEF SaveUnwrapped, SavePairing, PersistedKey, KeyLossWindow, memory
  <2>4. CASE Resend(t)
    <3>1. \A u \in Readers : u # t => reader'[u] = reader[u]
      BY <1>0, <2>4 DEF Resend
    <3>2. reader[t].pc = "resend" /\ UNCHANGED <<savedPairing, savedKey, enclaveKey>>
      BY <2>4 DEF Resend, memory, disk
    <3> QED BY <3>1, <3>2, WindowFrame
  <2>5. CASE HandleUnpair(t)
    <3>1. \A u \in Readers : u # t => reader'[u] = reader[u]
      BY <1>0, <2>5 DEF HandleUnpair
    <3>2. reader[t].pc = "handle" /\ enclaveKey' = enclaveKey
      BY <2>5 DEF HandleUnpair
    <3>3. savedPairing' = NoPairing \/ UNCHANGED <<savedPairing, savedKey>>
      BY <2>5 DEF HandleUnpair, DeletePairing, disk
    <3>4. CASE savedPairing' = NoPairing
      BY <3>4 DEF KeyLossWindow
    <3> QED BY <3>1, <3>2, <3>3, <3>4, WindowFrame
  <2>6. ASSUME NEW updates \in BOOLEAN, HandleResponse(t, updates) PROVE KeyLossWindow'
    <3>1. \A u \in Readers : u # t => reader'[u] = reader[u]
      BY <1>0, <2>6 DEF HandleResponse
    <3>2. reader[t].pc = "handle" /\ enclaveKey' = enclaveKey
      BY <2>6 DEF HandleResponse
    <3>3. \/ savedKey' = enclaveKey[savedPairing']
          \/ UNCHANGED <<savedPairing, savedKey>>
      BY <2>6 DEF HandleResponse, SavePairing, PersistedKey
    <3>4. CASE savedKey' = enclaveKey[savedPairing']
      BY <3>2, <3>4 DEF KeyLossWindow
    <3> QED BY <3>1, <3>2, <3>3, <3>4, WindowFrame
  <2> QED BY <1>6, <2>1, <2>2, <2>3, <2>4, <2>5, <2>6 DEF ReaderStep
<1>7. CASE Crash
  <2>1. PICK p \in {NoPairing, savedPairing}, k \in {NoKey, savedKey}, me \in {NoKey, savedMe} :
          Start(p, k, me)
    BY <1>7, CrashIsStart
  <2>2. p \in Pairings \cup {NoPairing}
    BY DEF Inv, TypeOK
  <2>3. p # NoPairing => enclaveKey'[p] = k
    BY <2>1, <2>2 DEF Start
  <2>4. savedPairing' = p /\ savedKey' = k
    BY <2>1 DEF Start
  <2> QED BY <2>3, <2>4 DEF KeyLossWindow
<1>8. CASE UNCHANGED vars
  BY <1>8, WindowFrame DEF vars, memory, disk
<1> QED BY <1>1, <1>2, <1>3, <1>4, <1>5, <1>6, <1>7, <1>8 DEF Next, Running

(* The file lags behind memory only between UnwrapKeyIfPresent and         *)
(* SavePairing, lacks the key then, and never holds another key.           *)
THEOREM KeyLossOnlyInWindow == Spec => []KeyLossWindow
<1>1. Init => KeyLossWindow
  BY DEF Init, KeyLossWindow
<1>2. Inv /\ KeyLossWindow /\ [Next]_vars => KeyLossWindow'
  BY WindowNext
<1> QED BY <1>1, <1>2, Structure, PTL DEF Spec

(* No step replaces the key of a pairing by another, and a restart only    *)
(* loses one that was not saved.  The window is what makes the restart     *)
(* case work: what Start loads is the key in memory or no key.             *)
LEMMA FirstKeyStep ==
  ASSUME Inv, KeyLossWindow, [Next]_vars, NEW p \in Pairings, enclaveKey[p] # NoKey
  PROVE  \/ enclaveKey'[p] = enclaveKey[p]
         \/ /\ enclaveKey'[p] = NoKey
            /\ pairingSecret' # p \/ savedPairing # p \/ savedKey = NoKey
<1>1. ASSUME NEW t \in Readers, Unwrap(t) PROVE enclaveKey'[p] = enclaveKey[p]
  BY <1>1, UnwrapKeys
<1>2. CASE Crash
  <2>1. PICK q \in {NoPairing, savedPairing}, k \in {NoKey, savedKey}, me \in {NoKey, savedMe} :
          /\ Start(q, k, me)
          /\ \/ q = savedPairing /\ k = savedKey
             \/ q = NoPairing /\ k = NoKey
    BY <1>2, CrashIsStart
  <2>2. enclaveKey'[p] = (IF p = q THEN k ELSE NoKey) /\ pairingSecret' = q
    BY <2>1 DEF Start
  <2>3. p # NoPairing
    BY PairingFacts
  <2> QED BY <2>1, <2>2, <2>3 DEF KeyLossWindow
<1>3. CASE ~Crash /\ ~(\E t \in Readers : Unwrap(t))
  <2>1. enclaveKey' = enclaveKey
    BY <1>3 DEF Next, Running, Pair, Unpair, SendUnpairRequest, RequestStep, TryRequest,
       Register, SendMessage, Enqueue, PushAlert, CallerTimeout, GiveUp, SaveMe, HandleCiphertext,
       ReaderStep, Flush, SaveUnwrapped, Resend, HandleUnpair, HandleResponse, memory, vars
  <2> QED BY <2>1
<1> QED BY <1>1, <1>2, <1>3

(* The phone that paired first keeps the pairing.                          *)
THEOREM FirstKeyStays == Spec => FirstKeyWins
<1>1. Inv /\ KeyLossWindow /\ [Next]_vars =>
        [\A p \in Pairings : enclaveKey[p] # NoKey =>
          \/ enclaveKey'[p] = enclaveKey[p]
          \/ /\ enclaveKey'[p] = NoKey
             /\ pairingSecret' # p \/ savedPairing # p \/ savedKey = NoKey]_vars
  BY FirstKeyStep
<1> QED BY <1>1, Structure, KeyLossOnlyInWindow, PTL DEF Spec, FirstKeyWins

-----------------------------------------------------------------------------
(* Where requests are.                                                     *)

(* A step that takes nothing from the places a request can be in, makes no *)
(* other worker poll and no other pairing current, keeps the property.     *)
LEMMA AccountFrame ==
  ASSUME RequestNeverVanishes,
         \A r \in Requests : Accounted(r) => Accounted(r)',
         \A r \in Requests :
             request'[r].worker = "polling" /\ request'[r].ps = pairingSecret' =>
                \/ Accounted(r)'
                \/ request[r].worker = "polling" /\ request[r].ps = pairingSecret
  PROVE  RequestNeverVanishes'
BY DEF RequestNeverVanishes

(* A reader that goes from one empty queue to another takes nothing away.  *)
LEMMA EmptyHanded ==
  ASSUME Inv, NEW t \in Readers, reader[t].pc \notin {"save", "resend"},
         \A u \in Readers : u # t => reader'[u] = reader[u],
         UNCHANGED <<overflowed, sent, outgoingQueue>>
  PROVE  \A r \in Requests : Accounted(r) => Accounted(r)'
<1>1. reader[t].queue = <<>>
  BY DEF Inv, ReaderOK
<1>2. ~ \E i \in 1..Len(reader[t].queue) : TRUE
  BY <1>1
<1> QED BY <1>2 DEF Accounted

LEMMA AccountRequestStep ==
  ASSUME NEW r \in Requests, Inv, RequestNeverVanishes, RequestStep(r)
  PROVE  RequestNeverVanishes'
<1>0. request \in [Requests -> RequestStates] /\ outgoingQueue \in Seq(Requests)
  BY DEF Inv, TypeOK
<1>1. pairingSecret' = pairingSecret /\ reader' = reader
  BY DEF RequestStep, TryRequest, Register, SendMessage, Enqueue, PushAlert, CallerTimeout,
         GiveUp, SaveMe, memory
<1>2. \A u \in Requests : u # r => request'[u] = request[u]
  BY <1>0 DEF RequestStep, TryRequest, Register, SendMessage, Enqueue, PushAlert, CallerTimeout,
              GiveUp, SaveMe
<1>3. CASE Enqueue(r)
  <2>1. CASE HasRoom /\ outgoingQueue' = Append(outgoingQueue, r) /\ overflowed' = overflowed
    <3>1. Len(outgoingQueue') = Len(outgoingQueue) + 1 /\ Len(outgoingQueue) \in Nat
      BY <1>0, <2>1
    <3>2. outgoingQueue'[Len(outgoingQueue')] = r
      BY <1>0, <2>1
    <3>3. \A i \in 1..Len(outgoingQueue) : /\ i \in 1..Len(outgoingQueue')
                                            /\ outgoingQueue'[i] = outgoingQueue[i]
      BY <1>0, <2>1
    <3>4. Accounted(r)'
      <4>1. Len(outgoingQueue') \in 1..Len(outgoingQueue')
        BY <3>1
      <4> QED BY <3>2, <4>1 DEF Accounted
    <3>5. sent' = sent
      BY <1>3 DEF Enqueue
    <3>6. \A u \in Requests : Accounted(u) => Accounted(u)'
      BY <1>1, <2>1, <3>3, <3>5 DEF Accounted
    <3> QED BY <1>1, <1>2, <3>4, <3>6, AccountFrame
  <2>2. CASE outgoingQueue' = outgoingQueue /\ overflowed' = overflowed \cup {r}
    <3>1. Accounted(r)'
      BY <2>2 DEF Accounted
    <3>2. sent' = sent
      BY <1>3 DEF Enqueue
    <3>3. \A u \in Requests : Accounted(u) => Accounted(u)'
      BY <1>1, <2>2, <3>2 DEF Accounted
    <3> QED BY <1>1, <1>2, <3>1, <3>3, AccountFrame
  <2> QED BY <1>3, <2>1, <2>2 DEF Enqueue
<1>4. CASE ~Enqueue(r)
  <2>1. /\ outgoingQueue' = outgoingQueue /\ overflowed' = overflowed
        /\ sent \subseteq sent'
    BY <1>4 DEF RequestStep, TryRequest, Register, SendMessage, PushAlert, CallerTimeout,
                GiveUp, SaveMe, memory, history
  <2>2. \A u \in Requests : Accounted(u) => Accounted(u)'
    BY <1>1, <2>1 DEF Accounted
  <2>3. request'[r].worker = "polling" =>
            \/ Accounted(r)'
            \/ request[r].worker = "polling" /\ request'[r].ps = request[r].ps
    <3>0. request[r] \in RequestStates
      BY <1>0
    <3>1. CASE TryRequest(r)
      BY <1>0, <3>1 DEF TryRequest
    <3>2. CASE SendMessage(r)
      <4>1. CASE sent' = sent \cup {[msg |-> r, pairing |-> request[r].ps,
                                      key |-> enclaveKey[request[r].ps]]}
        <5> DEFINE m == [msg |-> r, pairing |-> request[r].ps,
                         key |-> enclaveKey[request[r].ps]]
        <5>1. m \in sent' /\ m.msg = r
          BY <4>1
        <5> QED BY <5>1 DEF Accounted
      <4>2. CASE request' = [request EXCEPT ![r].worker = "enqueue"]
        BY <1>0, <3>0, <4>2 DEF RequestStates
      <4> QED BY <3>2, <4>1, <4>2 DEF SendMessage
    <3>3. CASE PushAlert(r)
      BY <1>0, <3>0, <3>3 DEF PushAlert, RequestStates
    <3>4. CASE CallerTimeout(r)
      BY <1>0, <3>0, <3>4 DEF CallerTimeout, RequestStates
    <3>5. CASE GiveUp(r)
      <4> DEFINE x == [[request[r] EXCEPT !.worker = "done"] EXCEPT
                    !.caller = IF r \in pending /\ @ = "waiting" THEN "done" ELSE @]
      <4>1. request'[r] = x
        BY <1>0, <3>5 DEF GiveUp
      <4>2. x.worker = "done"
        BY <3>0 DEF RequestStates
      <4> QED BY <4>1, <4>2
    <3>6. CASE SaveMe(r)
      <4> DEFINE x == [[request[r] EXCEPT !.caller = "done"] EXCEPT !.me = NoKey]
      <4>1. request'[r] = x
        BY <1>0, <3>6 DEF SaveMe
      <4>2. x.worker = request[r].worker /\ x.ps = request[r].ps
        BY <3>0 DEF RequestStates
      <4> QED BY <4>1, <4>2
    <3>7. CASE Register(r)
      BY <1>0, <3>0, <3>7 DEF Register, RequestStates
    <3> QED BY <1>4, <3>1, <3>2, <3>3, <3>4, <3>5, <3>6, <3>7 DEF RequestStep
  <2> QED BY <1>1, <1>2, <2>2, <2>3, AccountFrame
<1> QED BY <1>3, <1>4

LEMMA AccountReaderStep ==
  ASSUME NEW t \in Readers, Inv, RequestNeverVanishes, ReaderStep(t)
  PROVE  RequestNeverVanishes'
<1>0. reader \in [Readers -> ReaderStates] /\ request \in [Requests -> RequestStates]
  BY DEF Inv, TypeOK
<1>1. \A u \in Readers : u # t => reader'[u] = reader[u]
  BY <1>0 DEF ReaderStep, Unwrap, Flush, SaveUnwrapped, Resend, HandleUnpair, HandleResponse
<1>2. CASE Unwrap(t)
  <2>1. /\ reader[t].pc = "unwrap" /\ pairingSecret' = pairingSecret /\ request' = request
        /\ UNCHANGED <<overflowed, sent, outgoingQueue>>
    BY <1>2 DEF Unwrap, history
  <2> QED BY <1>1, <2>1, EmptyHanded, AccountFrame
<1>3. CASE Flush(t)
  <2> DEFINE x == [[reader[t] EXCEPT !.pc = "save"] EXCEPT !.queue = TakenQueue]
  <2>1. /\ reader[t].pc = "flush" /\ pairingSecret' = pairingSecret /\ request' = request
        /\ UNCHANGED <<overflowed, sent>>
    BY <1>3 DEF Flush, history
  <2>2. reader'[t] = x
    BY <1>0, <1>3 DEF Flush
  <2>3. x.queue = outgoingQueue
    BY <1>0 DEF ReaderStates, TakenQueue
  <2>4. reader[t].queue = <<>>
    BY <2>1 DEF Inv, ReaderOK
  <2>5. ~ \E i \in 1..Len(reader[t].queue) : TRUE
    BY <2>4
  <2> HIDE DEF x
  <2>6. \A r \in Requests : Accounted(r) => Accounted(r)'
    BY <1>1, <2>1, <2>2, <2>3, <2>5 DEF Accounted
  <2> QED BY <2>1, <2>6, AccountFrame
<1>4. CASE SaveUnwrapped(t)
  <2>1. /\ pairingSecret' = pairingSecret /\ request' = request
        /\ UNCHANGED <<overflowed, sent, outgoingQueue>>
    BY <1>4 DEF SaveUnwrapped, history, memory
  <2>2. reader'[t].queue = reader[t].queue
    BY <1>0, <1>4 DEF SaveUnwrapped, ReaderStates
  <2>3. \A r \in Requests : Accounted(r) => Accounted(r)'
    BY <1>1, <2>1, <2>2 DEF Accounted
  <2> QED BY <2>1, <2>3, AccountFrame
<1>5. CASE Resend(t)
  <2> DEFINE m(i) == [msg |-> reader[t].queue[i], pairing |-> reader[t].ps,
                      key |-> enclaveKey[reader[t].ps]]
  <2>1. /\ pairingSecret' = pairingSecret /\ request' = request
        /\ UNCHANGED <<overflowed, outgoingQueue>>
        /\ sent' = sent \cup {m(i) : i \in 1..Len(reader[t].queue)}
    BY <1>5 DEF Resend, memory
  <2>2. \A i \in 1..Len(reader[t].queue) : m(i) \in sent' /\ m(i).msg = reader[t].queue[i]
    BY <2>1
  <2>3. sent \subseteq sent'
    BY <2>1
  <2> HIDE DEF m
  <2>4. \A r \in Requests : Accounted(r) => Accounted(r)'
    BY <1>1, <2>1, <2>2, <2>3 DEF Accounted
  <2> QED BY <2>1, <2>4, AccountFrame
<1>6. CASE HandleUnpair(t)
  <2>1. /\ reader[t].pc = "handle" /\ UNCHANGED <<overflowed, sent, outgoingQueue>>
        /\ pairingSecret' \in {pairingSecret, NoPairing}
    BY <1>6 DEF HandleUnpair
  <2>2. \A r \in Requests : /\ request'[r].worker = request[r].worker
                            /\ request'[r].ps = request[r].ps
    <3>1. \A r \in Requests :
             /\ [request[r] EXCEPT !.caller = "done"].worker = request[r].worker
             /\ [request[r] EXCEPT !.caller = "done"].ps = request[r].ps
      BY <1>0 DEF RequestStates
    <3> QED BY <1>6, <3>1 DEF HandleUnpair
  <2>3. \A r \in Requests : request[r].worker = "polling" => request[r].ps # NoPairing
    BY DEF Inv, RequestOK, NoPairing
  <2> QED BY <1>1, <2>1, <2>2, <2>3, EmptyHanded, AccountFrame
<1>7. ASSUME NEW updates \in BOOLEAN, HandleResponse(t, updates)
      PROVE  RequestNeverVanishes'
  <2> DEFINE b == reader[t].ctxt.body
             x == [[request[b] EXCEPT !.caller = IF b \in MeRequests THEN "saving" ELSE "done"]
                     EXCEPT !.me = IF b \in MeRequests THEN reader[t].ctxt.key ELSE NoKey]
  <2>1. /\ reader[t].pc = "handle" /\ UNCHANGED <<overflowed, sent, outgoingQueue>>
        /\ pairingSecret' = pairingSecret /\ b \in Requests
    BY <1>7 DEF HandleResponse, history
  <2>2. request' = [request EXCEPT ![b] = x] \/ request' = request
    BY <1>7 DEF HandleResponse
  <2>3. x.worker = request[b].worker /\ x.ps = request[b].ps
    BY <1>0, <2>1 DEF RequestStates
  <2> HIDE DEF x
  <2>4. \A r \in Requests : /\ request'[r].worker = request[r].worker
                            /\ request'[r].ps = request[r].ps
    BY <1>0, <2>1, <2>2, <2>3
  <2> QED BY <1>1, <2>1, <2>4, EmptyHanded, AccountFrame
<1> QED BY <1>2, <1>3, <1>4, <1>5, <1>6, <1>7 DEF ReaderStep

LEMMA AccountNext == Inv /\ RequestNeverVanishes /\ [Next]_vars => RequestNeverVanishes'
<1> SUFFICES ASSUME Inv, RequestNeverVanishes, [Next]_vars PROVE RequestNeverVanishes'
  OBVIOUS
<1>0. \A r \in Requests : request[r].worker = "polling" => request[r].ps \in 1..generated
  BY DEF Inv, RequestOK
<1>1. CASE Pair
  <2>1. generated \in Nat
    BY PairingFacts DEF Inv, TypeOK
  <2>2. \A r \in Requests : request[r].worker = "polling" => request[r].ps # generated + 1
    BY <1>0, <2>1
  <2> QED BY <1>1, <2>2 DEF Pair, RequestNeverVanishes
<1>2. CASE Unpair
  BY <1>0, <1>2 DEF Unpair, RequestNeverVanishes, NoPairing
<1>3. ASSUME NEW p \in Pairings, SendUnpairRequest(p) PROVE RequestNeverVanishes'
  <2>1. /\ UNCHANGED <<overflowed, outgoingQueue, reader, request, pairingSecret>>
        /\ sent \subseteq sent'
    BY <1>3 DEF SendUnpairRequest, memory
  <2> QED BY <2>1, AccountFrame DEF Accounted
<1>4. ASSUME NEW r \in Requests, RequestStep(r) PROVE RequestNeverVanishes'
  BY <1>4, AccountRequestStep
<1>5. ASSUME NEW t \in Readers, NEW c \in Ciphertexts, HandleCiphertext(t, c)
      PROVE  RequestNeverVanishes'
  <2>1. /\ reader[t].pc = "idle"
        /\ UNCHANGED <<overflowed, sent, outgoingQueue, request, pairingSecret>>
    BY <1>5 DEF HandleCiphertext, memory, history
  <2>2. \A u \in Readers : u # t => reader'[u] = reader[u]
    BY <1>5 DEF HandleCiphertext, Inv, TypeOK
  <2> QED BY <2>1, <2>2, EmptyHanded, AccountFrame
<1>6. ASSUME NEW t \in Readers, ReaderStep(t) PROVE RequestNeverVanishes'
  BY <1>6, AccountReaderStep
<1>7. CASE Crash
  <2>1. PICK p \in {NoPairing, savedPairing}, k \in {NoKey, savedKey}, me \in {NoKey, savedMe} :
          Start(p, k, me)
    BY <1>7, CrashIsStart
  <2>2. \A r \in Requests : request'[r].worker # "polling"
    <3> DEFINE x(r) == [IdleRequest EXCEPT !.caller = "done", !.worker = "done",
                                           !.ps = request[r].ps]
    <3>1. \A r \in Requests : x(r).worker = "done"
      BY DEF IdleRequest
    <3>2. \A r \in Requests : request[r].caller = "idle" => request[r].worker = "idle"
      BY DEF Inv, RequestOK
    <3>3. \A r \in Requests :
             request'[r] = IF request[r].caller = "idle" THEN request[r] ELSE x(r)
      BY <2>1 DEF Start
    <3> HIDE DEF x
    <3> QED BY <3>1, <3>2, <3>3
  <2> QED BY <2>2 DEF RequestNeverVanishes
<1>8. CASE UNCHANGED vars
  BY <1>8 DEF vars, memory, history, RequestNeverVanishes, Accounted
<1> QED BY <1>1, <1>2, <1>3, <1>4, <1>5, <1>6, <1>7, <1>8 DEF Next, Running

(* Only the cap of the outgoing queue loses a request of the current       *)
(* pairing.  Pair empties the queue, but no worker then polls for the new  *)
(* pairing; Flush empties it into the hands of the reader.                 *)
THEOREM NoRequestVanishes == Spec => []RequestNeverVanishes
<1>1. Init => RequestNeverVanishes
  BY DEF Init, RequestNeverVanishes, IdleRequest
<1>2. Inv /\ RequestNeverVanishes /\ [Next]_vars => RequestNeverVanishes'
  BY AccountNext
<1> QED BY <1>1, <1>2, Structure, PTL DEF Spec

=============================================================================
