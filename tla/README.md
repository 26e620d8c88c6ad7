# A TLA+ model of kr / krd

`kr` lets a phone that runs Krypton answer for SSH, git and PGP keys. The daemon
`krd` runs on the workstation as an SSH agent. It keeps a *pairing* with one
phone, forwards requests to it over Amazon SQS/SNS and over Bluetooth, and hands
the answers to the programs that wait for them. This directory models the daemon
where goroutines, messages, timeouts and crashes meet, and the programs around it
(`kr`, `krssh`, `krgpg`) where they share files, sockets and a daemon that may die.
TLC checks the models, and TLAPS proves the central safety properties of the
daemon's core.

All source paths below are relative to the repository's root.

## 1. Inventory

| Part | State it keeps | Operations | What is hard |
|---|---|---|---|
| EnclaveClient, pairing (`krd/enclave_client.go`) | `pairingSecret`, `outgoingQueue`, `cachedMe` | `Pair`, `Unpair`, `Start`, `RequestMe`, `handleCiphertext`, `handleMessage`, `sendMessage` | the pairing is read once and used after `ec.Mutex` was released; crashes between memory and disk |
| EnclaveClient, dispatch (same file) | `requestCallbacksByRequestID`, `ackedRequestIDs`, one channel per request | `tryRequest`, `sendRequestAndReceiveResponses`, `handleMessage` | bounded channels are sent to with the mutex held; two clocks; duplicated answers; eviction |
| LRU cache (`krd/vendor/.../groupcache/lru`) | recency list and map | `Add`, `Get`, `Remove`, `RemoveOldest` | eviction of an entry somebody waits for |
| Pairing secret (`pair.go`) | `EnclavePublicKey`, its own mutex | `EncryptMessage`, `UnwrapKeyIfPresent`, `DecryptMessage` | the first phone must keep the pairing |
| Persister (`file_persister.go`, `pairing_persistence.go`) | `pairing.json`, `me`, `id_krypton.pub` | save, load, delete | not atomic, called with and without the mutex |
| Transport (`transport.go`, `aws.go`) | SQS queues outside the process | `Setup`, `SendMessage`, `PushAlert`, `Read` | missing queues, failed deletes, redelivery |
| Bluetooth (`krd/bluetooth_*.go`, `krbtle/`) | services, read channel | `AddService`, `Write`, `ReadChan` | second path for every message, drops when full |
| SSH agent (`krd/ssh_agent.go`) | recent host signatures, callbacks by session | `List`, `Sign`, `onHostAuth` | rendezvous of two connections, with a missed wake-up window |
| Control server (`krd/control_server.go`), `krdclient` | none | HTTP handlers, and the calls of them | errors become status codes and errors again |
| Notifications (`notify.go`) and `krssh` | append-only files | `Notify`, readers, `parseSSHPacket` | readers truncate a shared file; lengths from the network |
| krd processes and sockets (`socket*.go`, `krd/main/krd.go`) | three UNIX sockets | listen, dial, restart, kill | check-then-start, stale sockets, a second daemon |
| `kr transfer` (`kr/transfer_authority.go`) | three pairing files, profile, public key | pair twice, move files, restart | failure at any step; other programs restart krd meanwhile |
| SSH configuration (`kr/sshconfig.go`, `krd/main/sshconfig.go`) | `~/.ssh/config` and backups | append, migrate, clean, rename | rewrites by kr and krd, cut short |
| `krgpg`, `kr codesign` (`krgpg/krgpg.go`, `kr/kr_pgp.go`) | git configuration | sign, fall back to gpg, install, uninstall | objects are taken apart and put together elsewhere |
| `pkcs11shim`, `sigchaingobridge`, analytics, updates | none of interest | | |

How they meet: the control server and the agent call the EnclaveClient from one
goroutine per connection. `tryRequest` starts one goroutine per request, which
sends the request and then polls SQS *for everybody*: whatever it reads goes
through `handleCiphertext` and `handleMessage` to whoever registered a callback.
The Bluetooth goroutine does the same with what it reads. `Pair` and `Unpair`
run in between, under `ec.Mutex`.

## 2. Modules

| Module | Models | Used by |
|---|---|---|
| `EnclaveClient` | pairing, key exchange, queue, profile and files, with crashes | `MC_EnclaveClient`, `EnclaveClient_proofs` |
| `LRU` | the cache as operators on sequences of keys | `RequestDispatch`, `SshAgent` |
| `RequestDispatch` | callers, workers, handlers and `ec.Mutex` around the callback channels | `MC_RequestDispatch`, `RequestDispatch_proofs` |
| `Transport` | the AWS calls behind `SendMessage`, `PushAlert` and `Read` | `MC_Transport`, `Transport_proofs` |
| `Channel` | what the client expects of a transport, in one direction (abstract) | `Transport`, as refinement |
| `NotifyLog`, `SshAgent`, `SshPacket`, `Krssh` | notification files, the agent, `parseSSHPacket`, the proxy | `SshSession` |
| `SshSession` | SSH sessions end to end, composed of these | `MC_SshSession`, `SshSession_proofs` |
| `Script` | the steps a program still has to take | `Daemon`, `SshConfig`, `GitConfig`, `TransferAuthority` |
| `Daemon`, `SshConfig`, `GitConfig` | krd processes and sockets, `~/.ssh/config`, git settings | `Workstation` |
| `Workstation` | the commands that set a workstation up, composed of these | `MC_Workstation`, `Workstation_proofs` |
| `ControlServer`, `KrdClient` | krd as its clients see it, and what they make of its answers | `KrdUsers` |
| `TransferAuthority`, `Krgpg` | `kr transfer`, and git's signing program | `KrdUsers` |
| `KrdUsers` | programs that share one krd, composed of these | `MC_KrdUsers`, `KrdUsers_proofs` |
| `Selection` | the members of a sequence that are in a set, as the loop that appends them | `SshConfig`, `TransferAuthority` |
| `MC_*` | model values and symmetry for TLC | the `.cfg` files |
| `*_proofs` | theorems and lemmas | TLAPS |

`EnclaveClient` and `RequestDispatch` look at the same code with different grain. In
`EnclaveClient` delivering an answer is one step and what matters is *which
pairing* a goroutine works for. In `RequestDispatch` the pairing is reduced to
"none / waiting for the key / paired" and what matters is *who waits for whom*.

Definitions that would be tempting to get wrong are operators of their own
(`IsCurrent`, `TakenQueue`, `AnsweredCallbacks`, ...). In front of each stands a
variant with a plausible bug, which no action uses: it is put in place of the
right one to see that a property notices.

### EnclaveClient

| State | Code |
|---|---|
| `pairingSecret`, `outgoingQueue`, `cachedMe`, `pending` | the fields of `EnclaveClient` |
| `enclaveKey[p]` | `EnclavePublicKey` of each pairing secret some goroutine still holds |
| `savedPairing`, `savedKey`, `savedMe` | `pairing.json`, `me` |
| `reader[t]` | locals of `handleCiphertext` in the Bluetooth goroutine or in the worker of request `t`: the pairing it read, the ciphertext, the queue it took |
| `request[r]` | where caller and worker of request `r` are, and the pairing the request was made under |
| `notices` | goroutines started by `unpair` to tell the phone |
| `sent`, `savedBy`, `retired`, `overflowed`, `generated` | history |

A step is what a goroutine does between two points where another may run.
`handleCiphertext` is thus `HandleCiphertext` (reads the pairing under
`ec.Mutex`), `Unwrap` (under the secret's mutex), `Flush` (under `ec.Mutex`),
`SaveUnwrapped` (no lock), `Resend`, and `HandleUnpair` or `HandleResponse` (one
critical section of `handleMessage`, its saves included). `sendMessage` is
`SendMessage` and `Enqueue`, because it takes `ec.Mutex` only after
`EncryptMessage` failed. `unpair` and `generatePairing` with all their calls are
inside `Unpair`, `Pair` and `HandleUnpair`.

A phone is its public key and cryptography is ideal: what was sealed for another
pairing or by another phone does not open. `InFlight` says what a phone may have
sent; any such message can arrive at any time, any number of times, or never, so
loss, delay, reordering and duplication over both media are covered. A worker
reads only the queue of the pairing its request was made under.

`Restart` may happen in any state. `CrashWhileClearing`, `CrashWhileSaving` and
`CrashWhileSavingMe` are crashes inside the persister: between the removal of the
two files, and after `WriteFile` truncated one. What `Start` finds on disk is
what it loads, each file independently of the other.

### RequestDispatch

`mutex` is `ec.Mutex` together with what it was taken for. A holder that may have
to wait for room in a channel takes two steps (`HandleAck`/`FinishAck`,
`GiveUp`/`FinishGiveUp`, `HandleUnpair`/`CancelOldest`.../`FinishUnpair`): if the
channel is full the second is disabled and the mutex stays taken. Critical
sections that cannot wait are one step with `mutex = Free` as guard.

The caller (`tryRequest`) reads its channel only in state `waiting`. In `alert` and
`returning` it needs the mutex and does not read. The worker registers its
callback, polls, and at the end of each round looks up both caches
(`CheckPending`) and then the clock (`CheckTime`, after the mutex was released,
when it saw no acknowledgement). What a round of polling reads appears as
`HandleAck`, `HandleResponse`, `HandleUnpair`, which may be run by any worker or
by the Bluetooth goroutine.

Time is the phase of a request: before its timeout, after it, after timeout +
`ACKDelay`. The caller's extension after an acknowledgement starts when it reads
it and is not tied to the worker's, so `CallerTimeout` is enabled at any time
after an ACK.

### Transport and Channel

One action per AWS call (`CreateQueue`, `SendMessage`, `Publish`, `ReceiveMessage`,
`DeleteMessageBatch`), since the calls of the goroutines interleave: every waiting
request runs a `Read` of its own. Any call may fail, before or after AWS did the
work, at most `MaxFaults` times. `ReceiveFirst`, `ReadCreatesQueue`, `ReceiveAgain`
and `ReadDeletes` are the four places of `ReceiveAndDeleteFromQueue`; the second
`ReceiveMessage` throws away what it got, and `VisibilityTimeout` (SQS, external)
shows it again. `Channel` is the contract: delivered at least once, in any order, and
never lost without an error. `Transport` implements it in both directions
(`SendIsChannel`, `ReceiveIsChannel`); `EnclaveClient` assumes less (any message may
be lost, repeated or delayed), so its results do not depend on it.

### SshSession

`SshAgent` has a program counter per `Sign`: `CheckForHostAuth` and
`RegisterCallback` are two critical sections, as in the code, with `onHostAuth`
possible in between. `OnHostAuth` is the whole handler: it remembers the signature and,
when the session has a callback, runs into the type assertion that cannot succeed
(section 5). `Krssh` is `main`, the parser, `sendHostAuth` and the two loggers.
`NotifyLog` is what passes between the two: krd appends, every reader truncates when it
opens. The lines of a file have one length, so that an offset counts lines. `SshPacket`
computes modulo `Word`. `due` and `age` are history variables of the composition: what
a logger that listens must still read, and how many host signatures came since a
session's own.

### Workstation

A program is the list of steps it still has to take (`Script`). `DaemonDial` expands
into starting krd, connecting, and one retry after a kill and a restart; a rewrite of
`~/.ssh/config` into backup, truncation and write, because `ioutil.WriteFile` truncates
first. krd itself is such a program: it rewrites the SSH configuration, listens on
three sockets one after the other, and catches signals only at the end, so a `pkill`
before that leaves its sockets behind. `disturbed` records that two programs used the
daemon at once, or that a daemon took longer than the second it is given; `atRisk`
that a rewrite without a backup was cut short, or that one began from a file that an
unfinished one had emptied; `forced`, `cut` and `turnedOn` what
the user asked for.

### KrdUsers

`ControlServer` has one action per handler over an enclave client reduced to its
pairing and its cached profile, and `Answer` and `TimeOut` for the requests that wait
for the phone. krd also writes `pairing.json` of its own accord, at any time: the key of
the phone that scanned the code is unwrapped (`Scan`) and saved without a lock
(`SaveScanned`), any response may carry an SNS endpoint or a tracking ID and save the
pairing (`Answer`), an acknowledgement or an answer that comes too late for its caller
does the same (`Acknowledge`), and the phone's unpair command removes the file
(`PhoneUnpairs`). `unsaved` has the keys a crash would lose, `forgotten` the pairings a
phone has ended by itself, and the history variable `late` records that krd wrote or
removed the file when it held another pairing than krd, or none. A killed krd leaves
its callers without a response; the next program that dials starts it again from the
files. `KrdClient` maps statuses to errors.
`TransferAuthority` lists the steps of each function of `kr/transfer_authority.go`, and
`GiveUp` may end the command before any of them: an error that is returned,
`PrintFatal`, or the user's interrupt. The profiles that krd returned are kept in
`transfer` and are what `SaveProfile` writes. `Undisturbed` says that `late` is still
false and that neither phone of the transfer has unpaired by itself. `Krgpg` takes an
object apart line by line and keeps which lines have runs of blanks, because
`readLineSplittingFirstToken` squeezes them; it throws away the first token of the
committer's line and of three lines of a tag, whatever it is. The phone (external) puts
the object together again.

## 3. What TLC checks

| Run | Instance | States | Shows |
|---|---|---|---|
| `key_saved` | 2 pairings, 1 phone, 1 profile request, queue of 1, fair readers | 0.21 M | `OnlyUnwrapSaveIsStale`, `KeyLossWindow`, `RequestNeverVanishes`, `KeyLossWindowCloses` |
| `queueing` | 1 pairing, 2 phones, 2 requests, queue of 1 | 2.8 M | `TypeOK` (the cap of the queue), `RequestNeverVanishes`, `FirstKeyWins` |
| `dispatch` | 2 requests, caches of 1, channels of 2, 1 ACK each | 5.7 M | `TypeOK`, `OneFinalAnswer`, `MutexNeverStuck`, `NobodyWaitsForNothing`, `CallbackHasWorker` |
| `dispatch_live` | 1 request, channel of 5, 4 ACKs, fair | 34 k | `EveryRequestReturns`, `EveryCallbackIsRemoved` |
| `transport` | 1 request, 1 answer and 1 garbled message, 2 readers, 2 faults, fair | 0.20 M | `TypeOK`, `SendIsChannel`, `ReceiveIsChannel`, `SentArrives`, `AnswersArrive` |
| `ssh_session` | 2 sessions of which 1 signs, 1 remembered signature, 1 callback, words of 18, fair | 0.17 M | `TypeOK`, `ParsesExactly`, `LatestHostsAreKnown`, `RejectedSessionIsKilled`, `SignReturns`, `NotificationsAreRead` |
| `workstation` | kr and krssh, 2 krds, 2 commands, 1 fault, ssh 6.7 or 7.3 | 1.6 M | `TypeOK`, `LinesKept`, `NoSecondBlock`, `IdentityAgentSupported`, `SerialDialsConnect`, `OneDaemonServes`, `GitKeepsCommitting` |
| `krd_users` | kr, git and one more program, 8 objects, 2 lists of hosts, while `Undisturbed` | 3.0 M | `TypeOK`, `OldStaysPaired`, `PairingsKept`, `HostsSeeTheOldPhone`, `TransferEndsOnTheNewPhone`, `ServicesAsked`, `ExitZeroMeansSigned`, `PhoneSignsTheObject` |
| `retired`, `profile`, `dispatch_stuck`, `host_auth_panic` | smallest that shows it | | disagreements, see section 5 |

The client's pairing and dispatch:

* `OnlyUnwrapSaveIsStale`: the file names another pairing than memory only after
  the one save that is made without `ec.Mutex`. Pair, Unpair, the unpair command,
  the saves of `handleMessage`, and crashes in any of them never do that.
* `KeyLossWindow`: a phone sends its key once. Disk and memory disagree about it
  only while the goroutine that unwrapped it is on its way to `SavePairing`, and
  `KeyLossWindowCloses`: that ends unless the daemon crashes or the pairing changes.
* `FirstKeyWins`: within a pairing no phone replaces another; only a restart
  forgets a key, and none that was saved.
* `RequestNeverVanishes`: of a request under the current pairing that is being
  polled for, the message was sent, is queued, is in the hands of a flushing
  goroutine, or was dropped by the cap. (It may be queued after the flush and
  then wait for ever; the caller times out. The property does not rule that out.)
* `OneFinalAnswer`: nothing follows a response or a cancellation in a channel.
* `MutexNeverStuck`: whoever holds the mutex finds room where it sends. Needs
  fewer ACKs per request than the channel holds.
* `NobodyWaitsForNothing`: a caller without a worker has an answer in its
  channel, unless its callback was evicted.
* `CallbackHasWorker`: no callback outlives its worker.
* `EveryRequestReturns`, `EveryCallbackIsRemoved`: as they say.

Transport:

* `SendIsChannel`, `ReceiveIsChannel`: the two directions implement `Channel`. A
  request for which `SendToQueue` returned no error is under way or received; an
  answer can be received until a `Read` hands it out, and only a `Read` whose delete
  failed may lose it, with an error.
* `SentArrives`, `AnswersArrive`: it gets there in the end, also through a queue that
  had to be created, and past a garbled message of the same batch.

SSH sessions:

* `LatestHostsAreKnown`: the phone is shown the host exactly when its signature is
  among the latest `MaxSigs` when `Sign` looks. (One that arrives in the second after
  that comes too late or panics; see section 5.)
* `RejectedSessionIsKilled`: if the session's logger listened, a rejection has ended
  krssh before `Sign` returns and ssh can go on to another key.
* `SignReturns`: with or without a host signature, unless the daemon dies.
* `NotificationsAreRead`: what is written while a logger listens is read by it,
  unless another krssh truncates the shared file.
* `ParsesExactly`: for every two lengths, `parseSSHPacket` accepts exactly what lies in
  the buffer without wrapping round.

Setting up a workstation:

* `LinesKept`: the user's own lines are in the configuration, in a backup, or about to
  be written, whatever is interrupted. Two exceptions, both losses the code really
  has: a rewrite that makes no backup is cut short, and a rewrite begins from a file
  that another one has emptied, be that one at work or cut short (its own backup, if it
  makes one, then replaces the last that had the lines).
* `NoSecondBlock`: only `--force` adds a second block, also across upgrades of ssh,
  migration and renaming. `IdentityAgentSupported`: ssh knows the options it is given.
* `SerialDialsConnect`: a program that has the daemon for itself gets through,
  whatever the last one left behind. `OneDaemonServes`: it then finds one daemon on all
  three sockets.
* `GitKeepsCommitting`: between commands git neither signs with a removed program nor
  by a setting that kr made and has taken back.

Programs that share krd:

* `OldStaysPaired`, `PairingsKept`: a transfer that fails anywhere has not unpaired the
  old phone, and every pairing a phone keeps and whose key was saved is in one of the
  files. These two and the next two are stated while `Undisturbed`; what happens
  otherwise is in section 5.
* `HostsSeeTheOldPhone`, `TransferEndsOnTheNewPhone`: pairing, profile and public key
  agree in the phases that depend on it, although another program may restart krd or
  ask for the profile at any time. `ServicesAsked`: no upload is forgotten.
* `ExitZeroMeansSigned`: git is told success only with a signature.
  `PhoneSignsTheObject`: what was signed is what git stores, except that a header with
  a run of blanks is squeezed, and a line whose name krgpg does not read may get
  another one (git then finds a bad signature).

Definitions that a property is meant to guard have a variant with a plausible bug in
front of them, as section 2 says; with it in place TLC finds the property violated.

**Bounds.** Two pairings are the least for one to be stale, two phones the least
for one to replace another. With a queue of one message a second one overflows.
With a cache of one entry a second request evicts the first, which is 129 requests
in the code; a channel of 2 with 1 ACK per request is the same margin as 5 with 4,
which `dispatch_live` uses. Two sessions with room for one signature and one callback
push each other out; two readers with batches of two share and split a batch; a `Word`
of 18 has lengths that wrap, that are too long and that fit. Two krd processes are the
least for one to take the other's sockets, two commands the least for one to follow or
meet the other. `MaxPairings`, `MaxAcks`, `MaxFaults` and `MaxCommands` bound counters
in the guards. Further: `Sign` is acknowledged once, `SshLists` writes its warning once
at a time, two programs do not have `~/.ssh/config` truncated at the same time,
`KrdUsers` runs one kr command that ends, and gpg is installed; its cfg has the
constraint `Undisturbed`, because the four properties say nothing of the states after a
late save, and the others, which do hold there, are proved without it. Each request ID
is used once, as in the code. Phones, requests and krd processes are symmetric where a
run checks safety only; the liveness runs use no symmetry.

**Deadlock.** The daemon can always be restarted or paired, the transport be read and
krd be asked, so six of the passing runs check for deadlock. `ssh_session` and
`workstation` switch it off: their sessions and commands are used up. So do three of
the violation runs.

**Fairness.** `EnclaveClient`: a goroutine inside `handleCiphertext` goes on (weak
fairness); its critical sections are short. `RequestDispatch`: time passes and
runnable goroutines are scheduled (weak fairness); steps that need `ec.Mutex` get
strong fairness, since Go's mutex hands the lock to a waiter that has starved for
a millisecond. Nothing is assumed of the phone, of the network or of the user.
`Transport`: calls return, the requests that wait keep reading, the phone polls its
queue and SQS shows again what was not deleted; a push may never happen. `SshSession`:
the steps of `Sign` and the polling loggers are scheduled, each timeout of `Sign`
included; nothing is assumed of ssh, of the remote side or of the phone's ACK.
(`Answered` includes the timeout of `RequestSignature`, whose return is
`EveryRequestReturns`.)

## 4. What is proved

For all values of the constants, under the named assumptions of the modules
(capacities are positive, the special values are distinct from requests and keys):

| Theorem | States |
|---|---|
| `EnclaveClient_proofs!TypeCorrect` | `Spec => []TypeOK` |
| `...!OnlyUnwrapSavesStale`, `KeyLossOnlyInWindow`, `NoRequestVanishes` | the invariants of the same names |
| `...!FirstKeyStays` | `Spec => FirstKeyWins` |
| `RequestDispatch_proofs!TypeCorrect` | `Spec => []TypeOK` |
| `...!AtMostOneAnswer`, `NoLeakedCallback`, `AnswerIsThere` | `OneFinalAnswer`, `CallbackHasWorker`, `NobodyWaitsForNothing` |
| `...!MutexIsReleased` | `MaxAcks < CbCap` implies `Spec => []MutexNeverStuck` |
| `LRU_proofs!LruAddKeys` | `Add` returns a cache within its capacity that has the new key |
| `Transport_proofs!TypeCorrect` | `Spec => []TypeOK` |
| `...!SendImplementsChannel`, `ReceiveImplementsChannel` | `Spec => SendIsChannel`, `Spec => ReceiveIsChannel` (refinement of `Channel`) |
| `SshSession_proofs!TypeCorrect` | `Spec => []TypeOK` |
| `...!PacketsParsedExactly` | `ParsesExactly`, for every width of the lengths |
| `...!LatestHostsKnown`, `RejectedKilled` | `LatestHostsAreKnown`, `RejectedSessionIsKilled` |
| `Workstation_proofs!TypeCorrect` | `Spec => []TypeOK` |
| `...!UserLinesKept`, `OneBlockOnly`, `AgentSupported` | `LinesKept`, `NoSecondBlock`, `IdentityAgentSupported` |
| `...!DialsConnect`, `OneDaemon` | `SerialDialsConnect`, `OneDaemonServes` |
| `...!GitStaysUsable` | `GitKeepsCommitting` |
| `KrdUsers_proofs!TypeCorrect` | `Spec => []TypeOK` |
| `...!OldPhoneStaysPaired`, `NoPairingLost`, `HostsSeeOld`, `EndsOnNew` | `OldStaysPaired`, `PairingsKept`, `HostsSeeTheOldPhone`, `TransferEndsOnTheNewPhone` |
| `...!AsksEveryService` | `NoHostNamedPGP` implies `Spec => []ServicesAsked` |
| `...!PartsGiveTheObject`, `PhoneSignsObject`, `ExitZeroSigned` | what the phone puts together from `krgpg`'s parts is the object with squeezed headers; `PhoneSignsTheObject`, `ExitZeroMeansSigned` |

Every invariant that a passing run checks is thus a theorem. The assumptions are those
TLC evaluates on each run: `TransportAssumption` (the two directions have different
messages), `PacketAssumption` (the largest payload and padding together stay below the
wrap-around), `CallersAssumption` and `KrAssumption` (kr is one of the programs, and is
neither git nor a krd), `KrgpgAssumption` (objects are sequences of lines),
`HostListsAssumption`, `VersionsAssumption`, `NoneAssumption`. `NoHostNamedPGP` is a
hypothesis of one theorem, not an assumption: `getAndPrintSummary` appends the literal
`pgp-github.com` for the PGP key to the names of hosts, and a host of that name in
the list would be taken for it.

*EnclaveClient.* The inductive invariant `Inv` adds to `TypeOK` that a reader past
`UnwrapKeyIfPresent` holds a pairing that has its key (else `SaveUnwrapped` could
save a pairing without one), that it holds queued messages only between flush and
resend (else a reader could drop them when it goes idle), and that a pairing that
was not generated yet is nowhere and has no key (else `Pair` could make one that is
not fresh). The theorems on single properties use `[]Inv` and their own property
as induction hypothesis.

*RequestDispatch.* None of the properties is inductive alone. `Inv` has, for each
request: nothing is in its channel before the worker registered it (`Unsent`); a
callback has a live worker (`HasWorker`); a final answer is the last item and
excludes a callback (`FinalAnswer`); a waiting caller without a callback was evicted
or has its answer at the end of the channel (`AnswerKept`); and while the callback is
registered, the channel holds only ACKs that were handled, counting the one being
delivered (`AcksOnly`). The last one gives `MutexNeverStuck`: a channel with a
callback has at most `MaxAcks` items. One lemma shows that `RequestOK(r)` is kept by
any step that leaves `r`'s variables alone, so each action is proved only for the
request it serves. Lemmas on the keys of the cache after `Get`, `Add`, `Remove` and
`RemoveOldest` are in `LRU_proofs`.

*Transport.* The two directions share only which queues exist, so `Inv` has a part for
each. `Copies` bounds what one `SendToQueue` can leave in the queue (two: the first
call that failed after AWS did the work, and the retry), `Accounted` says that a
`SendToQueue` without an error left a copy that only the phone removes. `Traced` is the
heart of the other direction: an answer that was deleted from the queue is in the hands
of a `Read`, was returned by one, or belonged to a `Read` that returned an error. A
message that the second `ReceiveMessage` threw away is still in the queue. Each
refinement is then proved action by action: a step or a stutter of `Channel`.

*SshSession.* That the wrapped lengths of `parseSSHPacket` accept exactly what fits is
arithmetic. For `LatestHostsAreKnown` the invariant ties the history to the cache:
until `Sign` looks, the `age` of a host signature *is* its place in `sigs`, and it has
fallen out only if there are `MaxSigs` newer ones (`Aged`); `Fresh` has krssh hand it
over once. For `RejectedSessionIsKilled` it says what a `Sign` still has to write, by
how far it got (`ToWrite`), where its logger is (`LoggerInStep`), that STOP is the last
line of a file (`StopComesLast`), and that a KILL which was written is ahead of the
logger (`KillIsAhead`).

*Workstation.* `Inv` has five parts, each proved on top of the ones before it.
`ScriptInv` is about the programs' steps alone: a rewrite that was begun comes before
everything else (`InOrder`), `ping`, `start` and `reconnect` come after what they need
(`Preceded`), one command does not both switch signing on and remove it (`SetsGit`);
one lemma shows that replacing a step by the steps of the function it calls
keeps all three. `FileInv` bounds the file and says, for the file *and for what every
editor has read and will write*, that it has one block unless `--force` was used, and no
`IdentityAgent` unless ssh has it; the buffers are needed because a rewrite begun
before another one ends with the older contents. `LinesInv` locates the user's lines in
every phase of a rewrite. `GitInv` says which settings the rest of the command will
still take back. `DaemonInv` holds until clients disturb each other: there is one krd,
the sockets it has passed in `main` are its own (`OwnSockets`), only one client dials
(`OneDials`), and what that client finds at each step is what its earlier steps saw to
(`Finds`): nothing is running when it starts krd, all that is left after a kill is
about to exit, and the krd it reconnects to is not the one it killed.

*KrdUsers.* The invariant is `Base /\ (Undisturbed => InOrder)` (theorem `Structure`).
`Base` holds whatever krd saves and when: the types, that kr takes the 27 steps of its
command in turn, and which request of kr can be outstanding at which step
(`CallsByStep`). `ServicesAsked` and the properties of krgpg need no more. `InOrder` says
what is on disk and in krd (`AtStep(k)`) and which profiles kr has got (`ProfilesAt(k)`)
at each step `k`. One lemma shows that a transfer once disturbed stays so, and hence a
step that leads to an undisturbed state begins in one: there every save of krd finds
its own pairing in the file and changes nothing that `AtStep` mentions. Other programs
act between any two steps; the lemma on `Upkeep` shows that what they may do
leaves `AtStep` alone: they ask for profiles, which krd may cache late
(`ProfilesOnTheWay`), and may find krd down, which restarts it from the files.
`WaitsForPhone` says which requests wait for a phone at all, and `AllKept` that a
pairing kr obtained is kept somewhere on disk unless it was unpaired. `ServicesInv` has the PGP key as the last of
the services, so that declining it, which ends the loop, skips nothing. `krgpg`'s part
is `KrgpgInv`, with lemmas on where `AuthorAt` ends the loop over the parents and on
what squeezing keeps, for objects of any length.

`Selection_proofs` and `LRU_proofs` hold what the others need of the loop that selects and
of the cache. What a recursive function computes is shown by the least index at which
it would fail, since induction theorems with an operator as parameter are out of the
provers' reach.

Proving found two places where the model said less than it seemed to: `Parse` of
`Krgpg` and `Error` of `KrdClient` were CASE expressions with overlapping guards, of
which TLC takes the first and the semantics any. They now say in which order the code
tests.

Only model-checked: the liveness properties (`KeyLossWindowCloses`,
`EveryRequestReturns`, `EveryCallbackIsRemoved`, `SentArrives`, `AnswersArrive`,
`SignReturns`, `NotificationsAreRead`), which need fairness and ENABLED.

## 5. Disagreements between code and documentation

* `retired`: the unlocked `SavePairing` in `handleCiphertext` can write a pairing that
  `Pair` or `Unpair` dropped; the next start loads it.
* `profile`: `RequestMe` stores a profile after `Unpair` cleared it; an unpaired
  daemon then answers profile requests.
* `dispatch_stuck`: a sixth ACK of a request whose caller waits for the mutex blocks
  the client for good.
* `host_auth_panic`: `onHostAuth` asserts that the cached value is a
  `hostAuthCallback`, and `awaitHostAuthFor` stores a plain channel. A host signature
  for a session that waits, or has waited, ends the daemon.

Behaviour that the models have and that no property forbids, because nothing in the
repository says otherwise: a reader of an old pairing may flush the queue of the new
one to the old phone; an alert goes to the pairing that is current when its timer
fires; uninstalling leaves a block of the other format in `~/.ssh/config`; a commit
whose author has two blanks in a row gets a bad signature.

The last behaviour of this kind is a late save that meets `kr transfer`. `KillKrd` kills
krd and then sleeps for a second, in which git (or any program that dials) may start
krd again with the pairing that kr is about to move. When kr has renamed the file, an
answer of that pairing's phone makes `handleMessage` write it again
(`krd/enclave_client.go:733-743`). Without the guard `Undisturbed` TLC finds, with git
alone beside kr: the old phone told to unpair when kr pairs the new one (against
`OldStaysPaired`, 26 states), the old pairing overwritten by the new one and in no file
(`PairingsKept`, 38), the hosts signed for with the new phone (`HostsSeeTheOldPhone`,
42), and a transfer that reports success with krd on the old phone
(`TransferEndsOnTheNewPhone`, 54). An unpair command that one of the two phones sends
during the transfer makes them fail in the same way. No document, comment or test of the
repository says what the user may run beside `kr transfer`, so this is no disagreement
of the kind above; the four properties state what holds when it does not happen, for
any number of other programs, and however often krd dies and starts again.

## 6. What is not modelled

Abstractions on purpose, each of which a property may depend on:

* `GraceEnds`: the second that `Sign` sleeps after a rejection is long enough for a
  logger that polls every 50 ms to have caught up. The code only sleeps.
* `TryParse`: reads after the key exchange are encrypted and are taken to hold no key
  exchange reply. Before that any number of reads is parsed.
* SQS keeps a message for two days (`aws.go:287`) and then drops it without an error.
  `Transport` has no such drop; requests time out within minutes.
* `WriteFile`: two editors do not have `~/.ssh/config` truncated at the same time.
* `Stop` of the enclave client only closes the Bluetooth driver; a daemon ends by
  `Restart` or `Kill`.

Cryptography is ideal. Errors of file writes are only logged by the daemon and not
modelled; neither is the SNS endpoint and tracking ID in `EnclaveClient` (only that
they cause a save), `lastActivityByMedium` (it selects between two ways of sending)
and `RequestNoOp`. The control server's version, ping and dashboard handlers, the
agent's calls of the user's original agent other than for a key it has, the check
whether krd is the latest version, `GPG_TTY`, uploads of keys, the loggers of kr and
krgpg, the commands of kr that only print, copy or open a browser, and the Darwin
variants of starting krd change none of the state of the models. Prompts, output,
analytics, update checks, generated bindings, the Bluetooth drivers and their Swift
library, the PKCS#11 stub and the `sigchain` submodule (not in the repository) stay
out.

## 7. Plan

What is left:

1. An abstract specification of a request (asked, then answered, cancelled or timed
   out once) that `RequestDispatch` implements, proved in `RequestDispatch_proofs`.
2. Action properties worth stating beside the invariants: what one program's step may
   never do to the file, the sockets or the pairing of another.
