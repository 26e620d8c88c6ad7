---------------------------- MODULE ControlServer ----------------------------
(***************************************************************************)
(* krd as its clients see it: the handlers of the control server, over     *)
(* what the enclave client does for them (EnclaveClient and                *)
(* RequestDispatch have its details), and the files krd starts from.       *)
(***************************************************************************)
EXTENDS Integers, FiniteSets

CONSTANTS
    Callers,  \* the programs that call krd
    None      \* no pairing, no profile, no answer

VARIABLES
    krd,       \* the daemon's memory: its pairing and its cached profile
    disk,      \* the files: the pairing, the two copies that a transfer
               \* makes of it, the profile, the public key
    scanned,   \* pairings whose code a phone has scanned and whose key krd got
    unpaired,  \* pairings whose phone was told to unpair
    forgotten, \* pairings whose phone has unpaired by itself
    saving,    \* pairings whose key krd has unwrapped and is about to save
    unsaved,   \* pairings whose key is in krd's memory only
    late,      \* history: krd wrote or removed pairing.json, of its own
               \* accord, when the file held another pairing than krd
    call       \* the call that each program has under way

phoneVars  == <<scanned, unpaired, forgotten>>
saveVars   == <<saving, unsaved, late>>
serverVars == <<krd, disk, phoneVars, saveVars, call>>

(* The pairing there was, and those a transfer makes with the old and the  *)
(* new phone.  A profile is named after the pairing it came by.            *)
Pairings == {"prior", "old", "new"}

ASSUME NoneAssumption == None \notin Pairings

Ops      == {"putOld", "putNew", "delete", "getPair", "me", "hosts", "gitSign"}
Statuses == {0, 200, 404, 500}   \* 0: no response

Idle == [pc |-> "idle", op |-> "none", pairing |-> None, status |-> 0, body |-> None]

ServerTypeOK ==
    /\ krd.up \in BOOLEAN /\ {krd.pairing, krd.me} \subseteq Pairings \cup {None}
    /\ disk \in [{"pairing", "old", "new", "me", "pub"} -> Pairings \cup {None}]
    /\ {scanned, unpaired, forgotten, saving, unsaved} \subseteq SUBSET Pairings
    /\ late \in BOOLEAN
    /\ \A c \in Callers :
          /\ call[c].pc \in {"idle", "sent", "waiting", "replied"}
          /\ call[c].op \in Ops \cup {"none"} /\ call[c].status \in Statuses

Down == [up |-> FALSE, pairing |-> None, me |-> None]

(* A paired workstation whose daemon does not run.                         *)
ServerInit ==
    /\ krd = Down
    /\ disk = [pairing |-> "prior", old |-> None, new |-> None, me |-> "prior", pub |-> "prior"]
    /\ scanned = {"prior"} /\ unpaired = {} /\ forgotten = {}
    /\ saving = {} /\ unsaved = {} /\ late = FALSE
    /\ call = [c \in Callers |-> Idle]

-----------------------------------------------------------------------------
(* Start of the enclave client: it loads the pairing and the profile, and  *)
(* writes the public key of the profile.                                   *)
Start ==
    /\ krd' = [up |-> TRUE, pairing |-> disk.pairing, me |-> disk.me]
    /\ disk' = IF disk.me = None THEN disk ELSE [disk EXCEPT !.pub = disk.me]

(* The daemon is killed: whoever waits for an answer gets none, and a key  *)
(* that was not saved is lost.                                             *)
Kill ==
    /\ krd' = Down
    /\ scanned' = scanned \ unsaved /\ saving' = {} /\ unsaved' = {}
    /\ UNCHANGED <<disk, unpaired, forgotten, late>>
    /\ call' = [c \in Callers |->
           IF call[c].pc \in {"sent", "waiting"} THEN [call[c] EXCEPT !.pc = "replied"]
           ELSE call[c]]

(* A program dials krd, which starts it if it does not run, and writes.    *)
Send(c, op) ==
    /\ call[c].pc = "idle"
    /\ call' = [call EXCEPT ![c] = [Idle EXCEPT !.pc = "sent", !.op = op]]
    /\ IF krd.up THEN UNCHANGED <<krd, disk>> ELSE Start
    /\ UNCHANGED <<phoneVars, saveVars>>

Reply(c, status, body) ==
    call' = [call EXCEPT ![c].pc = "replied", ![c].status = status, ![c].body = body]

(* handleEnclaveGeneric, handleGetPair: tryRequest for the pairing there   *)
(* is, or "not paired".                                                    *)
TryRequest(c) ==
    IF krd.pairing = None THEN Reply(c, 404, None)
    ELSE call' = [call EXCEPT ![c].pc = "waiting", ![c].pairing = krd.pairing]

Told == IF krd.pairing = None THEN unpaired ELSE unpaired \cup {krd.pairing}

(* Pair: the existing pairing is unpaired, the new one is saved.  Only the *)
(* unpairing clears the cached profile.                                    *)
HandlePutPair(c, p) ==
    /\ call[c].op = (IF p = "old" THEN "putOld" ELSE "putNew")
    /\ krd' = [krd EXCEPT !.pairing = p, !.me = IF krd.pairing = None THEN @ ELSE None]
    /\ disk' = [disk EXCEPT !.pairing = p, !.me = None]
    /\ unpaired' = Told
    /\ Reply(c, 200, None)

HandleDeletePair(c) ==
    /\ call[c].op = "delete"
    /\ IF krd.pairing = None THEN UNCHANGED <<krd, disk>>
       ELSE /\ krd' = [krd EXCEPT !.pairing = None, !.me = None]
            /\ disk' = [disk EXCEPT !.pairing = None, !.me = None]
    /\ unpaired' = Told
    /\ Reply(c, 200, None)

HandleGetPair(c) ==
    /\ call[c].op = "getPair"
    /\ TryRequest(c)
    /\ UNCHANGED <<krd, disk, unpaired>>

HandleEnclaveMe(c) ==
    /\ call[c].op = "me"
    /\ IF krd.me # None THEN Reply(c, 200, krd.me)
       ELSE IF krd.pairing \notin scanned THEN Reply(c, 404, None)
       ELSE TryRequest(c)
    /\ UNCHANGED <<krd, disk, unpaired>>

HandleEnclaveGeneric(c) ==
    /\ call[c].op \in {"hosts", "gitSign"}
    /\ TryRequest(c)
    /\ UNCHANGED <<krd, disk, unpaired>>

Serve(c) ==
    /\ call[c].pc = "sent"
    /\ \/ \E p \in {"old", "new"} : HandlePutPair(c, p)
       \/ HandleDeletePair(c)
       \/ HandleGetPair(c)
       \/ HandleEnclaveMe(c)
       \/ HandleEnclaveGeneric(c)
    /\ UNCHANGED <<scanned, forgotten, saveVars>>

-----------------------------------------------------------------------------
(* SavePairing overwrites the file, whatever it holds by now; files is     *)
(* what else the step writes.                                              *)
SavePairing(p, files) ==
    /\ disk' = [files EXCEPT !.pairing = p]
    /\ unsaved' = unsaved \ {p}
    /\ late' = (late \/ disk.pairing # p)

(* handleCiphertext: the phone that scanned the code sends its key, which  *)
(* krd unwraps ...                                                         *)
Scan ==
    /\ krd.pairing \in Pairings \ (scanned \cup forgotten)
    /\ scanned' = scanned \cup {krd.pairing}
    /\ saving' = saving \cup {krd.pairing} /\ unsaved' = unsaved \cup {krd.pairing}
    /\ UNCHANGED <<krd, disk, unpaired, forgotten, late, call>>

(* ... and saves with the pairing it began with, holding no lock.          *)
SaveScanned(p) ==
    /\ p \in saving /\ saving' = saving \ {p}
    /\ SavePairing(p, disk)
    /\ UNCHANGED <<krd, phoneVars, call>>

(* handleMessage: a response by the current pairing that has an SNS        *)
(* endpoint or a new tracking ID saves the pairing.  The phone answers;    *)
(* RequestMe caches and saves the profile it got.                          *)
Answer(c, body) ==
    /\ call[c].pc = "waiting" /\ call[c].pairing \in scanned \ forgotten
    /\ LET p       == call[c].pairing
           profile == call[c].op \in {"me", "getPair"}
           files   == IF profile THEN [disk EXCEPT !.me = p, !.pub = p] ELSE disk
       IN  /\ krd' = IF profile THEN [krd EXCEPT !.me = p] ELSE krd
           /\ \/ disk' = files /\ UNCHANGED <<unsaved, late>>
              \/ krd.pairing = p /\ SavePairing(p, files)
           /\ Reply(c, 200, CASE profile -> p [] call[c].op = "gitSign" -> body [] OTHER -> None)
    /\ UNCHANGED <<phoneVars, saving>>

(* An acknowledgement, or an answer that nobody waits for any longer, may  *)
(* save the pairing as well.                                               *)
Acknowledge ==
    /\ krd.pairing \in scanned \ forgotten
    /\ SavePairing(krd.pairing, disk)
    /\ UNCHANGED <<krd, phoneVars, saving, call>>

(* The phone's unpair command: unpair without telling it, and every        *)
(* callback is cancelled.                                                  *)
PhoneUnpairs ==
    /\ krd.pairing \in scanned \ forgotten
    /\ krd' = [krd EXCEPT !.pairing = None, !.me = None]
    /\ disk' = [disk EXCEPT !.pairing = None, !.me = None]
    /\ forgotten' = forgotten \cup {krd.pairing}
    /\ late' = (late \/ disk.pairing \notin {krd.pairing, None})
    /\ call' = [c \in Callers |->
           IF call[c].pc = "waiting" THEN [call[c] EXCEPT !.pc = "replied", !.status = 404]
           ELSE call[c]]
    /\ UNCHANGED <<scanned, unpaired, saving, unsaved>>

(* Nobody answers in time: handleGetPair says 404, the others 500, or 404  *)
(* when the client has lost its pairing meanwhile.                         *)
TimeOut(c) ==
    /\ call[c].pc = "waiting"
    /\ Reply(c, IF call[c].op = "getPair" \/ krd.pairing \notin scanned THEN 404 ELSE 500, None)
    /\ UNCHANGED <<krd, disk, phoneVars, saveVars>>
=============================================================================
