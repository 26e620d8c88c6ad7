-------------------------- MODULE TransferAuthority --------------------------
(***************************************************************************)
(* kr transfer: it pairs with the old phone and with the new one, and puts *)
(* the old pairing back for as long as it takes to log in to the hosts and *)
(* add the new key; between the pairings krd is restarted on other files.  *)
(***************************************************************************)
EXTENDS KrdClient, Script, Selection

CONSTANTS
    Kr,         \* the caller that runs kr
    HostLists   \* the lists of hosts that the old phone may know

ASSUME HostListsAssumption == \A hosts \in HostLists : hosts \in Seq(STRING)

VARIABLE transfer   \* the profiles that krd returned, the hosts still to
                    \* handle, what was done about them, and how it ended

TransferInit == transfer =
    [oldProfile |-> None, newProfile |-> None, left |-> <<>>, services |-> <<>>, due |-> {},
     granted |-> {}, asked |-> {}, ended |-> "not"]

(* No late save has met the transfer, and its phones have not unpaired.    *)
Undisturbed == ~late /\ {"old", "new"} \cap forgotten = {}

TransferTypeOK ==
    /\ transfer.ended \in {"not", "dry run", "failed", "done"}
    /\ transfer.granted \subseteq UNION {ToSet(hosts) : hosts \in HostLists}
    /\ {transfer.oldProfile, transfer.newProfile} \subseteq Pairings \cup {None}
    /\ Undisturbed => disk.old \in {None, "old"} /\ disk.new \in {None, "new"}

TransferSpecialServices == {"github.com", "pgp-github.com", "bitbucket.org", "gitlab.com"}
TransferExcludeServices == {"me.krypt.co", "pintest.krypt.co"}

-----------------------------------------------------------------------------
(* The functions, as the steps they take.  restart is                      *)
(* restartCommandOptions: kill krd, start krd.                             *)
DoPairOldKryptonDevice == <<"putOld", "getPair", "me">>

PairNewWithoutRestart == <<"kill", "rename pairing old", "putNew", "getPair", "me">>

(* (The form above does not restart krd, and is not used.)                 *)
DoPairNewKryptonDevice ==
    <<"kill", "rename pairing old", "kill", "start", "putNew", "getPair", "me">>

RePairWithOldFirst ==
    <<"kill", "rename old pairing", "rename pairing new", "saveMe old",
      "kill", "start", "savePub old">>

RePairWithOldUnsaved ==
    <<"kill", "rename pairing new", "rename old pairing", "kill", "start", "savePub old">>

(* (The first form above has the renames the other way round, the second   *)
(* does not save the profile; neither is used.)                            *)
DoManualRePairWithOldKrypton ==
    <<"kill", "rename pairing new", "rename old pairing", "saveMe old",
      "kill", "start", "savePub old">>

RePairWithNewWithoutProfile ==
    <<"kill", "rename new pairing", "kill", "start", "savePub new">>

(* (The form above does not save the profile, and is not used.)            *)
DoManualRePairWithNewKrypton ==
    <<"kill", "rename new pairing", "saveMe new", "kill", "start", "savePub new">>

TransferAuthorityMain ==
    DoPairOldKryptonDevice \o <<"hosts", "confirm">>
    \o DoPairNewKryptonDevice \o DoManualRePairWithOldKrypton \o <<"authorize">>
    \o DoManualRePairWithNewKrypton \o <<"special">>

Commands == [transfer |-> TransferAuthorityMain, unpair |-> <<"delete">>]

(* Bound: one command that ends.                                           *)
RunKr(command) ==
    /\ todo[Kr] = <<>> /\ transfer.ended = "not" /\ call[Kr].pc = "idle"
    /\ todo' = [todo EXCEPT ![Kr] = Commands[command]]
    /\ UNCHANGED <<serverVars, transfer>>

(* An error is returned, PrintFatal ends kr, or the user interrupts it.    *)
GiveUp ==
    /\ todo[Kr] # <<>>
    /\ todo' = [todo EXCEPT ![Kr] = <<>>]
    /\ transfer' = [transfer EXCEPT !.ended = "failed"]
    /\ call' = [call EXCEPT ![Kr] = Idle]
    /\ UNCHANGED <<krd, disk, phoneVars, saveVars>>

-----------------------------------------------------------------------------
(* A call of krd.                                                          *)
CallKrd(op) ==
    /\ At(Kr, op) /\ Send(Kr, op)
    /\ UNCHANGED <<todo, transfer>>

CallReturns ==
    /\ Replied(Kr) /\ Err(Kr) = "none" /\ ~At(Kr, "refresh")
    /\ HangUp(Kr) /\ Done(Kr)
    /\ \/ /\ call[Kr].op = "hosts"
          /\ \E hosts \in HostLists : transfer' = [transfer EXCEPT !.left = hosts]
       \/ /\ call[Kr].op = "me"
          /\ LET whose == IF transfer.oldProfile = None THEN "oldProfile" ELSE "newProfile"
             IN  transfer' = [transfer EXCEPT ![whose] = call[Kr].body]
       \/ call[Kr].op \notin {"hosts", "me"} /\ UNCHANGED transfer

SummaryPGPFirst(hosts, pgp) ==
    (IF pgp THEN <<"pgp-github.com">> ELSE <<>>)
    \o Only(hosts, TransferSpecialServices)

(* The special cases of getAndPrintSummary.  (The form above has the one   *)
(* for PGP first, and is not used.)                                        *)
GetAndPrintSummary(hosts, pgp) ==
    Only(hosts, TransferSpecialServices)
    \o (IF pgp THEN <<"pgp-github.com">> ELSE <<>>)

(* A dry run ends here, and so does one the user does not confirm.         *)
Confirm(pgp, continue) ==
    /\ At(Kr, "confirm")
    /\ IF continue THEN Done(Kr) ELSE todo' = [todo EXCEPT ![Kr] = <<>>]
    /\ transfer' = [transfer EXCEPT !.services = GetAndPrintSummary(transfer.left, pgp),
                    !.due = (ToSet(transfer.left) \cap TransferSpecialServices)
                                \cup (IF pgp THEN {"pgp-github.com"} ELSE {}),
                    !.ended = IF continue THEN @ ELSE "dry run"]
    /\ UNCHANGED serverVars

KillKrd ==
    /\ At(Kr, "kill") /\ Kill /\ Done(Kr)
    /\ UNCHANGED transfer

StartKrd ==
    /\ At(Kr, "start") /\ Start /\ Done(Kr)
    /\ UNCHANGED <<phoneVars, saveVars, call, transfer>>

Renames == {
    [step |-> "rename pairing old", from |-> "pairing", to |-> "old"],
    [step |-> "rename pairing new", from |-> "pairing", to |-> "new"],
    [step |-> "rename old pairing", from |-> "old", to |-> "pairing"],
    [step |-> "rename new pairing", from |-> "new", to |-> "pairing"]}

(* os.Rename; without a file to rename, kr gives up.                       *)
Rename(r) ==
    /\ At(Kr, r.step) /\ disk[r.from] # None
    /\ disk' = [disk EXCEPT ![r.to] = disk[r.from], ![r.from] = None]
    /\ Done(Kr)
    /\ UNCHANGED <<krd, phoneVars, saveVars, call, transfer>>

Saves == {
    [step |-> "saveMe old", file |-> "me", profile |-> "oldProfile"],
    [step |-> "saveMe new", file |-> "me", profile |-> "newProfile"],
    [step |-> "savePub old", file |-> "pub", profile |-> "oldProfile"],
    [step |-> "savePub new", file |-> "pub", profile |-> "newProfile"]}

(* SaveMe and SaveMySSHPubKey of the profile that krd returned.            *)
SaveProfile(s) ==
    /\ At(Kr, s.step)
    /\ disk' = [disk EXCEPT ![s.file] = transfer[s.profile]]
    /\ Done(Kr)
    /\ UNCHANGED <<krd, phoneVars, saveVars, call, transfer>>

(* The pairing that ssh signs with: krd's, or that of a krd it starts.     *)
Signer == IF krd.up THEN krd.pairing ELSE disk.pairing

(* The loop over the hosts: skipped, declined, failed, or logged in to     *)
(* with the old key.                                                       *)
AuthorizeHost(succeeds) ==
    /\ At(Kr, "authorize") /\ transfer.left # <<>>
    /\ LET host == Head(transfer.left)
           plain == host \notin TransferSpecialServices \cup TransferExcludeServices
       IN  /\ succeeds => plain /\ Signer = "old"
           /\ transfer' = [transfer EXCEPT !.left = Tail(@),
                           !.granted = IF succeeds THEN @ \cup {host} ELSE @]
    /\ IF krd.up THEN UNCHANGED <<krd, disk>> ELSE Start
    /\ UNCHANGED <<phoneVars, saveVars, call, todo>>

HostsHandled ==
    /\ At(Kr, "authorize") /\ transfer.left = <<>>
    /\ Done(Kr)
    /\ UNCHANGED <<serverVars, transfer>>

(* handleSpecialCases: declining the PGP key returns, the others go on;    *)
(* for the PGP key the phone is asked for its profile with every user ID.  *)
HandleSpecialCase(confirmed) ==
    /\ At(Kr, "special") /\ transfer.services # <<>>
    /\ LET service == Head(transfer.services)
           pgp     == service = "pgp-github.com"
       IN  /\ transfer' = [transfer EXCEPT !.asked = @ \cup {service},
                           !.services = IF pgp /\ ~confirmed THEN <<>> ELSE Tail(@)]
           /\ todo' = [todo EXCEPT ![Kr] = IF pgp /\ confirmed THEN <<"refresh">> \o @ ELSE @]
    /\ UNCHANGED serverVars

RequestMeForceRefresh ==
    /\ At(Kr, "refresh")
    /\ \/ Send(Kr, "getPair") /\ UNCHANGED todo
       \/ Replied(Kr) /\ HangUp(Kr) /\ Done(Kr)
    /\ UNCHANGED transfer

TransferDone ==
    /\ At(Kr, "special") /\ transfer.services = <<>>
    /\ Done(Kr)
    /\ transfer' = [transfer EXCEPT !.ended = "done"]
    /\ UNCHANGED serverVars

KrStep ==
    \/ \E op \in Ops : CallKrd(op)
    \/ CallReturns
    \/ \E pgp, continue \in BOOLEAN : Confirm(pgp, continue)
    \/ KillKrd
    \/ StartKrd
    \/ \E r \in Renames : Rename(r)
    \/ \E s \in Saves : SaveProfile(s)
    \/ \E b \in BOOLEAN : AuthorizeHost(b) \/ HandleSpecialCase(b)
    \/ HostsHandled
    \/ RequestMeForceRefresh
    \/ TransferDone
=============================================================================
