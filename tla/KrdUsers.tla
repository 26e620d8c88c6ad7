------------------------------ MODULE KrdUsers ------------------------------
(***************************************************************************)
(* The programs that use krd side by side: kr transfer, krgpg for a git in *)
(* another terminal, and others that only ask who we are.                  *)
(***************************************************************************)
EXTENDS TransferAuthority, Krgpg

ASSUME CallersAssumption == {Kr, Git} \subseteq Callers /\ Kr # Git

vars == <<serverVars, todo, transfer, krgpg>>

TypeOK == ServerTypeOK /\ TransferTypeOK /\ KrgpgTypeOK

Init == ServerInit /\ TransferInit /\ KrgpgInit /\ todo = [c \in {Kr} |-> <<>>]

(* kr me, in another terminal.                                             *)
Others == Callers \ {Kr, Git}

RequestMe(c) == Send(c, "me") \/ (Replied(c) /\ HangUp(c))

(* krd dies, and the next program that needs it starts it again.           *)
Crash == krd.up /\ Kill

GitStep ==
    \/ \E object \in Objects : SignGit(object)
    \/ SignatureReturns
    \/ \E succeeds \in BOOLEAN : RedirectToGPG(succeeds)
    \/ Ended

Next ==
    \/ (\E command \in DOMAIN Commands : RunKr(command)) /\ UNCHANGED krgpg
    \/ KrStep /\ UNCHANGED krgpg
    \/ GiveUp /\ UNCHANGED krgpg
    \/ GitStep /\ UNCHANGED <<todo, transfer>>
    \/ /\ \/ \E c \in Callers : Serve(c) \/ TimeOut(c)
          \/ \E c \in Callers, body \in GitSignResponses : Answer(c, body)
          \/ Scan
          \/ \E p \in Pairings : SaveScanned(p)
          \/ Acknowledge
          \/ PhoneUnpairs
          \/ \E c \in Others : RequestMe(c)
          \/ Crash
       /\ UNCHANGED <<todo, transfer, krgpg>>

Spec == Init /\ [][Next]_vars

-----------------------------------------------------------------------------
(* The old phone is never told to unpair: krd has forgotten the pairing    *)
(* by the time kr transfer pairs with the new phone, also when another     *)
(* program had krd started again before the file was moved.  Only a krd    *)
(* that saved its pairing after the move, or a phone that unpaired by      *)
(* itself, may change that.                                                *)
OldStaysPaired == Undisturbed => "old" \notin unpaired

(* A pairing that its phone keeps is in one of the three files, whenever   *)
(* the transfer fails or is interrupted, so that it can be put back, as    *)
(* long as no krd saved its pairing over another; only the last rename     *)
(* replaces the old one by the new one.                                    *)
PairingsKept ==
    Undisturbed =>
        \A p \in scanned \ (unpaired \cup forgotten) :
            \/ p \in {disk.pairing, disk.old, disk.new}
            \/ p = "old" /\ disk.pairing = "new" /\ transfer.left = <<>>

(* While kr logs in to the hosts, krd signs with the old phone and shows   *)
(* ssh the old key, even if it dies and is started again, unless another   *)
(* krd saved its pairing after the files were moved.                       *)
HostsSeeTheOldPhone ==
    Undisturbed /\ At(Kr, "authorize") =>
        Signer = "old" /\ (IF krd.up THEN krd.me ELSE disk.me) = "old"

(* "Your new Krypton public-key is authorized and ready to use": pairing,  *)
(* profile and public key are those of the new phone, on disk and in krd,  *)
(* unless krd saved its pairing over another or a phone unpaired.          *)
TransferEndsOnTheNewPhone ==
    Undisturbed /\ transfer.ended = "done" =>
        /\ disk.pairing = "new" /\ disk.me = "new" /\ disk.pub = "new"
        /\ krd.up => krd.pairing = "new" /\ krd.me = "new"

(* Every service that a key has to be uploaded to by hand was asked about, *)
(* whatever the user answered to the others.                               *)
ServicesAsked == transfer.ended = "done" => transfer.due \subseteq transfer.asked
=============================================================================
