------------------------------- MODULE Krgpg -------------------------------
(***************************************************************************)
(* krgpg, git's gpg.program: it takes a commit or a tag apart, has the     *)
(* phone sign its parts, and falls back to gpg.  An object is the sequence *)
(* of its lines; a line has a first token, a value and, if wide, a run of  *)
(* blanks in it.                                                           *)
(***************************************************************************)
EXTENDS KrdClient, Sequences, SequencesExt

CONSTANTS
    Git,      \* the caller that runs krgpg
    Objects,  \* what git may hand to krgpg
    HasGPG    \* gpg is installed

ASSUME KrgpgAssumption ==
    /\ Objects \subseteq Seq([token : STRING, value : STRING, wide : BOOLEAN])
    /\ HasGPG \in BOOLEAN
    /\ None \notin {"phone", "nothing", "gpg"} /\ None \notin {0, 1}

VARIABLE krgpg   \* what it does, the object, its parts, and how it ends

gitVars == <<krgpg>>

NoObject == [pc |-> "idle", object |-> <<>>, info |-> <<>>, signed |-> None, exit |-> None]
KrgpgInit == krgpg = NoObject

KrgpgTypeOK ==
    /\ krgpg.pc \in {"idle", "call", "gpg", "done"}
    /\ krgpg.signed \in {None, "phone", "nothing", "gpg"}
    /\ krgpg.exit \in {None, 0, 1}

-----------------------------------------------------------------------------
(* readLineSplittingFirstToken: what follows the first token, its fields   *)
(* joined by one blank (a wide line is none afterwards).                   *)
Contents(line) == line.value

NoTokens(line) == line.token = ""

Failure == <<>>

(* The first line after the tree that is no parent.                        *)
AuthorAt(object) ==
    CHOOSE i \in 2..(Len(object) + 1) :
        /\ i <= Len(object) => object[i].token # "parent"
        /\ \A j \in 2..(i - 1) : object[j].token = "parent"

IsCommit(object) ==
    LET i == AuthorAt(object)
    IN  i + 1 <= Len(object) /\ object[i].token = "author" /\ ~NoTokens(object[i + 1])

ParseCommitOneMergeParent(object) ==
    LET i == AuthorAt(object)
    IN  IF ~IsCommit(object) THEN Failure
        ELSE [tree      |-> Contents(object[1]),
              parents   |-> IF i <= 3 THEN [j \in 1..(i - 2) |-> Contents(object[j + 1])]
                            ELSE <<Contents(object[2]), Contents(object[i - 1])>>,
              author    |-> Contents(object[i]),
              committer |-> Contents(object[i + 1]),
              message   |-> SubSeq(object, i + 2, Len(object))]

(* signGitCommit: the parents, the author, one line taken for the          *)
(* committer whatever its first token, and the rest.  (The form above      *)
(* keeps one merge parent, and is not used.)                               *)
ParseCommit(object) ==
    LET i == AuthorAt(object)
    IN  IF ~IsCommit(object) THEN Failure
        ELSE [tree      |-> Contents(object[1]),
              parents   |-> [j \in 1..(i - 2) |-> Contents(object[j + 1])],
              author    |-> Contents(object[i]),
              committer |-> Contents(object[i + 1]),
              message   |-> SubSeq(object, i + 2, Len(object))]

(* signGitTag: three lines, whatever their first tokens, and the rest.     *)
ParseTag(object) ==
    IF Len(object) < 4 \/ \E i \in 2..4 : NoTokens(object[i]) THEN Failure
    ELSE [object  |-> Contents(object[1]), type |-> Contents(object[2]),
          tag     |-> Contents(object[3]), tagger |-> Contents(object[4]),
          message |-> SubSeq(object, 5, Len(object))]

Unreadable(object) == object = <<>> \/ NoTokens(object[1])

Parse(object) ==
    IF Unreadable(object) THEN Failure
    ELSE CASE object[1].token = "tree"   -> ParseCommit(object)
           [] object[1].token = "object" -> ParseTag(object)
           [] OTHER                      -> Failure

(* The phone puts the object together again to sign it (external).         *)
Header(name, value) == [token |-> name, value |-> value, wide |-> FALSE]

Assembled(info) ==
    IF "tree" \in DOMAIN info
    THEN <<Header("tree", info.tree)>>
         \o [i \in 1..Len(info.parents) |-> Header("parent", info.parents[i])]
         \o <<Header("author", info.author), Header("committer", info.committer)>>
         \o info.message
    ELSE <<Header("object", info.object), Header("type", info.type),
           Header("tag", info.tag), Header("tagger", info.tagger)>>
         \o info.message

(* signGit: without a first line it ends, with one it cannot parse gpg may *)
(* know better.                                                            *)
SignGit(object) ==
    /\ krgpg.pc = "idle"
    /\ IF Parse(object) = Failure
       THEN /\ krgpg' = [krgpg EXCEPT !.object = object,
                         !.pc = IF Unreadable(object) THEN "done" ELSE "gpg",
                         !.exit = IF Unreadable(object) THEN 1 ELSE None]
            /\ UNCHANGED serverVars
       ELSE /\ krgpg' = [krgpg EXCEPT !.pc = "call", !.object = object, !.info = Parse(object)]
            /\ Send(Git, "gitSign")

(* What the phone may answer: a signature, or an error, or neither.        *)
GitSignResponses == {"signature", "rejected", "otherError", "missing"}

Unchecked(body) == body \in {"signature", "otherError"}

(* AsciiArmorSignature returns an error when there is no signature: any    *)
(* error but "rejected" gets as far.  (The form above does not look, and   *)
(* is not used.)                                                           *)
AsciiArmorSignature(body) == body = "signature"

(* requestSignature returned.                                              *)
SignatureReturns ==
    /\ krgpg.pc = "call" /\ Replied(Git)
    /\ IF Err(Git) = "none" /\ AsciiArmorSignature(call[Git].body)
       THEN krgpg' = [krgpg EXCEPT !.pc = "done", !.exit = 0,
                      !.signed = IF call[Git].body = "signature" THEN "phone" ELSE "nothing"]
       ELSE krgpg' = [krgpg EXCEPT !.pc = "gpg"]
    /\ HangUp(Git)

(* The fallback: redirectToGPG, or exit 1.                                 *)
RedirectToGPG(succeeds) ==
    /\ krgpg.pc = "gpg"
    /\ krgpg' = [krgpg EXCEPT !.pc = "done",
                 !.exit = IF HasGPG /\ succeeds THEN 0 ELSE 1,
                 !.signed = IF HasGPG /\ succeeds THEN "gpg" ELSE None]
    /\ UNCHANGED serverVars

Ended == krgpg.pc = "done" /\ krgpg' = NoObject /\ UNCHANGED serverVars

-----------------------------------------------------------------------------
(* git takes exit status 0 for a signature: there is one, by the phone or  *)
(* by gpg, whatever became of the request or of krd meanwhile.             *)
ExitZeroMeansSigned == krgpg.exit = 0 => krgpg.signed \in {"phone", "gpg"}

(* The header lines whose first token krgpg does not look at.              *)
NotNamed(info) == IF "tree" \in DOMAIN info THEN {Len(info.parents) + 3} ELSE 2..4

SignedAsStored(object, info) ==
    LET signed == Assembled(info)
    IN  /\ Len(signed) = Len(object)
        /\ \A i \in 1..Len(object) :
              \/ signed[i] = object[i]
              \/ /\ i <= Len(object) - Len(info.message)
                 /\ signed[i].value = object[i].value
                 /\ object[i].wide \/ i \in NotNamed(info)

(* What the phone signs is the object that git will store, line by line    *)
(* (all parents of a merge, in order), unless krgpg squeezed blanks in the *)
(* value of a header, or took a line of another name for the committer, or *)
(* for the type, the name or the tagger of a tag: then git finds the       *)
(* signature bad.                                                          *)
PhoneSignsTheObject ==
    krgpg.signed = "phone" => SignedAsStored(krgpg.object, krgpg.info)
=============================================================================
