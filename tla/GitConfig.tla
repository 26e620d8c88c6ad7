------------------------------ MODULE GitConfig ------------------------------
(***************************************************************************)
(* What kr codesign sets in the global git configuration, and takes back.  *)
(***************************************************************************)
EXTENDS Script

VARIABLES
    git,       \* gpg.program, and whether commits and tags are to be signed
    installed  \* the package, with krgpg in it

gitVars == <<git, installed>>

GitTypeOK ==
    /\ git \in [program : {"unset", "gpg", "krgpg"}, commitSign : BOOLEAN, tagSign : BOOLEAN]
    /\ installed \in BOOLEAN

GitInit ==
    /\ git \in {[program |-> p, commitSign |-> FALSE, tagSign |-> FALSE] : p \in {"unset", "gpg"}}
    /\ installed = TRUE

GitSteps == {"programKrgpg", "programUnset", "commitOn", "commitOff", "tagOn", "tagOff"}

(* One call of git config --global.                                        *)
SetGitConfig(c) ==
    /\ \E step \in GitSteps :
          /\ At(c, step)
          /\ git' = CASE step = "programKrgpg" -> [git EXCEPT !.program = "krgpg"]
                      [] step = "programUnset" -> [git EXCEPT !.program = "unset"]
                      [] step = "commitOn"     -> [git EXCEPT !.commitSign = TRUE]
                      [] step = "commitOff"    -> [git EXCEPT !.commitSign = FALSE]
                      [] step = "tagOn"        -> [git EXCEPT !.tagSign = TRUE]
                      [] step = "tagOff"       -> [git EXCEPT !.tagSign = FALSE]
    /\ Done(c)
    /\ UNCHANGED installed

(* onboardAutoCommitSign: asked, the user may decline.                     *)
OnboardAutoCommitSign(c) ==
    /\ At(c, "onboard")
    /\ Expand(c, <<"commitOn", "tagOn">>) \/ Done(c)
    /\ UNCHANGED gitVars

UninstallProgramOnly(c) ==
    /\ At(c, "codesigning")
    /\ Expand(c, IF git.program = "krgpg" THEN <<"programUnset">> ELSE <<>>)
    /\ UNCHANGED gitVars

(* (The form above forgets to unset the signing, and is not used.)         *)
UninstallCodesigning(c) ==
    /\ At(c, "codesigning")
    /\ Expand(c, IF git.program = "krgpg"
                 THEN <<"programUnset", "commitOff", "tagOff">> ELSE <<>>)
    /\ UNCHANGED gitVars

(* apt-get remove and its like. uninstallCommand ignores their errors: the *)
(* package may stay, and the command goes on.                              *)
RemovePackage(c) ==
    /\ At(c, "remove")
    /\ installed' \in {FALSE, installed}
    /\ Done(c)
    /\ UNCHANGED git

(* A new installation (external).                                          *)
InstallPackage ==
    /\ ~installed /\ installed' = TRUE
    /\ UNCHANGED <<git, todo>>

GitStep(c) ==
    \/ SetGitConfig(c)
    \/ OnboardAutoCommitSign(c)
    \/ UninstallCodesigning(c)
    \/ RemovePackage(c)
=============================================================================
