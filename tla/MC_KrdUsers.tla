---------------------------- MODULE MC_KrdUsers ----------------------------
(* KrdUsers with commits, tags and lists of hosts to choose from.          *)
EXTENDS KrdUsers

CONSTANTS kr, git, me

Line(token, value) == [token |-> token, value |-> value, wide |-> FALSE]
Wide(token, value) == [token |-> token, value |-> value, wide |-> TRUE]

Text    == <<Wide("subject", "s"), Line("body", "b")>>
Signers == <<Line("author", "a"), Line("committer", "c")>>

MCObjects == {
    <<Line("", "")>> \o Text,
    <<Line("tree", "t"), Line("parent", "p1"), Line("parent", "p2"), Line("parent", "p3")>>
        \o Signers \o Text,
    <<Line("object", "o"), Wide("type", "commit"), Line("tag", "v1"), Line("signer", "a")>> \o Text,
    <<Line("object", "o"), Line("type", "commit"), Line("tag", "v1"), Line("", "")>> \o Text}

MCHostLists == {<<"gitlab.com", "host", "me.krypt.co">>}
=============================================================================
