------------------------------ MODULE Channel ------------------------------
(***************************************************************************)
(* What krd expects of the transport between workstation and phone, in one *)
(* direction: every message that enters is delivered, at least once and in *)
(* any order, unless the side that handles it is told of an error.  No     *)
(* message is lost in silence, none is delivered that was not sent.        *)
(***************************************************************************)
CONSTANT Messages

VARIABLES
    transit,  \* messages that may still be delivered
    got,      \* messages delivered at least once
    lost,     \* messages that will never be delivered
    told      \* messages an error was reported about

Init ==
    /\ transit = {} /\ got = {} /\ lost = {} /\ told = {}

Put(m) ==
    /\ m \notin transit \cup got \cup lost
    /\ transit' = transit \cup {m}
    /\ UNCHANGED <<got, lost, told>>

(* Some messages are delivered, others leave the channel; the ones that    *)
(* leave it undelivered are lost, which somebody has to hear of.           *)
Progress ==
    \E delivered, gone \in SUBSET transit, reported \in SUBSET Messages :
        /\ got' = got \cup delivered
        /\ transit' = transit \ gone
        /\ lost' = lost \cup (gone \ got')
        /\ told' = told \cup reported
        /\ lost' \subseteq told'

Next == Progress \/ \E m \in Messages : Put(m)

Spec == Init /\ [][Next]_<<transit, got, lost, told>>
=============================================================================
