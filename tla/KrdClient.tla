------------------------------ MODULE KrdClient ------------------------------
(***************************************************************************)
(* krdclient, and kr's own calls: what a response of krd becomes.          *)
(***************************************************************************)
EXTENDS ControlServer

(* makeRequestWithJsonResponse, signOver and the callers' checks.          *)
Error(op, status) ==
    IF status = 200 THEN "none"
    ELSE IF status = 0 THEN "ErrConnectingToDaemon"
    ELSE IF op \in {"getPair", "putOld", "putNew", "delete"} THEN "communication"
    ELSE IF status = 404 THEN "ErrNotPaired" ELSE "ErrTimedOut"

Replied(c) == call[c].pc = "replied"
Err(c)     == Error(call[c].op, call[c].status)
HangUp(c)  == call' = [call EXCEPT ![c] = Idle] /\ UNCHANGED <<krd, disk, phoneVars, saveVars>>
=============================================================================
