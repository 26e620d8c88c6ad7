----------------------------- MODULE SshPacket -----------------------------
(***************************************************************************)
(* parseSSHPacket of krssh: where the payload of a binary SSH packet is in *)
(* the buffer, by two lengths the remote side sent.  The lengths are       *)
(* unsigned integers of a fixed width and wrap round.                      *)
(***************************************************************************)
EXTENDS Integers

CONSTANTS
    Word,        \* 2^32: the values of a uint32
    MaxPadding,  \* 255: the values of the padding byte
    MaxPayload,  \* 1<<18
    BufLen       \* 1<<18: krssh parses its whole buffer, not what it read

ASSUME PacketAssumption ==
    /\ Word \in Nat /\ MaxPadding \in Nat /\ MaxPayload \in Nat /\ BufLen \in Nat
    /\ BufLen > 4
    /\ MaxPayload + MaxPadding + 6 < Word

PacketLens  == 0..(Word - 1)
PaddingLens == 0..MaxPadding

PayloadLen(packetLen, paddingLen) == (packetLen - paddingLen - 1) % Word

AcceptsLong(packetLen, paddingLen) ==
    LET n == PayloadLen(packetLen, paddingLen)
    IN  n >= 1 /\ (5 + n) % Word < BufLen

(* The conditions under which a payload is returned.  (The form above      *)
(* leaves out the first of them, and is not used.)                         *)
Accepts(packetLen, paddingLen) ==
    LET n == PayloadLen(packetLen, paddingLen)
    IN  /\ n <= MaxPayload
        /\ n >= 1
        /\ (5 + n) % Word < BufLen

(* The packets whose lengths leave, without wrapping, a payload of         *)
(* 1..MaxPayload bytes that ends before the end of the buffer.             *)
Fits(packetLen, paddingLen) ==
    /\ packetLen - paddingLen - 1 \in 1..MaxPayload
    /\ 5 + (packetLen - paddingLen - 1) < BufLen
=============================================================================
