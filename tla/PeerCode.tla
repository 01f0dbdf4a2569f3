------------------------------ MODULE PeerCode ------------------------------
(***************************************************************************)
(* The peer codes of signal/src/server.rs: how a code is read when a client*)
(* registers with it, and when another client sends a signal to it.  A text*)
(* is a sequence of characters.  The length is counted in bytes in the     *)
(* code; a text of letters and digits has as many bytes as characters, and *)
(* any other is refused either way.                                        *)
(***************************************************************************)
EXTENDS Naturals, Sequences

CONSTANTS
    Characters,     \* what a text is written with
    Alphanumeric,   \* the ASCII letters and digits
    MaxPeerCode     \* MAX_PEER_CODE_BYTES

Hyphen == "-"
Invalid == <<>>

ASSUME CharactersAssumption ==
    /\ Hyphen \in Characters
    /\ Alphanumeric \subseteq Characters \ {Hyphen}

(* chars().filter(): Kept(text)[n] is what is left of the first n. *)
Kept(text) ==
    LET kept[n \in 0 .. Len(text)] ==
            IF n = 0 THEN <<>>
            ELSE IF text[n] = Hyphen THEN kept[n - 1] ELSE Append(kept[n - 1], text[n])
    IN  kept

Strip(text) == Kept(text)[Len(text)]

WellFormed(code) ==
    /\ code # <<>>
    /\ Len(code) <= MaxPeerCode
    /\ \A i \in DOMAIN code : code[i] \in Alphanumeric

(* Register.peer_code *)
ValidatePeerCode(text) == IF WellFormed(Strip(text)) THEN Strip(text) ELSE Invalid

(* Signal.to and ManualSignal.to *)
BadValidateSignalTarget(text) ==
    IF WellFormed(Strip(text)) /\ Len(text) <= MaxPeerCode THEN Strip(text) ELSE Invalid

ValidateSignalTarget(text) == IF WellFormed(Strip(text)) THEN Strip(text) ELSE Invalid
=============================================================================
