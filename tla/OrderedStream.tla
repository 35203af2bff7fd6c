--------------------------- MODULE OrderedStream ----------------------------
(***************************************************************************)
(* What a ranged download promises to the one who reads it: the bytes of   *)
(* the range, each once and in order, end of file only after the last one, *)
(* or an error.  How the bytes are fetched is left open.                   *)
(***************************************************************************)
EXTENDS Naturals, Sequences

CONSTANT Lengths    \* the lengths of range that are asked for

VARIABLES length, delivered, status

svars == <<length, delivered, status>>

\* The first n bytes of the range; a byte is named by its place in it.
FirstBytes(n) == [i \in 1..n |-> i - 1]

SInit ==
    /\ length \in Lengths
    /\ delivered = <<>>
    /\ status = "open"

Deliver ==
    /\ status = "open"
    /\ \E n \in (Len(delivered) + 1)..length : delivered' = FirstBytes(n)
    /\ UNCHANGED <<length, status>>

EndOfFile ==
    /\ status = "open"
    /\ Len(delivered) = length
    /\ status' = "eof"
    /\ UNCHANGED <<length, delivered>>

Fail ==
    /\ status = "open"
    /\ status' = "failed"
    /\ UNCHANGED <<length, delivered>>

Close ==
    /\ status # "closed"
    /\ status' = "closed"
    /\ UNCHANGED <<length, delivered>>

SNext == Deliver \/ EndOfFile \/ Fail \/ Close

SSpec == SInit /\ [][SNext]_svars

=============================================================================
