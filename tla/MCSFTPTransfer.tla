--------------------------- MODULE MCSFTPTransfer ---------------------------
(***************************************************************************)
(* SFTPTransfer for TLC: small files, pieces of two bytes, and a range     *)
(* that starts inside its file and reaches past the end.                   *)
(***************************************************************************)
EXTENDS SFTPTransfer, TLC

CONSTANTS r1, r2, w1

\* One byte short of a number of pieces, so that the last request is answered short.
MCSize == (r1 :> 4) @@ (r2 :> 3) @@ (w1 :> 3)

MCFrom == (r1 :> 1) @@ (r2 :> 0)

MCLength == (r1 :> 5) @@ (r2 :> 5)

\* The files of the transfers that take part.
MCSizes == [t \in Transfer |-> MCSize[t]]
MCFroms == [t \in Reader |-> MCFrom[t]]
MCLengths == [t \in Reader |-> MCLength[t]]

=============================================================================
