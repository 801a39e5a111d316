------------------------------ MODULE MCIntake ------------------------------
(* Small instances of the Intake Server for TLC. *)
EXTENDS Intake, TLC

CONSTANTS c1, c2

MCConn == {c1, c2}
MCConn1 == {c1}

(* Well-sized lines only: what the front-end writes. *)
MCLineKind == {Valid, Malformed, Empty}
(* A client may also write a line over the scanner's limit. *)
MCLineKindLong == {Valid, Oversized}
(* Every kind of line. *)
MCLineKindAll == {Valid, Malformed, Empty, Oversized}

=============================================================================
