----------------------------- MODULE MCRawBody -----------------------------
(***************************************************************************)
(* The instances of RawBody that TLC checks: chunks of one and two ASCII   *)
(* characters, and of a character that takes two bytes and one unit.       *)
(***************************************************************************)
EXTENDS RawBody

Piece(u, b, e) == [units |-> u, bytes |-> b, encoded |-> e]

(* And what a hook unpacks: three characters from a byte, none, and one    *)
(* more character for bytes that were counted before.                      *)
AnyChunks ==
  {Piece(1, 1, 1), Piece(2, 2, 2), Piece(1, 2, 2), Piece(3, 3, 1), Piece(0, 0, 1),
   Piece(1, 1, 0)}
Lengths == {NoLength, 0, 1, 2, 3, 4, 5}
=============================================================================
