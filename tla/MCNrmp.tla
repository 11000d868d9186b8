------------------------------- MODULE MCNrmp -------------------------------
(* Nrmp for TLC: payloads are digits and the CRC of a body is the number     *)
(* they spell, with the length in front.                                     *)
EXTENDS Nrmp

Digit(b, i) == IF i \in DOMAIN b THEN b[i] ELSE 0
MCCrc == [b \in Bodies |-> 1000 * Len(b) + 100 * Digit(b, 1) + 10 * Digit(b, 2) + Digit(b, 3)]
=============================================================================
