--------------------------- MODULE MCAVTransport ---------------------------
(* TLC instances of AVTransport.                                           *)
EXTENDS AVTransport, TLC

CONSTANTS t0, t1, t2, u1, u2

Symmetry == Permutations({t1, t2})
=============================================================================
