------------------------- MODULE MCFragmentReassembly -------------------------
(* A small instance of FragmentReassembly for TLC: two messages of two blocks  *)
(* under one key, and a malformed one of three blocks under another.           *)
EXTENDS FragmentReassembly

CONSTANTS m1, m2, m3, k1, k2

MCMessages == {m1, m2, m3}
MCKeys == {k1, k2}
MCKeyOf == [m \in MCMessages |-> IF m = m3 THEN k2 ELSE k1]
MCLengthsOf == [m \in MCMessages |-> IF m = m3 THEN <<2, 1, 1>> ELSE <<2, 1>>]

\* One message whose last block may come late.
OneMessage == {m1}
OneKey == {k1}
OneKeyOf == [m \in OneMessage |-> k1]
OneLengthsOf == [m \in OneMessage |-> <<2, 1>>]
=============================================================================
