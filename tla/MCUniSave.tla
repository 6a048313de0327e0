----------------------------- MODULE MCUniSave -----------------------------
(* An instance of UniSave for TLC: two goroutines, a key with a native     *)
(* UPSERT, a counted one, and a counted one whose class has only its key.  *)
EXTENDS UniSave, TLC

\* No property tells goroutines or values apart.
Alike == Permutations(Proc) \cup Permutations(Val)
=============================================================================
