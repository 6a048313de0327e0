---------------------------- MODULE MCUniSecret ----------------------------
(* Instances of UniSecret for TLC: two goroutines and two engines, either  *)
(* of which may become a copy of the other before or after it has a state, *)
(* a column that already holds legacy text, a broken value, an envelope    *)
(* and made-up ciphertexts, and keys being rotated.                        *)
EXTENDS UniSecret, TLC

CONSTANTS p1, p2, e1, e2, k1, k2, s1, s2, t1

Forged(kind, s, n) ==
  [kind |-> kind, text |-> t1, salt |-> s, iter |-> n, by |-> NoSecret, key |-> NoKey]

MCExisting ==
  {Plain(t1), Forged("broken", NoSalt, 0), Forged("v1", NoSalt, 0)}
    \cup {Forged("sealed", s2, n) : n \in {0, 1, 3}}

\* Goroutines, engines and addresses are interchangeable.
MCSymmetry == Permutations(Proc) \cup Permutations(Engine) \cup Permutations(State)

MCConfigs ==
  {[on |-> TRUE, by |-> k, iter |-> 0] : k \in {k1, k2}}
    \cup {[on |-> FALSE, by |-> k1, iter |-> 0],
          [on |-> TRUE, by |-> NoSecret, iter |-> 1],
          [on |-> TRUE, by |-> k1, iter |-> 3]}
=============================================================================
