------------------------------ MODULE MCPayouts -------------------------------
(* Small instances of Payouts for TLC.                                     *)
EXTENDS Payouts, TLC

CONSTANTS p1, p2, o1, o2, r1, r2, r3, x1, x2, v1, v2, h1, h2

(* One payout of two signatures.                                           *)
TwoSignatures == (p1 :> 2)

(* With one that is queued as soon as it is made.                          *)
TwoAndOne == (p1 :> 2) @@ (p2 :> 1)

Interchangeable ==
  Permutations({o1, o2}) \cup Permutations({r1, r2, r3})
    \cup Permutations({x1, x2}) \cup Permutations({v1, v2})
    \cup Permutations({h1, h2})
===============================================================================
