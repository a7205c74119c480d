--------------------------- MODULE MCHostedRunner ---------------------------
(* Instances of HostedRunner for TLC: three workers, two of which present  *)
(* the same runner id.                                                     *)
EXTENDS HostedRunner, TLC

CONSTANTS w1, w2, w3, r1, r2, plain, gated

MCIdOf == w1 :> r1 @@ w2 :> r2
SharedIdOf == w1 :> r1 @@ w2 :> r2 @@ w3 :> r1

PlainOrNone == {{plain}, {}}
AllOffers == {{plain, gated}}
TwoOffers == {{plain, gated}, {plain}}
=============================================================================
