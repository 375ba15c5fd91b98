----------------------------- MODULE MCWeights -----------------------------
EXTENDS OperatorWeights, TLC

CONSTANTS w1, w2, w3, w4, n1, n2, n3

\* Operator 3's collateral backs no weight at all; worker w4 has no operator.
MCOperatorOf == w1 :> 1 @@ w2 :> 2 @@ w3 :> 3 @@ w4 :> 0
MCCollateral == 1 :> 4 @@ 2 :> 20 @@ 3 :> 1
MCSymmetry == Permutations({n1, n2, n3})
=============================================================================
