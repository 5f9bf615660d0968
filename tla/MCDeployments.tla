--------------------------- MODULE MCDeployments ---------------------------
(* Model-checking instance of Deployments.                                  *)
EXTENDS Deployments

CONSTANTS d1, d2, r1, r2

TwoIds == {d1, d2}
OneId == {d1}
OneRotation == {r1}
TwoRotations == {r1, r2}
AllForOne == [r \in Rotations |-> d1]
=============================================================================
