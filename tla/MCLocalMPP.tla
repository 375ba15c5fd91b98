------------------------------ MODULE MCLocalMPP ------------------------------
EXTENDS LocalMPP, TLC
CONSTANTS owner, m1, d1, y1, zero
\* _COMMITMENT_FINALITY_DEPTH, _CHALLENGE_WINDOW_BLOCKS, _BETA, _CONCENTRATION_CAP
MCPolicy == [finalityDepth |-> 2, challengeWindow |-> 5, beta |-> 10, cap |-> 1000]
=============================================================================
