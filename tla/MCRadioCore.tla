----------------------------- MODULE MCRadioCore -----------------------------
\* RadioCore on a small instance.
EXTENDS RadioCore, TLC

FrameSymmetry == Permutations(Frames)
=============================================================================
