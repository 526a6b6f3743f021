------------------------------ MODULE MCCalibration ------------------------------
EXTENDS Calibration, TLC

Symmetry == Permutations(Requests)
=============================================================================
