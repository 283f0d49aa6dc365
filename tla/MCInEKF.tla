------------------------------ MODULE MCInEKF ------------------------------
(* Instances of InEKF for TLC.                                              *)
EXTENDS InEKF, FiniteSets, TLC
=============================================================================
