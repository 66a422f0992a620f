------------------------------ MODULE MCAppEnv ------------------------------
(* AppEnv with two Pythons; the newest release needs the newer one. *)
EXTENDS AppEnv

MCRequiresPy == [v \in 1..MaxVer |-> IF v = MaxVer THEN MaxPy ELSE 1]
=============================================================================
