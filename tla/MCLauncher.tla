------------------------------ MODULE MCLauncher ------------------------------
(* Launcher with one key, whose rule may name the launcher.                     *)
EXTENDS Launcher

CONSTANT k1
MCAtKey == [k \in Keys |-> k1]
================================================================================
