-------------------------- MODULE MCBacnetMonitor --------------------------
(***************************************************************************)
(* The observed node on the instances of MCBacnet.                         *)
(***************************************************************************)
EXTENDS BacnetMonitor, MCBacnet

=============================================================================
