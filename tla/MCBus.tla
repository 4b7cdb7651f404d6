-------------------------------- MODULE MCBus --------------------------------
(***************************************************************************)
(* The nodes 2 and 0, which poll the addresses 0 to 2; 1 is not there;     *)
(* broadcast is 9.                                                         *)
(***************************************************************************)
EXTENDS Bus

MCStation == {0, 1, 2, 9}

(* Two reads of station 1, of mode 'r' and type 'A' or 'B'. *)
Ask(type, instance) ==
  [dev |-> 1, mode |-> 114, type |-> type, instance |-> instance,
   binary |-> 0, analog |-> 0]
MCBatch == <<Ask(65, 102), Ask(66, 203)>>

=============================================================================
