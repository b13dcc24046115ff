---------------------------- MODULE MCDcamSession ---------------------------
(* A small instance of DcamSession: the constants of the checked runs.      *)
EXTENDS DcamSession, TLC

MCRateInterval ==
  0 :> 533333 @@ 1 :> 266667 @@ 2 :> 133333 @@ 3 :> 66667 @@ 4 :> 33333 @@ 5 :> 16667

(* 640x480 of one byte, the power-up mode, and 320x240 of two.               *)
MCStd == {<<0, 5>>}

(* A kernel that grants everything, maps less, or refuses a step.            *)
MCKernels ==
  {[open |-> TRUE, map |-> 12582912, start |-> TRUE],
   [open |-> FALSE, map |-> 12582912, start |-> TRUE]}
MCSizes == {<<644, 484>>}
MCOddSizes == {<<100, 100>>}
=============================================================================
