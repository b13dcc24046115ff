---------------------------- MODULE MCFakeCamera ----------------------------
(* A small instance of FakeCamera.                                          *)
EXTENDS FakeCamera, TLC

MCRingOf == (0 :> 0) @@ (1 :> 1) @@ (2 :> 2)
=============================================================================
