-------------------------- MODULE MCCaptureEngine --------------------------
(***************************************************************************)
(* Symmetry for the TLC runs of CaptureEngine.                             *)
(***************************************************************************)
EXTENDS CaptureEngine, TLC

(* Descriptors and completion contexts are interchangeable; so are reads of *)
(* one kind.  The runs that check liveness do not use it.                   *)
PlainBuf == Buf \ (ShortBuf \cup NoMdlBuf)
Symmetry == Permutations(Desc) \cup Permutations(Cpu) \cup Permutations(Reader)
              \cup Permutations(PlainBuf)
=============================================================================
