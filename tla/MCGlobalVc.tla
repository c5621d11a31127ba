----------------------------- MODULE MCGlobalVc -----------------------------
(* Instances of GlobalVc for TLC. *)
EXTENDS GlobalVc, TLC

CONSTANTS s1, s2, r1, r2, r3

\* vc 0 is read by r1 and r3, vc 1 by r2.
OneReaderEach == (r1 :> 0) @@ (r2 :> 1)
TwoVcReaders == (r1 :> 0) @@ (r2 :> 1) @@ (r3 :> 0)
Symmetry == Permutations(Senders)
Sizes == (0 :> 1) @@ (1 :> 2)
=============================================================================
