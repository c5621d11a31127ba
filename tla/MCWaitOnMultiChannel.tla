------------------------- MODULE MCWaitOnMultiChannel -------------------------
(* Instances of WaitOnMultiChannel for TLC: s sends to x, t to y and z.       *)
EXTENDS WaitOnMultiChannel, TLC

CONSTANTS u, w, s, t, x, y, z

Wait(vcs, min, finite) == [vc_set_in |-> vcs, min_no_vc |-> min, finite |-> finite]

\* Each has its own vcs, one of them from the same global vc.
Apart  == (u :> Wait(<<x, y>>, 2, FALSE)) @@ (w :> Wait(<<z>>, 1, TRUE))
\* Both wait on y, u with a timeout.
Shared == (u :> Wait(<<y>>, 1, TRUE)) @@ (w :> Wait(<<x, y>>, 2, FALSE))

ApartAndShared == {Apart, Shared}
OnlyShared     == {Shared}
ReceiversOf    == (s :> {x}) @@ (t :> {y, z})
===============================================================================
