------------------------ MODULE MCSharedCyclicQueue ------------------------
(* Instances of SharedCyclicQueue for TLC. *)
EXTENDS SharedCyclicQueue

\* Every mode whose full-queue behaviour the code gets right.
SoundModes ==
  {"FIFO", "LIFO"} \X {"BLOCKING", "OVERWRITE_OLDEST"}
    \cup {<<"LIFO", "OVERWRITE_NEWEST">>}
=============================================================================
