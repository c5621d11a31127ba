--------------------------- MODULE BufferOwnership ---------------------------
(***************************************************************************)
(* What the buffers of a global virtual channel promise their users: a     *)
(* buffer belongs to a set of owners.  It is claimed only while nobody     *)
(* owns it, written only by its single owner, shared by adding owners, and *)
(* becomes claimable again only when the last owner has dropped it.  There *)
(* is no usage counter and no list of free buffers here; GlobalVc.tla is   *)
(* shown to implement this.                                                *)
(***************************************************************************)
CONSTANTS
  Buffer,   \* the buffers of the channel
  Owner,    \* whoever can own one: threads, and the local vcs' queues
  Message,  \* what a buffer can contain
  Blank     \* the content before the first write

VARIABLES
  owners,   \* owners[b]: the owners of buffer b
  content   \* content[b]: the message in buffer b

vars == <<owners, content>>

Init ==
  /\ owners = [b \in Buffer |-> {}]
  /\ content = [b \in Buffer |-> Blank]

Claim(b, o) ==
  /\ owners[b] = {}
  /\ owners' = [owners EXCEPT ![b] = {o}]
  /\ UNCHANGED content

Write(b, o, m) ==
  /\ owners[b] = {o}
  /\ content' = [content EXCEPT ![b] = m]
  /\ UNCHANGED owners

Share(b, o) ==
  /\ owners[b] /= {}
  /\ o \notin owners[b]
  /\ owners' = [owners EXCEPT ![b] = @ \cup {o}]
  /\ UNCHANGED content

Pass(b, o, p) ==
  /\ o \in owners[b]
  /\ p \notin owners[b]
  /\ owners' = [owners EXCEPT ![b] = (@ \ {o}) \cup {p}]
  /\ UNCHANGED content

Drop(b, o) ==
  /\ o \in owners[b]
  /\ owners' = [owners EXCEPT ![b] = @ \ {o}]
  /\ UNCHANGED content

Next ==
  \E b \in Buffer :
    \/ \E o \in Owner : Claim(b, o) \/ Share(b, o)
    \/ \E o \in owners[b] :
         \/ Drop(b, o)
         \/ \E m \in Message : Write(b, o, m)
         \/ \E p \in Owner : Pass(b, o, p)

Spec == Init /\ [][Next]_vars
=============================================================================
