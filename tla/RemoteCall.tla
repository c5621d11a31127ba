------------------------------ MODULE RemoteCall ------------------------------
(***************************************************************************)
(* What SimpleCommandInterface promises its callers ("a primitive          *)
(* interface for remote procedure calls"): a call is executed at most      *)
(* once, "success" is reported only for a call that was executed, an       *)
(* unknown command is reported as such and never executed, and a call that *)
(* timed out may or may not have been executed, or may be executed yet.    *)
(***************************************************************************)
EXTENDS Naturals

CONSTANTS Senders

VARIABLES
  calls,     \* calls[p]: number of calls p has made
  result,    \* result[p]: "none" before the first call, "open" during a call
  executed,  \* the calls the server has executed
  refused    \* the calls the server had no handler for

vars == <<calls, result, executed, refused>>

Init ==
  /\ calls = [p \in Senders |-> 0]
  /\ result = [p \in Senders |-> "none"]
  /\ executed = {}
  /\ refused = {}

Call(p) ==
  /\ result[p] /= "open"
  /\ calls' = [calls EXCEPT ![p] = @ + 1]
  /\ result' = [result EXCEPT ![p] = "open"]
  /\ UNCHANGED <<executed, refused>>

\* The server serves any call made and not yet served, also one given up by its caller.
Serve(p, n) ==
  /\ n <= calls[p]
  /\ <<p, n>> \notin executed \cup refused
  /\ \/ executed' = executed \cup {<<p, n>>} /\ UNCHANGED refused
     \/ refused' = refused \cup {<<p, n>>} /\ UNCHANGED executed
  /\ UNCHANGED <<calls, result>>

Return(p, r) ==
  /\ result[p] = "open"
  /\ r = "success" => <<p, calls[p]>> \in executed
  /\ r = "error"   => <<p, calls[p]>> \in refused
  /\ result' = [result EXCEPT ![p] = r]
  /\ UNCHANGED <<calls, executed, refused>>

\* A one-way command reports that it was sent, and nothing else.
ReturnSent(p) ==
  /\ result[p] = "open"
  /\ result' = [result EXCEPT ![p] = "sent"]
  /\ UNCHANGED <<calls, executed, refused>>

Next == \E p \in Senders :
  \/ Call(p)
  \/ \E n \in 1 .. calls[p] : Serve(p, n)
  \/ \E r \in {"success", "error", "timeout"} : Return(p, r)
  \/ ReturnSent(p)

Spec == Init /\ [][Next]_vars
===============================================================================
