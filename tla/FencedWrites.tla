---------------------------- MODULE FencedWrites ----------------------------
(***************************************************************************)
(* What turns promise to whoever writes a thread or a ticket, told without *)
(* queues, clocks, sessions or crashes.  Of each target at most one turn   *)
(* is held; every turn has a higher token than all before it; a target     *)
(* changes only by a write of the turn that is held, a turn writes at most *)
(* once, and no turn that was lost ever writes.                            *)
(***************************************************************************)
EXTENDS Naturals

CONSTANT Targets

VARIABLES
  held,     \* token of the turn that is held, 0 if none is
  token,    \* last token given out
  version   \* number of writes so far

vars == <<held, token, version>>

Init ==
  /\ held = [t \in Targets |-> 0]
  /\ token = [t \in Targets |-> 0]
  /\ version = [t \in Targets |-> 0]

Take(t) ==
  /\ held[t] = 0
  /\ token' = [token EXCEPT ![t] = @ + 1]
  /\ held' = [held EXCEPT ![t] = token[t] + 1]
  /\ UNCHANGED version

Write(t) ==
  /\ held[t] # 0
  /\ version' = [version EXCEPT ![t] = @ + 1]
  /\ held' = [held EXCEPT ![t] = 0]
  /\ UNCHANGED token

\* Given back or taken away: one event may end the turns on several targets.
Lose(ts) ==
  /\ held' = [t \in Targets |-> IF t \in ts THEN 0 ELSE held[t]]
  /\ UNCHANGED <<token, version>>

Next ==
  \/ \E t \in Targets : Take(t) \/ Write(t)
  \/ \E ts \in SUBSET Targets : Lose(ts)

Spec == Init /\ [][Next]_vars
=============================================================================
