------------------------------ MODULE EffectOnce ------------------------------
(***************************************************************************)
(* What an adapter promises about one effect (protocol/uap.md sections 4   *)
(* and 6, the "at-most-once effects" of its last line): a slot, which is a *)
(* session and an idempotency key, runs one command at most once; its      *)
(* result appears once and never changes; once given up it is gone, but    *)
(* the slot stays used.                                                    *)
(***************************************************************************)
EXTENDS Naturals

CONSTANTS Slots, Commands, Results

VARIABLES
  life,     \* per slot: unused, running, done or given up
  performed \* per slot: how often its effect was performed

vars == << life, performed >>

Unused           == [stage |-> "unused"]
Running(c)       == [stage |-> "running", command |-> c]
Done(c, r)       == [stage |-> "done", command |-> c, result |-> r]
GivenUp(c)       == [stage |-> "given-up", command |-> c]

Init ==
  /\ life = [slot \in Slots |-> Unused]
  /\ performed = [slot \in Slots |-> 0]

\* The effect is performed, once; it may be done by the time it is observed.
Perform(slot, c) ==
  /\ life[slot] = Unused
  /\ performed' = [performed EXCEPT ![slot] = @ + 1]
  /\ \/ life' = [life EXCEPT ![slot] = Running(c)]
     \/ \E r \in Results : life' = [life EXCEPT ![slot] = Done(c, r)]

Finish(slot, c) ==
  /\ life[slot] = Running(c)
  /\ \E r \in Results : life' = [life EXCEPT ![slot] = Done(c, r)]
  /\ UNCHANGED performed

\* A running effect may be seen done and given up at once.
GiveUp(slot, c) ==
  /\ life[slot] = Running(c) \/ \E r \in Results : life[slot] = Done(c, r)
  /\ life' = [life EXCEPT ![slot] = GivenUp(c)]
  /\ UNCHANGED performed

Next ==
  \E slot \in Slots, c \in Commands :
    Perform(slot, c) \/ Finish(slot, c) \/ GiveUp(slot, c)

Spec == Init /\ [][Next]_vars
===============================================================================
