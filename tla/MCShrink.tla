------------------------------- MODULE MCShrink -------------------------------
(***************************************************************************)
(* Every short transcript over one entry of each sort, and longer ones in  *)
(* the layout of the run driver: a choice and its delivery are scheduled   *)
(* together, then both advance.                                            *)
(***************************************************************************)
EXTENDS Shrink

S(kind, about) == [op |-> "schedule", kind |-> kind, about |-> about]
A == [op |-> "advance"]
R == [op |-> "rollback"]

Sorts == {S("choice", "fault"), S("choice", "fault-action"), S("component", "net"),
          S("component", "net-0"), S("command", "untagged"), A, R}

Boot(name) == << S("component", name), A >>
Decision(purpose, name) == << S("choice", purpose), S("component", name), A, A >>

MCOriginals ==
  UNION {[1 .. n -> Sorts] : n \in 0 .. 4}
  \cup {Decision("fault", "fault-0"), Boot("p") \o Decision("fault", "fault-0"),
        << S("command", "delay"), A, S("command", "unheard-of"), A >>,
        << S("property-equals", "p"), A, R, A >>,
        << S("component", "timer"), S("component", "fault"), A, A >>}

MCInputs == UNION {{t[i] : i \in DOMAIN t} : t \in MCOriginals}
===============================================================================
