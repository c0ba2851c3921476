------------------------------- MODULE Witness -------------------------------
(***************************************************************************)
(* From a verdict to a run (shen/world/netkat-witness.shen): the packet    *)
(* that answers a question about the network's policy is compiled into a   *)
(* schedule, sent and taken, and the schedule is replayed from the         *)
(* network's state in a world of its own.  The verdict is confirmed when   *)
(* the replay delivers what it claims; else there is a reason.             *)
(***************************************************************************)
EXTENDS Models, NetPolicy

ASSUME BaselineAssumption == BaselineMakes = BaselineMeaning

Unconfirmed(reason) == [verdict |-> "unconfirmed", reason |-> reason]
Confirmed           == [verdict |-> "confirmed", reason |-> "witness-exhibited"]

Subject(verdict) ==
  IF verdict.verdict = "reachable" THEN verdict.in ELSE verdict.packet

\* The links that carry the addresses of a packet; the first one is taken.
LinksFor(packet) ==
  {via \in Links : packet.src = AddressOf[via[1]] /\ packet.dst = AddressOf[via[2]]}

ScheduleOf(packet, via) ==
  << SendInput(packet, via), DeliverInput(NetAlternative("deliver", 0, via)) >>

\* What a schedule says, or the reason for which there is none.
Compile(verdict) ==
  CASE verdict.verdict \in {"unreachable", "equivalent"} ->
         [reason |-> "witness-verdict-nonviolating"]
    [] verdict.verdict \notin {"reachable", "differs"} -> [reason |-> "witness-shape"]
    [] Subject(verdict) \notin HeaderSpace -> [reason |-> "witness-packet-invalid"]
    [] LinksFor(Subject(verdict)) = {} -> [reason |-> "witness-link-unknown"]
    [] OTHER ->
         [reason |-> "ok",
          inputs |-> ScheduleOf(Subject(verdict),
                               CHOOSE via \in LinksFor(Subject(verdict)) : TRUE)]

(***************************************************************************)
(* The replay.  In a world of one component and no routes the kernel adds  *)
(* nothing to the handler's own steps: the state of a step is what the     *)
(* next one gets, a refused step ends the replay.                          *)
(***************************************************************************)
Replayed(facts, state, failed) == [facts |-> facts, state |-> state, failed |-> failed]

After(run, step) ==
  IF run.failed \/ step.type # "step" THEN Replayed(run.facts, run.state, TRUE)
  ELSE Replayed(run.facts \o step.facts, step.state, FALSE)

\* Sets of one element, so that TLC takes every step once.
Reached(runs, input) ==
  UNION {{After(run, step) : step \in {NetStep(run.state, input)}} : run \in runs}

RunFrom(state, inputs) ==
  CHOOSE run \in FoldLeft(Reached, {Replayed(<< >>, state, FALSE)}, inputs) : TRUE

DeliveredIn(facts) ==
  LET IsDelivered(fact) == fact.name = "delivered"
      delivered == SelectSeq(facts, IsDelivered)
  IN  [i \in DOMAIN delivered |-> delivered[i].value.packet]

ConfirmRun(run, expected) ==
  IF run.failed THEN Unconfirmed("witness-schedule-failed")
  ELSE IF expected \in ToSet(DeliveredIn(run.facts)) THEN Confirmed
  ELSE Unconfirmed("witness-not-exhibited")

ConfirmCompiled(schedule, state, verdict) ==
  IF schedule.reason # "ok" THEN Unconfirmed(schedule.reason)
  ELSE IF verdict.verdict # "reachable" THEN Unconfirmed("witness-shape")
  ELSE ConfirmRun(RunFrom(state, schedule.inputs), verdict.out)

Confirm(state, verdict) == ConfirmCompiled(Compile(verdict), state, verdict)

ConfirmRuns(left, right) ==
  IF left.failed \/ right.failed THEN Unconfirmed("witness-schedule-failed")
  ELSE IF DeliveredIn(left.facts) # DeliveredIn(right.facts) THEN Confirmed
  ELSE Unconfirmed("witness-not-exhibited")

DifferenceCompiled(schedule, left, right) ==
  IF schedule.reason # "ok" THEN Unconfirmed(schedule.reason)
  ELSE ConfirmRuns(RunFrom(left, schedule.inputs), RunFrom(right, schedule.inputs))

\* Two states of a network: one schedule, replayed from each.
ConfirmDifference(left, right, verdict) ==
  DifferenceCompiled(Compile(verdict), left, right)

-------------------------------------------------------------------------------
(***************************************************************************)
(* A verdict about the policy in force is true of the running network and  *)
(* the replay says so.  What the words of the masks and the meaning of the *)
(* baseline make impossible is unreachable, and nothing else; a reachable  *)
(* verdict is confirmed by the network whose policy was asked about, and   *)
(* so is a difference that the masks make ("never silently accepted",      *)
(* netkat-witness.shen:16-23).  A packet that waits on the link already    *)
(* is what index 0 names: then the replay shows that packet's fate, and    *)
(* only a queue that is empty makes the answer sure.                       *)
(***************************************************************************)
Allowed(masks, packet) == IF Admits(masks, packet) THEN BaselineMakes[packet] ELSE {}

Bodies == {p.body : p \in HeaderSpace}
Asked(masks, via, body) ==
  Reachability(LinkTest(via), Composed(masks), NkTest("body", body))

\* The verdicts, for TLC to evaluate once.
Arrivals ==
  [masks \in {m \in SUBSET ToSet(Masks) : Policies[m].code = "ok"} |->
     [via \in Links |-> [body \in Bodies |-> Asked(masks, via, body)]]]
Differences ==
  [masks \in {m \in SUBSET ToSet(Masks) : Policies[m].code = "ok"} |->
     Equivalence(Composed(masks), Composed({}))]

TakenFirst(state, packet, via) ==
  IF state.pending[via] = << >> THEN packet ELSE Head(state.pending[via])

ArrivalTrue(state, via, body, verdict) ==
  IF verdict.verdict = "unreachable"
  THEN \A p \in HeaderSpace :
         LinksFor(p) = {via} => body \notin {out.body : out \in Allowed(state.masks, p)}
  ELSE /\ LinksFor(verdict.in) = {via} /\ verdict.out.body = body
       /\ verdict.out \in Allowed(state.masks, verdict.in)
       /\ Confirm(state, verdict) =
            IF verdict.out \in Allowed(state.masks, TakenFirst(state, verdict.in, via))
            THEN Confirmed ELSE Unconfirmed("witness-not-exhibited")

DifferenceTrue(state, verdict) ==
  IF verdict.verdict = "equivalent"
  THEN \A p \in HeaderSpace : Allowed(state.masks, p) = Allowed({}, p)
  ELSE /\ Allowed(state.masks, verdict.packet) # Allowed({}, verdict.packet)
       /\ \A via \in LinksFor(verdict.packet) :
            LET taken == TakenFirst(state, verdict.packet, via)
            IN  ConfirmDifference(state, NetState({}, state.pending), verdict) =
                  IF Allowed(state.masks, taken) # Allowed({}, taken)
                  THEN Confirmed ELSE Unconfirmed("witness-not-exhibited")

WitnessesExhibited ==
  Settled =>
    \A n \in OfKind("net") :
      \A state \in {world.states[n]} :
        /\ \A via \in Links, body \in Bodies :
             ArrivalTrue(state, via, body, Arrivals[state.masks][via][body])
        /\ DifferenceTrue(state, Differences[state.masks])
===============================================================================
