------------------------------- MODULE EventLog -------------------------------
(***************************************************************************)
(* The event log of an abstract run (shen/world/eventlog.shen): one record *)
(* per transcript input, a pure function of the initial world and the      *)
(* transcript.  What the record says is planned before the input is        *)
(* reduced, since the event an advance dispatches is only visible at the   *)
(* head of the queue beforehand.                                           *)
(*                                                                         *)
(* SHA-256 is taken to be free of collisions, so a digest is represented   *)
(* by what it digests and a root by the sequence of its digests.  A        *)
(* payload slot holds the payload or its content address, which differ for *)
(* different payloads; the model keeps the payload.                        *)
(***************************************************************************)
EXTENDS Reducer

Kinds == {"command", "property-equals", "choice", "component"}

\* Fault: facts are bound by their number, as they were before ADR 0008.
StateDigestCountingFacts(w) ==
  [time |-> w.time, nextId |-> w.nextId,
   pendingIds |-> [i \in DOMAIN w.pending |-> w.pending[i].id],
   streams |-> w.streams, transcriptLength |-> Len(w.transcript),
   verdicts |-> w.verdicts, states |-> w.states, factsRoot |-> Len(w.facts),
   count |-> w.count]

\* What the snapshot of a world binds.  Of the queue it keeps the identifiers
\* and of the transcript the length; the seed, the routes, the limit and the
\* components' meta never change.
StateDigest(w) ==
  [time |-> w.time, nextId |-> w.nextId,
   pendingIds |-> [i \in DOMAIN w.pending |-> w.pending[i].id],
   streams |-> w.streams, transcriptLength |-> Len(w.transcript),
   verdicts |-> w.verdicts, states |-> w.states, factsRoot |-> w.facts,
   count |-> w.count]

\* urdr.eventlog.payload-value refuses a kind it does not know and a selected
\* choice whose coordinates no stream produced.
PayloadCode(kind, payload) ==
  IF kind \notin Kinds THEN "eventlog-event-kind"
  ELSE IF /\ kind = "choice" /\ payload.form = "selected"
          /\ \E c \in ToSet(payload.coordinates) : ~CoordinateShape(c)
  THEN "eventlog-payload-shape"
  ELSE "ok"

-------------------------------------------------------------------------------
(* Plans.                                                                  *)

NoPlan(code) == [code |-> code]

PlanSchedule(input, nextId) ==
  IF PayloadCode(input.kind, input.payload) # "ok"
  THEN NoPlan(PayloadCode(input.kind, input.payload))
  ELSE [code |-> "ok", stage |-> "schedule", origin |-> nextId,
        kind |-> input.kind, actor |-> "scenario", subsystem |-> "world",
        class |-> "pure", payload |-> input.payload]

\* A choice acts for the actor of its stream, a delivery for its component.
AdvanceActor(kind, payload) ==
  CASE kind = "choice"    -> payload.path
    [] kind = "component" -> payload.name
    [] OTHER              -> "world"

AdvanceSubsystem(kind) ==
  CASE kind = "command"         -> "adapter"
    [] kind = "choice"          -> "prng"
    [] kind = "component"       -> "component"
    [] kind = "property-equals" -> "properties"

PlanEvent(e) ==
  IF PayloadCode(e.kind, e.payload) # "ok"
  THEN NoPlan(PayloadCode(e.kind, e.payload))
  ELSE [code |-> "ok", stage |-> "advance", origin |-> e.id,
        kind |-> e.kind, actor |-> AdvanceActor(e.kind, e.payload),
        subsystem |-> AdvanceSubsystem(e.kind), class |-> "modeled",
        payload |-> e.payload]

Plan(w, input) ==
  CASE input.op = "schedule" -> PlanSchedule(input, w.nextId)
    [] input.op = "advance"  -> IF w.pending = << >>
                                THEN NoPlan("eventlog-no-pending-event")
                                ELSE PlanEvent(Head(w.pending))
    [] OTHER                 -> NoPlan("eventlog-input-shape")

-------------------------------------------------------------------------------
(* Records.  A link ties the identifier the world gave a scheduled event   *)
(* to the identifier its schedule has in the log.                          *)

\* Fault: the world's identifiers are taken for the log's.
ParentIsOrigin(stage, origin, links) ==
  IF stage = "advance" THEN << origin >> ELSE << >>

\* A dispatch is caused by the record that scheduled its event; a schedule,
\* and the dispatch of a routed delivery, have no parent in the log.
Parents(stage, origin, links) ==
  IF stage = "advance" /\ origin \in DOMAIN links THEN << links[origin] >>
  ELSE << >>

Linked(stage, origin, id, links) ==
  IF stage = "schedule"
  THEN [o \in DOMAIN links \cup {origin} |-> IF o = origin THEN id ELSE links[o]]
  ELSE links

RecordOf(plan, id, parents, before, after) ==
  [id |-> id, origin |-> plan.origin, type |-> << plan.stage, plan.kind >>,
   actor |-> plan.actor, subsystem |-> plan.subsystem,
   classification |-> plan.class, payload |-> plan.payload,
   parents |-> parents, time |-> after.time,
   inputState |-> StateDigest(before), outputState |-> StateDigest(after)]

LogCommit(log, plan, reduction) ==
  IF plan.code # "ok" THEN [log EXCEPT !.code = plan.code]
  ELSE IF reduction.error # NoError
  THEN [log EXCEPT !.code = "eventlog-reduction-error",
                   !.detail = << reduction.error >>]
  ELSE [log EXCEPT
          !.world   = reduction.world,
          !.records = Append(@, RecordOf(plan, Len(log.records),
                                         Parents(plan.stage, plan.origin, log.links),
                                         log.world, reduction.world)),
          !.links   = Linked(plan.stage, plan.origin, Len(log.records), @)]

LogStep(log, input) ==
  IF log.code # "ok" THEN log
  ELSE LogCommit(log, Plan(log.world, input), Reduce(log.world, input))

\* urdr.eventlog.of-run: the first plan or reduction that fails ends it.
OfRun(initial, transcript) ==
  FoldLeft(LogStep,
           [code |-> "ok", detail |-> << >>, world |-> initial,
            records |-> << >>, links |-> [o \in {} |-> 0]],
           transcript)
===============================================================================
