-------------------------------- MODULE Timer --------------------------------
(***************************************************************************)
(* The logical timer model (shen/world/models/timer.shen): a set of named  *)
(* deadlines in logical time, as a component handler of the world kernel.  *)
(* The component publishes what is due and never fires on its own.         *)
(***************************************************************************)
EXTENDS ModelCommon

Deadline(id, due) == [kind |-> "deadline", id |-> id, due |-> due]

\* The inputs; a fire or cancel input carries no due time of its own.
TimerInput(kind, id, due) == [kind |-> kind, id |-> id, due |-> due]

TimerState(deadlines) == [deadlines |-> deadlines]

TimerInitial == TimerState({})

Due(deadlines, now) == {d \in deadlines : d.due <= now}

TimerChoices(deadlines, now) == Choice("timer-fire", Due(deadlines, now))

\* Every step ends in the menu of all deadlines that are due.
TimerResult(deadlines, facts, now) ==
  Steps(TimerState(deadlines), facts, TimerChoices(deadlines, now))

Named(deadlines, id) == {d \in deadlines : d.id = id}

\* At most one deadline has a given identifier.
Find(deadlines, id) == CHOOSE d \in deadlines : d.id = id

SetTimer(deadlines, id, due, now) ==
  IF due < 0 THEN ModelFails("timer-deadline-range")
  ELSE IF due < now THEN ModelFails("timer-deadline-stale")
  ELSE IF Named(deadlines, id) # {}
  THEN ModelFails("timer-duplicate")
  ELSE TimerResult(deadlines \cup {Deadline(id, due)},
                   << FactOf("armed", Deadline(id, due)) >>, now)

Release(deadlines, id, name, now) ==
  TimerResult(deadlines \ Named(deadlines, id),
              << FactOf(name, Find(deadlines, id)) >>, now)

CancelTimer(deadlines, id, now) ==
  IF Named(deadlines, id) = {} THEN ModelFails("timer-unknown")
  ELSE Release(deadlines, id, "cancelled", now)

\* Fault: the deadline that fired stays armed.
FireKeeping(deadlines, id, now) ==
  IF Named(deadlines, id) = {} THEN ModelFails("timer-unknown")
  ELSE IF Due(Named(deadlines, id), now) = {}
  THEN ModelFails("timer-not-due")
  ELSE TimerResult(deadlines,
                   << FactOf("fired", Find(deadlines, id)) >>, now)

\* A fire that comes too early is refused, whoever scheduled it.
FireTimer(deadlines, id, now) ==
  IF Named(deadlines, id) = {} THEN ModelFails("timer-unknown")
  ELSE IF Due(Named(deadlines, id), now) = {}
  THEN ModelFails("timer-not-due")
  ELSE Release(deadlines, id, "fired", now)

TimerStep(state, input, now) ==
  CASE input.kind = "set"    -> SetTimer(state.deadlines, input.id, input.due, now)
    [] input.kind = "cancel" -> CancelTimer(state.deadlines, input.id, now)
    [] input.kind = "fire"   -> FireTimer(state.deadlines, input.id, now)
    [] input.kind = "poll"   -> TimerResult(state.deadlines, << >>, now)
    [] OTHER -> ModelFails("timer-unknown-input")
==============================================================================
