------------------------------- MODULE Reducer -------------------------------
(***************************************************************************)
(* The world kernel (shen/world/world.shen) as the pure function it is:    *)
(* Reduce takes a world and an input and returns a reduction, which is a   *)
(* new world, the commands and choices the step published, and an error    *)
(* code ("none" when the step succeeded).                                  *)
(*                                                                         *)
(* The seed, the routes, the cascade limit, the registry order and each    *)
(* component's node never change after boot: they are constants.  The      *)
(* world is the record of the slots that do change.                        *)
(***************************************************************************)
EXTENDS Component, Prng, Integers, FiniteSets, SequencesExt

CONSTANTS
  Registry,   \* component names, in the registry's ascending order
  NodeOf,     \* the node each component was declared on
  InitState,  \* the state each component boots with
  Routes,     \* declared fact routes, in declaration order
  RouteLimit  \* routed deliveries one instant may see

Names == ToSet(Registry)

ComponentTarget(name) == [type |-> "component", id |-> name]
NodeTarget(node)      == [type |-> "node", id |-> node]

\* What registry-valid? and routes-check establish before a world exists.
ASSUME BootAssumption ==
  /\ Registry \in Seq(STRING)
  /\ Routes \in Seq([fact : STRING, from : STRING,
                     to : [type : {"component", "node"}, id : STRING]])
  /\ \A i \in 1 .. Len(Registry) - 1 : NamePrecedes(Registry[i], Registry[i + 1])
  /\ Names \subseteq ValidNames
  /\ InitState \in [Names -> Canonical \ Claiming]
  /\ DOMAIN NodeOf = Names
  /\ \A r \in ToSet(Routes) :
       /\ r.fact \in ValidNames /\ r.from \in Names
       /\ r.to.type = "component" => r.to.id \in Names
  /\ RouteLimit \in Nat

-------------------------------------------------------------------------------
(* Reductions and errors.                                                  *)

NoError == "none"

\* "none" stands for the code's [none], which is no symbol.
ASSUME NoErrorAssumption == NoError \notin ValidNames

Reduced(world, commands, choices) ==
  [world |-> world, commands |-> commands, choices |-> choices,
   error |-> NoError]

Refused(world, code) ==
  [world |-> world, commands |-> << >>, choices |-> << >>, error |-> code]

(***************************************************************************)
(* Events.  A payload is a record whose shape depends on the kind.  A      *)
(* choice is drawn when the kernel is to sample it and selected when a     *)
(* driver already did and recorded the selection with its coordinates.     *)
(***************************************************************************)
Event(id, at, kind, payload) ==
  [id |-> id, at |-> at, kind |-> kind, payload |-> payload]

ComponentInput(name, value) == [name |-> name, value |-> value]

EventBefore(e, f) == e.at < f.at \/ (e.at = f.at /\ e.id < f.id)

\* Fault: a new event goes in front of the ones due at the same time.
InsertEventAhead(e, pending) ==
  LET Ahead(f) == e.at <= f.at
  IN  [i \in 1 .. Len(pending) + 1 |->
         IF i <= Len(pending) /\ ~Ahead(pending[i]) THEN pending[i]
         ELSE IF i = 1 \/ ~Ahead(pending[i - 1]) THEN e
         ELSE pending[i - 1]]

\* The queue with e placed in front of the first event it precedes.
InsertEvent(e, pending) ==
  [i \in 1 .. Len(pending) + 1 |->
     IF i <= Len(pending) /\ ~EventBefore(e, pending[i]) THEN pending[i]
     ELSE IF i = 1 \/ ~EventBefore(e, pending[i - 1]) THEN e
     ELSE pending[i - 1]]

-------------------------------------------------------------------------------
(* Scheduling: every check happens before any slot changes.                *)

Ascending(values) ==
  \A i \in 1 .. Len(values) - 1 : Precedes(values[i], values[i + 1])

CoordinateShape(c) == c.path \in Paths /\ c.counter >= 0 /\ c.block >= 0

EventValid(kind, payload) ==
  CASE kind = "command" -> payload.value \in Canonical
    [] kind = "property-equals" ->
         {payload.property, payload.actual, payload.expected} \subseteq Canonical
    [] kind = "choice" ->
         /\ payload.alternatives # << >>
         /\ ToSet(payload.alternatives) \subseteq Canonical
         /\ payload.path \in Paths
         /\ payload.form \in {"drawn", "selected"}
         /\ payload.form = "selected" =>
              /\ payload.selected \in Canonical
              /\ \A c \in ToSet(payload.coordinates) : CoordinateShape(c)
    [] kind = "component" ->
         payload.name \in ValidNames /\ payload.value \in Canonical
    [] OTHER -> FALSE

EventOrderValid(kind, payload) ==
  kind = "choice" => Ascending(payload.alternatives)

EventSelectionValid(kind, payload) ==
  (kind = "choice" /\ payload.form = "selected") =>
    payload.selected \in ToSet(payload.alternatives)

ScheduleError(w, at, kind, payload) ==
  FirstError(<<
    IF at < 0 THEN "invalid-time" ELSE "ok",
    IF at < w.time THEN "stale-event" ELSE "ok",
    IF EventValid(kind, payload) THEN "ok" ELSE "invalid-event",
    IF EventValid(kind, payload) /\ ~EventOrderValid(kind, payload)
      THEN "choice-alternatives-order" ELSE "ok",
    IF EventValid(kind, payload) /\ ~EventSelectionValid(kind, payload)
      THEN "choice-selection-not-member" ELSE "ok" >>)

Schedule(w, at, kind, payload) ==
  LET code == ScheduleError(w, at, kind, payload)
  IN  IF code # "ok" THEN Refused(w, code)
      ELSE Reduced([w EXCEPT
                      !.nextId     = @ + 1,
                      !.pending    = InsertEvent(
                                       Event(w.nextId, at, kind, payload), @),
                      !.transcript = Append(@, [op |-> "schedule", at |-> at,
                                                kind |-> kind,
                                                payload |-> payload])],
                   << >>, << >>)

-------------------------------------------------------------------------------
(* Routing a committed step's facts.                                       *)

\* Fault: the routes of every component apply to every component's facts.
MatchesOfAnyone(name, facts) ==
  {m \in (DOMAIN Routes) \X (DOMAIN facts) \X (DOMAIN Registry) :
     LET route == Routes[m[1]]
         target == Registry[m[3]]
     IN  /\ route.fact = facts[m[2]].name
         /\ IF route.to.type = "component" THEN route.to.id = target
            ELSE NodeOf[target] = route.to.id}

\* One delivery per (route, fact, component) that match: <<r, f, c>> are
\* positions in Routes, in the step's facts and in the registry.
Matches(name, facts) ==
  {m \in (DOMAIN Routes) \X (DOMAIN facts) \X (DOMAIN Registry) :
     LET route == Routes[m[1]]
         target == Registry[m[3]]
     IN  /\ route.from = name
         /\ route.fact = facts[m[2]].name
         /\ IF route.to.type = "component" THEN route.to.id = target
            ELSE NodeOf[target] = route.to.id}

\* Route declaration order, then fact emission order, then registry order.
Earlier(m, n) ==
  \/ m[1] < n[1]
  \/ m[1] = n[1] /\ m[2] < n[2]
  \/ m[1] = n[1] /\ m[2] = n[2] /\ m[3] < n[3]

InRouteOrder(matches) ==
  [i \in 1 .. Cardinality(matches) |->
     CHOOSE m \in matches : Cardinality({n \in matches : Earlier(n, m)}) = i - 1]

RouteDeliveries(name, facts) ==
  LET matches == InRouteOrder(Matches(name, facts))
  IN  [i \in DOMAIN matches |->
         ComponentInput(Registry[matches[i][3]], facts[matches[i][2]].value)]

\* Fault: all deliveries of a step share one identifier.
RouteEnqueueOneId(deliveries, at, nextId, pending) ==
  LET due == Cardinality({i \in DOMAIN pending : pending[i].at <= at})
  IN  SubSeq(pending, 1, due)
      \o [i \in DOMAIN deliveries |->
            Event(nextId, at, "component", deliveries[i])]
      \o SubSeq(pending, due + 1, Len(pending))

\* The deliveries enter the queue one after the other at the current time
\* with the next identifiers, so they stay together: behind everything due
\* now, in front of everything due later.
RouteEnqueue(deliveries, at, nextId, pending) ==
  LET due == Cardinality({i \in DOMAIN pending : pending[i].at <= at})
      n   == Len(deliveries)
  IN  [i \in 1 .. Len(pending) + n |->
         IF i <= due THEN pending[i]
         ELSE IF i <= due + n
         THEN Event(nextId + (i - due - 1), at, "component", deliveries[i - due])
         ELSE pending[i - n]]

-------------------------------------------------------------------------------
(* Dispatch of the event an advance popped.                                *)

\* Fault: the fact's own name is stamped where the component's belongs.
StampByFact(id, at, name, facts) ==
  [i \in DOMAIN facts |->
     [component |-> facts[i].name, event |-> id, time |-> at,
      name |-> facts[i].name, value |-> facts[i].value]]

Stamp(id, at, name, facts) ==
  [i \in DOMAIN facts |->
     [component |-> name, event |-> id, time |-> at,
      name |-> facts[i].name, value |-> facts[i].value]]

Publish(id, at, name, choices) ==
  [i \in DOMAIN choices |->
     [type |-> "component-choice", component |-> name, event |-> id,
      time |-> at, purpose |-> choices[i].purpose,
      alternatives |-> choices[i].alternatives]]

\* Fault: state and facts are kept before the cascade budget is compared.
CommitBeforeBudget(w, id, at, name, step) ==
  LET deliveries == RouteDeliveries(name, step.facts)
      count      == w.count + Len(deliveries)
      stepped    == [w EXCEPT
                       !.states[name] = step.state,
                       !.facts = @ \o Stamp(id, at, name, step.facts)]
  IN  IF count > RouteLimit THEN Refused(stepped, "route-cascade-exceeded")
      ELSE Reduced([stepped EXCEPT
                      !.count   = count,
                      !.nextId  = @ + Len(deliveries),
                      !.pending = RouteEnqueue(deliveries, at, w.nextId, @)],
                   << >>, Publish(id, at, name, step.choices))

\* Fault: routed deliveries are written on the transcript as well.
CommitRecordingRoutes(w, id, at, name, step) ==
  LET deliveries == RouteDeliveries(name, step.facts)
      count      == w.count + Len(deliveries)
  IN  IF count > RouteLimit THEN Refused(w, "route-cascade-exceeded")
      ELSE Reduced([w EXCEPT
                      !.count        = count,
                      !.nextId       = @ + Len(deliveries),
                      !.pending      = RouteEnqueue(deliveries, at, w.nextId, @),
                      !.transcript   =
                        @ \o [i \in DOMAIN deliveries |->
                                [op |-> "schedule", at |-> at,
                                 kind |-> "component",
                                 payload |-> deliveries[i]]],
                      !.states[name] = step.state,
                      !.facts        = @ \o Stamp(id, at, name, step.facts)],
                   << >>, Publish(id, at, name, step.choices))

\* The cascade budget is compared before anything of the step is kept.
ComponentCommit(w, id, at, name, step) ==
  LET deliveries == RouteDeliveries(name, step.facts)
      count      == w.count + Len(deliveries)
  IN  IF count > RouteLimit THEN Refused(w, "route-cascade-exceeded")
      ELSE Reduced([w EXCEPT
                      !.count        = count,
                      !.nextId       = @ + Len(deliveries),
                      !.pending      = RouteEnqueue(deliveries, at, w.nextId, @),
                      !.states[name] = step.state,
                      !.facts        = @ \o Stamp(id, at, name, step.facts)],
                   << >>, Publish(id, at, name, step.choices))

DispatchComponent(w, id, at, payload) ==
  IF payload.name \notin Names THEN Refused(w, "component-unknown")
  ELSE LET result == ComponentStep(payload.name, w.states[payload.name],
                                   payload.value, at)
       IN  IF result.code # "ok" THEN Refused(w, result.code)
           ELSE ComponentCommit(w, id, at, payload.name, result.step)

ChoiceRecord(id, at, payload, selected, coordinates) ==
  [type |-> "choice", event |-> id, time |-> at,
   alternatives |-> payload.alternatives, selected |-> selected,
   coordinates |-> coordinates]

\* A drawn choice samples its path's stream and moves the stream on.
Choose(w, id, at, payload) ==
  LET sample == Sample(payload.path, w.streams[payload.path],
                       Len(payload.alternatives))
  IN  Reduced([w EXCEPT !.streams[payload.path] = sample.counter], << >>,
              << ChoiceRecord(id, at, payload,
                              payload.alternatives[sample.index + 1],
                              sample.coordinates) >>)

\* Fault: a recorded selection moves its path's stream like a draw.
ApplySelectedDrawing(w, id, at, payload) ==
  Reduced([w EXCEPT !.streams[payload.path] = @ + 1], << >>,
          << ChoiceRecord(id, at, payload, payload.selected,
                          payload.coordinates) >>)

\* A recorded selection is applied as it stands: no draw, no counter moved.
ApplySelected(w, id, at, payload) ==
  Reduced(w, << >>, << ChoiceRecord(id, at, payload, payload.selected,
                                    payload.coordinates) >>)

PropertyVerdict(w, id, at, payload) ==
  Reduced([w EXCEPT !.verdicts =
             Append(@, [event |-> id, time |-> at,
                        property |-> payload.property,
                        result |-> IF payload.actual = payload.expected
                                   THEN "PASS" ELSE "FAIL"])],
          << >>, << >>)

Dispatch(w, e) ==
  CASE e.kind = "command" ->
         Reduced(w, << [event |-> e.id, time |-> e.at,
                        value |-> e.payload.value] >>, << >>)
    [] e.kind = "property-equals" -> PropertyVerdict(w, e.id, e.at, e.payload)
    [] e.kind = "choice" /\ e.payload.form = "drawn" ->
         Choose(w, e.id, e.at, e.payload)
    [] e.kind = "choice" /\ e.payload.form = "selected" ->
         ApplySelected(w, e.id, e.at, e.payload)
    [] e.kind = "component" -> DispatchComponent(w, e.id, e.at, e.payload)

\* Fault: every advance opens a fresh budget.
RoutingReset(count, time, at) == IF at >= time THEN 0 ELSE count

\* A strictly later instant opens a fresh budget of routed deliveries.
RoutingAdvanced(count, time, at) == IF at > time THEN 0 ELSE count

\* The event is popped, time moves and the input is on the transcript
\* before the dispatch is tried; a refused dispatch leaves it at that.
Advance(w) ==
  IF w.pending = << >> THEN Refused(w, "no-pending-event")
  ELSE LET e == Head(w.pending)
       IN  Dispatch([w EXCEPT
                       !.time       = e.at,
                       !.pending    = Tail(@),
                       !.transcript = Append(@, [op |-> "advance"]),
                       !.count      = RoutingAdvanced(@, w.time, e.at)], e)

Reduce(w, input) ==
  CASE input.op = "schedule" ->
         Schedule(w, input.at, input.kind, input.payload)
    [] input.op = "advance"  -> Advance(w)
    [] input.op = "rollback" -> Refused(w, "time-rollback-forbidden")
    [] OTHER                 -> Refused(w, "invalid-event")

InitialWorld ==
  [time |-> 0, nextId |-> 0, pending |-> << >>,
   streams |-> [p \in Paths |-> 0],
   transcript |-> << >>, verdicts |-> << >>,
   states |-> InitState, facts |-> << >>, count |-> 0]

\* urdr.world.replay: inputs are reduced in order up to the first error, and
\* a failing step leaves the world as it was before that step.
ReplayStep(run, input) ==
  IF run.error # NoError THEN run
  ELSE LET r == Reduce(run.world, input)
       IN  IF r.error = NoError THEN [world |-> r.world, error |-> NoError]
           ELSE [world |-> run.world, error |-> r.error]

Replay(transcript) ==
  FoldLeft(ReplayStep, [world |-> InitialWorld, error |-> NoError], transcript)
==============================================================================
