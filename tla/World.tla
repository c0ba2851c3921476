-------------------------------- MODULE World --------------------------------
(***************************************************************************)
(* The world kernel under an arbitrary caller: any legal or illegal input, *)
(* in any order, one reduction at a time.  The two callers of the code     *)
(* (urdr.world.replay-h and urdr.run.apply) stop at the first reduction    *)
(* that carries an error, and so does this one.                            *)
(***************************************************************************)
EXTENDS Reducer

CONSTANTS
  Inputs,    \* the schedule inputs a caller may submit: [at, kind, payload]
  MaxInputs  \* how many of them one behaviour submits (bound of the model)

ASSUME InputsAssumption ==
  /\ \A in \in Inputs : in.at \in Instants \cup {-1}
  /\ \A in \in Inputs :
       in.kind = "choice" => in.payload.alternatives \in Seq(Values)
  /\ MaxInputs \in Nat

VARIABLES
  world,     \* the world value
  error,     \* code of the reduction that ended the run, or "none"
  dispatched \* history: every popped event with the outcome of its dispatch

vars == << world, error, dispatched >>

Submitted(w) == {i \in DOMAIN w.transcript : w.transcript[i].op = "schedule"}
Drawn(event) == event.kind = "choice" /\ event.payload.form = "drawn"
Pending == ToSet(world.pending)
Popped  == {d.event : d \in ToSet(dispatched)}

Init ==
  /\ world = InitialWorld
  /\ error = NoError
  /\ dispatched = << >>

Keep(reduction) == world' = reduction.world /\ error' = reduction.error

ScheduleInput(in) ==
  /\ error = NoError
  /\ Cardinality(Submitted(world)) < MaxInputs
  /\ Keep(Schedule(world, in.at, in.kind, in.payload))
  /\ UNCHANGED dispatched

AdvanceToNextEvent ==
  /\ error = NoError
  /\ world.pending # << >>
  /\ LET reduction == Advance(world)
     IN  /\ Keep(reduction)
         /\ dispatched' = Append(dispatched,
                                 [event   |-> Head(world.pending),
                                  error   |-> reduction.error,
                                  choices |-> reduction.choices])

AdvanceOfNothing ==
  /\ error = NoError
  /\ world.pending = << >>
  /\ Keep(Advance(world))
  /\ UNCHANGED dispatched

RollbackInput ==
  /\ error = NoError
  /\ Keep(Reduce(world, [op |-> "rollback"]))
  /\ UNCHANGED dispatched

Next ==
  \/ \E in \in Inputs : ScheduleInput(in)
  \/ AdvanceToNextEvent
  \/ AdvanceOfNothing
  \/ RollbackInput

Spec == Init /\ [][Next]_vars

-------------------------------------------------------------------------------
\* Types: the slots of the world are what the kernel's shape check expects,
\* and every input a caller submitted and every advance is on the transcript.
TypeOK ==
  /\ DOMAIN world = DOMAIN InitialWorld
  /\ world.time \in Instants \cup {0}
  /\ world.nextId \in Nat /\ world.count \in Nat
  /\ \A e \in Pending : e.id \in Nat /\ e.at \in Instants
  /\ world.streams \in [Paths -> Nat]
  /\ world.states \in [Names -> Canonical]
  /\ Len(world.transcript) = Cardinality(Submitted(world)) + Len(dispatched)

(***************************************************************************)
(* Events are dispatched in one total order, by time and then by           *)
(* identifier, whatever order callers and routes submitted them in, and    *)
(* none is dispatched before the current instant (insert-event, the        *)
(* stale-event check, fresh identifiers and same-time routed enqueues).    *)
(***************************************************************************)
DispatchOrder ==
  LET order == [i \in 1 .. Len(dispatched) + Len(world.pending) |->
                  IF i <= Len(dispatched) THEN dispatched[i].event
                  ELSE world.pending[i - Len(dispatched)]]
  IN  /\ \A i \in 1 .. Len(order) - 1 : EventBefore(order[i], order[i + 1])
      /\ \A e \in Pending : e.at >= world.time

(***************************************************************************)
(* No event is lost, duplicated or renumbered: the identifiers handed out  *)
(* so far are exactly those popped and those still pending, once each,     *)
(* also when a step was refused half way through its routing.              *)
(***************************************************************************)
EventsConserved ==
  /\ {e.id : e \in Popped \cup Pending} = 0 .. world.nextId - 1
  /\ Len(dispatched) + Len(world.pending) = world.nextId

(***************************************************************************)
(* The routed deliveries of an instant are what its events leave once the  *)
(* submitted ones are taken out.  The kernel's running count is exact for  *)
(* the current instant and no instant ever sees more than the limit, so a  *)
(* same-time cascade is finite (the cascade guard, world.shen:33-40).      *)
(***************************************************************************)
RoutedAt(t) ==
  Cardinality({e \in Popped \cup Pending : e.at = t})
  - Cardinality({i \in Submitted(world) : world.transcript[i].at = t})

CascadeBounded ==
  /\ world.count = RoutedAt(world.time)
  /\ \A t \in Instants : RoutedAt(t) <= RouteLimit

(***************************************************************************)
(* A fact causes one delivery per route and target that match it and       *)
(* nothing else causes one: component events beyond those submitted        *)
(* correspond to (fact, route, component) triples, value by value, at the  *)
(* fact's own instant (ADR 0007 D4).                                       *)
(***************************************************************************)
RoutedOnce ==
  \A n \in Names, v \in Values, t \in Instants :
    LET input == ComponentInput(n, v)
        events == {e \in Popped \cup Pending :
                     e.kind = "component" /\ e.payload = input /\ e.at = t}
        submitted == {i \in Submitted(world) :
                        /\ world.transcript[i].kind = "component"
                        /\ world.transcript[i].payload = input
                        /\ world.transcript[i].at = t}
        causes == {c \in (DOMAIN world.facts) \X (DOMAIN Routes) :
                     LET fact == world.facts[c[1]]
                         route == Routes[c[2]]
                     IN  /\ fact.value = v /\ fact.time = t
                         /\ route.fact = fact.name
                         /\ route.from = fact.component
                         /\ \/ route.to = ComponentTarget(n)
                            \/ route.to = NodeTarget(NodeOf[n])}
    IN  Cardinality(events) = Cardinality(submitted) + Cardinality(causes)

(***************************************************************************)
(* A refused step is refused whole.  Whatever its handler returned and     *)
(* however far its routing got, the states, facts, verdicts, streams and   *)
(* identifiers are those from before, and the queue is at most one event   *)
(* shorter ("an over-budget step alters nothing", world.shen:719-721).     *)
(***************************************************************************)
RefusedWhole ==
  [][error' # NoError =>
       /\ world'.states = world.states /\ world'.facts = world.facts
       /\ world'.verdicts = world.verdicts /\ world'.streams = world.streams
       /\ world'.nextId = world.nextId
       /\ \/ world'.pending = world.pending
          \/ world'.pending = Tail(world.pending)]_vars

(***************************************************************************)
(* A stream moves by one for every choice drawn on its path and for        *)
(* nothing else: not for a selected choice, not for a choice on another    *)
(* path.  Hence no coordinate is ever drawn twice (SPEC.md 16, ADR 0007    *)
(* D2).                                                                    *)
(***************************************************************************)
DrawsOf(path) ==
  {i \in DOMAIN dispatched : /\ Drawn(dispatched[i].event)
                             /\ dispatched[i].event.payload.path = path}

CoordinatesOf(i) == ToSet(dispatched[i].choices[1].coordinates)

StreamIsolation ==
  /\ \A p \in Paths : world.streams[p] = Cardinality(DrawsOf(p))
  /\ \A p, q \in Paths : \A i \in DrawsOf(p), j \in DrawsOf(q) :
       i # j => CoordinatesOf(i) \cap CoordinatesOf(j) = {}

(***************************************************************************)
(* Every fact and every published menu carries the identity and the time   *)
(* of the event whose dispatch produced it, and the name of the component  *)
(* that event was addressed to: no component can speak for another.  A     *)
(* choice reports one of the alternatives of its own event as selected,    *)
(* drawn or recorded (the membership door, world.shen:356).                *)
(***************************************************************************)
ProvenanceOf(record) ==
  \E d \in ToSet(dispatched) :
    /\ d.error = NoError /\ d.event.kind = "component"
    /\ d.event.id = record.event /\ d.event.at = record.time
    /\ d.event.payload.name = record.component

Provenance ==
  /\ \A f \in ToSet(world.facts) : ProvenanceOf(f)
  /\ \A d \in ToSet(dispatched) : \A c \in ToSet(d.choices) :
       IF c.type = "component-choice"
       THEN c.event = d.event.id /\ ProvenanceOf(c)
       ELSE c.selected \in ToSet(d.event.payload.alternatives)

(***************************************************************************)
(* The kernel's authorities stay the kernel's: no component state, fact,   *)
(* menu or routed value in the world ever claims one, even when a caller   *)
(* submits values that do and a component echoes them.                     *)
(***************************************************************************)
NoAuthorityClaimed ==
  /\ \A n \in Names : world.states[n] \in Canonical \ Claiming
  /\ \A f \in ToSet(world.facts) : f.value \in Canonical \ Claiming
  /\ \A d \in ToSet(dispatched) : \A c \in ToSet(d.choices) :
       c.type = "component-choice" =>
         ToSet(c.alternatives) \subseteq Canonical \ Claiming

(***************************************************************************)
(* Replaying the transcript from boot gives back the world and the error:  *)
(* the transcript records no routed delivery and no draw, and replay       *)
(* derives the same ones again (world.shen:778-780, ADR 0007 D2, SPEC 2).  *)
(* A step that was refused after its event was popped is on the returned   *)
(* world's transcript; replay stops in front of it with the same code.     *)
(***************************************************************************)
ReplayAgrees ==
  IF error = NoError
  THEN Replay(world.transcript) = [world |-> world, error |-> NoError]
  ELSE Len(dispatched) > 0 /\ dispatched[Len(dispatched)].error # NoError
       => Replay(world.transcript).error = error
==============================================================================
