----------------------------- MODULE WorldProofs -----------------------------
(***************************************************************************)
(* Theorems about the world kernel, for every registry, route table,       *)
(* handler, cascade limit and set of inputs; and about the timers, the     *)
(* processes, the networks and the fault models of a world, whatever other *)
(* components it has.                                                      *)
(***************************************************************************)
EXTENDS Models, ReducerProofs

(***************************************************************************)
(* The inductive invariant.  DispatchOrder alone is not inductive: that a  *)
(* routed or submitted event lands behind everything already dispatched    *)
(* needs identifiers below nextId, and times around the current one, on    *)
(* both sides.                                                             *)
(***************************************************************************)
PastOK ==
  /\ IsSeq(dispatched)
  /\ \A i \in 1 .. Len(dispatched) :
       /\ dispatched[i].event.id \in Nat /\ dispatched[i].event.at \in Nat
       /\ dispatched[i].event.id < world.nextId
       /\ dispatched[i].event.at <= world.time
  /\ \A i, j \in 1 .. Len(dispatched) :
       i < j => EventBefore(dispatched[i].event, dispatched[j].event)

PastBeforeFuture ==
  \A i \in 1 .. Len(dispatched) : \A e \in Pending :
    EventBefore(dispatched[i].event, e)

Identifiers ==
  /\ {d.event.id : d \in ToSet(dispatched)} \cup {e.id : e \in Pending}
       = 0 .. world.nextId - 1
  /\ Len(dispatched) + Len(world.pending) = world.nextId

QueueInv == WorldOK(world) /\ PastOK /\ PastBeforeFuture /\ Identifiers

LEMMA QueueInvInit == Init => QueueInv
<1> SUFFICES ASSUME Init  PROVE QueueInv
  OBVIOUS
<1>1. /\ DOMAIN world = DOMAIN InitialWorld
      /\ world.time = 0 /\ world.nextId = 0 /\ world.count = 0
      /\ world.pending = << >> /\ dispatched = << >>
  BY DEF Init, InitialWorld
<1>2. IsSeq(<< >>) /\ Len(<< >>) = 0 /\ ToSet(<< >>) = {}
  <2>1. << >> \in Seq({})
    OBVIOUS
  <2> QED
    BY <2>1 DEF IsSeq, ToSet
<1>3. WorldOK(world)
  BY <1>1, <1>2 DEF WorldOK, Queue, Ordered
<1>4. PastOK /\ PastBeforeFuture
  BY <1>1, <1>2 DEF PastOK, PastBeforeFuture
<1>5. Identifiers
  BY <1>1, <1>2 DEF Identifiers, Pending
<1> QED
  BY <1>3, <1>4, <1>5 DEF QueueInv

(***************************************************************************)
(* A step that only adds events to the world keeps the invariant.          *)
(***************************************************************************)
LEMMA ExtensionKeepsQueueInv ==
  ASSUME QueueInv, WorldOK(world'), Extends(world, world'),
         world'.time = world.time, dispatched' = dispatched
  PROVE  QueueInv'
<1>1. PICK new : ExtendedBy(world, world', new)
  BY DEF Extends
<1>2. world'.nextId >= world.nextId
        /\ world.nextId \in Nat /\ world'.nextId \in Nat
  BY DEF Extends, QueueInv, WorldOK
<1>3. PastOK'
  BY <1>2 DEF QueueInv, PastOK, WorldOK
<1>4. PastBeforeFuture'
  <2> SUFFICES ASSUME NEW i \in 1 .. Len(dispatched), NEW e \in Pending'
               PROVE  EventBefore(dispatched[i].event, e)
    BY DEF PastBeforeFuture
  <2>1. e \in Pending \/ e \in new
    BY <1>1 DEF ExtendedBy, Pending
  <2>2. CASE e \in Pending
    BY <2>2 DEF QueueInv, PastBeforeFuture
  <2>3. CASE e \in new
    <3>1. e.at >= world.time /\ e.id \in world.nextId .. world'.nextId - 1
      BY <2>3, <1>1 DEF ExtendedBy
    <3>2. e.at \in Nat
      BY ElementsOf DEF Pending, WorldOK, Queue
    <3>3. /\ dispatched[i].event.id \in Nat /\ dispatched[i].event.at \in Nat
          /\ dispatched[i].event.id < world.nextId
          /\ dispatched[i].event.at <= world.time
          /\ world.time \in Nat
      BY DEF QueueInv, PastOK, WorldOK
    <3> QED
      BY <3>1, <3>2, <3>3, <1>2, SMTT(40) DEF EventBefore
  <2> QED
    BY <2>1, <2>2, <2>3
<1>5. Identifiers'
  <2>1. {e.id : e \in Pending'} = {e.id : e \in Pending} \cup {e.id : e \in new}
    BY <1>1 DEF ExtendedBy, Pending
  <2>2. {e.id : e \in new} = world.nextId .. world'.nextId - 1
    BY <1>1 DEF ExtendedBy
  <2>3. (0 .. world.nextId - 1) \cup (world.nextId .. world'.nextId - 1)
          = 0 .. world'.nextId - 1
    BY <1>2
  <2>4. Len(world.pending) \in Nat /\ Len(dispatched) \in Nat
    BY SeqIsFunction DEF QueueInv, WorldOK, Queue, PastOK
  <2>5. Len(dispatched) + Len(world'.pending) = world'.nextId
    BY <1>2, <2>4 DEF Extends, QueueInv, Identifiers
  <2> QED
    BY <2>1, <2>2, <2>3, <2>5 DEF QueueInv, Identifiers
<1> QED
  BY <1>3, <1>4, <1>5 DEF QueueInv

LEMMA QueueInvStep == QueueInv /\ [Next]_vars => QueueInv'
<1> SUFFICES ASSUME QueueInv, [Next]_vars  PROVE QueueInv'
  OBVIOUS
<1> USE DEF Keep
<1>1. ASSUME NEW in \in Inputs, ScheduleInput(in)  PROVE QueueInv'
  <2>1. in.at \in Int
    <3>1. in.at \in Instants \cup {-1}
      BY InputsAssumption
    <3>2. Instants \subseteq Int /\ -1 \in Int
      BY InstantsAssumption
    <3> QED
      BY <3>1, <3>2, Zenon
  <2>2. /\ world' = Schedule(world, in.at, in.kind, in.payload).world
        /\ dispatched' = dispatched
    BY <1>1 DEF ScheduleInput
  <2>3. WorldOK(world') /\ Extends(world, world') /\ world'.time = world.time
    BY <2>1, <2>2, ScheduleExtends DEF QueueInv
  <2> QED
    BY <2>2, <2>3, ExtensionKeepsQueueInv
<1>2. ASSUME AdvanceToNextEvent  PROVE QueueInv'
  <2> DEFINE a == Popping(world)
             e == Head(world.pending)
             record == [event |-> e, error |-> Advance(world).error,
                        choices |-> Advance(world).choices]
  <2>1. /\ world.pending # << >>
        /\ world' = Advance(world).world
        /\ dispatched' = Append(dispatched, record)
    BY <1>2 DEF AdvanceToNextEvent
  <2>2. /\ Advance(world) = Dispatch(a, e)
        /\ WorldOK(a) /\ Dispatchable(e)
        /\ a.time = e.at /\ a.nextId = world.nextId
        /\ a.pending = Tail(world.pending)
        /\ e = world.pending[1] /\ Len(world.pending) > 0
    BY <2>1, AdvanceIsDispatch DEF QueueInv
  <2>3. record.event = e
    OBVIOUS
  <2> HIDE DEF a, e, record
  <2>4. WorldOK(world') /\ Extends(a, world') /\ world'.time = a.time
    BY <2>1, <2>2, DispatchExtends
  <2>5. PICK new : ExtendedBy(a, world', new)
    BY <2>4 DEF Extends
  <2>6. /\ Len(world.pending) \in Nat
        /\ IsSeq(Tail(world.pending))
        /\ Len(Tail(world.pending)) = Len(world.pending) - 1
        /\ \A i \in 1 .. Len(world.pending) - 1 :
             Tail(world.pending)[i] = world.pending[i + 1]
    BY <2>1, TailIsSeq, SeqIsFunction DEF QueueInv, WorldOK, Queue
  <2>7. /\ e.id \in Nat /\ e.at \in Nat /\ e.id < world.nextId
        /\ e.at >= world.time /\ e \in Pending
    BY <2>2, <2>6, ElementsOf DEF QueueInv, WorldOK, Queue, Pending
  <2>8. Pending = ToSet(a.pending) \cup {e}
    <3>1. Pending = {world.pending[i] : i \in 1 .. Len(world.pending)}
      BY ElementsOf DEF Pending, QueueInv, WorldOK, Queue
    <3>2. ToSet(a.pending) = {Tail(world.pending)[i] :
                                i \in 1 .. Len(world.pending) - 1}
      BY <2>2, <2>6, ElementsOf
    <3>3. ToSet(a.pending) \cup {e} \subseteq Pending
      BY <3>1, <3>2, <2>6, <2>7
    <3>4. ASSUME NEW i \in 1 .. Len(world.pending)
          PROVE  world.pending[i] \in ToSet(a.pending) \cup {e}
      <4>1. CASE i = 1
        BY <4>1, <2>2
      <4>2. CASE i # 1
        <5>1. i - 1 \in 1 .. Len(world.pending) - 1 /\ i - 1 + 1 = i
          BY <4>2, <2>6
        <5> QED
          BY <5>1, <3>2, <2>6
      <4> QED
        BY <4>1, <4>2
    <3> QED
      BY <3>1, <3>3, <3>4
  <2>9. \A x \in ToSet(a.pending) : EventBefore(e, x)
    <3>2. ToSet(a.pending) = {Tail(world.pending)[i] :
                                i \in 1 .. Len(world.pending) - 1}
      BY <2>2, <2>6, ElementsOf
    <3> SUFFICES ASSUME NEW i \in 1 .. Len(world.pending) - 1
                 PROVE  EventBefore(e, Tail(world.pending)[i])
      BY <3>2
    <3>1. i + 1 \in 1 .. Len(world.pending) /\ 1 \in 1 .. Len(world.pending)
            /\ 1 < i + 1
      BY <2>6
    <3> QED
      BY <3>1, <2>2, <2>6 DEF QueueInv, WorldOK, Ordered
  <2>10. world'.nextId >= world.nextId
           /\ world.nextId \in Nat /\ world'.nextId \in Nat
    BY <2>2, <2>4 DEF Extends, QueueInv, WorldOK
  <2>11. /\ IsSeq(dispatched') /\ Len(dispatched) \in Nat
         /\ Len(dispatched') = Len(dispatched) + 1
         /\ \A i \in 1 .. Len(dispatched) : dispatched'[i] = dispatched[i]
         /\ dispatched'[Len(dispatched) + 1] = record
    BY <2>1, AppendIsSeq, SeqIsFunction DEF QueueInv, PastOK
  <2>12. /\ world.time \in Nat
         /\ \A i \in 1 .. Len(dispatched) :
              /\ dispatched[i].event.id \in Nat /\ dispatched[i].event.at \in Nat
              /\ dispatched[i].event.id < world.nextId
              /\ dispatched[i].event.at <= world.time
    BY DEF QueueInv, PastOK, WorldOK
  <2>13. /\ world.time \in Nat /\ world'.time \in Nat
         /\ world.time <= world'.time /\ world'.time = e.at
    BY <2>2, <2>4, <2>7, <2>12
  <2>14. PastOK'
    <3>1. ASSUME NEW i \in 1 .. Len(dispatched')
          PROVE  /\ dispatched'[i].event.id \in Nat
                 /\ dispatched'[i].event.at \in Nat
                 /\ dispatched'[i].event.id < world'.nextId
                 /\ dispatched'[i].event.at <= world'.time
      <4>1. CASE i \in 1 .. Len(dispatched)
        <5>1. dispatched'[i] = dispatched[i]
          BY <4>1, <2>11
        <5> QED
          BY <4>1, <5>1, <2>10, <2>12, <2>13
      <4>2. CASE i = Len(dispatched) + 1
        BY <4>2, <2>11, <2>3, <2>10, <2>2, <2>4, <2>7
      <4> QED
        BY <4>1, <4>2, <2>11
    <3>2. ASSUME NEW i \in 1 .. Len(dispatched'), NEW j \in 1 .. Len(dispatched'),
                 i < j
          PROVE  EventBefore(dispatched'[i].event, dispatched'[j].event)
      <4>1. i \in 1 .. Len(dispatched)
        BY <3>2, <2>11
      <4>2. CASE j \in 1 .. Len(dispatched)
        BY <4>1, <4>2, <3>2, <2>11 DEF QueueInv, PastOK
      <4>3. CASE j = Len(dispatched) + 1
        BY <4>1, <4>3, <2>3, <2>7, <2>11 DEF QueueInv, PastBeforeFuture
      <4> QED
        BY <4>2, <4>3, <2>11
    <3> QED
      BY <3>1, <3>2, <2>11 DEF PastOK
  <2>15. PastBeforeFuture'
    <3> SUFFICES ASSUME NEW i \in 1 .. Len(dispatched'), NEW x \in Pending'
                 PROVE  EventBefore(dispatched'[i].event, x)
      BY DEF PastBeforeFuture
    <3>1. CASE x \in ToSet(a.pending)
      <4>1. CASE i \in 1 .. Len(dispatched)
        BY <3>1, <4>1, <2>8, <2>11 DEF QueueInv, PastBeforeFuture
      <4>2. CASE i = Len(dispatched) + 1
        BY <3>1, <4>2, <2>3, <2>9, <2>11
      <4> QED
        BY <4>1, <4>2, <2>11
    <3>2. CASE x \in new
      <4>1. x.at >= world'.time /\ x.id \in world.nextId .. world'.nextId - 1
        BY <3>2, <2>2, <2>4, <2>5 DEF ExtendedBy
      <4>2. x.at \in Nat /\ x.id \in Nat /\ world.nextId <= x.id
        <5>1. x.at \in Nat
          BY <2>4, ElementsOf DEF Pending, WorldOK, Queue
        <5> QED
          BY <4>1, <5>1, <2>10
      <4>3. CASE i \in 1 .. Len(dispatched)
        <5>1. dispatched'[i] = dispatched[i]
          BY <4>3, <2>11
        <5>2. /\ dispatched[i].event.id \in Nat /\ dispatched[i].event.at \in Nat
              /\ dispatched[i].event.id < world.nextId
              /\ dispatched[i].event.at <= world.time
          BY <4>3, <2>12
        <5>3. dispatched[i].event.at <= world'.time
          BY <5>2, <2>13
        <5>4. EventBefore(dispatched[i].event, x)
          BY <4>1, <4>2, <5>2, <5>3, <2>10, <2>13, OlderComesFirst
        <5> QED
          BY <5>1, <5>4
      <4>4. CASE i = Len(dispatched) + 1
        <5>1. dispatched'[i].event = e
          BY <4>4, <2>3, <2>11
        <5>2. EventBefore(e, x)
          BY <4>1, <4>2, <2>7, <2>10, <2>13, OlderComesFirst
        <5> QED
          BY <5>1, <5>2
      <4> QED
        BY <4>3, <4>4, <2>11
    <3> QED
      BY <3>1, <3>2, <2>5 DEF ExtendedBy, Pending
  <2>16. Identifiers'
    <3> DEFINE Past(s) == {d.event.id : d \in ToSet(s)}
               Ids(E) == {x.id : x \in E}
    <3>1. Past(dispatched') = Past(dispatched) \cup {e.id}
      <4>1. ToSet(dispatched') = ToSet(dispatched) \cup {record}
        <5>1. ToSet(dispatched) = {dispatched[i] : i \in 1 .. Len(dispatched)}
          BY ElementsOf DEF QueueInv, PastOK
        <5>2. ToSet(dispatched') = {dispatched'[i] : i \in 1 .. Len(dispatched')}
          BY <2>11, ElementsOf
        <5> QED
          BY <5>1, <5>2, <2>11
      <4> QED
        BY <4>1, <2>3
    <3>2. Ids(Pending) = Ids(ToSet(a.pending)) \cup {e.id}
      BY <2>8
    <3>3. Ids(Pending') = Ids(ToSet(a.pending)) \cup Ids(new)
      BY <2>5 DEF ExtendedBy, Pending
    <3>4. Ids(new) = world.nextId .. world'.nextId - 1
      BY <2>2, <2>5 DEF ExtendedBy
    <3>5. Past(dispatched) \cup Ids(Pending) = 0 .. world.nextId - 1
      BY DEF QueueInv, Identifiers
    <3>6. (0 .. world.nextId - 1) \cup (world.nextId .. world'.nextId - 1)
            = 0 .. world'.nextId - 1
      BY <2>10
    <3> HIDE DEF Past, Ids
    <3>7. Past(dispatched') \cup Ids(Pending') = 0 .. world'.nextId - 1
      BY <3>1, <3>2, <3>3, <3>4, <3>5, <3>6
    <3>8. Len(dispatched') + Len(world'.pending) = world'.nextId
      BY <2>2, <2>4, <2>6, <2>10, <2>11 DEF Extends, QueueInv, Identifiers
    <3> QED
      BY <3>7, <3>8 DEF Identifiers, Past, Ids
  <2> QED
    BY <2>4, <2>14, <2>15, <2>16 DEF QueueInv
<1>3. ASSUME AdvanceOfNothing \/ RollbackInput  PROVE QueueInv'
  <2>1. world' = world /\ dispatched' = dispatched
    BY <1>3 DEF AdvanceOfNothing, RollbackInput, Advance, Reduce, Refused
  <2> QED
    BY <2>1 DEF QueueInv, WorldOK, PastOK, PastBeforeFuture, Identifiers,
                Pending
<1>4. CASE UNCHANGED vars
  BY <1>4 DEF vars, QueueInv, WorldOK, PastOK, PastBeforeFuture, Identifiers,
              Pending
<1> QED
  BY <1>1, <1>2, <1>3, <1>4 DEF Next

(***************************************************************************)
(* The kernel's queue keeps its invariant in every behaviour.              *)
(***************************************************************************)
THEOREM QueueInvariant == Spec => []QueueInv
BY QueueInvInit, QueueInvStep, PTL DEF Spec

(***************************************************************************)
(* Events are dispatched by time and identifier, and none before the       *)
(* current instant (insert-event, schedule's stale check, route-enqueue),  *)
(* for every handler, route table and order of submissions.                *)
(***************************************************************************)
THEOREM DispatchInOrder == Spec => []DispatchOrder
<1>1. QueueInv => DispatchOrder
  <2> SUFFICES ASSUME QueueInv  PROVE DispatchOrder
    OBVIOUS
  <2> DEFINE n == Len(dispatched)
             m == Len(world.pending)
             order == [i \in 1 .. n + m |->
                         IF i <= n THEN dispatched[i].event
                         ELSE world.pending[i - n]]
  <2>1. n \in Nat /\ m \in Nat
    BY SeqIsFunction DEF QueueInv, WorldOK, Queue, PastOK
  <2>2. Len(order) = n + m
    BY <2>1
  <2>3. Pending = {world.pending[i] : i \in 1 .. m}
    BY ElementsOf DEF Pending, QueueInv, WorldOK, Queue
  <2>4. ASSUME NEW i \in 1 .. n + m - 1
        PROVE  EventBefore(order[i], order[i + 1])
    <3>1. CASE i + 1 <= n
      <4>1. order[i] = dispatched[i].event /\ order[i + 1] = dispatched[i + 1].event
              /\ i \in 1 .. n /\ i + 1 \in 1 .. n
        BY <3>1, <2>1
      <4> QED
        BY <4>1, <2>1 DEF QueueInv, PastOK
    <3>2. CASE i = n
      <4>1. order[i] = dispatched[n].event /\ order[i + 1] = world.pending[1]
              /\ n \in 1 .. n /\ 1 \in 1 .. m
        BY <3>2, <2>1
      <4> QED
        BY <4>1, <2>3 DEF QueueInv, PastBeforeFuture
    <3>3. CASE i > n
      <4>1. order[i] = world.pending[i - n] /\ order[i + 1] = world.pending[i + 1 - n]
              /\ i - n \in 1 .. m /\ i + 1 - n \in 1 .. m /\ i - n < i + 1 - n
        BY <3>3, <2>1
      <4> QED
        BY <4>1 DEF QueueInv, WorldOK, Ordered
    <3> QED
      BY <3>1, <3>2, <3>3, <2>1
  <2>5. \A e \in Pending : e.at >= world.time
    BY <2>3 DEF QueueInv, WorldOK
  <2> HIDE DEF order
  <2>6. \A i \in 1 .. Len(order) - 1 : EventBefore(order[i], order[i + 1])
    BY <2>2, <2>4
  <2> QED
    BY <2>5, <2>6 DEF DispatchOrder, order
<1> QED
  BY <1>1, QueueInvariant, PTL

(***************************************************************************)
(* No event is lost, duplicated or renumbered, also when a step is refused *)
(* half way through its routing.                                           *)
(***************************************************************************)
THEOREM NoEventLost == Spec => []EventsConserved
<1>1. QueueInv => EventsConserved
  <2> SUFFICES ASSUME QueueInv  PROVE EventsConserved
    OBVIOUS
  <2>1. {e.id : e \in Popped \cup Pending}
          = {d.event.id : d \in ToSet(dispatched)} \cup {e.id : e \in Pending}
    BY DEF Popped
  <2> QED
    BY <2>1 DEF QueueInv, Identifiers, EventsConserved
<1> QED
  BY <1>1, QueueInvariant, PTL

(***************************************************************************)
(* The draws.  A stream's counter is the number of draws on its path, and  *)
(* every coordinate drawn so far lies below it, on its own path.           *)
(***************************************************************************)
DrawnAt(i, p, c) ==
  \A x \in CoordinatesOf(i) : x.path = p /\ x.counter = c

StreamInv ==
  /\ world.streams \in [Paths -> Nat]
  /\ \A p \in Paths :
       /\ IsFiniteSet(DrawsOf(p))
       /\ Cardinality(DrawsOf(p)) = world.streams[p]
       /\ \A i \in DrawsOf(p) : \E c \in Nat : c < world.streams[p] /\ DrawnAt(i, p, c)
  /\ \A p, q \in Paths : \A i \in DrawsOf(p), j \in DrawsOf(q) :
       i # j => CoordinatesOf(i) \cap CoordinatesOf(j) = {}

LEMMA DispatchDraws ==
  ASSUME NEW w, WorldOK(w), w.streams \in [Paths -> Nat], NEW e, Dispatchable(e)
  PROVE  LET r == Dispatch(w, e)
             p == e.payload.path
         IN  /\ ~Drawn(e) => r.world.streams = w.streams
             /\ Drawn(e) =>
                  /\ r.world.streams = [w.streams EXCEPT ![p] = w.streams[p] + 1]
                  /\ \A x \in ToSet(r.choices[1].coordinates) :
                       x.path = p /\ x.counter = w.streams[p]
<1> DEFINE r == Dispatch(w, e)
           p == e.payload.path
<1>1. CASE e.kind = "command"
  <2>1. r.world = w /\ ~Drawn(e)
    BY <1>1 DEF Dispatch, Reduced, Drawn
  <2> QED
    BY <2>1
<1>2. CASE e.kind = "property-equals"
  <2>1. r.world.streams = w.streams /\ ~Drawn(e)
    BY <1>2, WorldFields DEF Dispatch, PropertyVerdict, Reduced, WorldOK, Drawn
  <2> QED
    BY <2>1
<1>3. CASE e.kind = "choice" /\ e.payload.form = "selected"
  <2>1. r.world = w /\ ~Drawn(e)
    BY <1>3 DEF Dispatch, ApplySelected, Reduced, Drawn
  <2> QED
    BY <2>1
<1>4. CASE e.kind = "choice" /\ e.payload.form = "drawn"
  <2> DEFINE sample == Sample(p, w.streams[p], Len(e.payload.alternatives))
             block == AcceptedBlock(p, w.streams[p], Len(e.payload.alternatives))
             coordinates == Coordinates(p, w.streams[p], block)
             drawn == ChoiceRecord(e.id, e.at, e.payload,
                                   e.payload.alternatives[sample.index + 1],
                                   coordinates)
  <2>1. r = Reduced([w EXCEPT !.streams[p] = w.streams[p] + 1], << >>, << drawn >>)
    BY <1>4 DEF Dispatch, Choose, Sample
  <2>2. drawn.coordinates = coordinates
    BY DEF ChoiceRecord
  <2>3. \A x \in ToSet(coordinates) : x.path = p /\ x.counter = w.streams[p]
    BY DEF Coordinates, ToSet
  <2> HIDE DEF drawn, coordinates
  <2>4. r.choices[1] = drawn
    BY <2>1 DEF Reduced
  <2>5. r.world.streams = [w.streams EXCEPT ![p] = w.streams[p] + 1]
    BY <2>1, WorldFields DEF Reduced, WorldOK
  <2> HIDE DEF r
  <2>6. Drawn(e)
    BY <1>4 DEF Drawn
  <2> QED
    BY <2>2, <2>3, <2>4, <2>5, <2>6 DEF r
<1>5. CASE e.kind = "component"
  <2> DEFINE name == e.payload.name
             result == ComponentStep(name, w.states[name], e.payload.value, e.at)
  <2>1. r = DispatchComponent(w, e.id, e.at, e.payload) /\ ~Drawn(e)
    BY <1>5 DEF Dispatch, Drawn
  <2>2. CASE name \notin Names \/ result.code # "ok"
    <3>1. r = Refused(w, IF name \notin Names THEN "component-unknown" ELSE result.code)
      BY <2>1, <2>2 DEF DispatchComponent
    <3>2. r.world = w
      BY <3>1 DEF Refused
    <3> QED
      BY <2>1, <3>2
  <2>3. CASE name \in Names /\ result.code = "ok"
    <3>1. r = ComponentCommit(w, e.id, e.at, name, result.step)
      BY <2>1, <2>3 DEF DispatchComponent
    <3> HIDE DEF r, result
    <3>2. r.world.streams = w.streams
      BY <3>1, WorldFields DEF ComponentCommit, Reduced, Refused, WorldOK
    <3> QED
      BY <2>1, <3>2 DEF r
  <2> QED
    BY <2>2, <2>3
<1> QED
  BY <1>1, <1>2, <1>3, <1>4, <1>5 DEF Dispatchable

LEMMA StreamInit == Init => StreamInv
<1> SUFFICES ASSUME Init  PROVE StreamInv
  OBVIOUS
<1>1. world.streams = [p \in Paths |-> 0] /\ dispatched = << >>
  BY DEF Init, InitialWorld
<1>2. \A p : DrawsOf(p) = {}
  BY <1>1 DEF DrawsOf
<1>3. IsFiniteSet({}) /\ Cardinality({}) = 0
  BY FS_EmptySet
<1>4. world.streams \in [Paths -> Nat] /\ \A p \in Paths : world.streams[p] = 0
  BY <1>1
<1> QED
  BY <1>2, <1>3, <1>4 DEF StreamInv

\* The draws so far are what they were, while the log and the streams stay.
LEMMA StreamKept ==
  ASSUME StreamInv, dispatched' = dispatched, world'.streams = world.streams
  PROVE  StreamInv'
<1>1. /\ \A p : DrawsOf(p)' = DrawsOf(p)
      /\ \A i : CoordinatesOf(i)' = CoordinatesOf(i)
  BY DEF DrawsOf, CoordinatesOf
<1> QED
  BY <1>1 DEF StreamInv, DrawnAt

LEMMA StreamStep == QueueInv /\ StreamInv /\ [Next]_vars => StreamInv'
<1> SUFFICES ASSUME QueueInv, StreamInv, [Next]_vars  PROVE StreamInv'
  OBVIOUS
<1> USE DEF Keep
<1>1. ASSUME NEW in \in Inputs, ScheduleInput(in)  PROVE StreamInv'
  <2>1. /\ world' = Schedule(world, in.at, in.kind, in.payload).world
        /\ dispatched' = dispatched
    BY <1>1 DEF ScheduleInput
  <2>2. world'.streams = world.streams
    BY <2>1, WorldFields DEF Schedule, Reduced, Refused, QueueInv, WorldOK
  <2> QED
    BY <2>1, <2>2, StreamKept
<1>2. ASSUME AdvanceToNextEvent  PROVE StreamInv'
  <2> DEFINE a == Popping(world)
             e == Head(world.pending)
             r == Dispatch(a, e)
             record == [event |-> e, error |-> Advance(world).error,
                        choices |-> Advance(world).choices]
             path == e.payload.path
  <2> PICK n : n = Len(dispatched)
    OBVIOUS
  <2>1. /\ world.pending # << >>
        /\ world' = Advance(world).world
        /\ dispatched' = Append(dispatched, record)
    BY <1>2 DEF AdvanceToNextEvent
  <2>2. Advance(world) = r /\ WorldOK(a) /\ Dispatchable(e)
    BY <2>1, AdvanceIsDispatch DEF QueueInv
  <2>3. a.streams = world.streams
    BY WorldFields DEF Popping, QueueInv, WorldOK
  <2>4. record.choices = r.choices /\ record.event = e
    BY <2>2
  <2> HIDE DEF a, record
  <2>5. /\ ~Drawn(e) => world'.streams = world.streams
        /\ Drawn(e) =>
             /\ world'.streams = [world.streams EXCEPT ![path] = world.streams[path] + 1]
             /\ \A x \in ToSet(r.choices[1].coordinates) :
                  x.path = path /\ x.counter = world.streams[path]
    <3>1. WorldOK(a) /\ a.streams \in [Paths -> Nat] /\ Dispatchable(e)
      BY <2>2, <2>3 DEF StreamInv
    <3>2. /\ ~Drawn(e) => r.world.streams = a.streams
          /\ Drawn(e) =>
               /\ r.world.streams = [a.streams EXCEPT ![path] = a.streams[path] + 1]
               /\ \A x \in ToSet(r.choices[1].coordinates) :
                    x.path = path /\ x.counter = a.streams[path]
      BY <3>1, DispatchDraws
    <3>3. world' = r.world
      BY <2>1, <2>2
    <3> HIDE DEF r, e, path
    <3> QED
      BY <2>3, <3>2, <3>3
  <2> HIDE DEF r, e
  <2>6. /\ n \in Nat /\ DOMAIN dispatched = 1 .. n /\ DOMAIN dispatched' = 1 .. n + 1
        /\ \A i \in 1 .. n : dispatched'[i] = dispatched[i]
        /\ dispatched'[n + 1] = record
    BY <2>1, AppendIsSeq, SeqIsFunction DEF QueueInv, PastOK
  <2>7. /\ \A i \in 1 .. n : CoordinatesOf(i)' = CoordinatesOf(i)
        /\ CoordinatesOf(n + 1)' = ToSet(r.choices[1].coordinates)
    BY <2>4, <2>6 DEF CoordinatesOf
  <2>8. \A p \in Paths :
          DrawsOf(p)' = DrawsOf(p) \cup (IF Drawn(e) /\ path = p THEN {n + 1} ELSE {})
    BY <2>4, <2>6 DEF DrawsOf, path
  <2>9. \A p \in Paths : DrawsOf(p) \subseteq 1 .. n /\ n + 1 \notin DrawsOf(p)
    BY <2>6 DEF DrawsOf
  <2> HIDE DEF path
  <2>10. world'.streams \in [Paths -> Nat]
    BY <2>5 DEF StreamInv
  <2>11. ASSUME NEW p \in Paths
         PROVE  /\ IsFiniteSet(DrawsOf(p)')
                /\ Cardinality(DrawsOf(p)') = world'.streams[p]
                /\ \A i \in DrawsOf(p)' :
                     \E c \in Nat : c < world'.streams[p] /\ DrawnAt(i, p, c)'
    <3>1. /\ IsFiniteSet(DrawsOf(p)) /\ Cardinality(DrawsOf(p)) = world.streams[p]
          /\ world.streams[p] \in Nat
          /\ \A i \in DrawsOf(p) : \E c \in Nat : c < world.streams[p] /\ DrawnAt(i, p, c)
      BY <2>11 DEF StreamInv
    <3>2. \A i \in DrawsOf(p) : \A c : DrawnAt(i, p, c)' <=> DrawnAt(i, p, c)
      BY <2>7, <2>9, <2>11 DEF DrawnAt
    <3>3. CASE ~(Drawn(e) /\ path = p)
      <4>1. DrawsOf(p)' = DrawsOf(p) /\ world'.streams[p] = world.streams[p]
        BY <2>5, <2>8, <2>11, <3>3, ZenonT(40) DEF StreamInv
      <4> QED
        BY <3>1, <3>2, <4>1
    <3>4. CASE Drawn(e) /\ path = p
      <4>1. DrawsOf(p)' = DrawsOf(p) \cup {n + 1} /\ world'.streams[p] = world.streams[p] + 1
        BY <2>5, <2>8, <2>11, <3>4 DEF StreamInv
      <4>2. /\ IsFiniteSet(DrawsOf(p) \cup {n + 1})
            /\ Cardinality(DrawsOf(p) \cup {n + 1}) = Cardinality(DrawsOf(p)) + 1
        BY <2>9, <2>11, <3>1, FS_AddElement
      <4>3. \A x \in CoordinatesOf(n + 1)' : x.path = p /\ x.counter = world.streams[p]
        BY <2>5, <2>7, <3>4
      <4>4. \E c \in Nat : c < world'.streams[p] /\ DrawnAt(n + 1, p, c)'
        <5>1. PICK c \in Nat : c = world.streams[p]
          BY <3>1
        <5>2. DrawnAt(n + 1, p, c)'
          BY <4>3, <5>1 DEF DrawnAt
        <5> QED
          BY <4>1, <5>1, <5>2
      <4>5. ASSUME NEW i \in DrawsOf(p)
            PROVE  \E c \in Nat : c < world'.streams[p] /\ DrawnAt(i, p, c)'
        BY <3>1, <3>2, <4>1, <4>5
      <4> QED
        BY <3>1, <4>1, <4>2, <4>4, <4>5
    <3> QED
      BY <3>3, <3>4
  <2>12. ASSUME NEW p \in Paths, NEW q \in Paths, NEW i \in DrawsOf(p)',
                NEW j \in DrawsOf(q)', i # j
         PROVE  CoordinatesOf(i)' \cap CoordinatesOf(j)' = {}
    <3>1. ASSUME NEW s \in Paths, NEW k \in DrawsOf(s), Drawn(e), path \in Paths
          PROVE  CoordinatesOf(k)' \cap CoordinatesOf(n + 1)' = {}
      <4>1. PICK c \in Nat : c < world.streams[s] /\ DrawnAt(k, s, c)
        BY <3>1 DEF StreamInv
      <4>2. CoordinatesOf(k)' = CoordinatesOf(k)
        BY <2>7, <2>9, <3>1
      <4>3. world.streams[s] \in Nat
        BY DEF StreamInv
      <4> QED
        BY <2>5, <2>7, <3>1, <4>1, <4>2, <4>3 DEF DrawnAt
    <3>2. CASE i \in DrawsOf(p) /\ j \in DrawsOf(q)
      BY <2>7, <2>9, <2>12, <3>2 DEF StreamInv
    <3>3. CASE i \notin DrawsOf(p)
      <4>1. i = n + 1 /\ Drawn(e) /\ path = p
        BY <2>8, <2>12, <3>3
      <4>2. j \in DrawsOf(q)
        BY <2>8, <2>12, <4>1
      <4> QED
        BY <3>1, <4>1, <4>2
    <3>4. CASE j \notin DrawsOf(q)
      <4>1. j = n + 1 /\ Drawn(e) /\ path = q
        BY <2>8, <2>12, <3>4
      <4>2. i \in DrawsOf(p)
        BY <2>8, <2>12, <4>1
      <4> QED
        BY <3>1, <4>1, <4>2
    <3> QED
      BY <3>2, <3>3, <3>4
  <2> QED
    BY <2>10, <2>11, <2>12 DEF StreamInv
<1>3. ASSUME AdvanceOfNothing \/ RollbackInput  PROVE StreamInv'
  <2>1. world' = world /\ dispatched' = dispatched
    BY <1>3 DEF AdvanceOfNothing, RollbackInput, Advance, Reduce, Refused
  <2> QED
    BY <2>1, StreamKept
<1>4. CASE UNCHANGED vars
  BY <1>4, StreamKept DEF vars
<1> QED
  BY <1>1, <1>2, <1>3, <1>4 DEF Next

(***************************************************************************)
(* Draws on one stream are counted by it and by nothing else, and no       *)
(* coordinate is ever drawn twice, whatever the hash, the handlers and the *)
(* recorded choices in between (urdr.world.choose and apply-selected).     *)
(***************************************************************************)
THEOREM StreamsAreIsolated == Spec => []StreamIsolation
<1>1. StreamInv => StreamIsolation
  BY DEF StreamInv, StreamIsolation
<1> QED
  BY <1>1, StreamInit, StreamStep, QueueInvInit, QueueInvStep, PTL DEF Spec

(***************************************************************************)
(* Replay.  While no reduction has failed the transcript replays to the    *)
(* world in hand; the reduction that fails leaves the replay in front of   *)
(* it, with its code.  A submission that is refused leaves no record, so   *)
(* only the failure of a popped event shows in a replay.                   *)
(***************************************************************************)
LastFailed ==
  Len(dispatched) > 0 /\ dispatched[Len(dispatched)].error # NoError

ReplayInv ==
  /\ IsSeq(world.transcript)
  /\ error = NoError =>
       /\ Replay(world.transcript) = [world |-> world, error |-> NoError]
       /\ \A i \in 1 .. Len(dispatched) : dispatched[i].error = NoError
  /\ error # NoError /\ LastFailed => Replay(world.transcript).error = error

LEMMA ReplayInit == Init => ReplayInv
<1> SUFFICES ASSUME Init  PROVE ReplayInv
  OBVIOUS
<1>1. world = InitialWorld /\ error = NoError /\ dispatched = << >>
  BY DEF Init
<1>2. world.transcript = << >> /\ << >> \in Seq({})
  BY <1>1 DEF InitialWorld
<1>3. Replay(world.transcript) = [world |-> world, error |-> NoError]
  BY <1>1, <1>2, ReplayOfNothing DEF Boot
<1> QED
  BY <1>1, <1>2, <1>3 DEF ReplayInv, IsSeq

\* One reduction more is one replay step more.
LEMMA ReplayContinues ==
  ASSUME ReplayInv, error = NoError, NEW record, NEW reduction,
         Reduce(world, record) = reduction,
         reduction.world.transcript = Append(world.transcript, record)
  PROVE  Replay(reduction.world.transcript) =
           [world |-> IF reduction.error = NoError THEN reduction.world ELSE world,
            error |-> reduction.error]
<1>1. /\ IsSeq(world.transcript)
      /\ Replay(world.transcript) = [world |-> world, error |-> NoError]
  BY DEF ReplayInv
<1>2. Replay(reduction.world.transcript)
        = ReplayStep([world |-> world, error |-> NoError], record)
  BY <1>1, ReplayOfAppend
<1> QED
  BY <1>2 DEF ReplayStep

LEMMA ReplayInvStep == QueueInv /\ ReplayInv /\ [Next]_vars => ReplayInv'
<1> SUFFICES ASSUME QueueInv, ReplayInv, [Next]_vars  PROVE ReplayInv'
  OBVIOUS
<1> USE DEF Keep
<1>1. ASSUME NEW in \in Inputs, ScheduleInput(in)  PROVE ReplayInv'
  <2> DEFINE r == Schedule(world, in.at, in.kind, in.payload)
             record == [op |-> "schedule", at |-> in.at, kind |-> in.kind,
                        payload |-> in.payload]
  <2>1. in.at \in Int
    <3>1. in.at \in Instants \cup {-1}
      BY InputsAssumption
    <3>2. Instants \subseteq Int /\ -1 \in Int
      BY InstantsAssumption
    <3> QED
      BY <3>1, <3>2, Zenon
  <2>2. /\ world' = r.world /\ error' = r.error /\ error = NoError
        /\ dispatched' = dispatched
    BY <1>1 DEF ScheduleInput
  <2>3. Reduce(world, record) = r
    BY DEF Reduce
  <2>4. /\ IsSeq(world.transcript)
        /\ \A i \in 1 .. Len(dispatched) : dispatched[i].error = NoError
        /\ Len(dispatched) \in Nat
    BY <2>2, SeqIsFunction DEF ReplayInv, QueueInv, PastOK
  <2>5. CASE r.error = NoError
    <3>1. r.world.transcript = Append(world.transcript, record)
      BY <2>1, <2>5, ScheduleRecords DEF QueueInv
    <3>2. Replay(r.world.transcript) = [world |-> r.world, error |-> NoError]
      BY <2>2, <2>3, <2>5, <3>1, ReplayContinues
    <3>3. IsSeq(r.world.transcript)
      BY <2>4, <3>1, AppendIsSeq
    <3> HIDE DEF r
    <3> QED
      BY <2>2, <2>4, <2>5, <3>2, <3>3 DEF ReplayInv
  <2>6. CASE r.error # NoError
    <3>1. r.world = world
      BY <2>6 DEF Schedule, Refused, Reduced
    <3> HIDE DEF r
    <3>2. world' = world /\ ~LastFailed'
      BY <2>2, <2>4, <3>1 DEF LastFailed
    <3> QED
      BY <2>2, <2>4, <2>6, <3>2 DEF ReplayInv
  <2> QED
    BY <2>5, <2>6
<1>2. ASSUME AdvanceToNextEvent  PROVE ReplayInv'
  <2> DEFINE r == Advance(world)
             record == [event |-> Head(world.pending), error |-> r.error,
                        choices |-> r.choices]
             advance == [op |-> "advance"]
  <2> PICK n : n = Len(dispatched)
    OBVIOUS
  <2>1. /\ world.pending # << >>
        /\ world' = r.world /\ error' = r.error /\ error = NoError
        /\ dispatched' = Append(dispatched, record)
    BY <1>2 DEF AdvanceToNextEvent
  <2>2. Reduce(world, advance) = r
    BY DEF Reduce
  <2>3. r.world.transcript = Append(world.transcript, advance)
    BY <2>1, AdvanceRecords DEF QueueInv
  <2>4. IsSeq(world.transcript) /\ IsSeq(r.world.transcript)
    BY <2>3, AppendIsSeq DEF ReplayInv
  <2>5. Replay(r.world.transcript) =
          [world |-> IF r.error = NoError THEN r.world ELSE world,
           error |-> r.error]
    BY <2>1, <2>2, <2>3, ReplayContinues
  <2>6. record.error = r.error
    OBVIOUS
  <2> HIDE DEF r, record, advance
  <2>7. /\ n \in Nat /\ Len(dispatched') = n + 1
        /\ \A i \in 1 .. n : dispatched'[i] = dispatched[i]
        /\ dispatched'[n + 1] = record
        /\ \A i \in 1 .. n : dispatched[i].error = NoError
    BY <2>1, AppendIsSeq, SeqIsFunction DEF QueueInv, PastOK, ReplayInv
  <2>8. \A i \in 1 .. n + 1 : i = n + 1 \/ i \in 1 .. n
    BY <2>7
  <2> QED
    BY <2>1, <2>4, <2>5, <2>6, <2>7, <2>8 DEF ReplayInv
<1>3. ASSUME AdvanceOfNothing \/ RollbackInput  PROVE ReplayInv'
  <2>1. /\ world' = world /\ dispatched' = dispatched
        /\ error = NoError /\ error' # NoError
    BY <1>3 DEF AdvanceOfNothing, RollbackInput, Advance, Reduce, Refused, NoError
  <2>2. Len(dispatched) \in Nat
    BY SeqIsFunction DEF QueueInv, PastOK
  <2>3. ~LastFailed'
    BY <2>1, <2>2 DEF LastFailed, ReplayInv
  <2> QED
    BY <2>1, <2>3 DEF ReplayInv
<1>4. CASE UNCHANGED vars
  BY <1>4 DEF vars, ReplayInv, LastFailed
<1> QED
  BY <1>1, <1>2, <1>3, <1>4 DEF Next

(***************************************************************************)
(* For every handler, route table, hash and order of inputs, replaying the *)
(* transcript from boot gives back the world in hand, and a dispatch that  *)
(* failed fails the replay with its code (urdr.world.replay, replay-h).    *)
(***************************************************************************)
THEOREM TranscriptsReplay == Spec => []ReplayAgrees
<1>1. ReplayInv => ReplayAgrees
  BY DEF ReplayInv, ReplayAgrees, LastFailed
<1> QED
  BY <1>1, ReplayInit, ReplayInvStep, QueueInvInit, QueueInvStep, PTL DEF Spec
-------------------------------------------------------------------------------
(***************************************************************************)
(* What a component can get into a world, whatever its handler returns: no *)
(* handler is assumed to be well behaved.                                  *)
(***************************************************************************)
Unclaimed == Canonical \ Claiming

\* The records of one dispatch name no authority in a published menu.
MenusUnclaimed(choices) ==
  /\ IsSeq(choices)
  /\ \A i \in 1 .. Len(choices) :
       choices[i].type = "component-choice" =>
         ToSet(choices[i].alternatives) \subseteq Unclaimed

WorldUnclaimed(w) ==
  /\ DOMAIN w.states = Names
  /\ \A n \in Names : w.states[n] \in Unclaimed
  /\ IsSeq(w.facts)
  /\ \A i \in 1 .. Len(w.facts) : w.facts[i].value \in Unclaimed

(***************************************************************************)
(* A menu the contract accepts offers only values that claim nothing.      *)
(***************************************************************************)
LEMMA AcceptedMenu ==
  ASSUME NEW menu \in Menu, CheckAlternatives(menu.alternatives) = "ok"
  PROVE  ToSet(menu.alternatives) \subseteq Unclaimed
<1> DEFINE alternatives == menu.alternatives
           n == Len(alternatives)
           checks == [i \in 1 .. n |-> CheckAlternative(alternatives, i)]
<1>1. alternatives \in Seq(Values) /\ n \in Nat /\ DOMAIN alternatives = 1 .. n
  BY DEF Menu
<1>2. FirstError(checks) = "ok"
  BY DEF CheckAlternatives
<1>3. \A i \in 1 .. n : checks[i] = "ok"
  <2>1. DOMAIN checks = 1 .. n
    OBVIOUS
  <2> HIDE DEF checks
  <2> QED
    BY <1>1, <1>2, <2>1, FirstErrorOk
<1>4. ASSUME NEW i \in 1 .. n  PROVE alternatives[i] \in Unclaimed
  <2>1. CheckAlternative(alternatives, i) = "ok"
    BY <1>3
  <2> QED
    BY <2>1 DEF CheckAlternative, CheckValue, Unclaimed
<1> QED
  BY <1>1, <1>4 DEF ToSet

LEMMA AcceptedMenus ==
  ASSUME NEW choices, CheckChoices(choices) = "ok"
  PROVE  /\ choices \in Seq(Menu)
         /\ \A i \in 1 .. Len(choices) :
              ToSet(choices[i].alternatives) \subseteq Unclaimed
<1> DEFINE n == Len(choices)
           checks == [i \in 1 .. n |-> CheckChoice(choices, i)]
<1>1. choices \in Seq(Menu) /\ FirstError(checks) = "ok"
  BY DEF CheckChoices
<1>2. \A i \in 1 .. n : checks[i] = "ok"
  <2>1. n \in Nat /\ DOMAIN checks = 1 .. n
    BY <1>1
  <2> HIDE DEF checks
  <2> QED
    BY <1>1, <2>1, FirstErrorOk
<1>3. ASSUME NEW i \in 1 .. n
      PROVE  ToSet(choices[i].alternatives) \subseteq Unclaimed
  <2>1. CheckChoice(choices, i) = "ok" /\ choices[i] \in Menu
    BY <1>1, <1>2
  <2>2. CheckAlternatives(choices[i].alternatives) = "ok"
    BY <2>1 DEF CheckChoice
  <2> QED
    BY <2>1, <2>2, AcceptedMenu
<1> QED
  BY <1>1, <1>3

LEMMA StepChoicesAccepted ==
  ASSUME NEW name, NEW state, NEW value, NEW time,
         ComponentStep(name, state, value, time).code = "ok"
  PROVE  CheckChoices(ComponentStep(name, state, value, time).step.choices) = "ok"
<1> DEFINE result == Handler(name, state, value, time)
<1>1. ComponentStep(name, state, value, time).step = result
  BY DEF ComponentStep, Checked
<1>2. CheckStep(result) = "ok"
  BY MarkerAssumption DEF ComponentStep, Checked
<1> HIDE DEF result
<1> DEFINE codes == << CheckValue(result.state, "component-state-invalid",
                                  "component-state-authority"),
                       CheckFacts(result.facts),
                       CheckChoices(result.choices) >>
<1>3. DOMAIN codes = 1 .. 3 /\ FirstError(codes) = "ok" 
  BY <1>2 DEF CheckStep
<1>4. codes[3] = CheckChoices(result.choices)
  OBVIOUS
<1> HIDE DEF codes
<1>5. \A i \in 1 .. 3 : codes[i] = "ok"
  BY <1>3, FirstErrorOk
<1> QED
  BY <1>1, <1>4, <1>5

LEMMA CommitUnclaimed ==
  ASSUME NEW w, WorldOK(w), WorldUnclaimed(w), NEW id, NEW name \in Names,
         NEW step, step.state \in Unclaimed, step.facts \in Seq(Fact),
         \A i \in 1 .. Len(step.facts) : step.facts[i].value \in Unclaimed,
         CheckChoices(step.choices) = "ok"
  PROVE  LET r == ComponentCommit(w, id, w.time, name, step)
         IN  WorldUnclaimed(r.world) /\ MenusUnclaimed(r.choices)
<1> DEFINE r == ComponentCommit(w, id, w.time, name, step)
           n == Len(RouteDeliveries(name, step.facts))
           stamped == Stamp(id, w.time, name, step.facts)
           menus == Publish(id, w.time, name, step.choices)
<1>1. CASE w.count + n > RouteLimit
  <2>1. r.world = w /\ r.choices = << >>
    BY <1>1 DEF ComponentCommit, Refused
  <2>2. IsSeq(<< >>) /\ Len(<< >>) = 0
    <3>1. << >> \in Seq({})
      OBVIOUS
    <3> QED
      BY <3>1 DEF IsSeq
  <2> QED
    BY <2>1, <2>2 DEF MenusUnclaimed
<1>2. CASE ~(w.count + n > RouteLimit)
  <2>1. /\ r.world.states = [w.states EXCEPT ![name] = step.state]
        /\ r.world.facts = w.facts \o stamped
        /\ r.choices = menus
    BY <1>2, WorldFields DEF ComponentCommit, Reduced, WorldOK
  <2> HIDE DEF r
  <2>2. /\ DOMAIN r.world.states = Names
        /\ \A m \in Names : r.world.states[m] \in Unclaimed
    BY <2>1 DEF WorldUnclaimed
  <2>3. /\ Len(step.facts) \in Nat
        /\ DOMAIN step.facts = 1 .. Len(step.facts)
    OBVIOUS
  <2>4. /\ IsSeq(stamped) /\ Len(stamped) = Len(step.facts)
        /\ \A i \in 1 .. Len(stamped) : stamped[i].value \in Unclaimed
    <3>1. stamped = [i \in 1 .. Len(step.facts) |-> stamped[i]]
      BY <2>3 DEF Stamp
    <3>2. \A i \in 1 .. Len(step.facts) : stamped[i].value = step.facts[i].value
      BY <2>3 DEF Stamp
    <3> HIDE DEF stamped
    <3>3. IsSeq(stamped) /\ Len(stamped) = Len(step.facts)
      BY <2>3, <3>1, FunctionIsSeq
    <3> QED
      BY <3>2, <3>3
  <2>5. IsSeq(r.world.facts)
          /\ \A i \in 1 .. Len(r.world.facts) : r.world.facts[i].value \in Unclaimed
    <3> HIDE DEF stamped
    <3>1. PICK S : w.facts \in Seq(S)
      BY DEF WorldUnclaimed, IsSeq
    <3>2. PICK T : stamped \in Seq(T)
      BY <2>4 DEF IsSeq
    <3>3. w.facts \in Seq(S \cup T) /\ stamped \in Seq(S \cup T)
      BY <3>1, <3>2
    <3>4. r.world.facts \in Seq(S \cup T)
            /\ Len(r.world.facts) = Len(w.facts) + Len(stamped)
      BY <2>1, <3>3
    <3>5. ASSUME NEW i \in 1 .. Len(r.world.facts)
          PROVE  r.world.facts[i].value \in Unclaimed
      <4>1. CASE i <= Len(w.facts)
        <5>1. r.world.facts[i] = w.facts[i] /\ i \in 1 .. Len(w.facts)
          BY <2>1, <3>3, <3>4, <4>1
        <5> QED
          BY <5>1 DEF WorldUnclaimed
      <4>2. CASE i > Len(w.facts)
        <5>1. r.world.facts[i] = stamped[i - Len(w.facts)]
                /\ i - Len(w.facts) \in 1 .. Len(stamped)
          BY <2>1, <3>3, <3>4, <4>2
        <5> QED
          BY <5>1, <2>4
      <4>3. i \in Int /\ Len(w.facts) \in Int
        BY <3>1
      <4> QED
        BY <4>1, <4>2, <4>3
    <3> QED
      BY <3>4, <3>5 DEF IsSeq
  <2>6. MenusUnclaimed(menus)
    <3>1. /\ step.choices \in Seq(Menu)
          /\ \A i \in 1 .. Len(step.choices) :
               ToSet(step.choices[i].alternatives) \subseteq Unclaimed
      BY AcceptedMenus
    <3>2. /\ Len(step.choices) \in Nat
          /\ DOMAIN step.choices = 1 .. Len(step.choices)
      BY <3>1
    <3>3. menus = [i \in 1 .. Len(step.choices) |-> menus[i]]
      BY <3>2 DEF Publish
    <3>4. \A i \in 1 .. Len(step.choices) :
            menus[i].alternatives = step.choices[i].alternatives
      BY <3>2 DEF Publish
    <3> HIDE DEF menus
    <3>5. IsSeq(menus) /\ Len(menus) = Len(step.choices)
      BY <3>2, <3>3, FunctionIsSeq
    <3> QED
      BY <3>1, <3>4, <3>5 DEF MenusUnclaimed
  <2> QED
    BY <2>1, <2>2, <2>5, <2>6 DEF WorldUnclaimed, r
<1>3. w.count + n \in Nat /\ RouteLimit \in Nat
  <2>1. IsSeq(step.facts)
    BY DEF IsSeq
  <2> QED
    BY <2>1, DeliveriesAreASeq, BootAssumption DEF WorldOK
<1> QED
  BY <1>1, <1>2, <1>3

LEMMA NothingPublished ==
  MenusUnclaimed(<< >>)
<1>1. << >> \in Seq({}) /\ Len(<< >>) = 0
  OBVIOUS
<1> QED
  BY <1>1 DEF MenusUnclaimed, IsSeq

LEMMA DispatchUnclaimed ==
  ASSUME NEW w, WorldOK(w), WorldUnclaimed(w), NEW e, Dispatchable(e),
         e.at = w.time
  PROVE  LET r == Dispatch(w, e)
         IN  WorldUnclaimed(r.world) /\ MenusUnclaimed(r.choices)
<1> DEFINE r == Dispatch(w, e)
<1>1. CASE e.kind = "command"
  <2>1. r.world = w /\ r.choices = << >>
    BY <1>1 DEF Dispatch, Reduced
  <2> QED
    BY <2>1, NothingPublished
<1>2. CASE e.kind = "property-equals"
  <2>1. r = PropertyVerdict(w, e.id, e.at, e.payload)
    BY <1>2 DEF Dispatch
  <2> HIDE DEF r
  <2> DEFINE verdict == [event |-> e.id, time |-> e.at,
                         property |-> e.payload.property,
                         result |-> IF e.payload.actual = e.payload.expected
                                    THEN "PASS" ELSE "FAIL"]
  <2>2. /\ r.choices = << >>
        /\ r.world = [w EXCEPT !.verdicts = Append(@, verdict)]
    BY <2>1 DEF PropertyVerdict, Reduced
  <2> HIDE DEF verdict
  <2>3. r.world.states = w.states /\ r.world.facts = w.facts
    BY <2>2, WorldFields DEF WorldOK
  <2> QED
    BY <2>2, <2>3, NothingPublished DEF WorldUnclaimed, r
<1>3. CASE e.kind = "choice"
  <2> DEFINE one(selected, coordinates) ==
               << ChoiceRecord(e.id, e.at, e.payload, selected, coordinates) >>
  <2>1. ASSUME NEW selected, NEW coordinates
        PROVE  MenusUnclaimed(one(selected, coordinates))
    <3>1. ChoiceRecord(e.id, e.at, e.payload, selected, coordinates).type = "choice"
      BY DEF ChoiceRecord
    <3> DEFINE c == ChoiceRecord(e.id, e.at, e.payload, selected, coordinates)
    <3> HIDE DEF c
    <3>2. << c >> \in Seq({c}) /\ Len(<< c >>) = 1 /\ << c >>[1] = c
      OBVIOUS
    <3>3. c.type = "choice"
      BY <3>1 DEF c
    <3>4. IsSeq(<< c >>)
      BY <3>2 DEF IsSeq
    <3>5. \A i \in 1 .. 1 : << c >>[i].type = "choice"
      BY <3>3
    <3>6. MenusUnclaimed(<< c >>)
      BY <3>2, <3>4, <3>5 DEF MenusUnclaimed
    <3> QED
      BY <3>6 DEF c
  <2> HIDE DEF one
  <2>2. CASE e.payload.form = "drawn"
    <3> DEFINE sample == Sample(e.payload.path, w.streams[e.payload.path],
                                Len(e.payload.alternatives))
    <3>1. r = Choose(w, e.id, e.at, e.payload)
      BY <1>3, <2>2 DEF Dispatch
    <3>2. /\ r.world.states = w.states /\ r.world.facts = w.facts
          /\ r.choices = one(e.payload.alternatives[sample.index + 1],
                             sample.coordinates)
      BY <3>1, WorldFields, SMTT(60) DEF Choose, Reduced, WorldOK, one
    <3> QED
      BY <3>2, <2>1 DEF WorldUnclaimed
  <2>3. CASE e.payload.form = "selected"
    <3>1. r.world = w
            /\ r.choices = one(e.payload.selected, e.payload.coordinates)
      BY <1>3, <2>3 DEF Dispatch, ApplySelected, Reduced, one
    <3> QED
      BY <3>1, <2>1
  <2> QED
    BY <1>3, <2>2, <2>3 DEF Dispatchable
<1>4. CASE e.kind = "component"
  <2> DEFINE name == e.payload.name
             result == ComponentStep(name, w.states[name], e.payload.value, w.time)
  <2>1. r = DispatchComponent(w, e.id, w.time, e.payload)
    BY <1>4 DEF Dispatch
  <2>2. CASE name \notin Names \/ result.code # "ok"
    <3>1. r.world = w /\ r.choices = << >>
      BY <2>1, <2>2 DEF DispatchComponent, Refused
    <3> QED
      BY <3>1, NothingPublished
  <2>3. CASE name \in Names /\ result.code = "ok"
    <3>1. r = ComponentCommit(w, e.id, w.time, name, result.step)
      BY <2>1, <2>3 DEF DispatchComponent
    <3>2. /\ result.step.state \in Unclaimed
          /\ result.step.facts \in Seq(Fact)
          /\ \A i \in 1 .. Len(result.step.facts) :
               result.step.facts[i].value \in Unclaimed
      BY <2>3, AcceptedStep DEF Unclaimed
    <3>3. CheckChoices(result.step.choices) = "ok"
      BY <2>3, StepChoicesAccepted
    <3> HIDE DEF result
    <3> QED
      BY <2>3, <3>1, <3>2, <3>3, CommitUnclaimed
  <2> QED
    BY <2>2, <2>3
<1> QED
  BY <1>1, <1>2, <1>3, <1>4 DEF Dispatchable

-------------------------------------------------------------------------------
(***************************************************************************)
(* The invariant: the world and everything published so far claim nothing. *)
(* It needs QueueInv, which says what can be popped.                       *)
(***************************************************************************)
UnclaimedInv ==
  /\ WorldUnclaimed(world)
  /\ \A i \in 1 .. Len(dispatched) : MenusUnclaimed(dispatched[i].choices)

LEMMA UnclaimedInit == Init => UnclaimedInv
<1> SUFFICES ASSUME Init  PROVE UnclaimedInv
  OBVIOUS
<1>1. world.states = InitState /\ world.facts = << >> /\ dispatched = << >>
  BY DEF Init, InitialWorld
<1>2. << >> \in Seq({}) /\ Len(<< >>) = 0
  OBVIOUS
<1>3. DOMAIN InitState = Names /\ \A n \in Names : InitState[n] \in Unclaimed
  BY BootAssumption DEF Unclaimed
<1> QED
  BY <1>1, <1>2, <1>3 DEF UnclaimedInv, WorldUnclaimed, IsSeq

LEMMA UnclaimedStep == QueueInv /\ UnclaimedInv /\ [Next]_vars => UnclaimedInv'
<1> SUFFICES ASSUME QueueInv, UnclaimedInv, [Next]_vars  PROVE UnclaimedInv'
  OBVIOUS
<1> USE DEF Keep
<1>1. ASSUME NEW in \in Inputs, ScheduleInput(in)  PROVE UnclaimedInv'
  <2>1. /\ world' = Schedule(world, in.at, in.kind, in.payload).world
        /\ dispatched' = dispatched
    BY <1>1 DEF ScheduleInput
  <2>2. world'.states = world.states /\ world'.facts = world.facts
    BY <2>1, WorldFields DEF Schedule, Reduced, Refused, QueueInv, WorldOK
  <2> QED
    BY <2>1, <2>2 DEF UnclaimedInv, WorldUnclaimed
<1>2. ASSUME AdvanceToNextEvent  PROVE UnclaimedInv'
  <2> DEFINE a == Popping(world)
             e == Head(world.pending)
             r == Dispatch(a, e)
             record == [event |-> e, error |-> Advance(world).error,
                        choices |-> Advance(world).choices]
  <2>1. /\ world.pending # << >>
        /\ world' = Advance(world).world
        /\ dispatched' = Append(dispatched, record)
    BY <1>2 DEF AdvanceToNextEvent
  <2>2. /\ Advance(world) = r /\ WorldOK(a) /\ Dispatchable(e) /\ a.time = e.at
    BY <2>1, AdvanceIsDispatch DEF QueueInv
  <2>3. a.states = world.states /\ a.facts = world.facts
    BY WorldFields DEF Popping, QueueInv, WorldOK
  <2>4. record.choices = r.choices
    BY <2>2
  <2> HIDE DEF a, e, record
  <2>5. WorldUnclaimed(a)
    BY <2>3 DEF UnclaimedInv, WorldUnclaimed
  <2>6. WorldUnclaimed(r.world) /\ MenusUnclaimed(r.choices)
    BY <2>2, <2>5, DispatchUnclaimed
  <2> HIDE DEF r
  <2>7. /\ Len(dispatched) \in Nat
        /\ Len(dispatched') = Len(dispatched) + 1
        /\ \A i \in 1 .. Len(dispatched) : dispatched'[i] = dispatched[i]
        /\ dispatched'[Len(dispatched) + 1] = record
    BY <2>1, AppendIsSeq, SeqIsFunction DEF QueueInv, PastOK
  <2>8. ASSUME NEW i \in 1 .. Len(dispatched')
        PROVE  MenusUnclaimed(dispatched'[i].choices)
    <3>1. CASE i \in 1 .. Len(dispatched)
      BY <3>1, <2>7 DEF UnclaimedInv
    <3>2. CASE i = Len(dispatched) + 1
      BY <3>2, <2>4, <2>6, <2>7
    <3> QED
      BY <3>1, <3>2, <2>7
  <2> QED
    BY <2>1, <2>2, <2>6, <2>8 DEF UnclaimedInv
<1>3. ASSUME AdvanceOfNothing \/ RollbackInput  PROVE UnclaimedInv'
  <2>1. world' = world /\ dispatched' = dispatched
    BY <1>3 DEF AdvanceOfNothing, RollbackInput, Advance, Reduce, Refused
  <2> QED
    BY <2>1 DEF UnclaimedInv, WorldUnclaimed
<1>4. CASE UNCHANGED vars
  BY <1>4 DEF vars, UnclaimedInv, WorldUnclaimed
<1> QED
  BY <1>1, <1>2, <1>3, <1>4 DEF Next

(***************************************************************************)
(* No component state, fact or published alternative ever claims one of    *)
(* the kernel's authorities, for every handler (check-step, component.shen *)
(* and its use by urdr.world.component-result).                            *)
(***************************************************************************)
THEOREM AuthoritiesKept == Spec => []NoAuthorityClaimed
<1>1. QueueInv /\ UnclaimedInv => NoAuthorityClaimed
  <2> SUFFICES ASSUME QueueInv, UnclaimedInv  PROVE NoAuthorityClaimed
    OBVIOUS
  <2>1. \A n \in Names : world.states[n] \in Canonical \ Claiming
    BY DEF UnclaimedInv, WorldUnclaimed, Unclaimed
  <2>2. \A f \in ToSet(world.facts) : f.value \in Canonical \ Claiming
    BY ElementsOf DEF UnclaimedInv, WorldUnclaimed, Unclaimed
  <2>3. ASSUME NEW d \in ToSet(dispatched), NEW c \in ToSet(d.choices),
               c.type = "component-choice"
        PROVE  ToSet(c.alternatives) \subseteq Canonical \ Claiming
    <3>1. MenusUnclaimed(d.choices)
      BY ElementsOf DEF QueueInv, PastOK, UnclaimedInv
    <3> QED
      BY <3>1, <2>3, ElementsOf DEF MenusUnclaimed, Unclaimed
  <2> QED
    BY <2>1, <2>2, <2>3 DEF NoAuthorityClaimed
<1>2. Spec => [](QueueInv /\ UnclaimedInv)
  BY QueueInvInit, QueueInvStep, UnclaimedInit, UnclaimedStep, PTL DEF Spec
<1> QED
  BY <1>1, <1>2, PTL

-------------------------------------------------------------------------------
(***************************************************************************)
(* A dispatch that fails gives back the world it was given: the budget of  *)
(* routed deliveries and the contract are judged before anything is kept.  *)
(***************************************************************************)
LEMMA RefusedDispatchKeeps ==
  ASSUME NEW w, NEW e, Dispatchable(e), Dispatch(w, e).error # NoError
  PROVE  Dispatch(w, e).world = w
<1>1. CASE e.kind = "command"
  BY <1>1 DEF Dispatch, Reduced
<1>2. CASE e.kind = "property-equals"
  BY <1>2 DEF Dispatch, PropertyVerdict, Reduced
<1>3. CASE e.kind = "choice" /\ e.payload.form = "drawn"
  BY <1>3 DEF Dispatch, Choose, Reduced
<1>4. CASE e.kind = "choice" /\ e.payload.form = "selected"
  BY <1>4 DEF Dispatch, ApplySelected, Reduced
<1>5. CASE e.kind = "component"
  <2> DEFINE result == ComponentStep(e.payload.name, w.states[e.payload.name],
                                     e.payload.value, e.at)
  <2>1. Dispatch(w, e) = DispatchComponent(w, e.id, e.at, e.payload)
    BY <1>5 DEF Dispatch
  <2>2. CASE e.payload.name \notin Names \/ result.code # "ok"
    BY <2>1, <2>2 DEF DispatchComponent, Refused
  <2>3. CASE e.payload.name \in Names /\ result.code = "ok"
    <3>1. Dispatch(w, e)
            = ComponentCommit(w, e.id, e.at, e.payload.name, result.step)
      BY <2>1, <2>3 DEF DispatchComponent
    <3> HIDE DEF result
    <3> QED
      BY <3>1 DEF ComponentCommit, Reduced, Refused
  <2> QED
    BY <2>2, <2>3
<1> QED
  BY <1>1, <1>2, <1>3, <1>4, <1>5 DEF Dispatchable

(***************************************************************************)
(* A refused step is refused whole (world.shen:719-721), for every handler *)
(* and route table.                                                        *)
(***************************************************************************)
THEOREM RefusalsAreWhole == Spec => RefusedWhole
<1> DEFINE A == error' # NoError =>
                  /\ world'.states = world.states /\ world'.facts = world.facts
                  /\ world'.verdicts = world.verdicts
                  /\ world'.streams = world.streams
                  /\ world'.nextId = world.nextId
                  /\ \/ world'.pending = world.pending
                     \/ world'.pending = Tail(world.pending)
<1>1. QueueInv /\ [Next]_vars => [A]_vars
  <2> SUFFICES ASSUME QueueInv, Next, error' # NoError  PROVE A
    OBVIOUS
  <2> USE DEF Keep
  <2>1. ASSUME NEW in \in Inputs, ScheduleInput(in)  PROVE A
    <3>1. world' = world
      BY <2>1 DEF ScheduleInput, Schedule, Reduced, Refused
    <3> QED
      BY <3>1
  <2>2. ASSUME AdvanceToNextEvent  PROVE A
    <3> DEFINE a == Popping(world)
               e == Head(world.pending)
    <3>1. /\ world.pending # << >>
          /\ world' = Advance(world).world /\ error' = Advance(world).error
      BY <2>2 DEF AdvanceToNextEvent
    <3>2. Advance(world) = Dispatch(a, e) /\ Dispatchable(e)
      BY <3>1, AdvanceIsDispatch DEF QueueInv
    <3> HIDE DEF a, e
    <3>3. world' = a
      BY <3>1, <3>2, RefusedDispatchKeeps
    <3>4. /\ a.states = world.states /\ a.facts = world.facts
          /\ a.verdicts = world.verdicts /\ a.streams = world.streams
          /\ a.nextId = world.nextId /\ a.pending = Tail(world.pending)
      BY WorldFields DEF a, Popping, QueueInv, WorldOK
    <3> QED
      BY <3>3, <3>4
  <2>3. ASSUME AdvanceOfNothing \/ RollbackInput  PROVE A
    <3>1. world' = world
      BY <2>3 DEF AdvanceOfNothing, RollbackInput, Advance, Reduce, Refused
    <3> QED
      BY <3>1
  <2> QED
    BY <2>1, <2>2, <2>3 DEF Next
<1> QED
  BY <1>1, QueueInvariant, PTL DEF Spec, RefusedWhole

-------------------------------------------------------------------------------
(* Types of a world.                                                       *)

\* The slots QueueInv leaves open.
WorldTyped(w) ==
  /\ w.time \in Instants \cup {0}
  /\ \A i \in 1 .. Len(w.pending) : w.pending[i].at \in Instants
  /\ w.streams \in [Paths -> Nat]
  /\ w.states \in [Names -> Canonical]

(***************************************************************************)
(* What submitting keeps: a new event is due at an instant in use.         *)
(***************************************************************************)
LEMMA ScheduleTyped ==
  ASSUME NEW w, WorldOK(w), WorldTyped(w), NEW at \in Instants \cup {-1},
         NEW kind, NEW payload
  PROVE  WorldTyped(Schedule(w, at, kind, payload).world)
<1> DEFINE v == Schedule(w, at, kind, payload).world
           code == ScheduleError(w, at, kind, payload)
           e == Event(w.nextId, at, kind, payload)
<1>1. CASE code # "ok"
  <2>1. v = w
    BY <1>1 DEF Schedule, Refused
  <2> QED
    BY <2>1
<1>2. CASE code = "ok"
  <2> DEFINE codes ==
        << IF at < 0 THEN "invalid-time" ELSE "ok",
           IF at < w.time THEN "stale-event" ELSE "ok",
           IF EventValid(kind, payload) THEN "ok" ELSE "invalid-event",
           IF EventValid(kind, payload) /\ ~EventOrderValid(kind, payload)
             THEN "choice-alternatives-order" ELSE "ok",
           IF EventValid(kind, payload) /\ ~EventSelectionValid(kind, payload)
             THEN "choice-selection-not-member" ELSE "ok" >>
  <2>1. ~(at < 0)
    <3>1. DOMAIN codes = 1 .. 5 /\ FirstError(codes) = "ok"
      BY <1>2 DEF ScheduleError
    <3>2. codes[1] = "ok" => ~(at < 0)
      OBVIOUS
    <3> HIDE DEF codes
    <3>3. \A i \in 1 .. 5 : codes[i] = "ok"
      BY <3>1, FirstErrorOk
    <3> QED
      BY <3>2, <3>3
  <2>2. at \in Instants
    <3>1. at = -1 => at < 0
      OBVIOUS
    <3>2. at # -1
      BY <2>1, <3>1, Zenon
    <3> QED
      BY <3>2, Zenon
  <2>3. /\ v.time = w.time /\ v.streams = w.streams /\ v.states = w.states
        /\ v.pending = InsertEvent(e, w.pending)
    BY <1>2, WorldFields DEF Schedule, Reduced, WorldOK
  <2>4. e.at = at
    BY DEF Event
  <2> HIDE DEF e, v, code
  <2>5. Len(w.pending) \in Nat /\ Len(v.pending) = Len(w.pending) + 1
    BY <2>3, InsertEventLen, SeqIsFunction DEF WorldOK, Queue
  <2>6. ASSUME NEW i \in 1 .. Len(w.pending) + 1
        PROVE  v.pending[i] = e \/ \E j \in 1 .. Len(w.pending) :
                                     v.pending[i] = w.pending[j]
    BY <2>3, <2>5 DEF InsertEvent
  <2> QED
    BY <2>2, <2>3, <2>4, <2>5, <2>6 DEF WorldTyped, v
<1> QED
  BY <1>1, <1>2

(***************************************************************************)
(* What a dispatch keeps: deliveries are due at the current instant, only  *)
(* a draw moves a stream, and a state is what the contract accepted.       *)
(***************************************************************************)
LEMMA CommitTyped ==
  ASSUME NEW w, WorldOK(w), WorldTyped(w), w.time \in Instants,
         NEW id, NEW name \in Names, NEW step,
         step.state \in Canonical, IsSeq(step.facts)
  PROVE  LET v == ComponentCommit(w, id, w.time, name, step).world
         IN  WorldTyped(v) /\ v.transcript = w.transcript
<1> DEFINE d == RouteDeliveries(name, step.facts)
           n == Len(d)
           v == ComponentCommit(w, id, w.time, name, step).world
<1>1. IsSeq(d) /\ n \in Nat /\ w.count + n \in Nat /\ RouteLimit \in Nat
  BY DeliveriesAreASeq, BootAssumption DEF WorldOK
<1> HIDE DEF d
<1>2. CASE w.count + n > RouteLimit
  <2>1. v = w
    BY <1>2 DEF ComponentCommit, Refused, d
  <2> QED
    BY <2>1
<1>3. CASE ~(w.count + n > RouteLimit)
  <2>1. /\ v.time = w.time /\ v.streams = w.streams
        /\ v.transcript = w.transcript
        /\ v.states = [w.states EXCEPT ![name] = step.state]
        /\ v.pending = RouteEnqueue(d, w.time, w.nextId, w.pending)
    BY <1>3, WorldFields DEF ComponentCommit, Reduced, WorldOK, d
  <2> HIDE DEF v
  <2>2. v.states \in [Names -> Canonical]
    BY <2>1 DEF WorldTyped
  <2>3. /\ w.time \in Nat /\ w.nextId \in Nat
        /\ Queue(w.pending) /\ Ordered(w.pending)
        /\ \A i \in 1 .. Len(w.pending) : w.pending[i].id < w.nextId
    BY DEF WorldOK
  <2> DEFINE new == RoutedEvents(d, w.time, w.nextId)
             q == RouteEnqueue(d, w.time, w.nextId, w.pending)
  <2>4. Queue(v.pending) /\ ToSet(v.pending) = ToSet(w.pending) \cup new
    <3>1. Queue(q) /\ ToSet(q) = ToSet(w.pending) \cup new
      BY <1>1, <2>3, RouteEnqueueOrdered
    <3> QED
      BY <2>1, <3>1
  <2>5. \A x \in new : x.at \in Instants
    BY DEF RoutedEvents, Event
  <2> HIDE DEF new
  <2>6. \A x \in ToSet(w.pending) : x.at \in Instants
    BY <2>3, ElementsOf DEF Queue, WorldTyped
  <2>7. \A i \in 1 .. Len(v.pending) : v.pending[i] \in ToSet(v.pending)
    BY <2>4, ElementsOf DEF Queue
  <2>8. \A i \in 1 .. Len(v.pending) : v.pending[i].at \in Instants
    BY <2>4, <2>5, <2>6, <2>7
  <2> QED
    BY <2>1, <2>2, <2>8 DEF WorldTyped, v
<1> QED
  BY <1>1, <1>2, <1>3

LEMMA DispatchTyped ==
  ASSUME NEW w, WorldOK(w), WorldTyped(w), w.time \in Instants,
         NEW e, Dispatchable(e), e.at = w.time
  PROVE  LET v == Dispatch(w, e).world
         IN  WorldTyped(v) /\ v.transcript = w.transcript
<1> DEFINE v == Dispatch(w, e).world
<1>1. CASE e.kind = "command"
  <2>1. v = w
    BY <1>1 DEF Dispatch, Reduced
  <2> QED
    BY <2>1
<1>2. CASE e.kind = "property-equals"
  <2>1. v = PropertyVerdict(w, e.id, e.at, e.payload).world
    BY <1>2 DEF Dispatch
  <2>2. /\ v.time = w.time /\ v.pending = w.pending /\ v.streams = w.streams
        /\ v.states = w.states /\ v.transcript = w.transcript
    BY <2>1, WorldFields DEF PropertyVerdict, Reduced, WorldOK
  <2> QED
    BY <2>2 DEF WorldTyped
<1>3. CASE e.kind = "choice" /\ e.payload.form = "drawn"
  <2> DEFINE path == e.payload.path
  <2>1. v = Choose(w, e.id, e.at, e.payload).world
    BY <1>3 DEF Dispatch
  <2>2. /\ v.time = w.time /\ v.pending = w.pending
        /\ v.states = w.states /\ v.transcript = w.transcript
        /\ v.streams = [w.streams EXCEPT ![path] = w.streams[path] + 1]
    BY <2>1, WorldFields DEF Choose, Reduced, WorldOK, Sample
  <2> HIDE DEF v
  <2>3. v.streams \in [Paths -> Nat]
    <3> DEFINE counter == w.streams[path] + 1
    <3>1. w.streams \in [Paths -> Nat]
      BY DEF WorldTyped
    <3>2. path \in Paths => counter \in Nat
      BY <3>1
    <3> HIDE DEF path, counter
    <3>3. [w.streams EXCEPT ![path] = counter] \in [Paths -> Nat]
      BY <3>1, <3>2
    <3> QED
      BY <2>2, <3>3 DEF path, counter
  <2> QED
    BY <2>2, <2>3 DEF WorldTyped, v
<1>4. CASE e.kind = "choice" /\ e.payload.form = "selected"
  <2>1. v = w
    BY <1>4 DEF Dispatch, ApplySelected, Reduced
  <2> QED
    BY <2>1
<1>5. CASE e.kind = "component"
  <2> DEFINE name == e.payload.name
             result == ComponentStep(name, w.states[name], e.payload.value, w.time)
  <2>1. v = DispatchComponent(w, e.id, w.time, e.payload).world
    BY <1>5 DEF Dispatch
  <2>2. CASE name \notin Names \/ result.code # "ok"
    <3>1. v = w
      BY <2>1, <2>2 DEF DispatchComponent, Refused
    <3> QED
      BY <3>1
  <2>3. CASE name \in Names /\ result.code = "ok"
    <3>1. v = ComponentCommit(w, e.id, w.time, name, result.step).world
      BY <2>1, <2>3 DEF DispatchComponent
    <3>2. result.step.state \in Canonical /\ result.step.facts \in Seq(Fact)
      BY <2>3, AcceptedStep
    <3> DEFINE step == result.step
               c == ComponentCommit(w, e.id, w.time, name, step).world
    <3>3. v = c /\ step.state \in Canonical /\ IsSeq(step.facts)
      BY <3>1, <3>2 DEF IsSeq
    <3> HIDE DEF result, step, name
    <3>4. WorldTyped(c) /\ c.transcript = w.transcript
      <4>1. WorldOK(w) /\ WorldTyped(w) /\ w.time \in Instants
        OBVIOUS
      <4>2. name \in Names
        BY <2>3
      <4>3. step.state \in Canonical
        BY <3>3
      <4>4. IsSeq(step.facts)
        BY <3>3
      <4> QED
        BY <4>1, <4>2, <4>3, <4>4, CommitTyped
    <3> QED
      BY <3>3, <3>4
  <2> QED
    BY <2>2, <2>3
<1> QED
  BY <1>1, <1>2, <1>3, <1>4, <1>5 DEF Dispatchable

-------------------------------------------------------------------------------
(***************************************************************************)
(* One more record on a transcript is one more submission or none.         *)
(***************************************************************************)
Submissions(t) == {i \in DOMAIN t : t[i].op = "schedule"}

LEMMA SubmissionsOfAppend ==
  ASSUME NEW t, IsSeq(t), NEW input
  PROVE  /\ IsSeq(Append(t, input)) /\ Len(Append(t, input)) = Len(t) + 1
         /\ Len(t) \in Nat /\ Cardinality(Submissions(t)) \in Nat
         /\ Cardinality(Submissions(Append(t, input)))
              = Cardinality(Submissions(t))
                  + (IF input.op = "schedule" THEN 1 ELSE 0)
<1> DEFINE n == Len(t)
           s == Append(t, input)
           old == Submissions(t)
<1>1. /\ n \in Nat /\ DOMAIN t = 1 .. n
      /\ IsSeq(s) /\ Len(s) = n + 1 /\ DOMAIN s = 1 .. n + 1
      /\ \A i \in 1 .. n : s[i] = t[i]
      /\ s[n + 1] = input
  BY SeqIsFunction, AppendIsSeq
<1>2. IsFiniteSet(old) /\ Cardinality(old) \in Nat /\ n + 1 \notin old
  <2>1. old \subseteq 1 .. n /\ IsFiniteSet(1 .. n)
    BY <1>1, FS_Interval DEF Submissions
  <2> QED
    BY <1>1, <2>1, FS_Subset, FS_CardinalityType
<1> HIDE DEF s
<1>3. Submissions(s) = IF input.op = "schedule" THEN old \cup {n + 1} ELSE old
  BY <1>1 DEF Submissions
<1> HIDE DEF old
<1>4. Cardinality(old \cup {n + 1}) = Cardinality(old) + 1
  BY <1>2, FS_AddElement
<1> QED
  BY <1>1, <1>2, <1>3, <1>4 DEF s, old

-------------------------------------------------------------------------------
(***************************************************************************)
(* The invariant: the slots are typed and the transcript has one record    *)
(* per submission and one per event that was popped.                       *)
(***************************************************************************)
TranscriptOK ==
  /\ IsSeq(world.transcript)
  /\ Len(world.transcript)
       = Cardinality(Submissions(world.transcript)) + Len(dispatched)

TypedInv == WorldTyped(world) /\ TranscriptOK

LEMMA TypedInit == Init => TypedInv
<1> SUFFICES ASSUME Init  PROVE TypedInv
  OBVIOUS
<1>1. /\ world.time = 0 /\ world.pending = << >> /\ world.transcript = << >>
      /\ world.streams = [p \in Paths |-> 0] /\ world.states = InitState
      /\ dispatched = << >>
  BY DEF Init, InitialWorld
<1>2. << >> \in Seq({}) /\ Len(<< >>) = 0 /\ DOMAIN << >> = {}
  OBVIOUS
<1>3. WorldTyped(world)
  BY <1>1, <1>2, BootAssumption DEF WorldTyped
<1>4. Submissions(<< >>) = {} /\ Cardinality({}) = 0
  BY <1>2, FS_EmptySet DEF Submissions
<1>5. IsSeq(<< >>)
  BY <1>2 DEF IsSeq
<1>6. TranscriptOK
  <2>1. Len(world.transcript) = 0 /\ Len(dispatched) = 0
    BY <1>1, <1>2
  <2>2. Cardinality(Submissions(world.transcript)) = 0
    BY <1>1, <1>4
  <2> QED
    BY <1>1, <1>5, <2>1, <2>2 DEF TranscriptOK
<1> QED
  BY <1>3, <1>6 DEF TypedInv

LEMMA TypedStep == QueueInv /\ TypedInv /\ [Next]_vars => TypedInv'
<1> SUFFICES ASSUME QueueInv, TypedInv, [Next]_vars  PROVE TypedInv'
  OBVIOUS
<1> USE DEF Keep
<1>1. ASSUME NEW in \in Inputs, ScheduleInput(in)  PROVE TypedInv'
  <2> DEFINE input == [op |-> "schedule", at |-> in.at, kind |-> in.kind,
                       payload |-> in.payload]
  <2>1. /\ world' = Schedule(world, in.at, in.kind, in.payload).world
        /\ dispatched' = dispatched
    BY <1>1 DEF ScheduleInput
  <2>2. WorldTyped(world')
    BY <2>1, InputsAssumption, ScheduleTyped DEF QueueInv, TypedInv
  <2>3. \/ world'.transcript = world.transcript
        \/ world'.transcript = Append(world.transcript, input)
    BY <2>1, WorldFields DEF Schedule, Reduced, Refused, QueueInv, WorldOK
  <2>4. input.op = "schedule"
    OBVIOUS
  <2> HIDE DEF input
  <2>5. Len(dispatched) \in Nat
    BY SeqIsFunction DEF QueueInv, PastOK
  <2>6. TranscriptOK'
    <3> DEFINE t == world.transcript
    <3>1. IsSeq(t) /\ Len(t) = Cardinality(Submissions(t)) + Len(dispatched)
      BY DEF TypedInv, TranscriptOK
    <3>2. /\ IsSeq(Append(t, input)) /\ Cardinality(Submissions(t)) \in Nat
          /\ Len(Append(t, input)) = Len(t) + 1 /\ Len(t) \in Nat
          /\ Cardinality(Submissions(Append(t, input)))
               = Cardinality(Submissions(t))
                   + (IF input.op = "schedule" THEN 1 ELSE 0)
      BY <3>1, SubmissionsOfAppend
    <3>3. Len(Append(t, input))
            = Cardinality(Submissions(Append(t, input))) + Len(dispatched)
      BY <2>4, <2>5, <3>1, <3>2
    <3>4. CASE world'.transcript = t
      BY <2>1, <3>1, <3>4 DEF TranscriptOK
    <3>5. CASE world'.transcript = Append(t, input)
      BY <2>1, <3>2, <3>3, <3>5 DEF TranscriptOK
    <3> QED
      BY <2>3, <3>4, <3>5
  <2> QED
    BY <2>2, <2>6 DEF TypedInv
<1>2. ASSUME AdvanceToNextEvent  PROVE TypedInv'
  <2> DEFINE a == Popping(world)
             e == Head(world.pending)
             input == [op |-> "advance"]
             record == [event |-> e, error |-> Advance(world).error,
                        choices |-> Advance(world).choices]
  <2>1. /\ world.pending # << >>
        /\ world' = Advance(world).world
        /\ dispatched' = Append(dispatched, record)
    BY <1>2 DEF AdvanceToNextEvent
  <2>2. /\ Advance(world) = Dispatch(a, e)
        /\ WorldOK(a) /\ Dispatchable(e) /\ a.time = e.at
        /\ e = world.pending[1] /\ Len(world.pending) > 0
    BY <2>1, AdvanceIsDispatch DEF QueueInv
  <2>3. /\ a.streams = world.streams /\ a.states = world.states
        /\ a.transcript = Append(world.transcript, input)
        /\ a.pending = Tail(world.pending)
    BY WorldFields DEF Popping, QueueInv, WorldOK
  <2>4. input.op # "schedule"
    OBVIOUS
  <2> HIDE DEF a, e, record, input
  <2>5. /\ Len(world.pending) \in Nat
        /\ Len(Tail(world.pending)) = Len(world.pending) - 1
        /\ \A i \in 1 .. Len(world.pending) - 1 :
             Tail(world.pending)[i] = world.pending[i + 1]
    BY <2>1, TailIsSeq, SeqIsFunction DEF QueueInv, WorldOK, Queue
  <2>6. a.time \in Instants
    BY <2>2, <2>5 DEF TypedInv, WorldTyped
  <2>7. \A i \in 1 .. Len(a.pending) : a.pending[i].at \in Instants
    BY <2>3, <2>5 DEF TypedInv, WorldTyped
  <2>8. WorldTyped(a)
    BY <2>3, <2>6, <2>7 DEF TypedInv, WorldTyped
  <2>9. WorldTyped(world') /\ world'.transcript = a.transcript
    BY <2>1, <2>2, <2>6, <2>8, DispatchTyped
  <2>10. Len(dispatched) \in Nat /\ Len(dispatched') = Len(dispatched) + 1
    BY <2>1, AppendIsSeq, SeqIsFunction DEF QueueInv, PastOK
  <2>11. TranscriptOK'
    <3> DEFINE t == world.transcript
    <3>1. IsSeq(t) /\ Len(t) = Cardinality(Submissions(t)) + Len(dispatched)
      BY DEF TypedInv, TranscriptOK
    <3>2. /\ IsSeq(Append(t, input)) /\ Cardinality(Submissions(t)) \in Nat
          /\ Len(Append(t, input)) = Len(t) + 1 /\ Len(t) \in Nat
          /\ Cardinality(Submissions(Append(t, input)))
               = Cardinality(Submissions(t))
                   + (IF input.op = "schedule" THEN 1 ELSE 0)
      BY <3>1, SubmissionsOfAppend
    <3>3. world'.transcript = Append(t, input)
      BY <2>3, <2>9
    <3>4. Len(Append(t, input))
            = Cardinality(Submissions(Append(t, input))) + Len(dispatched')
      BY <2>4, <2>10, <3>1, <3>2
    <3> QED
      BY <3>2, <3>3, <3>4 DEF TranscriptOK
  <2> QED
    BY <2>9, <2>11 DEF TypedInv
<1>3. ASSUME AdvanceOfNothing \/ RollbackInput  PROVE TypedInv'
  <2>1. world' = world /\ dispatched' = dispatched
    BY <1>3 DEF AdvanceOfNothing, RollbackInput, Advance, Reduce, Refused
  <2> QED
    BY <2>1 DEF TypedInv, WorldTyped, TranscriptOK
<1>4. CASE UNCHANGED vars
  BY <1>4 DEF vars, TypedInv, WorldTyped, TranscriptOK
<1> QED
  BY <1>1, <1>2, <1>3, <1>4 DEF Next

(***************************************************************************)
(* Every slot of the world keeps its type, whatever the handlers return,   *)
(* and the transcript misses no input (the shape check of the kernel and   *)
(* its transcript records, world.shen).                                    *)
(***************************************************************************)
THEOREM WorldTypesKept == Spec => []TypeOK
<1>1. QueueInv /\ TypedInv => TypeOK
  <2> SUFFICES ASSUME QueueInv, TypedInv  PROVE TypeOK
    OBVIOUS
  <2>1. \A e \in Pending : e.id \in Nat /\ e.at \in Instants
    BY ElementsOf DEF Pending, QueueInv, WorldOK, Queue, TypedInv, WorldTyped
  <2>2. Submissions(world.transcript) = Submitted(world)
    BY DEF Submissions, Submitted
  <2>3. Len(world.transcript) = Cardinality(Submitted(world)) + Len(dispatched)
    BY <2>2 DEF TypedInv, TranscriptOK
  <2> QED
    BY <2>1, <2>3 DEF TypeOK, QueueInv, WorldOK, TypedInv, WorldTyped
<1>2. Spec => [](QueueInv /\ TypedInv)
  BY QueueInvInit, QueueInvStep, TypedInit, TypedStep, PTL DEF Spec
<1> QED
  BY <1>1, <1>2, PTL

-------------------------------------------------------------------------------
(***************************************************************************)
(* What an event may cause: a cascade stays within the route limit, every  *)
(* delivery has one cause and every cause its deliveries, and every record *)
(* names the event it comes from.                                          *)
(***************************************************************************)

(* The events and submissions of an instant, counted.                      *)

Events == Popped \cup Pending

DueAt(E, t) == {e \in E : e.at = t}
SubmittedFor(tr, t) == {i \in Submissions(tr) : tr[i].at = t}

\* A set of events of one instant.
OfInstant(new, at) == \A x \in new : x.at = at

RoutedOf(E, tr, t) == Cardinality(DueAt(E, t)) - Cardinality(SubmittedFor(tr, t))

(***************************************************************************)
(* New events of one instant are counted at that instant only.             *)
(***************************************************************************)
LEMMA DueOfUnion ==
  ASSUME NEW E, IsFiniteSet(E), NEW new, IsFiniteSet(new), E \cap new = {},
         NEW at, OfInstant(new, at), NEW t
  PROVE  /\ Cardinality(DueAt(E, t)) \in Nat
         /\ t = at => Cardinality(DueAt(E \cup new, t))
                        = Cardinality(DueAt(E, t)) + Cardinality(new)
         /\ t # at => DueAt(E \cup new, t) = DueAt(E, t)
<1>1. IsFiniteSet(DueAt(E, t)) /\ Cardinality(DueAt(E, t)) \in Nat
  <2>1. DueAt(E, t) \subseteq E
    BY DEF DueAt
  <2> QED
    BY <2>1, FS_Subset, FS_CardinalityType
<1>2. CASE t = at
  <2>1. DueAt(E \cup new, t) = DueAt(E, t) \cup new
    BY <1>2 DEF DueAt, OfInstant
  <2>2. DueAt(E, t) \cap new = {}
    BY DEF DueAt
  <2>3. Cardinality(new) \in Nat
    BY FS_CardinalityType
  <2> DEFINE D == DueAt(E, t)
  <2> HIDE DEF D
  <2>4. IsFiniteSet(D) /\ Cardinality(D) \in Nat /\ D \cap new = {}
    BY <1>1, <2>2 DEF D
  <2>5. Cardinality(D \cup new)
          = Cardinality(D) + Cardinality(new) - Cardinality(D \cap new)
    BY <2>4, FS_Union
  <2>6. Cardinality(D \cap new) = 0
    BY <2>4, FS_EmptySet
  <2>7. Cardinality(D \cup new) = Cardinality(D) + Cardinality(new)
    BY <2>3, <2>4, <2>5, <2>6
  <2>8. Cardinality(DueAt(E \cup new, t)) = Cardinality(DueAt(E, t)) + Cardinality(new)
    BY <2>1, <2>7, Zenon DEF D
  <2> QED
    BY <1>1, <1>2, <2>8, Zenon
<1>3. CASE t # at
  BY <1>1, <1>3 DEF DueAt, OfInstant
<1> QED
  BY <1>1, <1>2, <1>3

LEMMA SubmittedOfAppend ==
  ASSUME NEW tr, IsSeq(tr), NEW input, NEW t
  PROVE  /\ Cardinality(SubmittedFor(tr, t)) \in Nat
         /\ (input.op = "schedule" /\ input.at = t) =>
              Cardinality(SubmittedFor(Append(tr, input), t))
                = Cardinality(SubmittedFor(tr, t)) + 1
         /\ ~(input.op = "schedule" /\ input.at = t) =>
              SubmittedFor(Append(tr, input), t) = SubmittedFor(tr, t)
<1> DEFINE n == Len(tr)
           s == Append(tr, input)
           old == SubmittedFor(tr, t)
<1>1. /\ n \in Nat /\ DOMAIN tr = 1 .. n
      /\ DOMAIN s = 1 .. n + 1
      /\ \A i \in 1 .. n : s[i] = tr[i]
      /\ s[n + 1] = input
  BY SeqIsFunction, AppendIsSeq
<1>2. IsFiniteSet(old) /\ Cardinality(old) \in Nat /\ n + 1 \notin old
  <2>1. old \subseteq 1 .. n /\ IsFiniteSet(1 .. n)
    BY <1>1, FS_Interval DEF SubmittedFor, Submissions
  <2> QED
    BY <1>1, <2>1, FS_Subset, FS_CardinalityType
<1> HIDE DEF s
<1>3. SubmittedFor(s, t)
        = IF input.op = "schedule" /\ input.at = t THEN old \cup {n + 1} ELSE old
  BY <1>1 DEF SubmittedFor, Submissions
<1> HIDE DEF old
<1>4. Cardinality(old \cup {n + 1}) = Cardinality(old) + 1
  BY <1>2, FS_AddElement
<1> QED
  BY <1>2, <1>3, <1>4 DEF s, old

\* A submission is an event and a record of its instant: it routes nothing.
LEMMA SubmissionRoutesNothing ==
  ASSUME NEW E, IsFiniteSet(E), NEW e, e \notin E,
         NEW tr, IsSeq(tr), NEW input,
         input.op = "schedule", input.at = e.at, NEW t
  PROVE  RoutedOf(E \cup {e}, Append(tr, input), t) = RoutedOf(E, tr, t)
<1>1. IsFiniteSet({e}) /\ Cardinality({e}) = 1 /\ E \cap {e} = {}
  BY FS_Singleton
<1>2. OfInstant({e}, e.at)
  BY DEF OfInstant
<1>3. /\ Cardinality(DueAt(E, t)) \in Nat
      /\ t = e.at => Cardinality(DueAt(E \cup {e}, t))
                       = Cardinality(DueAt(E, t)) + Cardinality({e})
      /\ t # e.at => DueAt(E \cup {e}, t) = DueAt(E, t)
  BY <1>1, <1>2, DueOfUnion
<1>4. /\ Cardinality(SubmittedFor(tr, t)) \in Nat
      /\ t = e.at => Cardinality(SubmittedFor(Append(tr, input), t))
                       = Cardinality(SubmittedFor(tr, t)) + 1
      /\ t # e.at => SubmittedFor(Append(tr, input), t) = SubmittedFor(tr, t)
  BY SubmittedOfAppend
<1>5. CASE t = e.at
  BY <1>1, <1>3, <1>4, <1>5 DEF RoutedOf
<1>6. CASE t # e.at
  BY <1>3, <1>4, <1>6 DEF RoutedOf
<1> QED
  BY <1>5, <1>6

\* What an advance adds to the events is all routed, all at one instant.
LEMMA AdvanceRoutesNew ==
  ASSUME NEW E, IsFiniteSet(E), NEW new, IsFiniteSet(new), E \cap new = {},
         NEW at, OfInstant(new, at),
         NEW tr, IsSeq(tr), NEW input, input.op = "advance"
  PROVE  RoutedOf(E \cup new, Append(tr, input), at)
           = RoutedOf(E, tr, at) + Cardinality(new)
<1>1. /\ Cardinality(new) \in Nat
      /\ IsFiniteSet(E) /\ IsFiniteSet(new) /\ E \cap new = {} /\ OfInstant(new, at)
  BY FS_CardinalityType
<1>2. /\ Cardinality(DueAt(E, at)) \in Nat
      /\ Cardinality(DueAt(E \cup new, at))
           = Cardinality(DueAt(E, at)) + Cardinality(new)
  BY <1>1, DueOfUnion
<1>3. /\ Cardinality(SubmittedFor(tr, at)) \in Nat
      /\ SubmittedFor(Append(tr, input), at) = SubmittedFor(tr, at)
  BY SubmittedOfAppend
<1> QED
  BY <1>1, <1>2, <1>3 DEF RoutedOf

LEMMA OtherInstantsKept ==
  ASSUME NEW E, NEW new, NEW at, OfInstant(new, at),
         NEW tr, IsSeq(tr), NEW input, input.op = "advance", NEW t, t # at
  PROVE  RoutedOf(E \cup new, Append(tr, input), t) = RoutedOf(E, tr, t)
<1>1. DueAt(E \cup new, t) = DueAt(E, t)
  BY DEF DueAt, OfInstant
<1>2. SubmittedFor(Append(tr, input), t) = SubmittedFor(tr, t)
  BY SubmittedOfAppend
<1> QED
  BY <1>1, <1>2 DEF RoutedOf

-------------------------------------------------------------------------------
(* How the events of a world grow.                                         *)

\* The elements of a sequence are finitely many.
LEMMA ElementsFinite ==
  ASSUME NEW s, IsSeq(s)
  PROVE  IsFiniteSet(ToSet(s))
<1>1. Len(s) \in Nat /\ ToSet(s) = {s[i] : i \in 1 .. Len(s)}
  BY SeqIsFunction, ElementsOf
<1> DEFINE f == [i \in 1 .. Len(s) |-> s[i]]
<1>2. f \in Surjection(1 .. Len(s), ToSet(s))
  BY <1>1 DEF Surjection
<1>3. IsFiniteSet(1 .. Len(s))
  BY <1>1, FS_Interval
<1> QED
  BY <1>2, <1>3, FS_Surjection

LEMMA EventsKnown ==
  ASSUME QueueInv
  PROVE  /\ IsFiniteSet(Events)
         /\ \A e \in Events : e.id \in Nat /\ e.id < world.nextId
         /\ Popped = {dispatched[i].event : i \in 1 .. Len(dispatched)}
<1>1. IsSeq(dispatched) /\ IsSeq(world.pending)
  BY DEF QueueInv, PastOK, WorldOK, Queue
<1>2. Len(dispatched) \in Nat
        /\ ToSet(dispatched) = {dispatched[i] : i \in 1 .. Len(dispatched)}
        /\ Pending = {world.pending[i] : i \in 1 .. Len(world.pending)}
  BY <1>1, SeqIsFunction, ElementsOf DEF Pending
<1>3. Popped = {dispatched[i].event : i \in 1 .. Len(dispatched)}
  BY <1>2 DEF Popped
<1>4. IsFiniteSet(Popped)
  <2> DEFINE f == [i \in 1 .. Len(dispatched) |-> dispatched[i].event]
  <2>1. f \in Surjection(1 .. Len(dispatched), Popped)
    BY <1>3 DEF Surjection
  <2>2. IsFiniteSet(1 .. Len(dispatched))
    BY <1>2, FS_Interval
  <2> QED
    BY <2>1, <2>2, FS_Surjection
<1>5. IsFiniteSet(Pending)
  BY <1>1, ElementsFinite DEF Pending
<1>6. \A e \in Events : e.id \in Nat /\ e.id < world.nextId
  BY <1>2, <1>3 DEF Events, QueueInv, PastOK, WorldOK, Queue
<1> QED
  BY <1>3, <1>4, <1>5, <1>6, FS_Union DEF Events

\* The event an advance pops moves from the pending to the popped ones.
LEMMA PopMoves ==
  ASSUME QueueInv, AdvanceToNextEvent
  PROVE  LET e == Head(world.pending)
         IN  /\ Pending = ToSet(Popping(world).pending) \cup {e}
             /\ Popped' = Popped \cup {e}
             /\ ToSet(dispatched')
                  = ToSet(dispatched)
                    \cup {[event |-> e, error |-> Advance(world).error,
                           choices |-> Advance(world).choices]}
<1> DEFINE a == Popping(world)
           e == Head(world.pending)
           n == Len(world.pending)
           record == [event |-> e, error |-> Advance(world).error,
                      choices |-> Advance(world).choices]
<1>1. world.pending # << >> /\ dispatched' = Append(dispatched, record)
  BY DEF AdvanceToNextEvent
<1>2. a.pending = Tail(world.pending) /\ e = world.pending[1] /\ n > 0
  BY <1>1, AdvanceIsDispatch DEF QueueInv
<1>3. record.event = e
  OBVIOUS
<1> HIDE DEF a, e, record
<1>4. /\ n \in Nat
      /\ IsSeq(Tail(world.pending)) /\ Len(Tail(world.pending)) = n - 1
      /\ \A i \in 1 .. n - 1 : Tail(world.pending)[i] = world.pending[i + 1]
  BY <1>1, TailIsSeq, SeqIsFunction DEF QueueInv, WorldOK, Queue
<1>5. Pending = {world.pending[i] : i \in 1 .. n}
  BY ElementsOf DEF Pending, QueueInv, WorldOK, Queue
<1>6. ToSet(a.pending) = {Tail(world.pending)[i] : i \in 1 .. n - 1}
  BY <1>2, <1>4, ElementsOf
<1>7. Pending = ToSet(a.pending) \cup {e}
  <2>1. e \in Pending /\ ToSet(a.pending) \subseteq Pending
    BY <1>2, <1>4, <1>5, <1>6
  <2>2. ASSUME NEW i \in 1 .. n
        PROVE  world.pending[i] \in ToSet(a.pending) \cup {e}
    <3>1. CASE i = 1
      BY <3>1, <1>2
    <3>2. CASE i # 1
      <4>1. i - 1 \in 1 .. n - 1 /\ i - 1 + 1 = i
        BY <3>2, <1>4
      <4> QED
        BY <4>1, <1>4, <1>6
    <3> QED
      BY <3>1, <3>2
  <2> QED
    BY <1>5, <2>1, <2>2
<1>8. ToSet(dispatched') = ToSet(dispatched) \cup {record}
  <2>1. /\ IsSeq(dispatched') /\ Len(dispatched) \in Nat
        /\ Len(dispatched') = Len(dispatched) + 1
        /\ \A i \in 1 .. Len(dispatched) : dispatched'[i] = dispatched[i]
        /\ dispatched'[Len(dispatched) + 1] = record
    BY <1>1, AppendIsSeq, SeqIsFunction DEF QueueInv, PastOK
  <2>2. ToSet(dispatched) = {dispatched[i] : i \in 1 .. Len(dispatched)}
    BY ElementsOf DEF QueueInv, PastOK
  <2>3. ToSet(dispatched') = {dispatched'[i] : i \in 1 .. Len(dispatched')}
    BY <2>1, ElementsOf
  <2> QED
    BY <2>1, <2>2, <2>3
<1>9. Popped' = Popped \cup {e}
  BY <1>3, <1>8 DEF Popped
<1> QED
  BY <1>7, <1>8, <1>9 DEF a, e, record

\* A submission that was accepted adds one event and one record.
SubmitsAt(at) ==
  /\ world'.time = world.time /\ world'.count = world.count
  /\ \E e : e.at = at /\ e.id = world.nextId /\ Events' = Events \cup {e}
  /\ \E input : /\ input.op = "schedule" /\ input.at = at
                /\ world'.transcript = Append(world.transcript, input)

LEMMA SubmissionGrows ==
  ASSUME QueueInv, TypedInv, NEW in \in Inputs, ScheduleInput(in)
  PROVE  \/ world' = world /\ dispatched' = dispatched
         \/ SubmitsAt(in.at) /\ in.at \in Instants
<1> DEFINE code == ScheduleError(world, in.at, in.kind, in.payload)
           e == Event(world.nextId, in.at, in.kind, in.payload)
           input == [op |-> "schedule", at |-> in.at, kind |-> in.kind,
                     payload |-> in.payload]
<1>1. /\ world' = Schedule(world, in.at, in.kind, in.payload).world
      /\ dispatched' = dispatched
  BY DEF ScheduleInput, Keep
<1>2. CASE code # "ok"
  BY <1>1, <1>2 DEF Schedule, Refused
<1>3. CASE code = "ok"
  <2>1. /\ world'.time = world.time /\ world'.count = world.count
        /\ world'.pending = InsertEvent(e, world.pending)
        /\ world'.transcript = Append(world.transcript, input)
    BY <1>1, <1>3, WorldFields DEF Schedule, Reduced, QueueInv, WorldOK
  <2>2. /\ e.at = in.at /\ e.id = world.nextId
        /\ input.op = "schedule" /\ input.at = in.at
    BY DEF Event
  <2> HIDE DEF e, input
  <2>3. in.at \in Nat /\ in.at \in Instants
    <3> DEFINE codes ==
          << IF in.at < 0 THEN "invalid-time" ELSE "ok",
             IF in.at < world.time THEN "stale-event" ELSE "ok",
             IF EventValid(in.kind, in.payload) THEN "ok" ELSE "invalid-event",
             IF EventValid(in.kind, in.payload)
                  /\ ~EventOrderValid(in.kind, in.payload)
               THEN "choice-alternatives-order" ELSE "ok",
             IF EventValid(in.kind, in.payload)
                  /\ ~EventSelectionValid(in.kind, in.payload)
               THEN "choice-selection-not-member" ELSE "ok" >>
    <3>1. DOMAIN codes = 1 .. 5 /\ FirstError(codes) = "ok"
      BY <1>3 DEF ScheduleError
    <3>2. codes[1] = "ok" => ~(in.at < 0)
      OBVIOUS
    <3> HIDE DEF codes
    <3>3. \A i \in 1 .. 5 : codes[i] = "ok"
      BY <3>1, FirstErrorOk
    <3>4. ~(in.at < 0)
      BY <3>2, <3>3
    <3>5. in.at \in Instants \cup {-1}
      BY InputsAssumption
    <3>6. in.at # -1
      BY <3>4
    <3>7. in.at \in Instants
      BY <3>5, <3>6, Zenon
    <3> QED
      BY <3>7, InstantsAssumption
  <2>4. ToSet(world'.pending) = ToSet(world.pending) \cup {e}
    <3>1. /\ Queue(world.pending) /\ Ordered(world.pending)
          /\ \A i \in 1 .. Len(world.pending) : world.pending[i].id < world.nextId
          /\ world.nextId \in Nat
      BY DEF QueueInv, WorldOK
    <3>2. e.id \in Nat /\ e.at \in Nat
            /\ \A i \in 1 .. Len(world.pending) : world.pending[i].id < e.id
      BY <2>2, <2>3, <3>1
    <3>3. ToSet(InsertEvent(e, world.pending)) = ToSet(world.pending) \cup {e}
      BY <3>1, <3>2, InsertEventOrdered
    <3> QED
      BY <2>1, <3>3
  <2>5. Events' = Events \cup {e}
    BY <1>1, <2>4 DEF Events, Popped, Pending
  <2> QED
    BY <2>1, <2>2, <2>3, <2>5 DEF SubmitsAt
<1> QED
  BY <1>2, <1>3

\* An advance moves to the instant of the event it pops and adds what the
\* dispatch routed, all of it at that instant.
MovesTo(at, new) ==
  /\ at \in Nat /\ world.time <= at /\ world'.time = at
  /\ IsFiniteSet(new) /\ Cardinality(new) \in Nat
  /\ Events' = Events \cup new
  /\ \A x \in new : x.at = at /\ x.id \in Nat /\ x.id >= world.nextId
  /\ world'.count = (IF at > world.time THEN 0 ELSE world.count) + Cardinality(new)
  /\ Cardinality(new) = 0 \/ world'.count <= RouteLimit
  /\ \E input : /\ input.op = "advance"
                /\ world'.transcript = Append(world.transcript, input)

LEMMA AdvanceGrows ==
  ASSUME QueueInv, TypedInv, AdvanceToNextEvent
  PROVE  \E at, new : MovesTo(at, new)
<1> DEFINE a == Popping(world)
           e == Head(world.pending)
           input == [op |-> "advance"]
<1>1. world.pending # << >> /\ world' = Advance(world).world
  BY DEF AdvanceToNextEvent, Keep
<1>2. /\ Advance(world) = Dispatch(a, e)
      /\ WorldOK(a) /\ Dispatchable(e)
      /\ a.time = e.at /\ a.nextId = world.nextId
      /\ a.pending = Tail(world.pending)
      /\ e = world.pending[1] /\ Len(world.pending) > 0
  BY <1>1, AdvanceIsDispatch DEF QueueInv
<1>3. a.count = IF e.at > world.time THEN 0 ELSE world.count
  BY WorldFields DEF Popping, RoutingAdvanced, QueueInv, WorldOK
<1>4. world'.transcript = Append(world.transcript, input)
  BY <1>1, AdvanceRecords DEF QueueInv
<1>5. input.op = "advance"
  OBVIOUS
<1> HIDE DEF a, e, input
<1>6. world'.time = e.at
  BY <1>1, <1>2, DispatchExtends
<1>7. PICK new : RoutesOn(a, world', new)
  BY <1>1, <1>2, DispatchRoutes
<1>8. e.at \in Nat /\ world.time <= e.at
  <2>1. 1 \in 1 .. Len(world.pending)
    BY <1>2, SeqIsFunction DEF QueueInv, WorldOK, Queue
  <2> QED
    BY <1>2, <2>1 DEF QueueInv, WorldOK, Queue
<1>9. Events' = Events \cup new
  <2>1. Pending = ToSet(a.pending) \cup {e} /\ Popped' = Popped \cup {e}
    BY PopMoves DEF a, e
  <2>2. Pending' = ToSet(a.pending) \cup new
    BY <1>7 DEF RoutesOn, Pending
  <2> QED
    BY <2>1, <2>2 DEF Events
<1>10. MovesTo(e.at, new)
  BY <1>2, <1>3, <1>4, <1>5, <1>6, <1>7, <1>8, <1>9 DEF MovesTo, RoutesOn
<1> QED
  BY <1>10

-------------------------------------------------------------------------------
(***************************************************************************)
(* The invariant: the running count is what was routed at the current      *)
(* instant, later instants hold submitted events only, and no instant ever *)
(* saw more than the limit.                                                *)
(***************************************************************************)
RoutedNow(t) == RoutedOf(Events, world.transcript, t)

CascadeInv ==
  /\ world.count = RoutedNow(world.time)
  /\ \A t \in Nat : RoutedNow(t) <= RouteLimit
  /\ \A t \in Nat : t > world.time => RoutedNow(t) = 0

LEMMA CascadeInit == Init => CascadeInv
<1> SUFFICES ASSUME Init  PROVE CascadeInv
  OBVIOUS
<1>1. /\ world.time = 0 /\ world.count = 0 /\ world.pending = << >>
      /\ world.transcript = << >> /\ dispatched = << >>
  BY DEF Init, InitialWorld
<1>2. DOMAIN << >> = {} /\ ToSet(<< >>) = {}
  BY DEF ToSet
<1>3. Events = {}
  BY <1>1, <1>2 DEF Events, Popped, Pending
<1>4. \A t : DueAt({}, t) = {} /\ SubmittedFor(<< >>, t) = {}
  BY <1>2 DEF DueAt, SubmittedFor, Submissions
<1>5. ASSUME NEW t  PROVE RoutedNow(t) = 0
  <2>1. /\ DueAt(Events, t) = {} /\ SubmittedFor(world.transcript, t) = {}
        /\ Cardinality({}) = 0
    BY <1>1, <1>3, <1>4, FS_EmptySet
  <2> QED
    BY <2>1 DEF RoutedNow, RoutedOf
<1>6. RouteLimit \in Nat
  BY BootAssumption
<1> QED
  BY <1>1, <1>5, <1>6 DEF CascadeInv

LEMMA CascadeStep == QueueInv /\ TypedInv /\ CascadeInv /\ [Next]_vars => CascadeInv'
<1> SUFFICES ASSUME QueueInv, TypedInv, CascadeInv, [Next]_vars
             PROVE  CascadeInv'
  OBVIOUS
<1>1. CASE world' = world /\ dispatched' = dispatched
  <2>1. Events' = Events
    BY <1>1 DEF Events, Popped, Pending
  <2> QED
    BY <1>1, <2>1 DEF CascadeInv, RoutedNow
<1>2. ASSUME NEW in \in Inputs, ScheduleInput(in)  PROVE CascadeInv'
  <2>1. CASE SubmitsAt(in.at)
    <3>1. world'.time = world.time /\ world'.count = world.count
      BY <2>1 DEF SubmitsAt
    <3>2. PICK e : e.at = in.at /\ e.id = world.nextId /\ Events' = Events \cup {e}
      BY <2>1 DEF SubmitsAt
    <3>3. PICK input : /\ input.op = "schedule" /\ input.at = in.at
                       /\ world'.transcript = Append(world.transcript, input)
      BY <2>1 DEF SubmitsAt
    <3>4. IsFiniteSet(Events) /\ \A x \in Events : x.id \in Nat /\ x.id < world.nextId
      BY EventsKnown
    <3>5. e \notin Events
      BY <3>2, <3>4
    <3>6. IsSeq(world.transcript)
      BY DEF TypedInv, TranscriptOK
    <3>7. ASSUME NEW t
          PROVE  RoutedOf(Events', world'.transcript, t)
                   = RoutedOf(Events, world.transcript, t)
      <4>1. input.at = e.at
        BY <3>2, <3>3
      <4>2. RoutedOf(Events \cup {e}, Append(world.transcript, input), t)
              = RoutedOf(Events, world.transcript, t)
        BY <3>3, <3>4, <3>5, <3>6, <4>1, SubmissionRoutesNothing
      <4> QED
        BY <3>2, <3>3, <4>2
    <3>8. RoutedOf(Events', world'.transcript, world.time)
            = RoutedOf(Events, world.transcript, world.time)
      BY <3>7, Zenon
    <3> QED
      BY <3>1, <3>7, <3>8 DEF CascadeInv, RoutedNow
  <2> QED
    BY <1>1, <1>2, <2>1, SubmissionGrows
<1>3. ASSUME AdvanceToNextEvent  PROVE CascadeInv'
  <2>1. PICK at, new : MovesTo(at, new)
    BY <1>3, AdvanceGrows
  <2>2. PICK input : /\ input.op = "advance"
                     /\ world'.transcript = Append(world.transcript, input)
    BY <2>1 DEF MovesTo
  <2>3. /\ at \in Nat /\ world.time \in Nat /\ world.time <= at
        /\ world'.time = at /\ Cardinality(new) \in Nat
        /\ world'.count = (IF at > world.time THEN 0 ELSE world.count)
                            + Cardinality(new)
        /\ Cardinality(new) = 0 \/ world'.count <= RouteLimit
    BY <2>1 DEF MovesTo, QueueInv, WorldOK
  <2>4. /\ Events' = Events \cup new
        /\ IsFiniteSet(new) /\ OfInstant(new, at)
    BY <2>1 DEF MovesTo, OfInstant
  <2>5. IsFiniteSet(Events) /\ Events \cap new = {}
    <3>1. \A x \in new : x.id \in Nat /\ x.id >= world.nextId
      BY <2>1 DEF MovesTo
    <3>2. /\ IsFiniteSet(Events) /\ world.nextId \in Nat
          /\ \A x \in Events : x.id \in Nat /\ x.id < world.nextId
      BY EventsKnown DEF QueueInv, WorldOK
    <3>3. ASSUME NEW x \in Events, x \in new  PROVE FALSE
      BY <3>1, <3>2, <3>3
    <3> QED
      BY <3>2, <3>3
  <2>6. IsSeq(world.transcript)
    BY DEF TypedInv, TranscriptOK
  <2>7. /\ Events' = Events \cup new
        /\ IsFiniteSet(Events) /\ IsFiniteSet(new) /\ Events \cap new = {}
        /\ OfInstant(new, at) /\ IsSeq(world.transcript)
        /\ input.op = "advance"
        /\ world'.transcript = Append(world.transcript, input)
    BY <2>2, <2>4, <2>5, <2>6
  <2>8. RoutedOf(Events, world.transcript, at)
          = IF at > world.time THEN 0 ELSE world.count
    BY <2>3 DEF CascadeInv, RoutedNow
  <2>9. RoutedOf(Events', world'.transcript, at) = world'.count
    <3> DEFINE E == Events
               tr == world.transcript
    <3> HIDE DEF E, tr
    <3>1. IsFiniteSet(E) /\ E \cap new = {} /\ IsSeq(tr)
      BY <2>7 DEF E, tr
    <3>2. RoutedOf(E \cup new, Append(tr, input), at)
            = RoutedOf(E, tr, at) + Cardinality(new)
      BY <2>7, <3>1, AdvanceRoutesNew
    <3>3. world.count \in Nat
      BY DEF QueueInv, WorldOK
    <3> QED
      BY <2>3, <2>7, <2>8, <3>2, <3>3 DEF E, tr
  <2>10. ASSUME NEW t \in Nat
         PROVE  /\ RoutedOf(Events, world.transcript, t) <= RouteLimit
                /\ t > world.time => RoutedOf(Events, world.transcript, t) = 0
    BY DEF CascadeInv, RoutedNow
  <2>11. RouteLimit \in Nat
    BY BootAssumption
  <2>12. ASSUME NEW t \in Nat
         PROVE  /\ RoutedOf(Events', world'.transcript, t) <= RouteLimit
                /\ t > at => RoutedOf(Events', world'.transcript, t) = 0
    <3>1. CASE t # at
      <4> DEFINE E == Events
                 tr == world.transcript
      <4> HIDE DEF E, tr
      <4>1. IsSeq(tr)
        BY <2>7 DEF tr
      <4>2. RoutedOf(E \cup new, Append(tr, input), t) = RoutedOf(E, tr, t)
        BY <2>7, <3>1, <4>1, OtherInstantsKept
      <4>3. RoutedOf(Events', world'.transcript, t)
              = RoutedOf(Events, world.transcript, t)
        BY <2>7, <4>2 DEF E, tr
      <4> QED
        BY <2>3, <2>10, <3>1, <4>3
    <3>2. CASE t = at /\ Cardinality(new) = 0
      <4>1. RoutedOf(Events, world.transcript, at) <= RouteLimit
        BY <2>3, <2>10
      <4>2. world.count \in Nat
        BY DEF QueueInv, WorldOK
      <4> QED
        BY <2>3, <2>8, <2>9, <2>11, <3>2, <4>1, <4>2
    <3>3. CASE t = at /\ Cardinality(new) # 0
      BY <2>3, <2>9, <2>11, <3>3
    <3> QED
      BY <3>1, <3>2, <3>3
  <2> QED
    BY <2>3, <2>9, <2>12 DEF CascadeInv, RoutedNow
<1>4. CASE AdvanceOfNothing \/ RollbackInput
  <2>1. world' = world /\ dispatched' = dispatched
    BY <1>4 DEF AdvanceOfNothing, RollbackInput, Advance, Reduce, Refused, Keep
  <2> QED
    BY <1>1, <2>1
<1>5. CASE UNCHANGED vars
  BY <1>1, <1>5 DEF vars
<1> QED
  BY <1>2, <1>3, <1>4, <1>5 DEF Next

(***************************************************************************)
(* No instant ever sees more routed deliveries than the limit, whatever    *)
(* routes form cycles and whatever the handlers answer, so a cascade at    *)
(* one time is finite (the cascade guard, world.shen:33-40).               *)
(***************************************************************************)
THEOREM CascadesAreBounded == Spec => []CascadeBounded
<1>1. QueueInv /\ CascadeInv => CascadeBounded
  <2> SUFFICES ASSUME QueueInv, CascadeInv  PROVE CascadeBounded
    OBVIOUS
  <2>1. ASSUME NEW t  PROVE RoutedAt(t) = RoutedNow(t)
    <3>1. {i \in Submitted(world) : world.transcript[i].at = t}
            = SubmittedFor(world.transcript, t)
      BY DEF Submitted, Submissions, SubmittedFor
    <3>2. {e \in Popped \cup Pending : e.at = t} = DueAt(Events, t)
      BY DEF DueAt, Events
    <3> QED
      BY <3>1, <3>2 DEF RoutedAt, RoutedNow, RoutedOf
  <2>2. Instants \subseteq Nat
    BY InstantsAssumption
  <2> QED
    BY <2>1, <2>2 DEF CascadeBounded, CascadeInv
<1>2. Spec => [](QueueInv /\ TypedInv /\ CascadeInv)
  BY QueueInvInit, QueueInvStep, TypedInit, TypedStep, CascadeInit, CascadeStep,
     PTL DEF Spec
<1> QED
  BY <1>1, <1>2, PTL
-------------------------------------------------------------------------------
(***************************************************************************)
(* The deliveries of a value to a component at an instant, the submissions *)
(* of that input, and the facts and routes that bring it about, counted.   *)
(***************************************************************************)
Carrying(E, input, t) ==
  {e \in E : e.kind = "component" /\ e.payload = input /\ e.at = t}

SubmittedTo(tr, input, t) ==
  {i \in Submissions(tr) : /\ tr[i].kind = "component"
                           /\ tr[i].payload = input /\ tr[i].at = t}

CausesAt(facts, n, v, t) ==
  {c \in (DOMAIN facts) \X (DOMAIN Routes) :
     /\ facts[c[1]].value = v /\ facts[c[1]].time = t
     /\ Routes[c[2]].fact = facts[c[1]].name
     /\ Routes[c[2]].from = facts[c[1]].component /\ Reaches(Routes[c[2]], n)}

LEMMA CausesFinite ==
  ASSUME NEW facts, IsSeq(facts), NEW n, NEW v, NEW t
  PROVE  /\ IsFiniteSet(CausesAt(facts, n, v, t))
         /\ Cardinality(CausesAt(facts, n, v, t)) \in Nat
<1> DEFINE P == CausesAt(facts, n, v, t)
           k == Len(facts)
<1>1. /\ k \in Nat /\ DOMAIN facts = 1 .. k
      /\ DOMAIN Routes = 1 .. Len(Routes) /\ Len(Routes) \in Nat
  <2>1. Routes \in Seq([fact : STRING, from : STRING,
                        to : [type : {"component", "node"}, id : STRING]])
    BY BootAssumption
  <2>2. IsSeq(Routes)
    BY <2>1 DEF IsSeq
  <2> QED
    BY <2>2, SeqIsFunction
<1>2. IsFiniteSet((1 .. k) \X (1 .. Len(Routes)))
  <2>1. IsFiniteSet(1 .. k) /\ IsFiniteSet(1 .. Len(Routes))
    BY <1>1, FS_Interval
  <2> QED
    BY <2>1, FS_Product
<1>3. P \subseteq (1 .. k) \X (1 .. Len(Routes))
  BY <1>1 DEF CausesAt
<1> HIDE DEF P
<1>4. IsFiniteSet(P)
  BY <1>2, <1>3, FS_Subset
<1>5. Cardinality(P) \in Nat
  BY <1>4, FS_CardinalityType
<1> QED
  BY <1>4, <1>5 DEF P

(***************************************************************************)
(* The stamped facts of a step cause at their own instant what they cause  *)
(* as facts of the component that emitted them, and nothing elsewhere.     *)
(***************************************************************************)
LEMMA CausesOfConcat ==
  ASSUME NEW past, IsSeq(past), NEW facts, IsSeq(facts),
         NEW id, NEW at, NEW name, NEW n \in Names, NEW v, NEW t
  PROVE  LET all == past \o Stamp(id, at, name, facts)
         IN  /\ IsSeq(all)
             /\ Cardinality(CausesAt(past, n, v, t)) \in Nat
             /\ Cardinality(Causes(name, facts, n, v)) \in Nat
             /\ Cardinality(CausesAt(all, n, v, t))
                  = Cardinality(CausesAt(past, n, v, t))
                    + (IF t = at THEN Cardinality(Causes(name, facts, n, v)) ELSE 0)
<1> DEFINE stamped == Stamp(id, at, name, facts)
           all == past \o stamped
           k == Len(past)
           P == CausesAt(past, n, v, t)
           C == Causes(name, facts, n, v)
           f == [c \in C |-> << k + c[1], c[2] >>]
           S == {f[c] : c \in C}
<1>1. /\ k \in Nat /\ DOMAIN past = 1 .. k
      /\ Len(facts) \in Nat /\ DOMAIN facts = 1 .. Len(facts)
      /\ DOMAIN Routes = 1 .. Len(Routes) /\ Len(Routes) \in Nat
  BY SeqIsFunction, MatchesFinite
<1>4. /\ IsSeq(all) /\ DOMAIN all = 1 .. k + Len(facts)
      /\ \A i \in 1 .. k : all[i] = past[i]
      /\ \A i \in 1 .. Len(facts) : all[k + i] = stamped[i]
  BY StampedIsSeq
<1>3. \A i \in 1 .. Len(facts) :
        /\ stamped[i].component = name /\ stamped[i].time = at
        /\ stamped[i].name = facts[i].name /\ stamped[i].value = facts[i].value
  BY StampedIsSeq
<1> HIDE DEF stamped
<1> HIDE DEF all, k
<1>5. IsFiniteSet(P) /\ IsFiniteSet(C) /\ Cardinality(C) \in Nat
                     /\ Cardinality(P) \in Nat
  BY DeliveriesCounted, CausesFinite, FS_CardinalityType
<1>6. \A c \in C : /\ c[1] \in 1 .. Len(facts) /\ c[2] \in 1 .. Len(Routes)
                   /\ c = << c[1], c[2] >>
  BY <1>1 DEF Causes
<1>7. IsFiniteSet(S) /\ Cardinality(S) = Cardinality(C)
  <2>1. f \in [C -> S]
    OBVIOUS
  <2>2. ASSUME NEW c \in C, NEW d \in C, f[c] = f[d]  PROVE c = d
    <3>1. k + c[1] = k + d[1] /\ c[2] = d[2]
      BY <2>2
    <3>2. c[1] = d[1]
      BY <1>1, <1>6, <3>1
    <3>3. c = << c[1], c[2] >> /\ d = << d[1], d[2] >>
      BY <1>6
    <3> QED
      BY <3>1, <3>2, <3>3, Zenon
  <2>3. \A s \in S : \E c \in C : f[c] = s
    OBVIOUS
  <2> HIDE DEF f, S, C
  <2>4. f \in Injection(C, S)
    BY <2>1, <2>2 DEF Injection, IsInjective
  <2> QED
    BY <1>5, <2>3, <2>4, CardinalityOfImage
<1>8. P \cap S = {}
  <2>1. \A c \in P : c[1] \in 1 .. k
    BY <1>1 DEF CausesAt
  <2>2. \A c \in C : f[c][1] = k + c[1]
    OBVIOUS
  <2>3. \A s \in S : s[1] \notin 1 .. k
    BY <1>1, <1>6, <2>2
  <2> HIDE DEF P, S
  <2> QED
    BY <2>1, <2>3
<1>9. CausesAt(all, n, v, t) = IF t = at THEN P \cup S ELSE P
  <2> DEFINE A == CausesAt(all, n, v, t)
  <2>1. ASSUME NEW c \in P  PROVE c \in A
    BY <1>1, <1>4 DEF CausesAt
  <2>2. ASSUME NEW c \in C, t = at  PROVE f[c] \in A
    <3>1. /\ c[1] \in 1 .. Len(facts) /\ c[2] \in 1 .. Len(Routes)
          /\ facts[c[1]].value = v /\ facts[c[1]].name = Routes[c[2]].fact
          /\ Routes[c[2]].from = name /\ Reaches(Routes[c[2]], n)
      BY <1>1 DEF Causes
    <3>2. k + c[1] \in 1 .. k + Len(facts) /\ all[k + c[1]] = stamped[c[1]]
      BY <1>1, <1>4, <3>1
    <3>3. << k + c[1], c[2] >> \in A
      BY <1>1, <1>3, <1>4, <2>2, <3>1, <3>2 DEF CausesAt
    <3> HIDE DEF A, C
    <3> QED
      BY <3>3
  <2>3. ASSUME NEW c \in A, c[1] \in 1 .. k  PROVE c \in P
    BY <1>1, <1>4, <2>3 DEF CausesAt
  <2>4. ASSUME NEW c \in A, c[1] \notin 1 .. k  PROVE t = at /\ c \in S
    <3>1. /\ c[1] \in 1 .. k + Len(facts) /\ c[2] \in 1 .. Len(Routes)
          /\ c = << c[1], c[2] >>
          /\ all[c[1]].value = v /\ all[c[1]].time = t
          /\ Routes[c[2]].fact = all[c[1]].name
          /\ Routes[c[2]].from = all[c[1]].component /\ Reaches(Routes[c[2]], n)
      BY <1>1, <1>4 DEF CausesAt
    <3> DEFINE i == c[1] - k
               d == << i, c[2] >>
    <3>2. i \in 1 .. Len(facts) /\ k + i = c[1]
      BY <1>1, <2>4, <3>1
    <3>3. d[1] = i /\ d[2] = c[2]
      OBVIOUS
    <3> HIDE DEF i
    <3>4. all[c[1]] = stamped[i]
      BY <1>4, <3>2
    <3>5. t = at /\ d \in C
      BY <1>1, <1>3, <3>1, <3>2, <3>4 DEF Causes
    <3>6. f[d] = c
      BY <3>1, <3>2, <3>3, <3>5
    <3> QED
      BY <3>5, <3>6
  <2> HIDE DEF A, P, C, f
  <2> QED
    BY <2>1, <2>2, <2>3, <2>4 DEF A
<1> HIDE DEF P, C, S
<1>10. Cardinality(P \cup S) = Cardinality(P) + Cardinality(C)
  BY <1>5, <1>7, <1>8, CardinalityOfMore
<1> QED
  BY <1>4, <1>5, <1>9, <1>10 DEF all, P, C, stamped
(***************************************************************************)
(* The deliveries a step routes are new events, and of those for one input *)
(* there are as many as the step's facts cause.                            *)
(***************************************************************************)
LEMMA RoutedCarry ==
  ASSUME NEW E, IsFiniteSet(E), NEW nextId \in Nat,
         \A x \in E : x.id \in Nat /\ x.id < nextId,
         NEW name, NEW facts, IsSeq(facts), NEW at,
         NEW n \in Names, NEW v, NEW t
  PROVE  LET input == ComponentInput(n, v)
             new == RoutedEvents(RouteDeliveries(name, facts), at, nextId)
         IN  /\ Cardinality(Carrying(E, input, t)) \in Nat
             /\ Cardinality(Carrying(E \cup new, input, t))
                  = Cardinality(Carrying(E, input, t))
                    + (IF t = at THEN Cardinality(Causes(name, facts, n, v)) ELSE 0)
<1> DEFINE input == ComponentInput(n, v)
           d == RouteDeliveries(name, facts)
           New(i) == Event(nextId + i - 1, at, "component", d[i])
           new == RoutedEvents(d, at, nextId)
           C == Causes(name, facts, n, v)
           K == {k \in 1 .. Len(d) : d[k] = input}
           A == Carrying(E, input, t)
           B == {New(k) : k \in K}
           f == [k \in K |-> New(k)]
<1>1. IsSeq(d) /\ Len(d) \in Nat
  BY DeliveriesAreASeq
<1>2. IsFiniteSet(K) /\ IsFiniteSet(C) /\ Cardinality(K) = Cardinality(C)
  BY DeliveriesCounted
<1>3. new = {New(i) : i \in 1 .. Len(d)}
  BY DEF RoutedEvents
<1> HIDE DEF d, input, C, new
<1>4. \A i \in 1 .. Len(d) :
        /\ New(i).id = nextId + i - 1 /\ New(i).at = at
        /\ New(i).kind = "component" /\ New(i).payload = d[i]
  BY DEF Event
<1>5. IsFiniteSet(A) /\ Cardinality(A) \in Nat
  <2>1. A \subseteq E
    BY DEF Carrying
  <2> HIDE DEF A
  <2> QED
    BY <2>1, FS_Subset, FS_CardinalityType
<1> HIDE DEF New
<1>6. IsFiniteSet(B) /\ Cardinality(B) = Cardinality(K)
  <2>1. f \in [K -> B]
    OBVIOUS
  <2>2. ASSUME NEW i \in K, NEW j \in K, f[i] = f[j]  PROVE i = j
    <3>1. i \in 1 .. Len(d) /\ j \in 1 .. Len(d) /\ New(i) = New(j)
      BY <2>2
    <3>2. nextId + i - 1 = nextId + j - 1
      BY <1>4, <3>1
    <3> QED
      BY <1>1, <3>1, <3>2
  <2>3. \A b \in B : \E k \in K : f[k] = b
    OBVIOUS
  <2> HIDE DEF f, B, K
  <2>4. f \in Injection(K, B)
    BY <2>1, <2>2 DEF Injection, IsInjective
  <2> QED
    BY <1>2, <2>3, <2>4, CardinalityOfImage
<1>7. A \cap B = {}
  <2>1. \A x \in A : x.id < nextId /\ x.id \in Nat
    BY DEF Carrying
  <2>2. \A x \in B : x.id >= nextId
    BY <1>1, <1>4
  <2> HIDE DEF A, B
  <2> QED
    BY <2>1, <2>2
<1>8. Carrying(E \cup new, input, t) = IF t = at THEN A \cup B ELSE A
  <2>1. \A x \in new : x \in Carrying(E \cup new, input, t) => x \in B /\ t = at
    BY <1>3, <1>4 DEF Carrying
  <2>2. t = at => \A x \in B : x \in Carrying(E \cup new, input, t)
    BY <1>3, <1>4 DEF Carrying
  <2>3. \A x \in E : x \in Carrying(E \cup new, input, t) <=> x \in A
    BY DEF Carrying
  <2>4. \A x \in A : x \in E
    BY DEF Carrying
  <2>5. Carrying(E \cup new, input, t) \subseteq E \cup new
    BY DEF Carrying
  <2> HIDE DEF A, B
  <2> QED
    BY <2>1, <2>2, <2>3, <2>4, <2>5
<1> HIDE DEF A, B, K
<1>9. Cardinality(A \cup B) = Cardinality(A) + Cardinality(C)
  BY <1>2, <1>5, <1>6, <1>7, CardinalityOfMore, ZenonT(40)
<1> QED
  BY <1>5, <1>8, <1>9 DEF A, C, new, d, input

LEMMA SubmittedToAppend ==
  ASSUME NEW tr, IsSeq(tr), NEW x, NEW input, NEW t
  PROVE  LET counts == /\ x.op = "schedule" /\ x.kind = "component"
                       /\ x.payload = input /\ x.at = t
         IN  /\ Cardinality(SubmittedTo(tr, input, t)) \in Nat
             /\ Cardinality(SubmittedTo(Append(tr, x), input, t))
                  = Cardinality(SubmittedTo(tr, input, t)) + (IF counts THEN 1 ELSE 0)
<1> DEFINE n == Len(tr)
           s == Append(tr, x)
           old == SubmittedTo(tr, input, t)
           counts == /\ x.op = "schedule" /\ x.kind = "component"
                     /\ x.payload = input /\ x.at = t
<1>1. /\ n \in Nat /\ DOMAIN tr = 1 .. n
      /\ DOMAIN s = 1 .. n + 1
      /\ \A i \in 1 .. n : s[i] = tr[i]
      /\ s[n + 1] = x
  BY SeqIsFunction, AppendIsSeq
<1>2. IsFiniteSet(old) /\ Cardinality(old) \in Nat /\ n + 1 \notin old
  <2>1. old \subseteq 1 .. n /\ IsFiniteSet(1 .. n)
    BY <1>1, FS_Interval DEF SubmittedTo, Submissions
  <2> QED
    BY <1>1, <2>1, FS_Subset, FS_CardinalityType
<1> HIDE DEF s
<1>3. SubmittedTo(s, input, t) = IF counts THEN old \cup {n + 1} ELSE old
  BY <1>1 DEF SubmittedTo, Submissions
<1> HIDE DEF old, counts
<1>4. Cardinality(old \cup {n + 1}) = Cardinality(old) + 1
  BY <1>2, FS_AddElement
<1> QED
  BY <1>2, <1>3, <1>4 DEF s, old, counts

(***************************************************************************)
(* A submission is balanced: it is one more event for its input exactly if *)
(* its record is one more submission of that input.                        *)
(***************************************************************************)
LEMMA SubmissionCarries ==
  ASSUME NEW E, IsFiniteSet(E), NEW e, e \notin E, NEW input, NEW t
  PROVE  LET counts == e.kind = "component" /\ e.payload = input /\ e.at = t
         IN  /\ Cardinality(Carrying(E, input, t)) \in Nat
             /\ Cardinality(Carrying(E \cup {e}, input, t))
                  = Cardinality(Carrying(E, input, t)) + (IF counts THEN 1 ELSE 0)
<1> DEFINE A == Carrying(E, input, t)
           counts == e.kind = "component" /\ e.payload = input /\ e.at = t
<1>1. A \subseteq E /\ e \notin A
  BY DEF Carrying
<1>2. Carrying(E \cup {e}, input, t) = IF counts THEN A \cup {e} ELSE A
  BY DEF Carrying
<1> HIDE DEF A, counts
<1>3. /\ IsFiniteSet(A) /\ Cardinality(A) \in Nat
      /\ Cardinality(A \cup {e}) = Cardinality(A) + 1
  BY <1>1, FS_Subset, FS_CardinalityType, FS_AddElement
<1> QED
  BY <1>2, <1>3 DEF A, counts
-------------------------------------------------------------------------------
(***************************************************************************)
(* The invariant: for every component, value and instant the deliveries    *)
(* are the submissions and the causes, together.                           *)
(***************************************************************************)
Balanced(n, v, t) ==
  Cardinality(Carrying(Events, ComponentInput(n, v), t))
    = Cardinality(SubmittedTo(world.transcript, ComponentInput(n, v), t))
      + Cardinality(CausesAt(world.facts, n, v, t))

RoutedInv ==
  /\ IsSeq(world.facts)
  /\ \A n \in Names : \A v : \A t : Balanced(n, v, t)

LEMMA RoutedInit == Init => RoutedInv
<1> SUFFICES ASSUME Init  PROVE RoutedInv
  OBVIOUS
<1>1. /\ world.pending = << >> /\ world.facts = << >>
      /\ world.transcript = << >> /\ dispatched = << >>
  BY DEF Init, InitialWorld
<1>2. DOMAIN << >> = {} /\ ToSet(<< >>) = {} /\ << >> \in Seq({})
  BY DEF ToSet
<1>3. Events = {}
  BY <1>1, <1>2 DEF Events, Popped, Pending
<1>4. ASSUME NEW n, NEW v, NEW t  PROVE Balanced(n, v, t)
  <2>1. /\ Carrying(Events, ComponentInput(n, v), t) = {}
        /\ SubmittedTo(world.transcript, ComponentInput(n, v), t) = {}
        /\ CausesAt(world.facts, n, v, t) = {}
    BY <1>1, <1>2, <1>3 DEF Carrying, SubmittedTo, Submissions, CausesAt
  <2> QED
    BY <2>1, FS_EmptySet DEF Balanced
<1> QED
  BY <1>1, <1>2, <1>4 DEF RoutedInv, IsSeq

\* An accepted submission: its event, its record, and no fact.
AcceptedInput(in) ==
  /\ EventValid(in.kind, in.payload) /\ EventSelectionValid(in.kind, in.payload)
  /\ dispatched' = dispatched /\ world'.facts = world.facts
  /\ Pending' = Pending \cup {Event(world.nextId, in.at, in.kind, in.payload)}
  /\ Events' = Events \cup {Event(world.nextId, in.at, in.kind, in.payload)}
  /\ world'.transcript = Append(world.transcript,
                                [op |-> "schedule", at |-> in.at,
                                 kind |-> in.kind, payload |-> in.payload])

LEMMA SubmissionAccepted ==
  ASSUME QueueInv, NEW in \in Inputs, ScheduleInput(in)
  PROVE  (world' = world /\ dispatched' = dispatched) \/ AcceptedInput(in)
<1> DEFINE r == Schedule(world, in.at, in.kind, in.payload)
           e == Event(world.nextId, in.at, in.kind, in.payload)
<1>1. world' = r.world /\ dispatched' = dispatched
  BY DEF ScheduleInput, Keep
<1>2. WorldOK(world) /\ in.at \in Int
  <2>1. in.at \in Instants \cup {-1}
    BY InputsAssumption
  <2>2. Instants \subseteq Int /\ -1 \in Int
    BY InstantsAssumption
  <2>3. in.at \in Int
    BY <2>1, <2>2, Zenon
  <2> QED
    BY <2>3 DEF QueueInv
<1>3. CASE r.error # NoError
  <2>1. r.world = world
    BY <1>3 DEF Schedule, Reduced, Refused
  <2> QED
    BY <1>1, <2>1
<1>4. CASE r.error = NoError
  <2>1. ASSUME NEW at \in Int, NEW kind, NEW payload,
               Schedule(world, at, kind, payload).error = NoError
        PROVE  LET v == Schedule(world, at, kind, payload).world
               IN  /\ ToSet(v.pending) = ToSet(world.pending)
                                     \cup {Event(world.nextId, at, kind, payload)}
                   /\ v.facts = world.facts
                   /\ EventValid(kind, payload)
                   /\ EventSelectionValid(kind, payload)
                   /\ v.transcript = Append(world.transcript,
                                            [op |-> "schedule", at |-> at,
                                             kind |-> kind, payload |-> payload])
    <3> DEFINE v == Schedule(world, at, kind, payload).world
    <3>1. WorldOK(world)
      BY <1>2
    <3>2. ToSet(v.pending) = ToSet(world.pending)
                               \cup {Event(world.nextId, at, kind, payload)}
      BY <2>1, <3>1, ScheduleAdds
    <3>3. v.facts = world.facts
      BY <2>1, <3>1, ScheduleAdds
    <3>4. v.transcript = Append(world.transcript,
                                [op |-> "schedule", at |-> at,
                                 kind |-> kind, payload |-> payload])
      BY <2>1, <3>1, ScheduleRecords
    <3>5. EventValid(kind, payload) /\ EventSelectionValid(kind, payload)
      BY <2>1, <3>1, ScheduleAdds
    <3> QED
      BY <3>2, <3>3, <3>4, <3>5
  <2> DEFINE x == [op |-> "schedule", at |-> in.at, kind |-> in.kind,
                   payload |-> in.payload]
  <2>2. /\ ToSet(r.world.pending) = ToSet(world.pending) \cup {e}
        /\ r.world.facts = world.facts
        /\ EventValid(in.kind, in.payload)
        /\ EventSelectionValid(in.kind, in.payload)
        /\ r.world.transcript = Append(world.transcript, x)
    BY <1>2, <1>4, <2>1, Zenon
  <2> HIDE DEF r, e, x
  <2>4. Pending' = Pending \cup {e} /\ Events' = Events \cup {e}
    BY <1>1, <2>2 DEF Events, Popped, Pending
  <2> QED
    BY <1>1, <2>2, <2>4 DEF AcceptedInput, e, x
<1> QED
  BY <1>3, <1>4

\* An advance that commits a step: its facts, stamped, and what they route.
Emitted(id, at, name, facts) ==
  /\ IsSeq(facts)
  /\ world'.facts = world.facts \o Stamp(id, at, name, facts)
  /\ Events' = Events \cup RoutedEvents(RouteDeliveries(name, facts), at,
                                        world.nextId)

LEMMA AdvanceEmits ==
  ASSUME QueueInv, AdvanceToNextEvent
  PROVE  \/ world'.facts = world.facts /\ Events' = Events
         \/ \E id, at, name, facts : Emitted(id, at, name, facts)
<1> DEFINE a == Popping(world)
           e == Head(world.pending)
           r == Dispatch(a, e)
<1>1. world.pending # << >> /\ world' = Advance(world).world
  BY DEF AdvanceToNextEvent, Keep
<1>2. /\ Advance(world) = r /\ WorldOK(a) /\ Dispatchable(e) /\ a.time = e.at
      /\ a.nextId = world.nextId
  BY <1>1, AdvanceIsDispatch DEF QueueInv
<1>3. a.facts = world.facts
  BY WorldFields DEF Popping, QueueInv, WorldOK
<1>4. Pending = ToSet(a.pending) \cup {e} /\ Popped' = Popped \cup {e}
  BY PopMoves
<1>5. Uncommitted(a, r) \/ \E step : Committed(a, e, r, step)
  BY <1>2, DispatchCommits
<1>6. Pending' = ToSet(r.world.pending) /\ world'.facts = r.world.facts
  BY <1>1, <1>2 DEF Pending
<1> HIDE DEF a, e, r
<1>7. CASE Uncommitted(a, r)
  <2>1. Pending' = ToSet(a.pending) /\ world'.facts = world.facts
    BY <1>3, <1>6, <1>7 DEF Uncommitted
  <2> QED
    BY <1>4, <2>1 DEF Events
<1>8. ASSUME NEW step, Committed(a, e, r, step)
      PROVE  \E id, at, name, facts : Emitted(id, at, name, facts)
  <2> DEFINE d == RouteDeliveries(e.payload.name, step.facts)
  <2>1. ToSet(r.world.pending)
          = ToSet(a.pending) \cup RoutedEvents(d, a.time, a.nextId)
    BY <1>2, <1>8, CommitRoutes
  <2> HIDE DEF d
  <2>2. Events' = Events \cup RoutedEvents(d, a.time, world.nextId)
    BY <1>2, <1>4, <1>6, <2>1 DEF Events
  <2>3. /\ IsSeq(step.facts)
        /\ world'.facts = world.facts \o Stamp(e.id, a.time, e.payload.name, step.facts)
    BY <1>3, <1>6, <1>8 DEF Committed, IsSeq
  <2>4. Emitted(e.id, a.time, e.payload.name, step.facts)
    BY <2>2, <2>3 DEF Emitted, d
  <2> QED
    BY <2>4
<1> QED
  BY <1>5, <1>7, <1>8

LEMMA RoutedStep == QueueInv /\ TypedInv /\ RoutedInv /\ [Next]_vars => RoutedInv'
<1> SUFFICES ASSUME QueueInv, TypedInv, RoutedInv, [Next]_vars
             PROVE  RoutedInv'
  OBVIOUS
<1>1. /\ IsSeq(world.transcript) /\ IsSeq(world.facts) /\ world.nextId \in Nat
      /\ IsFiniteSet(Events)
      /\ \A x \in Events : x.id \in Nat /\ x.id < world.nextId
  BY EventsKnown DEF TypedInv, TranscriptOK, RoutedInv, QueueInv, WorldOK
<1>2. CASE world' = world /\ dispatched' = dispatched
  <2>1. Events' = Events
    BY <1>2 DEF Events, Popped, Pending
  <2> QED
    BY <1>2, <2>1 DEF RoutedInv, Balanced
<1>3. ASSUME NEW in \in Inputs, AcceptedInput(in)  PROVE RoutedInv'
  <2> DEFINE e == Event(world.nextId, in.at, in.kind, in.payload)
             x == [op |-> "schedule", at |-> in.at, kind |-> in.kind,
                   payload |-> in.payload]
  <2>1. /\ Events' = Events \cup {e} /\ world'.facts = world.facts
        /\ world'.transcript = Append(world.transcript, x)
    BY <1>3 DEF AcceptedInput
  <2>2. /\ e.id = world.nextId /\ x.op = "schedule"
        /\ x.kind = e.kind /\ x.payload = e.payload /\ x.at = e.at
    BY DEF Event
  <2> HIDE DEF e, x
  <2>3. e \notin Events
    BY <1>1, <2>2
  <2>4. ASSUME NEW n \in Names, NEW v, NEW t  PROVE Balanced(n, v, t)'
    <3> DEFINE input == ComponentInput(n, v)
               E == Events
               tr == world.transcript
    <3> HIDE DEF E, tr, input
    <3>1. IsFiniteSet(E) /\ e \notin E /\ IsSeq(tr)
      BY <1>1, <2>3 DEF E, tr
    <3>2. /\ Cardinality(Carrying(E, input, t)) \in Nat
          /\ Cardinality(Carrying(E \cup {e}, input, t))
               = Cardinality(Carrying(E, input, t))
                 + (IF e.kind = "component" /\ e.payload = input /\ e.at = t
                    THEN 1 ELSE 0)
      BY <3>1, SubmissionCarries
    <3>3. /\ Cardinality(SubmittedTo(tr, input, t)) \in Nat
          /\ Cardinality(SubmittedTo(Append(tr, x), input, t))
               = Cardinality(SubmittedTo(tr, input, t))
                 + (IF e.kind = "component" /\ e.payload = input /\ e.at = t
                    THEN 1 ELSE 0)
      BY <2>2, <3>1, SubmittedToAppend
    <3>4. Cardinality(Carrying(E, input, t))
            = Cardinality(SubmittedTo(tr, input, t))
              + Cardinality(CausesAt(world.facts, n, v, t))
      BY DEF RoutedInv, Balanced, E, tr, input
    <3>5. Cardinality(CausesAt(world.facts, n, v, t)) \in Nat
      BY <1>1, CausesFinite
    <3>6. Cardinality(Carrying(E \cup {e}, input, t))
            = Cardinality(SubmittedTo(Append(tr, x), input, t))
              + Cardinality(CausesAt(world.facts, n, v, t))
      BY <3>2, <3>3, <3>4, <3>5
    <3> QED
      BY <2>1, <3>6 DEF Balanced, E, tr, input
  <2> QED
    BY <1>1, <2>1, <2>4 DEF RoutedInv
<1>4. ASSUME AdvanceToNextEvent  PROVE RoutedInv'
  <2> DEFINE x == [op |-> "advance"]
  <2>1. world'.transcript = Append(world.transcript, x)
    <3>1. world' = Advance(world).world /\ world.pending # << >>
      BY <1>4 DEF AdvanceToNextEvent, Keep
    <3> QED
      BY <3>1, AdvanceRecords DEF QueueInv
  <2>2. x.op # "schedule"
    OBVIOUS
  <2> HIDE DEF x
  <2>3. ASSUME NEW input, NEW t
        PROVE  /\ Cardinality(SubmittedTo(world.transcript, input, t)) \in Nat
               /\ Cardinality(SubmittedTo(world'.transcript, input, t))
                    = Cardinality(SubmittedTo(world.transcript, input, t))
    <3> DEFINE tr == world.transcript
    <3> HIDE DEF tr
    <3>1. IsSeq(tr)
      BY <1>1 DEF tr
    <3>2. /\ Cardinality(SubmittedTo(tr, input, t)) \in Nat
          /\ Cardinality(SubmittedTo(Append(tr, x), input, t))
               = Cardinality(SubmittedTo(tr, input, t)) + 0
      BY <2>2, <3>1, SubmittedToAppend
    <3> QED
      BY <2>1, <3>2 DEF tr
  <2>4. CASE world'.facts = world.facts /\ Events' = Events
    BY <1>1, <2>3, <2>4 DEF RoutedInv, Balanced
  <2>5. ASSUME NEW id, NEW at, NEW name, NEW facts, Emitted(id, at, name, facts)
        PROVE  RoutedInv'
    <3> DEFINE new == RoutedEvents(RouteDeliveries(name, facts), at, world.nextId)
               past == world.facts
               all == past \o Stamp(id, at, name, facts)
               E == Events
    <3>1. /\ IsSeq(facts) /\ world'.facts = all /\ Events' = E \cup new
      BY <2>5 DEF Emitted
    <3>2. ASSUME NEW n \in Names, NEW v, NEW t
          PROVE  Balanced(n, v, t)' /\ IsSeq(all)
      <4> DEFINE input == ComponentInput(n, v)
                 more == IF t = at THEN Cardinality(Causes(name, facts, n, v)) ELSE 0
      <4>1. /\ Cardinality(Carrying(E, input, t)) \in Nat
            /\ Cardinality(Carrying(E \cup new, input, t))
                 = Cardinality(Carrying(E, input, t)) + more
        <5> DEFINE nextId == world.nextId
        <5> HIDE DEF E, nextId
        <5>1. /\ IsFiniteSet(E) /\ nextId \in Nat /\ IsSeq(facts)
              /\ \A y \in E : y.id \in Nat /\ y.id < nextId
          BY <1>1, <3>1 DEF E, nextId
        <5>2. new = RoutedEvents(RouteDeliveries(name, facts), at, nextId)
          BY DEF nextId
        <5> HIDE DEF new
        <5> QED
          BY <5>1, <5>2, RoutedCarry
      <4>2. /\ IsSeq(all)
            /\ Cardinality(CausesAt(past, n, v, t)) \in Nat
            /\ Cardinality(Causes(name, facts, n, v)) \in Nat
            /\ Cardinality(CausesAt(all, n, v, t))
                 = Cardinality(CausesAt(past, n, v, t)) + more
        BY <1>1, <3>1, CausesOfConcat
      <4>3. /\ Cardinality(SubmittedTo(world.transcript, input, t)) \in Nat
            /\ Cardinality(SubmittedTo(world'.transcript, input, t))
                 = Cardinality(SubmittedTo(world.transcript, input, t))
        BY <2>3
      <4>4. Cardinality(Carrying(E, input, t))
              = Cardinality(SubmittedTo(world.transcript, input, t))
                + Cardinality(CausesAt(past, n, v, t))
        BY DEF RoutedInv, Balanced
      <4>5. more \in Nat
        BY <4>2
      <4> HIDE DEF E, new, all, past, input, more
      <4>6. Cardinality(Carrying(E \cup new, input, t))
              = Cardinality(SubmittedTo(world'.transcript, input, t))
                + Cardinality(CausesAt(all, n, v, t))
        BY <4>1, <4>2, <4>3, <4>4, <4>5
      <4> QED
        BY <3>1, <4>2, <4>6 DEF Balanced, input
    <3>3. IsSeq(all)
      BY <1>1, <3>1, StampedIsSeq
    <3> HIDE DEF all
    <3> QED
      BY <3>1, <3>2, <3>3 DEF RoutedInv
  <2> QED
    BY <1>4, <2>4, <2>5, AdvanceEmits
<1>5. CASE AdvanceOfNothing \/ RollbackInput
  <2>1. world' = world /\ dispatched' = dispatched
    BY <1>5 DEF AdvanceOfNothing, RollbackInput, Advance, Reduce, Refused, Keep
  <2> QED
    BY <1>2, <2>1
<1>6. CASE UNCHANGED vars
  BY <1>2, <1>6 DEF vars
<1> QED
  BY <1>2, <1>3, <1>4, <1>5, <1>6, SubmissionAccepted DEF Next

(***************************************************************************)
(* Every delivery to a component is one a caller submitted or one that a   *)
(* single fact caused over a single route, and none is missing or sent     *)
(* twice, at no instant and for no value (ADR 0007 D4).                    *)
(***************************************************************************)
THEOREM DeliveriesAreCaused == Spec => []RoutedOnce
<1>1. RoutedInv => RoutedOnce
  <2> SUFFICES ASSUME RoutedInv  PROVE RoutedOnce
    OBVIOUS
  <2> DEFINE Input(n, v) == ComponentInput(n, v)
             Events1(n, v, t) ==
               {e \in Popped \cup Pending :
                  e.kind = "component" /\ e.payload = Input(n, v) /\ e.at = t}
             Submitted1(n, v, t) ==
               {i \in Submitted(world) :
                  /\ world.transcript[i].kind = "component"
                  /\ world.transcript[i].payload = Input(n, v)
                  /\ world.transcript[i].at = t}
             Causes1(n, v, t) ==
               {c \in (DOMAIN world.facts) \X (DOMAIN Routes) :
                  LET fact == world.facts[c[1]]
                      route == Routes[c[2]]
                  IN  /\ fact.value = v /\ fact.time = t
                      /\ route.fact = fact.name
                      /\ route.from = fact.component
                      /\ \/ route.to = ComponentTarget(n)
                         \/ route.to = NodeTarget(NodeOf[n])}
  <2> SUFFICES \A n \in Names, v \in Values, t \in Instants :
                 Cardinality(Events1(n, v, t))
                   = Cardinality(Submitted1(n, v, t)) + Cardinality(Causes1(n, v, t))
    BY Zenon DEF RoutedOnce
  <2>1. \A n, v, t : Events1(n, v, t) = Carrying(Events, ComponentInput(n, v), t)
    BY DEF Carrying, Events
  <2>2. \A n, v, t : Submitted1(n, v, t)
                       = SubmittedTo(world.transcript, ComponentInput(n, v), t)
    BY DEF SubmittedTo, Submissions, Submitted
  <2>3. \A n, v, t : Causes1(n, v, t) = CausesAt(world.facts, n, v, t)
    BY DEF CausesAt, Reaches
  <2> HIDE DEF Events1, Submitted1, Causes1
  <2> QED
    BY <2>1, <2>2, <2>3 DEF RoutedInv, Balanced
<1>2. Spec => [](QueueInv /\ TypedInv /\ RoutedInv)
  BY QueueInvInit, QueueInvStep, TypedInit, TypedStep, RoutedInit, RoutedStep,
     PTL DEF Spec
<1> QED
  BY <1>1, <1>2, PTL
-------------------------------------------------------------------------------
(***************************************************************************)
(* What the draws need of the hash: it is a number, and for every draw     *)
(* that a caller submits the rejection loop finds an acceptable one within *)
(* the blocks it may read.  (TLC's instance has three acceptable residues  *)
(* in every four blocks; SHA-256 rejects a block with probability below    *)
(* bound / 2^256.)                                                         *)
(***************************************************************************)
Draws(in) ==
  /\ in.kind = "choice" /\ EventValid(in.kind, in.payload)
  /\ in.payload.form = "drawn"

DrawsEnd ==
  \A in \in Inputs : Draws(in) =>
    \A c \in Nat :
      /\ \A b \in 0 .. MaxBlock : Hash(in.payload.path, c, b) \in Nat
      /\ \E b \in 0 .. MaxBlock :
           Hash(in.payload.path, c, b) < Acceptable(Len(in.payload.alternatives))

\* A loop that finds an acceptable hash finds a first one, and the index a
\* sample computes from it lies below the bound.
LEMMA SampleInRange ==
  ASSUME NEW path, NEW c, NEW bound \in Nat, bound # 0,
         \A b \in 0 .. MaxBlock : Hash(path, c, b) \in Nat,
         \E b \in 0 .. MaxBlock : Hash(path, c, b) < Acceptable(bound)
  PROVE  /\ Sample(path, c, bound).index \in 0 .. bound - 1
         /\ Hash(path, c, AcceptedBlock(path, c, bound)) < Acceptable(bound)
<1> DEFINE H(b) == Hash(path, c, b)
           limit == Acceptable(bound)
           T == {b \in 0 .. MaxBlock : H(b) < limit}
           First(b) == H(b) < limit /\ \A x \in 0 .. b - 1 : H(x) >= limit
           block == AcceptedBlock(path, c, bound)
<1>1. MaxBlock \in Nat /\ limit \in Nat
  <2>1. Space \in Nat /\ MaxBlock \in Nat
    BY SpaceAssumption
  <2>2. Space \div bound \in Nat
    BY <2>1
  <2> QED
    BY <2>1, <2>2 DEF Acceptable
<1> HIDE DEF limit
<1>2. PICK b \in T : \A x \in T : b <= x
  <2>1. T \in SUBSET Nat /\ T # {}
    BY <1>1 DEF limit
  <2> HIDE DEF T
  <2> QED
    BY <2>1, Runs!SmallestOf
<1>3. First(b) /\ b \in 0 .. MaxBlock
  <2> SUFFICES ASSUME NEW x \in 0 .. b - 1  PROVE H(x) >= limit
    BY <1>2
  <2>1. x \in 0 .. MaxBlock /\ ~(b <= x)
    BY <1>1, <1>2
  <2>2. ~(H(x) < limit)
    BY <1>2, <2>1
  <2>3. H(x) \in Nat
    BY <2>1
  <2> QED
    BY <1>1, <2>2, <2>3
<1>4. block = CHOOSE y \in 0 .. MaxBlock : First(y)
  BY DEF AcceptedBlock, limit
<1> HIDE DEF First, block
<1>5. block \in 0 .. MaxBlock /\ First(block)
  BY <1>3, <1>4
<1>6. H(block) \in Nat /\ H(block) < limit
  BY <1>5 DEF First
<1>7. H(block) % bound \in 0 .. bound - 1
  BY <1>6
<1> QED
  BY <1>6, <1>7 DEF Sample, block, limit

(***************************************************************************)
(* A choice that may be pending: its selection, recorded or drawn at any   *)
(* counter, is one of its alternatives.                                    *)
(***************************************************************************)
Sound(payload) ==
  /\ payload.form = "selected" => payload.selected \in ToSet(payload.alternatives)
  /\ payload.form = "drawn" =>
       /\ payload.path \in Paths
       /\ \A c \in Nat :
            payload.alternatives[
              Sample(payload.path, c, Len(payload.alternatives)).index + 1]
              \in ToSet(payload.alternatives)

LEMMA SubmittedIsSound ==
  ASSUME DrawsEnd, NEW in \in Inputs, in.kind = "choice",
         EventValid(in.kind, in.payload), EventSelectionValid(in.kind, in.payload)
  PROVE  Sound(in.payload)
<1> DEFINE alternatives == in.payload.alternatives
           n == Len(alternatives)
<1>1. in.payload.form = "selected" => in.payload.selected \in ToSet(alternatives)
  BY DEF EventSelectionValid
<1>2. alternatives # << >> /\ in.payload.path \in Paths
  BY DEF EventValid
<1>3. alternatives \in Seq(Values)
  BY InputsAssumption
<1>4. n \in Nat /\ n # 0 /\ ToSet(alternatives) = {alternatives[i] : i \in 1 .. n}
  <2> HIDE DEF alternatives
  <2> QED
    BY <1>2, <1>3, ElementsOf DEF IsSeq
<1>5. ASSUME in.payload.form = "drawn", NEW c \in Nat
      PROVE  alternatives[Sample(in.payload.path, c, n).index + 1]
               \in ToSet(alternatives)
  <2> DEFINE path == in.payload.path
             index == Sample(path, c, n).index
  <2>1. /\ \A b \in 0 .. MaxBlock : Hash(path, c, b) \in Nat
        /\ \E b \in 0 .. MaxBlock : Hash(path, c, b) < Acceptable(n)
    BY <1>5 DEF DrawsEnd, Draws
  <2> HIDE DEF path, n, alternatives
  <2>2. index \in 0 .. n - 1
    BY <1>4, <2>1, SampleInRange
  <2> HIDE DEF index
  <2>3. index + 1 \in 1 .. n
    BY <1>4, <2>2
  <2> QED
    BY <1>4, <2>3 DEF index, path
<1> QED
  BY <1>1, <1>2, <1>5 DEF Sound

\* A published menu says which component published it, and in which step.
LEMMA PublishedMenus ==
  ASSUME NEW id, NEW at, NEW name, NEW choices
  PROVE  \A x \in ToSet(Publish(id, at, name, choices)) :
           /\ x.type = "component-choice" /\ x.component = name
           /\ x.event = id /\ x.time = at
<1> DEFINE p == Publish(id, at, name, choices)
<1>1. \A i \in DOMAIN p : /\ p[i].type = "component-choice" /\ p[i].component = name
                         /\ p[i].event = id /\ p[i].time = at
  BY DEF Publish
<1> HIDE DEF p
<1>2. \A x \in ToSet(p) : \E i \in DOMAIN p : x = p[i]
  BY DEF ToSet
<1> QED
  BY <1>1, <1>2 DEF p

\* A choice a dispatch reports itself is one of the event's alternatives.
LEMMA DispatchSelects ==
  ASSUME NEW w, w.streams \in [Paths -> Nat], NEW e, Dispatchable(e),
         e.kind = "choice" => Sound(e.payload)
  PROVE  \A c \in ToSet(Dispatch(w, e).choices) :
           c.type # "component-choice" =>
             c.selected \in ToSet(e.payload.alternatives)
<1> DEFINE r == Dispatch(w, e)
<1>1. ToSet(<< >>) = {}
  BY DEF ToSet
<1>2. \A x : ToSet(<< x >>) = {x}
  BY DEF ToSet
<1>3. CASE e.kind = "command"
  <2>1. r.choices = << >>
    BY <1>3 DEF Dispatch, Reduced
  <2> QED
    BY <1>1, <2>1
<1>4. CASE e.kind = "property-equals"
  <2>1. r.choices = << >>
    BY <1>4 DEF Dispatch, PropertyVerdict, Reduced
  <2> QED
    BY <1>1, <2>1
<1>5. CASE e.kind = "choice" /\ e.payload.form = "drawn"
  <2> DEFINE sample == Sample(e.payload.path, w.streams[e.payload.path],
                              Len(e.payload.alternatives))
             choice == ChoiceRecord(e.id, e.at, e.payload,
                                    e.payload.alternatives[sample.index + 1],
                                    sample.coordinates)
  <2>1. r.choices = << choice >>
    BY <1>5 DEF Dispatch, Choose, Reduced
  <2>2. choice.selected = e.payload.alternatives[sample.index + 1]
    BY DEF ChoiceRecord
  <2>3. e.payload.path \in Paths /\ w.streams[e.payload.path] \in Nat
    BY <1>5 DEF Sound
  <2>4. choice.selected \in ToSet(e.payload.alternatives)
    BY <1>5, <2>2, <2>3 DEF Sound
  <2> HIDE DEF choice, r
  <2> QED
    BY <1>2, <2>1, <2>4 DEF r
<1>6. CASE e.kind = "choice" /\ e.payload.form = "selected"
  <2> DEFINE choice == ChoiceRecord(e.id, e.at, e.payload, e.payload.selected,
                                    e.payload.coordinates)
  <2>1. r.choices = << choice >>
    BY <1>6 DEF Dispatch, ApplySelected, Reduced
  <2>2. choice.selected = e.payload.selected
    BY DEF ChoiceRecord
  <2>3. choice.selected \in ToSet(e.payload.alternatives)
    BY <1>6, <2>2 DEF Sound
  <2> HIDE DEF choice, r
  <2> QED
    BY <1>2, <2>1, <2>3 DEF r
<1>7. CASE e.kind = "component"
  <2> DEFINE name == e.payload.name
             result == ComponentStep(name, w.states[name], e.payload.value, e.at)
             c == ComponentCommit(w, e.id, e.at, name, result.step)
  <2>1. r.choices = << >> \/ r = c
    BY <1>7 DEF Dispatch, DispatchComponent, Refused
  <2>2. c.choices = << >> \/ c.choices = Publish(e.id, e.at, name, result.step.choices)
    BY DEF ComponentCommit, Reduced, Refused
  <2> DEFINE p == Publish(e.id, e.at, name, result.step.choices)
  <2>3. \A x \in ToSet(p) : x.type = "component-choice"
    BY PublishedMenus
  <2> HIDE DEF p, c, r
  <2>4. r.choices = << >> \/ r.choices = p
    BY <2>1, <2>2 DEF p
  <2> QED
    BY <1>1, <2>3, <2>4 DEF r
<1> QED
  BY <1>3, <1>4, <1>5, <1>6, <1>7 DEF Dispatchable
-------------------------------------------------------------------------------
(***************************************************************************)
(* The invariant: the provenance of what is there, and choices that can    *)
(* only select what they offer among what is still to come.                *)
(***************************************************************************)
ProvenanceInv ==
  /\ IsSeq(world.facts)
  /\ Provenance
  /\ \A e \in Pending : e.kind = "choice" => Sound(e.payload)

LEMMA ProvenanceInit == Init => ProvenanceInv
<1> SUFFICES ASSUME Init  PROVE ProvenanceInv
  OBVIOUS
<1>1. /\ world.pending = << >> /\ world.facts = << >> /\ dispatched = << >>
  BY DEF Init, InitialWorld
<1>2. ToSet(<< >>) = {} /\ << >> \in Seq({})
  BY DEF ToSet
<1> QED
  BY <1>1, <1>2 DEF ProvenanceInv, Provenance, Pending, IsSeq

\* The record of a dispatch, and what of it the provenance of a record needs.
Accounts(d, record) ==
  /\ d.error = NoError /\ d.event.kind = "component"
  /\ d.event.id = record.event /\ d.event.at = record.time
  /\ d.event.payload.name = record.component

(***************************************************************************)
(* An advance appends one record; what it adds to the facts and the menus  *)
(* it accounts for, and what it selects its event offers.                  *)
(***************************************************************************)
LEMMA AdvanceAccounts ==
  ASSUME QueueInv, TypedInv, ProvenanceInv, AdvanceToNextEvent
  PROVE  \E d : /\ ToSet(dispatched') = ToSet(dispatched) \cup {d}
                /\ IsSeq(world'.facts)
                /\ \A f \in ToSet(world'.facts) :
                     f \in ToSet(world.facts) \/ Accounts(d, f)
                /\ \A c \in ToSet(d.choices) :
                     IF c.type = "component-choice"
                     THEN c.event = d.event.id /\ Accounts(d, c)
                     ELSE c.selected \in ToSet(d.event.payload.alternatives)
                /\ \A e \in Pending' : e \in Pending \/ e.kind = "component"
<1> DEFINE a == Popping(world)
           e == Head(world.pending)
           r == Dispatch(a, e)
           d == [event |-> e, error |-> r.error, choices |-> r.choices]
<1>1. world.pending # << >> /\ world' = Advance(world).world
  BY DEF AdvanceToNextEvent, Keep
<1>2. /\ Advance(world) = r /\ WorldOK(a) /\ Dispatchable(e) /\ a.time = e.at
  BY <1>1, AdvanceIsDispatch DEF QueueInv
<1>3. a.facts = world.facts /\ a.streams = world.streams
  BY WorldFields DEF Popping, QueueInv, WorldOK
<1>4. Pending = ToSet(a.pending) \cup {e} /\ ToSet(dispatched') = ToSet(dispatched) \cup {d}
  BY <1>2, PopMoves
<1>5. Uncommitted(a, r) \/ \E step : Committed(a, e, r, step)
  BY <1>2, DispatchCommits
<1>6. Pending' = ToSet(r.world.pending) /\ world'.facts = r.world.facts
  BY <1>1, <1>2 DEF Pending
<1>7. \A c \in ToSet(r.choices) : c.type # "component-choice" =>
        c.selected \in ToSet(e.payload.alternatives)
  <2>1. a.streams \in [Paths -> Nat]
    BY <1>3 DEF TypedInv, WorldTyped
  <2>2. e.kind = "choice" => Sound(e.payload)
    BY <1>4 DEF ProvenanceInv
  <2> HIDE DEF a, e
  <2> QED
    BY <1>2, <2>1, <2>2, DispatchSelects
<1>8. d.event = e /\ d.error = r.error /\ d.choices = r.choices
  OBVIOUS
<1> HIDE DEF a, e, r, d
<1>9. /\ IsSeq(world'.facts)
      /\ \A f \in ToSet(world'.facts) : f \in ToSet(world.facts) \/ Accounts(d, f)
      /\ \A c \in ToSet(r.choices) :
           c.type = "component-choice" => c.event = e.id /\ Accounts(d, c)
      /\ \A x \in Pending' : x \in Pending \/ x.kind = "component"
  <2>1. IsSeq(world.facts)
    BY DEF ProvenanceInv
  <2>2. CASE Uncommitted(a, r)
    <3>1. \A c \in ToSet(r.choices) : c.type = "choice"
      BY <2>2 DEF Uncommitted, ToSet
    <3>2. world'.facts = world.facts /\ Pending' = ToSet(a.pending)
      BY <1>3, <1>6, <2>2 DEF Uncommitted
    <3> QED
      BY <1>4, <2>1, <3>1, <3>2
  <2>3. ASSUME NEW step, Committed(a, e, r, step)
        PROVE  <1>9
    <3> DEFINE name == e.payload.name
               new == RoutedEvents(RouteDeliveries(name, step.facts), a.time, a.nextId)
               id == e.id
               at == a.time
               facts == step.facts
               stamped == Stamp(id, at, name, facts)
               past == world.facts
               all == past \o stamped
    <3>1. /\ IsSeq(step.facts) /\ e.kind = "component" /\ r.error = NoError
          /\ r.world.facts = a.facts \o stamped
          /\ r.choices = Publish(e.id, a.time, e.payload.name, step.choices)
      BY <2>3 DEF Committed, IsSeq
    <3>2. world'.facts = all
      BY <1>3, <1>6, <3>1
    <3>13. IsSeq(past) /\ IsSeq(facts)
      BY <2>1, <3>1
    <3> HIDE DEF past, facts, id, at, name
    <3>3. IsSeq(all) /\ DOMAIN all = 1 .. Len(past) + Len(facts)
      BY <3>13, StampedIsSeq
    <3>4. \A i \in 1 .. Len(past) : all[i] = past[i]
      BY <3>13, StampedIsSeq
    <3>5. \A i \in 1 .. Len(facts) : all[Len(past) + i] = stamped[i]
      BY <3>13, StampedIsSeq
    <3>6. \A i \in 1 .. Len(facts) : /\ stamped[i].component = name
                                     /\ stamped[i].event = id
                                     /\ stamped[i].time = at
      BY <3>13, StampedIsSeq
    <3> HIDE DEF stamped, all
    <3>7. \A i \in 1 .. Len(facts) : Accounts(d, stamped[i])
      BY <1>2, <1>8, <3>1, <3>6 DEF Accounts, id, at, name
    <3>8. ToSet(r.world.pending) = ToSet(a.pending) \cup new
      BY <1>2, <2>3, CommitRoutes DEF name
    <3>9. \A x \in new : x.kind = "component"
      BY DEF RoutedEvents, Event
    <3>10. \A c \in ToSet(r.choices) : /\ c.component = name
                                       /\ c.event = e.id /\ c.time = a.time
      BY <3>1, PublishedMenus DEF name
    <3>11. \A c \in ToSet(r.choices) : c.event = e.id /\ Accounts(d, c)
      BY <1>2, <1>8, <3>1, <3>10 DEF Accounts, name
    <3> HIDE DEF new
    <3>12. \A f \in ToSet(all) : f \in ToSet(past) \/ Accounts(d, f)
      <4>1. Len(past) \in Nat /\ Len(facts) \in Nat
              /\ DOMAIN past = 1 .. Len(past)
        BY <3>13, SeqIsFunction
      <4> SUFFICES ASSUME NEW i \in 1 .. Len(past) + Len(facts)
                   PROVE  all[i] \in ToSet(past) \/ Accounts(d, all[i])
        BY <3>3 DEF ToSet
      <4>2. CASE i <= Len(past)
        BY <3>4, <4>1, <4>2 DEF ToSet
      <4>3. CASE i > Len(past)
        <5>1. i - Len(past) \in 1 .. Len(facts) /\ Len(past) + (i - Len(past)) = i
          BY <4>1, <4>3
        <5> QED
          BY <3>5, <3>7, <5>1
      <4> QED
        BY <4>1, <4>2, <4>3
    <3> QED
      BY <1>4, <1>6, <3>2, <3>3, <3>8, <3>9, <3>11, <3>12 DEF past
  <2> QED
    BY <1>5, <2>2, <2>3
<1> QED
  BY <1>4, <1>7, <1>8, <1>9

LEMMA ProvenanceStep ==
  ASSUME DrawsEnd
  PROVE  QueueInv /\ TypedInv /\ ProvenanceInv /\ [Next]_vars => ProvenanceInv'
<1> SUFFICES ASSUME QueueInv, TypedInv, ProvenanceInv, [Next]_vars
             PROVE  ProvenanceInv'
  OBVIOUS
<1>1. CASE world' = world /\ dispatched' = dispatched
  BY <1>1 DEF ProvenanceInv, Provenance, ProvenanceOf, Pending
<1>2. ASSUME NEW in \in Inputs, ScheduleInput(in)  PROVE ProvenanceInv'
  <2>1. CASE AcceptedInput(in)
    <3> DEFINE e == Event(world.nextId, in.at, in.kind, in.payload)
    <3>1. /\ world'.facts = world.facts /\ dispatched' = dispatched
          /\ Pending' = Pending \cup {e}
      BY <2>1 DEF AcceptedInput
    <3>2. e.kind = in.kind /\ e.payload = in.payload
      BY DEF Event
    <3> HIDE DEF e
    <3>3. e.kind = "choice" => Sound(e.payload)
      BY <2>1, <3>2, SubmittedIsSound DEF AcceptedInput
    <3> QED
      BY <3>1, <3>3 DEF ProvenanceInv, Provenance, ProvenanceOf
  <2> QED
    BY <1>1, <1>2, <2>1, SubmissionAccepted
<1>3. ASSUME AdvanceToNextEvent  PROVE ProvenanceInv'
  <2>1. PICK d : /\ ToSet(dispatched') = ToSet(dispatched) \cup {d}
                 /\ IsSeq(world'.facts)
                 /\ \A f \in ToSet(world'.facts) :
                      f \in ToSet(world.facts) \/ Accounts(d, f)
                 /\ \A c \in ToSet(d.choices) :
                      IF c.type = "component-choice"
                      THEN c.event = d.event.id /\ Accounts(d, c)
                      ELSE c.selected \in ToSet(d.event.payload.alternatives)
                 /\ \A e \in Pending' : e \in Pending \/ e.kind = "component"
    BY <1>3, AdvanceAccounts
  <2>2. \A x : ProvenanceOf(x) => ProvenanceOf(x)'
    BY <2>1 DEF ProvenanceOf
  <2>3. \A x : Accounts(d, x) => ProvenanceOf(x)'
    BY <2>1 DEF ProvenanceOf, Accounts
  <2>4. \A f \in ToSet(world'.facts) : ProvenanceOf(f)'
    BY <2>1, <2>2, <2>3 DEF ProvenanceInv, Provenance
  <2>5. ASSUME NEW x \in ToSet(dispatched'), NEW c \in ToSet(x.choices)
        PROVE  IF c.type = "component-choice"
               THEN c.event = x.event.id /\ ProvenanceOf(c)'
               ELSE c.selected \in ToSet(x.event.payload.alternatives)
    <3>1. CASE x \in ToSet(dispatched)
      BY <2>2, <3>1 DEF ProvenanceInv, Provenance
    <3>2. CASE x = d
      BY <2>1, <2>3, <3>2
    <3> QED
      BY <2>1, <3>1, <3>2
  <2> QED
    BY <2>1, <2>4, <2>5 DEF ProvenanceInv, Provenance
<1>4. CASE AdvanceOfNothing \/ RollbackInput
  <2>1. world' = world /\ dispatched' = dispatched
    BY <1>4 DEF AdvanceOfNothing, RollbackInput, Advance, Reduce, Refused, Keep
  <2> QED
    BY <1>1, <2>1
<1>5. CASE UNCHANGED vars
  BY <1>1, <1>5 DEF vars
<1> QED
  BY <1>2, <1>3, <1>4, <1>5 DEF Next

(***************************************************************************)
(* Every fact and every menu of a run names the step that produced it and  *)
(* the component that step was addressed to, and a choice selects one of   *)
(* the alternatives its event offers, for every handler and route table,   *)
(* provided the draws' rejection loops end (world.shen:356, prng.shen).    *)
(***************************************************************************)
THEOREM RecordsHaveProvenance ==
  ASSUME DrawsEnd
  PROVE  Spec => []Provenance
<1>1. ProvenanceInv => Provenance
  BY DEF ProvenanceInv
<1>2. Spec => [](QueueInv /\ TypedInv /\ ProvenanceInv)
  BY QueueInvInit, QueueInvStep, TypedInit, TypedStep, ProvenanceInit,
     ProvenanceStep, PTL DEF Spec
<1> QED
  BY <1>1, <1>2, PTL

-------------------------------------------------------------------------------
(***************************************************************************)
(* A step of the world is heard by at most one component, and leaves in    *)
(* the history what that component was asked and published.                *)
(***************************************************************************)
Answered(d, n, at, id, choices) ==
  /\ d.error = NoError /\ d.event.kind = "component" /\ d.event.payload.name = n
  /\ d.event.at = at /\ d.event.id = id
  /\ d.choices = Publish(id, at, n, choices)

Heard(n, value, at, id, step) ==
  /\ n \in Names
  /\ step = Handler(n, world.states[n], value, at)
  /\ step.type \notin {"raise", "error"}
  /\ step.facts \in Seq(Fact)
  /\ \A i \in 1 .. Len(step.facts) : step.facts[i].value \in Canonical
  /\ world'.facts = world.facts \o Stamp(id, at, n, step.facts)
  /\ world'.states = [world.states EXCEPT ![n] = step.state]
  /\ \E d : /\ dispatched' = Append(dispatched, d)
            /\ Answered(d, n, at, id, step.choices) /\ d.event.payload.value = value

Unheard ==
  /\ world'.facts = world.facts /\ world'.states = world.states
  /\ \/ dispatched' = dispatched
     \/ \E d : /\ dispatched' = Append(dispatched, d)
               /\ d.event.kind = "component" => d.error # NoError

LEMMA StepIsHeard ==
  ASSUME QueueInv, [Next]_vars
  PROVE  Unheard \/ \E n, value, at, id, step : Heard(n, value, at, id, step)
<1>1. CASE world' = world /\ dispatched' = dispatched
  BY <1>1 DEF Unheard
<1>2. ASSUME NEW in \in Inputs, ScheduleInput(in)  PROVE Unheard
  <2>1. dispatched' = dispatched /\ world' = Schedule(world, in.at, in.kind, in.payload).world
    BY <1>2 DEF ScheduleInput, Keep
  <2>2. DOMAIN world = DOMAIN InitialWorld
    BY DEF QueueInv, WorldOK
  <2>3. world'.facts = world.facts /\ world'.states = world.states
    BY <2>1, <2>2, WorldFields DEF Schedule, Reduced, Refused
  <2> QED
    BY <2>1, <2>3 DEF Unheard
<1>3. ASSUME AdvanceToNextEvent
      PROVE  Unheard \/ \E n, value, at, id, step : Heard(n, value, at, id, step)
  <2> DEFINE a == Popping(world)
             e == Head(world.pending)
             r == Dispatch(a, e)
             d == [event |-> e, error |-> r.error, choices |-> r.choices]
  <2>1. /\ world.pending # << >> /\ world' = Advance(world).world
        /\ dispatched' = Append(dispatched, [event |-> e, error |-> Advance(world).error,
                                            choices |-> Advance(world).choices])
    BY <1>3 DEF AdvanceToNextEvent, Keep
  <2>2. Advance(world) = r /\ WorldOK(a) /\ Dispatchable(e)
    BY <2>1, AdvanceIsDispatch DEF QueueInv
  <2>3. a.facts = world.facts /\ a.states = world.states
    BY WorldFields DEF Popping, QueueInv, WorldOK
  <2>4. d.event = e /\ d.error = r.error /\ d.choices = r.choices
    OBVIOUS
  <2>5. dispatched' = Append(dispatched, d) /\ world' = r.world
    BY <2>1, <2>2
  <2>6. \/ Passes(a, r, e.kind)
        \/ /\ e.kind = "component"
           /\ \E step : Commits(a, r, e.payload.name, e.payload.value, e.at, e.id, step)
    BY <2>2, DispatchIsHeard
  <2> HIDE DEF a, e, r, d
  <2>7. CASE Passes(a, r, e.kind)
    BY <2>3, <2>4, <2>5, <2>7 DEF Passes, Unheard
  <2>8. ASSUME NEW step, e.kind = "component",
               Commits(a, r, e.payload.name, e.payload.value, e.at, e.id, step)
        PROVE  \E n, value, at, id, s : Heard(n, value, at, id, s)
    <3>1. Answered(d, e.payload.name, e.at, e.id, step.choices)
      BY <2>4, <2>8 DEF Answered, Commits
    <3>2. \E x : /\ dispatched' = Append(dispatched, x)
                 /\ Answered(x, e.payload.name, e.at, e.id, step.choices)
                 /\ x.event.payload.value = e.payload.value
      BY <2>4, <2>5, <3>1
    <3>3. Heard(e.payload.name, e.payload.value, e.at, e.id, step)
      BY <2>3, <2>5, <2>8, <3>2 DEF Heard, Commits
    <3> QED
      BY <3>3
  <2> QED
    BY <2>6, <2>7, <2>8
<1>4. CASE AdvanceOfNothing \/ RollbackInput
  <2>1. world' = world /\ dispatched' = dispatched
    BY <1>4 DEF AdvanceOfNothing, RollbackInput, Advance, Reduce, Refused, Keep
  <2> QED
    BY <1>1, <2>1
<1>5. CASE UNCHANGED vars
  BY <1>1, <1>5 DEF vars
<1> QED
  BY <1>2, <1>3, <1>4, <1>5 DEF Next

-------------------------------------------------------------------------------
(***************************************************************************)
(* A set of values of different ranks is listed whole by a menu.           *)
(***************************************************************************)
Below(v, V) == {u \in V : Precedes(u, v)}

LEMMA SortedIsWhole ==
  ASSUME NEW V \in SUBSET Canonical, IsFiniteSet(V),
         \A u \in V : \A v \in V : Rank[u] = Rank[v] => u = v
  PROVE  ToSet(Sorted(V)) = V
<1> DEFINE k == Cardinality(V)
           Place(v) == Cardinality(Below(v, V))
           f == [v \in V |-> Place(v) + 1]
           list == Sorted(V)
<1>1. k \in Nat /\ \A v \in V : Rank[v] \in Nat
  BY FS_CardinalityType, ValuesAssumption
<1>2. ASSUME NEW v \in V
      PROVE  IsFiniteSet(Below(v, V)) /\ Place(v) \in Nat /\ Place(v) + 1 <= k
  <2> DEFINE A == Below(v, V)
  <2>1. A \subseteq V /\ v \notin A
    BY <1>1 DEF Below, Precedes
  <2> HIDE DEF A
  <2>2. IsFiniteSet(A) /\ Cardinality(A) \in Nat
    BY <2>1, FS_Subset, FS_CardinalityType
  <2>3. Cardinality(A \cup {v}) = Cardinality(A) + 1
    BY <2>1, <2>2, FS_AddElement
  <2>4. Cardinality(A \cup {v}) <= k
    BY <2>1, FS_Subset
  <2> QED
    BY <2>2, <2>3, <2>4 DEF A
<1>3. ASSUME NEW u \in V, NEW v \in V, Precedes(u, v)
      PROVE  Place(u) < Place(v)
  <2> DEFINE A == Below(u, V)
             B == Below(v, V)
  <2>1. A \cup {u} \subseteq B /\ u \notin A
    BY <1>1, <1>3 DEF Below, Precedes
  <2>2. /\ IsFiniteSet(A) /\ Cardinality(A) \in Nat
        /\ IsFiniteSet(B) /\ Cardinality(B) \in Nat
    BY <1>2
  <2> HIDE DEF A, B
  <2>3. Cardinality(A \cup {u}) = Cardinality(A) + 1
    BY <2>1, <2>2, FS_AddElement
  <2>4. Cardinality(A \cup {u}) <= Cardinality(B)
    BY <2>1, <2>2, FS_Subset
  <2> QED
    BY <2>2, <2>3, <2>4 DEF A, B
<1>4. ASSUME NEW u \in V, NEW v \in V, u # v
      PROVE  Precedes(u, v) \/ Precedes(v, u)
  <2>1. Rank[u] # Rank[v]
    BY <1>4
  <2> QED
    BY <1>1, <2>1 DEF Precedes
<1> HIDE DEF Place
<1>5. f \in Injection(V, 1 .. k)
  <2>1. f \in [V -> 1 .. k]
    BY <1>1, <1>2
  <2>2. ASSUME NEW u \in V, NEW v \in V, f[u] = f[v]  PROVE u = v
    <3>1. Place(u) = Place(v) /\ Place(u) \in Nat
      BY <1>2, <2>2
    <3> QED
      BY <1>3, <1>4, <3>1
  <2> HIDE DEF f
  <2> QED
    BY <2>1, <2>2 DEF Injection, IsInjective
<1>6. IsFiniteSet(1 .. k) /\ Cardinality(1 .. k) = k
  BY <1>1, FS_Interval
<1>7. f \in Surjection(V, 1 .. k)
  <2> HIDE DEF f
  <2> QED
    BY <1>5, <1>6, FS_Injection
<1>8. ASSUME NEW i \in 1 .. k  PROVE \E v \in V : Place(v) = i - 1
  <2>1. PICK v \in V : f[v] = i
    <3> HIDE DEF f
    <3> QED
      BY <1>7 DEF Surjection
  <2>2. Place(v) + 1 = i /\ Place(v) \in Nat
    BY <1>2, <2>1
  <2> QED
    BY <2>2
<1>9. /\ DOMAIN list = 1 .. k
      /\ \A i \in 1 .. k : list[i] = CHOOSE v \in V : Place(v) = i - 1
  BY DEF Sorted, Place, Below
<1> HIDE DEF list
<1>10. \A i \in 1 .. k : list[i] \in V /\ Place(list[i]) = i - 1
  BY <1>8, <1>9
<1>11. ASSUME NEW v \in V  PROVE \E i \in 1 .. k : list[i] = v
  <2> DEFINE i == Place(v) + 1
  <2>1. i \in 1 .. k /\ i - 1 = Place(v)
    BY <1>1, <1>2
  <2> HIDE DEF i
  <2>2. list[i] \in V /\ Place(list[i]) = Place(v)
    BY <1>10, <2>1
  <2>3. Place(v) \in Nat
    BY <1>2
  <2>4. list[i] = v
    BY <1>3, <1>4, <2>2, <2>3
  <2> QED
    BY <2>1, <2>4
<1>12. ToSet(list) = {list[i] : i \in 1 .. k}
  BY <1>9 DEF ToSet
<1> QED
  BY <1>10, <1>11, <1>12 DEF list

\* What a caller reads off the menus that a step publishes.
Offered(choices) ==
  IF choices = << >> THEN {} ELSE ToSet(choices[1].alternatives)

LEMMA PublishedChoice ==
  ASSUME NEW id, NEW at, NEW n, NEW purpose, NEW V, V = {} \/ ToSet(Sorted(V)) = V
  PROVE  Offered(Publish(id, at, n, Choice(purpose, V))) = V
<1> DEFINE menu == [purpose |-> purpose, alternatives |-> Sorted(V)]
           p == Publish(id, at, n, << menu >>)
<1>1. CASE V = {}
  <2>1. Choice(purpose, V) = << >>
    BY <1>1 DEF Choice
  <2>2. Publish(id, at, n, << >>) = << >>
    BY DEF Publish
  <2> QED
    BY <1>1, <2>1, <2>2 DEF Offered
<1>2. CASE V # {}
  <2>1. Choice(purpose, V) = << menu >>
    BY <1>2 DEF Choice
  <2>2. menu.alternatives = Sorted(V)
    OBVIOUS
  <2> HIDE DEF menu
  <2>3. 1 \in DOMAIN p /\ p[1].alternatives = Sorted(V)
    BY <2>2 DEF Publish
  <2>4. p # << >>
    BY <2>3
  <2> HIDE DEF p
  <2> QED
    BY <1>2, <2>1, <2>3, <2>4 DEF Offered, p
<1> QED
  BY <1>1, <1>2

-------------------------------------------------------------------------------
(***************************************************************************)
(* What a component has said about one identifier.                         *)
(***************************************************************************)
Deeds(F, n, names, id) ==
  {i \in DOMAIN F : F[i].component = n /\ F[i].name \in names /\ F[i].value.id = id}

LEMMA DeedsFinite ==
  ASSUME NEW F, IsSeq(F), NEW n, NEW names, NEW id
  PROVE  /\ IsFiniteSet(Deeds(F, n, names, id))
         /\ Cardinality(Deeds(F, n, names, id)) \in Nat
<1>1. Len(F) \in Nat /\ DOMAIN F = 1 .. Len(F)
  BY SeqIsFunction
<1>2. Deeds(F, n, names, id) \subseteq 1 .. Len(F) /\ IsFiniteSet(1 .. Len(F))
  BY <1>1, FS_Interval DEF Deeds
<1> QED
  BY <1>2, FS_Subset, FS_CardinalityType

LEMMA StampedDomain ==
  ASSUME NEW past, IsSeq(past), NEW facts, IsSeq(facts), NEW id, NEW at, NEW name
  PROVE  DOMAIN (past \o Stamp(id, at, name, facts)) = 1 .. Len(past) + Len(facts)
BY StampedIsSeq

\* Nothing is said of it by another component, nor in a step without facts.
LEMMA DeedsKept ==
  ASSUME NEW F, IsSeq(F), NEW facts, IsSeq(facts), NEW e, NEW at, NEW m, NEW n,
         m # n \/ Len(facts) = 0, NEW names, NEW id
  PROVE  Deeds(F \o Stamp(e, at, m, facts), n, names, id) = Deeds(F, n, names, id)
<1> DEFINE stamped == Stamp(e, at, m, facts)
           all == F \o stamped
<1>1. /\ Len(F) \in Nat /\ DOMAIN F = 1 .. Len(F) /\ Len(facts) \in Nat
  BY SeqIsFunction
<1>2. DOMAIN all = 1 .. Len(F) + Len(facts)
  BY StampedIsSeq
<1>3. \A i \in 1 .. Len(F) : all[i] = F[i]
  BY StampedIsSeq
<1>4. \A i \in 1 .. Len(facts) :
        all[Len(F) + i] = stamped[i] /\ stamped[i].component = m
  BY StampedIsSeq
<1> HIDE DEF all, stamped
<1>5. ASSUME NEW i \in DOMAIN all, i \notin 1 .. Len(F)  PROVE all[i].component # n
  <2>1. /\ i - Len(F) \in 1 .. Len(facts)
        /\ Len(F) + (i - Len(F)) = i
    BY <1>1, <1>2, <1>5
  <2> QED
    BY <1>1, <1>4, <2>1
<1>6. 1 .. Len(F) \subseteq DOMAIN all
  BY <1>1, <1>2
<1>7. Deeds(all, n, names, id) = Deeds(F, n, names, id)
  BY <1>1, <1>3, <1>5, <1>6 DEF Deeds
<1> QED
  BY <1>7 DEF all, stamped

\* One fact more is one deed more of its name and identifier.
LEMMA DeedsOfOneMore ==
  ASSUME NEW F, IsSeq(F), NEW facts, IsSeq(facts), Len(facts) = 1, NEW e, NEW at,
         NEW n, NEW names, NEW id
  PROVE  Cardinality(Deeds(F \o Stamp(e, at, n, facts), n, names, id))
           = Cardinality(Deeds(F, n, names, id))
             + (IF facts[1].name \in names /\ facts[1].value.id = id THEN 1 ELSE 0)
<1> DEFINE fact == facts[1]
           stamped == Stamp(e, at, n, facts)
           all == F \o stamped
           k == Len(F)
           D == Deeds(F, n, names, id)
           matches == fact.name \in names /\ fact.value.id = id
<1>2. k \in Nat /\ DOMAIN F = 1 .. k
  BY SeqIsFunction
<1>3. DOMAIN all = 1 .. k + Len(facts)
  BY StampedDomain
<1>4. \A i \in 1 .. k : all[i] = F[i]
  BY StampedIsSeq
<1>5. \A i \in 1 .. Len(facts) : /\ all[k + i] = stamped[i]
                                 /\ stamped[i].component = n
                                 /\ stamped[i].name = facts[i].name
                                 /\ stamped[i].value = facts[i].value
  BY StampedIsSeq
<1> HIDE DEF all, stamped
<1>6. /\ DOMAIN all = 1 .. k + 1
      /\ all[k + 1].component = n /\ all[k + 1].name = fact.name
      /\ all[k + 1].value = fact.value
  BY <1>2, <1>3, <1>5
<1> HIDE DEF fact
<1>7. Deeds(all, n, names, id) = IF matches THEN D \cup {k + 1} ELSE D
  BY <1>2, <1>4, <1>6 DEF Deeds
<1>8. k + 1 \notin D
  BY <1>2 DEF Deeds
<1>9. IsFiniteSet(D) /\ Cardinality(D) \in Nat
  BY DeedsFinite
<1> HIDE DEF D, matches, k
<1>10. Cardinality(D \cup {k + 1}) = Cardinality(D) + 1
  BY <1>8, <1>9, FS_AddElement
<1> QED
  BY <1>7, <1>9, <1>10 DEF all, stamped, fact, D, matches

-------------------------------------------------------------------------------
(***************************************************************************)
(* The dispatches a component answered.  The history grows at its end, so  *)
(* the last of them is the last to have been answered.                     *)
(***************************************************************************)
AnsweredBy(P, n) ==
  {i \in DOMAIN P : /\ P[i].error = NoError /\ P[i].event.kind = "component"
                    /\ P[i].event.payload.name = n}

IsLast(P, n, i) == i \in AnsweredBy(P, n) /\ \A j \in AnsweredBy(P, n) : j <= i

LEMMA LastKept ==
  ASSUME NEW P, IsSeq(P), NEW d, NEW n,
         d.event.kind = "component" => d.error # NoError \/ d.event.payload.name # n
  PROVE  /\ AnsweredBy(Append(P, d), n) = AnsweredBy(P, n)
         /\ \A i \in AnsweredBy(P, n) : Append(P, d)[i] = P[i]
<1> DEFINE Q == Append(P, d)
<1>1. Len(P) \in Nat /\ DOMAIN P = 1 .. Len(P)
  BY SeqIsFunction
<1>2. /\ DOMAIN Q = 1 .. Len(P) + 1 /\ \A i \in 1 .. Len(P) : Q[i] = P[i]
      /\ Q[Len(P) + 1] = d
  BY AppendIsSeq, SeqIsFunction
<1> HIDE DEF Q
<1>3. AnsweredBy(Q, n) = AnsweredBy(P, n)
  BY <1>1, <1>2 DEF AnsweredBy
<1>4. \A i \in AnsweredBy(P, n) : Q[i] = P[i]
  BY <1>1, <1>2 DEF AnsweredBy
<1> QED
  BY <1>3, <1>4 DEF Q

LEMMA LastMoves ==
  ASSUME NEW P, IsSeq(P), NEW d, NEW n,
         d.error = NoError, d.event.kind = "component", d.event.payload.name = n
  PROVE  /\ IsLast(Append(P, d), n, Len(P) + 1)
         /\ Append(P, d)[Len(P) + 1] = d
<1> DEFINE Q == Append(P, d)
<1>1. Len(P) \in Nat
  BY SeqIsFunction
<1>2. DOMAIN Q = 1 .. Len(P) + 1 /\ Q[Len(P) + 1] = d
  BY AppendIsSeq, SeqIsFunction
<1> HIDE DEF Q
<1>3. IsLast(Q, n, Len(P) + 1)
  BY <1>1, <1>2 DEF AnsweredBy, IsLast
<1> QED
  BY <1>2, <1>3 DEF Q

-------------------------------------------------------------------------------
(***************************************************************************)
(* Timers.  The hypotheses say that the timers of the world are served by  *)
(* the timer model, and that the byte order tells deadlines apart.         *)
(***************************************************************************)
TimersServed ==
  \A n \in OfKind("timer") :
    /\ InitState[n] = TimerInitial
    /\ \A s : \A v : \A t : Handler(n, s, v, t) = TimerStep(s, v, t)

DeadlinesRanked ==
  \A u \in Canonical : \A v \in Canonical :
    /\ u = Deadline(u.id, u.due) /\ v = Deadline(v.id, v.due)
    /\ Rank[u] = Rank[v]
    => u = v

\* What a step of the timer does with its deadlines, and says of them.
Arms(D, E, id, due, facts) ==
  /\ Named(D, id) = {} /\ E = D \cup {Deadline(id, due)}
  /\ facts = << FactOf("armed", Deadline(id, due)) >>

Ends(D, E, id, name, at, facts) ==
  /\ Named(D, id) # {} /\ E = D \ Named(D, id)
  /\ facts = << FactOf(name, Find(D, id)) >>
  /\ \/ name = "cancelled"
     \/ name = "fired" /\ Due(Named(D, id), at) # {}

LEMMA TimerMoves ==
  ASSUME NEW state, NEW input, NEW at,
         TimerStep(state, input, at).type \notin {"raise", "error"}
  PROVE  LET D == state.deadlines
             step == TimerStep(state, input, at)
             E == step.state.deadlines
         IN  /\ step.choices = Choice("timer-fire", Due(E, at))
             /\ \/ E = D /\ step.facts = << >>
                \/ \E id, due : Arms(D, E, id, due, step.facts)
                \/ \E id, name : Ends(D, E, id, name, at, step.facts)
<1> DEFINE D == state.deadlines
           step == TimerStep(state, input, at)
           E == step.state.deadlines
           Moves == \/ E = D /\ step.facts = << >>
                    \/ \E id, due : Arms(D, E, id, due, step.facts)
                    \/ \E id, name : Ends(D, E, id, name, at, step.facts)
<1>1. \A code : ModelFails(code).type = "error"
  BY DEF ModelFails, Fails
<1>2. ASSUME NEW X, NEW facts, step = TimerResult(X, facts, at)
      PROVE  E = X /\ step.facts = facts /\ step.choices = Choice("timer-fire", Due(E, at))
  BY <1>2 DEF TimerResult, Steps, TimerState, TimerChoices
<1>3. CASE input.kind = "set"
  <2> DEFINE d == Deadline(input.id, input.due)
             facts == << FactOf("armed", d) >>
  <2>1. step = SetTimer(D, input.id, input.due, at)
    BY <1>3 DEF TimerStep
  <2>2. /\ Named(D, input.id) = {}
        /\ step = TimerResult(D \cup {d}, facts, at)
    BY <1>1, <2>1 DEF SetTimer
  <2>3. /\ E = D \cup {d} /\ step.facts = facts
        /\ step.choices = Choice("timer-fire", Due(E, at))
    BY <1>2, <2>2
  <2>4. Arms(D, E, input.id, input.due, step.facts)
    BY <2>2, <2>3 DEF Arms
  <2> HIDE DEF E, D, step, d, facts
  <2> QED
    BY <2>3, <2>4 DEF E, D, step
<1>4. ASSUME NEW name,
             \/ name = "cancelled" /\ input.kind = "cancel"
             \/ name = "fired" /\ input.kind = "fire"
      PROVE  Moves /\ step.choices = Choice("timer-fire", Due(E, at))
  <2> DEFINE id == input.id
             X == D \ Named(D, id)
             facts == << FactOf(name, Find(D, id)) >>
  <2>1. step = IF name = "fired" THEN FireTimer(D, id, at) ELSE CancelTimer(D, id, at)
    BY <1>4 DEF TimerStep
  <2>2. /\ Named(D, id) # {}
        /\ name = "fired" => Due(Named(D, id), at) # {}
        /\ step = TimerResult(X, facts, at)
    BY <1>1, <1>4, <2>1 DEF FireTimer, CancelTimer, Release
  <2>3. /\ E = X /\ step.facts = facts
        /\ step.choices = Choice("timer-fire", Due(E, at))
    BY <1>2, <2>2
  <2>4. Ends(D, E, id, name, at, step.facts)
    BY <1>4, <2>2, <2>3 DEF Ends
  <2> HIDE DEF E, D, step, facts, id
  <2> QED
    BY <2>3, <2>4 DEF E, D, step
<1>5. CASE input.kind = "poll"
  <2>1. step = TimerResult(D, << >>, at)
    BY <1>5 DEF TimerStep
  <2> HIDE DEF step, D
  <2>2. /\ E = D /\ step.facts = << >>
        /\ step.choices = Choice("timer-fire", Due(E, at))
    BY <1>2, <2>1
  <2> QED
    BY <2>2 DEF step, D
<1>6. CASE input.kind \notin {"set", "cancel", "fire", "poll"}
  <2>1. step = ModelFails("timer-unknown-input")
    BY <1>6 DEF TimerStep
  <2> QED
    BY <1>1, <2>1
<1> QED
  <2> HIDE DEF E, D, step
  <2>1. CASE input.kind = "cancel"
    BY <1>4, <2>1 DEF E, D, step
  <2>2. CASE input.kind = "fire"
    BY <1>4, <2>2 DEF E, D, step
  <2> QED
    BY <1>3, <1>5, <1>6, <2>1, <2>2

(***************************************************************************)
(* What the fact log says of a timer's deadlines: armed and not yet ended  *)
(* are exactly those in its state, one per identifier, and what has fired  *)
(* was due.                                                                *)
(***************************************************************************)
Accounted(n, D, F, id) ==
  Cardinality(Deeds(F, n, {"armed"}, id))
    = Cardinality(Deeds(F, n, {"fired", "cancelled"}, id))
      + (IF Named(D, id) = {} THEN 0 ELSE 1)

FiredWhenDue(n, F) ==
  \A i \in DOMAIN F : F[i].component = n /\ F[i].name = "fired" =>
                        F[i].value.due <= F[i].time

TimerOK(n, D, F) ==
  /\ D \subseteq Canonical /\ IsFiniteSet(D)
  /\ \A d \in D : d = Deadline(d.id, d.due)
  /\ \A d \in D : \A x \in D : d.id = x.id => d = x
  /\ \A id : Accounted(n, D, F, id)
  /\ FiredWhenDue(n, F)

LEMMA FiringsKept ==
  ASSUME NEW F, IsSeq(F), NEW facts, IsSeq(facts), NEW e, NEW at, NEW m, NEW n,
         FiredWhenDue(n, F),
         \A i \in 1 .. Len(facts) :
           m = n /\ facts[i].name = "fired" => facts[i].value.due <= at
  PROVE  FiredWhenDue(n, F \o Stamp(e, at, m, facts))
<1> DEFINE stamped == Stamp(e, at, m, facts)
           all == F \o stamped
<1>1. Len(F) \in Nat /\ DOMAIN F = 1 .. Len(F) /\ Len(facts) \in Nat
  BY SeqIsFunction
<1>2. DOMAIN all = 1 .. Len(F) + Len(facts)
  BY StampedIsSeq
<1>3. \A i \in 1 .. Len(F) : all[i] = F[i]
  BY StampedIsSeq
<1>4. \A i \in 1 .. Len(facts) : all[Len(F) + i] = stamped[i]
  BY StampedIsSeq
<1>5. \A i \in 1 .. Len(facts) :
        /\ stamped[i].component = m
        /\ stamped[i].event = e /\ stamped[i].time = at
        /\ stamped[i].name = facts[i].name
        /\ stamped[i].value = facts[i].value
  BY StampedIsSeq
<1> HIDE DEF all, stamped
<1> SUFFICES ASSUME NEW i \in DOMAIN all, all[i].component = n, all[i].name = "fired"
             PROVE  all[i].value.due <= all[i].time
  BY DEF FiredWhenDue, all, stamped
<1>6. CASE i <= Len(F)
  BY <1>1, <1>2, <1>3, <1>6 DEF FiredWhenDue
<1>7. CASE i > Len(F)
  <2>1. i - Len(F) \in 1 .. Len(facts) /\ Len(F) + (i - Len(F)) = i
    BY <1>1, <1>2, <1>7
  <2> QED
    BY <1>4, <1>5, <2>1
<1> QED
  BY <1>1, <1>2, <1>6, <1>7

\* Another component's step, or a poll.
LEMMA TimerKept ==
  ASSUME NEW F, IsSeq(F), NEW facts, IsSeq(facts), NEW e, NEW at, NEW m, NEW n,
         m # n \/ Len(facts) = 0, NEW D, TimerOK(n, D, F)
  PROVE  TimerOK(n, D, F \o Stamp(e, at, m, facts))
<1> DEFINE all == F \o Stamp(e, at, m, facts)
<1>1. ASSUME NEW names, NEW id  PROVE Deeds(all, n, names, id) = Deeds(F, n, names, id)
  BY DeedsKept
<1>2. FiredWhenDue(n, all)
  <2>1. \A i \in 1 .. Len(facts) :
          m = n /\ facts[i].name = "fired" => facts[i].value.due <= at
    OBVIOUS
  <2> QED
    BY <2>1, FiringsKept DEF TimerOK
<1> HIDE DEF all
<1>3. \A id : Accounted(n, D, all, id)
  BY <1>1 DEF TimerOK, Accounted
<1> QED
  BY <1>2, <1>3 DEF TimerOK, all

LEMMA TimerArms ==
  ASSUME NEW F, IsSeq(F), NEW facts, IsSeq(facts), Len(facts) = 1,
         NEW e, NEW at, NEW n, NEW D, TimerOK(n, D, F),
         NEW E, NEW id, NEW due, Arms(D, E, id, due, facts),
         facts[1].value \in Canonical
  PROVE  TimerOK(n, E, F \o Stamp(e, at, n, facts))
<1> DEFINE all == F \o Stamp(e, at, n, facts)
           d == Deadline(id, due)
<1>1. facts[1].name = "armed" /\ facts[1].value = d
  BY DEF Arms, FactOf
<1>2. d.id = id /\ d.due = due
  BY DEF Deadline
<1>3. E = D \cup {d} /\ Named(D, id) = {}
  BY DEF Arms
<1>4. d = Deadline(d.id, d.due)
  BY <1>2
<1> HIDE DEF d
<1>5. E \subseteq Canonical /\ IsFiniteSet(E)
  BY <1>1, <1>3, FS_AddElement DEF TimerOK
<1>6. \A x \in E : x = Deadline(x.id, x.due)
  BY <1>3, <1>4 DEF TimerOK
<1>7. \A x \in E : \A y \in E : x.id = y.id => x = y
  BY <1>2, <1>3 DEF TimerOK, Named
<1>8. FiredWhenDue(n, all)
  <2>1. \A i \in 1 .. Len(facts) :
          n = n /\ facts[i].name = "fired" => facts[i].value.due <= at
    BY <1>1
  <2> QED
    BY <2>1, FiringsKept DEF TimerOK
<1>9. ASSUME NEW x  PROVE Accounted(n, E, all, x)
  <2>1. Cardinality(Deeds(all, n, {"armed"}, x))
          = Cardinality(Deeds(F, n, {"armed"}, x))
            + (IF facts[1].name \in {"armed"} /\ facts[1].value.id = x THEN 1 ELSE 0)
    BY DeedsOfOneMore
  <2>2. Cardinality(Deeds(all, n, {"fired", "cancelled"}, x))
          = Cardinality(Deeds(F, n, {"fired", "cancelled"}, x))
            + (IF facts[1].name \in {"fired", "cancelled"} /\ facts[1].value.id = x
               THEN 1 ELSE 0)
    BY DeedsOfOneMore
  <2>3. /\ Cardinality(Deeds(F, n, {"armed"}, x)) \in Nat
        /\ Cardinality(Deeds(F, n, {"fired", "cancelled"}, x)) \in Nat
    BY DeedsFinite
  <2>4. Accounted(n, D, F, x)
    BY DEF TimerOK
  <2>5. x # id => (Named(E, x) = {} <=> Named(D, x) = {})
    BY <1>2, <1>3 DEF Named
  <2>6. Named(E, id) # {}
    BY <1>2, <1>3 DEF Named
  <2> HIDE DEF all
  <2> QED
    BY <1>1, <1>2, <1>3, <2>1, <2>2, <2>3, <2>4, <2>5, <2>6 DEF Accounted
<1> QED
  BY <1>5, <1>6, <1>7, <1>8, <1>9 DEF TimerOK

LEMMA TimerEnds ==
  ASSUME NEW F, IsSeq(F), NEW facts, IsSeq(facts), Len(facts) = 1,
         NEW e, NEW at, NEW n, NEW D, TimerOK(n, D, F),
         NEW E, NEW id, NEW name, Ends(D, E, id, name, at, facts)
  PROVE  TimerOK(n, E, F \o Stamp(e, at, n, facts))
<1> DEFINE all == F \o Stamp(e, at, n, facts)
           d == Find(D, id)
<1>1. facts[1].name = name /\ facts[1].value = d
  BY DEF Ends, FactOf
<1>2. d \in D /\ d.id = id
  BY DEF Ends, Find, Named
<1> HIDE DEF d
<1>3. E = D \ Named(D, id) /\ name \in {"cancelled", "fired"}
  BY DEF Ends
<1>4. Named(D, id) = {d}
  BY <1>2 DEF Named, TimerOK
<1>5. E \subseteq Canonical /\ IsFiniteSet(E) /\ E \subseteq D
  BY <1>3, FS_Subset DEF TimerOK
<1>6. \A x \in E : x = Deadline(x.id, x.due)
  BY <1>5 DEF TimerOK
<1>7. \A x \in E : \A y \in E : x.id = y.id => x = y
  BY <1>5 DEF TimerOK
<1>8. FiredWhenDue(n, all)
  <2>1. name = "fired" => d.due <= at
    BY <1>4 DEF Ends, Due
  <2>2. \A i \in 1 .. Len(facts) :
          n = n /\ facts[i].name = "fired" => facts[i].value.due <= at
    BY <1>1, <2>1
  <2> QED
    BY <2>2, FiringsKept DEF TimerOK
<1>9. ASSUME NEW x  PROVE Accounted(n, E, all, x)
  <2>1. Cardinality(Deeds(all, n, {"armed"}, x))
          = Cardinality(Deeds(F, n, {"armed"}, x))
            + (IF facts[1].name \in {"armed"} /\ facts[1].value.id = x THEN 1 ELSE 0)
    BY DeedsOfOneMore
  <2>2. Cardinality(Deeds(all, n, {"fired", "cancelled"}, x))
          = Cardinality(Deeds(F, n, {"fired", "cancelled"}, x))
            + (IF facts[1].name \in {"fired", "cancelled"} /\ facts[1].value.id = x
               THEN 1 ELSE 0)
    BY DeedsOfOneMore
  <2>3. /\ Cardinality(Deeds(F, n, {"armed"}, x)) \in Nat
        /\ Cardinality(Deeds(F, n, {"fired", "cancelled"}, x)) \in Nat
    BY DeedsFinite
  <2>4. Accounted(n, D, F, x)
    BY DEF TimerOK
  <2>5. x # id => (Named(E, x) = {} <=> Named(D, x) = {})
    BY <1>2, <1>3, <1>4 DEF Named
  <2>6. Named(E, id) = {} /\ Named(D, id) # {}
    BY <1>3, <1>4 DEF Named
  <2> HIDE DEF all
  <2> QED
    BY <1>1, <1>2, <1>3, <2>1, <2>2, <2>3, <2>4, <2>5, <2>6 DEF Accounted
<1> QED
  BY <1>5, <1>6, <1>7, <1>8, <1>9 DEF TimerOK

-------------------------------------------------------------------------------
(***************************************************************************)
(* The menu a timer published last offers what is due of the deadlines it  *)
(* has now, as of the time of that menu: between two answers of the timer  *)
(* nothing changes its deadlines.                                          *)
(***************************************************************************)
MenuOK(n, D, P) ==
  AnsweredBy(P, n) # {} =>
    \E i : IsLast(P, n, i) /\ Offered(P[i].choices) = Due(D, P[i].event.at)

LEMMA MenuKept ==
  ASSUME NEW P, IsSeq(P), NEW d, NEW n, NEW D, MenuOK(n, D, P),
         d.event.kind = "component" => d.error # NoError \/ d.event.payload.name # n
  PROVE  MenuOK(n, D, Append(P, d))
<1> DEFINE Q == Append(P, d)
<1>1. AnsweredBy(Q, n) = AnsweredBy(P, n)
  BY LastKept
<1>2. \A i \in AnsweredBy(P, n) : Q[i] = P[i]
  BY LastKept
<1> HIDE DEF Q
<1> SUFFICES ASSUME AnsweredBy(Q, n) # {}
             PROVE  \E i : IsLast(Q, n, i) /\ Offered(Q[i].choices) = Due(D, Q[i].event.at)
  BY DEF MenuOK, Q
<1>3. PICK i : IsLast(P, n, i) /\ Offered(P[i].choices) = Due(D, P[i].event.at)
  BY <1>1 DEF MenuOK
<1>4. IsLast(Q, n, i) /\ Q[i] = P[i]
  BY <1>1, <1>2, <1>3 DEF IsLast
<1> QED
  BY <1>3, <1>4

LEMMA MenuMoves ==
  ASSUME NEW P, IsSeq(P), NEW d, NEW n, NEW at, NEW id, NEW choices, NEW E,
         Answered(d, n, at, id, choices), choices = Choice("timer-fire", Due(E, at)),
         ToSet(Sorted(Due(E, at))) = Due(E, at)
  PROVE  MenuOK(n, E, Append(P, d))
<1> DEFINE Q == Append(P, d)
           i == Len(P) + 1
<1>1. IsLast(Q, n, i)
  BY LastMoves DEF Answered
<1>2. Q[i] = d
  BY LastMoves DEF Answered
<1>3. Offered(d.choices) = Due(E, at) /\ d.event.at = at
  BY PublishedChoice DEF Answered
<1> HIDE DEF Q, i
<1>4. IsLast(Q, n, i) /\ Offered(Q[i].choices) = Due(E, Q[i].event.at)
  BY <1>1, <1>2, <1>3
<1>5. MenuOK(n, E, Q)
  BY <1>4 DEF MenuOK
<1> QED
  BY <1>5 DEF Q

LEMMA DueIsListed ==
  ASSUME DeadlinesRanked, NEW n, NEW E, NEW F, TimerOK(n, E, F), NEW at
  PROVE  ToSet(Sorted(Due(E, at))) = Due(E, at)
<1> DEFINE V == Due(E, at)
<1>1. V \subseteq E /\ E \subseteq Canonical /\ IsFiniteSet(E)
  BY DEF TimerOK, Due
<1>2. \A u \in V : \A v \in V : Rank[u] = Rank[v] => u = v
  <2>1. \A v \in V : v \in Canonical /\ v = Deadline(v.id, v.due)
    BY <1>1 DEF TimerOK
  <2> HIDE DEF V
  <2> QED
    BY <2>1 DEF DeadlinesRanked
<1>3. V \in SUBSET Canonical /\ IsFiniteSet(V)
  BY <1>1, FS_Subset
<1> HIDE DEF V
<1>4. ToSet(Sorted(V)) = V
  BY <1>2, <1>3, SortedIsWhole
<1> QED
  BY <1>4 DEF V

(***************************************************************************)
(* The inductive invariant of every timer.                                 *)
(***************************************************************************)
TimerFine(n, D, F, P) == TimerOK(n, D, F) /\ MenuOK(n, D, P)

TimerInv ==
  /\ IsSeq(world.facts)
  /\ \A n \in OfKind("timer") :
       TimerFine(n, world.states[n].deadlines, world.facts, dispatched)

LEMMA TimerInit ==
  ASSUME TimersServed, Init
  PROVE  TimerInv
<1>1. world.facts = << >> /\ dispatched = << >> /\ world.states = InitState
  BY DEF Init, InitialWorld
<1>2. IsSeq(<< >>) /\ DOMAIN << >> = {}
  <2>1. << >> \in Seq({}) /\ DOMAIN << >> = {}
    OBVIOUS
  <2> QED
    BY <2>1 DEF IsSeq
<1>3. ASSUME NEW n \in OfKind("timer")
      PROVE  TimerFine(n, world.states[n].deadlines, << >>, << >>)
  <2>1. world.states[n].deadlines = {}
    BY <1>1 DEF TimersServed, TimerInitial, TimerState
  <2>2. \A names : \A id : Deeds(<< >>, n, names, id) = {}
    BY <1>2 DEF Deeds
  <2>3. \A id : Accounted(n, {}, << >>, id)
    <3> SUFFICES ASSUME NEW id  PROVE Accounted(n, {}, << >>, id)
      OBVIOUS
    <3>1. Named({}, id) = {}
      BY DEF Named
    <3>2. \A names : Cardinality(Deeds(<< >>, n, names, id)) = 0
      BY <2>2, FS_EmptySet
    <3>3. 0 = 0 + 0
      OBVIOUS
    <3> QED
      BY <3>1, <3>2, <3>3 DEF Accounted
  <2>4. IsFiniteSet({})
    BY FS_EmptySet
  <2>5. FiredWhenDue(n, << >>)
    BY <1>2 DEF FiredWhenDue
  <2>6. TimerOK(n, {}, << >>)
    BY <2>3, <2>4, <2>5 DEF TimerOK
  <2>7. AnsweredBy(<< >>, n) = {}
    BY <1>2 DEF AnsweredBy
  <2>8. MenuOK(n, {}, << >>)
    BY <2>7 DEF MenuOK
  <2> QED
    BY <2>1, <2>6, <2>8 DEF TimerFine
<1> QED
  BY <1>1, <1>2, <1>3 DEF TimerInv

\* One answer of a timer.
LEMMA TimerAnswers ==
  ASSUME TimersServed, DeadlinesRanked, NEW n \in OfKind("timer"),
         NEW s, NEW F, NEW P, IsSeq(F), IsSeq(P), TimerFine(n, s.deadlines, F, P),
         NEW value, NEW at, NEW id, NEW step, step = Handler(n, s, value, at),
         step.type \notin {"raise", "error"}, step.facts \in Seq(Fact),
         \A i \in 1 .. Len(step.facts) : step.facts[i].value \in Canonical,
         NEW d, Answered(d, n, at, id, step.choices)
  PROVE  TimerFine(n, step.state.deadlines, F \o Stamp(id, at, n, step.facts),
                   Append(P, d))
<1> DEFINE D == s.deadlines
           E == step.state.deadlines
           facts == step.facts
           all == F \o Stamp(id, at, n, facts)
<1>1. step = TimerStep(s, value, at)
  BY DEF TimersServed
<1>2. step.choices = Choice("timer-fire", Due(E, at))
  BY <1>1, TimerMoves
<1>3. \/ E = D /\ facts = << >>
      \/ \E x, due : Arms(D, E, x, due, facts)
      \/ \E x, name : Ends(D, E, x, name, at, facts)
  BY <1>1, TimerMoves
<1>4. IsSeq(facts) /\ TimerOK(n, D, F)
  BY DEF IsSeq, TimerFine
<1> HIDE DEF D, facts
<1>5. CASE E = D /\ facts = << >>
  <2>1. Len(facts) = 0
    BY <1>5
  <2>2. TimerOK(n, D, all)
    BY <1>4, <2>1, TimerKept
  <2> QED
    BY <1>5, <2>2, MenuMoves, <1>2, DueIsListed DEF TimerFine, facts
<1>6. ASSUME NEW x, NEW due, Arms(D, E, x, due, facts)
      PROVE  TimerOK(n, E, all)
  <2>1. Len(facts) = 1
    BY <1>6 DEF Arms
  <2>2. facts[1].value \in Canonical
    BY <2>1 DEF facts
  <2> HIDE DEF E
  <2> QED
    BY <1>4, <1>6, <2>1, <2>2, TimerArms
<1>7. ASSUME NEW x, NEW name, Ends(D, E, x, name, at, facts)
      PROVE  TimerOK(n, E, all)
  <2>1. Len(facts) = 1
    BY <1>7 DEF Ends
  <2> HIDE DEF E
  <2> QED
    BY <1>4, <1>7, <2>1, TimerEnds
<1>8. TimerOK(n, E, all)
  <2>1. CASE E = D /\ facts = << >>
    <3>1. Len(facts) = 0
      BY <2>1
    <3>2. TimerOK(n, D, all)
      BY <1>4, <3>1, TimerKept
    <3> QED
      BY <2>1, <3>2
  <2> QED
    BY <1>3, <1>6, <1>7, <2>1
<1> HIDE DEF E, all
<1>9. ToSet(Sorted(Due(E, at))) = Due(E, at)
  BY <1>8, DueIsListed
<1>10. MenuOK(n, E, Append(P, d))
  BY <1>2, <1>9, MenuMoves
<1> QED
  BY <1>8, <1>10 DEF TimerFine, E, all, facts

LEMMA TimerStays ==
  ASSUME NEW n, NEW D, NEW F, NEW P, IsSeq(F), IsSeq(P), TimerFine(n, D, F, P),
         NEW m, m # n, NEW facts, IsSeq(facts), NEW id, NEW at, NEW d,
         d.event.kind = "component" => d.error # NoError \/ d.event.payload.name # n
  PROVE  TimerFine(n, D, F \o Stamp(id, at, m, facts), Append(P, d))
<1>1. TimerOK(n, D, F \o Stamp(id, at, m, facts))
  BY TimerKept DEF TimerFine
<1>2. MenuOK(n, D, Append(P, d))
  BY MenuKept DEF TimerFine
<1> QED
  BY <1>1, <1>2 DEF TimerFine

LEMMA TimerInvStep ==
  ASSUME TimersServed, DeadlinesRanked, QueueInv, TypedInv, TimerInv, [Next]_vars
  PROVE  TimerInv'
<1>1. IsSeq(dispatched) /\ IsSeq(world.facts)
  BY DEF QueueInv, PastOK, TimerInv
<1>2. DOMAIN world.states = Names
  BY DEF TypedInv, WorldTyped
<1>3. CASE Unheard
  <2>1. world'.facts = world.facts /\ world'.states = world.states
    BY <1>3 DEF Unheard
  <2>2. ASSUME NEW n \in OfKind("timer")
        PROVE  TimerFine(n, world'.states[n].deadlines, world'.facts, dispatched')
    <3>1. TimerFine(n, world.states[n].deadlines, world.facts, dispatched)
      BY DEF TimerInv
    <3>2. CASE dispatched' = dispatched
      BY <2>1, <3>1, <3>2
    <3>3. ASSUME NEW d, dispatched' = Append(dispatched, d),
                 d.event.kind = "component" => d.error # NoError
          PROVE  TimerFine(n, world'.states[n].deadlines, world'.facts, dispatched')
      <4>1. MenuOK(n, world.states[n].deadlines, dispatched')
        BY <1>1, <3>1, <3>3, MenuKept DEF TimerFine
      <4> QED
        BY <2>1, <3>1, <4>1 DEF TimerFine
    <3> QED
      BY <1>3, <3>2, <3>3 DEF Unheard
  <2> QED
    BY <1>1, <2>1, <2>2 DEF TimerInv
<1>4. ASSUME NEW m, NEW value, NEW at, NEW id, NEW step, Heard(m, value, at, id, step)
      PROVE  TimerInv'
  <2> DEFINE facts == step.facts
             all == world.facts \o Stamp(id, at, m, facts)
  <2>1. PICK d : dispatched' = Append(dispatched, d) /\ Answered(d, m, at, id, step.choices)
    BY <1>4 DEF Heard
  <2>2. /\ m \in Names /\ world'.facts = all
        /\ world'.states = [world.states EXCEPT ![m] = step.state]
    BY <1>4 DEF Heard
  <2>3. IsSeq(facts)
    BY <1>4 DEF Heard, IsSeq
  <2>4. IsSeq(all)
    BY <1>1, <2>3, StampedIsSeq
  <2>5. ASSUME NEW n \in OfKind("timer")
        PROVE  TimerFine(n, world'.states[n].deadlines, world'.facts, dispatched')
    <3>1. TimerFine(n, world.states[n].deadlines, world.facts, dispatched)
      BY DEF TimerInv
    <3>2. CASE n = m
      <4>1. world'.states[n] = step.state
        BY <1>2, <2>2, <3>2
      <4>2. /\ step = Handler(n, world.states[n], value, at)
            /\ step.type \notin {"raise", "error"} /\ step.facts \in Seq(Fact)
            /\ \A i \in 1 .. Len(step.facts) : step.facts[i].value \in Canonical
        BY <1>4, <3>2 DEF Heard
      <4>3. Answered(d, n, at, id, step.choices)
        BY <2>1, <3>2
      <4> HIDE DEF facts, all
      <4>4. TimerFine(n, step.state.deadlines, world.facts \o Stamp(id, at, n, step.facts),
                      Append(dispatched, d))
        BY <1>1, <3>1, <4>2, <4>3, TimerAnswers
      <4> QED
        BY <2>1, <2>2, <3>2, <4>1, <4>4 DEF all, facts
    <3>3. CASE n # m
      <4>1. world'.states[n] = world.states[n]
        BY <2>2, <3>3 DEF OfKind
      <4>2. d.event.kind = "component" => d.error # NoError \/ d.event.payload.name # n
        BY <2>1, <3>3 DEF Answered
      <4> HIDE DEF facts
      <4>3. TimerFine(n, world.states[n].deadlines, all, Append(dispatched, d))
        BY <1>1, <2>3, <3>1, <3>3, <4>2, TimerStays
      <4> QED
        BY <2>1, <2>2, <4>1, <4>3
    <3> QED
      BY <3>2, <3>3
  <2> QED
    BY <2>2, <2>4, <2>5 DEF TimerInv
<1> QED
  BY <1>3, <1>4, StepIsHeard

-------------------------------------------------------------------------------
(***************************************************************************)
(* What the invariant says of the fact log and of the last menu.           *)
(***************************************************************************)
LEMMA NamedCount ==
  ASSUME NEW D, \A d \in D : \A x \in D : d.id = x.id => d = x, NEW id
  PROVE  Cardinality(Named(D, id)) = IF Named(D, id) = {} THEN 0 ELSE 1
<1>1. CASE Named(D, id) = {}
  BY <1>1, FS_EmptySet
<1>2. ASSUME NEW d \in Named(D, id)
      PROVE  Cardinality(Named(D, id)) = 1
  <2>1. Named(D, id) = {d}
    BY <1>2 DEF Named
  <2> QED
    BY <2>1, FS_Singleton
<1> QED
  BY <1>1, <1>2

\* The timer fires exactly those of its deadlines that are due.
LEMMA FiresWhatIsDue ==
  ASSUME NEW s, \A d \in s.deadlines : \A x \in s.deadlines : d.id = x.id => d = x,
         NEW d \in s.deadlines, NEW now
  PROVE  TimerStep(s, TimerInput("fire", d.id, 0), now).type = "step"
           <=> d \in Due(s.deadlines, now)
<1> DEFINE D == s.deadlines
           input == TimerInput("fire", d.id, 0)
<1>1. input.kind = "fire" /\ input.id = d.id
  BY DEF TimerInput
<1> HIDE DEF input
<1>2. TimerStep(s, input, now) = FireTimer(D, d.id, now)
  BY <1>1 DEF TimerStep
<1>3. Named(D, d.id) = {d}
  BY DEF Named
<1>4. ModelFails("timer-not-due").type = "error"
  BY DEF ModelFails, Fails
<1>5. Release(D, d.id, "fired", now).type = "step"
  BY DEF Release, TimerResult, Steps
<1>6. Due(Named(D, d.id), now) = {} <=> d \notin Due(D, now)
  BY <1>3 DEF Due
<1>7. FireTimer(D, d.id, now)
        = IF d \in Due(D, now) THEN Release(D, d.id, "fired", now)
          ELSE ModelFails("timer-not-due")
  BY <1>3, <1>6 DEF FireTimer
<1> QED
  BY <1>2, <1>4, <1>5, <1>7 DEF input

LEMMA LastIsUnique ==
  ASSUME IsSeq(dispatched), NEW n, NEW i, IsLast(dispatched, n, i)
  PROVE  LastOf(MenusOf(n)) = i
<1> DEFINE A == AnsweredBy(dispatched, n)
<1>1. MenusOf(n) = A
  BY DEF MenusOf, AnsweredBy
<1>2. A \subseteq Nat
  BY SeqIsFunction DEF AnsweredBy
<1>3. i \in A /\ \A j \in A : j <= i
  BY DEF IsLast
<1> HIDE DEF A
<1>4. \A k \in A : (\A j \in A : j <= k) => k = i
  BY <1>2, <1>3
<1> QED
  BY <1>1, <1>3, <1>4 DEF LastOf

(***************************************************************************)
(* Timers are conserved in every world in which they are served by the     *)
(* timer model and the byte order tells deadlines apart: a deadline ends   *)
(* once, never early, and the last menu of a timer is what it would fire   *)
(* (urdr.model.timer.step-decoded, timer.shen:270-339), whatever the other *)
(* components do and whoever submits the inputs.                           *)
(***************************************************************************)
THEOREM TimersAreConserved ==
  ASSUME TimersServed, DeadlinesRanked
  PROVE  Spec => []TimersConserved
<1>1. QueueInv /\ TimerInv => TimersConserved
  <2> SUFFICES ASSUME QueueInv, TimerInv, NEW n \in OfKind("timer")
               PROVE  LET Of(names, id) ==
                            {i \in FactsBy(n, names) : Facts[i].value.id = id}
                          armed == world.states[n].deadlines
                      IN  /\ \A id \in {Facts[i].value.id : i \in FactsBy(n, {"armed"})} :
                               Cardinality(Of({"armed"}, id))
                                 - Cardinality(Of({"fired", "cancelled"}, id))
                                 = Cardinality(Named(armed, id))
                          /\ \A i \in FactsBy(n, {"fired"}) :
                               Facts[i].value.due <= Facts[i].time
                          /\ \A id \in {d.id : d \in armed} :
                               Cardinality(Named(armed, id)) = 1
                          /\ error = NoError /\ MenusOf(n) # {} =>
                               LatestMenu(n)
                                 = {d \in armed :
                                      Accepted(n, TimerInput("fire", d.id, 0),
                                               LatestTime(n))}
    BY DEF TimersConserved
  <2> DEFINE D == world.states[n].deadlines
             F == world.facts
             Of(names, id) == {i \in FactsBy(n, names) : Facts[i].value.id = id}
  <2>1. TimerOK(n, D, F) /\ MenuOK(n, D, dispatched) /\ IsSeq(F) /\ IsSeq(dispatched)
    BY DEF TimerInv, TimerFine, QueueInv, PastOK
  <2>2. \A d \in D : \A x \in D : d.id = x.id => d = x
    BY <2>1 DEF TimerOK
  <2>3. ASSUME NEW names, NEW id  PROVE Of(names, id) = Deeds(F, n, names, id)
    BY DEF FactsBy, Deeds, Facts
  <2>4. ASSUME NEW id
        PROVE  Cardinality(Of({"armed"}, id))
                 - Cardinality(Of({"fired", "cancelled"}, id))
                 = Cardinality(Named(D, id))
    <3>1. /\ Cardinality(Deeds(F, n, {"armed"}, id)) \in Nat
          /\ Cardinality(Deeds(F, n, {"fired", "cancelled"}, id)) \in Nat
      BY <2>1, DeedsFinite
    <3>2. Accounted(n, D, F, id)
      BY <2>1 DEF TimerOK
    <3>3. Cardinality(Named(D, id)) = IF Named(D, id) = {} THEN 0 ELSE 1
      BY <2>2, NamedCount
    <3>4. Cardinality(Deeds(F, n, {"armed"}, id))
            - Cardinality(Deeds(F, n, {"fired", "cancelled"}, id))
            = Cardinality(Named(D, id))
      <4> HIDE DEF D, F
      <4> QED
        BY <3>1, <3>2, <3>3 DEF Accounted
    <3> QED
      BY <2>3, <3>4
  <2>5. \A i \in FactsBy(n, {"fired"}) : Facts[i].value.due <= Facts[i].time
    BY <2>1 DEF TimerOK, FiredWhenDue, FactsBy, Facts
  <2>6. \A id \in {d.id : d \in D} : Cardinality(Named(D, id)) = 1
    <3> SUFFICES ASSUME NEW d \in D  PROVE Cardinality(Named(D, d.id)) = 1
      OBVIOUS
    <3>1. d \in Named(D, d.id)
      BY DEF Named
    <3> QED
      BY <2>2, <3>1, NamedCount
  <2>7. ASSUME MenusOf(n) # {}
        PROVE  LatestMenu(n)
                 = {d \in D : Accepted(n, TimerInput("fire", d.id, 0), LatestTime(n))}
    <3>1. MenusOf(n) = AnsweredBy(dispatched, n)
      BY DEF MenusOf, AnsweredBy
    <3>2. PICK i : /\ IsLast(dispatched, n, i)
                   /\ Offered(dispatched[i].choices) = Due(D, dispatched[i].event.at)
      BY <2>1, <2>7, <3>1 DEF MenuOK
    <3>3. LastOf(MenusOf(n)) = i
      BY <2>1, <3>2, LastIsUnique
    <3>4. LatestTime(n) = dispatched[i].event.at
      BY <3>3 DEF LatestTime
    <3>5. LatestMenu(n) = Offered(dispatched[i].choices)
      BY <3>3 DEF LatestMenu, Offered
    <3>6. ASSUME NEW d \in D
          PROVE  Accepted(n, TimerInput("fire", d.id, 0), LatestTime(n))
                   <=> d \in Due(D, LatestTime(n))
      <4>1. Handler(n, world.states[n], TimerInput("fire", d.id, 0), LatestTime(n))
              = TimerStep(world.states[n], TimerInput("fire", d.id, 0), LatestTime(n))
        BY DEF TimersServed
      <4> DEFINE s == world.states[n]
                 t == LatestTime(n)
      <4>2. d \in s.deadlines
        OBVIOUS
      <4>3. \A u \in s.deadlines : \A x \in s.deadlines : u.id = x.id => u = x
        BY <2>2
      <4>4. Accepted(n, TimerInput("fire", d.id, 0), t)
              <=> TimerStep(s, TimerInput("fire", d.id, 0), t).type = "step"
        BY <4>1 DEF Accepted
      <4> HIDE DEF s, t
      <4>5. TimerStep(s, TimerInput("fire", d.id, 0), t).type = "step"
              <=> d \in Due(s.deadlines, t)
        BY <4>2, <4>3, FiresWhatIsDue
      <4> QED
        BY <4>4, <4>5 DEF s, t
    <3>7. {d \in D : Accepted(n, TimerInput("fire", d.id, 0), LatestTime(n))}
            = Due(D, LatestTime(n))
      BY <3>6 DEF Due
    <3> QED
      BY <3>2, <3>4, <3>5, <3>7
  <2> QED
    BY <2>4, <2>5, <2>6, <2>7
<1>2. Init => TimerInv
  BY TimerInit
<1>3. QueueInv /\ TypedInv /\ TimerInv /\ [Next]_vars => TimerInv'
  BY TimerInvStep
<1>4. Spec => [](QueueInv /\ TypedInv /\ TimerInv)
  BY <1>2, <1>3, QueueInvInit, QueueInvStep, TypedInit, TypedStep, PTL DEF Spec
<1> QED
  BY <1>1, <1>4, PTL

-------------------------------------------------------------------------------
(***************************************************************************)
(* Processes.  The hypothesis says that they run in the wrapper, which     *)
(* boots an inner state that has done nothing; that the handler within     *)
(* leaves the wrapper's two words to the wrapper; and that its state       *)
(* counts its own deeds, which is what the property reads them by.         *)
(***************************************************************************)
DidIn(facts) == {i \in DOMAIN facts : facts[i].name = "did"}

Keeps(state, result) ==
  /\ result.type \in {"raise", "error", "step"}
  /\ result.type = "step" =>
       /\ result = Steps(result.state, result.facts, result.choices)
       /\ \A i \in DOMAIN result.facts :
            result.facts[i].name \notin {"crashed", "restarted"}
       /\ result.state.did = state.did + Cardinality(DidIn(result.facts))

ProcessesWrapped ==
  \A p \in OfKind("process") :
    /\ InitState[p] = ProcessInitial(InnerInit[p]) /\ InnerInit[p].did = 0
    /\ \A s : \A v : \A t : Handler(p, s, v, t) = ProcessStep(p, s, v, t)
    /\ \A s : \A v : \A t : s.did \in Nat => Keeps(s, InnerHandler(p, s, v, t))

\* The steps of a process: it announces one fact of the wrapper's, or it runs.
Announces(s, u, name, value, facts) ==
  /\ facts = << [name |-> name, value |-> value] >>
  /\ \/ /\ name = "restarted" /\ u.status = "running" /\ u.inner.did = 0
     \/ /\ name = "crashed" /\ u.status = "crashed" /\ u.inner = s.inner
        /\ u.absorbed = value.absorbed
        /\ \/ value.absorbed = 0
           \/ s.status = "crashed" /\ value.absorbed = s.absorbed + 1

Works(s, u, facts) ==
  /\ s.status = "running" /\ u.status = "running"
  /\ \A i \in DOMAIN facts : facts[i].name \notin {"crashed", "restarted"}
  /\ u.inner.did = s.inner.did + Cardinality(DidIn(facts))

LEMMA ProcessMoves ==
  ASSUME ProcessesWrapped, NEW p \in OfKind("process"), NEW s,
         s.status \in {"running", "crashed"}, s.inner.did \in Nat, NEW v, NEW t,
         Handler(p, s, v, t).type \notin {"raise", "error"}
  PROVE  LET step == Handler(p, s, v, t)
         IN  \/ \E name, value : Announces(s, step.state, name, value, step.facts)
             \/ Works(s, step.state, step.facts)
<1> DEFINE step == Handler(p, s, v, t)
           r == InnerHandler(p, s.inner, v, t)
           u == step.state
<1>1. step = CrashAware(InnerInit[p], s, ControlOf(v), r)
  BY DEF ProcessesWrapped, ProcessStep
<1>2. ControlOf(v) \in {"crash", "restart", "none"}
  BY DEF ControlOf
<1>3. InnerInit[p].did = 0
  BY DEF ProcessesWrapped
<1>4. Keeps(s.inner, r)
  BY DEF ProcessesWrapped
<1> HIDE DEF r
<1>5. CASE ControlOf(v) = "crash"
  <2>1. step = Crashed(s)
    BY <1>1, <1>5 DEF CrashAware
  <2>2. /\ u = ProcessState(0, s.inner, "crashed")
        /\ step.facts = << [name |-> "crashed", value |-> CrashedValue(0)] >>
    BY <2>1 DEF Crashed, ProcessSteps
  <2> HIDE DEF step, u
  <2>3. Announces(s, u, "crashed", CrashedValue(0), step.facts)
    BY <2>2 DEF Announces, CrashedValue, ProcessState
  <2>4. \E name, value : Announces(s, u, name, value, step.facts)
    BY <2>3
  <2> QED
    BY <2>4 DEF step, u
<1>6. CASE ControlOf(v) = "restart"
  <2>1. step = Restarted(InnerInit[p])
    BY <1>1, <1>6 DEF CrashAware
  <2>2. /\ u = ProcessState(0, InnerInit[p], "running")
        /\ step.facts = << [name |-> "restarted", value |-> RestartedValue] >>
    BY <2>1 DEF Restarted, ProcessSteps, ProcessInitial
  <2> HIDE DEF step, u
  <2>3. Announces(s, u, "restarted", RestartedValue, step.facts)
    BY <1>3, <2>2 DEF Announces, ProcessState
  <2>4. \E name, value : Announces(s, u, name, value, step.facts)
    BY <2>3
  <2> QED
    BY <2>4 DEF step, u
<1>7. CASE ControlOf(v) = "none" /\ s.status = "crashed"
  <2> DEFINE more == CrashedValue(s.absorbed + 1)
  <2>1. step = Absorb(s)
    BY <1>1, <1>7 DEF CrashAware
  <2>2. /\ u = ProcessState(s.absorbed + 1, s.inner, "crashed")
        /\ step.facts = << [name |-> "crashed", value |-> more] >>
    BY <2>1 DEF Absorb, ProcessSteps
  <2>3. more.absorbed = s.absorbed + 1
    BY DEF CrashedValue
  <2> HIDE DEF step, u, more
  <2>4. Announces(s, u, "crashed", more, step.facts)
    BY <1>7, <2>2, <2>3 DEF Announces, ProcessState
  <2>5. \E name, value : Announces(s, u, name, value, step.facts)
    BY <2>4
  <2> QED
    BY <2>5 DEF step, u
<1>8. CASE ControlOf(v) = "none" /\ s.status = "running"
  <2>1. step = ProcessInner(s, r)
    BY <1>1, <1>8 DEF CrashAware
  <2>2. r.type = "step"
    BY <1>4, <2>1 DEF ProcessInner, Keeps
  <2>3. /\ DOMAIN r = {"type", "state", "facts", "choices"}
    BY <1>4, <2>2 DEF Keeps, Steps
  <2>4. step = [r EXCEPT !.state = ProcessState(s.absorbed, r.state, "running")]
    BY <2>1, <2>2 DEF ProcessInner
  <2>5. /\ u = ProcessState(s.absorbed, r.state, "running")
        /\ step.facts = r.facts
    BY <2>3, <2>4
  <2> HIDE DEF step, u
  <2>6. Works(s, u, step.facts)
    BY <1>4, <1>8, <2>2, <2>5 DEF Works, Keeps, ProcessState
  <2> QED
    BY <2>6 DEF step, u
<1> QED
  BY <1>2, <1>5, <1>6, <1>7, <1>8

-------------------------------------------------------------------------------
(***************************************************************************)
(* What the fact log says of the life of a process.                        *)
(***************************************************************************)
Said(F, p) == {i \in DOMAIN F : F[i].component = p}

IsLatest(F, p, i) == i \in Said(F, p) /\ \A j \in Said(F, p) : j <= i

\* One fact follows another of the same process.
Follows(F, p, j, i) ==
  /\ i \in Said(F, p) /\ j \in Said(F, p) /\ j < i
  /\ \A k \in Said(F, p) : k < i => k <= j

Absorbs(F, p, i) ==
  F[i].name = "crashed" /\ F[i].value.absorbed > 0 =>
    \E j : /\ Follows(F, p, j, i) /\ F[j].name = "crashed"
           /\ F[j].value.absorbed = F[i].value.absorbed - 1

Silent(F, p, i) ==
  \A j : Follows(F, p, j, i) /\ F[j].name = "crashed" =>
           F[i].name \in {"crashed", "restarted"}

DidSince(F, p) ==
  {i \in Said(F, p) : /\ F[i].name = "did"
                      /\ \A j \in Said(F, p) : F[j].name = "restarted" => j < i}

ProcessOK(p, s, F) ==
  /\ s.status \in {"running", "crashed"}
  /\ \A i \in Said(F, p) : Absorbs(F, p, i) /\ Silent(F, p, i)
  /\ s.inner.did = Cardinality(DidSince(F, p))
  /\ s.status = "crashed" <=> \E i : IsLatest(F, p, i) /\ F[i].name = "crashed"
  /\ \A i : s.status = "crashed" /\ IsLatest(F, p, i) =>
              s.absorbed = F[i].value.absorbed /\ s.absorbed \in Nat

\* What the log gains by a step of the process, and by another component's.
Grown(F, p, facts, G) ==
  /\ Said(G, p) = Said(F, p) \cup (Len(F) + 1 .. Len(F) + Len(facts))
  /\ \A i \in Said(F, p) : i \in 1 .. Len(F) /\ G[i] = F[i]
  /\ \A i \in 1 .. Len(facts) :
       G[Len(F) + i].name = facts[i].name /\ G[Len(F) + i].value = facts[i].value

LEMMA SaidMore ==
  ASSUME NEW F, IsSeq(F), NEW facts, IsSeq(facts), NEW e, NEW at, NEW p
  PROVE  Grown(F, p, facts, F \o Stamp(e, at, p, facts))
<1> DEFINE stamped == Stamp(e, at, p, facts)
           all == F \o stamped
<1>1. Len(F) \in Nat /\ DOMAIN F = 1 .. Len(F) /\ Len(facts) \in Nat
  BY SeqIsFunction
<1>2. DOMAIN all = 1 .. Len(F) + Len(facts)
  BY StampedIsSeq
<1>3. \A i \in 1 .. Len(F) : all[i] = F[i]
  BY StampedIsSeq
<1>4. \A i \in 1 .. Len(facts) : all[Len(F) + i] = stamped[i]
  BY StampedIsSeq
<1>5. \A i \in 1 .. Len(facts) : /\ stamped[i].component = p
                                 /\ stamped[i].name = facts[i].name
                                 /\ stamped[i].value = facts[i].value
  BY StampedIsSeq
<1> HIDE DEF all, stamped
<1>6. ASSUME NEW i \in Len(F) + 1 .. Len(F) + Len(facts)
      PROVE  i \in DOMAIN all /\ all[i].component = p
  <2>1. i - Len(F) \in 1 .. Len(facts) /\ Len(F) + (i - Len(F)) = i
    BY <1>1
  <2>2. all[i].component = p
    BY <1>4, <1>5, <2>1
  <2> QED
    BY <1>1, <1>2, <2>2
<1>7. DOMAIN all = 1 .. Len(F) \cup (Len(F) + 1 .. Len(F) + Len(facts))
  BY <1>1, <1>2
<1>8. Said(all, p) = Said(F, p) \cup (Len(F) + 1 .. Len(F) + Len(facts))
  BY <1>1, <1>3, <1>6, <1>7 DEF Said
<1>9. \A i \in Said(F, p) : i \in 1 .. Len(F) /\ all[i] = F[i]
  BY <1>1, <1>3 DEF Said
<1> QED
  BY <1>4, <1>5, <1>8, <1>9 DEF Grown, all, stamped

Unspoken(F, p, G) == Said(G, p) = Said(F, p) /\ \A i \in Said(F, p) : G[i] = F[i]

LEMMA SaidKept ==
  ASSUME NEW F, IsSeq(F), NEW facts, IsSeq(facts), NEW e, NEW at, NEW m, NEW p, m # p
  PROVE  Unspoken(F, p, F \o Stamp(e, at, m, facts))
<1> DEFINE stamped == Stamp(e, at, m, facts)
           all == F \o stamped
<1>1. Len(F) \in Nat /\ DOMAIN F = 1 .. Len(F) /\ Len(facts) \in Nat
  BY SeqIsFunction
<1>2. DOMAIN all = 1 .. Len(F) + Len(facts)
  BY StampedIsSeq
<1>3. \A i \in 1 .. Len(F) : all[i] = F[i]
  BY StampedIsSeq
<1>4. \A i \in 1 .. Len(facts) :
        all[Len(F) + i] = stamped[i] /\ stamped[i].component = m
  BY StampedIsSeq
<1> HIDE DEF all, stamped
<1>5. ASSUME NEW i \in DOMAIN all, i \notin 1 .. Len(F)  PROVE all[i].component # p
  <2>1. i - Len(F) \in 1 .. Len(facts) /\ Len(F) + (i - Len(F)) = i
    BY <1>1, <1>2, <1>5
  <2> QED
    BY <1>4, <2>1
<1>6. 1 .. Len(F) \subseteq DOMAIN all
  BY <1>1, <1>2
<1>7. Said(all, p) = Said(F, p)
  BY <1>1, <1>3, <1>5, <1>6 DEF Said
<1>8. \A i \in Said(F, p) : all[i] = F[i]
  BY <1>1, <1>3 DEF Said
<1> QED
  BY <1>7, <1>8 DEF Unspoken, all, stamped

LEMMA ProcessKept ==
  ASSUME NEW F, NEW G, NEW p, NEW s, ProcessOK(p, s, F), Unspoken(F, p, G)
  PROVE  ProcessOK(p, s, G)
<1>1. Said(G, p) = Said(F, p) /\ \A i \in Said(F, p) : G[i] = F[i]
  BY DEF Unspoken
<1>2. \A i, j : Follows(G, p, j, i) <=> Follows(F, p, j, i)
  BY <1>1 DEF Follows
<1>3. \A i : IsLatest(G, p, i) <=> IsLatest(F, p, i)
  BY <1>1 DEF IsLatest
<1>4. DidSince(G, p) = DidSince(F, p)
  BY <1>1 DEF DidSince
<1>5. ASSUME NEW i \in Said(G, p)  PROVE Absorbs(G, p, i) /\ Silent(G, p, i)
  <2>1. Absorbs(F, p, i) /\ Silent(F, p, i)
    BY <1>5, <1>1 DEF ProcessOK
  <2>2. G[i] = F[i] /\ \A j : Follows(F, p, j, i) => G[j] = F[j]
    BY <1>5, <1>1 DEF Follows
  <2>3. Absorbs(G, p, i)
    BY <1>2, <2>1, <2>2 DEF Absorbs
  <2>4. Silent(G, p, i)
    BY <1>2, <2>1, <2>2 DEF Silent
  <2> QED
    BY <2>3, <2>4
<1>6. \A i : IsLatest(F, p, i) => G[i] = F[i]
  BY <1>1 DEF IsLatest
<1>7. s.status = "crashed" <=> \E i : IsLatest(G, p, i) /\ G[i].name = "crashed"
  BY <1>3, <1>6 DEF ProcessOK
<1>8. \A i : s.status = "crashed" /\ IsLatest(G, p, i) =>
               s.absorbed = G[i].value.absorbed /\ s.absorbed \in Nat
  BY <1>3, <1>6 DEF ProcessOK
<1> QED
  BY <1>4, <1>5, <1>7, <1>8 DEF ProcessOK

\* The log has one fact of the wrapper's more.
LEMMA ProcessAnnounces ==
  ASSUME NEW F, IsSeq(F), NEW facts, IsSeq(facts), Len(facts) = 1, NEW e, NEW at,
         NEW p, NEW s, ProcessOK(p, s, F), NEW u, NEW name, NEW value,
         Announces(s, u, name, value, facts)
  PROVE  ProcessOK(p, u, F \o Stamp(e, at, p, facts))
<1> DEFINE G == F \o Stamp(e, at, p, facts)
           k == Len(F) + 1
<1>1. Len(F) \in Nat
  BY SeqIsFunction
<1>2. Grown(F, p, facts, G)
  BY SaidMore
<1> HIDE DEF G
<1>3. \A i \in Said(F, p) : i \in 1 .. Len(F) /\ G[i] = F[i]
  BY <1>2 DEF Grown
<1>4. G[Len(F) + 1].name = facts[1].name /\ G[Len(F) + 1].value = facts[1].value
  BY <1>2 DEF Grown
<1>5. facts[1].name = name /\ facts[1].value = value
  BY DEF Announces
<1>6. name \in {"crashed", "restarted"}
  BY DEF Announces
<1>7. Said(G, p) = Said(F, p) \cup {k}
  BY <1>1, <1>2 DEF Grown
<1>8. G[k].name = name /\ G[k].value = value
  BY <1>1, <1>4, <1>5
<1>9. \A i \in Said(F, p) : i \in Nat /\ i < k /\ G[i] = F[i]
  BY <1>1, <1>3
<1>10. k \in Nat
  BY <1>1
<1> HIDE DEF k
<1>11. \A i \in Said(F, p) : \A j : Follows(G, p, j, i) <=> Follows(F, p, j, i)
  BY <1>7, <1>9, <1>10 DEF Follows
<1>12. \A j : Follows(G, p, j, k) <=> IsLatest(F, p, j)
  BY <1>7, <1>9, <1>10 DEF Follows, IsLatest
<1>13. \A i : IsLatest(G, p, i) <=> i = k
  BY <1>7, <1>9, <1>10 DEF IsLatest
<1>14. ASSUME NEW i \in Said(F, p)  PROVE Absorbs(G, p, i) /\ Silent(G, p, i)
  <2>1. Absorbs(F, p, i) /\ Silent(F, p, i)
    BY DEF ProcessOK
  <2>2. G[i] = F[i] /\ \A j : Follows(F, p, j, i) => G[j] = F[j]
    BY <1>9 DEF Follows
  <2>3. Absorbs(G, p, i)
    BY <1>11, <2>1, <2>2 DEF Absorbs
  <2>4. Silent(G, p, i)
    BY <1>11, <2>1, <2>2 DEF Silent
  <2> QED
    BY <2>3, <2>4
<1>15. Absorbs(G, p, k)
  <2> SUFFICES ASSUME name = "crashed", value.absorbed > 0
               PROVE  \E j : /\ Follows(G, p, j, k) /\ G[j].name = "crashed"
                             /\ G[j].value.absorbed = value.absorbed - 1
    BY <1>8 DEF Absorbs
  <2>1. s.status = "crashed" /\ value.absorbed = s.absorbed + 1
    BY DEF Announces
  <2>2. PICK j : IsLatest(F, p, j) /\ F[j].name = "crashed"
    BY <2>1 DEF ProcessOK
  <2>3. s.absorbed = F[j].value.absorbed /\ s.absorbed \in Nat
    BY <2>1, <2>2 DEF ProcessOK
  <2>4. G[j] = F[j]
    BY <1>9, <2>2 DEF IsLatest
  <2>5. F[j].value.absorbed = value.absorbed - 1
    BY <2>1, <2>3
  <2> QED
    BY <1>12, <2>2, <2>4, <2>5
<1>16. Silent(G, p, k)
  BY <1>6, <1>8 DEF Silent
<1>17. u.status \in {"running", "crashed"} /\ (u.status = "crashed" <=> name = "crashed")
  BY DEF Announces
<1>18. u.status = "crashed" => u.absorbed = value.absorbed /\ u.absorbed \in Nat
  <2> SUFFICES ASSUME u.status = "crashed"
               PROVE  u.absorbed = value.absorbed /\ u.absorbed \in Nat
    OBVIOUS
  <2>1. /\ u.absorbed = value.absorbed
        /\ \/ value.absorbed = 0
           \/ s.status = "crashed" /\ value.absorbed = s.absorbed + 1
    BY DEF Announces
  <2>2. s.status = "crashed" => s.absorbed \in Nat
    <3> SUFFICES ASSUME s.status = "crashed"  PROVE s.absorbed \in Nat
      OBVIOUS
    <3>1. PICK j : IsLatest(F, p, j)
      BY DEF ProcessOK
    <3> QED
      BY <3>1 DEF ProcessOK
  <2> QED
    BY <2>1, <2>2
<1>19. u.inner.did = Cardinality(DidSince(G, p))
  <2>1. CASE name = "crashed"
    <3>1. DidSince(G, p) = DidSince(F, p)
      BY <1>7, <1>8, <1>9, <2>1 DEF DidSince
    <3>2. u.inner = s.inner
      BY <2>1 DEF Announces
    <3> QED
      BY <3>1, <3>2 DEF ProcessOK
  <2>2. CASE name = "restarted"
    <3>1. DidSince(G, p) = {}
      BY <1>7, <1>8, <1>9, <1>10, <2>2 DEF DidSince
    <3>2. u.inner.did = 0
      BY <2>2 DEF Announces
    <3> QED
      BY <3>1, <3>2, FS_EmptySet
  <2> QED
    BY <1>6, <2>1, <2>2
<1>20. \A i \in Said(G, p) : Absorbs(G, p, i) /\ Silent(G, p, i)
  BY <1>7, <1>14, <1>15, <1>16
<1>21. u.status = "crashed" <=> \E i : IsLatest(G, p, i) /\ G[i].name = "crashed"
  BY <1>8, <1>13, <1>17
<1>22. \A i : u.status = "crashed" /\ IsLatest(G, p, i) =>
                u.absorbed = G[i].value.absorbed /\ u.absorbed \in Nat
  BY <1>8, <1>13, <1>18
<1>23. ProcessOK(p, u, G)
  BY <1>17, <1>19, <1>20, <1>21, <1>22 DEF ProcessOK
<1> QED
  BY <1>23 DEF G

\* The log has what a running process did.
LEMMA ProcessWorks ==
  ASSUME NEW F, IsSeq(F), NEW facts, IsSeq(facts), NEW e, NEW at,
         NEW p, NEW s, ProcessOK(p, s, F), NEW u, Works(s, u, facts)
  PROVE  ProcessOK(p, u, F \o Stamp(e, at, p, facts))
<1> DEFINE G == F \o Stamp(e, at, p, facts)
           k == Len(F)
           m == Len(facts)
           New == k + 1 .. k + m
<1>1. k \in Nat /\ m \in Nat /\ DOMAIN facts = 1 .. m
  BY SeqIsFunction
<1> HIDE DEF G
<1>2. Grown(F, p, facts, G)
  BY SaidMore DEF G
<1>3. Said(G, p) = Said(F, p) \cup New
  BY <1>2 DEF Grown
<1>4. \A i \in Said(F, p) : i \in 1 .. k /\ G[i] = F[i]
  BY <1>2 DEF Grown
<1>5. \A i \in 1 .. m : G[k + i].name = facts[i].name
  BY <1>2 DEF Grown
<1> HIDE DEF k, m
<1>6. ASSUME NEW i \in New
      PROVE  G[i].name \notin {"crashed", "restarted"} /\ i > k /\ i \in Nat
  <2>1. i - k \in 1 .. m /\ k + (i - k) = i
    BY <1>1
  <2>2. G[i].name = facts[i - k].name
    BY <1>5, <2>1
  <2> QED
    BY <1>1, <2>1, <2>2 DEF Works
<1> HIDE DEF New
<1>7. \A i \in Said(F, p) : i \in Nat /\ i <= k /\ G[i] = F[i]
  BY <1>1, <1>4
<1>8. \A i \in Said(F, p) : \A j : Follows(G, p, j, i) <=> Follows(F, p, j, i)
  BY <1>1, <1>3, <1>6, <1>7 DEF Follows
<1>9. ASSUME NEW i \in Said(F, p)  PROVE Absorbs(G, p, i) /\ Silent(G, p, i)
  <2>1. Absorbs(F, p, i) /\ Silent(F, p, i)
    BY DEF ProcessOK
  <2>2. G[i] = F[i] /\ \A j : Follows(F, p, j, i) => G[j] = F[j]
    BY <1>7 DEF Follows
  <2>3. Absorbs(G, p, i)
    BY <1>8, <2>1, <2>2 DEF Absorbs
  <2>4. Silent(G, p, i)
    BY <1>8, <2>1, <2>2 DEF Silent
  <2> QED
    BY <2>3, <2>4
<1>10. s.status = "running" /\ u.status = "running"
  BY DEF Works
<1>11. \A j : IsLatest(F, p, j) => F[j].name # "crashed"
  BY <1>10 DEF ProcessOK
<1>12. ASSUME NEW i \in New  PROVE Absorbs(G, p, i) /\ Silent(G, p, i)
  <2>1. Absorbs(G, p, i)
    BY <1>6 DEF Absorbs
  <2>2. ASSUME NEW j, Follows(G, p, j, i), G[j].name = "crashed"  PROVE FALSE
    <3>1. j \in Said(F, p)
      BY <1>3, <1>6, <2>2 DEF Follows
    <3>2. IsLatest(F, p, j)
      BY <1>1, <1>3, <1>6, <1>7, <2>2, <3>1 DEF Follows, IsLatest
    <3> QED
      BY <1>7, <1>11, <2>2, <3>1, <3>2
  <2>3. Silent(G, p, i)
    BY <2>2 DEF Silent
  <2> QED
    BY <2>1, <2>3
<1>13. ASSUME NEW i, IsLatest(G, p, i), G[i].name = "crashed"  PROVE FALSE
  <2>1. i \in Said(F, p)
    BY <1>3, <1>6, <1>13 DEF IsLatest
  <2>2. IsLatest(F, p, i)
    BY <1>3, <1>13, <2>1 DEF IsLatest
  <2> QED
    BY <1>7, <1>11, <1>13, <2>1, <2>2
<1>14. u.inner.did = Cardinality(DidSince(G, p))
  <2> DEFINE A == DidSince(F, p)
             B == {i \in New : G[i].name = "did"}
             f == [i \in DidIn(facts) |-> k + i]
  <2>1. DidSince(G, p) = A \cup B
    <3>1. \A i \in Said(G, p) : G[i].name = "restarted" => i \in Said(F, p)
      BY <1>3, <1>6
    <3>2. \A i \in Said(F, p) : G[i] = F[i]
      BY <1>7
    <3>3. \A i \in New : \A j \in Said(F, p) : j < i
      BY <1>1, <1>6, <1>7
    <3> QED
      BY <1>3, <3>1, <3>2, <3>3 DEF DidSince
  <2>2. A \subseteq 1 .. k /\ B \subseteq k + 1 .. k + m /\ DidIn(facts) \subseteq 1 .. m
    BY <1>1, <1>4 DEF DidSince, DidIn, New
  <2>3. IsFiniteSet(A) /\ IsFiniteSet(B) /\ IsFiniteSet(DidIn(facts))
    <3>1. /\ IsFiniteSet(1 .. k) /\ IsFiniteSet(k + 1 .. k + m)
          /\ IsFiniteSet(1 .. m)
      BY <1>1, FS_Interval
    <3> QED
      BY <2>2, <3>1, FS_Subset
  <2>4. A \cap B = {}
    BY <1>1, <2>2
  <2>5. ASSUME NEW i \in DidIn(facts)  PROVE f[i] = k + i /\ f[i] \in B
    <3>1. i \in 1 .. m /\ facts[i].name = "did"
      BY <1>1 DEF DidIn
    <3> QED
      BY <1>1, <1>5, <3>1 DEF New
  <2>6. f \in Injection(DidIn(facts), B)
    <3>1. f \in [DidIn(facts) -> B]
      BY <2>5
    <3>2. \A i \in DidIn(facts) : \A j \in DidIn(facts) : f[i] = f[j] => i = j
      BY <1>1, <2>2, <2>5
    <3> HIDE DEF f
    <3> QED
      BY <3>1, <3>2 DEF Injection, IsInjective
  <2>7. ASSUME NEW b \in B  PROVE \E i \in DidIn(facts) : f[i] = b
    <3>1. b - k \in 1 .. m /\ k + (b - k) = b
      BY <1>1 DEF New
    <3>2. facts[b - k].name = "did"
      BY <1>5, <3>1
    <3>3. b - k \in DidIn(facts)
      BY <1>1, <3>1, <3>2 DEF DidIn
    <3> QED
      BY <2>5, <3>1, <3>3
  <2> HIDE DEF f, A, B
  <2>8. Cardinality(B) = Cardinality(DidIn(facts))
    BY <2>3, <2>6, <2>7, CardinalityOfImage
  <2>9. Cardinality(A \cup B) = Cardinality(A) + Cardinality(B)
    BY <2>3, <2>4, CardinalityOfMore
  <2>10. s.inner.did = Cardinality(A)
    BY DEF ProcessOK, A
  <2>11. u.inner.did = s.inner.did + Cardinality(DidIn(facts))
    BY DEF Works
  <2> QED
    BY <2>1, <2>8, <2>9, <2>10, <2>11
<1>15. \A i \in Said(G, p) : Absorbs(G, p, i) /\ Silent(G, p, i)
  BY <1>3, <1>9, <1>12
<1>16. u.status = "crashed" <=> \E i : IsLatest(G, p, i) /\ G[i].name = "crashed"
  BY <1>10, <1>13
<1>17. ProcessOK(p, u, G)
  BY <1>10, <1>14, <1>15, <1>16 DEF ProcessOK
<1> QED
  BY <1>17 DEF G

-------------------------------------------------------------------------------
(***************************************************************************)
(* The inductive invariant of every process.                               *)
(***************************************************************************)
ProcessInv ==
  /\ IsSeq(world.facts)
  /\ \A p \in OfKind("process") : ProcessOK(p, world.states[p], world.facts)

LEMMA ProcessInit ==
  ASSUME ProcessesWrapped, Init
  PROVE  ProcessInv
<1>1. world.facts = << >> /\ world.states = InitState
  BY DEF Init, InitialWorld
<1>2. IsSeq(<< >>) /\ DOMAIN << >> = {}
  <2>1. << >> \in Seq({}) /\ DOMAIN << >> = {}
    OBVIOUS
  <2> QED
    BY <2>1 DEF IsSeq
<1>3. ASSUME NEW p \in OfKind("process")
      PROVE  ProcessOK(p, world.states[p], << >>)
  <2>1. InitState[p] = ProcessInitial(InnerInit[p]) /\ InnerInit[p].did = 0
    BY DEF ProcessesWrapped
  <2>2. /\ world.states[p].status = "running"
        /\ world.states[p].inner.did = 0
    BY <1>1, <2>1 DEF ProcessInitial, ProcessState
  <2>3. Said(<< >>, p) = {}
    BY <1>2 DEF Said
  <2>4. \A i : ~ IsLatest(<< >>, p, i)
    BY <2>3 DEF IsLatest
  <2>5. DidSince(<< >>, p) = {}
    BY <2>3 DEF DidSince
  <2>6. Cardinality(DidSince(<< >>, p)) = 0
    BY <2>5, FS_EmptySet
  <2> QED
    BY <2>2, <2>3, <2>4, <2>6 DEF ProcessOK
<1> QED
  BY <1>1, <1>2, <1>3 DEF ProcessInv

LEMMA ProcessTypes ==
  ASSUME NEW F, IsSeq(F), NEW p, NEW s, ProcessOK(p, s, F)
  PROVE  s.status \in {"running", "crashed"} /\ s.inner.did \in Nat
<1>1. Len(F) \in Nat /\ DidSince(F, p) \subseteq 1 .. Len(F)
  BY SeqIsFunction DEF DidSince, Said
<1>2. IsFiniteSet(1 .. Len(F))
  BY <1>1, FS_Interval
<1>3. Cardinality(DidSince(F, p)) \in Nat
  BY <1>1, <1>2, FS_Subset, FS_CardinalityType
<1> QED
  BY <1>3 DEF ProcessOK

LEMMA ProcessAnswers ==
  ASSUME ProcessesWrapped, NEW p \in OfKind("process"), NEW s, NEW F, IsSeq(F),
         ProcessOK(p, s, F), NEW value, NEW at, NEW id,
         NEW step, step = Handler(p, s, value, at),
         step.type \notin {"raise", "error"}, IsSeq(step.facts)
  PROVE  ProcessOK(p, step.state, F \o Stamp(id, at, p, step.facts))
<1>1. s.status \in {"running", "crashed"} /\ s.inner.did \in Nat
  BY ProcessTypes
<1>2. \/ \E name, v : Announces(s, step.state, name, v, step.facts)
      \/ Works(s, step.state, step.facts)
  BY <1>1, ProcessMoves
<1>3. ASSUME NEW name, NEW v, Announces(s, step.state, name, v, step.facts)
      PROVE  ProcessOK(p, step.state, F \o Stamp(id, at, p, step.facts))
  <2> DEFINE facts == step.facts
             u == step.state
  <2>1. Len(facts) = 1
    BY <1>3 DEF Announces
  <2>2. Announces(s, u, name, v, facts) /\ IsSeq(facts)
    BY <1>3
  <2> HIDE DEF facts, u
  <2>3. ProcessOK(p, u, F \o Stamp(id, at, p, facts))
    BY <2>1, <2>2, ProcessAnnounces
  <2> QED
    BY <2>3 DEF facts, u
<1>4. CASE Works(s, step.state, step.facts)
  BY <1>4, ProcessWorks
<1> QED
  BY <1>2, <1>3, <1>4

LEMMA ProcessInvStep ==
  ASSUME ProcessesWrapped, QueueInv, TypedInv, ProcessInv, [Next]_vars
  PROVE  ProcessInv'
<1>1. IsSeq(world.facts) /\ DOMAIN world.states = Names
  BY DEF ProcessInv, TypedInv, WorldTyped
<1>2. CASE Unheard
  <2>1. world'.facts = world.facts /\ world'.states = world.states
    BY <1>2 DEF Unheard
  <2> QED
    BY <2>1 DEF ProcessInv
<1>3. ASSUME NEW m, NEW value, NEW at, NEW id, NEW step, Heard(m, value, at, id, step)
      PROVE  ProcessInv'
  <2> DEFINE facts == step.facts
             all == world.facts \o Stamp(id, at, m, facts)
  <2>1. /\ m \in Names /\ world'.facts = all
        /\ world'.states = [world.states EXCEPT ![m] = step.state]
    BY <1>3 DEF Heard
  <2>2. IsSeq(facts)
    BY <1>3 DEF Heard, IsSeq
  <2>3. IsSeq(all)
    BY <1>1, <2>2, StampedIsSeq
  <2>4. ASSUME NEW p \in OfKind("process")
        PROVE  ProcessOK(p, world'.states[p], all)
    <3>1. ProcessOK(p, world.states[p], world.facts)
      BY DEF ProcessInv
    <3>2. CASE p = m
      <4>1. world'.states[p] = step.state
        BY <1>1, <2>1, <3>2
      <4>2. /\ step = Handler(p, world.states[p], value, at)
            /\ step.type \notin {"raise", "error"}
        BY <1>3, <3>2 DEF Heard
      <4>3. ProcessOK(p, step.state, world.facts \o Stamp(id, at, p, step.facts))
        BY <1>1, <2>2, <3>1, <4>2, ProcessAnswers
      <4> QED
        BY <3>2, <4>1, <4>3
    <3>3. CASE p # m
      <4>1. world'.states[p] = world.states[p]
        BY <1>1, <2>1, <3>3 DEF OfKind
      <4> HIDE DEF facts
      <4>2. Unspoken(world.facts, p, all)
        BY <1>1, <2>2, <3>3, SaidKept
      <4> HIDE DEF all
      <4>3. ProcessOK(p, world.states[p], all)
        BY <3>1, <4>2, ProcessKept
      <4> QED
        BY <4>1, <4>3
    <3> QED
      BY <3>2, <3>3
  <2> QED
    BY <2>1, <2>3, <2>4 DEF ProcessInv
<1> QED
  BY <1>2, <1>3, StepIsHeard

-------------------------------------------------------------------------------
(***************************************************************************)
(* The last of a set of positions is its greatest element.                 *)
(***************************************************************************)
LEMMA LastOfPositions ==
  ASSUME NEW n \in Nat, NEW S, S \subseteq 1 .. n, S # {}
  PROVE  LastOf(S) \in S /\ \A j \in S : j <= LastOf(S)
<1> DEFINE T == {n - j : j \in S}
<1>1. T \subseteq Nat /\ T # {}
  <2>1. \A j \in S : n - j \in Nat
    OBVIOUS
  <2> QED
    BY <2>1
<1>2. PICK x \in T : \A y \in T : x <= y
  <2> HIDE DEF T
  <2> QED
    BY <1>1, LeastElement
<1>3. PICK i \in S : x = n - i
  BY <1>2
<1>4. \A j \in S : j <= i
  <2> SUFFICES ASSUME NEW j \in S  PROVE j <= i
    OBVIOUS
  <2>1. n - j \in T
    OBVIOUS
  <2>2. n - i <= n - j
    BY <1>2, <1>3, <2>1
  <2>3. i \in 1 .. n /\ j \in 1 .. n
    OBVIOUS
  <2> QED
    BY <2>2, <2>3
<1> QED
  BY <1>4 DEF LastOf

LEMMA LastOfIs ==
  ASSUME NEW S, S \subseteq Nat, NEW i \in S, \A j \in S : j <= i
  PROVE  LastOf(S) = i
<1>1. \A k \in S : (\A j \in S : j <= k) => k = i
  OBVIOUS
<1> QED
  BY <1>1 DEF LastOf

\* What precedes a fact, and the last of it.
LEMMA PrecedingFact ==
  ASSUME NEW F, IsSeq(F), NEW p, NEW i \in Said(F, p), NEW B,
         B = {j \in Said(F, p) : j < i}
  PROVE  /\ \A j : Follows(F, p, j, i) => B # {} /\ LastOf(B) = j
         /\ B # {} => Follows(F, p, LastOf(B), i)
<1>1. Len(F) \in Nat /\ Said(F, p) \subseteq 1 .. Len(F)
  BY SeqIsFunction DEF Said
<1>2. B \subseteq 1 .. Len(F) /\ B \subseteq Nat
  BY <1>1
<1>3. ASSUME NEW j, Follows(F, p, j, i)  PROVE B # {} /\ LastOf(B) = j
  <2>1. j \in B /\ \A k \in B : k <= j
    BY <1>3 DEF Follows
  <2> QED
    BY <1>2, <2>1, LastOfIs
<1>4. ASSUME B # {}  PROVE Follows(F, p, LastOf(B), i)
  <2>1. LastOf(B) \in B
    BY <1>1, <1>2, <1>4, LastOfPositions
  <2>2. \A j \in B : j <= LastOf(B)
    BY <1>1, <1>2, <1>4, LastOfPositions
  <2> QED
    BY <2>1, <2>2 DEF Follows
<1> QED
  BY <1>3, <1>4

LEMMA SinceTheRestart ==
  ASSUME NEW F, IsSeq(F), NEW p, NEW R,
         R = {i \in Said(F, p) : F[i].name = "restarted"}
  PROVE  {i \in (IF R = {} THEN Said(F, p) ELSE {i \in Said(F, p) : i > LastOf(R)}) :
            F[i].name = "did"}
           = DidSince(F, p)
<1>1. Len(F) \in Nat /\ Said(F, p) \subseteq 1 .. Len(F)
  BY SeqIsFunction DEF Said
<1>2. CASE R = {}
  BY <1>2 DEF DidSince
<1>3. CASE R # {}
  <2>1. R \subseteq 1 .. Len(F)
    BY <1>1
  <2>2. LastOf(R) \in R
    BY <1>1, <1>3, <2>1, LastOfPositions
  <2>3. \A j \in R : j <= LastOf(R)
    BY <1>1, <1>3, <2>1, LastOfPositions
  <2>4. ASSUME NEW i \in Said(F, p)
        PROVE  i > LastOf(R) <=> \A j \in Said(F, p) : F[j].name = "restarted" => j < i
    <3>1. i \in Nat /\ LastOf(R) \in Nat /\ R \subseteq Nat
      BY <1>1, <2>1, <2>2
    <3> QED
      BY <2>2, <2>3, <3>1
  <2> QED
    BY <1>3, <2>4 DEF DidSince
<1> QED
  BY <1>2, <1>3

(***************************************************************************)
(* The life of a process is told by its own facts in every world in which  *)
(* the processes run in the crash-aware wrapper: a crashed process answers *)
(* every input with one absorption more and nothing else, until a restart  *)
(* boots it anew (urdr.model.fault.process, fault.shen:621-748), whatever  *)
(* faults arrive in whatever order and whatever the inner handler does.    *)
(***************************************************************************)
THEOREM ProcessesAreCrashAware ==
  ASSUME ProcessesWrapped
  PROVE  Spec => []ProcessLifetimes
<1>1. ProcessInv => ProcessLifetimes
  <2> SUFFICES ASSUME ProcessInv, NEW p \in OfKind("process")
               PROVE  LET all    == {i \in DOMAIN Facts : Facts[i].component = p}
                          Before(i) == {j \in all : j < i}
                          crashed(i) == Facts[i].name = "crashed"
                          since  == LET restarts == FactsBy(p, {"restarted"})
                                    IN  IF restarts = {} THEN all
                                        ELSE {i \in all : i > LastOf(restarts)}
                      IN  /\ \A i \in all :
                               /\ crashed(i) /\ Facts[i].value.absorbed > 0 =>
                                    /\ Before(i) # {}
                                    /\ crashed(LastOf(Before(i)))
                                    /\ Facts[LastOf(Before(i))].value.absorbed
                                         = Facts[i].value.absorbed - 1
                               /\ Before(i) # {} /\ crashed(LastOf(Before(i))) =>
                                    Facts[i].name \in {"crashed", "restarted"}
                          /\ world.states[p].inner.did
                               = Cardinality({i \in since : Facts[i].name = "did"})
                          /\ world.states[p].status = "crashed" <=>
                               all # {} /\ crashed(LastOf(all))
                          /\ world.states[p].status = "crashed" =>
                               world.states[p].absorbed
                                 = Facts[LastOf(all)].value.absorbed
    BY DEF ProcessLifetimes
  <2> DEFINE F == world.facts
             s == world.states[p]
             all == Said(F, p)
             R == {i \in Said(F, p) : F[i].name = "restarted"}
             Before(i) == {j \in all : j < i}
  <2>1. IsSeq(F) /\ ProcessOK(p, s, F)
    BY DEF ProcessInv
  <2>2. all = {i \in DOMAIN Facts : Facts[i].component = p} /\ Facts = F
    BY DEF Facts, Said
  <2>3. FactsBy(p, {"restarted"}) = R
    BY DEF FactsBy, Facts, Said
  <2> HIDE DEF F, s
  <2>4. ASSUME NEW i \in all
        PROVE  /\ F[i].name = "crashed" /\ F[i].value.absorbed > 0 =>
                    /\ Before(i) # {}
                    /\ F[LastOf(Before(i))].name = "crashed"
                    /\ F[LastOf(Before(i))].value.absorbed = F[i].value.absorbed - 1
               /\ Before(i) # {} /\ F[LastOf(Before(i))].name = "crashed" =>
                    F[i].name \in {"crashed", "restarted"}
    <3> DEFINE B == Before(i)
    <3>1. Absorbs(F, p, i) /\ Silent(F, p, i)
      BY <2>1 DEF ProcessOK
    <3>2. i \in Said(F, p) /\ B = {j \in Said(F, p) : j < i}
      OBVIOUS
    <3> HIDE DEF B, all
    <3>3. \A j : Follows(F, p, j, i) => B # {} /\ LastOf(B) = j
      BY <2>1, <3>2, PrecedingFact
    <3>4. B # {} => Follows(F, p, LastOf(B), i)
      BY <2>1, <3>2, PrecedingFact
    <3>5. F[i].name = "crashed" /\ F[i].value.absorbed > 0 =>
            /\ B # {} /\ F[LastOf(B)].name = "crashed"
            /\ F[LastOf(B)].value.absorbed = F[i].value.absorbed - 1
      BY <3>1, <3>3 DEF Absorbs
    <3>6. B # {} /\ F[LastOf(B)].name = "crashed" => F[i].name \in {"crashed", "restarted"}
      BY <3>1, <3>4 DEF Silent
    <3> QED
      BY <3>5, <3>6 DEF B
  <2>5. {i \in (IF R = {} THEN all ELSE {i \in all : i > LastOf(R)}) : F[i].name = "did"}
          = DidSince(F, p)
    BY <2>1, SinceTheRestart
  <2>6. s.inner.did = Cardinality(DidSince(F, p))
    BY <2>1 DEF ProcessOK
  <2>7. all # {} => IsLatest(F, p, LastOf(all))
    <3> SUFFICES ASSUME all # {}  PROVE IsLatest(F, p, LastOf(all))
      OBVIOUS
    <3>1. Len(F) \in Nat /\ all \subseteq 1 .. Len(F)
      BY <2>1, SeqIsFunction DEF Said
    <3> HIDE DEF all
    <3>2. LastOf(all) \in all
      BY <3>1, LastOfPositions
    <3>3. \A j \in all : j <= LastOf(all)
      BY <3>1, LastOfPositions
    <3> QED
      BY <3>2, <3>3 DEF IsLatest, all
  <2>8. \A i : IsLatest(F, p, i) => all # {} /\ LastOf(all) = i
    <3> SUFFICES ASSUME NEW i, IsLatest(F, p, i)  PROVE all # {} /\ LastOf(all) = i
      OBVIOUS
    <3>1. all \subseteq Nat
      BY <2>1, SeqIsFunction DEF Said
    <3>2. i \in all /\ \A j \in all : j <= i
      BY DEF IsLatest
    <3> HIDE DEF all
    <3> QED
      BY <3>1, <3>2, LastOfIs
  <2>9. s.status = "crashed" <=> all # {} /\ F[LastOf(all)].name = "crashed"
    BY <2>1, <2>7, <2>8 DEF ProcessOK
  <2>10. s.status = "crashed" => s.absorbed = F[LastOf(all)].value.absorbed
    BY <2>1, <2>7, <2>9 DEF ProcessOK
  <2> DEFINE said == {i \in DOMAIN Facts : Facts[i].component = p}
             since == IF FactsBy(p, {"restarted"}) = {} THEN said
                      ELSE {i \in said : i > LastOf(FactsBy(p, {"restarted"}))}
  <2> HIDE DEF R, all
  <2>11. said = all
    BY <2>2
  <2> HIDE DEF said
  <2>12. \A i \in said :
           /\ Facts[i].name = "crashed" /\ Facts[i].value.absorbed > 0 =>
                /\ {j \in said : j < i} # {}
                /\ Facts[LastOf({j \in said : j < i})].name = "crashed"
                /\ Facts[LastOf({j \in said : j < i})].value.absorbed
                     = Facts[i].value.absorbed - 1
           /\ /\ {j \in said : j < i} # {}
              /\ Facts[LastOf({j \in said : j < i})].name = "crashed"
              => Facts[i].name \in {"crashed", "restarted"}
    BY <2>2, <2>4, <2>11
  <2>13. s.inner.did = Cardinality({i \in since : Facts[i].name = "did"})
    BY <2>2, <2>3, <2>5, <2>6, <2>11
  <2>14. s.status = "crashed" <=> said # {} /\ Facts[LastOf(said)].name = "crashed"
    BY <2>2, <2>9, <2>11
  <2>15. s.status = "crashed" => s.absorbed = Facts[LastOf(said)].value.absorbed
    BY <2>2, <2>10, <2>11
  <2> QED
    BY <2>12, <2>13, <2>14, <2>15 DEF s, said
<1>2. Init => ProcessInv
  BY ProcessInit
<1>3. QueueInv /\ TypedInv /\ ProcessInv /\ [Next]_vars => ProcessInv'
  BY ProcessInvStep
<1>4. Spec => [](QueueInv /\ TypedInv /\ ProcessInv)
  BY <1>2, <1>3, QueueInvInit, QueueInvStep, TypedInit, TypedStep, PTL DEF Spec
<1> QED
  BY <1>1, <1>4, PTL

-------------------------------------------------------------------------------
(***************************************************************************)
(* Networks.  The hypothesis says that the networks of the world are       *)
(* served by the network model.                                            *)
(***************************************************************************)
NetServed ==
  \A n \in OfKind("net") :
    /\ InitState[n] = NetInitial
    /\ \A s : \A v : \A t : Handler(n, s, v, t) = NetStep(s, v)

\* What a network says of a packet that it takes from a queue.
Reported(masks, action, packet, via) ==
  LET outputs == Sorted(Policies[masks].made[packet])
  IN  IF action = "drop" THEN << FactOf("dropped", Transfer(packet, via)) >>
      ELSE IF outputs = << >> THEN << FactOf("blocked", Transfer(packet, via)) >>
      ELSE [i \in DOMAIN outputs |-> FactOf("delivered", Delivered(outputs[i], packet, via))]

\* The steps of a network: it sends, it takes, it changes a mask, it is polled.
Sends(s, u, input, facts) ==
  /\ input.kind = "send" /\ input.via \in Links /\ input.packet \in HeaderSpace
  /\ u.masks = s.masks
  /\ u.pending = [s.pending EXCEPT ![input.via] = Append(@, input.packet)]
  /\ facts = << FactOf("queued", Transfer(input.packet, input.via)) >>

Takes(s, u, input, facts) ==
  LET selection == input.selection
      queue == s.pending[selection.via]
      at    == selection.index + 1
  IN  /\ input.kind = "deliver" /\ selection.via \in Links
      /\ selection.index \in 0 .. Len(queue) - 1
      /\ selection.action \in {"deliver", "drop", "duplicate"}
      /\ u.masks = s.masks
      /\ u.pending = IF selection.action = "duplicate" THEN s.pending
                     ELSE [s.pending EXCEPT ![selection.via] = RemoveAt(@, at)]
      /\ facts = Reported(s.masks, selection.action, queue[at], selection.via)

Installs(s, u, input, facts) ==
  /\ input.kind = "mask" /\ input.mask.id \notin {m.id : m \in s.masks}
  /\ u.masks = s.masks \cup {input.mask} /\ u.pending = s.pending
  /\ facts = << FactOf("masked", [id |-> input.mask.id]) >>

Removes(s, u, input, facts) ==
  /\ input.kind = "unmask" /\ u.masks # s.masks
  /\ u.masks = {m \in s.masks : m.id # input.id} /\ u.pending = s.pending
  /\ facts = << FactOf("unmasked", [id |-> input.id]) >>

Polls(s, u, input, facts) ==
  /\ input.kind = "poll" /\ u.masks = s.masks /\ u.pending = s.pending
  /\ facts = << >>

NetMove(s, u, input, facts) ==
  \/ Sends(s, u, input, facts) \/ Takes(s, u, input, facts)
  \/ Installs(s, u, input, facts) \/ Removes(s, u, input, facts)
  \/ Polls(s, u, input, facts)

LEMMA NetMoves ==
  ASSUME NEW s, NEW input, NetStep(s, input).type \notin {"raise", "error"}
  PROVE  LET step == NetStep(s, input)
             u == step.state
         IN  /\ u = NetState(u.masks, u.pending)
             /\ step.choices = NetChoices(u.pending)
             /\ Policies[s.masks].code = "ok" /\ Policies[u.masks].code = "ok"
             /\ NetMove(s, u, input, step.facts)
<1> DEFINE step == NetStep(s, input)
           u == step.state
           policy == Policies[s.masks]
<1>1. \A code : ModelFails(code).type = "error"
  BY DEF ModelFails, Fails
<1>2. ASSUME NEW masks, NEW pending, NEW facts, step = NetResult(masks, pending, facts)
      PROVE  /\ u = NetState(masks, pending) /\ u.masks = masks /\ u.pending = pending
             /\ step.facts = facts /\ step.choices = NetChoices(pending)
  BY <1>2 DEF NetResult, Steps, NetState
<1>3. policy.code = "ok" /\ step = StepUnder(policy, s, input)
  BY <1>1 DEF NetStep, StepUnder
<1>4. CASE input.kind = "send"
  <2> DEFINE pending == [s.pending EXCEPT ![input.via] = Append(@, input.packet)]
             facts == << FactOf("queued", Transfer(input.packet, input.via)) >>
  <2>1. step = Send(s, input)
    BY <1>3, <1>4 DEF StepUnder
  <2>2. /\ input.via \in Links /\ input.packet \in HeaderSpace
        /\ step = NetResult(s.masks, pending, facts)
    BY <1>1, <2>1 DEF Send
  <2>3. /\ u = NetState(s.masks, pending) /\ u.masks = s.masks /\ u.pending = pending
        /\ step.facts = facts /\ step.choices = NetChoices(pending)
    BY <1>2, <2>2
  <2>4. Sends(s, u, input, step.facts)
    BY <1>4, <2>2, <2>3 DEF Sends
  <2> HIDE DEF step, u, pending, facts
  <2> QED
    BY <1>3, <2>3, <2>4 DEF NetMove, step, u, policy
<1>5. CASE input.kind = "deliver"
  <2> DEFINE sel == input.selection
             queue == s.pending[sel.via]
             at == sel.index + 1
             pending == IF sel.action = "duplicate" THEN s.pending
                        ELSE [s.pending EXCEPT ![sel.via] = RemoveAt(@, at)]
             facts == Reported(s.masks, sel.action, queue[at], sel.via)
             taken == Taken(s, policy, sel.action, queue[at], sel.via, pending)
  <2>1. step = Deliver(s, policy, sel)
    BY <1>3, <1>5 DEF StepUnder
  <2>2. /\ sel.via \in Links /\ sel.index \in 0 .. Len(queue) - 1
        /\ sel.action \in {"deliver", "drop", "duplicate"}
        /\ step = taken
    BY <1>1, <2>1 DEF Deliver
  <2>3. taken = NetResult(s.masks, pending, facts)
    <3> HIDE DEF pending
    <3> QED
      BY DEF Taken, Forward, Reported
  <2>4. /\ u = NetState(s.masks, pending) /\ u.masks = s.masks /\ u.pending = pending
        /\ step.facts = facts /\ step.choices = NetChoices(pending)
    <3> HIDE DEF step, u, pending, facts, taken
    <3> QED
      BY <1>2, <2>2, <2>3
  <2>5. Takes(s, u, input, step.facts)
    BY <1>5, <2>2, <2>4 DEF Takes
  <2> HIDE DEF step, u, pending, facts
  <2> QED
    BY <1>3, <2>4, <2>5 DEF NetMove, step, u, policy
<1>6. ASSUME NEW masks, NEW fact, NEW id,
             step = MaskComposed(Policies[masks].code, s, masks, fact, id)
      PROVE  /\ Policies[masks].code = "ok"
             /\ u = NetState(masks, s.pending) /\ u.masks = masks
             /\ u.pending = s.pending /\ step.choices = NetChoices(s.pending)
             /\ step.facts = << FactOf(fact, [id |-> id]) >>
  <2>1. Policies[masks].code = "ok"
    BY <1>1, <1>6 DEF MaskComposed
  <2>2. step = NetResult(masks, s.pending, << FactOf(fact, [id |-> id]) >>)
    BY <1>6, <2>1 DEF MaskComposed
  <2> QED
    BY <1>2, <2>1, <2>2
<1>7. CASE input.kind = "mask"
  <2> DEFINE masks == s.masks \cup {input.mask}
  <2>1. step = InstallMask(s, input.mask)
    BY <1>3, <1>7 DEF StepUnder
  <2>2. /\ input.mask.id \notin {m.id : m \in s.masks}
        /\ step = MaskComposed(Policies[masks].code, s, masks, "masked", input.mask.id)
    BY <1>1, <2>1 DEF InstallMask
  <2>3. /\ Policies[masks].code = "ok"
        /\ u = NetState(masks, s.pending) /\ u.masks = masks
        /\ u.pending = s.pending /\ step.choices = NetChoices(s.pending)
        /\ step.facts = << FactOf("masked", [id |-> input.mask.id]) >>
    <3> HIDE DEF masks
    <3> QED
      BY <1>6, <2>2
  <2>4. Installs(s, u, input, step.facts)
    BY <1>7, <2>2, <2>3 DEF Installs
  <2> HIDE DEF step, u, masks
  <2> QED
    BY <1>3, <2>3, <2>4 DEF NetMove, step, u, policy
<1>8. CASE input.kind = "unmask"
  <2> DEFINE masks == {m \in s.masks : m.id # input.id}
  <2>1. step = RemoveMask(s, input.id)
    BY <1>3, <1>8 DEF StepUnder
  <2>2. /\ masks # s.masks
        /\ step = MaskComposed(Policies[masks].code, s, masks, "unmasked", input.id)
    BY <1>1, <2>1 DEF RemoveMask
  <2>3. /\ Policies[masks].code = "ok"
        /\ u = NetState(masks, s.pending) /\ u.masks = masks
        /\ u.pending = s.pending /\ step.choices = NetChoices(s.pending)
        /\ step.facts = << FactOf("unmasked", [id |-> input.id]) >>
    <3> HIDE DEF masks
    <3> QED
      BY <1>6, <2>2
  <2>4. Removes(s, u, input, step.facts)
    BY <1>8, <2>2, <2>3 DEF Removes
  <2> HIDE DEF step, u, masks
  <2> QED
    BY <1>3, <2>3, <2>4 DEF NetMove, step, u, policy
<1>9. CASE input.kind = "poll"
  <2>1. step = NetResult(s.masks, s.pending, << >>)
    BY <1>3, <1>9 DEF StepUnder
  <2>2. /\ u = NetState(s.masks, s.pending) /\ u.masks = s.masks
        /\ u.pending = s.pending /\ step.choices = NetChoices(s.pending)
        /\ step.facts = << >>
    BY <1>2, <2>1
  <2>3. Polls(s, u, input, step.facts)
    BY <1>9, <2>2 DEF Polls
  <2> HIDE DEF step, u
  <2> QED
    BY <1>3, <2>2, <2>3 DEF NetMove, step, u, policy
<1>10. CASE input.kind \notin {"send", "deliver", "mask", "unmask", "poll"}
  <2>1. step = ModelFails("net-unknown-input")
    BY <1>3, <1>10 DEF StepUnder
  <2> QED
    BY <1>1, <2>1
<1> QED
  <2> HIDE DEF step, u, policy
  <2> QED
    BY <1>4, <1>5, <1>7, <1>8, <1>9, <1>10 DEF step, u

-------------------------------------------------------------------------------
(***************************************************************************)
(* How often a packet waits in a queue, before and after one joins or      *)
(* leaves it.                                                              *)
(***************************************************************************)
Waiting(queue, packet) == {i \in DOMAIN queue : queue[i] = packet}

LEMMA WaitingFinite ==
  ASSUME NEW q, IsSeq(q), NEW p
  PROVE  IsFiniteSet(Waiting(q, p)) /\ Cardinality(Waiting(q, p)) \in Nat
<1>1. Len(q) \in Nat /\ DOMAIN q = 1 .. Len(q)
  BY SeqIsFunction
<1>2. Waiting(q, p) \subseteq 1 .. Len(q) /\ IsFiniteSet(1 .. Len(q))
  BY <1>1, FS_Interval DEF Waiting
<1> QED
  BY <1>2, FS_Subset, FS_CardinalityType

LEMMA WaitingMore ==
  ASSUME NEW q, IsSeq(q), NEW x, NEW p
  PROVE  Cardinality(Waiting(Append(q, x), p))
           = Cardinality(Waiting(q, p)) + (IF x = p THEN 1 ELSE 0)
<1> DEFINE r == Append(q, x)
           k == Len(q) + 1
<1>1. Len(q) \in Nat /\ DOMAIN q = 1 .. Len(q)
  BY SeqIsFunction
<1>2. /\ DOMAIN r = 1 .. k /\ r[k] = x
      /\ \A i \in 1 .. Len(q) : r[i] = q[i]
  BY AppendIsSeq, SeqIsFunction
<1> HIDE DEF r
<1>3. Waiting(r, p) = Waiting(q, p) \cup (IF x = p THEN {k} ELSE {})
  BY <1>1, <1>2 DEF Waiting
<1>4. k \notin Waiting(q, p)
  BY <1>1 DEF Waiting
<1>5. IsFiniteSet(Waiting(q, p)) /\ Cardinality(Waiting(q, p)) \in Nat
  BY WaitingFinite
<1> HIDE DEF k
<1>6. Cardinality(Waiting(q, p) \cup {k}) = Cardinality(Waiting(q, p)) + 1
  BY <1>4, <1>5, FS_AddElement
<1>7. Waiting(q, p) \cup {} = Waiting(q, p)
  OBVIOUS
<1> QED
  BY <1>3, <1>5, <1>6, <1>7 DEF r

\* Taking off the k-th packet moves up those behind it.
LEMMA RemoveAtIsSeq ==
  ASSUME NEW q, IsSeq(q), NEW k \in 1 .. Len(q)
  PROVE  /\ IsSeq(RemoveAt(q, k)) /\ Len(RemoveAt(q, k)) = Len(q) - 1
         /\ \A i \in 1 .. Len(q) - 1 : RemoveAt(q, k)[i] = IF i < k THEN q[i] ELSE q[i + 1]
<1>1. PICK S : q \in Seq(S)
  BY DEF IsSeq
<1>2. Len(q) \in Nat /\ k \in Nat
  BY <1>1
<1> DEFINE a == SubSeq(q, 1, k - 1)
           b == SubSeq(q, k + 1, Len(q))
<1>3. a \in Seq(S) /\ Len(a) = k - 1 /\ \A i \in 1 .. k - 1 : a[i] = q[i]
  BY <1>1, <1>2
<1>4. /\ b \in Seq(S) /\ Len(b) = Len(q) - k
      /\ \A i \in 1 .. Len(q) - k : b[i] = q[i + k]
  BY <1>1, <1>2
<1> HIDE DEF a, b
<1>5. RemoveAt(q, k) = a \o b
  BY DEF RemoveAt, a, b
<1>6. IsSeq(a \o b) /\ Len(a \o b) = Len(q) - 1
  <2>1. IsSeq(a) /\ IsSeq(b)
    BY <1>3, <1>4 DEF IsSeq
  <2>2. IsSeq(a \o b) /\ Len(a \o b) = Len(a) + Len(b)
    BY <2>1, ConcatIsSeq
  <2> QED
    BY <1>2, <1>3, <1>4, <2>2
<1>7. \A i \in 1 .. Len(q) - 1 : (a \o b)[i] = IF i < k THEN q[i] ELSE q[i + 1]
  <2> SUFFICES ASSUME NEW i \in 1 .. Len(q) - 1
               PROVE  (a \o b)[i] = IF i < k THEN q[i] ELSE q[i + 1]
    OBVIOUS
  <2>1. CASE i < k
    BY <1>2, <1>3, <1>4, <2>1
  <2>2. CASE ~(i < k)
    <3>1. i - (k - 1) \in 1 .. Len(q) - k /\ (i - (k - 1)) + k = i + 1
      BY <1>2, <2>2
    <3>2. (a \o b)[i] = b[i - (k - 1)]
      BY <1>2, <1>3, <1>4, <2>2
    <3> QED
      BY <1>4, <2>2, <3>1, <3>2
  <2> QED
    BY <2>1, <2>2
<1> QED
  BY <1>5, <1>6, <1>7

LEMMA WaitingLess ==
  ASSUME NEW q, IsSeq(q), NEW k \in 1 .. Len(q), NEW p
  PROVE  Cardinality(Waiting(q, p))
           = Cardinality(Waiting(RemoveAt(q, k), p)) + (IF q[k] = p THEN 1 ELSE 0)
<1> DEFINE r == RemoveAt(q, k)
           A == Waiting(r, p)
           B == Waiting(q, p) \ {k}
           f == [i \in A |-> IF i < k THEN i ELSE i + 1]
<1>1. Len(q) \in Nat /\ DOMAIN q = 1 .. Len(q) /\ k \in Nat
  BY SeqIsFunction
<1>2. /\ IsSeq(r) /\ DOMAIN r = 1 .. Len(q) - 1
      /\ \A i \in 1 .. Len(q) - 1 : r[i] = IF i < k THEN q[i] ELSE q[i + 1]
  BY RemoveAtIsSeq, SeqIsFunction
<1> HIDE DEF r
<1>3. A \subseteq 1 .. Len(q) - 1 /\ B \subseteq 1 .. Len(q)
  BY <1>1, <1>2 DEF Waiting
<1>4. f \in [A -> B]
  <2> SUFFICES ASSUME NEW i \in A  PROVE (IF i < k THEN i ELSE i + 1) \in B
    OBVIOUS
  <2> QED
    BY <1>1, <1>2 DEF Waiting
<1>5. f \in Injection(A, B)
  <2>1. \A i \in A : \A j \in A : f[i] = f[j] => i = j
    BY <1>1, <1>3
  <2> HIDE DEF f
  <2> QED
    BY <1>4, <2>1 DEF Injection, IsInjective
<1>6. ASSUME NEW b \in B  PROVE \E a \in A : f[a] = b
  <2> DEFINE a == IF b < k THEN b ELSE b - 1
  <2>1. a \in 1 .. Len(q) - 1 /\ (IF a < k THEN a ELSE a + 1) = b
    BY <1>1, <1>3
  <2>2. q[b] = p
    BY DEF Waiting
  <2>3. r[a] = p
    <3>1. r[a] = IF a < k THEN q[a] ELSE q[a + 1]
      BY <1>2, <2>1
    <3> HIDE DEF a
    <3> QED
      BY <2>1, <2>2, <3>1
  <2> HIDE DEF a
  <2>4. a \in A
    BY <1>2, <2>1, <2>3 DEF Waiting
  <2> QED
    BY <2>1, <2>4
<1>7. IsFiniteSet(A) /\ Cardinality(A) \in Nat
  BY <1>2, WaitingFinite
<1>8. IsFiniteSet(B) /\ Cardinality(B) = Cardinality(A)
  <2> HIDE DEF A, B, f
  <2> QED
    BY <1>5, <1>6, <1>7, CardinalityOfImage
<1>9. Waiting(q, p) = B \cup (IF q[k] = p THEN {k} ELSE {})
  BY <1>1 DEF Waiting
<1>10. k \notin B
  OBVIOUS
<1> HIDE DEF A, B, f
<1>11. Cardinality(B \cup {k}) = Cardinality(B) + 1
  BY <1>8, <1>10, FS_AddElement
<1>12. CASE q[k] = p
  BY <1>7, <1>8, <1>9, <1>11, <1>12 DEF A, r
<1>13. CASE q[k] # p
  <2>1. Waiting(q, p) = B
    BY <1>9, <1>13
  <2> QED
    BY <1>7, <1>8, <1>13, <2>1 DEF A, r
<1> QED
  BY <1>12, <1>13

-------------------------------------------------------------------------------
(***************************************************************************)
(* What a log gains by one step: the facts of one component, stamped with  *)
(* one event.                                                              *)
(***************************************************************************)
LogGains(F, G, n, id, facts) ==
  /\ \A i \in DOMAIN F : i \in DOMAIN G /\ G[i] = F[i]
  /\ \A j \in DOMAIN facts :
       /\ Len(F) + j \in DOMAIN G \ DOMAIN F
       /\ G[Len(F) + j].component = n /\ G[Len(F) + j].event = id
       /\ G[Len(F) + j].name = facts[j].name
       /\ G[Len(F) + j].value = facts[j].value
  /\ \A i \in DOMAIN G \ DOMAIN F : \E j \in DOMAIN facts : i = Len(F) + j

LEMMA FactsGrow ==
  ASSUME NEW F, IsSeq(F), NEW facts, IsSeq(facts), NEW id, NEW at, NEW n
  PROVE  /\ LogGains(F, F \o Stamp(id, at, n, facts), n, id, facts)
         /\ IsSeq(F \o Stamp(id, at, n, facts))
<1> DEFINE stamped == Stamp(id, at, n, facts)
           G == F \o stamped
<1>1. /\ Len(F) \in Nat /\ DOMAIN F = 1 .. Len(F)
      /\ Len(facts) \in Nat /\ DOMAIN facts = 1 .. Len(facts)
  BY SeqIsFunction
<1>2. DOMAIN G = 1 .. Len(F) + Len(facts) /\ IsSeq(G)
  BY StampedIsSeq
<1>3. \A i \in 1 .. Len(F) : G[i] = F[i]
  BY StampedIsSeq
<1>4. \A i \in 1 .. Len(facts) : G[Len(F) + i] = stamped[i]
  BY StampedIsSeq
<1>5. \A i \in 1 .. Len(facts) : /\ stamped[i].component = n
                                 /\ stamped[i].event = id
                                 /\ stamped[i].name = facts[i].name
                                 /\ stamped[i].value = facts[i].value
  BY StampedIsSeq
<1> HIDE DEF G, stamped
<1>6. \A i \in DOMAIN F : i \in DOMAIN G /\ G[i] = F[i]
  BY <1>1, <1>2, <1>3
<1>7. \A j \in DOMAIN facts : Len(F) + j \in DOMAIN G \ DOMAIN F
  BY <1>1, <1>2
<1>8. ASSUME NEW i \in DOMAIN G \ DOMAIN F
      PROVE  \E j \in DOMAIN facts : i = Len(F) + j
  <2>1. i - Len(F) \in DOMAIN facts /\ i = Len(F) + (i - Len(F))
    BY <1>1, <1>2
  <2> QED
    BY <2>1
<1> QED
  BY <1>1, <1>2, <1>4, <1>5, <1>6, <1>7, <1>8 DEF LogGains, G, stamped

(***************************************************************************)
(* How often a packet was queued on a link, as the log tells.              *)
(***************************************************************************)
QueuedOf(F, n, packet, via) ==
  {i \in DOMAIN F : /\ F[i].component = n /\ F[i].name = "queued"
                    /\ F[i].value.packet = packet /\ F[i].value.via = via}

LEMMA QueuedFinite ==
  ASSUME NEW F, IsSeq(F), NEW n, NEW p, NEW via
  PROVE  /\ IsFiniteSet(QueuedOf(F, n, p, via))
         /\ Cardinality(QueuedOf(F, n, p, via)) \in Nat
<1>1. Len(F) \in Nat /\ DOMAIN F = 1 .. Len(F)
  BY SeqIsFunction
<1>2. QueuedOf(F, n, p, via) \subseteq 1 .. Len(F) /\ IsFiniteSet(1 .. Len(F))
  BY <1>1, FS_Interval DEF QueuedOf
<1> QED
  BY <1>2, FS_Subset, FS_CardinalityType

LEMMA QueuedKept ==
  ASSUME NEW F, NEW G, NEW m, NEW id, NEW facts, LogGains(F, G, m, id, facts),
         NEW n, m # n \/ \A j \in DOMAIN facts : facts[j].name # "queued",
         NEW p, NEW via
  PROVE  QueuedOf(G, n, p, via) = QueuedOf(F, n, p, via)
<1>1. \A i \in DOMAIN G \ DOMAIN F : ~(G[i].component = n /\ G[i].name = "queued")
  BY DEF LogGains
<1> QED
  BY <1>1 DEF LogGains, QueuedOf

LEMMA QueuedMore ==
  ASSUME NEW F, IsSeq(F), NEW G, NEW n, NEW id, NEW facts,
         LogGains(F, G, n, id, facts), NEW p, NEW via, NEW packet, NEW link,
         facts = << FactOf("queued", Transfer(packet, link)) >>
  PROVE  Cardinality(QueuedOf(G, n, p, via))
           = Cardinality(QueuedOf(F, n, p, via))
             + (IF packet = p /\ link = via THEN 1 ELSE 0)
<1> DEFINE k == Len(F) + 1
           A == QueuedOf(F, n, p, via)
<1>1. /\ DOMAIN facts = {1} /\ facts[1].name = "queued"
      /\ facts[1].value.packet = packet /\ facts[1].value.via = link
  BY DEF FactOf, Transfer
<1>2. /\ k \in DOMAIN G /\ k \notin DOMAIN F
      /\ G[k].component = n /\ G[k].name = "queued"
      /\ G[k].value.packet = packet /\ G[k].value.via = link
  BY <1>1 DEF LogGains
<1>3. DOMAIN G = DOMAIN F \cup {k} /\ \A i \in DOMAIN F : G[i] = F[i]
  <2>1. \A i \in DOMAIN F : i \in DOMAIN G /\ G[i] = F[i]
    BY DEF LogGains
  <2>2. \A i \in DOMAIN G \ DOMAIN F : i = k
    BY <1>1 DEF LogGains
  <2> HIDE DEF k
  <2> QED
    BY <1>2, <2>1, <2>2
<1> HIDE DEF k
<1>4. QueuedOf(G, n, p, via) = A \cup (IF packet = p /\ link = via THEN {k} ELSE {})
  BY <1>2, <1>3 DEF QueuedOf
<1>5. k \notin A
  BY <1>2 DEF QueuedOf
<1>6. IsFiniteSet(A) /\ Cardinality(A) \in Nat
  BY QueuedFinite
<1> HIDE DEF A
<1>7. Cardinality(A \cup {k}) = Cardinality(A) + 1
  BY <1>5, <1>6, FS_AddElement
<1>8. CASE packet = p /\ link = via
  BY <1>4, <1>6, <1>7, <1>8 DEF A
<1>9. CASE ~(packet = p /\ link = via)
  <2>1. QueuedOf(G, n, p, via) = A
    BY <1>4, <1>9
  <2> QED
    BY <1>6, <1>9, <2>1 DEF A
<1> QED
  BY <1>8, <1>9

(***************************************************************************)
(* How often it was taken off the link: the answered inputs that take a    *)
(* packet, whose facts tell that it was this one.                          *)
(***************************************************************************)
Outcomes == {"delivered", "blocked", "dropped"}

PacketOf(fact) == IF fact.name = "delivered" THEN fact.value.sent ELSE fact.value.packet

TakesOff(input, via) ==
  /\ input.kind = "deliver" /\ input.selection.action \in {"deliver", "drop"}
  /\ input.selection.via = via

HasTold(F, n, id, packet) ==
  \E i \in DOMAIN F : /\ F[i].component = n /\ F[i].name \in Outcomes
                      /\ F[i].event = id /\ PacketOf(F[i]) = packet

\* The same of the facts of one step.
TellsOf(facts, packet) ==
  \E j \in DOMAIN facts : facts[j].name \in Outcomes /\ PacketOf(facts[j]) = packet

TakenAt(F, P, n, packet, via) ==
  {d \in AnsweredBy(P, n) : /\ TakesOff(P[d].event.payload.value, via)
                            /\ HasTold(F, n, P[d].event.id, packet)}

LEMMA TakenFinite ==
  ASSUME NEW F, NEW P, IsSeq(P), NEW n, NEW p, NEW via
  PROVE  /\ IsFiniteSet(TakenAt(F, P, n, p, via))
         /\ Cardinality(TakenAt(F, P, n, p, via)) \in Nat
<1>1. Len(P) \in Nat /\ DOMAIN P = 1 .. Len(P)
  BY SeqIsFunction
<1>2. TakenAt(F, P, n, p, via) \subseteq 1 .. Len(P) /\ IsFiniteSet(1 .. Len(P))
  BY <1>1, FS_Interval DEF TakenAt, AnsweredBy
<1> QED
  BY <1>2, FS_Subset, FS_CardinalityType

\* Another component answers, or none.
LEMMA TakenKept ==
  ASSUME NEW F, NEW G, NEW P, IsSeq(P), NEW d, NEW n,
         d.event.kind = "component" => d.error # NoError \/ d.event.payload.name # n,
         \A id : \A p : HasTold(G, n, id, p) <=> HasTold(F, n, id, p),
         NEW packet, NEW via
  PROVE  TakenAt(G, Append(P, d), n, packet, via) = TakenAt(F, P, n, packet, via)
<1> DEFINE Q == Append(P, d)
<1>1. AnsweredBy(Q, n) = AnsweredBy(P, n) /\ \A i \in AnsweredBy(P, n) : Q[i] = P[i]
  BY LastKept
<1> HIDE DEF Q
<1>2. TakenAt(G, Q, n, packet, via) = TakenAt(F, P, n, packet, via)
  BY <1>1 DEF TakenAt
<1> QED
  BY <1>2 DEF Q

LEMMA TellsKept ==
  ASSUME NEW F, NEW G, NEW m, NEW e, NEW facts, LogGains(F, G, m, e, facts),
         NEW n, NEW id, m # n \/ e # id, NEW p
  PROVE  HasTold(G, n, id, p) <=> HasTold(F, n, id, p)
<1>1. \A i \in DOMAIN G \ DOMAIN F : ~(G[i].component = n /\ G[i].event = id)
  BY DEF LogGains
<1> QED
  BY <1>1 DEF LogGains, HasTold

\* The answer to an event that no fact and no earlier dispatch bears.
FreshAnswer(F, P, d, n, id) ==
  /\ d.error = NoError /\ d.event.kind = "component" /\ d.event.payload.name = n
  /\ d.event.id = id
  /\ \A i \in DOMAIN F : F[i].event # id
  /\ \A i \in DOMAIN P : P[i].event.id # id

LEMMA TakenMore ==
  ASSUME NEW F, NEW G, NEW P, IsSeq(P), NEW d, NEW n, NEW id, NEW facts,
         LogGains(F, G, n, id, facts), FreshAnswer(F, P, d, n, id),
         NEW packet, NEW via
  PROVE  Cardinality(TakenAt(G, Append(P, d), n, packet, via))
           = Cardinality(TakenAt(F, P, n, packet, via))
             + (IF TakesOff(d.event.payload.value, via) /\ TellsOf(facts, packet)
                THEN 1 ELSE 0)
<1> DEFINE Q == Append(P, d)
           k == Len(P) + 1
           A == TakenAt(F, P, n, packet, via)
           told == TellsOf(facts, packet)
           takes == TakesOff(d.event.payload.value, via)
<1>1. Len(P) \in Nat /\ DOMAIN P = 1 .. Len(P)
  BY SeqIsFunction
<1>2. /\ DOMAIN Q = 1 .. k /\ Q[k] = d /\ \A i \in 1 .. Len(P) : Q[i] = P[i]
  BY AppendIsSeq, SeqIsFunction
<1> HIDE DEF Q
<1>3. ASSUME NEW i \in DOMAIN P
      PROVE  HasTold(G, n, P[i].event.id, packet) <=> HasTold(F, n, P[i].event.id, packet)
  BY TellsKept DEF FreshAnswer
<1>4. HasTold(G, n, id, packet) <=> told
  <2>1. \A i \in DOMAIN F : G[i] = F[i] /\ F[i].event # id
    BY DEF LogGains, FreshAnswer
  <2>2. ASSUME NEW i \in DOMAIN G, G[i].name \in Outcomes, G[i].event = id,
               PacketOf(G[i]) = packet
        PROVE  TellsOf(facts, packet)
    <3>1. PICK j \in DOMAIN facts : i = Len(F) + j
      BY <2>1, <2>2 DEF LogGains
    <3>2. facts[j].name = G[i].name /\ facts[j].value = G[i].value
      BY <3>1 DEF LogGains
    <3>3. PacketOf(facts[j]) = packet
      BY <2>2, <3>2 DEF PacketOf
    <3> QED
      BY <2>2, <3>2, <3>3 DEF TellsOf
  <2>3. ASSUME NEW j \in DOMAIN facts, facts[j].name \in Outcomes,
               PacketOf(facts[j]) = packet
        PROVE  HasTold(G, n, id, packet)
    <3> DEFINE i == Len(F) + j
    <3>1. /\ i \in DOMAIN G /\ G[i].component = n /\ G[i].event = id
          /\ G[i].name = facts[j].name /\ G[i].value = facts[j].value
      BY DEF LogGains
    <3> HIDE DEF i
    <3>2. PacketOf(G[i]) = packet
      BY <2>3, <3>1 DEF PacketOf
    <3> QED
      BY <2>3, <3>1, <3>2 DEF HasTold
  <2> QED
    BY <2>2, <2>3 DEF HasTold, TellsOf
<1> HIDE DEF told
<1>5. AnsweredBy(Q, n) = AnsweredBy(P, n) \cup {k}
  BY <1>1, <1>2 DEF AnsweredBy, FreshAnswer
<1>6. \A i \in AnsweredBy(P, n) : i \in DOMAIN P /\ Q[i] = P[i] /\ i # k
  BY <1>1, <1>2 DEF AnsweredBy
<1> HIDE DEF takes, k
<1>7. TakenAt(G, Q, n, packet, via) = A \cup (IF takes /\ told THEN {k} ELSE {})
  BY <1>2, <1>3, <1>4, <1>5, <1>6 DEF TakenAt, takes, FreshAnswer
<1>8. k \notin A
  BY <1>6 DEF TakenAt
<1>9. IsFiniteSet(A) /\ Cardinality(A) \in Nat
  BY TakenFinite
<1> HIDE DEF A
<1>10. Cardinality(A \cup {k}) = Cardinality(A) + 1
  BY <1>8, <1>9, FS_AddElement
<1>11. CASE takes /\ told
  BY <1>7, <1>9, <1>10, <1>11 DEF A, Q, takes, told
<1>12. CASE ~(takes /\ told)
  <2>1. TakenAt(G, Q, n, packet, via) = A
    BY <1>7, <1>12
  <2> QED
    BY <1>9, <1>12, <2>1 DEF A, Q, takes, told
<1> QED
  BY <1>11, <1>12

-------------------------------------------------------------------------------
(***************************************************************************)
(* What a network's queues, its facts and the answered inputs say of each  *)
(* other: a packet waits as often as it was queued less as often as it was *)
(* taken off.                                                              *)
(***************************************************************************)
InBalance(n, queue, F, P, packet, via) ==
  Cardinality(QueuedOf(F, n, packet, via))
    = Cardinality(Waiting(queue, packet)) + Cardinality(TakenAt(F, P, n, packet, via))

QueuesOK(pending) ==
  DOMAIN pending = Links /\ \A via \in Links : IsSeq(pending[via])

NetOK(n, pending, F, P) ==
  /\ QueuesOK(pending)
  /\ \A via \in Links : \A packet : InBalance(n, pending[via], F, P, packet, via)

LEMMA SortedIsFunction ==
  ASSUME NEW V
  PROVE  Sorted(V) = [i \in DOMAIN Sorted(V) |-> Sorted(V)[i]]
<1> DEFINE Place == [v \in V |-> Cardinality({u \in V : Precedes(u, v)})]
           At(i) == CHOOSE v \in V : Place[v] = i - 1
           f == [i \in 1 .. Cardinality(V) |-> At(i)]
<1>1. Sorted(V) = f
  BY DEF Sorted
<1> HIDE DEF At
<1>2. f = [i \in DOMAIN f |-> f[i]]
  OBVIOUS
<1> QED
  BY <1>1, <1>2

\* Every packet that is taken from a queue is told of, and no other.
LEMMA ReportTells ==
  ASSUME NEW masks, NEW action, NEW packet, NEW via, NEW facts,
         facts = Reported(masks, action, packet, via), facts \in Seq(Fact)
  PROVE  /\ \A j \in DOMAIN facts : /\ facts[j].name \in Outcomes
                                    /\ PacketOf(facts[j]) = packet
         /\ \E j \in DOMAIN facts : TRUE
<1> DEFINE outputs == Sorted(Policies[masks].made[packet])
<1>1. ASSUME NEW name \in {"dropped", "blocked"},
             facts = << FactOf(name, Transfer(packet, via)) >>
      PROVE  /\ DOMAIN facts = {1} /\ facts[1].name \in Outcomes
             /\ PacketOf(facts[1]) = packet
  BY <1>1 DEF FactOf, Transfer, Outcomes, PacketOf
<1>2. CASE action = "drop" \/ outputs = << >>
  BY <1>1, <1>2 DEF Reported
<1>3. CASE action # "drop" /\ outputs # << >>
  <2> DEFINE told == [i \in DOMAIN outputs |->
                        FactOf("delivered", Delivered(outputs[i], packet, via))]
  <2>1. facts = told
    BY <1>3 DEF Reported
  <2>2. ASSUME NEW j \in DOMAIN facts
        PROVE  facts[j].name = "delivered" /\ facts[j].value.sent = packet
    <3>1. facts[j] = FactOf("delivered", Delivered(outputs[j], packet, via))
      BY <2>1, <2>2
    <3> HIDE DEF outputs
    <3> QED
      BY <3>1 DEF FactOf, Delivered
  <2>3. DOMAIN facts = 1 .. Len(facts) /\ Len(facts) \in Nat
    OBVIOUS
  <2>4. DOMAIN outputs = DOMAIN facts
    BY <2>1
  <2>5. outputs = [i \in DOMAIN outputs |-> outputs[i]]
    BY SortedIsFunction
  <2> HIDE DEF outputs
  <2>6. Len(facts) # 0
    <3> SUFFICES ASSUME Len(facts) = 0  PROVE outputs = << >>
      BY <1>3
    <3> DEFINE k == Len(facts)
    <3>1. outputs = [i \in 1 .. k |-> outputs[i]] /\ k \in Nat
      BY <2>3, <2>4, <2>5
    <3> HIDE DEF k
    <3>2. IsSeq(outputs) /\ Len(outputs) = k
      BY <3>1, FunctionIsSeq
    <3> USE DEF k
    <3> QED
      BY <3>2 DEF IsSeq
  <2>7. 1 \in DOMAIN facts
    BY <2>3, <2>6
  <2> QED
    BY <2>2, <2>7 DEF Outcomes, PacketOf
<1> QED
  BY <1>2, <1>3

LEMMA QueuesStay ==
  ASSUME NEW n, NEW pending, NEW F, NEW P, IsSeq(P), NetOK(n, pending, F, P),
         NEW G, NEW d,
         d.event.kind = "component" => d.error # NoError \/ d.event.payload.name # n,
         \A p : \A via : QueuedOf(G, n, p, via) = QueuedOf(F, n, p, via),
         \A id : \A p : HasTold(G, n, id, p) <=> HasTold(F, n, id, p)
  PROVE  NetOK(n, pending, G, Append(P, d))
<1>1. \A p : \A via : TakenAt(G, Append(P, d), n, p, via) = TakenAt(F, P, n, p, via)
  BY TakenKept
<1> QED
  BY <1>1 DEF NetOK, InBalance

(***************************************************************************)
(* One answer of a network to an event that no fact and no earlier         *)
(* dispatch bears.                                                         *)
(***************************************************************************)
LEMMA NetAnswers ==
  ASSUME NEW n, NEW s, NEW u, NEW input, NEW F, NEW P, IsSeq(F), IsSeq(P),
         NetOK(n, s.pending, F, P),
         NEW facts, facts \in Seq(Fact), NetMove(s, u, input, facts),
         NEW G, NEW id, LogGains(F, G, n, id, facts),
         NEW d, FreshAnswer(F, P, d, n, id), d.event.payload.value = input
  PROVE  NetOK(n, u.pending, G, Append(P, d))
<1> DEFINE Q == Append(P, d)
<1>1. ASSUME NEW p, NEW via
      PROVE  /\ Cardinality(QueuedOf(F, n, p, via)) \in Nat
             /\ Cardinality(TakenAt(F, P, n, p, via)) \in Nat
             /\ via \in Links =>
                  /\ Cardinality(Waiting(s.pending[via], p)) \in Nat
                  /\ InBalance(n, s.pending[via], F, P, p, via)
             /\ Cardinality(TakenAt(G, Q, n, p, via))
                  = Cardinality(TakenAt(F, P, n, p, via))
                    + (IF TakesOff(input, via) /\ TellsOf(facts, p) THEN 1 ELSE 0)
  <2>1. via \in Links => IsSeq(s.pending[via]) /\ InBalance(n, s.pending[via], F, P, p, via)
    BY DEF NetOK, QueuesOK
  <2>2. Cardinality(TakenAt(G, Q, n, p, via))
          = Cardinality(TakenAt(F, P, n, p, via))
            + (IF TakesOff(input, via) /\ TellsOf(facts, p) THEN 1 ELSE 0)
    <3>1. Cardinality(TakenAt(G, Append(P, d), n, p, via))
            = Cardinality(TakenAt(F, P, n, p, via))
              + (IF TakesOff(d.event.payload.value, via) /\ TellsOf(facts, p)
                 THEN 1 ELSE 0)
      BY TakenMore
    <3> QED
      BY <3>1
  <2> HIDE DEF Q
  <2> QED
    BY <2>1, <2>2, QueuedFinite, TakenFinite, WaitingFinite
<1> HIDE DEF Q
<1>2. QueuesOK(s.pending)
  BY DEF NetOK
<1>3. CASE Sends(s, u, input, facts)
  <2> DEFINE x == input.packet
             at == input.via
  <2>1. /\ input.kind = "send" /\ at \in Links
        /\ facts = << FactOf("queued", Transfer(x, at)) >>
    BY <1>3 DEF Sends
  <2>2. u.pending = [s.pending EXCEPT ![at] = Append(@, x)]
    BY <1>3 DEF Sends
  <2> HIDE DEF x, at
  <2>3. /\ DOMAIN u.pending = Links /\ u.pending[at] = Append(s.pending[at], x)
        /\ \A via \in Links : via # at => u.pending[via] = s.pending[via]
    BY <1>2, <2>1, <2>2 DEF QueuesOK
  <2>4. IsSeq(s.pending[at]) /\ IsSeq(u.pending[at])
    BY <1>2, <2>1, <2>3, AppendIsSeq DEF QueuesOK
  <2>5. QueuesOK(u.pending)
    BY <1>2, <2>3, <2>4 DEF QueuesOK
  <2>6. \A via : ~TakesOff(input, via)
    BY <2>1 DEF TakesOff
  <2>7. ASSUME NEW via \in Links, NEW p  PROVE InBalance(n, u.pending[via], G, Q, p, via)
    <3>1. Cardinality(QueuedOf(G, n, p, via))
            = Cardinality(QueuedOf(F, n, p, via)) + (IF x = p /\ at = via THEN 1 ELSE 0)
      BY <2>1, QueuedMore
    <3>2. Cardinality(Waiting(u.pending[via], p))
            = Cardinality(Waiting(s.pending[via], p)) + (IF x = p /\ at = via THEN 1 ELSE 0)
      <4>1. CASE via = at
        <5>1. Cardinality(Waiting(Append(s.pending[at], x), p))
                = Cardinality(Waiting(s.pending[at], p)) + (IF x = p THEN 1 ELSE 0)
          BY <2>4, WaitingMore
        <5> QED
          BY <2>3, <4>1, <5>1
      <4>2. CASE via # at
        <5>1. u.pending[via] = s.pending[via]
          BY <2>3, <4>2
        <5>2. Cardinality(Waiting(s.pending[via], p)) \in Nat
          BY <1>1
        <5> QED
          BY <4>2, <5>1, <5>2
      <4> QED
        BY <4>1, <4>2
    <3> QED
      BY <1>1, <2>6, <3>1, <3>2 DEF InBalance
  <2> QED
    BY <2>5, <2>7 DEF NetOK, Q
<1>4. CASE Takes(s, u, input, facts)
  <2> DEFINE sel == input.selection
             at == sel.via
             k == sel.index + 1
             x == s.pending[at][k]
  <2>1. /\ input.kind = "deliver" /\ at \in Links /\ sel.index \in 0 .. Len(s.pending[at]) - 1
        /\ sel.action \in {"deliver", "drop", "duplicate"}
        /\ facts = Reported(s.masks, sel.action, x, at)
    BY <1>4 DEF Takes
  <2>2. u.pending = IF sel.action = "duplicate" THEN s.pending
                    ELSE [s.pending EXCEPT ![at] = RemoveAt(@, k)]
    BY <1>4 DEF Takes
  <2>3. IsSeq(s.pending[at])
    BY <1>2, <2>1 DEF QueuesOK
  <2>4. k \in 1 .. Len(s.pending[at])
    <3>1. Len(s.pending[at]) \in Nat
      BY <2>3, SeqIsFunction
    <3> QED
      BY <2>1, <3>1
  <2> HIDE DEF x, k
  <2>5. /\ \A j \in DOMAIN facts : /\ facts[j].name \in Outcomes
                                   /\ PacketOf(facts[j]) = x
        /\ \E j \in DOMAIN facts : TRUE
    BY <2>1, ReportTells
  <2>6. \A p : TellsOf(facts, p) <=> p = x
    BY <2>5 DEF TellsOf
  <2>7. \A p : \A via : QueuedOf(G, n, p, via) = QueuedOf(F, n, p, via)
    BY <2>5, QueuedKept DEF Outcomes
  <2>8. CASE sel.action = "duplicate"
    <3>1. \A via : ~TakesOff(input, via)
      BY <2>8 DEF TakesOff
    <3>2. \A via \in Links : \A p : InBalance(n, u.pending[via], G, Q, p, via)
      BY <1>1, <2>2, <2>7, <2>8, <3>1 DEF InBalance
    <3> QED
      BY <1>2, <2>2, <2>8, <3>2 DEF NetOK, Q
  <2>9. CASE sel.action # "duplicate"
    <3>1. \A via : TakesOff(input, via) <=> via = at
      BY <2>1, <2>9 DEF TakesOff
    <3>2. u.pending = [s.pending EXCEPT ![at] = RemoveAt(@, k)]
      BY <2>2, <2>9
    <3> HIDE DEF at
    <3>3. /\ DOMAIN u.pending = Links /\ u.pending[at] = RemoveAt(s.pending[at], k)
          /\ \A via \in Links : via # at => u.pending[via] = s.pending[via]
      BY <1>2, <2>1, <3>2 DEF QueuesOK
    <3>4. IsSeq(u.pending[at])
      BY <2>3, <2>4, <3>3, RemoveAtIsSeq
    <3>5. QueuesOK(u.pending)
      BY <1>2, <3>3, <3>4 DEF QueuesOK
    <3>6. ASSUME NEW via \in Links, NEW p  PROVE InBalance(n, u.pending[via], G, Q, p, via)
      <4>1. CASE via = at
        <5>1. Cardinality(Waiting(s.pending[at], p))
                = Cardinality(Waiting(RemoveAt(s.pending[at], k), p))
                  + (IF x = p THEN 1 ELSE 0)
          BY <2>3, <2>4, WaitingLess DEF x
        <5>2. Cardinality(Waiting(u.pending[at], p)) \in Nat
          BY <3>4, WaitingFinite
        <5>3. Cardinality(TakenAt(G, Q, n, p, via))
                = Cardinality(TakenAt(F, P, n, p, via)) + (IF x = p THEN 1 ELSE 0)
          BY <1>1, <2>6, <3>1, <4>1
        <5> QED
          BY <1>1, <2>7, <3>3, <4>1, <5>1, <5>2, <5>3 DEF InBalance
      <4>2. CASE via # at
        BY <1>1, <2>7, <3>1, <3>3, <4>2 DEF InBalance
      <4> QED
        BY <4>1, <4>2
    <3> QED
      BY <3>5, <3>6 DEF NetOK, Q
  <2> QED
    BY <2>8, <2>9
<1>5. ASSUME u.pending = s.pending, input.kind # "deliver",
             \A j \in DOMAIN facts : facts[j].name # "queued"
      PROVE  NetOK(n, u.pending, G, Append(P, d))
  <2>1. \A via : ~TakesOff(input, via)
    BY <1>5 DEF TakesOff
  <2>2. \A p : \A via : QueuedOf(G, n, p, via) = QueuedOf(F, n, p, via)
    BY <1>5, QueuedKept
  <2>3. \A via \in Links : \A p : InBalance(n, u.pending[via], G, Q, p, via)
    BY <1>1, <1>5, <2>1, <2>2 DEF InBalance
  <2> QED
    BY <1>2, <1>5, <2>3 DEF NetOK, Q
<1>6. CASE Installs(s, u, input, facts) \/ Removes(s, u, input, facts)
  <2>1. u.pending = s.pending /\ input.kind # "deliver"
    BY <1>6 DEF Installs, Removes
  <2>2. \A j \in DOMAIN facts : facts[j].name # "queued"
    <3>1. PICK name \in {"masked", "unmasked"} : \E id_1 :
             facts = << FactOf(name, [id |-> id_1]) >>
      BY <1>6 DEF Installs, Removes
    <3>2. DOMAIN facts = {1} /\ facts[1].name = name
      BY <3>1 DEF FactOf
    <3> QED
      BY <3>2
  <2> QED
    BY <1>5, <2>1, <2>2
<1>7. CASE Polls(s, u, input, facts)
  BY <1>5, <1>7 DEF Polls
<1> QED
  BY <1>3, <1>4, <1>6, <1>7 DEF NetMove

-------------------------------------------------------------------------------
(***************************************************************************)
(* No two dispatches bear one identifier, and every fact bears that of a   *)
(* dispatch: the event of the next answer is fresh.                        *)
(***************************************************************************)
LEMMA IdentifiersDistinct ==
  ASSUME NEW P, IsSeq(P), NEW q, IsSeq(q), NEW N, Len(P) + Len(q) = N,
         {d.event.id : d \in ToSet(P)} \cup {e.id : e \in ToSet(q)} = 0 .. N - 1,
         NEW i \in DOMAIN P, NEW j \in DOMAIN P, P[i].event.id = P[j].event.id
  PROVE  i = j
<1> DEFINE k == Len(P)
           g == [x \in 1 .. N |-> IF x <= k THEN P[x].event.id ELSE q[x - k].id]
<1>1. /\ k \in Nat /\ DOMAIN P = 1 .. k
      /\ Len(q) \in Nat /\ DOMAIN q = 1 .. Len(q) /\ N \in Nat
  BY SeqIsFunction
<1>2. ASSUME NEW x \in 1 .. k  PROVE x \in 1 .. N /\ g[x] = P[x].event.id
  BY <1>1
<1>3. ASSUME NEW x \in 1 .. Len(q)  PROVE x + k \in 1 .. N /\ g[x + k] = q[x].id
  <2>1. x + k \in 1 .. N /\ ~(x + k <= k) /\ (x + k) - k = x
    BY <1>1
  <2>2. g[x + k] = q[(x + k) - k].id
    BY <2>1
  <2> QED
    BY <2>1, <2>2
<1>4. ASSUME NEW x \in 1 .. N  PROVE g[x] \in 0 .. N - 1
  <2>1. CASE x <= k
    <3>1. x \in 1 .. k
      BY <1>1, <2>1
    <3>2. P[x] \in ToSet(P)
      BY <1>1, <3>1 DEF ToSet
    <3> QED
      BY <1>2, <3>1, <3>2
  <2>2. CASE ~(x <= k)
    <3>1. x - k \in 1 .. Len(q) /\ (x - k) + k = x
      BY <1>1, <2>2
    <3>2. q[x - k] \in ToSet(q)
      BY <1>1, <3>1 DEF ToSet
    <3>3. g[x] = q[x - k].id
      BY <1>3, <3>1
    <3> QED
      BY <3>2, <3>3
  <2> QED
    BY <2>1, <2>2
<1>5. ASSUME NEW y \in 0 .. N - 1  PROVE \E x \in 1 .. N : g[x] = y
  <2>1. CASE \E d \in ToSet(P) : y = d.event.id
    <3>1. PICK x \in 1 .. k : y = P[x].event.id
      BY <1>1, <2>1 DEF ToSet
    <3> QED
      BY <1>2, <3>1
  <2>2. CASE \E e \in ToSet(q) : y = e.id
    <3>1. PICK x \in 1 .. Len(q) : y = q[x].id
      BY <1>1, <2>2 DEF ToSet
    <3> QED
      BY <1>3, <3>1
  <2> QED
    BY <2>1, <2>2
<1>6. g \in [1 .. N -> 0 .. N - 1]
  <2> DEFINE At(x) == IF x <= k THEN P[x].event.id ELSE q[x - k].id
  <2>1. \A x \in 1 .. N : g[x] = At(x)
    OBVIOUS
  <2>2. \A x \in 1 .. N : At(x) \in 0 .. N - 1
    BY <1>4, <2>1
  <2>3. g = [x \in 1 .. N |-> At(x)]
    OBVIOUS
  <2> HIDE DEF g, At
  <2> QED
    BY <2>2, <2>3
<1> HIDE DEF g
<1>7. g \in Surjection(1 .. N, 0 .. N - 1)
  BY <1>5, <1>6 DEF Surjection
<1>8. /\ IsFiniteSet(1 .. N) /\ Cardinality(1 .. N) = N
      /\ IsFiniteSet(0 .. N - 1) /\ Cardinality(0 .. N - 1) = N
  <2>1. 1 \in Int /\ N \in Int /\ 0 \in Int /\ N - 1 \in Int
    BY <1>1
  <2>2. Cardinality(1 .. N) = (IF 1 > N THEN 0 ELSE N - 1 + 1) /\ IsFiniteSet(1 .. N)
    BY <2>1, FS_Interval
  <2>3. /\ Cardinality(0 .. N - 1) = (IF 0 > N - 1 THEN 0 ELSE N - 1 - 0 + 1)
        /\ IsFiniteSet(0 .. N - 1)
    BY <2>1, FS_Interval
  <2> QED
    BY <1>1, <2>2, <2>3
<1>9. g \in Injection(1 .. N, 0 .. N - 1)
  BY <1>7, <1>8, FS_SurjSameCardinalityImpliesInj
<1>10. i \in 1 .. k /\ j \in 1 .. k
  BY <1>1
<1> HIDE DEF k
<1>11. i \in 1 .. N /\ j \in 1 .. N /\ g[i] = g[j]
  BY <1>2, <1>10
<1> QED
  BY <1>9, <1>11 DEF Injection, IsInjective

FactsDated(F, P) ==
  \A i \in DOMAIN F : \E j \in DOMAIN P : P[j].event.id = F[i].event

LEMMA NextIsNew ==
  ASSUME QueueInv, QueueInv', FactsDated(world.facts, dispatched),
         NEW d, dispatched' = Append(dispatched, d)
  PROVE  /\ \A i \in DOMAIN world.facts : world.facts[i].event # d.event.id
         /\ \A i \in DOMAIN dispatched : dispatched[i].event.id # d.event.id
<1> DEFINE Q == Append(dispatched, d)
           k == Len(dispatched) + 1
<1>1. IsSeq(dispatched) /\ IsSeq(Q)
  BY DEF QueueInv, PastOK
<1>2. IsSeq(world'.pending)
  BY DEF QueueInv, WorldOK, Queue
<1>3. /\ {x.event.id : x \in ToSet(Q)} \cup {e.id : e \in ToSet(world'.pending)}
           = 0 .. world'.nextId - 1
      /\ Len(Q) + Len(world'.pending) = world'.nextId
  BY DEF QueueInv, Identifiers, Pending
<1>4. /\ Len(dispatched) \in Nat /\ DOMAIN dispatched = 1 .. Len(dispatched)
      /\ DOMAIN Q = 1 .. k /\ Q[k] = d
      /\ \A i \in 1 .. Len(dispatched) : Q[i] = dispatched[i]
  BY <1>1, AppendIsSeq, SeqIsFunction
<1> HIDE DEF Q
<1>5. \A i \in DOMAIN Q : \A j \in DOMAIN Q : Q[i].event.id = Q[j].event.id => i = j
  BY <1>1, <1>2, <1>3, IdentifiersDistinct
<1>6. \A i \in DOMAIN dispatched : dispatched[i].event.id # d.event.id
  BY <1>4, <1>5
<1> HIDE DEF k
<1> QED
  BY <1>6 DEF FactsDated

LEMMA NextIsFresh ==
  ASSUME QueueInv, QueueInv', FactsDated(world.facts, dispatched),
         NEW d, dispatched' = Append(dispatched, d), NEW n, NEW at, NEW choices,
         NEW id, Answered(d, n, at, id, choices)
  PROVE  FreshAnswer(world.facts, dispatched, d, n, id)
BY NextIsNew DEF FreshAnswer, Answered

\* A later dispatch leaves the earlier ones where they are.
LEMMA DatedKept ==
  ASSUME NEW F, NEW P, IsSeq(P), FactsDated(F, P), NEW d
  PROVE  FactsDated(F, Append(P, d))
<1>1. /\ DOMAIN P \subseteq DOMAIN Append(P, d)
      /\ \A i \in DOMAIN P : Append(P, d)[i] = P[i]
  <2>1. Len(P) \in Nat /\ DOMAIN P = 1 .. Len(P)
    BY SeqIsFunction
  <2>2. DOMAIN Append(P, d) = 1 .. Len(P) + 1
    BY AppendIsSeq, SeqIsFunction
  <2> QED
    BY <2>1, <2>2, AppendIsSeq
<1> QED
  BY <1>1 DEF FactsDated

LEMMA DatedMore ==
  ASSUME NEW F, NEW G, NEW P, IsSeq(P), FactsDated(F, P), NEW n, NEW id, NEW facts,
         LogGains(F, G, n, id, facts), NEW d, d.event.id = id
  PROVE  FactsDated(G, Append(P, d))
<1> DEFINE Q == Append(P, d)
<1>1. FactsDated(F, Q)
  BY DatedKept
<1>2. Len(P) + 1 \in DOMAIN Q /\ Q[Len(P) + 1].event.id = id
  <2>1. Len(P) \in Nat
    BY SeqIsFunction
  <2>2. DOMAIN Q = 1 .. Len(P) + 1 /\ Q[Len(P) + 1] = d
    BY AppendIsSeq, SeqIsFunction
  <2> QED
    BY <2>1, <2>2
<1> HIDE DEF Q
<1>3. FactsDated(G, Q)
  <2> SUFFICES ASSUME NEW i \in DOMAIN G
               PROVE  \E j \in DOMAIN Q : Q[j].event.id = G[i].event
    BY DEF FactsDated
  <2>1. CASE i \in DOMAIN F
    BY <1>1, <2>1 DEF FactsDated, LogGains
  <2>2. CASE i \notin DOMAIN F
    <3>1. G[i].event = id
      BY <2>2 DEF LogGains
    <3> QED
      BY <1>2, <3>1
  <2> QED
    BY <2>1, <2>2
<1> QED
  BY <1>3 DEF Q

-------------------------------------------------------------------------------
(***************************************************************************)
(* The inductive invariant of every network.                               *)
(***************************************************************************)
NetInv ==
  /\ IsSeq(world.facts) /\ FactsDated(world.facts, dispatched)
  /\ \A n \in OfKind("net") :
       NetOK(n, world.states[n].pending, world.facts, dispatched)

LEMMA NetInit ==
  ASSUME NetServed, Init
  PROVE  NetInv
<1>1. world.facts = << >> /\ dispatched = << >> /\ world.states = InitState
  BY DEF Init, InitialWorld
<1>2. IsSeq(<< >>) /\ DOMAIN << >> = {}
  <2>1. << >> \in Seq({}) /\ DOMAIN << >> = {}
    OBVIOUS
  <2> QED
    BY <2>1 DEF IsSeq
<1>3. ASSUME NEW n \in OfKind("net")
      PROVE  NetOK(n, world.states[n].pending, << >>, << >>)
  <2> DEFINE pending == world.states[n].pending
  <2>1. pending = [via \in Links |-> << >>]
    BY <1>1 DEF NetServed, NetInitial, NetState
  <2> HIDE DEF pending
  <2>2. ASSUME NEW via \in Links, NEW p
        PROVE  InBalance(n, pending[via], << >>, << >>, p, via)
    <3>1. Waiting(pending[via], p) = {}
      BY <1>2, <2>1 DEF Waiting
    <3>2. QueuedOf(<< >>, n, p, via) = {}
      BY <1>2 DEF QueuedOf
    <3>3. TakenAt(<< >>, << >>, n, p, via) = {}
      BY <1>2 DEF TakenAt, AnsweredBy
    <3>4. Cardinality({}) = 0 /\ 0 = 0 + 0
      BY FS_EmptySet
    <3> QED
      BY <3>1, <3>2, <3>3, <3>4 DEF InBalance
  <2>3. QueuesOK(pending)
    BY <1>2, <2>1 DEF QueuesOK
  <2> QED
    BY <2>2, <2>3 DEF NetOK, pending
<1>4. FactsDated(<< >>, << >>)
  BY <1>2 DEF FactsDated
<1> QED
  BY <1>1, <1>2, <1>3, <1>4 DEF NetInv

LEMMA NetInvStep ==
  ASSUME NetServed, QueueInv, QueueInv', TypedInv, NetInv, [Next]_vars
  PROVE  NetInv'
<1>1. IsSeq(dispatched) /\ IsSeq(world.facts) /\ FactsDated(world.facts, dispatched)
  BY DEF QueueInv, PastOK, NetInv
<1>2. DOMAIN world.states = Names
  BY DEF TypedInv, WorldTyped
<1>3. CASE Unheard
  <2>1. world'.facts = world.facts /\ world'.states = world.states
    BY <1>3 DEF Unheard
  <2>2. CASE dispatched' = dispatched
    BY <2>1, <2>2 DEF NetInv
  <2>3. ASSUME NEW d, dispatched' = Append(dispatched, d),
               d.event.kind = "component" => d.error # NoError
        PROVE  NetInv'
    <3>1. FactsDated(world'.facts, dispatched')
      BY <1>1, <2>1, <2>3, DatedKept
    <3>2. ASSUME NEW n \in OfKind("net")
          PROVE  NetOK(n, world'.states[n].pending, world'.facts, dispatched')
      <4>1. NetOK(n, world.states[n].pending, world.facts, dispatched)
        BY DEF NetInv
      <4>2. NetOK(n, world.states[n].pending, world.facts, Append(dispatched, d))
        BY <1>1, <2>3, <4>1, QueuesStay
      <4> QED
        BY <2>1, <2>3, <4>2
    <3> QED
      BY <1>1, <2>1, <3>1, <3>2 DEF NetInv
  <2> QED
    BY <1>3, <2>2, <2>3 DEF Unheard
<1>4. ASSUME NEW m, NEW value, NEW at, NEW id, NEW step, Heard(m, value, at, id, step)
      PROVE  NetInv'
  <2> DEFINE facts == step.facts
             F == world.facts
             G == F \o Stamp(id, at, m, facts)
  <2>1. PICK d : /\ dispatched' = Append(dispatched, d)
                 /\ Answered(d, m, at, id, step.choices) /\ d.event.payload.value = value
    BY <1>4 DEF Heard
  <2>2. /\ m \in Names /\ world'.facts = G /\ facts \in Seq(Fact)
        /\ step.type \notin {"raise", "error"}
        /\ step = Handler(m, world.states[m], value, at)
        /\ world'.states = [world.states EXCEPT ![m] = step.state]
    BY <1>4 DEF Heard
  <2>3. IsSeq(facts)
    BY <2>2 DEF IsSeq
  <2> HIDE DEF facts, F
  <2>4. IsSeq(G) /\ LogGains(F, G, m, id, facts)
    BY <1>1, <2>3, FactsGrow DEF F
  <2> HIDE DEF G
  <2>5. FreshAnswer(F, dispatched, d, m, id)
    BY <1>1, <2>1, NextIsFresh DEF F
  <2>6. FactsDated(world'.facts, dispatched')
    BY <1>1, <2>1, <2>2, <2>4, <2>5, DatedMore DEF FreshAnswer, F
  <2>7. ASSUME NEW n \in OfKind("net")
        PROVE  NetOK(n, world'.states[n].pending, world'.facts, dispatched')
    <3>1. NetOK(n, world.states[n].pending, F, dispatched)
      BY DEF NetInv, F
    <3>2. CASE n = m
      <4> DEFINE s == world.states[n]
                 u == step.state
      <4>1. world'.states[n] = u
        BY <1>2, <2>2, <3>2
      <4>2. step = NetStep(s, value)
        BY <2>2, <3>2 DEF NetServed
      <4>3. NetMove(s, u, value, facts)
        BY <2>2, <4>2, NetMoves DEF facts
      <4> HIDE DEF s, u
      <4>4. LogGains(F, G, n, id, facts) /\ FreshAnswer(F, dispatched, d, n, id)
        BY <2>4, <2>5, <3>2
      <4>5. NetOK(n, s.pending, F, dispatched)
        BY <3>1 DEF s
      <4>6. NetOK(n, u.pending, G, Append(dispatched, d))
        BY <1>1, <2>1, <2>2, <4>3, <4>4, <4>5, NetAnswers DEF F
      <4> QED
        BY <2>1, <2>2, <4>1, <4>6
    <3>3. CASE n # m
      <4>1. world'.states[n] = world.states[n]
        BY <2>2, <3>3 DEF OfKind
      <4>2. d.event.kind = "component" => d.error # NoError \/ d.event.payload.name # n
        BY <2>1, <3>3 DEF Answered
      <4>3. \A p : \A via : QueuedOf(G, n, p, via) = QueuedOf(F, n, p, via)
        BY <2>4, <3>3, QueuedKept
      <4>4. \A x : \A p : HasTold(G, n, x, p) <=> HasTold(F, n, x, p)
        BY <2>4, <3>3, TellsKept
      <4>5. NetOK(n, world.states[n].pending, G, Append(dispatched, d))
        BY <1>1, <3>1, <4>2, <4>3, <4>4, QueuesStay
      <4> QED
        BY <2>1, <2>2, <4>1, <4>5
    <3> QED
      BY <3>2, <3>3
  <2> QED
    BY <2>2, <2>4, <2>6, <2>7 DEF NetInv
<1> QED
  BY <1>3, <1>4, StepIsHeard

(***************************************************************************)
(* Packets are conserved in every world in which the networks are served   *)
(* by the network model (urdr.model.net.step-decoded, net.shen): whatever  *)
(* the policies make of the packets, the masks that come and go, the other *)
(* components and the caller, a packet waits on a link as often as it was  *)
(* queued there less as often as it was delivered or dropped from it.      *)
(***************************************************************************)
THEOREM PacketsAreConserved ==
  ASSUME NetServed
  PROVE  Spec => []PacketsConserved
<1>1. QueueInv /\ NetInv => PacketsConserved
  <2> SUFFICES ASSUME QueueInv, NetInv, NEW n \in OfKind("net"),
                      NEW via \in Links, NEW packet
               PROVE  LET queue  == world.states[n].pending[via]
                          queued == {i \in FactsBy(n, {"queued"}) :
                                       /\ Facts[i].value.packet = packet
                                       /\ Facts[i].value.via = via}
                      IN  Cardinality({i \in DOMAIN queue : queue[i] = packet})
                            = Cardinality(queued) - Cardinality(TakenOff(n, packet, via))
    BY DEF PacketsConserved
  <2> DEFINE F == world.facts
             P == dispatched
             queue == world.states[n].pending[via]
             queued == {i \in FactsBy(n, {"queued"}) :
                          /\ Facts[i].value.packet = packet /\ Facts[i].value.via = via}
  <2>1. /\ IsSeq(F) /\ IsSeq(P) /\ IsSeq(queue)
        /\ InBalance(n, queue, F, P, packet, via)
    BY DEF NetInv, NetOK, QueuesOK, QueueInv, PastOK
  <2>2. queued = QueuedOf(F, n, packet, via)
    BY DEF FactsBy, Facts, QueuedOf
  <2>3. {i \in DOMAIN queue : queue[i] = packet} = Waiting(queue, packet)
    BY DEF Waiting
  <2>4. TakenOff(n, packet, via) = TakenAt(F, P, n, packet, via)
    <3>1. MenusOf(n) = AnsweredBy(P, n)
      BY DEF MenusOf, AnsweredBy
    <3>2. \A d : (\E i \in FactsBy(n, {"delivered", "blocked", "dropped"}) :
                    /\ Facts[i].event = P[d].event.id /\ OutcomeOf(i) = packet)
                 <=> HasTold(F, n, P[d].event.id, packet)
      BY DEF FactsBy, Facts, HasTold, Outcomes, OutcomeOf, PacketOf
    <3> QED
      BY <3>1, <3>2 DEF TakenOff, TakenAt, TakesOff
  <2> HIDE DEF F, P, queue, queued
  <2>5. /\ Cardinality(QueuedOf(F, n, packet, via)) \in Nat
        /\ Cardinality(TakenAt(F, P, n, packet, via)) \in Nat
        /\ Cardinality(Waiting(queue, packet)) \in Nat
    BY <2>1, QueuedFinite, TakenFinite, WaitingFinite
  <2>6. Cardinality(Waiting(queue, packet))
          = Cardinality(queued) - Cardinality(TakenOff(n, packet, via))
    BY <2>1, <2>2, <2>4, <2>5 DEF InBalance
  <2> QED
    BY <2>3, <2>6 DEF queue, queued
<1>2. Init => NetInv
  BY NetInit
<1>3. QueueInv /\ QueueInv' /\ TypedInv /\ NetInv /\ [Next]_vars => NetInv'
  BY NetInvStep
<1>4. Spec => [](QueueInv /\ TypedInv /\ NetInv)
  BY <1>2, <1>3, QueueInvInit, QueueInvStep, TypedInit, TypedStep, PTL DEF Spec
<1> QED
  BY <1>1, <1>4, PTL

-------------------------------------------------------------------------------
(***************************************************************************)
(* The menus of networks and fault models.  What was published last is the *)
(* menu of the state there is, since nothing changes the state but an      *)
(* answer, and an answered network has a policy.                           *)
(***************************************************************************)
FaultServed ==
  \A n \in OfKind("fault") :
    /\ InitState[n] = FaultInitial
    /\ \A s : \A v : \A t : Handler(n, s, v, t) = FaultStep(s, v)

OfMenus == OfKind("fault") \cup OfKind("net")

Standing(n, s, choices) ==
  IF KindOf[n] = "fault" THEN choices = FaultChoices(s.active)
  ELSE /\ choices = NetChoices(s.pending) /\ Policies[s.masks].code = "ok"
       /\ s = NetState(s.masks, s.pending)

LastPublishes(n, s, P) ==
  AnsweredBy(P, n) # {} =>
    \E i, id, at, choices : /\ IsLast(P, n, i)
                            /\ P[i].choices = Publish(id, at, n, choices)
                            /\ Standing(n, s, choices)

MenusInv ==
  \A n \in OfMenus : LastPublishes(n, world.states[n], dispatched)

LEMMA FaultMoves ==
  ASSUME NEW s, NEW input, FaultStep(s, input).type \notin {"raise", "error"}
  PROVE  LET step == FaultStep(s, input)
         IN  step.choices = FaultChoices(step.state.active)
<1> DEFINE step == FaultStep(s, input)
<1>1. \A code : ModelFails(code).type = "error"
  BY DEF ModelFails, Fails
<1>2. ASSUME NEW active, NEW facts, step = FaultResult(active, facts)
      PROVE  step.choices = FaultChoices(step.state.active)
  BY <1>2 DEF FaultResult, Steps, FaultState
<1>3. CASE input.operation = "poll"
  <2>1. step = FaultResult(s.active, << >>)
    BY <1>3 DEF FaultStep
  <2> HIDE DEF step
  <2> QED
    BY <1>2, <2>1 DEF step
<1>4. CASE input.operation = "activate"
  <2> DEFINE d == input.domain
  <2>1. step = Activate(s.active, d, input.kind)
    BY <1>1, <1>4 DEF FaultStep
  <2>2. \E active, facts : step = FaultResult(active, facts)
    BY <1>1, <2>1 DEF Activate
  <2> HIDE DEF step
  <2> QED
    BY <1>2, <2>2 DEF step
<1>5. CASE input.operation = "deactivate"
  <2> DEFINE d == input.domain
  <2>1. step = Deactivate(s.active, d, input.kind)
    BY <1>1, <1>5 DEF FaultStep
  <2>2. \E active, facts : step = FaultResult(active, facts)
    BY <1>1, <2>1 DEF Deactivate
  <2> HIDE DEF step
  <2> QED
    BY <1>2, <2>2 DEF step
<1>6. CASE input.operation \notin {"poll", "activate", "deactivate"}
  <2>1. step.type = "error"
    BY <1>1, <1>6 DEF FaultStep
  <2> QED
    BY <2>1
<1> QED
  BY <1>3, <1>4, <1>5, <1>6

LEMMA MenusInit ==
  ASSUME Init
  PROVE  MenusInv
<1>1. dispatched = << >> /\ DOMAIN << >> = {}
  BY DEF Init
<1>2. \A n : AnsweredBy(dispatched, n) = {}
  BY <1>1 DEF AnsweredBy
<1> QED
  BY <1>2 DEF MenusInv, LastPublishes

LEMMA PublishedStays ==
  ASSUME NEW P, IsSeq(P), NEW d, NEW n, NEW s, LastPublishes(n, s, P),
         d.event.kind = "component" => d.error # NoError \/ d.event.payload.name # n
  PROVE  LastPublishes(n, s, Append(P, d))
<1> DEFINE Q == Append(P, d)
<1>1. AnsweredBy(Q, n) = AnsweredBy(P, n) /\ \A i \in AnsweredBy(P, n) : Q[i] = P[i]
  BY LastKept
<1> HIDE DEF Q
<1> SUFFICES ASSUME AnsweredBy(Q, n) # {}
             PROVE  \E i, id, at, choices : /\ IsLast(Q, n, i)
                                            /\ Q[i].choices = Publish(id, at, n, choices)
                                            /\ Standing(n, s, choices)
  BY DEF LastPublishes, Q
<1>2. PICK i, id, at, choices : /\ IsLast(P, n, i)
                                /\ P[i].choices = Publish(id, at, n, choices)
                                /\ Standing(n, s, choices)
  BY <1>1 DEF LastPublishes
<1>3. IsLast(Q, n, i) /\ Q[i] = P[i]
  BY <1>1, <1>2 DEF IsLast
<1> QED
  BY <1>2, <1>3

LEMMA PublishedMoves ==
  ASSUME NEW P, IsSeq(P), NEW d, NEW n, NEW at, NEW id, NEW choices,
         Answered(d, n, at, id, choices), NEW s, Standing(n, s, choices)
  PROVE  LastPublishes(n, s, Append(P, d))
<1> DEFINE Q == Append(P, d)
           i == Len(P) + 1
<1>1. IsLast(Q, n, i)
  BY LastMoves DEF Answered
<1>2. Q[i] = d
  BY LastMoves DEF Answered
<1> HIDE DEF Q, i
<1>3. Q[i].choices = Publish(id, at, n, choices)
  BY <1>2 DEF Answered
<1>4. LastPublishes(n, s, Q)
  BY <1>1, <1>3 DEF LastPublishes
<1> QED
  BY <1>4 DEF Q

LEMMA MenusInvStep ==
  ASSUME NetServed, FaultServed, QueueInv, TypedInv, MenusInv, [Next]_vars
  PROVE  MenusInv'
<1>1. IsSeq(dispatched) /\ DOMAIN world.states = Names
  BY DEF QueueInv, PastOK, TypedInv, WorldTyped
<1>2. CASE Unheard
  <2>1. world'.states = world.states
    BY <1>2 DEF Unheard
  <2>2. CASE dispatched' = dispatched
    BY <2>1, <2>2 DEF MenusInv
  <2>3. ASSUME NEW d, dispatched' = Append(dispatched, d),
               d.event.kind = "component" => d.error # NoError
        PROVE  MenusInv'
    <3>1. ASSUME NEW n \in OfMenus
          PROVE  LastPublishes(n, world.states[n], Append(dispatched, d))
      BY <1>1, <2>3, PublishedStays DEF MenusInv
    <3> QED
      BY <2>1, <2>3, <3>1 DEF MenusInv
  <2> QED
    BY <1>2, <2>2, <2>3 DEF Unheard
<1>3. ASSUME NEW m, NEW value, NEW at, NEW id, NEW step, Heard(m, value, at, id, step)
      PROVE  MenusInv'
  <2>1. PICK d : /\ dispatched' = Append(dispatched, d)
                 /\ Answered(d, m, at, id, step.choices)
    BY <1>3 DEF Heard
  <2>2. /\ m \in Names /\ step.type \notin {"raise", "error"}
        /\ step = Handler(m, world.states[m], value, at)
        /\ world'.states = [world.states EXCEPT ![m] = step.state]
    BY <1>3 DEF Heard
  <2>3. ASSUME NEW n \in OfMenus
        PROVE  LastPublishes(n, world'.states[n], dispatched')
    <3>1. CASE n = m
      <4>1. world'.states[n] = step.state
        BY <1>1, <2>2, <3>1
      <4>2. Standing(n, step.state, step.choices)
        <5>1. CASE n \in OfKind("fault")
          <6>1. step = FaultStep(world.states[n], value)
            BY <2>2, <3>1, <5>1 DEF FaultServed
          <6>2. step.choices = FaultChoices(step.state.active)
            BY <2>2, <6>1, FaultMoves
          <6> QED
            BY <5>1, <6>2 DEF OfKind, Standing
        <5>2. CASE n \in OfKind("net")
          <6>1. step = NetStep(world.states[n], value)
            BY <2>2, <3>1, <5>2 DEF NetServed
          <6>2. /\ step.choices = NetChoices(step.state.pending)
                /\ Policies[step.state.masks].code = "ok"
                /\ step.state = NetState(step.state.masks, step.state.pending)
            BY <2>2, <6>1, NetMoves
          <6> QED
            BY <5>2, <6>2 DEF OfKind, Standing
        <5> QED
          BY <5>1, <5>2 DEF OfMenus
      <4>3. LastPublishes(n, step.state, Append(dispatched, d))
        BY <1>1, <2>1, <3>1, <4>2, PublishedMoves
      <4> QED
        BY <2>1, <4>1, <4>3
    <3>2. CASE n # m
      <4>1. world'.states[n] = world.states[n]
        BY <2>2, <3>2 DEF OfMenus, OfKind
      <4>2. d.event.kind = "component" => d.error # NoError \/ d.event.payload.name # n
        BY <2>1, <3>2 DEF Answered
      <4>3. LastPublishes(n, world.states[n], Append(dispatched, d))
        BY <1>1, <4>2, PublishedStays DEF MenusInv
      <4> QED
        BY <2>1, <4>1, <4>3
    <3> QED
      BY <3>1, <3>2
  <2> QED
    BY <2>3 DEF MenusInv
<1> QED
  BY <1>2, <1>3, StepIsHeard

\* A set of alternatives that the byte order tells apart is offered whole.
Ranked(V) ==
  V \subseteq Canonical /\ \A a \in V : \A b \in V : Rank[a] = Rank[b] => a = b

LEMMA RankedIsOffered ==
  ASSUME NEW V, Ranked(V), IsFiniteSet(V), NEW id, NEW at, NEW n, NEW purpose
  PROVE  Offered(Publish(id, at, n, Choice(purpose, V))) = V
<1>1. V \in SUBSET Canonical /\ \A a \in V : \A b \in V : Rank[a] = Rank[b] => a = b
  BY DEF Ranked
<1>2. ToSet(Sorted(V)) = V
  BY <1>1, SortedIsWhole
<1> QED
  BY <1>2, PublishedChoice

LEMMA FiniteImage ==
  ASSUME NEW S, IsFiniteSet(S), NEW f, f = [x \in S |-> f[x]]
  PROVE  IsFiniteSet({f[x] : x \in S})
<1> DEFINE T == {f[x] : x \in S}
<1>1. f \in [S -> T]
  OBVIOUS
<1>2. \A y \in T : \E x \in S : f[x] = y
  OBVIOUS
<1> HIDE DEF T
<1>3. f \in Surjection(S, T)
  BY <1>1, <1>2 DEF Surjection
<1>4. IsFiniteSet(T)
  BY <1>3, FS_Surjection
<1> QED
  BY <1>4 DEF T

LEMMA FiniteUnion ==
  ASSUME NEW S, IsFiniteSet(S), NEW f, f = [x \in S |-> f[x]],
         \A x \in S : IsFiniteSet(f[x])
  PROVE  IsFiniteSet(UNION {f[x] : x \in S})
<1> DEFINE T == {f[x] : x \in S}
<1>1. IsFiniteSet(T)
  BY FiniteImage
<1>2. \A x \in T : IsFiniteSet(x)
  OBVIOUS
<1> HIDE DEF T
<1>3. IsFiniteSet(UNION T)
  BY <1>1, <1>2, FS_UNION
<1> QED
  BY <1>3 DEF T

LEMMA FaultAlternativesFinite ==
  ASSUME NEW active
  PROVE  IsFiniteSet(FaultAlternatives(active))
<1> DEFINE f == [d \in Domains |->
                   {FaultAction(d, k, OperationFor(active[d], k)) : k \in KindsOf[d]}]
<1>1. ASSUME NEW d \in Domains  PROVE IsFiniteSet(f[d])
  <2> DEFINE g == [k \in KindsOf[d] |-> FaultAction(d, k, OperationFor(active[d], k))]
  <2>1. IsFiniteSet(KindsOf[d])
    BY DomainsAssumption
  <2>2. g = [k \in KindsOf[d] |-> g[k]]
    OBVIOUS
  <2>3. f[d] = {g[k] : k \in KindsOf[d]}
    OBVIOUS
  <2> HIDE DEF g, f
  <2>4. IsFiniteSet({g[k] : k \in KindsOf[d]})
    BY <2>1, <2>2, FiniteImage
  <2> QED
    BY <2>3, <2>4
<1>2. f = [d \in Domains |-> f[d]] /\ IsFiniteSet(Domains)
  BY DomainsAssumption
<1>3. FaultAlternatives(active) = UNION {f[d] : d \in Domains}
  BY DEF FaultAlternatives
<1> HIDE DEF f
<1>4. IsFiniteSet(UNION {f[d] : d \in Domains})
  BY <1>1, <1>2, FiniteUnion
<1> QED
  BY <1>3, <1>4

LEMMA NetAlternativesFinite ==
  ASSUME NEW pending, QueuesOK(pending)
  PROVE  IsFiniteSet(NetAlternatives(pending))
<1> DEFINE A == {"deliver", "drop", "duplicate"}
           Places(via) == 0 .. Len(pending[via]) - 1
           f == [via \in Links |->
                   {NetAlternative(action, index, via) : action \in A, index \in Places(via)}]
<1>1. ASSUME NEW via \in Links  PROVE IsFiniteSet(f[via])
  <2> DEFINE pairs == A \X Places(via)
             g == [x \in pairs |-> NetAlternative(x[1], x[2], via)]
  <2>1. Len(pending[via]) \in Nat
    BY SeqIsFunction DEF QueuesOK
  <2>2. IsFiniteSet(Places(via))
    BY <2>1, FS_Interval
  <2>3. IsFiniteSet(A)
    <3>1. IsFiniteSet({"deliver"} \cup {"drop"} \cup {"duplicate"})
      BY FS_Singleton, FS_Union
    <3>2. A = {"deliver"} \cup {"drop"} \cup {"duplicate"}
      OBVIOUS
    <3> QED
      BY <3>1, <3>2
  <2>4. IsFiniteSet(pairs)
    <3> HIDE DEF A, Places
    <3> QED
      BY <2>2, <2>3, FS_Product
  <2>5. g = [x \in pairs |-> g[x]]
    OBVIOUS
  <2>6. f[via] = {g[x] : x \in pairs}
    <3> HIDE DEF A, Places
    <3>1. f[via] = {NetAlternative(action, index, via) : action \in A, index \in Places(via)}
      OBVIOUS
    <3>2. ASSUME NEW action \in A, NEW index \in Places(via)
          PROVE  \E x \in pairs : g[x] = NetAlternative(action, index, via)
      <4>1. << action, index >> \in pairs
        OBVIOUS
      <4>2. g[<< action, index >>] = NetAlternative(action, index, via)
        BY <4>1
      <4> QED
        BY <4>1, <4>2
    <3>3. ASSUME NEW x \in pairs
          PROVE  g[x] = NetAlternative(x[1], x[2], via) /\ x[1] \in A /\ x[2] \in Places(via)
      OBVIOUS
    <3> HIDE DEF f, g, pairs
    <3> QED
      BY <3>1, <3>2, <3>3
  <2> HIDE DEF f, g, pairs
  <2>7. IsFiniteSet({g[x] : x \in pairs})
    BY <2>4, <2>5, FiniteImage
  <2> QED
    BY <2>6, <2>7
<1>2. f = [via \in Links |-> f[via]] /\ IsFiniteSet(Links)
  BY LinksAssumption
<1>3. NetAlternatives(pending) = UNION {f[via] : via \in Links}
  BY DEF NetAlternatives
<1> HIDE DEF f
<1>4. IsFiniteSet(UNION {f[via] : via \in Links})
  BY <1>1, <1>2, FiniteUnion
<1> QED
  BY <1>3, <1>4

\* What the byte order has to tell apart: every action of the fault model, and
\* the alternatives of the packets that wait in one state of a network.
ActionsRanked == Ranked(AllFaultActions)

AlternativesRanked ==
  \A masks : \A pending :
    NetState(masks, pending) \in Canonical /\ QueuesOK(pending) =>
      Ranked(NetAlternatives(pending))

LEMMA OffersWhatFaults ==
  ASSUME NEW s, NEW a \in AllFaultActions
  PROVE  a \in FaultAlternatives(s.active) <=> FaultStep(s, a).type = "step"
<1>1. PICK d \in Domains, k \in UNION {KindsOf[e] : e \in Domains},
           operation \in {"activate", "deactivate"} :
        a = FaultAction(d, k, operation)
  BY DEF AllFaultActions
<1>2. a.domain = d /\ a.kind = k /\ a.operation = operation
  BY <1>1 DEF FaultAction
<1>3. a \in FaultAlternatives(s.active)
        <=> k \in KindsOf[d] /\ operation = OperationFor(s.active[d], k)
  <2>1. ASSUME NEW e \in Domains, NEW j \in KindsOf[e],
               a = FaultAction(e, j, OperationFor(s.active[e], j))
        PROVE  e = d /\ j = k /\ operation = OperationFor(s.active[e], j)
    BY <1>2, <2>1 DEF FaultAction
  <2> QED
    BY <1>1, <2>1 DEF FaultAlternatives
<1>4. \A code : ModelFails(code).type = "error"
  BY DEF ModelFails, Fails
<1>5. \A active, facts : FaultResult(active, facts).type = "step"
  BY DEF FaultResult, Steps
<1>6. CASE operation = "activate"
  <2>1. FaultStep(s, a) = Activate(s.active, d, k)
    BY <1>2, <1>6 DEF FaultStep
  <2>2. Activate(s.active, d, k).type = "step"
          <=> k \in KindsOf[d] /\ ~(~Pulse(k) /\ k \in s.active[d])
    BY <1>4, <1>5 DEF Activate
  <2>3. operation = OperationFor(s.active[d], k) <=> ~(~Pulse(k) /\ k \in s.active[d])
    BY <1>6 DEF OperationFor
  <2> QED
    BY <1>3, <2>1, <2>2, <2>3
<1>7. CASE operation = "deactivate"
  <2>1. FaultStep(s, a) = Deactivate(s.active, d, k)
    BY <1>2, <1>7 DEF FaultStep
  <2>2. Deactivate(s.active, d, k).type = "step"
          <=> k \in KindsOf[d] /\ ~Pulse(k) /\ k \in s.active[d]
    BY <1>4, <1>5 DEF Deactivate
  <2>3. operation = OperationFor(s.active[d], k) <=> ~Pulse(k) /\ k \in s.active[d]
    BY <1>7 DEF OperationFor
  <2> QED
    BY <1>3, <2>1, <2>2, <2>3
<1> QED
  BY <1>6, <1>7

LEMMA OffersWhatDelivers ==
  ASSUME NEW s, QueuesOK(s.pending), Policies[s.masks].code = "ok",
         NEW via \in Links, NEW action \in {"deliver", "drop", "duplicate"},
         NEW index \in Nat
  PROVE  LET a == NetAlternative(action, index, via)
         IN  a \in NetAlternatives(s.pending)
               <=> NetStep(s, DeliverInput(a)).type = "step"
<1> DEFINE a == NetAlternative(action, index, via)
           queue == s.pending[via]
           policy == Policies[s.masks]
<1>1. a.action = action /\ a.index = index /\ a.via = via
  BY DEF NetAlternative
<1>2. a \in NetAlternatives(s.pending) <=> index \in 0 .. Len(queue) - 1
  <2>1. ASSUME NEW v \in Links, NEW b \in {"deliver", "drop", "duplicate"},
               NEW i \in 0 .. Len(s.pending[v]) - 1, a = NetAlternative(b, i, v)
        PROVE  v = via /\ i = index
    <3>1. NetAlternative(b, i, v).via = v /\ NetAlternative(b, i, v).index = i
      BY DEF NetAlternative
    <3> HIDE DEF a
    <3> QED
      BY <1>1, <2>1, <3>1
  <2> QED
    BY <2>1 DEF NetAlternatives
<1>3. NetStep(s, DeliverInput(a)) = Deliver(s, policy, a)
  BY DEF NetStep, StepUnder, DeliverInput
<1> HIDE DEF a, policy
<1>4. \A code : ModelFails(code).type = "error"
  BY DEF ModelFails, Fails
<1>5. \A masks, pending, facts : NetResult(masks, pending, facts).type = "step"
  BY DEF NetResult, Steps
<1>6. Len(queue) \in Nat /\ (queue = << >> => Len(queue) = 0)
  <2>1. Len(queue) \in Nat
    BY SeqIsFunction DEF QueuesOK
  <2>2. Len(<< >>) = 0
    OBVIOUS
  <2> HIDE DEF queue
  <2> QED
    BY <2>1, <2>2
<1>7. Deliver(s, policy, a).type = "step" <=> index \in 0 .. Len(queue) - 1
  <2>1. CASE index \notin 0 .. Len(queue) - 1
    BY <1>1, <1>4, <2>1 DEF Deliver
  <2>2. CASE index \in 0 .. Len(queue) - 1
    <3>1. queue # << >>
      <4> HIDE DEF queue
      <4> QED
        BY <1>6, <2>2
    <3>2. \E pending : Deliver(s, policy, a)
                         = Taken(s, policy, action, queue[index + 1], via, pending)
      BY <1>1, <2>2, <3>1 DEF Deliver
    <3>3. \A pending, packet : Taken(s, policy, action, packet, via, pending).type = "step"
      BY <1>5 DEF Taken, Forward
    <3> QED
      BY <2>2, <3>2, <3>3
  <2> QED
    BY <2>1, <2>2
<1> QED
  BY <1>2, <1>3, <1>7 DEF a

(***************************************************************************)
(* The last menu of a fault model or a network says exactly what it would  *)
(* accept, in every world where they are served by their models and the    *)
(* byte order tells the alternatives apart (fault.shen's and net.shen's    *)
(* step-decoded): a menu is of the state that its step left, and nothing   *)
(* but the next step, which publishes again, changes that state.           *)
(***************************************************************************)
THEOREM MenusAreExact ==
  ASSUME NetServed, FaultServed, ActionsRanked, AlternativesRanked
  PROVE  Spec => []MenusExact
<1>1. QueueInv /\ TypedInv /\ NetInv /\ MenusInv => MenusExact
  <2> SUFFICES ASSUME QueueInv, TypedInv, NetInv, MenusInv,
                      NEW n \in OfKind("fault") \cup OfKind("net"), MenusOf(n) # {}
               PROVE  IF KindOf[n] = "fault"
                      THEN LatestMenu(n)
                             = {a \in AllFaultActions : Accepted(n, a, world.time)}
                      ELSE \A via \in Links, action \in {"deliver", "drop", "duplicate"} :
                             \A index \in 0 .. Len(world.states[n].pending[via]) :
                               LET a == NetAlternative(action, index, via)
                               IN  a \in LatestMenu(n)
                                     <=> Accepted(n, DeliverInput(a), world.time)
    BY DEF MenusExact
  <2> DEFINE s == world.states[n]
  <2>1. MenusOf(n) = AnsweredBy(dispatched, n)
    BY DEF MenusOf, AnsweredBy
  <2>2. LastPublishes(n, s, dispatched)
    BY DEF MenusInv, OfMenus
  <2>3. PICK i, id, at, choices : /\ IsLast(dispatched, n, i)
                                  /\ dispatched[i].choices = Publish(id, at, n, choices)
                                  /\ Standing(n, s, choices)
    BY <2>1, <2>2 DEF LastPublishes
  <2>4. LatestMenu(n) = Offered(Publish(id, at, n, choices))
    <3>1. LastOf(MenusOf(n)) = i
      BY <2>3, LastIsUnique DEF QueueInv, PastOK
    <3> QED
      BY <2>3, <3>1 DEF LatestMenu, Offered
  <2>5. CASE KindOf[n] = "fault"
    <3> DEFINE V == FaultAlternatives(s.active)
    <3>1. choices = Choice("fault-action", V)
      BY <2>3, <2>5 DEF Standing, FaultChoices
    <3>2. V \subseteq AllFaultActions
      BY DEF FaultAlternatives, AllFaultActions, OperationFor
    <3>3. Ranked(V) /\ IsFiniteSet(V)
      BY <3>2, FaultAlternativesFinite DEF ActionsRanked, Ranked
    <3> HIDE DEF V
    <3>4. LatestMenu(n) = V
      BY <2>4, <3>1, <3>3, RankedIsOffered
    <3>5. ASSUME NEW a \in AllFaultActions
          PROVE  Accepted(n, a, world.time) <=> a \in V
      <4>1. Handler(n, s, a, world.time) = FaultStep(s, a)
        BY <2>5 DEF FaultServed, OfKind
      <4>2. a \in V <=> FaultStep(s, a).type = "step"
        BY OffersWhatFaults DEF V
      <4> QED
        BY <4>1, <4>2 DEF Accepted
    <3>6. LatestMenu(n) = {a \in AllFaultActions : Accepted(n, a, world.time)}
      BY <3>2, <3>4, <3>5
    <3> QED
      BY <2>5, <3>6
  <2>6. CASE KindOf[n] # "fault"
    <3> DEFINE V == NetAlternatives(s.pending)
    <3>1. n \in OfKind("net") /\ n \in Names
      BY <2>6 DEF OfKind
    <3>2. /\ choices = Choice("delivery", V) /\ Policies[s.masks].code = "ok"
          /\ s = NetState(s.masks, s.pending)
      BY <2>3, <2>6 DEF Standing, NetChoices
    <3>3. QueuesOK(s.pending) /\ s \in Canonical
      BY <3>1 DEF NetInv, NetOK, TypedInv, WorldTyped
    <3>4. Ranked(V) /\ IsFiniteSet(V)
      BY <3>2, <3>3, NetAlternativesFinite DEF AlternativesRanked
    <3> HIDE DEF V
    <3>5. LatestMenu(n) = V
      BY <2>4, <3>2, <3>4, RankedIsOffered
    <3>6. ASSUME NEW via \in Links, NEW action \in {"deliver", "drop", "duplicate"},
                 NEW index \in 0 .. Len(s.pending[via])
          PROVE  NetAlternative(action, index, via) \in LatestMenu(n)
                   <=> Accepted(n, DeliverInput(NetAlternative(action, index, via)),
                                world.time)
      <4> DEFINE a == NetAlternative(action, index, via)
      <4>1. index \in Nat
        BY <3>3, SeqIsFunction DEF QueuesOK
      <4>2. a \in V <=> NetStep(s, DeliverInput(a)).type = "step"
        <5> HIDE DEF s
        <5> QED
          BY <3>2, <3>3, <4>1, OffersWhatDelivers DEF V
      <4>3. Handler(n, s, DeliverInput(a), world.time) = NetStep(s, DeliverInput(a))
        BY <3>1 DEF NetServed
      <4> QED
        BY <3>5, <4>2, <4>3 DEF Accepted
    <3> QED
      BY <2>6, <3>6
  <2> QED
    BY <2>5, <2>6
<1>2. Init => NetInv /\ MenusInv
  BY NetInit, MenusInit
<1>3. QueueInv /\ QueueInv' /\ TypedInv /\ NetInv /\ MenusInv /\ [Next]_vars
        => NetInv' /\ MenusInv'
  BY NetInvStep, MenusInvStep
<1>4. Spec => [](QueueInv /\ TypedInv /\ NetInv /\ MenusInv)
  BY <1>2, <1>3, QueueInvInit, QueueInvStep, TypedInit, TypedStep, PTL DEF Spec
<1> QED
  BY <1>1, <1>4, PTL

-------------------------------------------------------------------------------
(***************************************************************************)
(* The masks in force, as the fact log and the dispatches tell: of every   *)
(* fact of the log, and of its end.                                        *)
(***************************************************************************)
WordOf(P, d) == P[d].event.payload.value.mask

MaskedBy(F, n, j) == j \in DOMAIN F /\ F[j].component = n /\ F[j].name = "masked"

OpenAt(F, n, j, i) ==
  /\ j < i
  /\ \A k \in DOMAIN F : F[k].component = n /\ F[k].name = "unmasked" /\ j < k /\ k < i
       => F[k].value.id # F[j].value.id

Holds(F, P, n, d, i) ==
  \E j : MaskedBy(F, n, j) /\ F[j].event = P[d].event.id /\ OpenAt(F, n, j, i)

MasksIn(F, P, n, i) == {WordOf(P, d) : d \in {d \in DOMAIN P : Holds(F, P, n, d, i)}}

\* A masked fact bears the identifier of the mask that it answers.
WordsMatch(F, P, n) ==
  \A j : \A d \in DOMAIN P : MaskedBy(F, n, j) /\ F[j].event = P[d].event.id =>
                               F[j].value.id = WordOf(P, d).id

\* One more dispatch, and what the log gains by it; its event is new.
Continues(F, G, P, Q, e) ==
  /\ DOMAIN F = 1 .. Len(F) /\ Len(F) \in Nat
  /\ DOMAIN G = 1 .. Len(G) /\ Len(G) \in Nat /\ Len(F) <= Len(G)
  /\ \A i \in DOMAIN F : i \in DOMAIN G /\ G[i] = F[i] /\ F[i].event # e
  /\ \A i \in DOMAIN G \ DOMAIN F : G[i].event = e
  /\ Len(P) + 1 \notin DOMAIN P /\ DOMAIN Q = DOMAIN P \cup {Len(P) + 1}
  /\ \A d \in DOMAIN P : Q[d] = P[d] /\ P[d].event.id # e
  /\ Q[Len(P) + 1].event.id = e

LEMMA GainsContinue ==
  ASSUME NEW F, IsSeq(F), NEW G, IsSeq(G), NEW m, NEW e, NEW facts,
         LogGains(F, G, m, e, facts), NEW P, IsSeq(P), NEW d, d.event.id = e,
         \A i \in DOMAIN F : F[i].event # e,
         \A i \in DOMAIN P : P[i].event.id # e
  PROVE  Continues(F, G, P, Append(P, d), e)
<1>1. /\ DOMAIN F = 1 .. Len(F) /\ Len(F) \in Nat
      /\ DOMAIN G = 1 .. Len(G) /\ Len(G) \in Nat
      /\ DOMAIN P = 1 .. Len(P) /\ Len(P) \in Nat
  BY SeqIsFunction
<1> DEFINE Q == Append(P, d)
<1>2. /\ DOMAIN Q = 1 .. Len(P) + 1 /\ Q[Len(P) + 1] = d
      /\ \A i \in 1 .. Len(P) : Q[i] = P[i]
  BY AppendIsSeq, SeqIsFunction
<1> HIDE DEF Q
<1>3. Len(P) + 1 \notin DOMAIN P /\ DOMAIN Q = DOMAIN P \cup {Len(P) + 1}
  BY <1>1, <1>2
<1>4. \A i \in DOMAIN G \ DOMAIN F : G[i].event = e
  BY DEF LogGains
<1>5. \A i \in DOMAIN F : i \in DOMAIN G /\ G[i] = F[i]
  BY DEF LogGains
<1>6. Len(F) <= Len(G)
  <2>1. CASE Len(F) = 0
    BY <1>1, <2>1
  <2>2. CASE Len(F) # 0
    <3>1. Len(F) \in DOMAIN F
      BY <1>1, <2>2
    <3>2. Len(F) \in 1 .. Len(G)
      BY <1>1, <1>5, <3>1
    <3> QED
      BY <1>1, <3>2
  <2> QED
    BY <2>1, <2>2
<1> QED
  BY <1>1, <1>2, <1>3, <1>4, <1>5, <1>6 DEF Continues, Q

\* Up to the old end the new log tells what the old one told.
LEMMA HoldsKept ==
  ASSUME NEW F, NEW G, NEW P, NEW Q, NEW e, Continues(F, G, P, Q, e), NEW n,
         NEW i \in Nat, i <= Len(F) + 1, NEW d \in DOMAIN Q
  PROVE  Holds(G, Q, n, d, i) <=> d \in DOMAIN P /\ Holds(F, P, n, d, i)
<1>1. \A j \in DOMAIN G : j < i => j \in DOMAIN F
  BY DEF Continues
<1>2. \A j \in DOMAIN F : j \in DOMAIN G /\ G[j] = F[j] /\ F[j].event # e
  BY DEF Continues
<1>3. \A j \in DOMAIN F : OpenAt(G, n, j, i) <=> OpenAt(F, n, j, i)
  BY <1>1, <1>2 DEF OpenAt
<1>4. d \in DOMAIN P \/ Q[d].event.id = e
  BY DEF Continues
<1>5. d \in DOMAIN P => Q[d] = P[d]
  BY DEF Continues
<1>6. ASSUME Holds(G, Q, n, d, i)  PROVE d \in DOMAIN P /\ Holds(F, P, n, d, i)
  <2>1. PICK j : MaskedBy(G, n, j) /\ G[j].event = Q[d].event.id /\ OpenAt(G, n, j, i)
    BY <1>6 DEF Holds
  <2>2. j \in DOMAIN F
    BY <1>1, <2>1 DEF MaskedBy, OpenAt
  <2>3. MaskedBy(F, n, j) /\ F[j].event = Q[d].event.id /\ OpenAt(F, n, j, i)
    BY <1>2, <1>3, <2>1, <2>2 DEF MaskedBy
  <2>4. d \in DOMAIN P
    BY <1>2, <1>4, <2>2, <2>3
  <2> QED
    BY <1>5, <2>3, <2>4 DEF Holds
<1>7. ASSUME d \in DOMAIN P, Holds(F, P, n, d, i)  PROVE Holds(G, Q, n, d, i)
  <2>1. PICK j : MaskedBy(F, n, j) /\ F[j].event = P[d].event.id /\ OpenAt(F, n, j, i)
    BY <1>7 DEF Holds
  <2>2. MaskedBy(G, n, j) /\ G[j].event = Q[d].event.id /\ OpenAt(G, n, j, i)
    BY <1>2, <1>3, <1>5, <1>7, <2>1 DEF MaskedBy
  <2> QED
    BY <2>2 DEF Holds
<1> QED
  BY <1>6, <1>7

LEMMA MasksKept ==
  ASSUME NEW F, NEW G, NEW P, NEW Q, NEW e, Continues(F, G, P, Q, e), NEW n,
         NEW i \in Nat, i <= Len(F) + 1
  PROVE  MasksIn(G, Q, n, i) = MasksIn(F, P, n, i)
<1>1. \A d \in DOMAIN Q : Holds(G, Q, n, d, i) <=> d \in DOMAIN P /\ Holds(F, P, n, d, i)
  BY HoldsKept
<1>2. {d \in DOMAIN Q : Holds(G, Q, n, d, i)} = {d \in DOMAIN P : Holds(F, P, n, d, i)}
  BY <1>1 DEF Continues
<1>3. \A d \in DOMAIN P : WordOf(Q, d) = WordOf(P, d)
  BY DEF Continues, WordOf
<1> QED
  BY <1>2, <1>3 DEF MasksIn

\* What says nothing of masks leaves the masks in force.
LEMMA MasksQuiet ==
  ASSUME NEW F, NEW G, NEW P, NEW Q, NEW e, Continues(F, G, P, Q, e), NEW n,
         \A k \in DOMAIN G \ DOMAIN F :
           G[k].component = n => G[k].name \notin {"masked", "unmasked"},
         NEW i \in Nat, i > Len(F)
  PROVE  MasksIn(G, Q, n, i) = MasksIn(F, P, n, Len(F) + 1)
<1> DEFINE k == Len(F) + 1
<1>1. k \in Nat /\ i >= k
  BY DEF Continues
<1>2. \A j : MaskedBy(G, n, j) => j \in DOMAIN F /\ j < k /\ j < i
  <2>1. \A j : MaskedBy(G, n, j) => j \in DOMAIN F
    BY DEF MaskedBy
  <2>2. \A j \in DOMAIN F : j \in Nat /\ j < k
    BY DEF Continues
  <2> HIDE DEF k
  <2>3. \A j \in DOMAIN F : j < i
    BY <1>1, <2>2
  <2> QED
    BY <2>1, <2>2, <2>3
<1>3. ASSUME NEW j, MaskedBy(G, n, j)
      PROVE  OpenAt(G, n, j, i) <=> OpenAt(G, n, j, k)
  <2>1. \A u \in DOMAIN G : G[u].component = n /\ G[u].name = "unmasked" =>
                              u < k /\ u < i
    <3>1. \A u \in DOMAIN G : G[u].component = n /\ G[u].name = "unmasked" =>
                                u \in DOMAIN F
      OBVIOUS
    <3>2. \A j_1 \in DOMAIN F : j_1 \in Nat /\ j_1 < k
      BY DEF Continues
    <3> HIDE DEF k
    <3> QED
      BY <1>1, <3>1, <3>2
  <2> HIDE DEF k
  <2> QED
    BY <1>2, <1>3, <2>1 DEF OpenAt
<1>4. MasksIn(G, Q, n, k) = MasksIn(F, P, n, k)
  BY <1>1, MasksKept
<1> HIDE DEF k
<1>5. \A d : Holds(G, Q, n, d, i) <=> Holds(G, Q, n, d, k)
  BY <1>3 DEF Holds
<1>6. MasksIn(G, Q, n, i) = MasksIn(G, Q, n, k)
  BY <1>5 DEF MasksIn
<1> QED
  BY <1>4, <1>6 DEF k

\* The log gains one fact of the network, at its end.
Gains1(F, G, n, name) ==
  /\ DOMAIN G = DOMAIN F \cup {Len(F) + 1} /\ Len(F) + 1 \notin DOMAIN F
  /\ G[Len(F) + 1].component = n /\ G[Len(F) + 1].name = name

LEMMA OneGained ==
  ASSUME NEW F, NEW G, NEW n, NEW id, NEW name, NEW value, NEW facts,
         facts = << FactOf(name, value) >>, LogGains(F, G, n, id, facts)
  PROVE  Gains1(F, G, n, name) /\ G[Len(F) + 1].value = value
<1> DEFINE k == Len(F) + 1
<1>1. DOMAIN facts = {1} /\ facts[1].name = name /\ facts[1].value = value
  BY DEF FactOf
<1>2. /\ k \in DOMAIN G /\ k \notin DOMAIN F
      /\ G[k].component = n /\ G[k].name = name /\ G[k].value = value
  BY <1>1 DEF LogGains
<1>3. \A i \in DOMAIN G \ DOMAIN F : i = k
  BY <1>1 DEF LogGains
<1>4. \A i \in DOMAIN F : i \in DOMAIN G
  BY DEF LogGains
<1> HIDE DEF k
<1>5. DOMAIN G = DOMAIN F \cup {k}
  BY <1>2, <1>3, <1>4
<1> QED
  BY <1>2, <1>5 DEF Gains1, k

LEMMA MaskComesIn ==
  ASSUME NEW F, NEW G, NEW P, NEW Q, NEW e, Continues(F, G, P, Q, e), NEW n,
         Gains1(F, G, n, "masked")
  PROVE  MasksIn(G, Q, n, Len(F) + 2)
           = MasksIn(F, P, n, Len(F) + 1) \cup {WordOf(Q, Len(P) + 1)}
<1> DEFINE k == Len(F) + 1
           new == Len(P) + 1
<1>1. k \in Nat /\ \A j \in DOMAIN F : j \in Nat /\ j < k
  BY DEF Continues
<1>2. \A j \in DOMAIN G : j \in DOMAIN F \/ j = k
  BY DEF Gains1
<1>3. ASSUME NEW j \in DOMAIN F
      PROVE  OpenAt(G, n, j, k + 1) <=> OpenAt(F, n, j, k)
  <2>1. j < k /\ j < k + 1
    BY <1>1
  <2>2. \A u \in DOMAIN F : G[u] = F[u] /\ u \in DOMAIN G /\ u < k /\ u < k + 1
    BY <1>1 DEF Continues
  <2>3. G[k].name # "unmasked"
    BY DEF Gains1
  <2> HIDE DEF k
  <2> QED
    BY <1>2, <2>1, <2>2, <2>3 DEF OpenAt
<1>4. MaskedBy(G, n, k) /\ G[k].event = e /\ OpenAt(G, n, k, k + 1)
  <2>1. MaskedBy(G, n, k) /\ G[k].event = e
    BY DEF Gains1, MaskedBy, Continues
  <2>2. \A u : ~(k < u /\ u < k + 1) \/ u \notin DOMAIN G
    BY <1>1, <1>2
  <2>3. k < k + 1
    BY <1>1
  <2> HIDE DEF k
  <2> QED
    BY <2>1, <2>2, <2>3 DEF OpenAt
<1>5. ASSUME NEW d \in DOMAIN Q
      PROVE  Holds(G, Q, n, d, k + 1) <=> d = new \/ (d \in DOMAIN P /\ Holds(F, P, n, d, k))
  <2>1. /\ \A j \in DOMAIN F : G[j] = F[j] /\ j \in DOMAIN G /\ F[j].event # e
        /\ d \in DOMAIN P \/ d = new
        /\ d \in DOMAIN P => Q[d] = P[d] /\ P[d].event.id # e /\ d # new
        /\ Q[new].event.id = e
    BY DEF Continues
  <2> HIDE DEF k, new
  <2>2. d = new => Holds(G, Q, n, d, k + 1)
    BY <1>4, <2>1 DEF Holds
  <2>3. d \in DOMAIN P /\ Holds(F, P, n, d, k) => Holds(G, Q, n, d, k + 1)
    BY <1>3, <2>1 DEF Holds, MaskedBy
  <2>4. d \in DOMAIN P /\ Holds(G, Q, n, d, k + 1) => Holds(F, P, n, d, k)
    <3> SUFFICES ASSUME d \in DOMAIN P, Holds(G, Q, n, d, k + 1)
                 PROVE  Holds(F, P, n, d, k)
      OBVIOUS
    <3>1. PICK j : MaskedBy(G, n, j) /\ G[j].event = Q[d].event.id /\ OpenAt(G, n, j, k + 1)
      BY DEF Holds
    <3>2. j \in DOMAIN F
      BY <1>2, <1>4, <2>1, <3>1 DEF MaskedBy
    <3> QED
      BY <1>3, <2>1, <3>1, <3>2 DEF Holds, MaskedBy
  <2> QED
    BY <2>1, <2>2, <2>3, <2>4
<1>6. \A d \in DOMAIN P : WordOf(Q, d) = WordOf(P, d)
  BY DEF Continues, WordOf
<1>7. DOMAIN Q = DOMAIN P \cup {new}
  BY DEF Continues
<1>8. k + 1 = Len(F) + 2
  BY <1>1
<1> HIDE DEF k, new
<1>9. MasksIn(G, Q, n, k + 1) = MasksIn(F, P, n, k) \cup {WordOf(Q, new)}
  BY <1>5, <1>6, <1>7 DEF MasksIn
<1> QED
  BY <1>8, <1>9 DEF k, new

LEMMA MaskGoesOut ==
  ASSUME NEW F, NEW G, NEW P, NEW Q, NEW e, Continues(F, G, P, Q, e), NEW n,
         WordsMatch(F, P, n), Gains1(F, G, n, "unmasked")
  PROVE  MasksIn(G, Q, n, Len(F) + 2)
           = {m \in MasksIn(F, P, n, Len(F) + 1) : m.id # G[Len(F) + 1].value.id}
<1> DEFINE k == Len(F) + 1
           x == G[k].value.id
<1>1. k \in Nat /\ \A j \in DOMAIN F : j \in Nat /\ j < k
  BY DEF Continues
<1>2. \A j \in DOMAIN G : j \in DOMAIN F \/ j = k
  BY DEF Gains1
<1>3. ASSUME NEW j \in DOMAIN F
      PROVE  OpenAt(G, n, j, k + 1) <=> OpenAt(F, n, j, k) /\ F[j].value.id # x
  <2>1. j < k /\ j < k + 1 /\ k < k + 1
    BY <1>1
  <2>2. \A u \in DOMAIN F : G[u] = F[u] /\ u \in DOMAIN G /\ u < k /\ u < k + 1
    BY <1>1 DEF Continues
  <2>3. k \in DOMAIN G /\ G[k].component = n /\ G[k].name = "unmasked"
    BY DEF Gains1
  <2> HIDE DEF k
  <2> QED
    BY <1>2, <2>1, <2>2, <2>3 DEF OpenAt
<1>4. ~MaskedBy(G, n, k)
  BY DEF Gains1, MaskedBy
<1>5. ASSUME NEW d \in DOMAIN Q
      PROVE  Holds(G, Q, n, d, k + 1)
               <=> d \in DOMAIN P /\ Holds(F, P, n, d, k) /\ WordOf(P, d).id # x
  <2>1. /\ \A j \in DOMAIN F : G[j] = F[j] /\ j \in DOMAIN G /\ F[j].event # e
        /\ d \in DOMAIN P \/ Q[d].event.id = e
        /\ d \in DOMAIN P => Q[d] = P[d]
    BY DEF Continues
  <2> HIDE DEF k, x
  <2>2. ASSUME d \in DOMAIN P, Holds(F, P, n, d, k), WordOf(P, d).id # x
        PROVE  Holds(G, Q, n, d, k + 1)
    <3>1. PICK j : MaskedBy(F, n, j) /\ F[j].event = P[d].event.id /\ OpenAt(F, n, j, k)
      BY <2>2 DEF Holds
    <3>2. F[j].value.id # x
      BY <2>2, <3>1 DEF WordsMatch
    <3> QED
      BY <1>3, <2>1, <2>2, <3>1, <3>2 DEF Holds, MaskedBy
  <2>3. ASSUME Holds(G, Q, n, d, k + 1)
        PROVE  d \in DOMAIN P /\ Holds(F, P, n, d, k) /\ WordOf(P, d).id # x
    <3>1. PICK j : MaskedBy(G, n, j) /\ G[j].event = Q[d].event.id /\ OpenAt(G, n, j, k + 1)
      BY <2>3 DEF Holds
    <3>2. j \in DOMAIN F
      BY <1>2, <1>4, <3>1 DEF MaskedBy
    <3>3. d \in DOMAIN P /\ MaskedBy(F, n, j) /\ F[j].event = P[d].event.id
      BY <2>1, <3>1, <3>2 DEF MaskedBy
    <3>4. OpenAt(F, n, j, k) /\ F[j].value.id # x
      BY <1>3, <3>1, <3>2
    <3> QED
      BY <3>3, <3>4 DEF Holds, WordsMatch
  <2> QED
    BY <2>2, <2>3
<1>6. \A d \in DOMAIN P : WordOf(Q, d) = WordOf(P, d)
  BY DEF Continues, WordOf
<1>7. DOMAIN P \subseteq DOMAIN Q
  BY DEF Continues
<1>8. k + 1 = Len(F) + 2
  BY <1>1
<1> HIDE DEF k, x
<1>9. MasksIn(G, Q, n, k + 1) = {m \in MasksIn(F, P, n, k) : m.id # x}
  BY <1>5, <1>6, <1>7 DEF MasksIn
<1> QED
  BY <1>8, <1>9 DEF k, x

LEMMA WordsKept ==
  ASSUME NEW F, NEW G, NEW P, NEW Q, NEW e, Continues(F, G, P, Q, e), NEW n,
         WordsMatch(F, P, n),
         \A k \in DOMAIN G \ DOMAIN F :
           MaskedBy(G, n, k) => G[k].value.id = WordOf(Q, Len(P) + 1).id
  PROVE  WordsMatch(G, Q, n)
<1> DEFINE new == Len(P) + 1
<1> SUFFICES ASSUME NEW j, NEW d \in DOMAIN Q, MaskedBy(G, n, j),
                    G[j].event = Q[d].event.id
             PROVE  G[j].value.id = WordOf(Q, d).id
  BY DEF WordsMatch
<1>1. CASE j \in DOMAIN F
  <2>1. G[j] = F[j] /\ F[j].event # e /\ MaskedBy(F, n, j)
    BY <1>1 DEF Continues, MaskedBy
  <2>2. d \in DOMAIN P /\ Q[d] = P[d]
    BY <2>1 DEF Continues
  <2> QED
    BY <2>1, <2>2 DEF WordsMatch, WordOf
<1>2. CASE j \notin DOMAIN F
  <2>1. j \in DOMAIN G \ DOMAIN F /\ G[j].event = e
    BY <1>2 DEF MaskedBy, Continues
  <2>2. d = new
    BY <2>1 DEF Continues
  <2> QED
    BY <2>1, <2>2
<1> QED
  BY <1>1, <1>2

-------------------------------------------------------------------------------
(***************************************************************************)
(* What the log tells of a packet that came out, or did not, agrees with   *)
(* the masks in force at that fact.                                        *)
(***************************************************************************)
OutOf(F, n, e) ==
  {F[j].value.packet : j \in {j \in DOMAIN F : /\ F[j].component = n
                                               /\ F[j].name = "delivered"
                                               /\ F[j].event = e}}

Judged(F, P, n, i) ==
  LET masks == MasksIn(F, P, n, i)
      value == F[i].value
  IN  F[i].component = n =>
        /\ F[i].name = "delivered" =>
             /\ Admits(masks, value.sent)
             /\ OutOf(F, n, F[i].event) = BaselineMakes[value.sent]
        /\ F[i].name = "blocked" =>
             ~Admits(masks, value.packet) \/ BaselineMakes[value.packet] = {}

LEMMA JudgedKept ==
  ASSUME NEW F, NEW G, NEW P, NEW Q, NEW e, Continues(F, G, P, Q, e), NEW n,
         NEW i \in DOMAIN F, Judged(F, P, n, i)
  PROVE  Judged(G, Q, n, i)
<1>1. G[i] = F[i] /\ F[i].event # e
  BY DEF Continues
<1>2. i \in Nat /\ i <= Len(F) + 1
  BY DEF Continues
<1>3. MasksIn(G, Q, n, i) = MasksIn(F, P, n, i)
  BY <1>2, MasksKept
<1>4. OutOf(G, n, F[i].event) = OutOf(F, n, F[i].event)
  <2>1. \A j \in DOMAIN F : j \in DOMAIN G /\ G[j] = F[j]
    BY DEF Continues
  <2>2. \A j \in DOMAIN G \ DOMAIN F : G[j].event # F[i].event
    BY <1>1 DEF Continues
  <2> QED
    BY <2>1, <2>2 DEF OutOf
<1> QED
  BY <1>1, <1>3, <1>4 DEF Judged

\* What the policies of the states in use mean; their outputs are listed whole.
PoliciesMean ==
  \A masks : \A pending :
    NetState(masks, pending) \in Canonical /\ Policies[masks].code = "ok" =>
      \A p \in HeaderSpace :
        Policies[masks].made[p] = IF Admits(masks, p) THEN BaselineMakes[p] ELSE {}

OutputsRanked ==
  \A p \in HeaderSpace : Ranked(BaselineMakes[p]) /\ IsFiniteSet(BaselineMakes[p])

OutsOf(facts) ==
  {facts[k].value.packet : k \in {k \in DOMAIN facts : facts[k].name = "delivered"}}

TellsWhole(facts, packet, V) ==
  \A j \in DOMAIN facts :
    /\ facts[j].name \in Outcomes
    /\ facts[j].name = "delivered" =>
         facts[j].value.sent = packet /\ V # {} /\ OutsOf(facts) = V
    /\ facts[j].name = "blocked" => facts[j].value.packet = packet /\ V = {}

\* A report of a packet whose policy makes V of it.
LEMMA ReportsWhole ==
  ASSUME NEW masks, NEW action, NEW packet, NEW via, NEW facts,
         facts = Reported(masks, action, packet, via),
         NEW V, Policies[masks].made[packet] = V, Ranked(V), IsFiniteSet(V)
  PROVE  TellsWhole(facts, packet, V)
<1> DEFINE outputs == Sorted(V)
<1>1. ToSet(outputs) = V
  BY SortedIsWhole DEF Ranked
<1>2. V = {outputs[i] : i \in DOMAIN outputs}
  BY <1>1 DEF ToSet
<1>3. facts = IF action = "drop" THEN << FactOf("dropped", Transfer(packet, via)) >>
              ELSE IF outputs = << >>
              THEN << FactOf("blocked", Transfer(packet, via)) >>
              ELSE [i \in DOMAIN outputs |->
                      FactOf("delivered", Delivered(outputs[i], packet, via))]
  BY DEF Reported
<1> HIDE DEF outputs
<1>4. CASE action = "drop"
  <2>1. DOMAIN facts = {1} /\ facts[1].name = "dropped"
    BY <1>3, <1>4 DEF FactOf
  <2> QED
    BY <2>1 DEF Outcomes, TellsWhole
<1>5. CASE action # "drop" /\ outputs = << >>
  <2>1. facts = << FactOf("blocked", Transfer(packet, via)) >>
    BY <1>3, <1>5
  <2>2. DOMAIN facts = {1} /\ facts[1].name = "blocked" /\ facts[1].value.packet = packet
    BY <2>1 DEF FactOf, Transfer
  <2>3. V = {}
    BY <1>2, <1>5
  <2> QED
    BY <2>2, <2>3 DEF Outcomes, TellsWhole
<1>6. CASE action # "drop" /\ outputs # << >>
  <2>1. facts = [i \in DOMAIN outputs |->
                   FactOf("delivered", Delivered(outputs[i], packet, via))]
    BY <1>3, <1>6
  <2>2. DOMAIN facts = DOMAIN outputs
    BY <2>1
  <2>3. \A j \in DOMAIN outputs : /\ facts[j].name = "delivered"
                                  /\ facts[j].value.sent = packet
                                  /\ facts[j].value.packet = outputs[j]
    BY <2>1 DEF FactOf, Delivered
  <2>4. \A j \in DOMAIN outputs : V # {}
    BY <1>2
  <2>5. {k \in DOMAIN facts : facts[k].name = "delivered"} = DOMAIN outputs
    BY <2>2, <2>3
  <2>6. OutsOf(facts) = V
    BY <1>2, <2>3, <2>5 DEF OutsOf
  <2> QED
    BY <2>2, <2>3, <2>4, <2>6 DEF Outcomes, TellsWhole
<1> QED
  BY <1>4, <1>5, <1>6

\* The facts of one step are told under the masks that it found.
LEMMA ReportIsJudged ==
  ASSUME NEW F, NEW G, NEW P, NEW Q, NEW e, Continues(F, G, P, Q, e),
         NEW n, NEW facts, LogGains(F, G, n, e, facts),
         NEW masks, masks = MasksIn(F, P, n, Len(F) + 1),
         NEW action, NEW packet, NEW via, facts = Reported(masks, action, packet, via),
         Ranked(BaselineMakes[packet]), IsFiniteSet(BaselineMakes[packet]),
         Policies[masks].made[packet]
           = IF Admits(masks, packet) THEN BaselineMakes[packet] ELSE {}
  PROVE  /\ \A i \in DOMAIN G \ DOMAIN F : Judged(G, Q, n, i)
         /\ \A i \in DOMAIN G \ DOMAIN F : G[i].name \in Outcomes
<1> PICK V : V = Policies[masks].made[packet]
  OBVIOUS
<1>1. Ranked(V) /\ IsFiniteSet(V)
  <2>1. Ranked({}) /\ IsFiniteSet({})
    BY FS_EmptySet DEF Ranked
  <2> QED
    BY <2>1
<1>2. TellsWhole(facts, packet, V)
  BY <1>1, ReportsWhole
<1>3. /\ \A i \in DOMAIN G \ DOMAIN F : \E j \in DOMAIN facts : i = Len(F) + j
      /\ \A j \in DOMAIN facts : /\ Len(F) + j \in DOMAIN G \ DOMAIN F
                                 /\ G[Len(F) + j].component = n
                                 /\ G[Len(F) + j].name = facts[j].name
                                 /\ G[Len(F) + j].value = facts[j].value
  BY DEF LogGains
<1>4. \A i \in DOMAIN G \ DOMAIN F : G[i].name \in Outcomes
  BY <1>2, <1>3 DEF TellsWhole
<1>5. ASSUME NEW i \in DOMAIN G \ DOMAIN F
      PROVE  MasksIn(G, Q, n, i) = masks
  <2>1. i \in Nat /\ i > Len(F)
    BY DEF Continues
  <2>2. \A k \in DOMAIN G \ DOMAIN F :
          G[k].component = n => G[k].name \notin {"masked", "unmasked"}
    BY <1>4 DEF Outcomes
  <2> QED
    BY <2>1, <2>2, MasksQuiet
<1>6. OutOf(G, n, e) = OutsOf(facts)
  <2> DEFINE A == {j \in DOMAIN G : /\ G[j].component = n /\ G[j].name = "delivered"
                                    /\ G[j].event = e}
             B == {k \in DOMAIN facts : facts[k].name = "delivered"}
  <2>1. ASSUME NEW j \in A  PROVE \E k \in B : facts[k].value.packet = G[j].value.packet
    <3>1. j \in DOMAIN G \ DOMAIN F
      BY DEF Continues
    <3> QED
      BY <1>3, <3>1
  <2>2. ASSUME NEW k \in B  PROVE \E j \in A : facts[k].value.packet = G[j].value.packet
    <3>1. Len(F) + k \in A
      BY <1>3 DEF Continues
    <3> QED
      BY <1>3, <3>1
  <2>3. OutOf(G, n, e) = {G[j].value.packet : j \in A}
    BY DEF OutOf
  <2> HIDE DEF A, B
  <2>4. {G[j].value.packet : j \in A} = {facts[k].value.packet : k \in B}
    BY <2>1, <2>2
  <2> QED
    BY <2>3, <2>4 DEF B, OutsOf
<1>7. V = IF Admits(masks, packet) THEN BaselineMakes[packet] ELSE {}
  OBVIOUS
<1>8. ASSUME NEW i \in DOMAIN G \ DOMAIN F  PROVE Judged(G, Q, n, i)
  <2>1. PICK j \in DOMAIN facts : i = Len(F) + j
    BY <1>3
  <2>2. G[i].name = facts[j].name /\ G[i].value = facts[j].value
    BY <1>3, <2>1
  <2>3. G[i].event = e /\ MasksIn(G, Q, n, i) = masks
    BY <1>5 DEF Continues
  <2>4. ASSUME G[i].name = "delivered"
        PROVE  /\ Admits(masks, G[i].value.sent)
               /\ OutOf(G, n, e) = BaselineMakes[G[i].value.sent]
    BY <1>2, <1>6, <1>7, <2>2, <2>4 DEF TellsWhole
  <2>5. ASSUME G[i].name = "blocked"
        PROVE  ~Admits(masks, G[i].value.packet) \/ BaselineMakes[G[i].value.packet] = {}
    BY <1>2, <1>7, <2>2, <2>5 DEF TellsWhole
  <2> QED
    BY <2>3, <2>4, <2>5 DEF Judged
<1> QED
  BY <1>4, <1>8

(***************************************************************************)
(* The inductive invariant: a network's masks are those in force at the    *)
(* end of the log, and every fact was told under the masks in force.       *)
(***************************************************************************)
InSpace(pending) ==
  \A via \in Links : \A i \in DOMAIN pending[via] : pending[via][i] \in HeaderSpace

CrossOK(n, s, F, P) ==
  /\ s = NetState(s.masks, s.pending) /\ InSpace(s.pending)
  /\ s.masks = MasksIn(F, P, n, Len(F) + 1)
  /\ WordsMatch(F, P, n)
  /\ \A i \in DOMAIN F : Judged(F, P, n, i)

\* The network has said nothing of masks, and nothing else that is judged.
LEMMA CrossStays ==
  ASSUME NEW F, NEW G, NEW P, NEW Q, NEW e, Continues(F, G, P, Q, e), NEW n, NEW s,
         CrossOK(n, s, F, P), NEW u, u = NetState(s.masks, u.pending), InSpace(u.pending),
         \A k \in DOMAIN G \ DOMAIN F :
           G[k].component = n => G[k].name \notin {"masked", "unmasked"},
         \A k \in DOMAIN G \ DOMAIN F : Judged(G, Q, n, k)
  PROVE  CrossOK(n, u, G, Q)
<1>1. Len(G) + 1 \in Nat /\ Len(G) + 1 > Len(F)
  BY DEF Continues
<1>2. MasksIn(G, Q, n, Len(G) + 1) = MasksIn(F, P, n, Len(F) + 1)
  BY <1>1, MasksQuiet
<1>3. WordsMatch(G, Q, n)
  <2>1. \A k \in DOMAIN G \ DOMAIN F : ~MaskedBy(G, n, k)
    BY DEF MaskedBy
  <2> QED
    BY <2>1, WordsKept DEF CrossOK
<1>4. \A i \in DOMAIN F : Judged(G, Q, n, i)
  BY JudgedKept DEF CrossOK
<1>5. u.masks = s.masks
  BY DEF NetState
<1>6. \A i \in DOMAIN G : Judged(G, Q, n, i)
  BY <1>4
<1>7. u.masks = MasksIn(G, Q, n, Len(G) + 1)
  BY <1>2, <1>5 DEF CrossOK
<1> QED
  BY <1>3, <1>5, <1>6, <1>7 DEF CrossOK

LEMMA OneLonger ==
  ASSUME NEW F, NEW G, NEW P, NEW Q, NEW e, Continues(F, G, P, Q, e), NEW n,
         NEW name, Gains1(F, G, n, name)
  PROVE  Len(G) + 1 = Len(F) + 2
<1> DEFINE a == Len(F)
           b == Len(G)
<1>1. /\ DOMAIN F = 1 .. a /\ a \in Nat /\ DOMAIN G = 1 .. b /\ b \in Nat
  BY DEF Continues
<1>2. a + 1 \in DOMAIN G /\ \A i \in DOMAIN G : i \in DOMAIN F \/ i = a + 1
  BY DEF Gains1
<1> HIDE DEF a, b
<1>3. a + 1 <= b /\ b \in DOMAIN G
  BY <1>1, <1>2
<1>4. b \in 1 .. a \/ b = a + 1
  BY <1>1, <1>2, <1>3
<1>5. b + 1 = a + 2
  BY <1>1, <1>3, <1>4
<1> QED
  BY <1>5 DEF a, b

\* A mask comes or goes.
Changes(s, u, input, facts, name, x) ==
  /\ name \in {"masked", "unmasked"} /\ u.pending = s.pending
  /\ facts = << FactOf(name, [id |-> x]) >>
  /\ name = "masked" => x = input.mask.id /\ u.masks = s.masks \cup {input.mask}
  /\ name = "unmasked" => u.masks = {m \in s.masks : m.id # x}

LEMMA CrossMasks ==
  ASSUME NEW F, NEW G, NEW P, NEW Q, NEW e, Continues(F, G, P, Q, e), NEW n, NEW s,
         CrossOK(n, s, F, P), NEW u, NEW input, NEW facts, LogGains(F, G, n, e, facts),
         Q[Len(P) + 1].event.payload.value = input, u = NetState(u.masks, u.pending),
         Installs(s, u, input, facts) \/ Removes(s, u, input, facts)
  PROVE  CrossOK(n, u, G, Q)
<1> DEFINE k == Len(F) + 1
<1>1. PICK name, x : Changes(s, u, input, facts, name, x)
  <2>1. CASE Installs(s, u, input, facts)
    <3>1. Changes(s, u, input, facts, "masked", input.mask.id)
      BY <2>1 DEF Installs, Changes
    <3> QED
      BY <3>1
  <2>2. CASE Removes(s, u, input, facts)
    <3>1. Changes(s, u, input, facts, "unmasked", input.id)
      BY <2>2 DEF Removes, Changes
    <3> QED
      BY <3>1
  <2> QED
    BY <2>1, <2>2
<1>2. /\ name \in {"masked", "unmasked"} /\ u.pending = s.pending
      /\ facts = << FactOf(name, [id |-> x]) >>
      /\ name = "masked" => x = input.mask.id /\ u.masks = s.masks \cup {input.mask}
      /\ name = "unmasked" => u.masks = {m \in s.masks : m.id # x}
  BY <1>1 DEF Changes
<1>3. Gains1(F, G, n, name) /\ G[k].value = [id |-> x]
  BY <1>2, OneGained
<1>4. Len(G) + 1 = Len(F) + 2
  BY <1>3, OneLonger
<1>5. WordOf(Q, Len(P) + 1) = input.mask
  BY DEF WordOf
<1>6. \A j \in DOMAIN G \ DOMAIN F : G[j].name = name /\ G[j].value.id = x
  BY <1>3 DEF Gains1
<1>7. u.masks = MasksIn(G, Q, n, Len(G) + 1)
  <2>1. CASE name = "masked"
    <3>1. MasksIn(G, Q, n, Len(F) + 2)
            = MasksIn(F, P, n, Len(F) + 1) \cup {WordOf(Q, Len(P) + 1)}
      BY <1>3, <2>1, MaskComesIn
    <3> QED
      BY <1>2, <1>4, <1>5, <2>1, <3>1 DEF CrossOK
  <2>2. CASE name = "unmasked"
    <3>1. MasksIn(G, Q, n, Len(F) + 2)
            = {m \in MasksIn(F, P, n, Len(F) + 1) : m.id # G[Len(F) + 1].value.id}
      BY <1>3, <2>2, MaskGoesOut DEF CrossOK
    <3>2. G[Len(F) + 1].value.id = x
      BY <1>3
    <3> QED
      BY <1>2, <1>4, <2>2, <3>1, <3>2 DEF CrossOK
  <2> QED
    BY <1>2, <2>1, <2>2
<1>8. WordsMatch(G, Q, n)
  <2>1. \A j \in DOMAIN G \ DOMAIN F :
          MaskedBy(G, n, j) => G[j].value.id = WordOf(Q, Len(P) + 1).id
    BY <1>2, <1>5, <1>6 DEF MaskedBy
  <2> QED
    BY <2>1, WordsKept DEF CrossOK
<1>9. \A i \in DOMAIN G : Judged(G, Q, n, i)
  <2>1. \A i \in DOMAIN F : Judged(G, Q, n, i)
    BY JudgedKept DEF CrossOK
  <2>2. \A i \in DOMAIN G \ DOMAIN F : Judged(G, Q, n, i)
    BY <1>2, <1>6 DEF Judged
  <2> QED
    BY <2>1, <2>2
<1> QED
  BY <1>2, <1>7, <1>8, <1>9 DEF CrossOK

\* The network takes, sends or is polled: its masks stay.
LEMMA CrossSends ==
  ASSUME NEW F, NEW G, NEW P, NEW Q, NEW e, Continues(F, G, P, Q, e), NEW n, NEW s,
         CrossOK(n, s, F, P), QueuesOK(s.pending), NEW u, NEW input,
         NEW facts, LogGains(F, G, n, e, facts), u = NetState(u.masks, u.pending),
         Sends(s, u, input, facts) \/ Polls(s, u, input, facts)
  PROVE  CrossOK(n, u, G, Q)
<1>1. u = NetState(s.masks, u.pending)
  BY DEF Sends, Polls
<1>2. \A j \in DOMAIN facts : facts[j].name = "queued"
  <2>1. CASE Sends(s, u, input, facts)
    BY <2>1 DEF Sends, FactOf
  <2>2. CASE Polls(s, u, input, facts)
    BY <2>2 DEF Polls
  <2> QED
    BY <2>1, <2>2
<1>3. \A k \in DOMAIN G \ DOMAIN F : G[k].name = "queued"
  BY <1>2 DEF LogGains
<1>4. InSpace(u.pending)
  <2>1. CASE Sends(s, u, input, facts)
    <3> SUFFICES ASSUME NEW via \in Links, NEW i \in DOMAIN u.pending[via]
                 PROVE  u.pending[via][i] \in HeaderSpace
      BY DEF InSpace
    <3>1. /\ input.packet \in HeaderSpace
          /\ u.pending = [s.pending EXCEPT ![input.via] = Append(@, input.packet)]
      BY <2>1 DEF Sends
    <3>2. IsSeq(s.pending[via]) /\ DOMAIN s.pending = Links
      BY DEF QueuesOK
    <3>3. \A k \in DOMAIN s.pending[via] : s.pending[via][k] \in HeaderSpace
      BY DEF CrossOK, InSpace
    <3>4. CASE via = input.via
      <4> DEFINE q == s.pending[via]
                 r == Append(q, input.packet)
      <4>1. u.pending[via] = r
        BY <3>1, <3>2, <3>4
      <4>2. /\ DOMAIN q = 1 .. Len(q) /\ Len(q) \in Nat /\ DOMAIN r = 1 .. Len(q) + 1
            /\ r[Len(q) + 1] = input.packet /\ \A k \in 1 .. Len(q) : r[k] = q[k]
        BY <3>2, AppendIsSeq, SeqIsFunction
      <4> HIDE DEF q, r
      <4>3. i \in 1 .. Len(q) \/ i = Len(q) + 1
        BY <4>1, <4>2
      <4> QED
        BY <3>1, <3>3, <4>1, <4>2, <4>3 DEF q
    <3>5. CASE via # input.via
      BY <3>1, <3>2, <3>3, <3>5
    <3> QED
      BY <3>4, <3>5
  <2>2. CASE Polls(s, u, input, facts)
    BY <2>2 DEF Polls, CrossOK
  <2> QED
    BY <2>1, <2>2
<1>5. \A k \in DOMAIN G \ DOMAIN F : Judged(G, Q, n, k)
  BY <1>3 DEF Judged
<1>6. \A k \in DOMAIN G \ DOMAIN F :
        G[k].component = n => G[k].name \notin {"masked", "unmasked"}
  BY <1>3
<1> QED
  BY <1>1, <1>4, <1>5, <1>6, CrossStays

LEMMA CrossTakes ==
  ASSUME PoliciesMean, OutputsRanked,
         NEW F, NEW G, NEW P, NEW Q, NEW e, Continues(F, G, P, Q, e), NEW n, NEW s,
         CrossOK(n, s, F, P), QueuesOK(s.pending), s \in Canonical,
         Policies[s.masks].code = "ok", NEW u, NEW input,
         NEW facts, LogGains(F, G, n, e, facts), u = NetState(u.masks, u.pending),
         Takes(s, u, input, facts)
  PROVE  CrossOK(n, u, G, Q)
<1> DEFINE sel == input.selection
           q == s.pending[sel.via]
           at == sel.index + 1
           packet == q[at]
<1>1. /\ sel.via \in Links /\ sel.index \in 0 .. Len(q) - 1 /\ u.masks = s.masks
      /\ u.pending = IF sel.action = "duplicate" THEN s.pending
                     ELSE [s.pending EXCEPT ![sel.via] = RemoveAt(@, at)]
      /\ facts = Reported(s.masks, sel.action, packet, sel.via)
  BY DEF Takes
<1>2. IsSeq(q) /\ DOMAIN s.pending = Links
  BY <1>1 DEF QueuesOK
<1>3. DOMAIN q = 1 .. Len(q) /\ Len(q) \in Nat
  BY <1>2, SeqIsFunction
<1>4. at \in 1 .. Len(q)
  <2> DEFINE l == Len(q)
             x == sel.index
  <2>1. x \in 0 .. l - 1 /\ l \in Nat
    BY <1>1, <1>3
  <2> HIDE DEF l, x
  <2>2. x + 1 \in 1 .. l
    BY <2>1
  <2> QED
    BY <2>2 DEF l, x
<1>5. \A k \in DOMAIN q : q[k] \in HeaderSpace
  BY <1>1 DEF CrossOK, InSpace
<1>6. packet \in HeaderSpace
  BY <1>3, <1>4, <1>5
<1>7. InSpace(u.pending)
  <2>1. CASE sel.action = "duplicate"
    BY <1>1, <2>1 DEF CrossOK
  <2>2. CASE sel.action # "duplicate"
    <3> DEFINE r == RemoveAt(q, at)
    <3>1. u.pending = [s.pending EXCEPT ![sel.via] = r]
      BY <1>1, <2>2
    <3>2. /\ IsSeq(r) /\ Len(r) = Len(q) - 1
          /\ \A i \in 1 .. Len(q) - 1 : r[i] = IF i < at THEN q[i] ELSE q[i + 1]
      BY <1>2, <1>4, RemoveAtIsSeq
    <3>3. DOMAIN r = 1 .. Len(q) - 1
      BY <3>2, SeqIsFunction
    <3> HIDE DEF r, at
    <3>4. ASSUME NEW i \in DOMAIN r  PROVE r[i] \in HeaderSpace
      <4>1. i \in 1 .. Len(q) /\ i + 1 \in 1 .. Len(q)
        BY <1>3, <3>3, <3>4
      <4> QED
        BY <1>3, <1>5, <3>2, <3>3, <3>4, <4>1
    <3>5. \A via \in Links : \A i \in DOMAIN s.pending[via] : s.pending[via][i] \in HeaderSpace
      BY DEF CrossOK, InSpace
    <3>6. \A via \in Links : u.pending[via] = IF via = sel.via THEN r ELSE s.pending[via]
      BY <1>2, <3>1
    <3> HIDE DEF q
    <3> QED
      BY <3>4, <3>5, <3>6 DEF InSpace
  <2> QED
    BY <2>1, <2>2
<1> HIDE DEF sel, q, at, packet
<1>8. Ranked(BaselineMakes[packet]) /\ IsFiniteSet(BaselineMakes[packet])
  BY <1>6 DEF OutputsRanked
<1>9. Policies[s.masks].made[packet]
        = IF Admits(s.masks, packet) THEN BaselineMakes[packet] ELSE {}
  <2>1. NetState(s.masks, s.pending) \in Canonical
    BY DEF CrossOK
  <2> QED
    BY <1>6, <2>1 DEF PoliciesMean
<1>10. s.masks = MasksIn(F, P, n, Len(F) + 1)
  BY DEF CrossOK
<1>11. /\ \A k \in DOMAIN G \ DOMAIN F : Judged(G, Q, n, k)
       /\ \A k \in DOMAIN G \ DOMAIN F : G[k].name \in Outcomes
  BY <1>1, <1>8, <1>9, <1>10, ReportIsJudged
<1>12. \A k \in DOMAIN G \ DOMAIN F :
         G[k].component = n => G[k].name \notin {"masked", "unmasked"}
  BY <1>11 DEF Outcomes
<1>13. u = NetState(s.masks, u.pending)
  BY <1>1
<1> QED
  BY <1>7, <1>11, <1>12, <1>13, CrossStays

LEMMA CrossAnswers ==
  ASSUME PoliciesMean, OutputsRanked,
         NEW F, NEW G, NEW P, NEW Q, NEW e, Continues(F, G, P, Q, e), NEW n, NEW s,
         CrossOK(n, s, F, P), QueuesOK(s.pending), s \in Canonical,
         Policies[s.masks].code = "ok", NEW u, NEW input,
         Q[Len(P) + 1].event.payload.value = input,
         NEW facts, LogGains(F, G, n, e, facts), u = NetState(u.masks, u.pending),
         NetMove(s, u, input, facts)
  PROVE  CrossOK(n, u, G, Q)
<1>1. CASE Sends(s, u, input, facts) \/ Polls(s, u, input, facts)
  BY <1>1, CrossSends
<1>2. CASE Takes(s, u, input, facts)
  BY <1>2, CrossTakes
<1>3. CASE Installs(s, u, input, facts) \/ Removes(s, u, input, facts)
  BY <1>3, CrossMasks
<1> QED
  BY <1>1, <1>2, <1>3 DEF NetMove

(***************************************************************************)
(* Nothing crosses a mask in the world: where a component other than the   *)
(* network is heard, or none, the network's log only grows.                *)
(***************************************************************************)
CrossInv ==
  \A n \in OfKind("net") : CrossOK(n, world.states[n], world.facts, dispatched)

LEMMA CrossInit ==
  ASSUME NetServed, Init
  PROVE  CrossInv
<1>1. world.facts = << >> /\ dispatched = << >> /\ world.states = InitState
  BY DEF Init, InitialWorld
<1>2. DOMAIN << >> = {} /\ IsSeq(<< >>)
  <2>1. << >> \in Seq({}) /\ DOMAIN << >> = {}
    OBVIOUS
  <2> QED
    BY <2>1 DEF IsSeq
<1>3. ASSUME NEW n \in OfKind("net")
      PROVE  CrossOK(n, InitState[n], << >>, << >>)
  <2>1. InitState[n] = NetState({}, [via \in Links |-> << >>])
    BY DEF NetServed, NetInitial
  <2>2. /\ InitState[n].masks = {}
        /\ InitState[n].pending = [via \in Links |-> << >>]
    BY <2>1 DEF NetState
  <2>3. InSpace(InitState[n].pending)
    BY <1>2, <2>2 DEF InSpace
  <2>4. MasksIn(<< >>, << >>, n, Len(<< >>) + 1) = {}
    BY <1>2 DEF MasksIn
  <2>5. WordsMatch(<< >>, << >>, n)
    BY <1>2 DEF WordsMatch
  <2> QED
    BY <1>2, <2>1, <2>2, <2>3, <2>4, <2>5 DEF CrossOK
<1> QED
  BY <1>1, <1>3 DEF CrossInv

\* Nobody heard the dispatch.
LEMMA UnheardContinues ==
  ASSUME NEW F, IsSeq(F), NEW P, IsSeq(P), NEW d,
         \A i \in DOMAIN F : F[i].event # d.event.id,
         \A i \in DOMAIN P : P[i].event.id # d.event.id
  PROVE  Continues(F, F, P, Append(P, d), d.event.id)
<1> DEFINE Q == Append(P, d)
<1>1. /\ DOMAIN F = 1 .. Len(F) /\ Len(F) \in Nat
      /\ DOMAIN P = 1 .. Len(P) /\ Len(P) \in Nat
  BY SeqIsFunction
<1>2. /\ DOMAIN Q = 1 .. Len(P) + 1 /\ Q[Len(P) + 1] = d
      /\ \A i \in 1 .. Len(P) : Q[i] = P[i]
  BY AppendIsSeq, SeqIsFunction
<1> HIDE DEF Q
<1>3. Len(P) + 1 \notin DOMAIN P /\ DOMAIN Q = DOMAIN P \cup {Len(P) + 1}
  BY <1>1, <1>2
<1> QED
  BY <1>1, <1>2, <1>3 DEF Continues, Q

LEMMA CrossInvStep ==
  ASSUME NetServed, PoliciesMean, OutputsRanked, QueueInv, QueueInv', TypedInv,
         NetInv, CrossInv, [Next]_vars
  PROVE  CrossInv'
<1>1. /\ IsSeq(dispatched) /\ IsSeq(world.facts) /\ FactsDated(world.facts, dispatched)
      /\ world.states \in [Names -> Canonical]
  BY DEF QueueInv, PastOK, NetInv, TypedInv, WorldTyped
<1>2. CASE Unheard
  <2>1. world'.facts = world.facts /\ world'.states = world.states
    BY <1>2 DEF Unheard
  <2>2. CASE dispatched' = dispatched
    BY <2>1, <2>2 DEF CrossInv
  <2>3. ASSUME NEW d, dispatched' = Append(dispatched, d)
        PROVE  CrossInv'
    <3> DEFINE F == world.facts
               Q == Append(dispatched, d)
    <3>1. Continues(F, F, dispatched, Q, d.event.id)
      BY <1>1, <2>3, NextIsNew, UnheardContinues
    <3> HIDE DEF F, Q
    <3>2. ASSUME NEW n \in OfKind("net")  PROVE CrossOK(n, world.states[n], F, Q)
      <4> DEFINE s == world.states[n]
      <4>1. CrossOK(n, s, F, dispatched)
        BY DEF CrossInv, F
      <4> HIDE DEF s
      <4>2. s = NetState(s.masks, s.pending) /\ InSpace(s.pending)
        BY <4>1 DEF CrossOK
      <4>3. \A k \in DOMAIN F \ DOMAIN F : FALSE
        OBVIOUS
      <4>4. CrossOK(n, s, F, Q)
        BY <3>1, <4>1, <4>2, <4>3, CrossStays
      <4> QED
        BY <4>4 DEF s
    <3> QED
      BY <2>1, <2>3, <3>2 DEF CrossInv, F, Q
  <2> QED
    BY <1>2, <2>2, <2>3 DEF Unheard
<1>3. ASSUME NEW m, NEW value, NEW at, NEW id, NEW step, Heard(m, value, at, id, step)
      PROVE  CrossInv'
  <2> DEFINE facts == step.facts
             F == world.facts
             P == dispatched
             G == F \o Stamp(id, at, m, facts)
  <2>1. PICK d : /\ dispatched' = Append(dispatched, d)
                 /\ Answered(d, m, at, id, step.choices) /\ d.event.payload.value = value
    BY <1>3 DEF Heard
  <2>2. /\ m \in Names /\ world'.facts = G /\ facts \in Seq(Fact)
        /\ step.type \notin {"raise", "error"}
        /\ step = Handler(m, world.states[m], value, at)
        /\ world'.states = [world.states EXCEPT ![m] = step.state]
    BY <1>3 DEF Heard
  <2>3. IsSeq(facts)
    BY <2>2 DEF IsSeq
  <2> HIDE DEF facts, F
  <2>4. IsSeq(G) /\ LogGains(F, G, m, id, facts)
    BY <1>1, <2>3, FactsGrow DEF F
  <2> HIDE DEF G
  <2> DEFINE Q == Append(P, d)
  <2>5. d.event.id = id
    BY <2>1 DEF Answered
  <2>6. Continues(F, G, P, Q, id)
    <3>1. /\ \A i \in DOMAIN F : F[i].event # id
          /\ \A i \in DOMAIN P : P[i].event.id # id
      BY <1>1, <2>1, <2>5, NextIsNew DEF F
    <3> QED
      BY <1>1, <2>4, <2>5, <3>1, GainsContinue DEF F
  <2>7. Q[Len(P) + 1].event.payload.value = value
    BY <1>1, <2>1, AppendIsSeq
  <2> HIDE DEF Q, P
  <2>8. ASSUME NEW n \in OfKind("net")
        PROVE  CrossOK(n, world'.states[n], G, Q)
    <3> DEFINE s == world.states[n]
    <3>1. CrossOK(n, s, F, P) /\ QueuesOK(s.pending)
      BY DEF CrossInv, NetInv, NetOK, F, P
    <3>2. CASE n = m
      <4> DEFINE u == step.state
      <4>1. world'.states[n] = u /\ s \in Canonical
        BY <1>1, <2>2, <3>2
      <4>2. step = NetStep(s, value)
        BY <2>2, <3>2 DEF NetServed
      <4>3. /\ u = NetState(u.masks, u.pending) /\ Policies[s.masks].code = "ok"
            /\ NetMove(s, u, value, facts)
        BY <2>2, <4>2, NetMoves DEF facts
      <4> HIDE DEF s, u
      <4>4. LogGains(F, G, n, id, facts)
        BY <2>4, <3>2
      <4>5. CrossOK(n, u, G, Q)
        BY <2>6, <2>7, <3>1, <4>1, <4>3, <4>4, CrossAnswers
      <4> QED
        BY <4>1, <4>5
    <3>3. CASE n # m
      <4>1. world'.states[n] = s
        BY <2>2, <3>3 DEF OfKind
      <4> HIDE DEF s
      <4>2. \A k \in DOMAIN G \ DOMAIN F : G[k].component # n
        BY <2>4, <3>3 DEF LogGains
      <4>3. \A k \in DOMAIN G \ DOMAIN F : Judged(G, Q, n, k)
        BY <4>2 DEF Judged
      <4>4. s = NetState(s.masks, s.pending) /\ InSpace(s.pending)
        BY <3>1 DEF CrossOK
      <4>5. CrossOK(n, s, G, Q)
        BY <2>6, <3>1, <4>2, <4>3, <4>4, CrossStays
      <4> QED
        BY <4>1, <4>5
    <3> QED
      BY <3>2, <3>3
  <2> QED
    BY <2>1, <2>2, <2>8 DEF CrossInv, P, Q
<1> QED
  BY <1>2, <1>3, StepIsHeard

(***************************************************************************)
(* No delivery crosses a mask, in every world where the networks are       *)
(* served by the network model and the policy of a set of masks means what *)
(* the masks and the baseline say: whatever was queued before the mask     *)
(* came, and whichever menu it was taken from, a packet is judged by the   *)
(* masks in force at its delivery (net.shen:7-14, mask.shen:32-50).        *)
(***************************************************************************)
THEOREM NothingCrosses ==
  ASSUME NetServed, PoliciesMean, OutputsRanked
  PROVE  Spec => []NoCrossing
<1>1. NetInv /\ CrossInv => NoCrossing
  <2> SUFFICES ASSUME NetInv, CrossInv, NEW n \in OfKind("net")
               PROVE  LET Admitted(i, packet) == Admits(InForce(n, i), packet)
                          deliveries == FactsBy(n, {"delivered"})
                      IN  /\ \A i \in deliveries :
                               LET sent == Facts[i].value.sent
                               IN  /\ Admitted(i, sent)
                                   /\ {Facts[j].value.packet :
                                         j \in {j \in deliveries :
                                                  Facts[j].event = Facts[i].event}}
                                        = BaselineMakes[sent]
                          /\ \A i \in FactsBy(n, {"blocked"}) :
                               LET packet == Facts[i].value.packet
                               IN  ~Admitted(i, packet) \/ BaselineMakes[packet] = {}
    BY DEF NoCrossing
  <2> DEFINE F == world.facts
             P == dispatched
  <2>1. \A i \in DOMAIN F : Judged(F, P, n, i)
    BY DEF CrossInv, CrossOK
  <2>2. ASSUME NEW i  PROVE InForce(n, i) = MasksIn(F, P, n, i)
    <3>1. \A j : j \in FactsBy(n, {"masked"}) <=> MaskedBy(F, n, j)
      BY DEF FactsBy, Facts, MaskedBy
    <3>2. \A j : Unlifted(n, j, i) <=> OpenAt(F, n, j, i)
      BY DEF Unlifted, FactsBy, Facts, OpenAt
    <3>3. \A d : (\E j \in FactsBy(n, {"masked"}) :
                    Facts[j].event = dispatched[d].event.id /\ Unlifted(n, j, i))
                 <=> Holds(F, P, n, d, i)
      BY <3>1, <3>2 DEF Holds, Facts
    <3> QED
      BY <3>3 DEF InForce, MasksIn, WordOf
  <2>3. ASSUME NEW i
        PROVE  OutOf(F, n, F[i].event)
                 = {Facts[j].value.packet :
                      j \in {j \in FactsBy(n, {"delivered"}) :
                               Facts[j].event = Facts[i].event}}
    BY DEF OutOf, FactsBy, Facts
  <2>4. /\ \A i \in FactsBy(n, {"delivered"}) :
             i \in DOMAIN F /\ F[i].component = n /\ F[i].name = "delivered"
        /\ \A i \in FactsBy(n, {"blocked"}) :
             i \in DOMAIN F /\ F[i].component = n /\ F[i].name = "blocked"
    BY DEF FactsBy, Facts
  <2>5. \A i : Facts[i] = F[i]
    BY DEF Facts
  <2> HIDE DEF F, P
  <2>6. ASSUME NEW i \in FactsBy(n, {"delivered"})
        PROVE  /\ Admits(InForce(n, i), Facts[i].value.sent)
               /\ OutOf(F, n, F[i].event) = BaselineMakes[Facts[i].value.sent]
    BY <2>1, <2>2, <2>4, <2>5 DEF Judged
  <2>7. ASSUME NEW i \in FactsBy(n, {"blocked"})
        PROVE  \/ ~Admits(InForce(n, i), Facts[i].value.packet)
               \/ BaselineMakes[Facts[i].value.packet] = {}
    BY <2>1, <2>2, <2>4, <2>5 DEF Judged
  <2> QED
    BY <2>3, <2>6, <2>7
<1>2. Init => NetInv /\ CrossInv
  BY NetInit, CrossInit
<1>3. QueueInv /\ QueueInv' /\ TypedInv /\ NetInv /\ CrossInv /\ [Next]_vars
        => NetInv' /\ CrossInv'
  BY NetInvStep, CrossInvStep
<1>4. Spec => [](QueueInv /\ TypedInv /\ NetInv /\ CrossInv)
  BY <1>2, <1>3, QueueInvInit, QueueInvStep, TypedInit, TypedStep, PTL DEF Spec
<1> QED
  BY <1>1, <1>4, PTL

-------------------------------------------------------------------------------
(***************************************************************************)
(* What a step without an error makes of the pending events: a submission  *)
(* adds its own; an advance takes the first and adds what it routes.       *)
(***************************************************************************)
Submits(in) ==
  /\ Pending' = Pending \cup {Event(world.nextId, in.at, in.kind, in.payload)}
  /\ world'.time = world.time
  /\ world'.facts = world.facts /\ world'.states = world.states

Pops(e, rest) ==
  /\ Pending = rest \cup {e} /\ world'.time = e.at
  /\ e.id \in Nat /\ e.at \in Nat /\ e.at >= world.time
  /\ \A g \in rest : /\ g.id \in Nat /\ g.at \in Nat /\ g.id < world.nextId
                     /\ EventBefore(e, g)

Ignores(e, rest) ==
  /\ e.kind # "component" /\ Pending' = rest
  /\ world'.facts = world.facts /\ world'.states = world.states

Handles(e, rest, n, step) ==
  /\ e.kind = "component" /\ e.payload.name = n /\ n \in Names
  /\ step = Handler(n, world.states[n], e.payload.value, e.at)
  /\ step.type \notin {"raise", "error"} /\ IsSeq(step.facts)
  /\ world'.facts = world.facts \o Stamp(e.id, e.at, n, step.facts)
  /\ world'.states = [world.states EXCEPT ![n] = step.state]
  /\ Pending' = rest \cup RoutedEvents(RouteDeliveries(n, step.facts), e.at, world.nextId)

LEMMA SubmissionIsSeen ==
  ASSUME QueueInv, NEW in \in Inputs, ScheduleInput(in), error' = NoError
  PROVE  Submits(in)
<1> DEFINE r == Schedule(world, in.at, in.kind, in.payload)
           e == Event(world.nextId, in.at, in.kind, in.payload)
<1>1. world' = r.world /\ r.error = NoError
  BY DEF ScheduleInput, Keep
<1>2. WorldOK(world) /\ in.at \in Int
  <2>1. in.at \in Instants \cup {-1}
    BY InputsAssumption
  <2>2. Instants \subseteq Int /\ -1 \in Int
    BY InstantsAssumption
  <2>3. in.at \in Int
    BY <2>1, <2>2, Zenon
  <2> QED
    BY <2>3 DEF QueueInv
<1>3. ToSet(r.world.pending) = ToSet(world.pending) \cup {e} /\ r.world.facts = world.facts
  <2>1. ASSUME NEW at \in Int, NEW kind, NEW payload,
               Schedule(world, at, kind, payload).error = NoError
        PROVE  LET v == Schedule(world, at, kind, payload).world
               IN  /\ ToSet(v.pending) = ToSet(world.pending)
                                           \cup {Event(world.nextId, at, kind, payload)}
                   /\ v.facts = world.facts
    BY <1>2, <2>1, ScheduleAdds
  <2> QED
    BY <1>1, <1>2, <2>1, Zenon
<1>4. r.world.states = world.states /\ r.world.time = world.time
  BY <1>2, WorldFields DEF Schedule, Reduced, Refused, WorldOK
<1> HIDE DEF r, e
<1> QED
  BY <1>1, <1>3, <1>4 DEF Submits, Pending, e

LEMMA AdvanceIsSeen ==
  ASSUME QueueInv, AdvanceToNextEvent, error' = NoError
  PROVE  \E e, rest : /\ Pops(e, rest)
                      /\ Ignores(e, rest) \/ \E n, step : Handles(e, rest, n, step)
<1> DEFINE a == Popping(world)
           e == Head(world.pending)
           r == Dispatch(a, e)
           rest == ToSet(a.pending)
<1>1. /\ world.pending # << >> /\ world' = Advance(world).world
      /\ error' = Advance(world).error
  BY DEF AdvanceToNextEvent, Keep
<1>2. /\ Advance(world) = r /\ WorldOK(a) /\ Dispatchable(e)
      /\ a.time = e.at /\ a.nextId = world.nextId
      /\ a.pending = Tail(world.pending)
      /\ e = world.pending[1] /\ Len(world.pending) > 0
  BY <1>1, AdvanceIsDispatch DEF QueueInv
<1>3. a.facts = world.facts /\ a.states = world.states
  BY WorldFields DEF Popping, QueueInv, WorldOK
<1>4. Pending = rest \cup {e}
  BY PopMoves
<1>5. r.world.time = e.at
  BY <1>2, DispatchExtends
<1>6. \/ Passes(a, r, e.kind)
      \/ /\ e.kind = "component"
         /\ \E step : Commits(a, r, e.payload.name, e.payload.value, e.at, e.id, step)
  BY <1>2, DispatchIsHeard
<1>7. /\ world.time \in Nat /\ Len(world.pending) \in Nat
      /\ \A i \in 1 .. Len(world.pending) :
           /\ world.pending[i].id \in Nat /\ world.pending[i].at \in Nat
           /\ world.pending[i].id < world.nextId /\ world.pending[i].at >= world.time
           /\ i > 1 => EventBefore(world.pending[1], world.pending[i])
  BY SeqIsFunction DEF QueueInv, WorldOK, Queue, Ordered
<1>8. /\ \A i \in 1 .. Len(world.pending) - 1 : Tail(world.pending)[i] = world.pending[i + 1]
      /\ ToSet(Tail(world.pending))
           = {Tail(world.pending)[i] : i \in 1 .. Len(world.pending) - 1}
  <2>1. /\ IsSeq(Tail(world.pending)) /\ Len(Tail(world.pending)) = Len(world.pending) - 1
        /\ \A i \in 1 .. Len(world.pending) - 1 :
             Tail(world.pending)[i] = world.pending[i + 1]
    BY <1>1, TailIsSeq DEF QueueInv, WorldOK, Queue
  <2> QED
    BY <2>1, ElementsOf
<1> HIDE DEF a, e, r
<1>9. \A g \in rest : \E i \in 1 .. Len(world.pending) : i > 1 /\ g = world.pending[i]
  <2> SUFFICES ASSUME NEW i \in 1 .. Len(world.pending) - 1
               PROVE  \E j \in 1 .. Len(world.pending) :
                        j > 1 /\ Tail(world.pending)[i] = world.pending[j]
    BY <1>2, <1>8
  <2>1. i + 1 \in 1 .. Len(world.pending) /\ i + 1 > 1
    BY <1>7
  <2> QED
    BY <1>8, <2>1
<1> HIDE DEF rest
<1>10. Pops(e, rest)
  <2>1. \A g \in rest : /\ g.id \in Nat /\ g.at \in Nat /\ g.id < world.nextId
                        /\ EventBefore(e, g)
    BY <1>2, <1>7, <1>9
  <2>2. e.id \in Nat /\ e.at \in Nat /\ e.at >= world.time
    <3>1. 1 \in 1 .. Len(world.pending)
      BY <1>2, <1>7
    <3> QED
      BY <1>2, <1>7, <3>1
  <2>3. world'.time = e.at
    BY <1>1, <1>2, <1>5
  <2> QED
    BY <1>4, <2>1, <2>2, <2>3 DEF Pops
<1>11. Pending' = ToSet(r.world.pending) /\ world' = r.world /\ r.error = NoError
  BY <1>1, <1>2 DEF Pending
<1>12. CASE Passes(a, r, e.kind)
  <2>1. Ignores(e, rest)
    BY <1>3, <1>11, <1>12 DEF Passes, Ignores, rest
  <2> QED
    BY <1>10, <2>1
<1>13. ASSUME NEW step, e.kind = "component",
              Commits(a, r, e.payload.name, e.payload.value, e.at, e.id, step)
       PROVE  Handles(e, rest, e.payload.name, step)
  <2> DEFINE n == e.payload.name
             d == RouteDeliveries(n, step.facts)
  <2>1. IsSeq(step.facts)
    BY <1>13 DEF Commits, IsSeq
  <2>2. IsSeq(d)
    BY <2>1, DeliveriesAreASeq
  <2>3. r.world.pending = RouteEnqueue(d, e.at, world.nextId, a.pending)
    BY <1>2, <1>13 DEF Commits
  <2> HIDE DEF d
  <2>4. /\ e.at \in Nat /\ world.nextId \in Nat
        /\ Queue(a.pending) /\ Ordered(a.pending)
        /\ \A i \in 1 .. Len(a.pending) : a.pending[i].id < world.nextId
    BY <1>2, <1>10 DEF WorldOK, Pops
  <2>5. ToSet(r.world.pending) = rest \cup RoutedEvents(d, e.at, world.nextId)
    <3>1. ToSet(RouteEnqueue(d, e.at, world.nextId, a.pending))
            = ToSet(a.pending) \cup RoutedEvents(d, e.at, world.nextId)
      BY <2>2, <2>4, RouteEnqueueOrdered
    <3> QED
      BY <2>3, <3>1 DEF rest
  <2>6. /\ n \in Names /\ step = Handler(n, world.states[n], e.payload.value, e.at)
        /\ step.type \notin {"raise", "error"}
        /\ world'.facts = world.facts \o Stamp(e.id, e.at, n, step.facts)
        /\ world'.states = [world.states EXCEPT ![n] = step.state]
    BY <1>3, <1>11, <1>13 DEF Commits
  <2> HIDE DEF n
  <2> QED
    BY <1>11, <1>13, <2>1, <2>5, <2>6 DEF Handles, n, d
<1> QED
  BY <1>6, <1>10, <1>12, <1>13

LEMMA StepIsSeen ==
  ASSUME QueueInv, Next, error' = NoError
  PROVE  \/ \E in \in Inputs : Submits(in)
         \/ \E e, rest : /\ Pops(e, rest)
                         /\ Ignores(e, rest) \/ \E n, step : Handles(e, rest, n, step)
<1>1. ~AdvanceOfNothing /\ ~RollbackInput
  BY DEF AdvanceOfNothing, RollbackInput, Advance, Reduce, Refused, Keep, NoError
<1> QED
  BY <1>1, SubmissionIsSeen, AdvanceIsSeen DEF Next

-------------------------------------------------------------------------------
(***************************************************************************)
(* What a step's facts make of its routes: each delivery is of one of its  *)
(* facts over a route that carries it, and each such route delivers.       *)
(***************************************************************************)
Delivers(name, facts, x) ==
  \E j \in DOMAIN facts : \E t \in Names :
    /\ x.kind = "component" /\ x.payload = ComponentInput(t, facts[j].value)
    /\ Routed(name, facts[j].name, t)

LEMMA RegisteredNames ==
  /\ \A c \in DOMAIN Registry : Registry[c] \in Names
  /\ \A t \in Names : \E c \in DOMAIN Registry : Registry[c] = t
BY DEF Names, ToSet

LEMMA DeliveriesAreRouted ==
  ASSUME NEW name, NEW facts, IsSeq(facts), NEW at, NEW nextId \in Nat
  PROVE  LET new == RoutedEvents(RouteDeliveries(name, facts), at, nextId)
         IN  /\ \A x \in new : /\ x.at = at /\ x.id \in Nat /\ x.id >= nextId
                               /\ Delivers(name, facts, x)
             /\ \A j \in DOMAIN facts : \A t \in Names :
                  Routed(name, facts[j].name, t) =>
                    \E x \in new : /\ x.kind = "component"
                                   /\ x.payload = ComponentInput(t, facts[j].value)
<1> DEFINE M == Matches(name, facts)
           order == InRouteOrder(M)
           d == RouteDeliveries(name, facts)
           k == Cardinality(M)
           new == RoutedEvents(d, at, nextId)
<1>1. IsFiniteSet(M) /\ M \in SUBSET (Nat \X Nat \X Nat)
  BY MatchesFinite
<1>2. /\ k \in Nat /\ DOMAIN order = 1 .. k
      /\ \A i \in 1 .. k : order[i] \in M
      /\ \A m \in M : \E i \in 1 .. k : order[i] = m
  BY <1>1, RouteOrderIsBijection
<1>3. /\ DOMAIN d = 1 .. k
      /\ \A i \in 1 .. k : d[i] = ComponentInput(Registry[order[i][3]],
                                                 facts[order[i][2]].value)
  BY <1>2 DEF RouteDeliveries
<1>4. IsSeq(d) /\ Len(d) = k
  <2>1. IsSeq(d)
    BY DeliveriesAreASeq
  <2> HIDE DEF d
  <2>2. DOMAIN d = 1 .. Len(d) /\ Len(d) \in Nat
    BY <2>1, SeqIsFunction
  <2> QED
    BY <1>2, <1>3, <2>1, <2>2
<1>5. \A m \in M : /\ m[1] \in DOMAIN Routes /\ m[2] \in DOMAIN facts
                   /\ m[3] \in DOMAIN Registry
                   /\ Carries(m[1], name, facts[m[2]].name, Registry[m[3]])
  BY DEF Matches, Carries
<1>6. \A r \in DOMAIN Routes : \A j \in DOMAIN facts : \A c \in DOMAIN Registry :
        Carries(r, name, facts[j].name, Registry[c]) => << r, j, c >> \in M
  BY DEF Matches, Carries
<1> HIDE DEF d, M, order, k
<1>7. \A x \in new : x.at = at /\ x.id \in Nat /\ x.id >= nextId
  BY <1>4, RoutedCount
<1>8. ASSUME NEW x \in new  PROVE Delivers(name, facts, x)
  <2>1. PICK i \in 1 .. k : x = Event(nextId + i - 1, at, "component", d[i])
    BY <1>4 DEF RoutedEvents
  <2>2. x.kind = "component" /\ x.payload = d[i]
    BY <2>1 DEF Event
  <2> DEFINE m == order[i]
             t == Registry[m[3]]
  <2>3. /\ m[1] \in DOMAIN Routes /\ m[2] \in DOMAIN facts /\ t \in Names
        /\ Carries(m[1], name, facts[m[2]].name, t)
    BY <1>2, <1>5, RegisteredNames
  <2>4. x.payload = ComponentInput(t, facts[m[2]].value)
    BY <1>3, <2>2
  <2> HIDE DEF t, m
  <2>5. Routed(name, facts[m[2]].name, t)
    BY <2>3 DEF Routed
  <2> QED
    BY <2>2, <2>3, <2>4, <2>5 DEF Delivers
<1>9. ASSUME NEW j \in DOMAIN facts, NEW t \in Names, Routed(name, facts[j].name, t)
      PROVE  \E x \in new : /\ x.kind = "component"
                            /\ x.payload = ComponentInput(t, facts[j].value)
  <2>1. PICK c \in DOMAIN Registry : Registry[c] = t
    BY RegisteredNames
  <2>2. PICK r \in DOMAIN Routes : Carries(r, name, facts[j].name, t)
    BY <1>9 DEF Routed
  <2> DEFINE m == << r, j, c >>
  <2>3. m \in M
    BY <1>6, <2>1, <2>2
  <2>4. m[2] = j /\ m[3] = c
    OBVIOUS
  <2> HIDE DEF m
  <2>5. PICK i \in 1 .. k : order[i] = m
    BY <1>2, <2>3
  <2> DEFINE x == Event(nextId + i - 1, at, "component", d[i])
  <2>6. d[i] = ComponentInput(t, facts[j].value)
    BY <1>3, <2>1, <2>4, <2>5
  <2>7. x \in new
    BY <1>4 DEF RoutedEvents
  <2>8. x.kind = "component" /\ x.payload = ComponentInput(t, facts[j].value)
    BY <2>6 DEF Event
  <2> HIDE DEF x, new
  <2> QED
    BY <2>7, <2>8
<1> QED
  BY <1>7, <1>8, <1>9 DEF d

-------------------------------------------------------------------------------
(***************************************************************************)
(* Words on their way.  Among pending words about one thing the one with   *)
(* the greatest identifier has the last say; when none is pending, the     *)
(* receiver is as the sender has it.                                       *)
(***************************************************************************)
Says(e) == e.payload.value.kind \in {"mask", "crash"}

Lands(W, is, shall) ==
  /\ W = {} => (is <=> shall)
  /\ \A e \in W : (\A g \in W : g.id <= e.id) => (Says(e) <=> shall)

\* The first word is heard.
LEMMA LandsHeard ==
  ASSUME NEW V, NEW e, e.id \in Nat, \A g \in V : g.id \in Nat /\ e.id < g.id,
         NEW is, NEW was, NEW shall, Lands(V \cup {e}, was, shall), is <=> Says(e)
  PROVE  Lands(V, is, shall)
<1>1. CASE V = {}
  <2>1. \A g \in V \cup {e} : g.id <= e.id
    BY <1>1
  <2>2. Says(e) <=> shall
    BY <2>1 DEF Lands
  <2> QED
    BY <1>1, <2>2 DEF Lands
<1>2. CASE V # {}
  <2>1. ASSUME NEW x \in V, \A g \in V : g.id <= x.id  PROVE Says(x) <=> shall
    <3>1. \A g \in V \cup {e} : g.id <= x.id
      BY <2>1
    <3> QED
      BY <3>1 DEF Lands
  <2> QED
    BY <1>2, <2>1 DEF Lands
<1> QED
  BY <1>1, <1>2

\* New words come behind the pending ones.
LEMMA LandsTold ==
  ASSUME NEW V, NEW N, \A x \in N : \A g \in V : x.id \in Nat /\ g.id \in Nat /\ g.id < x.id,
         NEW is, NEW was, NEW shall, Lands(V, is, was),
         \A x \in N : Says(x) <=> shall, N = {} => (shall <=> was)
  PROVE  Lands(V \cup N, is, shall)
<1>1. CASE N = {}
  <2>1. V \cup N = V
    BY <1>1
  <2> QED
    BY <1>1, <2>1 DEF Lands
<1>2. CASE N # {}
  <2>1. ASSUME NEW e \in V \cup N, \A g \in V \cup N : g.id <= e.id
        PROVE  Says(e) <=> shall
    <3>1. e \in N
      BY <1>2, <2>1
    <3> QED
      BY <3>1
  <2> QED
    BY <1>2, <2>1 DEF Lands
<1> QED
  BY <1>1, <1>2

-------------------------------------------------------------------------------
(***************************************************************************)
(* The words between the fault model and a receiver: what the receiver is  *)
(* like now, and the words on their way, make what the fault model has     *)
(* decided.                                                                *)
(***************************************************************************)
FaultMask(d, k) == Mask(MaskId(d, k), k, {AddressOf[n] : n \in MembersOf[d]})

Maskable(d, k) == d \in Domains /\ k \in KindsOf[d] /\ ~ProcessFault(k)

About(v, d, k) == v = MaskInput(FaultMask(d, k)) \/ v = UnmaskInput(MaskId(d, k))

WordsTo(E, t) ==
  {e \in E : /\ e.kind = "component" /\ e.payload.name = t
             /\ IsWord(t, e.payload.value)}

WordsOn(E, n, d, k) == {e \in WordsTo(E, n) : About(e.payload.value, d, k)}

Timely(E, t, time) == \A e \in WordsTo(E, t) : e.at = time

NetLands(n, active, masks, E) ==
  /\ \A m \in masks : \E d, k : Maskable(d, k) /\ m = FaultMask(d, k)
  /\ \A e \in WordsTo(E, n) : \E d, k : Maskable(d, k) /\ About(e.payload.value, d, k)
  /\ \A d, k : Maskable(d, k) =>
       Lands(WordsOn(E, n, d, k), FaultMask(d, k) \in masks, k \in active[d])

ProcessLands(p, status, struck, E) == Lands(WordsTo(E, p), status = "crashed", struck)

LEMMA MasksAreApart ==
  ASSUME MasksAreTold, NEW d, NEW k, Maskable(d, k), NEW x, NEW y, Maskable(x, y)
  PROVE  /\ FaultMask(d, k).id = MaskId(d, k)
         /\ MaskId(d, k) = MaskId(x, y) => d = x /\ k = y
         /\ FaultMask(d, k) = FaultMask(x, y) => d = x /\ k = y
         /\ \A v : About(v, d, k) /\ About(v, x, y) => d = x /\ k = y
<1>1. MaskId(d, k) = MaskId(x, y) => d = x /\ k = y
  BY DEF MasksAreTold, Maskable
<1>2. FaultMask(d, k).id = MaskId(d, k) /\ FaultMask(x, y).id = MaskId(x, y)
  BY DEF FaultMask, Mask
<1>3. ASSUME NEW v, About(v, d, k), About(v, x, y)  PROVE d = x /\ k = y
  <2>1. CASE v = MaskInput(FaultMask(d, k))
    <3>1. v.kind = "mask" /\ v.mask = FaultMask(d, k)
      BY <2>1 DEF MaskInput
    <3>2. v = MaskInput(FaultMask(x, y))
      BY <1>3, <3>1 DEF About, UnmaskInput
    <3> QED
      BY <1>1, <1>2, <3>1, <3>2 DEF MaskInput
  <2>2. CASE v = UnmaskInput(MaskId(d, k))
    <3>1. v.kind = "unmask" /\ v.id = MaskId(d, k)
      BY <2>2 DEF UnmaskInput
    <3>2. v = UnmaskInput(MaskId(x, y))
      BY <1>3, <3>1 DEF About, MaskInput
    <3> QED
      BY <1>1, <3>1, <3>2 DEF UnmaskInput
  <2> QED
    BY <1>3, <2>1, <2>2 DEF About
<1> QED
  BY <1>1, <1>2, <1>3

\* A network hears the first event, whatever it says.
LEMMA NetHears ==
  ASSUME MasksAreTold, NEW n, KindOf[n] = "net", NEW active, NEW s, NEW u, NEW facts,
         NEW e, NEW E, NetLands(n, active, s.masks, E \cup {e}),
         e.kind = "component", e.payload.name = n, e.id \in Nat,
         \A g \in WordsTo(E, n) : g.id \in Nat /\ e.id < g.id,
         NetMove(s, u, e.payload.value, facts)
  PROVE  NetLands(n, active, u.masks, E)
<1> DEFINE v == e.payload.value
<1>1. IsWord(n, v) <=> v.kind \in {"mask", "unmask"}
  BY DEF IsWord
<1>2. CASE v.kind \notin {"mask", "unmask"}
  <2>1. u.masks = s.masks
    BY <1>2 DEF NetMove, Sends, Takes, Installs, Removes, Polls
  <2>2. WordsTo(E \cup {e}, n) = WordsTo(E, n)
    BY <1>1, <1>2 DEF WordsTo
  <2> QED
    BY <2>1, <2>2 DEF NetLands, WordsOn
<1>3. CASE v.kind \in {"mask", "unmask"}
  <2>1. e \in WordsTo(E \cup {e}, n) /\ WordsTo(E \cup {e}, n) = WordsTo(E, n) \cup {e}
    BY <1>1, <1>3 DEF WordsTo
  <2>2. PICK d, k : Maskable(d, k) /\ About(v, d, k)
    BY <2>1 DEF NetLands
  <2>3. /\ u.masks = IF v.kind = "mask" THEN s.masks \cup {FaultMask(d, k)}
                     ELSE {m \in s.masks : m.id # MaskId(d, k)}
    <3>1. CASE v.kind = "mask"
      <4>1. Installs(s, u, v, facts)
        BY <3>1 DEF NetMove, Sends, Takes, Removes, Polls
      <4>2. v = MaskInput(FaultMask(d, k))
        BY <2>2, <3>1 DEF About, UnmaskInput
      <4>3. v.mask = FaultMask(d, k)
        BY <4>2 DEF MaskInput
      <4> QED
        BY <3>1, <4>1, <4>3 DEF Installs
    <3>2. CASE v.kind = "unmask"
      <4>1. Removes(s, u, v, facts)
        BY <3>2 DEF NetMove, Sends, Takes, Installs, Polls
      <4>2. v = UnmaskInput(MaskId(d, k))
        BY <2>2, <3>2 DEF About, MaskInput
      <4>3. v.id = MaskId(d, k)
        BY <4>2 DEF UnmaskInput
      <4> QED
        BY <3>2, <4>1, <4>3 DEF Removes
    <3> QED
      BY <1>3, <3>1, <3>2
  <2>4. \A m \in u.masks : \E x, y : Maskable(x, y) /\ m = FaultMask(x, y)
    BY <2>2, <2>3 DEF NetLands
  <2>5. \A g \in WordsTo(E, n) : \E x, y : Maskable(x, y) /\ About(g.payload.value, x, y)
    BY <2>1 DEF NetLands
  <2>6. ASSUME NEW x, NEW y, Maskable(x, y)
        PROVE  Lands(WordsOn(E, n, x, y), FaultMask(x, y) \in u.masks, y \in active[x])
    <3>1. Lands(WordsOn(E \cup {e}, n, x, y), FaultMask(x, y) \in s.masks, y \in active[x])
      BY <2>6 DEF NetLands
    <3>2. CASE d = x /\ k = y
      <4>1. WordsOn(E \cup {e}, n, x, y) = WordsOn(E, n, x, y) \cup {e}
        BY <2>1, <2>2, <3>2 DEF WordsOn
      <4>2. FaultMask(x, y) \in u.masks <=> v.kind = "mask"
        <5>1. FaultMask(d, k).id = MaskId(d, k)
          BY <2>2, MasksAreApart
        <5> QED
          BY <1>3, <2>3, <3>2, <5>1
      <4>3. FaultMask(x, y) \in u.masks <=> Says(e)
        BY <1>3, <4>2 DEF Says
      <4>4. \A g \in WordsOn(E, n, x, y) : g.id \in Nat /\ e.id < g.id
        BY DEF WordsOn
      <4> DEFINE V == WordsOn(E, n, x, y)
                 was == FaultMask(x, y) \in s.masks
                 is == FaultMask(x, y) \in u.masks
                 shall == y \in active[x]
      <4>5. /\ \A g \in V : g.id \in Nat /\ e.id < g.id
            /\ Lands(V \cup {e}, was, shall) /\ (is <=> Says(e))
        BY <3>1, <4>1, <4>3, <4>4
      <4> HIDE DEF V, was, is, shall
      <4>6. Lands(V, is, shall)
        BY <4>5, LandsHeard
      <4> QED
        BY <4>6 DEF V, is, shall
    <3>3. CASE ~(d = x /\ k = y)
      <4>1. WordsOn(E \cup {e}, n, x, y) = WordsOn(E, n, x, y)
        <5>1. ~About(v, x, y)
          BY <2>2, <2>6, <3>3, MasksAreApart
        <5> QED
          BY <2>1, <5>1 DEF WordsOn
      <4>2. FaultMask(x, y) # FaultMask(d, k) /\ FaultMask(x, y).id # MaskId(d, k)
        BY <2>2, <2>6, <3>3, MasksAreApart
      <4>3. FaultMask(x, y) \in u.masks <=> FaultMask(x, y) \in s.masks
        BY <1>3, <2>3, <4>2
      <4> QED
        BY <3>1, <4>1, <4>3 DEF Lands
    <3> QED
      BY <3>2, <3>3
  <2> QED
    BY <2>4, <2>5, <2>6 DEF NetLands
<1> QED
  BY <1>2, <1>3

\* A process heeds the first event, whatever it says.
LEMMA ProcessHeeds ==
  ASSUME ProcessesWrapped, NEW p \in OfKind("process"), NEW s,
         s.status \in {"running", "crashed"}, s.inner.did \in Nat, NEW v, NEW t,
         Handler(p, s, v, t).type \notin {"raise", "error"}
  PROVE  Handler(p, s, v, t).state.status
           = IF v.kind = "crash" THEN "crashed"
             ELSE IF v.kind = "restart" THEN "running" ELSE s.status
<1> DEFINE step == Handler(p, s, v, t)
           r == InnerHandler(p, s.inner, v, t)
<1>1. step = CrashAware(InnerInit[p], s, ControlOf(v), r)
  BY DEF ProcessesWrapped, ProcessStep
<1>2. Keeps(s.inner, r)
  BY DEF ProcessesWrapped
<1> HIDE DEF r
<1>3. CASE v.kind = "crash"
  <2>1. step = Crashed(s)
    BY <1>1, <1>3 DEF CrashAware, ControlOf
  <2> QED
    BY <1>3, <2>1 DEF Crashed, ProcessSteps, ProcessState
<1>4. CASE v.kind = "restart"
  <2>1. step = Restarted(InnerInit[p])
    BY <1>1, <1>4 DEF CrashAware, ControlOf
  <2> QED
    BY <1>4, <2>1 DEF Restarted, ProcessSteps, ProcessInitial, ProcessState
<1>5. CASE v.kind \notin {"crash", "restart"} /\ s.status = "crashed"
  <2>1. step = Absorb(s)
    BY <1>1, <1>5 DEF CrashAware, ControlOf
  <2> QED
    BY <1>5, <2>1 DEF Absorb, ProcessSteps, ProcessState
<1>6. CASE v.kind \notin {"crash", "restart"} /\ s.status = "running"
  <2>1. step = ProcessInner(s, r)
    BY <1>1, <1>6 DEF CrashAware, ControlOf
  <2>2. r.type = "step"
    BY <1>2, <2>1 DEF ProcessInner, Keeps
  <2>3. DOMAIN r = {"type", "state", "facts", "choices"}
    BY <1>2, <2>2 DEF Keeps, Steps
  <2>4. step = [r EXCEPT !.state = ProcessState(s.absorbed, r.state, "running")]
    BY <2>1, <2>2 DEF ProcessInner
  <2>5. step.state = ProcessState(s.absorbed, r.state, "running")
    BY <2>3, <2>4
  <2> QED
    BY <1>6, <2>5 DEF ProcessState
<1> QED
  BY <1>3, <1>4, <1>5, <1>6

LEMMA ProcessHears ==
  ASSUME ProcessesWrapped, NEW p \in OfKind("process"), NEW s,
         s.status \in {"running", "crashed"}, s.inner.did \in Nat,
         NEW struck, NEW e, NEW E, ProcessLands(p, s.status, struck, E \cup {e}),
         e.kind = "component", e.payload.name = p, e.id \in Nat,
         \A g \in WordsTo(E, p) : g.id \in Nat /\ e.id < g.id, NEW t,
         Handler(p, s, e.payload.value, t).type \notin {"raise", "error"}
  PROVE  ProcessLands(p, Handler(p, s, e.payload.value, t).state.status, struck, E)
<1> DEFINE v == e.payload.value
           status == Handler(p, s, v, t).state.status
           V == WordsTo(E, p)
           was == s.status = "crashed"
           is == status = "crashed"
<1>1. /\ status = IF v.kind = "crash" THEN "crashed"
                   ELSE IF v.kind = "restart" THEN "running" ELSE s.status
  BY ProcessHeeds
<1>2. IsWord(p, v) <=> v.kind \in {"crash", "restart"}
  BY DEF IsWord, OfKind
<1>3. CASE v.kind \notin {"crash", "restart"}
  <2>1. WordsTo(E \cup {e}, p) = WordsTo(E, p)
    BY <1>2, <1>3 DEF WordsTo
  <2>2. status = s.status
    BY <1>1, <1>3
  <2> QED
    BY <2>1, <2>2 DEF ProcessLands
<1>4. CASE v.kind \in {"crash", "restart"}
  <2>1. WordsTo(E \cup {e}, p) = V \cup {e}
    BY <1>2, <1>4 DEF WordsTo
  <2>2. is <=> Says(e)
    BY <1>1, <1>4 DEF Says
  <2>3. Lands(V \cup {e}, was, struck)
    BY <2>1 DEF ProcessLands
  <2> HIDE DEF V, was, is
  <2>4. \A g \in V : g.id \in Nat /\ e.id < g.id
    BY DEF V
  <2>5. Lands(V, is, struck)
    BY <2>2, <2>3, <2>4, LandsHeard
  <2> QED
    BY <2>5 DEF ProcessLands, V, is
<1> QED
  BY <1>3, <1>4

-------------------------------------------------------------------------------
(***************************************************************************)
(* What a fault model decides, and what it says of that: one control or    *)
(* one mask word, and a note.                                              *)
(***************************************************************************)
ActiveOK(active) ==
  DOMAIN active = Domains /\ \A d \in Domains : active[d] \subseteq KindsOf[d]

Decides(was, shall, d, k, on, facts) ==
  /\ d \in Domains /\ k \in KindsOf[d] /\ on \in BOOLEAN
  /\ DOMAIN facts = {1, 2}
  /\ facts[1] = IF on THEN Onset(d, k) ELSE ReleaseOf(d, k)
  /\ facts[2].name \in {"activated", "deactivated"}
  /\ \A x \in Domains : \A y : ~ProcessFault(y) =>
       (y \in shall[x] <=> IF x = d /\ y = k THEN on ELSE y \in was[x])

LEMMA FaultTells ==
  ASSUME NEW s, ActiveOK(s.active), NEW input,
         FaultStep(s, input).type \notin {"raise", "error"}
  PROVE  LET step == FaultStep(s, input)
             shall == step.state.active
         IN  /\ ActiveOK(shall)
             /\ \/ shall = s.active /\ step.facts = << >>
                \/ \E d, k, on : Decides(s.active, shall, d, k, on, step.facts)
<1> DEFINE step == FaultStep(s, input)
           was == s.active
           shall == step.state.active
           d == input.domain
           k == input.kind
<1>1. \A code : ModelFails(code).type = "error"
  BY DEF ModelFails, Fails
<1>2. ASSUME NEW active, NEW facts, step = FaultResult(active, facts)
      PROVE  shall = active /\ step.facts = facts
  BY <1>2 DEF FaultResult, Steps, FaultState
<1>3. CASE input.operation = "poll"
  <2>1. step = FaultResult(was, << >>)
    BY <1>3 DEF FaultStep
  <2> HIDE DEF step
  <2>2. shall = was /\ step.facts = << >>
    BY <1>2, <2>1
  <2> QED
    BY <2>2 DEF step
<1>4. CASE input.operation = "activate"
  <2> DEFINE active == IF Pulse(k) THEN was ELSE [was EXCEPT ![d] = @ \cup {k}]
             facts == << Onset(d, k), FactOf("activated", FaultAction(d, k, "activate")) >>
  <2>1. step = Activate(was, d, k) /\ d \in Domains
    BY <1>1, <1>4 DEF FaultStep
  <2>2. k \in KindsOf[d] /\ step = FaultResult(active, facts)
    BY <1>1, <2>1 DEF Activate
  <2>3. shall = active /\ step.facts = facts
    <3> HIDE DEF step, active, facts
    <3> QED
      BY <1>2, <2>2
  <2>4. ActiveOK(active)
    BY <2>1, <2>2 DEF ActiveOK
  <2>5. Decides(was, active, d, k, TRUE, facts)
    <3>1. /\ DOMAIN facts = {1, 2} /\ facts[1] = Onset(d, k)
          /\ facts[2].name = "activated"
      BY DEF FactOf
    <3>2. \A x \in Domains : \A y : ~ProcessFault(y) =>
            (y \in active[x] <=> IF x = d /\ y = k THEN TRUE ELSE y \in was[x])
      <4>1. CASE Pulse(k)
        BY <4>1 DEF Pulse, ProcessFault
      <4>2. CASE ~Pulse(k)
        BY <2>1, <4>2 DEF ActiveOK
      <4> QED
        BY <4>1, <4>2
    <3> HIDE DEF facts, active
    <3> QED
      BY <2>1, <2>2, <3>1, <3>2 DEF Decides
  <2> HIDE DEF step, active, facts, was, d, k
  <2> QED
    BY <2>3, <2>4, <2>5 DEF step, was
<1>5. CASE input.operation = "deactivate"
  <2> DEFINE active == [was EXCEPT ![d] = @ \ {k}]
             facts == << ReleaseOf(d, k),
                         FactOf("deactivated", FaultAction(d, k, "deactivate")) >>
  <2>1. step = Deactivate(was, d, k) /\ d \in Domains
    BY <1>1, <1>5 DEF FaultStep
  <2>2. k \in KindsOf[d] /\ step = FaultResult(active, facts)
    BY <1>1, <2>1 DEF Deactivate
  <2>3. shall = active /\ step.facts = facts
    <3> HIDE DEF step, active, facts
    <3> QED
      BY <1>2, <2>2
  <2>4. ActiveOK(active)
    BY <2>1, <2>2 DEF ActiveOK
  <2>5. Decides(was, active, d, k, FALSE, facts)
    <3>1. /\ DOMAIN facts = {1, 2} /\ facts[1] = ReleaseOf(d, k)
          /\ facts[2].name = "deactivated"
      BY DEF FactOf
    <3>2. \A x \in Domains : \A y : ~ProcessFault(y) =>
            (y \in active[x] <=> IF x = d /\ y = k THEN FALSE ELSE y \in was[x])
      BY <2>1 DEF ActiveOK
    <3> HIDE DEF facts, active
    <3> QED
      BY <2>1, <2>2, <3>1, <3>2 DEF Decides
  <2> HIDE DEF step, active, facts, was, d, k
  <2> QED
    BY <2>3, <2>4, <2>5 DEF step, was
<1>6. CASE input.operation \notin {"poll", "activate", "deactivate"}
  <2>1. step.type = "error"
    BY <1>1, <1>6 DEF FaultStep
  <2> QED
    BY <2>1
<1> QED
  BY <1>3, <1>4, <1>5, <1>6

\* New events are the routed facts of a component, and each of them is there.
Passed(from, facts, new) ==
  /\ \A x \in new : Delivers(from, facts, x)
  /\ \A j \in DOMAIN facts : \A t \in Names :
       Routed(from, facts[j].name, t) =>
         \E x \in new : /\ x.kind = "component"
                        /\ x.payload = ComponentInput(t, facts[j].value)

Behind(E, new, t) ==
  \A x \in new : \A g \in WordsTo(E, t) : x.id \in Nat /\ g.id \in Nat /\ g.id < x.id

\* The control or the word of a fault, whatever it is about.
LEMMA WordsOfFaults ==
  ASSUME NEW d, NEW k, NEW on \in BOOLEAN
  PROVE  LET fact == IF on THEN Onset(d, k) ELSE ReleaseOf(d, k)
         IN  IF ProcessFault(k)
             THEN /\ fact.name \in {"crash", "restart"}
                  /\ fact.value.kind = fact.name
             ELSE /\ fact.name = IF on THEN "mask" ELSE "unmask"
                  /\ fact.value.kind = fact.name
                  /\ About(fact.value, d, k)
BY DEF Onset, ReleaseOf, FactOf, Control, ProcessFault, MaskInput, UnmaskInput,
       About, FaultMask

\* What arrives at a receiver is what was said, and never a note.
LEMMA ArrivesAt ==
  ASSUME FaultsAreHeard, NEW f \in OfKind("fault"),
         NEW t \in OfKind("net") \cup OfKind("process"),
         NEW was, NEW shall, NEW d, NEW k, NEW on, NEW facts,
         Decides(was, shall, d, k, on, facts), NEW new, Passed(f, facts, new)
  PROVE  /\ \A w \in WordsTo(new, t) :
              w.payload.value = facts[1].value /\ IsWord(t, facts[1].value)
         /\ Routed(f, facts[1].name, t) /\ IsWord(t, facts[1].value) =>
              WordsTo(new, t) # {}
<1>1. t \in Names
  BY DEF OfKind
<1>2. ASSUME NEW w \in WordsTo(new, t)
      PROVE  w.payload.value = facts[1].value /\ IsWord(t, facts[1].value)
  <2>1. w \in new /\ w.payload.name = t /\ IsWord(t, w.payload.value)
    BY DEF WordsTo
  <2>2. PICK j \in DOMAIN facts, x \in Names :
          w.payload = ComponentInput(x, facts[j].value) /\ Routed(f, facts[j].name, x)
    BY <2>1 DEF Passed, Delivers
  <2>3. x = t /\ w.payload.value = facts[j].value
    BY <2>1, <2>2 DEF ComponentInput
  <2>4. j # 2
    BY <2>2, <2>3 DEF Decides, FaultsAreHeard
  <2>5. j = 1
    BY <2>4 DEF Decides
  <2> QED
    BY <2>1, <2>3, <2>5
<1>3. ASSUME Routed(f, facts[1].name, t), IsWord(t, facts[1].value)
      PROVE  WordsTo(new, t) # {}
  <2>1. 1 \in DOMAIN facts
    BY DEF Decides
  <2>2. PICK x \in new : x.kind = "component" /\ x.payload = ComponentInput(t, facts[1].value)
    BY <1>1, <1>3, <2>1 DEF Passed
  <2>3. x \in WordsTo(new, t)
    BY <1>3, <2>2 DEF WordsTo, ComponentInput
  <2> QED
    BY <2>3
<1> QED
  BY <1>2, <1>3

LEMMA NetIsTold ==
  ASSUME FaultsAreHeard, MasksAreTold, NEW f \in OfKind("fault"), NEW n \in OfKind("net"),
         NEW was, NEW shall, NEW d, NEW k, NEW on, NEW facts,
         Decides(was, shall, d, k, on, facts), NEW new, Passed(f, facts, new),
         NEW masks, NEW E, NetLands(n, was, masks, E), Behind(E, new, n)
  PROVE  NetLands(n, shall, masks, E \cup new)
<1> DEFINE fact == facts[1]
<1>1. /\ d \in Domains /\ k \in KindsOf[d] /\ on \in BOOLEAN
      /\ fact = IF on THEN Onset(d, k) ELSE ReleaseOf(d, k)
  BY DEF Decides
<1>2. /\ \A w \in WordsTo(new, n) : w.payload.value = fact.value /\ IsWord(n, fact.value)
      /\ Routed(f, fact.name, n) /\ IsWord(n, fact.value) => WordsTo(new, n) # {}
  BY ArrivesAt
<1>3. WordsTo(E \cup new, n) = WordsTo(E, n) \cup WordsTo(new, n)
  BY DEF WordsTo
<1>4. IsWord(n, fact.value) <=> fact.value.kind \in {"mask", "unmask"}
  BY DEF IsWord, OfKind
<1> HIDE DEF fact
<1>5. \A x, y : Maskable(x, y) =>
        (y \in shall[x] <=> IF x = d /\ y = k THEN on ELSE y \in was[x])
  BY DEF Decides, Maskable
<1>6. CASE ProcessFault(k)
  <2>1. WordsTo(new, n) = {}
    BY <1>1, <1>2, <1>4, <1>6, WordsOfFaults
  <2>2. \A x, y : Maskable(x, y) => (y \in shall[x] <=> y \in was[x])
    BY <1>5, <1>6 DEF Maskable
  <2>3. \A x, y : WordsOn(E \cup new, n, x, y) = WordsOn(E, n, x, y)
    BY <1>3, <2>1 DEF WordsOn
  <2>4. WordsTo(E \cup new, n) = WordsTo(E, n)
    BY <1>3, <2>1
  <2> QED
    BY <2>2, <2>3, <2>4 DEF NetLands, Lands
<1>7. CASE ~ProcessFault(k)
  <2>1. /\ Maskable(d, k) /\ About(fact.value, d, k)
        /\ fact.name \in {"mask", "unmask"} /\ fact.value.kind = fact.name
        /\ fact.value.kind = "mask" <=> on
    BY <1>1, <1>7, WordsOfFaults DEF Maskable
  <2>2. WordsTo(new, n) # {}
    BY <1>2, <1>4, <2>1 DEF FaultsAreHeard
  <2>3. \A w \in WordsTo(new, n) : About(w.payload.value, d, k) /\ (Says(w) <=> on)
    BY <1>2, <2>1 DEF Says
  <2>4. ASSUME NEW x, NEW y, Maskable(x, y)
        PROVE  Lands(WordsOn(E \cup new, n, x, y), FaultMask(x, y) \in masks, y \in shall[x])
    <3> DEFINE V == WordsOn(E, n, x, y)
               N == WordsOn(new, n, x, y)
               is == FaultMask(x, y) \in masks
               before == y \in was[x]
               after == y \in shall[x]
    <3>1. WordsOn(E \cup new, n, x, y) = V \cup N
      BY <1>3 DEF WordsOn
    <3>2. Lands(V, is, before)
      BY <2>4 DEF NetLands
    <3>3. \A w \in N : \A g \in V : w.id \in Nat /\ g.id \in Nat /\ g.id < w.id
      BY DEF WordsOn, WordsTo, Behind
    <3>4. (\A w \in N : Says(w) <=> after) /\ (N = {} => (after <=> before))
      <4>1. CASE x = d /\ y = k
        <5>1. after <=> on
          BY <1>5, <2>4, <4>1
        <5>2. N = WordsTo(new, n)
          BY <2>3, <4>1 DEF WordsOn
        <5> QED
          BY <2>2, <2>3, <5>1, <5>2
      <4>2. CASE ~(x = d /\ y = k)
        <5>1. after <=> before
          BY <1>5, <2>4, <4>2
        <5>2. \A w \in WordsTo(new, n) : ~About(w.payload.value, x, y)
          BY <2>1, <2>3, <2>4, <4>2, MasksAreApart
        <5>3. N = {}
          BY <5>2 DEF WordsOn
        <5> QED
          BY <5>1, <5>3
      <4> QED
        BY <4>1, <4>2
    <3> HIDE DEF V, N, is, before, after
    <3>5. Lands(V \cup N, is, after)
      BY <3>2, <3>3, <3>4, LandsTold
    <3> QED
      BY <3>1, <3>5 DEF is, after
  <2>5. \A e \in WordsTo(E \cup new, n) :
          \E x, y : Maskable(x, y) /\ About(e.payload.value, x, y)
    BY <1>3, <2>1, <2>3 DEF NetLands
  <2> QED
    BY <2>4, <2>5 DEF NetLands
<1> QED
  BY <1>6, <1>7

LEMMA ProcessIsTold ==
  ASSUME FaultsAreHeard, NEW f \in OfKind("fault"), NEW p \in OfKind("process"),
         NEW was, NEW shall, NEW d, NEW k, NEW on, NEW facts,
         Decides(was, shall, d, k, on, facts), NEW new, Passed(f, facts, new),
         NEW status, NEW E, NEW struck, ProcessLands(p, status, struck, E),
         Behind(E, new, p)
  PROVE  ProcessLands(p, status,
                      IF ProcessFault(k) THEN facts[1].name = "crash" ELSE struck,
                      E \cup new)
<1> DEFINE fact == facts[1]
           V == WordsTo(E, p)
           N == WordsTo(new, p)
           after == IF ProcessFault(k) THEN fact.name = "crash" ELSE struck
           is == status = "crashed"
<1>1. on \in BOOLEAN /\ fact = IF on THEN Onset(d, k) ELSE ReleaseOf(d, k)
  BY DEF Decides
<1>2. /\ \A w \in N : w.payload.value = fact.value /\ IsWord(p, fact.value)
      /\ Routed(f, fact.name, p) /\ IsWord(p, fact.value) => N # {}
  BY ArrivesAt
<1>3. WordsTo(E \cup new, p) = V \cup N
  BY DEF WordsTo
<1>4. IsWord(p, fact.value) <=> fact.value.kind \in {"crash", "restart"}
  BY DEF IsWord, OfKind
<1>5. \A w \in N : \A g \in V : w.id \in Nat /\ g.id \in Nat /\ g.id < w.id
  BY DEF WordsTo, Behind
<1>6. (\A w \in N : Says(w) <=> after) /\ (N = {} => (after <=> struck))
  <2> HIDE DEF N, fact
  <2>1. CASE ProcessFault(k)
    <3>1. fact.name \in {"crash", "restart"} /\ fact.value.kind = fact.name
      BY <1>1, <2>1, WordsOfFaults
    <3>2. N # {}
      BY <1>2, <1>4, <3>1 DEF FaultsAreHeard
    <3>3. \A w \in N : Says(w) <=> after
      BY <1>2, <2>1, <3>1 DEF Says
    <3> QED
      BY <3>2, <3>3
  <2>2. CASE ~ProcessFault(k)
    <3>1. fact.name \in {"mask", "unmask"} /\ fact.value.kind = fact.name
      BY <1>1, <2>2, WordsOfFaults
    <3>2. N = {}
      BY <1>2, <1>4, <3>1
    <3> QED
      BY <2>2, <3>2
  <2> QED
    BY <2>1, <2>2
<1>7. Lands(V, is, struck)
  BY DEF ProcessLands
<1> HIDE DEF V, N, after, is
<1>8. Lands(V \cup N, is, after)
  BY <1>5, <1>6, <1>7, LandsTold
<1> QED
  BY <1>3, <1>8 DEF ProcessLands, is, after

\* Nothing new is said to it.
LEMMA NothingToldNet ==
  ASSUME NEW n, NEW active, NEW masks, NEW E, NEW new, WordsTo(new, n) = {},
         NetLands(n, active, masks, E)
  PROVE  NetLands(n, active, masks, E \cup new)
<1>1. WordsTo(E \cup new, n) = WordsTo(E, n)
  BY DEF WordsTo
<1> QED
  BY <1>1 DEF NetLands, WordsOn

LEMMA NothingToldProcess ==
  ASSUME NEW p, NEW status, NEW struck, NEW E, NEW new, WordsTo(new, p) = {},
         ProcessLands(p, status, struck, E)
  PROVE  ProcessLands(p, status, struck, E \cup new)
<1>1. WordsTo(E \cup new, p) = WordsTo(E, p)
  BY DEF WordsTo
<1> QED
  BY <1>1 DEF ProcessLands

(***************************************************************************)
(* The last control that the fact log has of a fault model was a crash.    *)
(***************************************************************************)
ControlsIn(F, f) ==
  {i \in DOMAIN F : F[i].component = f /\ F[i].name \in {"crash", "restart"}}

Struck(F, f) ==
  \E i \in ControlsIn(F, f) : /\ F[i].name = "crash"
                              /\ \A j \in ControlsIn(F, f) : j <= i

LEMMA StruckKept ==
  ASSUME NEW F, NEW G, NEW n, NEW id, NEW facts, LogGains(F, G, n, id, facts), NEW f,
         n = f => \A j \in DOMAIN facts : facts[j].name \notin {"crash", "restart"}
  PROVE  Struck(G, f) <=> Struck(F, f)
<1>1. ASSUME NEW i \in DOMAIN G \ DOMAIN F  PROVE i \notin ControlsIn(G, f)
  BY DEF LogGains, ControlsIn
<1>2. ControlsIn(G, f) = ControlsIn(F, f)
  BY <1>1 DEF LogGains, ControlsIn
<1>3. \A i \in ControlsIn(F, f) : G[i] = F[i]
  BY DEF LogGains, ControlsIn
<1> QED
  BY <1>2, <1>3 DEF Struck

LEMMA StruckTold ==
  ASSUME NEW F, IsSeq(F), NEW G, NEW f, NEW id, NEW facts, LogGains(F, G, f, id, facts),
         DOMAIN facts = {1, 2}, facts[1].name \in {"crash", "restart"},
         facts[2].name \notin {"crash", "restart"}
  PROVE  Struck(G, f) <=> facts[1].name = "crash"
<1> DEFINE last == Len(F) + 1
<1>1. DOMAIN F = 1 .. Len(F) /\ Len(F) \in Nat
  BY SeqIsFunction
<1>2. last \in ControlsIn(G, f) /\ G[last].name = facts[1].name
  BY DEF LogGains, ControlsIn
<1>3. ASSUME NEW i \in ControlsIn(G, f)  PROVE i \in Nat /\ i <= last
  <2>1. CASE i \in DOMAIN F
    BY <1>1, <2>1
  <2>2. CASE i \notin DOMAIN F
    <3>1. PICK j \in DOMAIN facts : i = Len(F) + j
      BY <2>2 DEF LogGains, ControlsIn
    <3>2. G[i].name = facts[j].name
      BY <3>1 DEF LogGains
    <3>3. j = 1
      BY <3>2 DEF ControlsIn
    <3> QED
      BY <1>1, <3>1, <3>3
  <2> QED
    BY <2>1, <2>2
<1>4. last \in Nat
  BY <1>1
<1> HIDE DEF last
<1>5. \A i \in ControlsIn(G, f) : (\A j \in ControlsIn(G, f) : j <= i) => i = last
  BY <1>2, <1>3, <1>4
<1> QED
  BY <1>2, <1>3, <1>5 DEF Struck

-------------------------------------------------------------------------------
(***************************************************************************)
(* The inductive invariant: for every fault model, what each network and   *)
(* each process hears of it lands, of words that are all due at this       *)
(* instant.  The hypothesis says that no fact of another component is      *)
(* routed to them as such a word.                                          *)
(***************************************************************************)
OthersLeaveWords ==
  \A m \in Names : KindOf[m] # "fault" =>
    \A s : \A v : \A time :
      LET step == Handler(m, s, v, time)
      IN  step.type \notin {"raise", "error"} =>
            \A j \in DOMAIN step.facts :
              \A t \in OfKind("net") \cup OfKind("process") :
                Routed(m, step.facts[j].name, t) => ~IsWord(t, step.facts[j].value)

LandOK(f, states, facts, E, time) ==
  /\ ActiveOK(states[f].active)
  /\ \A n \in OfKind("net") :
       Timely(E, n, time) /\ NetLands(n, states[f].active, states[n].masks, E)
  /\ \A p \in OfKind("process") :
       Timely(E, p, time) /\ ProcessLands(p, states[p].status, Struck(facts, f), E)

LandInv ==
  error = NoError =>
    \A f \in OfKind("fault") : LandOK(f, world.states, world.facts, Pending, world.time)

LEMMA LandInit ==
  ASSUME NetServed, FaultServed, ProcessesWrapped, Init
  PROVE  LandInv
<1>1. /\ world.facts = << >> /\ world.states = InitState /\ world.pending = << >>
      /\ world.time = 0
  BY DEF Init, InitialWorld
<1>2. Pending = {}
  BY <1>1 DEF Pending, ToSet
<1>3. \A t, d, k : WordsTo({}, t) = {} /\ WordsOn({}, t, d, k) = {}
  BY DEF WordsTo, WordsOn
<1>4. \A f : ~Struck(<< >>, f)
  BY DEF Struck, ControlsIn
<1>5. ASSUME NEW f \in OfKind("fault")
      PROVE  /\ ActiveOK(InitState[f].active)
             /\ \A d \in Domains : InitState[f].active[d] = {}
  BY DEF FaultServed, FaultInitial, FaultState, ActiveOK
<1>6. \A n \in OfKind("net") : InitState[n].masks = {}
  BY DEF NetServed, NetInitial, NetState
<1>7. \A p \in OfKind("process") : InitState[p].status = "running"
  <2>1. \A inner : ProcessInitial(inner).status = "running"
    BY DEF ProcessInitial, ProcessState
  <2> QED
    BY <2>1 DEF ProcessesWrapped
<1>8. ASSUME NEW f \in OfKind("fault"), NEW n \in OfKind("net")
      PROVE  NetLands(n, InitState[f].active, InitState[n].masks, {})
  BY <1>3, <1>5, <1>6 DEF NetLands, Lands, Maskable
<1>9. ASSUME NEW f \in OfKind("fault"), NEW p \in OfKind("process")
      PROVE  ProcessLands(p, InitState[p].status, Struck(<< >>, f), {})
  BY <1>3, <1>4, <1>7 DEF ProcessLands, Lands
<1>10. \A t : Timely({}, t, 0)
  BY <1>3 DEF Timely
<1> QED
  BY <1>1, <1>2, <1>5, <1>8, <1>9, <1>10 DEF LandInv, LandOK

\* An advance takes its event before the words that are on their way.
LEMMA PopKeepsTime ==
  ASSUME NEW e, NEW rest, Pops(e, rest), world.time \in Nat, NEW t,
         Timely(Pending, t, world.time)
  PROVE  /\ Timely(rest, t, e.at)
         /\ \A g \in WordsTo(rest, t) : g.id \in Nat /\ e.id < g.id
         /\ \A g \in WordsTo(rest, t) : g \in rest
<1>1. ASSUME NEW g \in WordsTo(rest, t)
      PROVE  g \in rest /\ g.at = e.at /\ g.id \in Nat /\ e.id < g.id
  <2>1. g \in rest /\ g \in WordsTo(Pending, t)
    BY DEF WordsTo, Pops
  <2>2. g.at = world.time
    BY <2>1 DEF Timely
  <2>3. /\ e.id \in Nat /\ e.at \in Nat /\ e.at >= world.time
        /\ g.id \in Nat /\ EventBefore(e, g)
    BY <2>1 DEF Pops
  <2> QED
    BY <2>1, <2>2, <2>3 DEF EventBefore
<1> QED
  BY <1>1 DEF Timely

LEMMA LandSubmits ==
  ASSUME CallersLeaveWords, NEW in \in Inputs, Submits(in), NEW f,
         LandOK(f, world.states, world.facts, Pending, world.time)
  PROVE  LandOK(f, world'.states, world'.facts, Pending', world'.time)
<1> DEFINE e == Event(world.nextId, in.at, in.kind, in.payload)
<1>1. /\ Pending' = Pending \cup {e} /\ world'.time = world.time
      /\ world'.facts = world.facts /\ world'.states = world.states
  BY DEF Submits
<1>2. ASSUME NEW t \in OfKind("net") \cup OfKind("process")
      PROVE  WordsTo(Pending', t) = WordsTo(Pending, t)
  <2>1. e.kind = in.kind /\ e.payload = in.payload
    BY DEF Event
  <2> HIDE DEF e
  <2>2. ~(e.kind = "component" /\ e.payload.name = t /\ IsWord(t, e.payload.value))
    BY <2>1 DEF CallersLeaveWords
  <2> QED
    BY <1>1, <2>2 DEF WordsTo
<1> HIDE DEF e
<1>3. ASSUME NEW t \in OfKind("net") \cup OfKind("process"), NEW active, NEW masks,
             NEW status, NEW struck
      PROVE  /\ Timely(Pending, t, world.time) => Timely(Pending', t, world.time)
             /\ NetLands(t, active, masks, Pending) => NetLands(t, active, masks, Pending')
             /\ ProcessLands(t, status, struck, Pending)
                  => ProcessLands(t, status, struck, Pending')
  BY <1>2 DEF Timely, NetLands, ProcessLands, WordsOn
<1> QED
  BY <1>1, <1>3 DEF LandOK

LEMMA LandIgnores ==
  ASSUME world.time \in Nat, NEW e, NEW rest, Pops(e, rest), Ignores(e, rest), NEW f,
         LandOK(f, world.states, world.facts, Pending, world.time)
  PROVE  LandOK(f, world'.states, world'.facts, Pending', world'.time)
<1>1. /\ Pending' = rest /\ world'.time = e.at /\ Pending = rest \cup {e}
      /\ world'.facts = world.facts /\ world'.states = world.states
      /\ e.kind # "component"
  BY DEF Pops, Ignores
<1>2. ASSUME NEW t  PROVE WordsTo(rest, t) = WordsTo(Pending, t)
  BY <1>1 DEF WordsTo
<1>3. ASSUME NEW t, NEW active, NEW masks, NEW status, NEW struck
      PROVE  /\ Timely(Pending, t, world.time) => Timely(rest, t, e.at)
             /\ NetLands(t, active, masks, Pending) => NetLands(t, active, masks, rest)
             /\ ProcessLands(t, status, struck, Pending)
                  => ProcessLands(t, status, struck, rest)
  <2>1. Timely(Pending, t, world.time) => Timely(rest, t, e.at)
    BY PopKeepsTime
  <2> QED
    BY <1>2, <2>1 DEF NetLands, ProcessLands, WordsOn
<1> QED
  BY <1>1, <1>3 DEF LandOK

-------------------------------------------------------------------------------
(***************************************************************************)
(* A component answers: first what it hears, then what it says.            *)
(***************************************************************************)
Hears(E, f, states, facts, time) ==
  /\ \A n \in OfKind("net") :
       Timely(E, n, time) /\ NetLands(n, states[f].active, world'.states[n].masks, E)
  /\ \A p \in OfKind("process") :
       /\ Timely(E, p, time)
       /\ ProcessLands(p, world'.states[p].status, Struck(facts, f), E)

LEMMA LandHears ==
  ASSUME NetServed, ProcessesWrapped, MasksAreTold, world.time \in Nat,
         DOMAIN world.states = Names, ProcessInv,
         NEW e, NEW rest, NEW m, NEW step, Pops(e, rest), Handles(e, rest, m, step), NEW f,
         LandOK(f, world.states, world.facts, Pending, world.time)
  PROVE  Hears(rest, f, world.states, world.facts, e.at)
<1>1. /\ Pending = rest \cup {e} /\ e.id \in Nat
      /\ e.kind = "component" /\ e.payload.name = m /\ m \in Names
      /\ step = Handler(m, world.states[m], e.payload.value, e.at)
      /\ step.type \notin {"raise", "error"}
      /\ world'.states = [world.states EXCEPT ![m] = step.state]
  BY DEF Pops, Handles
<1>2. world'.states[m] = step.state /\ \A t \in Names \ {m} : world'.states[t] = world.states[t]
  BY <1>1
<1>3. ASSUME NEW t \in OfKind("net") \cup OfKind("process")
      PROVE  /\ Timely(rest, t, e.at)
             /\ \A g \in WordsTo(rest, t) : g.id \in Nat /\ e.id < g.id
  <2>1. Timely(Pending, t, world.time)
    BY DEF LandOK
  <2> QED
    BY <2>1, PopKeepsTime
<1>4. ASSUME NEW t, t # m  PROVE WordsTo(Pending, t) = WordsTo(rest, t)
  BY <1>1, <1>4 DEF WordsTo
<1>5. ASSUME NEW n \in OfKind("net")
      PROVE  NetLands(n, world.states[f].active, world'.states[n].masks, rest)
  <2> DEFINE s == world.states[n]
             active == world.states[f].active
  <2>1. NetLands(n, active, s.masks, rest \cup {e}) /\ n \in Names /\ KindOf[n] = "net"
    BY <1>1 DEF LandOK, OfKind
  <2>2. CASE n = m
    <3>1. step = NetStep(s, e.payload.value)
      BY <1>1, <2>2 DEF NetServed
    <3>2. NetMove(s, step.state, e.payload.value, step.facts)
      BY <1>1, <3>1, NetMoves
    <3>3. \A g \in WordsTo(rest, n) : g.id \in Nat /\ e.id < g.id
      BY <1>3
    <3> DEFINE u == step.state
    <3> HIDE DEF s, active, u
    <3>4. NetLands(n, active, u.masks, rest)
      BY <1>1, <2>1, <2>2, <3>2, <3>3, NetHears DEF u
    <3> QED
      BY <1>2, <2>2, <3>4 DEF u, active
  <2>3. CASE n # m
    <3>1. world'.states[n] = s
      BY <1>2, <2>1, <2>3
    <3>2. WordsTo(rest \cup {e}, n) = WordsTo(rest, n)
      BY <1>1, <1>4, <2>3
    <3> HIDE DEF s, active
    <3>3. NetLands(n, active, s.masks, rest)
      BY <2>1, <3>2 DEF NetLands, WordsOn
    <3> QED
      BY <3>1, <3>3 DEF active
  <2> QED
    BY <2>2, <2>3
<1>6. ASSUME NEW p \in OfKind("process")
      PROVE  ProcessLands(p, world'.states[p].status, Struck(world.facts, f), rest)
  <2> DEFINE s == world.states[p]
             struck == Struck(world.facts, f)
  <2>1. ProcessLands(p, s.status, struck, rest \cup {e}) /\ p \in Names
    BY <1>1 DEF LandOK, OfKind
  <2>2. CASE p = m
    <3>1. s.status \in {"running", "crashed"} /\ s.inner.did \in Nat
      BY ProcessTypes DEF ProcessInv
    <3>2. \A g \in WordsTo(rest, p) : g.id \in Nat /\ e.id < g.id
      BY <1>3
    <3>3. /\ step = Handler(p, s, e.payload.value, e.at)
          /\ step.type \notin {"raise", "error"} /\ e.payload.name = p
      BY <1>1, <2>2
    <3> HIDE DEF s, struck
    <3>4. ProcessLands(p, step.state.status, struck, rest)
      BY <1>1, <2>1, <3>1, <3>2, <3>3, ProcessHears
    <3> QED
      BY <1>2, <2>2, <3>4 DEF struck
  <2>3. CASE p # m
    <3>1. world'.states[p] = s
      BY <1>2, <2>1, <2>3
    <3>2. WordsTo(rest \cup {e}, p) = WordsTo(rest, p)
      BY <1>1, <1>4, <2>3
    <3> HIDE DEF s, struck
    <3>3. ProcessLands(p, s.status, struck, rest)
      BY <2>1, <3>2 DEF ProcessLands
    <3> QED
      BY <3>1, <3>3 DEF struck
  <2> QED
    BY <2>2, <2>3
<1> QED
  BY <1>3, <1>5, <1>6 DEF Hears

LEMMA LandSays ==
  ASSUME FaultServed, FaultsAreHeard, MasksAreTold, OthersLeaveWords,
         DOMAIN world.states = Names, IsSeq(world.facts), world.nextId \in Nat,
         NEW e, NEW rest, NEW m, NEW step, Pops(e, rest), Handles(e, rest, m, step),
         NEW f \in OfKind("fault"), ActiveOK(world.states[f].active),
         Hears(rest, f, world.states, world.facts, e.at)
  PROVE  LandOK(f, world'.states, world'.facts, Pending', world'.time)
<1> DEFINE facts == step.facts
           F == world.facts
           G == F \o Stamp(e.id, e.at, m, facts)
           new == RoutedEvents(RouteDeliveries(m, facts), e.at, world.nextId)
           was == world.states[f].active
           shall == world'.states[f].active
           targets == OfKind("net") \cup OfKind("process")
<1>1. /\ m \in Names /\ step.type \notin {"raise", "error"} /\ IsSeq(facts)
      /\ step = Handler(m, world.states[m], e.payload.value, e.at)
      /\ world'.facts = G /\ Pending' = rest \cup new /\ world'.time = e.at
      /\ world'.states = [world.states EXCEPT ![m] = step.state]
  BY DEF Handles, Pops
<1>2. /\ Passed(m, facts, new)
      /\ \A x \in new : x.at = e.at /\ x.id \in Nat /\ x.id >= world.nextId
  <2>1. ASSUME NEW name, NEW fs, IsSeq(fs), NEW at, NEW next \in Nat
        PROVE  LET more == RoutedEvents(RouteDeliveries(name, fs), at, next)
               IN  /\ Passed(name, fs, more)
                   /\ \A x \in more : x.at = at /\ x.id \in Nat /\ x.id >= next
    BY <2>1, DeliveriesAreRouted DEF Passed
  <2> HIDE DEF facts
  <2> QED
    BY <1>1, <2>1, Zenon
<1>3. LogGains(F, G, m, e.id, facts)
  BY <1>1, FactsGrow
<1>4. f \in Names /\ KindOf[f] = "fault"
  BY DEF OfKind
<1> HIDE DEF facts, G, new, F
<1>5. ASSUME NEW t \in targets  PROVE Behind(rest, new, t) /\ Timely(rest \cup new, t, e.at)
  <2>1. Timely(rest, t, e.at)
    BY DEF Hears
  <2>2. \A g \in rest : g.id \in Nat /\ g.id < world.nextId
    BY DEF Pops
  <2> QED
    BY <1>2, <2>1, <2>2 DEF Behind, Timely, WordsTo
<1>6. \A n \in OfKind("net") : NetLands(n, was, world'.states[n].masks, rest)
  BY DEF Hears
<1>7. \A p \in OfKind("process") :
        ProcessLands(p, world'.states[p].status, Struck(F, f), rest)
  BY DEF Hears, F
<1> HIDE DEF was, shall
<1>8. SUFFICES /\ ActiveOK(shall)
               /\ \A n \in OfKind("net") :
                    NetLands(n, shall, world'.states[n].masks, rest \cup new)
               /\ \A p \in OfKind("process") :
                    ProcessLands(p, world'.states[p].status, Struck(G, f), rest \cup new)
  BY <1>1, <1>5 DEF LandOK, shall
<1>9. ASSUME \A t \in targets : WordsTo(new, t) = {}, shall = was,
             Struck(G, f) <=> Struck(F, f)
      PROVE  /\ ActiveOK(shall)
             /\ \A n \in OfKind("net") :
                  NetLands(n, shall, world'.states[n].masks, rest \cup new)
             /\ \A p \in OfKind("process") :
                  ProcessLands(p, world'.states[p].status, Struck(G, f), rest \cup new)
  <2>1. ActiveOK(shall)
    BY <1>9 DEF was
  <2>2. \A n \in OfKind("net") : NetLands(n, shall, world'.states[n].masks, rest \cup new)
    BY <1>6, <1>9, NothingToldNet
  <2>3. Struck(G, f) = Struck(F, f)
    BY <1>9 DEF Struck
  <2>4. \A p \in OfKind("process") :
          ProcessLands(p, world'.states[p].status, Struck(G, f), rest \cup new)
    BY <1>7, <1>9, <2>3, NothingToldProcess
  <2> QED
    BY <2>1, <2>2, <2>4
<1>10. CASE m # f
  <2>1. KindOf[m] # "fault"
    BY <1>1, <1>10 DEF FaultsAreHeard, OfKind
  <2>2. shall = was
    BY <1>1, <1>4, <1>10 DEF shall, was
  <2>3. ASSUME NEW t \in targets  PROVE WordsTo(new, t) = {}
    <3>1. ASSUME NEW w \in WordsTo(new, t)  PROVE FALSE
      <4>1. w \in new /\ w.payload.name = t /\ IsWord(t, w.payload.value)
        BY DEF WordsTo
      <4>2. PICK j \in DOMAIN facts, x \in Names :
              w.payload = ComponentInput(x, facts[j].value) /\ Routed(m, facts[j].name, x)
        BY <1>2, <4>1 DEF Passed, Delivers
      <4>3. x = t /\ w.payload.value = facts[j].value
        BY <4>1, <4>2 DEF ComponentInput
      <4>4. Routed(m, facts[j].name, t) => ~IsWord(t, facts[j].value)
        BY <1>1, <2>1 DEF OthersLeaveWords, facts
      <4> QED
        BY <4>1, <4>2, <4>3, <4>4
    <3> QED
      BY <3>1
  <2>4. Struck(G, f) <=> Struck(F, f)
    BY <1>3, <1>10, StruckKept
  <2> QED
    BY <1>9, <2>2, <2>3, <2>4
<1>11. CASE m = f
  <2>1. step = FaultStep(world.states[f], e.payload.value)
    BY <1>1, <1>11 DEF FaultServed
  <2>2. shall = step.state.active
    BY <1>1, <1>4, <1>11 DEF shall
  <2>3. /\ ActiveOK(shall)
        /\ \/ shall = was /\ facts = << >>
           \/ \E d, k, on : Decides(was, shall, d, k, on, facts)
    BY <1>1, <2>1, <2>2, FaultTells DEF was, facts
  <2>4. CASE shall = was /\ facts = << >>
    <3>1. DOMAIN facts = {}
      BY <2>4
    <3>2. new = {}
      BY <1>2, <3>1 DEF Passed, Delivers
    <3>3. \A t \in targets : WordsTo(new, t) = {}
      BY <3>2 DEF WordsTo
    <3>4. Struck(G, f) <=> Struck(F, f)
      BY <1>3, <3>1, StruckKept
    <3> QED
      BY <1>9, <2>4, <3>3, <3>4
  <2>5. ASSUME NEW d, NEW k, NEW on, Decides(was, shall, d, k, on, facts)
        PROVE  /\ \A n \in OfKind("net") :
                    NetLands(n, shall, world'.states[n].masks, rest \cup new)
               /\ \A p \in OfKind("process") :
                    ProcessLands(p, world'.states[p].status, Struck(G, f), rest \cup new)
    <3>1. Passed(f, facts, new)
      BY <1>2, <1>11
    <3>2. \A n \in OfKind("net") :
            NetLands(n, shall, world'.states[n].masks, rest \cup new)
      BY <1>5, <1>6, <2>5, <3>1, NetIsTold
    <3> DEFINE struck == IF ProcessFault(k) THEN facts[1].name = "crash" ELSE Struck(F, f)
    <3>3. \A p \in OfKind("process") :
            ProcessLands(p, world'.states[p].status, struck, rest \cup new)
      BY <1>5, <1>7, <2>5, <3>1, ProcessIsTold
    <3>4. /\ DOMAIN facts = {1, 2} /\ on \in BOOLEAN
          /\ facts[1] = (IF on THEN Onset(d, k) ELSE ReleaseOf(d, k))
          /\ facts[2].name \notin {"crash", "restart"}
      BY <2>5 DEF Decides
    <3>5. Struck(G, f) <=> struck
      <4>1. CASE ProcessFault(k)
        <5>1. facts[1].name \in {"crash", "restart"}
          BY <3>4, <4>1, WordsOfFaults
        <5>2. Struck(G, f) <=> facts[1].name = "crash"
          BY <1>3, <1>11, <3>4, <5>1, StruckTold DEF F
        <5> QED
          BY <4>1, <5>2
      <4>2. CASE ~ProcessFault(k)
        <5>1. facts[1].name \in {"mask", "unmask"}
          BY <3>4, <4>2, WordsOfFaults
        <5>2. \A j \in DOMAIN facts : facts[j].name \notin {"crash", "restart"}
          BY <3>4, <5>1
        <5>3. Struck(G, f) <=> Struck(F, f)
          BY <1>3, <5>2, StruckKept
        <5> QED
          BY <4>2, <5>3
      <4> QED
        BY <4>1, <4>2
    <3>6. ASSUME NEW p \in OfKind("process")
          PROVE  ProcessLands(p, world'.states[p].status, Struck(G, f), rest \cup new)
      <4>1. ProcessLands(p, world'.states[p].status, struck, rest \cup new)
        BY <3>3
      <4> HIDE DEF struck
      <4> QED
        BY <3>5, <4>1 DEF ProcessLands, Lands
    <3> QED
      BY <3>2, <3>6
  <2> QED
    BY <1>9, <2>3, <2>4, <2>5
<1> QED
  BY <1>10, <1>11

LEMMA LandInvStep ==
  ASSUME NetServed, FaultServed, ProcessesWrapped, FaultsAreHeard, MasksAreTold,
         CallersLeaveWords, OthersLeaveWords, QueueInv, TypedInv, ProcessInv,
         LandInv, [Next]_vars
  PROVE  LandInv'
<1> SUFFICES ASSUME error' = NoError, NEW f \in OfKind("fault")
             PROVE  LandOK(f, world'.states, world'.facts, Pending', world'.time)
  BY DEF LandInv
<1>1. CASE UNCHANGED vars
  BY <1>1 DEF LandInv, vars, Pending
<1>2. CASE Next
  <2>1. error = NoError
    BY <1>2 DEF Next, ScheduleInput, AdvanceToNextEvent, AdvanceOfNothing, RollbackInput
  <2>2. LandOK(f, world.states, world.facts, Pending, world.time)
    BY <2>1 DEF LandInv
  <2>3. /\ world.time \in Nat /\ world.nextId \in Nat /\ IsSeq(world.facts)
        /\ DOMAIN world.states = Names
    BY DEF QueueInv, WorldOK, ProcessInv, TypedInv, WorldTyped
  <2>4. \/ \E in \in Inputs : Submits(in)
        \/ \E e, rest : /\ Pops(e, rest)
                        /\ Ignores(e, rest) \/ \E n, step : Handles(e, rest, n, step)
    BY <1>2, StepIsSeen
  <2>5. ASSUME NEW in \in Inputs, Submits(in)
        PROVE  LandOK(f, world'.states, world'.facts, Pending', world'.time)
    BY <2>2, <2>5, LandSubmits
  <2>6. ASSUME NEW e, NEW rest, Pops(e, rest), Ignores(e, rest)
        PROVE  LandOK(f, world'.states, world'.facts, Pending', world'.time)
    BY <2>2, <2>3, <2>6, LandIgnores
  <2>7. ASSUME NEW e, NEW rest, NEW n, NEW step, Pops(e, rest), Handles(e, rest, n, step)
        PROVE  LandOK(f, world'.states, world'.facts, Pending', world'.time)
    <3>1. Hears(rest, f, world.states, world.facts, e.at)
      BY <2>2, <2>3, <2>7, LandHears
    <3>2. ActiveOK(world.states[f].active)
      BY <2>2 DEF LandOK
    <3> QED
      BY <2>3, <2>7, <3>1, <3>2, LandSays
  <2> QED
    BY <2>4, <2>5, <2>6, <2>7
<1> QED
  BY <1>1, <1>2

(***************************************************************************)
(* What the fault model has decided arrives, in every world where networks *)
(* and the one fault model are served by their models, processes run in    *)
(* the wrapper, its words are routed to all they concern, and no one else  *)
(* gives them: when the queue is empty, however the words were interleaved *)
(* with other events, the network's masks are the active reachability      *)
(* faults, and a process is crashed when the last control was a crash      *)
(* (fault.shen, the kinds; ADR 0007 D4).                                   *)
(***************************************************************************)
THEOREM FaultsTakeEffect ==
  ASSUME NetServed, FaultServed, ProcessesWrapped, FaultsAreHeard, MasksAreTold,
         CallersLeaveWords, OthersLeaveWords
  PROVE  Spec => []FaultsLand
<1>1. ProcessInv /\ LandInv => FaultsLand
  <2> SUFFICES ASSUME ProcessInv, LandInv, Settled, NEW f \in OfKind("fault")
               PROVE  /\ \A n \in OfKind("net") :
                           world.states[n].masks = ActiveMasks(world.states[f].active)
                      /\ \A p \in OfKind("process") :
                           LET controls == FactsBy(f, {"crash", "restart"})
                           IN  world.states[p].status = "crashed" <=>
                                 /\ controls # {}
                                 /\ Facts[LastOf(controls)].name = "crash"
    BY DEF FaultsLand
  <2> DEFINE active == world.states[f].active
             F == world.facts
  <2>1. Pending = {} /\ LandOK(f, world.states, F, {}, world.time)
    <3>1. Pending = {}
      BY DEF Settled, Pending, ToSet
    <3> QED
      BY <3>1 DEF Settled, LandInv
  <2>2. \A t, d, k : WordsTo({}, t) = {} /\ WordsOn({}, t, d, k) = {}
    BY DEF WordsTo, WordsOn
  <2>3. ActiveOK(active)
    BY <2>1 DEF LandOK
  <2>4. ASSUME NEW n \in OfKind("net")
        PROVE  world.states[n].masks = ActiveMasks(active)
    <3> DEFINE masks == world.states[n].masks
    <3>1. NetLands(n, active, masks, {})
      BY <2>1 DEF LandOK
    <3> HIDE DEF masks, active
    <3>2. /\ \A m \in masks : \E d, k : Maskable(d, k) /\ m = FaultMask(d, k)
          /\ \A d, k : Maskable(d, k) => (FaultMask(d, k) \in masks <=> k \in active[d])
      BY <2>2, <3>1 DEF NetLands, Lands
    <3>3. \A m : m \in ActiveMasks(active) <=>
                   \E d \in Domains : \E k \in active[d] :
                     ~ProcessFault(k) /\ m = FaultMask(d, k)
      <4> DEFINE Of(d) == {FaultMask(d, k) : k \in {k \in active[d] : ~ProcessFault(k)}}
      <4>1. ActiveMasks(active) = UNION {Of(d) : d \in Domains}
        BY DEF ActiveMasks, FaultMask
      <4>2. \A d : \A m : m \in Of(d) <=> \E k \in active[d] :
                                           ~ProcessFault(k) /\ m = FaultMask(d, k)
        OBVIOUS
      <4> HIDE DEF Of
      <4>3. \A m : m \in ActiveMasks(active) <=> \E d \in Domains : m \in Of(d)
        BY <4>1
      <4> QED
        BY <4>2, <4>3
    <3>4. \A m \in masks : m \in ActiveMasks(active)
      BY <3>2, <3>3 DEF Maskable
    <3>5. \A m \in ActiveMasks(active) : m \in masks
      BY <2>3, <3>2, <3>3 DEF Maskable, ActiveOK
    <3> QED
      BY <3>4, <3>5 DEF masks
  <2>5. ASSUME NEW p \in OfKind("process")
        PROVE  LET controls == FactsBy(f, {"crash", "restart"})
               IN  world.states[p].status = "crashed" <=>
                     controls # {} /\ Facts[LastOf(controls)].name = "crash"
    <3> DEFINE C == ControlsIn(F, f)
    <3>1. C = FactsBy(f, {"crash", "restart"})
      BY DEF FactsBy, Facts, ControlsIn
    <3>2. world.states[p].status = "crashed" <=> Struck(F, f)
      BY <2>1, <2>2 DEF LandOK, ProcessLands, Lands
    <3>3. C \subseteq 1 .. Len(F) /\ Len(F) \in Nat
      BY SeqIsFunction DEF ControlsIn, ProcessInv
    <3>4. ASSUME C # {}  PROVE LastOf(C) \in C /\ \A j \in C : j <= LastOf(C)
      <4> HIDE DEF C, F
      <4> QED
        BY <3>3, <3>4, LastOfPositions
    <3>5. Struck(F, f) <=> C # {} /\ F[LastOf(C)].name = "crash"
      <4>1. ASSUME NEW i \in C, \A j \in C : j <= i  PROVE i = LastOf(C)
        <5>1. C \subseteq Nat
          BY <3>3
        <5> HIDE DEF C
        <5> QED
          BY <4>1, <5>1, LastOfIs
      <4> HIDE DEF F
      <4> QED
        BY <3>4, <4>1 DEF Struck
    <3> QED
      BY <3>1, <3>2, <3>5 DEF Facts
  <2> QED
    BY <2>4, <2>5
<1>2. Init => ProcessInv /\ LandInv
  BY ProcessInit, LandInit
<1>3. QueueInv /\ TypedInv /\ ProcessInv /\ LandInv /\ [Next]_vars
        => ProcessInv' /\ LandInv'
  BY ProcessInvStep, LandInvStep
<1>4. Spec => [](QueueInv /\ TypedInv /\ ProcessInv /\ LandInv)
  BY <1>2, <1>3, QueueInvInit, QueueInvStep, TypedInit, TypedStep, PTL DEF Spec
<1> QED
  BY <1>1, <1>4, PTL
=============================================================================
