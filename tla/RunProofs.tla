------------------------------- MODULE RunProofs -------------------------------
(***************************************************************************)
(* Theorems about the event log of a run: the causes it tells, the digests *)
(* it is identified by, its replay, and what its verification refuses of   *)
(* an altered log or of another engine.                                    *)
(***************************************************************************)
EXTENDS WorldProofs, Recording

-------------------------------------------------------------------------------
(***************************************************************************)
(* What the log of a run tells.  The records speak of a world by its       *)
(* facts and its transcript; the parts of the invariant are stated of any  *)
(* world and log, so that a step can relate two of each.                   *)
(***************************************************************************)
ReachedFrom(f) ==
  {Registry[m[3]] : m \in Matches(f.component, << [name |-> f.name, value |-> f.value] >>)}

\* What is left in the queue by a fact that a record of the log published.
PublishedIn(w, records, n, time, payload, actor) ==
  \E j \in 1 .. n, f \in ToSet(w.facts) :
    /\ IsDispatch(records[j]) /\ records[j].origin = f.event
    /\ f.time = time /\ f.value = payload.value
    /\ actor \in ReachedFrom(f)

\* Record k is the schedule of the event.
Repeats(w, records, k, kind, payload, time) ==
  /\ records[k].type = << "schedule", kind >> /\ records[k].payload = payload
  /\ w.transcript[k].at = time

\* A link leads from an identifier to the record that scheduled it.
LinksOK(w, log) ==
  \A o \in DOMAIN log.links :
    /\ o \in Nat /\ o < w.nextId
    /\ log.links[o] \in Nat /\ log.links[o] < Len(log.records)
    /\ log.records[log.links[o] + 1].origin = o

\* The cause of what is still to be dispatched is on the log.
EventLogged(w, log, e) ==
  /\ e.id \in Nat /\ e.id < w.nextId
  /\ PayloadCode(e.kind, e.payload) = "ok"
  /\ IF e.id \in DOMAIN log.links
     THEN Repeats(w, log.records, log.links[e.id] + 1, e.kind, e.payload, e.at)
     ELSE /\ e.kind = "component"
          /\ PublishedIn(w, log.records, Len(log.records), e.at, e.payload,
                         e.payload.name)

QueueLogged(w, log) ==
  /\ \A e \in ToSet(w.pending) : EventLogged(w, log, e)
  /\ \A e, f \in ToSet(w.pending) : e.id = f.id => e = f

\* The cause of what has been dispatched is on the log, in front of it.
RecordTraced(w, log, i) ==
  LET r == log.records[i]
  IN  /\ r.origin \in Nat /\ r.origin < w.nextId
      /\ IF r.origin \in DOMAIN log.links
         THEN /\ r.parents = << log.links[r.origin] >> /\ log.links[r.origin] + 1 < i
              /\ Repeats(w, log.records, log.links[r.origin] + 1, r.type[2],
                         r.payload, r.time)
         ELSE /\ r.parents = << >> /\ r.type[2] = "component"
              /\ PublishedIn(w, log.records, i - 1, r.time, r.payload, r.actor)

DispatchesOf(log) == {i \in 1 .. Len(log.records) : IsDispatch(log.records[i])}

DispatchesLogged(w, log) ==
  /\ \A i \in DispatchesOf(log) : RecordTraced(w, log, i)
  /\ \A i \in DispatchesOf(log) : \A e \in ToSet(w.pending) :
       log.records[i].origin # e.id
  /\ \A i, j \in DispatchesOf(log) :
       log.records[i].origin = log.records[j].origin => i = j

LogShape(w, log) ==
  /\ DOMAIN log = {"code", "detail", "world", "records", "links"}
  /\ log.code = "ok" /\ log.world = w
  /\ IsSeq(log.records) /\ IsSeq(w.transcript) /\ IsSeq(w.facts)
  /\ Len(log.records) = Len(w.transcript)

LogOK(w, log) ==
  LogShape(w, log) /\ LinksOK(w, log) /\ QueueLogged(w, log) /\ DispatchesLogged(w, log)

LogInv == error = NoError => LogOK(world, Log)

-------------------------------------------------------------------------------
Logged == INSTANCE LeftFold WITH Op <- LogStep

EmptyLog ==
  [code |-> "ok", detail |-> << >>, world |-> InitialWorld,
   records |-> << >>, links |-> [o \in {} |-> 0]]

LEMMA LogIsFold ==
  ASSUME NEW t  PROVE OfRun(InitialWorld, t) = Logged!Folded(EmptyLog, t)
BY DEF OfRun, EmptyLog, Logged!Folded, Logged!FoldLeft, FoldLeft, MapThenFoldSet,
       Logged!MapThenFoldSet, Max, Logged!Max

LEMMA LogOfNothing == OfRun(InitialWorld, << >>) = EmptyLog
BY Logged!FoldedEmpty, LogIsFold

LEMMA LogOfAppend ==
  ASSUME NEW s, IsSeq(s), NEW x
  PROVE  OfRun(InitialWorld, Append(s, x)) = LogStep(OfRun(InitialWorld, s), x)
<1> DEFINE t == Append(s, x)
<1> PICK n : n = Len(s)
  OBVIOUS
<1>1. n \in Nat /\ DOMAIN s = 1 .. n
  BY SeqIsFunction
<1>2. /\ DOMAIN t = 1 .. n + 1 /\ t[n + 1] = x
      /\ \A i \in 1 .. n : t[i] = s[i]
  BY AppendIsSeq, SeqIsFunction
<1> HIDE DEF t
<1>3. OfRun(InitialWorld, t) = LogStep(OfRun(InitialWorld, s), t[n + 1])
  BY <1>1, <1>2, Logged!FoldedMore, LogIsFold
<1> QED
  BY <1>2, <1>3 DEF t

\* What a step that succeeds makes of the log: one record more.
OneMore(w, log, v, more, x, r) ==
  /\ IsSeq(log.records) /\ more.records = Append(log.records, r)
  /\ IsSeq(w.transcript) /\ v.transcript = Append(w.transcript, x)
  /\ Len(log.records) = Len(w.transcript)
  /\ ToSet(w.facts) \subseteq ToSet(v.facts) /\ IsSeq(v.facts)
  /\ w.nextId \in Nat /\ v.nextId \in Nat /\ w.nextId <= v.nextId
  /\ DOMAIN more = {"code", "detail", "world", "records", "links"}
  /\ more.code = "ok" /\ more.world = v

LEMMA OneMoreRecord ==
  ASSUME NEW w, NEW log, NEW v, NEW more, NEW x, NEW r, OneMore(w, log, v, more, x, r)
  PROVE  LET n == Len(log.records)
         IN  /\ n \in Nat /\ Len(more.records) = n + 1
             /\ IsSeq(more.records) /\ IsSeq(v.transcript)
             /\ Len(v.transcript) = n + 1
             /\ \A i \in 1 .. n : /\ more.records[i] = log.records[i]
                                  /\ v.transcript[i] = w.transcript[i]
             /\ more.records[n + 1] = r /\ v.transcript[n + 1] = x
BY AppendIsSeq, SeqIsFunction DEF OneMore

\* A cause on the log stays a cause.
KeepsCauses(w, log, v, more) ==
  /\ \A k \in 1 .. Len(log.records) : \A kind, payload, time :
       Repeats(w, log.records, k, kind, payload, time)
         => Repeats(v, more.records, k, kind, payload, time)
  /\ \A m \in 0 .. Len(log.records) : \A time, payload, actor :
       PublishedIn(w, log.records, m, time, payload, actor)
         => PublishedIn(v, more.records, m, time, payload, actor)

LEMMA CausesKept ==
  ASSUME NEW w, NEW log, NEW v, NEW more, NEW x, NEW r, OneMore(w, log, v, more, x, r)
  PROVE  KeepsCauses(w, log, v, more)
<1> PICK n : n = Len(log.records)
  OBVIOUS
<1>1. /\ n \in Nat
      /\ \A i \in 1 .. n : /\ more.records[i] = log.records[i]
                           /\ v.transcript[i] = w.transcript[i]
  BY OneMoreRecord
<1>2. ToSet(w.facts) \subseteq ToSet(v.facts)
  BY DEF OneMore
<1>3. ASSUME NEW k \in 1 .. n, NEW kind, NEW payload, NEW time,
             Repeats(w, log.records, k, kind, payload, time)
      PROVE  Repeats(v, more.records, k, kind, payload, time)
  BY <1>1, <1>3 DEF Repeats
<1>4. ASSUME NEW m \in 0 .. n, NEW time, NEW payload, NEW actor,
             PublishedIn(w, log.records, m, time, payload, actor)
      PROVE  PublishedIn(v, more.records, m, time, payload, actor)
  <2>1. PICK j \in 1 .. m, f \in ToSet(w.facts) :
          /\ IsDispatch(log.records[j]) /\ log.records[j].origin = f.event
          /\ f.time = time /\ f.value = payload.value
          /\ actor \in ReachedFrom(f)
    BY <1>4 DEF PublishedIn
  <2>2. j \in 1 .. n
    BY <1>1
  <2>3. more.records[j] = log.records[j] /\ f \in ToSet(v.facts)
    BY <1>1, <1>2, <2>2
  <2> QED
    BY <2>1, <2>3 DEF PublishedIn
<1> QED
  BY <1>3, <1>4 DEF KeepsCauses

LEMMA PublishedEarlier ==
  ASSUME NEW w, NEW records, NEW m \in Nat, NEW n \in Nat, m <= n,
         NEW time, NEW payload, NEW actor,
         PublishedIn(w, records, m, time, payload, actor)
  PROVE  PublishedIn(w, records, n, time, payload, actor)
<1>1. 1 .. m \subseteq 1 .. n
  OBVIOUS
<1> QED
  BY <1>1 DEF PublishedIn

\* What was logged of a pending event holds on the longer log, provided its
\* identifier is linked as before.
LEMMA EventKept ==
  ASSUME NEW w, NEW log, NEW v, NEW more, NEW x, NEW r, OneMore(w, log, v, more, x, r),
         LinksOK(w, log), NEW e, EventLogged(w, log, e),
         e.id \in DOMAIN more.links <=> e.id \in DOMAIN log.links,
         e.id \in DOMAIN log.links => more.links[e.id] = log.links[e.id]
  PROVE  EventLogged(v, more, e)
<1> PICK n : n = Len(log.records)
  OBVIOUS
<1>1. n \in Nat /\ Len(more.records) = n + 1
  BY OneMoreRecord
<1>2. e.id \in Nat /\ e.id < v.nextId
  BY DEF EventLogged, OneMore
<1>5. KeepsCauses(w, log, v, more)
  BY CausesKept
<1>3. CASE e.id \in DOMAIN log.links
  <2> PICK k : k = log.links[e.id] + 1
    OBVIOUS
  <2>1. k \in 1 .. n
    BY <1>1, <1>3 DEF LinksOK
  <2>2. Repeats(w, log.records, k, e.kind, e.payload, e.at)
    BY <1>3 DEF EventLogged
  <2>3. Repeats(v, more.records, k, e.kind, e.payload, e.at)
    BY <2>1, <2>2, <1>5 DEF KeepsCauses
  <2> QED
    BY <1>2, <1>3, <2>3 DEF EventLogged
<1>4. CASE e.id \notin DOMAIN log.links
  <2>1. PublishedIn(w, log.records, n, e.at, e.payload, e.payload.name)
    BY <1>4 DEF EventLogged
  <2>2. n \in 0 .. n /\ n <= n + 1
    BY <1>1
  <2>3. PublishedIn(v, more.records, n, e.at, e.payload, e.payload.name)
    BY <2>1, <2>2, <1>5 DEF KeepsCauses
  <2>4. PublishedIn(v, more.records, n + 1, e.at, e.payload, e.payload.name)
    BY <1>1, <2>2, <2>3, PublishedEarlier
  <2> QED
    BY <1>1, <1>2, <1>4, <2>4 DEF EventLogged
<1> QED
  BY <1>3, <1>4

LEMMA TraceKept ==
  ASSUME NEW w, NEW log, NEW v, NEW more, NEW x, NEW r, OneMore(w, log, v, more, x, r),
         LinksOK(w, log), NEW i \in 1 .. Len(log.records), RecordTraced(w, log, i),
         LET o == log.records[i].origin
         IN  /\ o \in DOMAIN more.links <=> o \in DOMAIN log.links
             /\ o \in DOMAIN log.links => more.links[o] = log.links[o]
  PROVE  RecordTraced(v, more, i)
<1> PICK n : n = Len(log.records)
  OBVIOUS
<1> PICK s : s = log.records[i]
  OBVIOUS
<1>1. n \in Nat /\ i \in 1 .. n /\ more.records[i] = s
  BY OneMoreRecord
<1>2. s.origin \in Nat /\ s.origin < v.nextId
  BY DEF RecordTraced, OneMore
<1>5. KeepsCauses(w, log, v, more)
  BY CausesKept
<1>3. CASE s.origin \in DOMAIN log.links
  <2> PICK k : k = log.links[s.origin] + 1
    OBVIOUS
  <2>1. k \in 1 .. n
    BY <1>1, <1>3 DEF LinksOK
  <2>2. Repeats(w, log.records, k, s.type[2], s.payload, s.time)
    BY <1>3 DEF RecordTraced
  <2>3. Repeats(v, more.records, k, s.type[2], s.payload, s.time)
    BY <2>1, <2>2, <1>5 DEF KeepsCauses
  <2> QED
    BY <1>1, <1>2, <1>3, <2>3 DEF RecordTraced
<1>4. CASE s.origin \notin DOMAIN log.links
  <2>1. PublishedIn(w, log.records, i - 1, s.time, s.payload, s.actor)
    BY <1>4 DEF RecordTraced
  <2>2. i - 1 \in 0 .. n
    BY <1>1
  <2>3. PublishedIn(v, more.records, i - 1, s.time, s.payload, s.actor)
    BY <2>1, <2>2, <1>5 DEF KeepsCauses
  <2> QED
    BY <1>1, <1>2, <1>4, <2>3 DEF RecordTraced
<1> QED
  BY <1>3, <1>4

-------------------------------------------------------------------------------
(* One more submission.                                                    *)

\* An accepted payload is one the log can hold.
LEMMA AcceptedPayload ==
  ASSUME NEW kind, NEW payload, EventValid(kind, payload)
  PROVE  PayloadCode(kind, payload) = "ok"
<1>1. kind \in Kinds
  BY DEF EventValid, Kinds
<1>2. kind = "choice" /\ payload.form = "selected" =>
        \A c \in ToSet(payload.coordinates) : CoordinateShape(c)
  BY DEF EventValid
<1> QED
  BY <1>1, <1>2 DEF PayloadCode

SubmissionRecord(at, kind, payload) ==
  [op |-> "schedule", at |-> at, kind |-> kind, payload |-> payload]

\* The log of a submission: its record, and the link to it.
SubmissionLogged(w, log, v, more, x, kind, payload, r) ==
  /\ OneMore(w, log, v, more, x, r)
  /\ r.origin = w.nextId /\ r.type = << "schedule", kind >> /\ r.payload = payload
  /\ more.links = [o \in DOMAIN log.links \cup {w.nextId} |->
                     IF o = w.nextId THEN Len(log.records) ELSE log.links[o]]
  /\ v.nextId = w.nextId + 1

LEMMA ScheduleLogStep ==
  ASSUME NEW w, WorldOK(w), NEW log, LogShape(w, log), NEW at \in Int, NEW kind,
         NEW payload, Schedule(w, at, kind, payload).error = NoError
  PROVE  LET v == Schedule(w, at, kind, payload).world
             x == SubmissionRecord(at, kind, payload)
             more == LogStep(log, x)
         IN  \E r : SubmissionLogged(w, log, v, more, x, kind, payload, r)
<1> DEFINE v == Schedule(w, at, kind, payload).world
           x == SubmissionRecord(at, kind, payload)
           plan == PlanSchedule(x, w.nextId)
           n == Len(log.records)
           r == RecordOf(plan, n, << >>, w, v)
           more == LogStep(log, x)
<1>1. /\ v.facts = w.facts /\ EventValid(kind, payload)
  BY ScheduleAdds
<1>2. WorldOK(v) /\ v.transcript = Append(w.transcript, x)
  BY ScheduleRecords DEF SubmissionRecord
<1>3. v.nextId = w.nextId + 1
  <2>1. ScheduleError(w, at, kind, payload) = "ok"
    BY ScheduleCodes DEF Schedule, Refused
  <2> QED
    BY <2>1, WorldFields DEF Schedule, Reduced, WorldOK
<1>4. x.op = "schedule" /\ x.at = at /\ x.kind = kind /\ x.payload = payload
  BY DEF SubmissionRecord
<1> HIDE DEF x
<1>5. /\ plan.code = "ok" /\ plan.stage = "schedule" /\ plan.origin = w.nextId
      /\ plan.kind = kind /\ plan.payload = payload
  BY <1>1, <1>4, AcceptedPayload DEF PlanSchedule
<1>6. Plan(w, x) = plan
  BY <1>4 DEF Plan
<1>7. Reduce(w, x) = Schedule(w, at, kind, payload)
  BY <1>4 DEF Reduce
<1>8. Parents(plan.stage, plan.origin, log.links) = << >>
  BY <1>5 DEF Parents
<1> DEFINE red == Schedule(w, at, kind, payload)
<1>9. more = LogCommit(log, plan, red)
  BY <1>6, <1>7 DEF LogStep, LogShape
<1>10. red.error = NoError /\ red.world = v
  OBVIOUS
<1> HIDE DEF plan, v, red
<1>11. more = [log EXCEPT
                 !.world   = v,
                 !.records = Append(@, RecordOf(plan, n, << >>, w, v)),
                 !.links   = Linked(plan.stage, plan.origin, n, @)]
  <2> HIDE DEF more
  <2> QED
    BY <1>5, <1>8, <1>9, <1>10 DEF LogCommit, LogShape
<1> HIDE DEF more, n
<1>12. /\ more.world = v /\ more.code = "ok"
       /\ more.records = Append(log.records, r)
       /\ more.links = Linked(plan.stage, plan.origin, n, log.links)
       /\ DOMAIN more = {"code", "detail", "world", "records", "links"}
  BY <1>11 DEF LogShape
<1>13. r.origin = w.nextId /\ r.type = << "schedule", kind >> /\ r.payload = payload
  BY <1>5 DEF RecordOf
<1> HIDE DEF r
<1>14. OneMore(w, log, v, more, x, r)
  <2>1. w.nextId \in Nat /\ v.nextId \in Nat /\ w.nextId <= v.nextId
    BY <1>3 DEF WorldOK
  <2> QED
    BY <1>1, <1>2, <1>12, <2>1 DEF OneMore, LogShape
<1>15. more.links = [o \in DOMAIN log.links \cup {w.nextId} |->
                       IF o = w.nextId THEN Len(log.records) ELSE log.links[o]]
  BY <1>5, <1>12 DEF Linked, n
<1> QED
  BY <1>3, <1>13, <1>14, <1>15 DEF v, x, more, SubmissionLogged

LEMMA ScheduleLogged ==
  ASSUME NEW w, WorldOK(w), NEW log, LogOK(w, log), NEW at \in Int, NEW kind,
         NEW payload, Schedule(w, at, kind, payload).error = NoError
  PROVE  LogOK(Schedule(w, at, kind, payload).world,
               LogStep(log, SubmissionRecord(at, kind, payload)))
<1> PICK v : v = Schedule(w, at, kind, payload).world
  OBVIOUS
<1> PICK x : x = SubmissionRecord(at, kind, payload)
  OBVIOUS
<1> PICK more : more = LogStep(log, x)
  OBVIOUS
<1> PICK n : n = Len(log.records)
  OBVIOUS
<1> PICK id : id = w.nextId
  OBVIOUS
<1>1. LogShape(w, log) /\ LinksOK(w, log) /\ QueueLogged(w, log) /\ DispatchesLogged(w, log)
  BY DEF LogOK
<1>20. PICK r : SubmissionLogged(w, log, v, more, x, kind, payload, r)
  BY <1>1, ScheduleLogStep
<1>2. /\ OneMore(w, log, v, more, x, r)
      /\ r.origin = id /\ r.type = << "schedule", kind >> /\ r.payload = payload
      /\ more.links = [o \in DOMAIN log.links \cup {id} |->
                         IF o = id THEN n ELSE log.links[o]]
      /\ v.nextId = id + 1
  BY <1>20 DEF SubmissionLogged
<1>3. /\ n \in Nat /\ Len(more.records) = n + 1 /\ Len(v.transcript) = n + 1
      /\ IsSeq(more.records) /\ IsSeq(v.transcript)
      /\ \A i \in 1 .. n : more.records[i] = log.records[i]
      /\ more.records[n + 1] = r /\ v.transcript[n + 1] = x
  BY <1>2, OneMoreRecord
<1> PICK e : e = Event(id, at, kind, payload)
  OBVIOUS
<1>4. /\ ToSet(v.pending) = ToSet(w.pending) \cup {e}
      /\ PayloadCode(kind, payload) = "ok"
  <2>1. WorldOK(w) /\ at \in Int /\ Schedule(w, at, kind, payload).error = NoError
    OBVIOUS
  <2>2. /\ ToSet(Schedule(w, at, kind, payload).world.pending)
             = ToSet(w.pending) \cup {Event(w.nextId, at, kind, payload)}
        /\ EventValid(kind, payload)
    BY ONLY <2>1, ScheduleAdds
  <2>3. PayloadCode(kind, payload) = "ok"
    BY ONLY <2>2, AcceptedPayload
  <2> QED
    BY <2>2, <2>3
<1>5. e.id = id /\ e.at = at /\ e.kind = kind /\ e.payload = payload
  BY DEF Event
<1>6. id \in Nat /\ (\A f \in ToSet(w.pending) : f.id \in Nat /\ f.id < id)
  BY <1>1 DEF QueueLogged, EventLogged, WorldOK
<1>7. id \notin DOMAIN log.links
  BY <1>1, <1>6 DEF LinksOK
<1>8. \A o : o # id =>
        /\ o \in DOMAIN more.links <=> o \in DOMAIN log.links
        /\ o \in DOMAIN log.links => more.links[o] = log.links[o]
  BY <1>2
<1>9. LogShape(v, more)
  BY <1>2, <1>3 DEF LogShape, OneMore
<1>10. LinksOK(v, more)
  <2> SUFFICES ASSUME NEW o \in DOMAIN more.links
               PROVE  /\ o \in Nat /\ o < v.nextId
                      /\ more.links[o] \in Nat /\ more.links[o] < n + 1
                      /\ more.records[more.links[o] + 1].origin = o
    BY <1>3 DEF LinksOK
  <2>1. CASE o = id
    <3>1. more.links[o] = n
      BY <1>2, <2>1
    <3> QED
      BY <1>2, <1>3, <1>6, <2>1, <3>1
  <2>2. CASE o # id
    <3>1. o \in DOMAIN log.links /\ more.links[o] = log.links[o]
      BY <1>8, <2>2
    <3>2. /\ o \in Nat /\ o < id /\ log.links[o] \in Nat /\ log.links[o] < n
          /\ log.records[log.links[o] + 1].origin = o
      BY <1>1, <3>1 DEF LinksOK
    <3> PICK k : k = log.links[o]
      OBVIOUS
    <3>3. k + 1 \in 1 .. n /\ k \in Nat /\ k < n + 1
      BY <1>3, <3>2
    <3>4. more.records[k + 1] = log.records[k + 1]
      BY <1>3, <3>3
    <3>5. o < v.nextId
      BY <1>2, <1>6, <3>2
    <3> QED
      BY <3>1, <3>2, <3>3, <3>4, <3>5
  <2> QED
    BY <2>1, <2>2
<1>11. QueueLogged(v, more)
  <2>1. ASSUME NEW f \in ToSet(w.pending)  PROVE EventLogged(v, more, f)
    <3>1. f.id # id /\ EventLogged(w, log, f)
      BY <1>1, <1>6 DEF QueueLogged
    <3>2. /\ f.id \in DOMAIN more.links <=> f.id \in DOMAIN log.links
          /\ f.id \in DOMAIN log.links => more.links[f.id] = log.links[f.id]
      BY <1>8, <3>1
    <3>3. OneMore(w, log, v, more, x, r) /\ LinksOK(w, log)
      BY <1>1, <1>2
    <3> QED
      BY ONLY <3>1, <3>2, <3>3, EventKept
  <2>2. EventLogged(v, more, e)
    <3>1. id \in DOMAIN more.links /\ more.links[id] = n
      BY <1>2
    <3>2. x.at = at
      BY DEF SubmissionRecord
    <3>3. Repeats(v, more.records, n + 1, kind, payload, at)
      BY <1>2, <1>3, <3>2 DEF Repeats
    <3> QED
      BY <1>2, <1>4, <1>5, <1>6, <3>1, <3>3 DEF EventLogged
  <2>3. \A f, g \in ToSet(v.pending) : f.id = g.id => f = g
    BY <1>1, <1>4, <1>5, <1>6 DEF QueueLogged
  <2> QED
    BY <1>4, <2>1, <2>2, <2>3 DEF QueueLogged
<1>12. DispatchesLogged(v, more)
  <2>1. ~IsDispatch(r)
    BY <1>2 DEF IsDispatch
  <2>2. DispatchesOf(more) = DispatchesOf(log)
    BY <1>3, <2>1 DEF DispatchesOf
  <2>3. \A i \in DispatchesOf(log) :
          /\ i \in 1 .. n /\ more.records[i] = log.records[i]
          /\ RecordTraced(w, log, i)
          /\ log.records[i].origin \in Nat /\ log.records[i].origin < id
    BY <1>1, <1>3 DEF DispatchesOf, DispatchesLogged, RecordTraced
  <2>4. ASSUME NEW i \in DispatchesOf(log)  PROVE RecordTraced(v, more, i)
    <3> PICK o : o = log.records[i].origin
      OBVIOUS
    <3>1. o # id
      BY <1>6, <2>3
    <3>2. /\ o \in DOMAIN more.links <=> o \in DOMAIN log.links
          /\ o \in DOMAIN log.links => more.links[o] = log.links[o]
      BY <1>8, <3>1
    <3>3. OneMore(w, log, v, more, x, r) /\ LinksOK(w, log)
      BY <1>1, <1>2
    <3>4. i \in 1 .. Len(log.records) /\ RecordTraced(w, log, i)
      BY <2>3
    <3> QED
      BY <3>2, <3>3, <3>4, TraceKept
  <2>5. \A i \in DispatchesOf(log) : \A f \in ToSet(v.pending) :
          more.records[i].origin # f.id
    BY <1>1, <1>4, <1>5, <1>6, <2>3 DEF DispatchesLogged
  <2> QED
    BY <1>1, <2>2, <2>3, <2>4, <2>5 DEF DispatchesLogged
<1> QED
  BY <1>9, <1>10, <1>11, <1>12 DEF LogOK

-------------------------------------------------------------------------------
(* One more dispatch.                                                      *)

\* A delivery that a dispatch of event e has routed carries a fact that the
\* same dispatch has published.
RoutedBy(v, e, x) ==
  /\ x.kind = "component"
  /\ \E f \in ToSet(v.facts) :
       /\ f.event = e.id /\ f.time = x.at /\ f.value = x.payload.value
       /\ x.payload.name \in ReachedFrom(f)

Publishes(w, v, e, new) ==
  /\ IsSeq(v.facts) /\ ToSet(w.facts) \subseteq ToSet(v.facts)
  /\ v.time = e.at /\ w.nextId <= v.nextId /\ v.nextId \in Nat
  /\ ToSet(v.pending) = ToSet(Tail(w.pending)) \cup new
  /\ \A x \in new : /\ x.id \in Nat /\ w.nextId <= x.id /\ x.id < v.nextId
                    /\ RoutedBy(v, e, x)
  /\ \A x, y \in new : x.id = y.id => x = y

\* A match of a step's facts is a match of the fact it names.
LEMMA DeliveryReaches ==
  ASSUME NEW name, NEW facts, IsSeq(facts), NEW k \in 1 .. Len(RouteDeliveries(name, facts))
  PROVE  \E i \in 1 .. Len(facts) :
           /\ RouteDeliveries(name, facts)[k].value = facts[i].value
           /\ RouteDeliveries(name, facts)[k].name
                \in {Registry[m[3]] : m \in Matches(name, << [name |-> facts[i].name,
                                                             value |-> facts[i].value] >>)}
<1> PICK M : M = Matches(name, facts)
  OBVIOUS
<1> PICK order : order = InRouteOrder(M)
  OBVIOUS
<1> PICK d : d = RouteDeliveries(name, facts)
  OBVIOUS
<1>1. M \in SUBSET (Nat \X Nat \X Nat) /\ IsFiniteSet(M) /\ DOMAIN facts = 1 .. Len(facts)
  BY MatchesFinite
<1>2. /\ DOMAIN order = 1 .. Cardinality(M) /\ Cardinality(M) \in Nat
      /\ \A i \in 1 .. Cardinality(M) : order[i] \in M
  BY <1>1, RouteOrderIsBijection
<1>3. d = [i \in DOMAIN order |-> ComponentInput(Registry[order[i][3]],
                                                 facts[order[i][2]].value)]
  BY DEF RouteDeliveries
<1>4. IsSeq(d)
  BY DeliveriesAreASeq
<1>5. DOMAIN d = 1 .. Len(d) /\ k \in DOMAIN d
  BY <1>4, SeqIsFunction
<1>6. k \in DOMAIN order /\ DOMAIN d = DOMAIN order
  BY <1>3, <1>5
<1> PICK m : m = order[k]
  OBVIOUS
<1>7. m \in M
  BY <1>2, <1>6
<1>8. d[k] = ComponentInput(Registry[m[3]], facts[m[2]].value)
  BY <1>3, <1>6
<1> PICK i : i = m[2]
  OBVIOUS
<1>9. /\ m[1] \in DOMAIN Routes /\ i \in DOMAIN facts /\ m[3] \in DOMAIN Registry
      /\ Routes[m[1]].from = name /\ Routes[m[1]].fact = facts[i].name
      /\ IF Routes[m[1]].to.type = "component" THEN Routes[m[1]].to.id = Registry[m[3]]
         ELSE NodeOf[Registry[m[3]]] = Routes[m[1]].to.id
  BY <1>7 DEF Matches
<1> PICK one : one = << [name |-> facts[i].name, value |-> facts[i].value] >>
  OBVIOUS
<1>10. DOMAIN one = 1 .. 1 /\ one[1].name = facts[i].name
  OBVIOUS
<1> PICK p : p = << m[1], 1, m[3] >>
  OBVIOUS
<1>11. p \in Matches(name, one)
  <2>1. p[1] = m[1] /\ p[2] = 1 /\ p[3] = m[3]
    OBVIOUS
  <2>2. p \in (DOMAIN Routes) \X (DOMAIN one) \X (DOMAIN Registry)
    BY <1>9, <1>10
  <2> QED
    BY <1>9, <1>10, <2>1, <2>2 DEF Matches
<1>12. Registry[m[3]] \in {Registry[q[3]] : q \in Matches(name, one)}
  <2>1. p[3] = m[3]
    OBVIOUS
  <2> QED
    BY <1>11, <2>1
<1>13. d[k].name = Registry[m[3]] /\ d[k].value = facts[i].value
  BY <1>8 DEF ComponentInput
<1> QED
  BY <1>1, <1>9, <1>12, <1>13

\* What a step stamps joins the facts, and each fact of the step is there.
StampedIn(all, id, at, name, fact) ==
  \E f \in ToSet(all) :
    /\ f.component = name /\ f.event = id /\ f.time = at
    /\ f.name = fact.name /\ f.value = fact.value

JoinedBy(past, all, id, at, name, facts) ==
  /\ IsSeq(all) /\ ToSet(past) \subseteq ToSet(all)
  /\ \A i \in 1 .. Len(facts) : StampedIn(all, id, at, name, facts[i])

LEMMA FactsStamped ==
  ASSUME NEW past, IsSeq(past), NEW facts, IsSeq(facts), NEW id, NEW at, NEW name,
         NEW all, all = past \o Stamp(id, at, name, facts)
  PROVE  JoinedBy(past, all, id, at, name, facts)
<1> DEFINE stamped == Stamp(id, at, name, facts)
           whole == past \o stamped
<1>1. IsSeq(whole) /\ DOMAIN whole = 1 .. Len(past) + Len(facts)
  BY StampedIsSeq
<1>2. \A i \in 1 .. Len(past) : whole[i] = past[i]
  BY StampedIsSeq
<1>3. \A i \in 1 .. Len(facts) : whole[Len(past) + i] = stamped[i]
  BY StampedIsSeq
<1>4. \A i \in 1 .. Len(facts) : /\ stamped[i].component = name
                                 /\ stamped[i].event = id /\ stamped[i].time = at
                                 /\ stamped[i].name = facts[i].name
                                 /\ stamped[i].value = facts[i].value
  BY StampedIsSeq
<1>5. all = whole
  OBVIOUS
<1> HIDE DEF stamped, whole
<1>6. DOMAIN past = 1 .. Len(past) /\ Len(past) \in Nat /\ Len(facts) \in Nat
  BY SeqIsFunction
<1>7. ToSet(past) \subseteq ToSet(whole)
  <2>1. \A i \in 1 .. Len(past) : i \in DOMAIN whole
    BY ONLY <1>1, <1>6
  <2> QED
    BY ONLY <1>2, <1>6, <2>1 DEF ToSet
<1>8. ASSUME NEW i \in 1 .. Len(facts)
      PROVE  StampedIn(whole, id, at, name, facts[i])
  <2>1. Len(past) + i \in DOMAIN whole
    BY <1>1, <1>6
  <2>2. stamped[i] \in ToSet(whole)
    BY <1>3, <2>1 DEF ToSet
  <2> QED
    BY <1>4, <2>2 DEF StampedIn
<1> QED
  BY <1>1, <1>5, <1>7, <1>8 DEF JoinedBy

LEMMA DeliveriesIdentified ==
  ASSUME NEW d, Len(d) \in Nat, NEW at, NEW nextId \in Nat,
         NEW x \in RoutedEvents(d, at, nextId), NEW y \in RoutedEvents(d, at, nextId),
         x.id = y.id
  PROVE  x = y
<1>1. PICK k \in 1 .. Len(d) : x = Event(nextId + k - 1, at, "component", d[k])
  BY DEF RoutedEvents
<1>2. PICK l \in 1 .. Len(d) : y = Event(nextId + l - 1, at, "component", d[l])
  BY DEF RoutedEvents
<1>3. nextId + k - 1 = nextId + l - 1
  BY <1>1, <1>2 DEF Event
<1>4. k = l
  BY ONLY <1>3, nextId \in Nat, k \in 1 .. Len(d), l \in 1 .. Len(d), Len(d) \in Nat
<1> QED
  BY <1>1, <1>2, <1>4

LEMMA AdvancePublishes ==
  ASSUME NEW w, WorldOK(w), IsSeq(w.facts), w.pending # << >>
  PROVE  \E new : Publishes(w, Advance(w).world, Head(w.pending), new)
<1> PICK a : a = Popping(w)
  OBVIOUS
<1> PICK e : e = Head(w.pending)
  OBVIOUS
<1> PICK r : r = Dispatch(a, e)
  OBVIOUS
<1> PICK v : v = r.world
  OBVIOUS
<1>1. /\ Advance(w) = r /\ WorldOK(a) /\ Dispatchable(e) /\ a.time = e.at
      /\ a.nextId = w.nextId /\ a.pending = Tail(w.pending)
  BY AdvanceIsDispatch
<1>2. a.facts = w.facts
  BY WorldFields DEF Popping, WorldOK
<1>3. WorldOK(v) /\ Extends(a, v) /\ v.time = a.time
  BY <1>1, DispatchExtends
<1>4. w.nextId \in Nat /\ v.nextId \in Nat /\ w.nextId <= v.nextId
  BY <1>1, <1>3 DEF Extends, WorldOK
<1>5. Uncommitted(a, r) \/ \E step : Committed(a, e, r, step)
  BY <1>1, DispatchCommits
<1>6. CASE Uncommitted(a, r)
  <2>1. v.pending = Tail(w.pending) /\ v.facts = w.facts
    BY <1>1, <1>2, <1>6 DEF Uncommitted
  <2>2. Publishes(w, v, e, {})
    BY <1>1, <1>3, <1>4, <2>1 DEF Publishes
  <2> QED
    BY <1>1, <2>2
<1>7. ASSUME NEW step, Committed(a, e, r, step)
      PROVE  \E new : Publishes(w, v, e, new)
  <2> DEFINE name == e.payload.name
             facts == step.facts
             d == RouteDeliveries(name, facts)
             new == RoutedEvents(d, a.time, a.nextId)
  <2>1. IsSeq(facts) /\ v.facts = w.facts \o Stamp(e.id, a.time, name, facts)
    BY <1>2, <1>7 DEF Committed, IsSeq
  <2>2. /\ IsSeq(d) /\ Len(d) \in Nat
        /\ ToSet(v.pending) = ToSet(a.pending) \cup new
    BY <1>1, <1>7, CommitRoutes
  <2> HIDE DEF facts, name
  <2>3. /\ IsSeq(v.facts) /\ ToSet(w.facts) \subseteq ToSet(v.facts)
        /\ \A i \in 1 .. Len(facts) : StampedIn(v.facts, e.id, a.time, name, facts[i])
    <3> PICK past : past = w.facts
      OBVIOUS
    <3> PICK all : all = v.facts
      OBVIOUS
    <3> PICK id : id = e.id
      OBVIOUS
    <3> PICK at : at = a.time
      OBVIOUS
    <3>1. IsSeq(past) /\ IsSeq(facts) /\ all = past \o Stamp(id, at, name, facts)
      BY <2>1
    <3>2. JoinedBy(past, all, id, at, name, facts)
      BY ONLY <3>1, FactsStamped
    <3> QED
      BY <3>2 DEF JoinedBy
  <2>4. ASSUME NEW x \in new
        PROVE  x.id \in Nat /\ w.nextId <= x.id /\ RoutedBy(v, e, x)
    <3>1. PICK k \in 1 .. Len(d) : x = Event(a.nextId + k - 1, a.time, "component", d[k])
      BY DEF RoutedEvents
    <3>2. /\ x.id = w.nextId + k - 1 /\ x.at = a.time /\ x.kind = "component"
          /\ x.payload = d[k]
      BY <1>1, <3>1 DEF Event
    <3>3. PICK i \in 1 .. Len(facts) :
            /\ d[k].value = facts[i].value
            /\ d[k].name \in {Registry[m[3]] :
                 m \in Matches(name, << [name |-> facts[i].name,
                                         value |-> facts[i].value] >>)}
      BY <2>1, DeliveryReaches
    <3>4. PICK f \in ToSet(v.facts) :
            /\ f.component = name /\ f.event = e.id /\ f.time = a.time
            /\ f.name = facts[i].name /\ f.value = facts[i].value
      BY <2>3 DEF StampedIn
    <3>5. d[k].name \in ReachedFrom(f)
      BY <3>3, <3>4 DEF ReachedFrom
    <3>6. RoutedBy(v, e, x)
      BY <3>2, <3>3, <3>4, <3>5 DEF RoutedBy
    <3>7. x.id \in Nat /\ w.nextId <= x.id
      BY <1>4, <2>2, <3>2
    <3> QED
      BY <3>6, <3>7
  <2>5. \A x \in new : x.id < v.nextId
    <3>1. /\ IsSeq(v.pending)
          /\ \A i \in 1 .. Len(v.pending) : v.pending[i].id < v.nextId
      BY <1>3 DEF WorldOK, Queue
    <3>2. ToSet(v.pending) = {v.pending[i] : i \in 1 .. Len(v.pending)}
      BY <3>1, ElementsOf
    <3> HIDE DEF new
    <3> QED
      BY <2>2, <3>1, <3>2
  <2>6. \A x, y \in new : x.id = y.id => x = y
    <3> SUFFICES ASSUME NEW x \in new, NEW y \in new, x.id = y.id  PROVE x = y
      OBVIOUS
    <3>1. a.nextId \in Nat
      BY <1>1, <1>4
    <3> QED
      BY <2>2, <3>1, DeliveriesIdentified
  <2> HIDE DEF new
  <2>7. Publishes(w, v, e, new)
    BY <1>1, <1>3, <1>4, <2>2, <2>3, <2>4, <2>5, <2>6 DEF Publishes
  <2> QED
    BY <2>7
<1> QED
  BY <1>1, <1>5, <1>6, <1>7

\* The log of a dispatch: its record, with the link of its event as parent.
DispatchLogged(w, log, v, more, x, e, r) ==
  /\ OneMore(w, log, v, more, x, r)
  /\ r.origin = e.id /\ r.type = << "advance", e.kind >> /\ r.payload = e.payload
  /\ r.actor = AdvanceActor(e.kind, e.payload) /\ r.time = v.time
  /\ r.parents = IF e.id \in DOMAIN log.links THEN << log.links[e.id] >> ELSE << >>
  /\ more.links = log.links

LEMMA AdvanceLogStep ==
  ASSUME NEW w, WorldOK(w), NEW log, LogShape(w, log), w.pending # << >>,
         NEW e, e = Head(w.pending), PayloadCode(e.kind, e.payload) = "ok",
         NEW v, v = Advance(w).world, Advance(w).error = NoError,
         NEW new, Publishes(w, v, e, new),
         NEW x, x = [op |-> "advance"]
  PROVE  \E r : DispatchLogged(w, log, v, LogStep(log, x), x, e, r)
<1> DEFINE plan == PlanEvent(e)
           n == Len(log.records)
           parents == Parents("advance", e.id, log.links)
           r == RecordOf(plan, n, parents, w, v)
           more == LogStep(log, x)
           red == Advance(w)
<1>1. v.transcript = Append(w.transcript, x)
  BY AdvanceRecords
<1>2. x.op = "advance"
  OBVIOUS
<1>3. /\ plan.code = "ok" /\ plan.stage = "advance" /\ plan.origin = e.id
      /\ plan.kind = e.kind /\ plan.payload = e.payload
      /\ plan.actor = AdvanceActor(e.kind, e.payload)
  BY DEF PlanEvent
<1>4. Plan(w, x) = plan
  BY <1>2 DEF Plan
<1>5. Reduce(w, x) = red
  BY <1>2 DEF Reduce
<1>6. more = LogCommit(log, plan, red)
  BY <1>4, <1>5 DEF LogStep, LogShape
<1>7. red.error = NoError /\ red.world = v
  OBVIOUS
<1> HIDE DEF plan, red
<1>8. more = [log EXCEPT
                !.world   = v,
                !.records = Append(@, RecordOf(plan, n, parents, w, v)),
                !.links   = Linked(plan.stage, plan.origin, n, @)]
  <2> HIDE DEF more
  <2> QED
    BY <1>3, <1>6, <1>7 DEF LogCommit, LogShape
<1> HIDE DEF more, n, parents
<1>9. /\ more.world = v /\ more.code = "ok"
      /\ more.records = Append(log.records, r)
      /\ more.links = log.links
      /\ DOMAIN more = {"code", "detail", "world", "records", "links"}
  BY <1>3, <1>8 DEF LogShape, Linked
<1>10. /\ r.origin = e.id /\ r.type = << "advance", e.kind >> /\ r.payload = e.payload
       /\ r.actor = AdvanceActor(e.kind, e.payload) /\ r.time = v.time
       /\ r.parents = parents
  BY <1>3 DEF RecordOf
<1>11. parents = IF e.id \in DOMAIN log.links THEN << log.links[e.id] >> ELSE << >>
  BY DEF parents, Parents
<1> HIDE DEF r
<1>12. OneMore(w, log, v, more, x, r)
  <2>1. w.nextId \in Nat /\ v.nextId \in Nat /\ w.nextId <= v.nextId
    BY DEF WorldOK, Publishes
  <2>2. ToSet(w.facts) \subseteq ToSet(v.facts) /\ IsSeq(v.facts)
    BY DEF Publishes
  <2> QED
    BY <1>1, <1>9, <2>1, <2>2 DEF OneMore, LogShape
<1>13. DispatchLogged(w, log, v, more, x, e, r)
  BY <1>9, <1>10, <1>11, <1>12 DEF DispatchLogged
<1> QED
  BY <1>13 DEF more

\* What a sorted queue loses with its head: one event, told from the others.
LEMMA HeadLeaves ==
  ASSUME NEW w, WorldOK(w), w.pending # << >>,
         \A e, f \in ToSet(w.pending) : e.id = f.id => e = f
  PROVE  /\ Head(w.pending) \in ToSet(w.pending)
         /\ ToSet(Tail(w.pending)) \subseteq ToSet(w.pending)
         /\ \A f \in ToSet(Tail(w.pending)) : f.id # Head(w.pending).id
<1> PICK q : q = w.pending
  OBVIOUS
<1> PICK n : n = Len(q)
  OBVIOUS
<1>1. IsSeq(q) /\ Ordered(q) /\ q # << >>
      /\ (\A i \in 1 .. n : q[i].id \in Nat /\ q[i].at \in Nat)
  BY DEF WorldOK, Queue
<1>2. /\ n > 0 /\ n \in Nat /\ Head(q) = q[1] /\ IsSeq(Tail(q)) /\ Len(Tail(q)) = n - 1
      /\ \A i \in 1 .. n - 1 : Tail(q)[i] = q[i + 1]
  BY <1>1, TailIsSeq, SeqIsFunction
<1>3. ToSet(q) = {q[i] : i \in 1 .. n}
  BY <1>1, ElementsOf
<1>4. ToSet(Tail(q)) = {Tail(q)[i] : i \in 1 .. n - 1}
  <2> PICK t : t = Tail(q)
    OBVIOUS
  <2>1. IsSeq(t) /\ Len(t) = n - 1
    BY <1>2
  <2>2. ToSet(t) = {t[i] : i \in 1 .. Len(t)}
    BY ONLY <2>1, ElementsOf
  <2> QED
    BY <2>1, <2>2
<1>5. 1 \in 1 .. n /\ (\A i \in 1 .. n - 1 : i + 1 \in 1 .. n /\ 1 < i + 1)
  BY <1>2
<1>6. q[1] \in ToSet(q) /\ (\A i \in 1 .. n - 1 : q[i + 1] \in ToSet(q))
  BY <1>3, <1>5
<1>7. \A i \in 1 .. n - 1 : q[i + 1] # q[1]
  <2>1. \A i \in 1 .. n - 1 : EventBefore(q[1], q[i + 1])
    BY <1>1, <1>5 DEF Ordered
  <2>2. ~EventBefore(q[1], q[1])
    BY <1>1, <1>5 DEF EventBefore
  <2> QED
    BY <2>1, <2>2
<1>8. \A i \in 1 .. n - 1 : q[i + 1].id # q[1].id
  BY <1>6, <1>7
<1> QED
  BY <1>2, <1>4, <1>6, <1>8

LEMMA AdvanceLogged ==
  ASSUME NEW w, WorldOK(w), NEW log, LogOK(w, log), w.pending # << >>,
         Advance(w).error = NoError
  PROVE  LogOK(Advance(w).world, LogStep(log, [op |-> "advance"]))
<1> PICK v : v = Advance(w).world
  OBVIOUS
<1> PICK e : e = Head(w.pending)
  OBVIOUS
<1> PICK x : x = [op |-> "advance"]
  OBVIOUS
<1> PICK more : more = LogStep(log, x)
  OBVIOUS
<1> PICK n : n = Len(log.records)
  OBVIOUS
<1> PICK T : T = ToSet(Tail(w.pending))
  OBVIOUS
<1>1. LogShape(w, log) /\ LinksOK(w, log) /\ QueueLogged(w, log) /\ DispatchesLogged(w, log)
  BY DEF LogOK
<1>2. PICK new : Publishes(w, v, e, new)
  BY <1>1, AdvancePublishes DEF LogShape
<1>3. /\ e \in ToSet(w.pending) /\ T \subseteq ToSet(w.pending)
      /\ \A f \in T : f.id # e.id
  BY <1>1, HeadLeaves DEF QueueLogged
<1>4. EventLogged(w, log, e) /\ PayloadCode(e.kind, e.payload) = "ok"
      /\ e.id \in Nat /\ e.id < w.nextId
  BY <1>1, <1>3 DEF QueueLogged, EventLogged
<1>5. PICK r : DispatchLogged(w, log, v, more, x, e, r)
  BY <1>1, <1>2, <1>4, AdvanceLogStep
<1>6. /\ r.origin = e.id /\ r.type = << "advance", e.kind >> /\ r.payload = e.payload
      /\ r.actor = AdvanceActor(e.kind, e.payload) /\ r.time = e.at
      /\ r.parents = IF e.id \in DOMAIN log.links THEN << log.links[e.id] >> ELSE << >>
      /\ more.links = log.links
      /\ OneMore(w, log, v, more, x, r)
  BY <1>2, <1>5 DEF DispatchLogged, Publishes
<1>7. /\ n \in Nat /\ Len(more.records) = n + 1 /\ Len(v.transcript) = n + 1
      /\ IsSeq(more.records) /\ IsSeq(v.transcript)
      /\ \A i \in 1 .. n : more.records[i] = log.records[i]
      /\ more.records[n + 1] = r
  BY <1>6, OneMoreRecord
<1>8. KeepsCauses(w, log, v, more)
  BY <1>6, CausesKept
<1>9. /\ w.nextId \in Nat /\ v.nextId \in Nat /\ w.nextId <= v.nextId
      /\ ToSet(v.pending) = T \cup new
      /\ \A f \in new : /\ f.id \in Nat /\ w.nextId <= f.id /\ f.id < v.nextId
                        /\ RoutedBy(v, e, f)
      /\ \A f, g \in new : f.id = g.id => f = g
  BY <1>2 DEF Publishes, WorldOK
<1>10. \A f \in ToSet(w.pending) : f.id \in Nat /\ f.id < w.nextId
  BY <1>1 DEF QueueLogged, EventLogged
<1>11. \A f \in T, g \in new : f.id # g.id
  BY <1>3, <1>9, <1>10
<1>12. IsDispatch(r) /\ r.type[2] = e.kind
  BY <1>6 DEF IsDispatch
<1>13. LogShape(v, more)
  BY <1>6, <1>7 DEF LogShape, OneMore
<1>14. LinksOK(v, more)
  <2> SUFFICES ASSUME NEW o \in DOMAIN more.links
               PROVE  /\ o \in Nat /\ o < v.nextId
                      /\ more.links[o] \in Nat /\ more.links[o] < n + 1
                      /\ more.records[more.links[o] + 1].origin = o
    BY <1>7 DEF LinksOK
  <2> PICK k : k = log.links[o]
    OBVIOUS
  <2>1. more.links[o] = k
    BY <1>6
  <2>2. /\ o \in Nat /\ o < w.nextId /\ k \in Nat /\ k < n
        /\ log.records[k + 1].origin = o
    BY <1>1, <1>6 DEF LinksOK
  <2>3. k + 1 \in 1 .. n /\ k < n + 1 /\ o < v.nextId
    BY <1>7, <1>9, <2>2, SMTT(40)
  <2> QED
    BY <1>7, <2>1, <2>2, <2>3
<1>15. QueueLogged(v, more)
  <2>1. ASSUME NEW f \in T  PROVE EventLogged(v, more, f)
    <3>1. EventLogged(w, log, f)
      BY <1>1, <1>3 DEF QueueLogged
    <3>2. /\ f.id \in DOMAIN more.links <=> f.id \in DOMAIN log.links
          /\ f.id \in DOMAIN log.links => more.links[f.id] = log.links[f.id]
      BY <1>6
    <3>3. OneMore(w, log, v, more, x, r) /\ LinksOK(w, log)
      BY <1>1, <1>6
    <3> QED
      BY ONLY <3>1, <3>2, <3>3, EventKept
  <2>2. ASSUME NEW f \in new  PROVE EventLogged(v, more, f)
    <3>1. f.id \in Nat /\ w.nextId <= f.id /\ f.id < v.nextId /\ f.kind = "component"
      BY <1>9 DEF RoutedBy
    <3>2. f.id \notin DOMAIN more.links
      BY <1>1, <1>6, <1>9, <3>1 DEF LinksOK
    <3>3. PayloadCode(f.kind, f.payload) = "ok"
      BY <3>1 DEF PayloadCode, Kinds
    <3>4. PICK p \in ToSet(v.facts) :
            /\ p.event = e.id /\ p.time = f.at /\ p.value = f.payload.value
            /\ f.payload.name \in ReachedFrom(p)
      BY <1>9 DEF RoutedBy
    <3>5. n + 1 \in 1 .. n + 1 /\ IsDispatch(more.records[n + 1])
          /\ more.records[n + 1].origin = p.event
      BY <1>6, <1>7, <1>12, <3>4
    <3>6. PublishedIn(v, more.records, n + 1, f.at, f.payload, f.payload.name)
      BY <3>4, <3>5 DEF PublishedIn
    <3> QED
      BY <1>7, <3>1, <3>2, <3>3, <3>6 DEF EventLogged
  <2>3. \A f, g \in T : f.id = g.id => f = g
    BY <1>1, <1>3 DEF QueueLogged
  <2>4. \A f, g \in T \cup new : f.id = g.id => f = g
    BY <1>9, <1>11, <2>3
  <2> QED
    BY <1>9, <2>1, <2>2, <2>4 DEF QueueLogged
<1>16. RecordTraced(v, more, n + 1)
  <2>1. r.origin \in Nat /\ r.origin < v.nextId
    BY <1>4, <1>6, <1>9
  <2>2. CASE e.id \in DOMAIN log.links
    <3> PICK k : k = log.links[e.id] + 1
      OBVIOUS
    <3>1. log.links[e.id] \in Nat /\ log.links[e.id] < n
      BY <1>1, <2>2 DEF LinksOK
    <3>2. k \in 1 .. n /\ k < n + 1 /\ k = log.links[e.id] + 1
      BY <1>7, <3>1
    <3>3. Repeats(w, log.records, k, e.kind, e.payload, e.at)
      BY <1>4, <2>2 DEF EventLogged
    <3>4. Repeats(v, more.records, k, e.kind, e.payload, e.at)
      BY <3>2, <3>3, <1>8 DEF KeepsCauses
    <3>5. r.parents = << log.links[e.id] >>
      BY <1>6, <2>2
    <3>6. /\ r.parents = << more.links[r.origin] >> /\ more.links[r.origin] + 1 < n + 1
          /\ Repeats(v, more.records, more.links[r.origin] + 1, r.type[2],
                     r.payload, r.time)
      BY <1>6, <1>12, <3>2, <3>4, <3>5
    <3>7. more.records[n + 1] = r /\ r.origin \in DOMAIN more.links
      BY <1>6, <1>7, <2>2
    <3> QED
      BY ONLY <2>1, <3>6, <3>7 DEF RecordTraced
  <2>3. CASE e.id \notin DOMAIN log.links
    <3>1. /\ e.kind = "component"
          /\ PublishedIn(w, log.records, n, e.at, e.payload, e.payload.name)
      BY <1>4, <2>3 DEF EventLogged
    <3>2. r.actor = e.payload.name /\ r.parents = << >>
      BY <1>6, <2>3, <3>1 DEF AdvanceActor
    <3>3. n \in 0 .. n /\ n + 1 - 1 = n
      BY <1>7
    <3>4. PublishedIn(v, more.records, n, e.at, e.payload, e.payload.name)
      BY <3>1, <3>3, <1>8 DEF KeepsCauses
    <3>5. /\ r.parents = << >> /\ r.type[2] = "component"
          /\ PublishedIn(v, more.records, n, r.time, r.payload, r.actor)
      BY <1>6, <1>12, <3>1, <3>2, <3>4
    <3>6. more.records[n + 1] = r /\ r.origin \notin DOMAIN more.links
      BY <1>6, <1>7, <2>3
    <3> QED
      BY ONLY <2>1, <3>3, <3>5, <3>6 DEF RecordTraced
  <2> QED
    BY <2>2, <2>3
<1>17. DispatchesLogged(v, more)
  <2>1. DispatchesOf(more) = DispatchesOf(log) \cup {n + 1}
    <3>1. n + 1 \in DispatchesOf(more)
      BY <1>7, <1>12 DEF DispatchesOf
    <3>2. \A i \in 1 .. n + 1 : i = n + 1 \/ i \in 1 .. n
      BY <1>7
    <3>3. 1 .. n \subseteq 1 .. n + 1
      BY <1>7
    <3> QED
      BY <1>7, <3>1, <3>2, <3>3 DEF DispatchesOf
  <2>2. \A i \in DispatchesOf(log) :
          /\ i \in 1 .. n /\ more.records[i] = log.records[i]
          /\ RecordTraced(w, log, i)
          /\ log.records[i].origin \in Nat /\ log.records[i].origin < w.nextId
          /\ log.records[i].origin # e.id
    BY <1>1, <1>3, <1>7 DEF DispatchesOf, DispatchesLogged, RecordTraced
  <2>3. ASSUME NEW i \in DispatchesOf(log)  PROVE RecordTraced(v, more, i)
    <3> PICK o : o = log.records[i].origin
      OBVIOUS
    <3>1. /\ o \in DOMAIN more.links <=> o \in DOMAIN log.links
          /\ o \in DOMAIN log.links => more.links[o] = log.links[o]
      BY <1>6
    <3>2. OneMore(w, log, v, more, x, r) /\ LinksOK(w, log)
      BY <1>1, <1>6
    <3>3. i \in 1 .. Len(log.records) /\ RecordTraced(w, log, i)
      BY <2>2
    <3> QED
      BY <3>1, <3>2, <3>3, TraceKept
  <2>4. \A f \in ToSet(v.pending) : f.id # e.id
    BY <1>3, <1>4, <1>9
  <2>5. \A i \in DispatchesOf(log) : \A f \in ToSet(v.pending) :
          more.records[i].origin # f.id
    BY <1>1, <1>3, <1>9, <2>2 DEF DispatchesLogged
  <2>6. more.records[n + 1].origin = e.id
    BY <1>6, <1>7
  <2>7. \A i \in DispatchesOf(more) : \A f \in ToSet(v.pending) :
          more.records[i].origin # f.id
    BY <2>1, <2>4, <2>5, <2>6
  <2>8. \A i, j \in DispatchesOf(more) :
          more.records[i].origin = more.records[j].origin => i = j
    BY <1>1, <2>1, <2>2, <2>6 DEF DispatchesLogged
  <2> QED
    BY <1>16, <2>1, <2>3, <2>7, <2>8 DEF DispatchesLogged
<1> QED
  BY <1>13, <1>14, <1>15, <1>17 DEF LogOK

-------------------------------------------------------------------------------
LEMMA LogInit == Init => LogInv
<1> SUFFICES ASSUME Init  PROVE LogOK(world, Log)
  BY DEF LogInv
<1>1. world = InitialWorld
  BY DEF Init
<1>2. /\ world.transcript = << >> /\ world.facts = << >> /\ world.pending = << >>
      /\ << >> \in Seq({}) /\ Len(<< >>) = 0 /\ ToSet(<< >>) = {}
  BY <1>1 DEF InitialWorld, ToSet
<1> PICK log : log = EmptyLog
  OBVIOUS
<1>3. Log = log
  BY <1>1, <1>2, LogOfNothing DEF Log
<1>4. /\ DOMAIN log = {"code", "detail", "world", "records", "links"}
      /\ log.code = "ok" /\ log.world = world
      /\ log.records = << >> /\ DOMAIN log.links = {}
  BY <1>1 DEF EmptyLog
<1>5. LogShape(world, log)
  BY <1>2, <1>4 DEF LogShape, IsSeq
<1>6. DispatchesOf(log) = {}
  BY <1>2, <1>4 DEF DispatchesOf
<1> QED
  BY <1>2, <1>3, <1>4, <1>5, <1>6
     DEF LogOK, LinksOK, QueueLogged, DispatchesLogged

LEMMA LogInvStep == QueueInv /\ LogInv /\ [Next]_vars => LogInv'
<1> SUFFICES ASSUME QueueInv, LogInv, [Next]_vars  PROVE LogInv'
  OBVIOUS
<1> USE DEF Keep
<1>1. ASSUME NEW in \in Inputs, ScheduleInput(in)  PROVE LogInv'
  <2> DEFINE r == Schedule(world, in.at, in.kind, in.payload)
             x == SubmissionRecord(in.at, in.kind, in.payload)
  <2>1. in.at \in Int
    <3>1. in.at \in Instants \cup {-1}
      BY InputsAssumption
    <3>2. Instants \subseteq Int /\ -1 \in Int
      BY InstantsAssumption
    <3> QED
      BY <3>1, <3>2, Zenon
  <2>2. world' = r.world /\ error' = r.error /\ error = NoError
    BY <1>1 DEF ScheduleInput
  <2>3. SUFFICES ASSUME r.error = NoError  PROVE LogOK(world', Log')
    BY <2>2 DEF LogInv
  <2>4. LogOK(world, Log) /\ IsSeq(world.transcript) /\ WorldOK(world)
    BY <2>2 DEF LogInv, LogOK, LogShape, QueueInv
  <2>5. r.world.transcript = Append(world.transcript, x)
    BY <2>1, <2>3, <2>4, ScheduleRecords DEF SubmissionRecord
  <2>6. OfRun(InitialWorld, r.world.transcript) = LogStep(Log, x)
    BY <2>4, <2>5, LogOfAppend DEF Log
  <2>7. LogOK(r.world, LogStep(Log, x))
    BY <2>1, <2>3, <2>4, ScheduleLogged
  <2> HIDE DEF r, x
  <2>8. Log' = LogStep(Log, x)
    BY <2>2, <2>6 DEF Log
  <2> QED
    BY <2>2, <2>7, <2>8
<1>2. ASSUME AdvanceToNextEvent  PROVE LogInv'
  <2> DEFINE r == Advance(world)
             x == [op |-> "advance"]
  <2>1. /\ world.pending # << >> /\ error = NoError
        /\ world' = r.world /\ error' = r.error
    BY <1>2 DEF AdvanceToNextEvent
  <2>2. SUFFICES ASSUME r.error = NoError  PROVE LogOK(world', Log')
    BY <2>1 DEF LogInv
  <2>3. LogOK(world, Log) /\ IsSeq(world.transcript) /\ WorldOK(world)
    BY <2>1 DEF LogInv, LogOK, LogShape, QueueInv
  <2>4. r.world.transcript = Append(world.transcript, x)
    BY <2>1, <2>3, AdvanceRecords
  <2>5. OfRun(InitialWorld, r.world.transcript) = LogStep(Log, x)
    BY <2>3, <2>4, LogOfAppend DEF Log
  <2>6. LogOK(r.world, LogStep(Log, x))
    BY <2>1, <2>2, <2>3, AdvanceLogged
  <2> HIDE DEF r, x
  <2>7. Log' = LogStep(Log, x)
    BY <2>1, <2>5 DEF Log
  <2> QED
    BY <2>1, <2>6, <2>7
<1>3. ASSUME AdvanceOfNothing \/ RollbackInput  PROVE LogInv'
  <2>1. error' # NoError
    BY <1>3 DEF AdvanceOfNothing, RollbackInput, Advance, Reduce, Refused, NoError
  <2> QED
    BY <2>1 DEF LogInv
<1>4. CASE UNCHANGED vars
  BY <1>4 DEF vars, LogInv, Log
<1> QED
  BY <1>1, <1>2, <1>3, <1>4 DEF Next

(***************************************************************************)
(* For every handler, route table, hash and order of inputs, the log tells *)
(* the true cause of every dispatch: the schedule of that very event, of   *)
(* no other dispatch, or a fact that an earlier dispatch of the same       *)
(* instant published on a route to the delivery's component (links and     *)
(* parents, eventlog.shen).                                                *)
(***************************************************************************)
THEOREM CausesAreTraced == Spec => []CausesTraced
<1>1. LogInv => CausesTraced
  <2> SUFFICES ASSUME LogInv, error = NoError
               PROVE  LET records    == Log.records
                          dispatches == {i \in DOMAIN records : IsDispatch(records[i])}
                      IN  /\ \A i \in dispatches :
                               IF records[i].parents = << >>
                               THEN records[i].type[2] = "component" /\ CausedByFact(records, i)
                               ELSE CausedBySchedule(records, i, records[i].parents[1] + 1)
                          /\ \A i, j \in dispatches :
                               i # j /\ records[i].parents # << >>
                                 => records[i].parents # records[j].parents
    BY DEF CausesTraced
  <2> PICK log : log = Log
    OBVIOUS
  <2> PICK records : records = log.records
    OBVIOUS
  <2> PICK D : D = DispatchesOf(log)
    OBVIOUS
  <2>1. LogShape(world, log) /\ LinksOK(world, log) /\ DispatchesLogged(world, log)
    BY DEF LogInv, LogOK
  <2>2. {i \in DOMAIN records : IsDispatch(records[i])} = D
    BY <2>1, SeqIsFunction DEF LogShape, DispatchesOf
  <2>3. ASSUME NEW i \in D
        PROVE  /\ IF records[i].parents = << >>
                  THEN records[i].type[2] = "component" /\ CausedByFact(records, i)
                  ELSE CausedBySchedule(records, i, records[i].parents[1] + 1)
               /\ records[i].parents # << >> =>
                    /\ records[i].origin \in DOMAIN log.links
                    /\ records[i].parents = << log.links[records[i].origin] >>
    <3> PICK r : r = records[i]
      OBVIOUS
    <3>1. RecordTraced(world, log, i)
      BY <2>1 DEF DispatchesLogged
    <3>2. CASE r.origin \in DOMAIN log.links
      <4> PICK k : k = log.links[r.origin]
        OBVIOUS
      <4>1. /\ r.parents = << k >> /\ k + 1 < i
            /\ Repeats(world, records, k + 1, r.type[2], r.payload, r.time)
        BY <3>1, <3>2 DEF RecordTraced
      <4>2. r.parents # << >> /\ r.parents[1] = k
        BY <4>1
      <4>3. CausedBySchedule(records, i, k + 1)
        BY <4>1 DEF Repeats, CausedBySchedule
      <4> QED
        BY <3>2, <4>1, <4>2, <4>3
    <3>3. CASE r.origin \notin DOMAIN log.links
      <4>1. /\ r.parents = << >> /\ r.type[2] = "component"
            /\ PublishedIn(world, records, i - 1, r.time, r.payload, r.actor)
        BY <3>1, <3>3 DEF RecordTraced
      <4>2. CausedByFact(records, i)
        BY <4>1 DEF PublishedIn, CausedByFact, ReachedFrom
      <4> QED
        BY <4>1, <4>2
    <3> QED
      BY <3>2, <3>3
  <2>4. ASSUME NEW i \in D, NEW j \in D, i # j, records[i].parents # << >>
        PROVE  records[i].parents # records[j].parents
    <3> SUFFICES ASSUME records[i].parents = records[j].parents  PROVE FALSE
      OBVIOUS
    <3> PICK o : o = records[i].origin
      OBVIOUS
    <3> PICK p : p = records[j].origin
      OBVIOUS
    <3>1. /\ o \in DOMAIN log.links /\ records[i].parents = << log.links[o] >>
          /\ p \in DOMAIN log.links /\ records[j].parents = << log.links[p] >>
      BY <2>3, <2>4
    <3>2. log.links[o] = log.links[p]
      <4> PICK k : k = log.links[o]
        OBVIOUS
      <4> PICK l : l = log.links[p]
        OBVIOUS
      <4>1. << k >> = << l >>
        BY <3>1
      <4>2. << k >>[1] = << l >>[1]
        BY ONLY <4>1
      <4> QED
        BY <4>2
    <3>3. records[log.links[o] + 1].origin = o /\ records[log.links[p] + 1].origin = p
      BY <2>1, <3>1 DEF LinksOK
    <3>4. o = p
      BY <3>2, <3>3
    <3> QED
      BY <2>1, <2>4, <3>4 DEF DispatchesLogged
  <2> QED
    BY <2>2, <2>3, <2>4
<1>2. Spec => []QueueInv
  BY QueueInvariant
<1> QED
  BY <1>1, <1>2, LogInit, LogInvStep, PTL DEF Spec
-------------------------------------------------------------------------------
(***************************************************************************)
(* What is written of a run: entries the writer takes, which their digests *)
(* tell apart, and records that are numbered.                              *)
(***************************************************************************)
Written(e) ==
  \/ e = Advanced
  \/ /\ e = SubmissionRecord(e.at, e.kind, e.payload)
     /\ e.at \in Int /\ PayloadCode(e.kind, e.payload) = "ok"

AllWritten(t) == IsSeq(t) /\ \A i \in 1 .. Len(t) : Written(t[i])

Numbered(records) ==
  /\ IsSeq(records)
  /\ \A i \in 1 .. Len(records) :
       "id" \in DOMAIN records[i] /\ records[i].id = i - 1

ArtifactInv ==
  error = NoError => AllWritten(world.transcript) /\ Numbered(Log.records)

LEMMA WrittenIsCoded ==
  ASSUME NEW e, Written(e)  PROVE EntryCode(e) = "ok"
<1>1. CASE e = Advanced
  BY <1>1 DEF Advanced, EntryCode
<1>2. CASE e = SubmissionRecord(e.at, e.kind, e.payload)
  <2>1. e.op = "schedule"
    BY <1>2 DEF SubmissionRecord
  <2>2. PayloadCode(e.kind, e.payload) = "ok"
    <3>1. e # Advanced
      BY <2>1 DEF Advanced
    <3> QED
      BY <3>1 DEF Written
  <2> QED
    BY <2>1, <2>2 DEF EntryCode
<1> QED
  BY <1>1, <1>2 DEF Written

LEMMA DigestsTellApart ==
  ASSUME NEW e, Written(e), NEW f, Written(f), Entry(e) = Entry(f)
  PROVE  e = f
<1>1. CASE e = Advanced /\ f = Advanced
  BY <1>1
<1>2. ASSUME NEW a, a = SubmissionRecord(a.at, a.kind, a.payload)
      PROVE  /\ Entry(a) = [type |-> "schedule", at |-> a.at, kind |-> a.kind,
                            payload |-> a.payload]
             /\ Entry(a) # Entry(Advanced)
  <2>1. a.op # "advance" /\ Advanced.op = "advance"
    BY <1>2 DEF SubmissionRecord, Advanced
  <2>2. Entry(a) = [type |-> "schedule", at |-> a.at, kind |-> a.kind,
                    payload |-> a.payload]
    BY <2>1 DEF Entry
  <2>3. Entry(Advanced) = [type |-> "advance"]
    BY <2>1 DEF Entry
  <2>4. Entry(a).type # Entry(Advanced).type
    BY <2>2, <2>3
  <2> QED
    BY <2>2, <2>4
<1>3. CASE /\ e = SubmissionRecord(e.at, e.kind, e.payload)
           /\ f = SubmissionRecord(f.at, f.kind, f.payload)
  <2> DEFINE d(a) == [type |-> "schedule", at |-> a.at, kind |-> a.kind,
                      payload |-> a.payload]
  <2>1. d(e) = d(f)
    BY <1>2, <1>3
  <2>2. d(e).at = d(f).at /\ d(e).kind = d(f).kind /\ d(e).payload = d(f).payload
    BY ONLY <2>1
  <2>3. e.at = f.at /\ e.kind = f.kind /\ e.payload = f.payload
    BY <2>2
  <2> QED
    BY <1>3, <2>3
<1> QED
  BY <1>1, <1>2, <1>3 DEF Written

-------------------------------------------------------------------------------
(* The written transcript of a run, and its digests.                       *)

LEMMA DigestsOf ==
  ASSUME NEW t, IsSeq(t)
  PROVE  LET d == EntryDigests(t)
         IN  /\ DOMAIN d = 1 .. Len(t) /\ Len(d) = Len(t)
             /\ d = [i \in 1 .. Len(t) |-> Entry(t[i])]
<1> PICK n \in Nat : n = Len(t) /\ DOMAIN t = 1 .. n
  BY SeqIsFunction
<1> PICK d : d = EntryDigests(t)
  OBVIOUS
<1>1. d = [i \in 1 .. n |-> Entry(t[i])]
  BY DEF EntryDigests
<1>2. d = [i \in 1 .. n |-> d[i]]
  BY <1>1
<1>3. Len(d) = n
  BY <1>2, FunctionIsSeq
<1> QED
  BY <1>1, <1>3

LEMMA WrittenCode ==
  ASSUME NEW t, AllWritten(t)  PROVE WriteCode(t) = "ok"
<1> DEFINE codes == [i \in DOMAIN t |-> EntryCode(t[i])]
<1>1. \A i \in DOMAIN codes : codes[i] = "ok"
  BY WrittenIsCoded, SeqIsFunction DEF AllWritten
<1> HIDE DEF codes
<1>2. FirstError(codes) = "ok"
  BY <1>1 DEF FirstError
<1> QED
  BY <1>2 DEF WriteCode, codes

\* What is written is classified first and driven again when it is the same.
LEMMA VerifyWritten ==
  ASSUME NEW s, AllWritten(s), NEW recorded
  PROVE  Verify(InitialWorld, s, recorded)
           = Then(ClassifyTranscript(EntryDigests(s), recorded.entries),
                  CheckRun(OfRun(InitialWorld, s), recorded))
BY WrittenCode DEF Verify

LEMMA OtherLength ==
  ASSUME NEW s, AllWritten(s), NEW t, AllWritten(t), NEW recorded,
         recorded.entries = EntryDigests(t), Len(s) # Len(t)
  PROVE  Verify(InitialWorld, s, recorded)
           = Failed(IF Len(s) < Len(t) THEN "replay-transcript-truncated"
                    ELSE "replay-transcript-extended", << >>)
<1> PICK a : a = EntryDigests(s)
  OBVIOUS
<1> PICK b : b = EntryDigests(t)
  OBVIOUS
<1>1. /\ Len(a) = Len(s) /\ Len(b) = Len(t) /\ Len(s) \in Nat /\ Len(t) \in Nat
  BY DigestsOf, SeqIsFunction DEF AllWritten
<1>2. ClassifyTranscript(a, b)
        = Failed(IF Len(s) < Len(t) THEN "replay-transcript-truncated"
                 ELSE "replay-transcript-extended", << >>)
  BY <1>1 DEF ClassifyTranscript
<1> PICK v : v = Verify(InitialWorld, s, recorded)
  OBVIOUS
<1>3. v = Then(ClassifyTranscript(a, b), CheckRun(OfRun(InitialWorld, s), recorded))
  BY VerifyWritten
<1>4. ClassifyTranscript(a, b).code # "verified"
  BY <1>2 DEF Failed
<1>5. v = ClassifyTranscript(a, b)
  BY <1>3, <1>4 DEF Then
<1> QED
  BY <1>2, <1>5

\* The digests differ exactly where the transcripts do.
LEMMA DigestsDiffer ==
  ASSUME NEW s, AllWritten(s), NEW t, AllWritten(t), Len(s) = Len(t)
  PROVE  Differences(EntryDigests(s), EntryDigests(t))
           = {i \in 1 .. Len(t) : s[i] # t[i]}
<1>1. /\ EntryDigests(s) = [i \in 1 .. Len(t) |-> Entry(s[i])]
      /\ EntryDigests(t) = [i \in 1 .. Len(t) |-> Entry(t[i])]
  BY DigestsOf DEF AllWritten
<1>2. \A i \in 1 .. Len(t) : Entry(s[i]) = Entry(t[i]) <=> s[i] = t[i]
  BY DigestsTellApart DEF AllWritten
<1> QED
  BY <1>1, <1>2 DEF Differences

LEMMA FirstIs ==
  ASSUME NEW T \in SUBSET Int, NEW i \in T, \A j \in T : i <= j
  PROVE  First(T) = i
<1>1. \E x \in T : \A j \in T : x <= j
  OBVIOUS
<1> PICK x : x = First(T)
  OBVIOUS
<1>2. x \in T /\ \A j \in T : x <= j
  BY <1>1 DEF First
<1>3. x \in Int /\ i \in Int /\ x <= i /\ i <= x
  BY <1>2
<1> QED
  BY <1>3

\* A transcript of the recorded length: the first difference is reported.
LEMMA SameLength ==
  ASSUME NEW s, AllWritten(s), NEW t, AllWritten(t), NEW recorded,
         recorded.entries = EntryDigests(t), Len(s) = Len(t),
         NEW p \in 1 .. Len(t), s[p] # t[p], \A i \in 1 .. p - 1 : s[i] = t[i]
  PROVE  Verify(InitialWorld, s, recorded)
           = Failed(IF Permutation(EntryDigests(s), EntryDigests(t))
                    THEN "replay-transcript-reordered"
                    ELSE "replay-transcript-tampered", << p - 1 >>)
<1> PICK a : a = EntryDigests(s)
  OBVIOUS
<1> PICK b : b = EntryDigests(t)
  OBVIOUS
<1> PICK n \in Nat : n = Len(t)
  BY SeqIsFunction DEF AllWritten
<1>1. Len(a) = n /\ Len(b) = n
  BY DigestsOf DEF AllWritten
<1> DEFINE T == {i \in 1 .. n : s[i] # t[i]}
<1>2. Differences(a, b) = T
  BY DigestsDiffer
<1>3. p \in T /\ T \in SUBSET Int /\ \A j \in T : p <= j
  OBVIOUS
<1>4. First(T) = p /\ T # {}
  BY <1>3, FirstIs
<1>5. ClassifyTranscript(a, b) = ClassifyOrder(a, b)
  BY <1>1 DEF ClassifyTranscript
<1> HIDE DEF T
<1> PICK c : c = Failed(IF Permutation(a, b) THEN "replay-transcript-reordered"
                        ELSE "replay-transcript-tampered", << p - 1 >>)
  OBVIOUS
<1>6. ClassifyTranscript(a, b) = c
  BY <1>2, <1>4, <1>5 DEF ClassifyOrder
<1>7. c.code # "verified"
  BY DEF Failed
<1> PICK v : v = Verify(InitialWorld, s, recorded)
  OBVIOUS
<1>8. v = Then(c, CheckRun(OfRun(InitialWorld, s), recorded))
  BY <1>6, VerifyWritten
<1>9. v = c
  BY <1>7, <1>8 DEF Then
<1> QED
  BY <1>9

-------------------------------------------------------------------------------
(* Two digests exchanged are a permutation, one replaced is none.          *)

LEMMA ExchangePermutes ==
  ASSUME NEW n \in Nat, NEW a, DOMAIN a = 1 .. n, NEW b, DOMAIN b = 1 .. n,
         NEW i \in 1 .. n, NEW j \in 1 .. n, a[i] = b[j], a[j] = b[i],
         \A k \in (1 .. n) \ {i, j} : a[k] = b[k]
  PROVE  Permutation(a, b)
<1> SUFFICES ASSUME NEW x  PROVE CountOf(x, a) = CountOf(x, b)
  BY DEF Permutation
<1> DEFINE f == [k \in 1 .. n |-> IF k = i THEN j ELSE IF k = j THEN i ELSE k]
           A == {k \in 1 .. n : a[k] = x}
           B == {k \in 1 .. n : b[k] = x}
<1>1. B = {f[k] : k \in A}
  <2>1. \A k \in 1 .. n : /\ f[k] \in 1 .. n /\ f[f[k]] = k
                         /\ b[f[k]] = a[k]
    OBVIOUS
  <2> HIDE DEF f
  <2>2. \A k \in B : f[k] \in A /\ f[f[k]] = k
    BY <2>1
  <2>3. \A k \in A : f[k] \in B
    BY <2>1
  <2> HIDE DEF A, B
  <2> QED
    BY <2>2, <2>3
<1>2. \A k, l \in A : f[k] = f[l] => k = l
  OBVIOUS
<1>3. IsFiniteSet(A)
  <2>1. A \subseteq 1 .. n
    OBVIOUS
  <2>2. IsFiniteSet(1 .. n)
    <3>1. 1 \in Int /\ n \in Int
      OBVIOUS
    <3> QED
      BY ONLY <3>1, FS_Interval
  <2> HIDE DEF A
  <2> QED
    BY <2>1, <2>2, FS_Subset
<1> HIDE DEF f
<1>4. Cardinality(B) = Cardinality(A)
  <2> HIDE DEF A, B
  <2> DEFINE g == [k \in A |-> f[k]]
  <2>1. g \in Injection(A, B)
    BY <1>1, <1>2 DEF Injection, IsInjective
  <2>2. \A y \in B : \E k \in A : g[k] = y
    BY <1>1
  <2> HIDE DEF g
  <2> QED
    BY <1>3, <2>1, <2>2, CardinalityOfImage
<1> QED
  BY <1>4 DEF CountOf

LEMMA ReplacementTampers ==
  ASSUME NEW n \in Nat, NEW a, DOMAIN a = 1 .. n, NEW b, DOMAIN b = 1 .. n,
         NEW i \in 1 .. n, a[i] # b[i], \A k \in (1 .. n) \ {i} : a[k] = b[k]
  PROVE  ~Permutation(a, b)
<1> PICK x : x = a[i]
  OBVIOUS
<1> DEFINE A == {k \in 1 .. n : a[k] = x}
           B == {k \in 1 .. n : b[k] = x}
<1>1. A = B \cup {i} /\ i \notin B
  OBVIOUS
<1>2. IsFiniteSet(B)
  <2>1. IsFiniteSet(1 .. n)
    <3>1. 1 \in Int /\ n \in Int
      OBVIOUS
    <3> QED
      BY ONLY <3>1, FS_Interval
  <2>2. B \subseteq 1 .. n
    OBVIOUS
  <2> HIDE DEF B
  <2> QED
    BY <2>1, <2>2, FS_Subset
<1>3. Cardinality(A) = Cardinality(B) + 1 /\ Cardinality(B) \in Nat
  <2> HIDE DEF A, B
  <2> QED
    BY <1>1, <1>2, FS_AddElement, FS_CardinalityType
<1>4. CountOf(x, a) # CountOf(x, b)
  <2>1. CountOf(x, a) = Cardinality(A) /\ CountOf(x, b) = Cardinality(B)
    BY DEF CountOf
  <2> HIDE DEF A, B
  <2> QED
    BY <1>3, <2>1
<1>5. x \in ToSet(a)
  BY DEF ToSet
<1> QED
  BY <1>4, <1>5 DEF Permutation

-------------------------------------------------------------------------------
(* The records of a run, and those of an artifact.                         *)

LEMMA EventsAgree ==
  ASSUME NEW e, IsSeq(e)  PROVE CompareEvents(e, e) = Verified
<1> PICK n \in Nat : n = Len(e)
  BY SeqIsFunction
<1>1. {i \in 1 .. n : e[i] # e[i]} = {}
  OBVIOUS
<1> QED
  BY <1>1 DEF CompareEvents

LEMMA EventsForged ==
  ASSUME NEW e, IsSeq(e), NEW i \in 1 .. Len(e), NEW x, x # e[i],
         NEW f, f = [e EXCEPT ![i] = x]
  PROVE  CompareEvents(e, f) = Failed("replay-event-divergence", << i - 1 >>)
<1> PICK n \in Nat : n = Len(e) /\ e = [k \in 1 .. n |-> e[k]]
  BY SeqIsFunction
<1>1. f = [k \in 1 .. n |-> f[k]] /\ f[i] = x
      /\ \A k \in 1 .. n : k # i => f[k] = e[k]
  OBVIOUS
<1>2. Len(f) = n
  BY <1>1, FunctionIsSeq
<1> DEFINE T == {k \in 1 .. n : e[k] # f[k]}
<1>3. i \in T /\ T \in SUBSET Int /\ \A k \in T : i <= k
  BY <1>1
<1>4. First(T) = i /\ T # {}
  BY <1>3, FirstIs
<1> HIDE DEF T
<1> QED
  BY <1>2, <1>4 DEF CompareEvents, T

LEMMA EventsCut ==
  ASSUME NEW e, IsSeq(e), NEW n \in 0 .. Len(e) - 1
  PROVE  CompareEvents(e, SubSeq(e, 1, n)) = Failed("replay-event-count", << n >>)
<1> PICK m \in Nat : m = Len(e)
  BY SeqIsFunction
<1> PICK S : e \in Seq(S)
  BY DEF IsSeq
<1> PICK f : f = SubSeq(e, 1, n)
  OBVIOUS
<1>1. Len(f) = n /\ \A k \in 1 .. n : f[k] = e[k]
  <2>1. n \in Nat /\ n < m
    OBVIOUS
  <2> QED
    BY <2>1
<1>2. {k \in 1 .. n : e[k] # f[k]} = {}
  BY <1>1
<1>3. n < m /\ n \in Nat
  OBVIOUS
<1> QED
  BY <1>1, <1>2, <1>3 DEF CompareEvents

\* The recorded transcript is driven again and compared.
LEMMA OwnTranscript ==
  ASSUME NEW t, AllWritten(t), NEW recorded, recorded.entries = EntryDigests(t),
         NEW log, log = OfRun(InitialWorld, t)
  PROVE  Verify(InitialWorld, t, recorded) = CheckRun(log, recorded)
<1> PICK d : d = EntryDigests(t)
  OBVIOUS
<1>1. Len(d) \in Nat
  BY DigestsOf, SeqIsFunction DEF AllWritten
<1>2. Differences(d, d) = {}
  BY DEF Differences
<1>3. ClassifyTranscript(d, d) = Verified
  BY <1>1, <1>2 DEF ClassifyTranscript, ClassifyOrder
<1>4. Verify(InitialWorld, t, recorded) = Then(Verified, CheckRun(log, recorded))
  BY <1>3, VerifyWritten
<1> QED
  BY <1>4 DEF Then, Verified, Failed

LEMMA OwnRecords ==
  ASSUME NEW log, log.code = "ok", NEW recorded, NEW v,
         v = CompareEvents(log.records, recorded.events)
  PROVE  CheckRun(log, recorded)
           = IF v.code = "verified" THEN CompareRoots(log, recorded) ELSE v
BY DEF CheckRun, Then

-------------------------------------------------------------------------------
\* What may be slipped into a transcript is written like what it holds.
LEMMA SlippedIsWritten ==
  ASSUME AllWritten(world.transcript), NEW e \in Slipped(world.transcript)
  PROVE  Written(e)
<1> DEFINE t == world.transcript
<1>1. CASE e \in ToSet(t)
  BY <1>1, ElementsOf DEF AllWritten
<1>2. CASE e \in Later(t)
  <2>1. PICK i \in Submitted(world) : e = [t[i] EXCEPT !.at = @ + 1]
    BY <1>2 DEF Later
  <2> PICK a : a = t[i]
    OBVIOUS
  <2>2. a.op = "schedule" /\ Written(a)
    BY <2>1, SeqIsFunction DEF Submitted, AllWritten
  <2>3. a # Advanced
    BY <2>2 DEF Advanced
  <2>4. a = SubmissionRecord(a.at, a.kind, a.payload) /\ a.at \in Int
        /\ PayloadCode(a.kind, a.payload) = "ok"
    BY <2>2, <2>3 DEF Written
  <2>5. e = SubmissionRecord(a.at + 1, a.kind, a.payload)
    BY <2>1, <2>4 DEF SubmissionRecord
  <2>6. e.at = a.at + 1 /\ e.kind = a.kind /\ e.payload = a.payload
    BY <2>5 DEF SubmissionRecord
  <2> QED
    BY <2>4, <2>5, <2>6 DEF Written
<1>3. CASE e = Advanced
  BY <1>3 DEF Written
<1> QED
  BY <1>1, <1>2, <1>3 DEF Slipped

LEMMA SubSeqWritten ==
  ASSUME NEW t, AllWritten(t), NEW m \in 1 .. Len(t) + 1, NEW n \in 0 .. Len(t), m <= n + 1
  PROVE  AllWritten(SubSeq(t, m, n)) /\ Len(SubSeq(t, m, n)) = n - m + 1
<1> PICK S : t \in Seq(S)
  BY DEF AllWritten, IsSeq
<1> PICK k \in Nat : k = Len(t)
  OBVIOUS
<1> PICK s : s = SubSeq(t, m, n)
  OBVIOUS
<1>1. m \in Int /\ n \in Int /\ m >= 1 /\ n <= k
  OBVIOUS
<1>2. /\ s \in Seq(S) /\ Len(s) = n - m + 1
      /\ \A i \in 1 .. n - m + 1 : s[i] = t[m + i - 1]
  BY <1>1
<1>3. \A i \in 1 .. n - m + 1 : m + i - 1 \in 1 .. k
  BY <1>1
<1> QED
  BY <1>2, <1>3 DEF AllWritten, IsSeq

LEMMA ConcatWritten ==
  ASSUME NEW s, AllWritten(s), NEW t, AllWritten(t)
  PROVE  AllWritten(s \o t) /\ Len(s \o t) = Len(s) + Len(t)
<1> PICK u : u = s \o t
  OBVIOUS
<1> PICK m \in Nat : m = Len(s)
  BY SeqIsFunction DEF AllWritten
<1> PICK n \in Nat : n = Len(t)
  BY SeqIsFunction DEF AllWritten
<1>1. IsSeq(s) /\ IsSeq(t)
  BY DEF AllWritten
<1>2. u = s \o t
  OBVIOUS
<1>3. /\ IsSeq(u) /\ Len(u) = Len(s) + Len(t)
      /\ \A i \in 1 .. Len(s) : u[i] = s[i]
      /\ \A i \in 1 .. Len(t) : u[Len(s) + i] = t[i]
  <2>1. PICK S : s \in Seq(S)
    BY <1>1 DEF IsSeq
  <2>2. PICK T : t \in Seq(T)
    BY <1>1 DEF IsSeq
  <2>3. s \in Seq(S \cup T) /\ t \in Seq(S \cup T)
    BY <2>1, <2>2
  <2>4. u \in Seq(S \cup T)
    BY <1>2, <2>3
  <2> QED
    BY <1>2, <2>3, <2>4 DEF IsSeq
<1>4. IsSeq(u) /\ Len(u) = m + n /\ (\A i \in 1 .. m : u[i] = s[i])
      /\ \A i \in 1 .. n : u[m + i] = t[i]
  BY <1>3
<1>5. ASSUME NEW i \in 1 .. m + n  PROVE Written(u[i])
  <2>1. CASE i <= m
    BY <1>4, <2>1 DEF AllWritten
  <2>2. CASE i > m
    <3> PICK j \in 1 .. n : i = m + j
      <4>1. i - m \in 1 .. n /\ i = m + (i - m)
        BY <2>2
      <4> QED
        BY <4>1
    <3> QED
      BY <1>4 DEF AllWritten
  <2> QED
    BY <2>1, <2>2
<1> QED
  BY <1>4, <1>5 DEF AllWritten

-------------------------------------------------------------------------------
LEMMA RemovalTruncates ==
  ASSUME NEW t, AllWritten(t), NEW recorded, recorded.entries = EntryDigests(t),
         NEW i \in 1 .. Len(t)
  PROVE  Verify(InitialWorld, RemoveAt(t, i), recorded)
           = Failed("replay-transcript-truncated", << >>)
<1> PICK n \in Nat : n = Len(t)
  BY SeqIsFunction DEF AllWritten
<1> PICK a : a = SubSeq(t, 1, i - 1)
  OBVIOUS
<1> PICK b : b = SubSeq(t, i + 1, n)
  OBVIOUS
<1> PICK s : s = RemoveAt(t, i)
  OBVIOUS
<1>1. AllWritten(a) /\ Len(a) = i - 1
  <2>1. 1 \in 1 .. n + 1 /\ i - 1 \in 0 .. n /\ 1 <= (i - 1) + 1 /\ (i - 1) - 1 + 1 = i - 1
    OBVIOUS
  <2> QED
    BY <2>1, SubSeqWritten
<1>2. AllWritten(b) /\ Len(b) = n - i
  <2>1. i + 1 \in 1 .. n + 1 /\ n \in 0 .. n /\ i + 1 <= n + 1 /\ n - (i + 1) + 1 = n - i
    OBVIOUS
  <2> QED
    BY <2>1, SubSeqWritten
<1>3. s = a \o b
  BY DEF RemoveAt
<1>4. AllWritten(s) /\ Len(s) = (i - 1) + (n - i)
  BY <1>1, <1>2, <1>3, ConcatWritten
<1>5. Len(s) < Len(t) /\ Len(s) # Len(t)
  BY <1>4
<1> QED
  BY <1>4, <1>5, OtherLength

LEMMA InsertionExtends ==
  ASSUME NEW t, AllWritten(t), NEW recorded, recorded.entries = EntryDigests(t),
         NEW i \in 1 .. Len(t) + 1, NEW e, Written(e)
  PROVE  Verify(InitialWorld, InsertAt(t, i, e), recorded)
           = Failed("replay-transcript-extended", << >>)
<1> PICK n \in Nat : n = Len(t)
  BY SeqIsFunction DEF AllWritten
<1> PICK a : a = SubSeq(t, 1, i - 1)
  OBVIOUS
<1> PICK b : b = SubSeq(t, i, n)
  OBVIOUS
<1> PICK c : c = a \o << e >>
  OBVIOUS
<1> PICK s : s = InsertAt(t, i, e)
  OBVIOUS
<1>1. AllWritten(a) /\ Len(a) = i - 1
  <2>1. 1 \in 1 .. n + 1 /\ i - 1 \in 0 .. n /\ 1 <= (i - 1) + 1 /\ (i - 1) - 1 + 1 = i - 1
    OBVIOUS
  <2> QED
    BY <2>1, SubSeqWritten
<1>2. AllWritten(b) /\ Len(b) = n - i + 1
  <2>1. i \in 1 .. n + 1 /\ n \in 0 .. n /\ i <= n + 1
    OBVIOUS
  <2> QED
    BY <2>1, SubSeqWritten
<1>3. AllWritten(<< e >>) /\ Len(<< e >>) = 1
  <2>1. << e >> \in Seq({e}) /\ Len(<< e >>) = 1 /\ << e >>[1] = e
    OBVIOUS
  <2>2. IsSeq(<< e >>)
    BY <2>1 DEF IsSeq
  <2>3. \A k \in 1 .. 1 : << e >>[k] = e
    OBVIOUS
  <2> QED
    BY <2>1, <2>2, <2>3 DEF AllWritten
<1>4. AllWritten(c) /\ Len(c) = (i - 1) + 1
  BY <1>1, <1>3, ConcatWritten
<1>5. s = c \o b
  BY DEF InsertAt
<1>6. AllWritten(s) /\ Len(s) = ((i - 1) + 1) + (n - i + 1)
  BY <1>2, <1>4, <1>5, ConcatWritten
<1>7. ~(Len(s) < Len(t)) /\ Len(s) # Len(t)
  BY <1>6
<1> QED
  BY <1>6, <1>7, OtherLength

LEMMA ExchangeReorders ==
  ASSUME NEW t, AllWritten(t), NEW recorded, recorded.entries = EntryDigests(t),
         NEW i \in 1 .. Len(t), NEW j \in 1 .. Len(t), i < j, t[i] # t[j]
  PROVE  Verify(InitialWorld, Swapped(t, i, j), recorded)
           = Failed("replay-transcript-reordered", << i - 1 >>)
<1> PICK n \in Nat : n = Len(t) /\ t = [k \in 1 .. n |-> t[k]]
  BY SeqIsFunction DEF AllWritten
<1> PICK s : s = Swapped(t, i, j)
  OBVIOUS
<1>1. /\ s = [k \in 1 .. n |-> s[k]] /\ s[i] = t[j] /\ s[j] = t[i]
      /\ \A k \in (1 .. n) \ {i, j} : s[k] = t[k]
  BY DEF Swapped
<1>2. IsSeq(s) /\ Len(s) = n
  BY <1>1, FunctionIsSeq
<1>3. AllWritten(s)
  BY <1>1, <1>2 DEF AllWritten
<1> PICK a : a = EntryDigests(s)
  OBVIOUS
<1> PICK b : b = EntryDigests(t)
  OBVIOUS
<1>4. a = [k \in 1 .. n |-> Entry(s[k])] /\ b = [k \in 1 .. n |-> Entry(t[k])]
  BY <1>2, <1>3, DigestsOf DEF AllWritten
<1>5. \A k \in 1 .. n : a[k] = Entry(s[k]) /\ b[k] = Entry(t[k])
  BY <1>4
<1>6. DOMAIN a = 1 .. n /\ DOMAIN b = 1 .. n /\ n \in Nat /\ i \in 1 .. n /\ j \in 1 .. n
  BY <1>4
<1>7. /\ a[i] = b[j] /\ a[j] = b[i] /\ \A k \in (1 .. n) \ {i, j} : a[k] = b[k]
  <2>1. a[i] = Entry(s[i]) /\ b[j] = Entry(t[j]) /\ a[j] = Entry(s[j]) /\ b[i] = Entry(t[i])
    BY <1>5, <1>6
  <2>2. ASSUME NEW k \in (1 .. n) \ {i, j}  PROVE a[k] = b[k]
    BY <1>1, <1>5
  <2> QED
    BY <1>1, <2>1, <2>2
<1>8. Permutation(a, b)
  BY ONLY <1>6, <1>7, ExchangePermutes
<1>9. s[i] # t[i] /\ (\A k \in 1 .. i - 1 : s[k] = t[k]) /\ Len(s) = Len(t) /\ i \in 1 .. Len(t)
  BY <1>1, <1>2
<1>10. recorded.entries = EntryDigests(t) /\ AllWritten(t)
  OBVIOUS
<1>11. Verify(InitialWorld, s, recorded)
         = Failed(IF Permutation(EntryDigests(s), EntryDigests(t))
                  THEN "replay-transcript-reordered"
                  ELSE "replay-transcript-tampered", << i - 1 >>)
  BY ONLY <1>3, <1>9, <1>10, SameLength
<1> QED
  BY <1>8, <1>11

LEMMA ReplacementIsFound ==
  ASSUME NEW t, AllWritten(t), NEW recorded, recorded.entries = EntryDigests(t),
         NEW i \in 1 .. Len(t), NEW e, Written(e), t[i] # e
  PROVE  Verify(InitialWorld, [t EXCEPT ![i] = e], recorded)
           = Failed("replay-transcript-tampered", << i - 1 >>)
<1> PICK n \in Nat : n = Len(t) /\ t = [k \in 1 .. n |-> t[k]]
  BY SeqIsFunction DEF AllWritten
<1> PICK s : s = [t EXCEPT ![i] = e]
  OBVIOUS
<1>1. /\ s = [k \in 1 .. n |-> s[k]] /\ s[i] = e
      /\ \A k \in (1 .. n) \ {i} : s[k] = t[k]
  OBVIOUS
<1>2. IsSeq(s) /\ Len(s) = n
  BY <1>1, FunctionIsSeq
<1>3. AllWritten(s)
  BY <1>1, <1>2 DEF AllWritten
<1> PICK a : a = EntryDigests(s)
  OBVIOUS
<1> PICK b : b = EntryDigests(t)
  OBVIOUS
<1>4. a = [k \in 1 .. n |-> Entry(s[k])] /\ b = [k \in 1 .. n |-> Entry(t[k])]
  BY <1>2, <1>3, DigestsOf DEF AllWritten
<1>5. \A k \in 1 .. n : a[k] = Entry(s[k]) /\ b[k] = Entry(t[k])
  BY <1>4
<1>6. DOMAIN a = 1 .. n /\ DOMAIN b = 1 .. n /\ n \in Nat /\ i \in 1 .. n
  BY <1>4
<1>7. \A k \in (1 .. n) \ {i} : a[k] = b[k]
  BY <1>1, <1>5
<1>8. a[i] # b[i]
  <2>1. Written(t[i]) /\ t[i] # e /\ Written(e)
    BY DEF AllWritten
  <2>2. Entry(t[i]) # Entry(e)
    BY ONLY <2>1, DigestsTellApart
  <2> QED
    BY <1>1, <1>5, <1>6, <2>2
<1>9. ~Permutation(a, b)
  BY ONLY <1>6, <1>7, <1>8, ReplacementTampers
<1>10. s[i] # t[i] /\ (\A k \in 1 .. i - 1 : s[k] = t[k]) /\ Len(s) = Len(t) /\ i \in 1 .. Len(t)
  BY <1>1, <1>2
<1>11. recorded.entries = EntryDigests(t) /\ AllWritten(t)
  OBVIOUS
<1>12. Verify(InitialWorld, s, recorded)
         = Failed(IF Permutation(EntryDigests(s), EntryDigests(t))
                  THEN "replay-transcript-reordered"
                  ELSE "replay-transcript-tampered", << i - 1 >>)
  BY ONLY <1>3, <1>10, <1>11, SameLength
<1> QED
  BY <1>9, <1>12

-------------------------------------------------------------------------------
(* Every alteration of the transcript or of the artifact of a run.         *)

LEMMA TranscriptsJudged ==
  ASSUME NEW t, t = world.transcript, AllWritten(t),
         NEW recorded, recorded.entries = EntryDigests(t),
         NEW a, a \in AlteredTranscripts(t)
  PROVE  Verify(InitialWorld, a.transcript, recorded) = a.verdict
<1>1. AllWritten(t) /\ recorded.entries = EntryDigests(t)
  OBVIOUS
<1>2. DOMAIN t = 1 .. Len(t)
  BY <1>1, SeqIsFunction DEF AllWritten
<1>3. ASSUME NEW i \in DOMAIN t,
             a = [transcript |-> RemoveAt(t, i),
                  verdict |-> Failed("replay-transcript-truncated", << >>)]
      PROVE  Verify(InitialWorld, a.transcript, recorded) = a.verdict
  BY <1>1, <1>2, <1>3, RemovalTruncates
<1>4. ASSUME NEW i \in 1 .. Len(t) + 1, NEW e \in Slipped(t),
             a = [transcript |-> InsertAt(t, i, e),
                  verdict |-> Failed("replay-transcript-extended", << >>)]
      PROVE  Verify(InitialWorld, a.transcript, recorded) = a.verdict
  <2>1. Written(e)
    BY SlippedIsWritten
  <2> QED
    BY <1>1, <1>4, <2>1, InsertionExtends
<1>5. ASSUME NEW i \in DOMAIN t, NEW j \in DOMAIN t, i < j, t[i] # t[j],
             a = [transcript |-> Swapped(t, i, j),
                  verdict |-> Failed("replay-transcript-reordered", << i - 1 >>)]
      PROVE  Verify(InitialWorld, a.transcript, recorded) = a.verdict
  BY <1>1, <1>2, <1>5, ExchangeReorders
<1>6. ASSUME NEW i \in DOMAIN t, NEW e \in Slipped(t), t[i] # e,
             a = [transcript |-> [t EXCEPT ![i] = e],
                  verdict |-> Failed("replay-transcript-tampered", << i - 1 >>)]
      PROVE  Verify(InitialWorld, a.transcript, recorded) = a.verdict
  <2>1. Written(e)
    BY SlippedIsWritten
  <2> QED
    BY <1>1, <1>2, <1>6, <2>1, ReplacementIsFound
<1>7. CASE a \in Truncations(t)
  BY <1>3, <1>7 DEF Truncations
<1>8. CASE a \in Extensions(t)
  BY <1>4, <1>8 DEF Extensions
<1>9. CASE a \in Reorderings(t)
  <2>1. PICK p \in {q \in (DOMAIN t) \X (DOMAIN t) : q[1] < q[2] /\ t[q[1]] # t[q[2]]} :
          a = [transcript |-> Swapped(t, p[1], p[2]),
               verdict |-> Failed("replay-transcript-reordered", << p[1] - 1 >>)]
    BY <1>9 DEF Reorderings
  <2>2. p[1] \in DOMAIN t /\ p[2] \in DOMAIN t /\ p[1] < p[2] /\ t[p[1]] # t[p[2]]
    BY <2>1
  <2> QED
    BY ONLY <1>5, <2>1, <2>2
<1>10. CASE a \in Tamperings(t)
  <2>1. PICK p \in {q \in (DOMAIN t) \X Slipped(t) : t[q[1]] # q[2]} :
          a = [transcript |-> [t EXCEPT ![p[1]] = p[2]],
               verdict |-> Failed("replay-transcript-tampered", << p[1] - 1 >>)]
    BY <1>10 DEF Tamperings
  <2>2. p[1] \in DOMAIN t /\ p[2] \in Slipped(t) /\ t[p[1]] # p[2]
    BY <2>1
  <2> QED
    BY ONLY <1>6, <2>1, <2>2
<1> QED
  BY <1>7, <1>8, <1>9, <1>10 DEF AlteredTranscripts

LEMMA ArtifactsJudged ==
  ASSUME NEW t, AllWritten(t), NEW log, log = OfRun(InitialWorld, t),
         log.code = "ok", Numbered(log.records), log.world.time \in Nat,
         NEW r, r = RecordedOf(EntryDigests(t), log),
         NEW a, a \in AlteredArtifacts(r)
  PROVE  Verify(InitialWorld, t, a.recorded) = a.verdict
<1> PICK d : d = EntryDigests(t)
  OBVIOUS
<1> PICK e : e = log.records
  OBVIOUS
<1> PICK n \in Nat : n = Len(e) /\ DOMAIN e = 1 .. n /\ IsSeq(e)
  BY SeqIsFunction DEF Numbered
<1> PICK w : w = StateDigest(log.world)
  OBVIOUS
<1>1. r = [entries |-> d, transcriptRoot |-> d, events |-> e,
           eventRoot |-> e, stateRoot |-> w]
  BY DEF RecordedOf
<1>2. ASSUME NEW x, x.entries = d
      PROVE  LET v == CompareEvents(e, x.events)
             IN  Verify(InitialWorld, t, x)
                   = IF v.code = "verified" THEN CompareRoots(log, x) ELSE v
  BY <1>2, OwnTranscript, OwnRecords
<1>3. ASSUME NEW i \in 1 .. n,
             a = [recorded |-> [r EXCEPT !.events[i] = Forged(@)],
                  verdict |-> Failed("replay-event-divergence", << i - 1 >>)]
      PROVE  Verify(InitialWorld, t, a.recorded) = a.verdict
  <2> PICK x : x = a.recorded
    OBVIOUS
  <2> PICK f : f = Forged(e[i])
    OBVIOUS
  <2>1. r.events = e /\ r.entries = d /\ "events" \in DOMAIN r
    BY <1>1
  <2>2. x = [r EXCEPT !.events = [r.events EXCEPT ![i] = Forged(r.events[i])]]
    BY <1>3
  <2>3. x.entries = d /\ x.events = [e EXCEPT ![i] = f]
    <3>1. x = [r EXCEPT !.events = [e EXCEPT ![i] = f]]
      BY <2>1, <2>2
    <3> HIDE <1>1, <2>2
    <3>2. "entries" \in DOMAIN r
      BY <1>1
    <3> QED
      BY <2>1, <3>1, <3>2
  <2>4. f # e[i]
    <3>1. f.id = e[i].id + 1 /\ e[i].id = i - 1
      BY DEF Numbered, Forged
    <3> QED
      BY <3>1
  <2> PICK g : g = x.events
    OBVIOUS
  <2>5. IsSeq(e) /\ i \in 1 .. Len(e) /\ g = [e EXCEPT ![i] = f]
    BY <2>3
  <2>6. CompareEvents(e, g) = Failed("replay-event-divergence", << i - 1 >>)
    BY ONLY <2>4, <2>5, EventsForged
  <2>7. CompareEvents(e, g).code # "verified"
    BY <2>6 DEF Failed
  <2>8. Verify(InitialWorld, t, x) = CompareEvents(e, g)
    BY <1>2, <2>3, <2>7
  <2>9. a.verdict = Failed("replay-event-divergence", << i - 1 >>)
    BY <1>3
  <2> QED
    BY <2>6, <2>8, <2>9
<1>4. ASSUME NEW k \in 0 .. n - 1,
             a = [recorded |-> [r EXCEPT !.events = SubSeq(@, 1, k)],
                  verdict |-> Failed("replay-event-count", << k >>)]
      PROVE  Verify(InitialWorld, t, a.recorded) = a.verdict
  <2> PICK x : x = a.recorded
    OBVIOUS
  <2>1. x.entries = d /\ x.events = SubSeq(e, 1, k)
    BY <1>1, <1>4
  <2> PICK g : g = x.events
    OBVIOUS
  <2>2. CompareEvents(e, g) = Failed("replay-event-count", << k >>)
    BY <2>1, EventsCut
  <2>3. CompareEvents(e, g).code # "verified"
    BY <2>2 DEF Failed
  <2>4. Verify(InitialWorld, t, x) = CompareEvents(e, g)
    BY <1>2, <2>1, <2>3
  <2>5. a.verdict = Failed("replay-event-count", << k >>)
    BY <1>4
  <2> QED
    BY <2>2, <2>4, <2>5
<1>5. ASSUME NEW x, x.entries = d, x.events = e
      PROVE  Verify(InitialWorld, t, x) = CompareRoots(log, x)
  BY <1>2, <1>5, EventsAgree DEF Verified, Failed
<1>6. ASSUME a = [recorded |-> [r EXCEPT !.eventRoot = Append(@, "forged")],
                  verdict |-> Failed("replay-event-divergence", << >>)]
      PROVE  Verify(InitialWorld, t, a.recorded) = a.verdict
  <2> PICK x : x = a.recorded
    OBVIOUS
  <2>1. x.entries = d /\ x.events = e /\ x.eventRoot = Append(e, "forged")
    BY <1>1, <1>6
  <2>2. Len(x.eventRoot) = n + 1
    BY <2>1, AppendIsSeq
  <2>3. e # x.eventRoot
    BY <2>2
  <2> QED
    BY <1>5, <1>6, <2>1, <2>3 DEF CompareRoots
<1>7. ASSUME a = [recorded |-> [r EXCEPT !.stateRoot.time = @ + 1],
                  verdict |-> Failed("replay-state-divergence", << >>)]
      PROVE  Verify(InitialWorld, t, a.recorded) = a.verdict
  <2> PICK x : x = a.recorded
    OBVIOUS
  <2>1. /\ x.entries = d /\ x.events = e /\ x.eventRoot = e
        /\ x.stateRoot = [w EXCEPT !.time = @ + 1]
    BY <1>1, <1>7
  <2>2. w.time \in Nat /\ "time" \in DOMAIN w
    BY DEF StateDigest
  <2>3. x.stateRoot.time = w.time + 1
    BY <2>1, <2>2
  <2>4. w # x.stateRoot
    BY <2>2, <2>3
  <2> QED
    BY <1>5, <1>7, <2>1, <2>4 DEF CompareRoots
<1>8. ASSUME a = [recorded |-> r, verdict |-> Verified]
      PROVE  Verify(InitialWorld, t, a.recorded) = a.verdict
  <2>1. r.entries = d /\ r.events = e /\ r.eventRoot = e /\ r.stateRoot = w
    BY <1>1
  <2> QED
    BY <1>5, <1>8, <2>1 DEF CompareRoots
<1> DEFINE Forgeries == {[recorded |-> [r EXCEPT !.events[i] = Forged(@)],
                          verdict |-> Failed("replay-event-divergence", << i - 1 >>)] :
                            i \in DOMAIN r.events}
           Cuts == {[recorded |-> [r EXCEPT !.events = SubSeq(@, 1, k)],
                     verdict |-> Failed("replay-event-count", << k >>)] :
                       k \in 0 .. Len(r.events) - 1}
<1>9. DOMAIN r.events = 1 .. n /\ Len(r.events) = n
  BY <1>1
<1>10. \/ a \in Forgeries \cup Cuts
       \/ a = [recorded |-> [r EXCEPT !.eventRoot = Append(@, "forged")],
               verdict |-> Failed("replay-event-divergence", << >>)]
       \/ a = [recorded |-> [r EXCEPT !.stateRoot.time = @ + 1],
               verdict |-> Failed("replay-state-divergence", << >>)]
       \/ a = [recorded |-> r, verdict |-> Verified]
  <2>1. a \in AlteredArtifacts(r)
    OBVIOUS
  <2> QED
    BY ONLY <2>1 DEF AlteredArtifacts
<1>11. CASE a \in Forgeries
  BY <1>3, <1>9, <1>11
<1>12. CASE a \in Cuts
  BY <1>4, <1>9, <1>12
<1> HIDE DEF Forgeries, Cuts
<1> QED
  BY <1>6, <1>7, <1>8, <1>10, <1>11, <1>12

\* One claimed input more, which the world refuses.
LEMMA ClaimsJudged ==
  ASSUME NEW t, AllWritten(t), NEW w, NEW log, LogShape(w, log),
         log = OfRun(InitialWorld, t),
         NEW at \in Int, NEW kind, NEW payload, NEW x,
         x = SubmissionRecord(at, kind, payload), EntryCode(x) = "ok",
         NEW code, code = ScheduleError(w, at, kind, payload), code # "ok",
         NEW recorded, recorded.entries = EntryDigests(Append(t, x))
  PROVE  Verify(InitialWorld, Append(t, x), recorded) = ClaimVerdict(code)
<1> PICK s : s = Append(t, x)
  OBVIOUS
<1>1. /\ x.op = "schedule" /\ x.at = at /\ x.kind = kind /\ x.payload = payload
      /\ x = SubmissionRecord(x.at, x.kind, x.payload)
  BY DEF SubmissionRecord
<1>2. PayloadCode(kind, payload) = "ok"
  BY <1>1 DEF EntryCode
<1>3. Written(x)
  BY <1>1, <1>2 DEF Written
<1>4. AllWritten(s)
  <2> PICK n \in Nat : n = Len(t)
    BY SeqIsFunction DEF AllWritten
  <2>1. IsSeq(s) /\ Len(s) = n + 1 /\ (\A i \in 1 .. n : s[i] = t[i]) /\ s[n + 1] = x
    BY AppendIsSeq DEF AllWritten
  <2>2. \A i \in 1 .. n + 1 : i \in 1 .. n \/ i = n + 1
    OBVIOUS
  <2> QED
    BY <1>3, <2>1, <2>2 DEF AllWritten
<1> PICK more : more = LogStep(log, x)
  OBVIOUS
<1>5. OfRun(InitialWorld, s) = more
  BY LogOfAppend DEF AllWritten
<1>6. log.code = "ok" /\ log.world = w
  BY DEF LogShape
<1>7. Plan(w, x).code = "ok"
  BY <1>1, <1>2 DEF Plan, PlanSchedule
<1>8. Reduce(w, x) = Refused(w, code)
  BY <1>1 DEF Reduce, Schedule
<1>9. code # NoError
  BY ScheduleCodes
<1>10. more = [log EXCEPT !.code = "eventlog-reduction-error", !.detail = << code >>]
  <2>1. Refused(w, code).error = code
    BY DEF Refused
  <2>2. more = LogCommit(log, Plan(w, x), Refused(w, code))
    BY <1>6, <1>8 DEF LogStep
  <2> QED
    BY <1>7, <1>9, <2>1, <2>2 DEF LogCommit
<1>11. more.code = "eventlog-reduction-error" /\ more.detail = << code >>
  BY <1>10 DEF LogShape
<1>12. << code >> = << "choice-selection-not-member" >>
         <=> code = "choice-selection-not-member"
  OBVIOUS
<1>13. CheckRun(more, recorded) = ClaimVerdict(code)
  BY <1>11, <1>12 DEF CheckRun, ClassifyRedrive, ClaimVerdict
<1>14. recorded.entries = EntryDigests(s)
  OBVIOUS
<1> QED
  BY ONLY <1>4, <1>5, <1>13, <1>14, s = Append(t, x), OwnTranscript

-------------------------------------------------------------------------------
\* A step that succeeds, as the log sees it.
Succeeds(in, w, v) ==
  /\ w.pending # << >> \/ in # Advanced
  /\ v = Reduce(w, in).world /\ Reduce(w, in).error = NoError
  /\ IsSeq(w.transcript) /\ v.transcript = Append(w.transcript, in)

LEMMA LogGrows ==
  ASSUME QueueInv, LogInv, [Next]_vars, error' = NoError
  PROVE  /\ error = NoError
         /\ \/ UNCHANGED world
            \/ \E x : /\ Written(x) /\ Succeeds(x, world, world')
                     /\ Log' = LogStep(Log, x)
<1> USE DEF Keep
<1>1. ASSUME NEW in \in Inputs, ScheduleInput(in)
      PROVE  \E x : /\ Written(x) /\ Succeeds(x, world, world')
                   /\ Log' = LogStep(Log, x)
  <2> DEFINE r == Schedule(world, in.at, in.kind, in.payload)
             x == SubmissionRecord(in.at, in.kind, in.payload)
  <2>1. in.at \in Int
    <3>1. in.at \in Instants \cup {-1}
      BY InputsAssumption
    <3>2. Instants \subseteq Int /\ -1 \in Int
      BY InstantsAssumption
    <3> QED
      BY <3>1, <3>2, Zenon
  <2>2. world' = r.world /\ r.error = NoError /\ error = NoError
    BY <1>1 DEF ScheduleInput
  <2>3. LogOK(world, Log) /\ IsSeq(world.transcript) /\ WorldOK(world)
    BY <2>2 DEF LogInv, LogOK, LogShape, QueueInv
  <2>4. r.world.transcript = Append(world.transcript, x)
    BY <2>1, <2>2, <2>3, ScheduleRecords DEF SubmissionRecord
  <2>5. OfRun(InitialWorld, r.world.transcript) = LogStep(Log, x)
    BY <2>3, <2>4, LogOfAppend DEF Log
  <2>6. /\ x.op = "schedule" /\ x.at = in.at /\ x.kind = in.kind
        /\ x.payload = in.payload /\ x = SubmissionRecord(x.at, x.kind, x.payload)
    BY DEF SubmissionRecord
  <2>7. x # Advanced
    BY <2>6 DEF Advanced
  <2>8. Reduce(world, x) = r
    BY <2>6 DEF Reduce
  <2>9. EventValid(in.kind, in.payload)
    BY <2>1, <2>2, <2>3, ScheduleAdds
  <2>10. Written(x)
    BY <2>1, <2>6, <2>9, AcceptedPayload DEF Written
  <2> HIDE DEF r, x
  <2>11. Log' = LogStep(Log, x)
    BY <2>2, <2>5 DEF Log
  <2>12. Succeeds(x, world, world')
    BY <2>2, <2>3, <2>4, <2>7, <2>8 DEF Succeeds
  <2> QED
    BY <2>10, <2>11, <2>12
<1>2. ASSUME AdvanceToNextEvent
      PROVE  \E x : /\ Written(x) /\ Succeeds(x, world, world')
                   /\ Log' = LogStep(Log, x)
  <2> DEFINE r == Advance(world)
  <2>1. /\ world.pending # << >> /\ error = NoError
        /\ world' = r.world /\ r.error = NoError
    BY <1>2 DEF AdvanceToNextEvent
  <2>2. LogOK(world, Log) /\ IsSeq(world.transcript) /\ WorldOK(world)
    BY <2>1 DEF LogInv, LogOK, LogShape, QueueInv
  <2>3. r.world.transcript = Append(world.transcript, Advanced)
    BY <2>1, <2>2, AdvanceRecords DEF Advanced
  <2>4. OfRun(InitialWorld, r.world.transcript) = LogStep(Log, Advanced)
    BY <2>2, <2>3, LogOfAppend DEF Log
  <2>5. Reduce(world, Advanced) = r
    BY DEF Reduce, Advanced
  <2> HIDE DEF r
  <2>6. Log' = LogStep(Log, Advanced)
    BY <2>1, <2>4 DEF Log
  <2>7. Succeeds(Advanced, world, world')
    BY <2>1, <2>2, <2>3, <2>5 DEF Succeeds
  <2>8. Written(Advanced)
    BY DEF Written
  <2> QED
    BY <2>6, <2>7, <2>8
<1>3. ASSUME AdvanceOfNothing \/ RollbackInput  PROVE FALSE
  BY <1>3 DEF AdvanceOfNothing, RollbackInput, Advance, Reduce, Refused, NoError
<1>4. CASE UNCHANGED vars
  BY <1>4 DEF vars
<1>5. CASE Next
  <2>1. error = NoError
    BY <1>5 DEF Next, ScheduleInput, AdvanceToNextEvent, AdvanceOfNothing, RollbackInput
  <2> QED
    BY <1>1, <1>2, <1>3, <1>5, <2>1 DEF Next
<1> QED
  BY <1>4, <1>5

LEMMA RecordsNumbered ==
  ASSUME NEW log, log.code = "ok", Numbered(log.records), "code" \in DOMAIN log,
         NEW x, NEW more, more = LogStep(log, x), more.code = "ok"
  PROVE  Numbered(more.records)
<1> PICK plan : plan = Plan(log.world, x)
  OBVIOUS
<1> PICK reduction : reduction = Reduce(log.world, x)
  OBVIOUS
<1>1. more = LogCommit(log, plan, reduction)
  BY DEF LogStep
<1>2. plan.code = "ok" /\ reduction.error = NoError
  BY <1>1 DEF LogCommit
<1> PICK after : after = reduction.world
  OBVIOUS
<1> PICK records : records = log.records
  OBVIOUS
<1> PICK n \in Nat : n = Len(records) /\ IsSeq(records)
  BY SeqIsFunction DEF Numbered
<1> PICK r : r = RecordOf(plan, n, Parents(plan.stage, plan.origin, log.links),
                          log.world, after)
  OBVIOUS
<1>3. more.records = Append(records, r)
  BY <1>1, <1>2 DEF LogCommit
<1>4. "id" \in DOMAIN r /\ r.id = n
  BY DEF RecordOf
<1> PICK s : s = Append(records, r)
  OBVIOUS
<1>5. IsSeq(s) /\ Len(s) = n + 1 /\ (\A i \in 1 .. n : s[i] = records[i]) /\ s[n + 1] = r
  BY AppendIsSeq
<1>6. ASSUME NEW i \in 1 .. n + 1  PROVE "id" \in DOMAIN s[i] /\ s[i].id = i - 1
  <2>1. CASE i \in 1 .. n
    BY <1>5, <2>1 DEF Numbered
  <2>2. CASE i = n + 1
    BY <1>4, <1>5, <2>2
  <2> QED
    BY <2>1, <2>2
<1> QED
  BY <1>3, <1>5, <1>6 DEF Numbered

LEMMA ArtifactInit == Init => ArtifactInv
<1> SUFFICES ASSUME Init  PROVE AllWritten(world.transcript) /\ Numbered(Log.records)
  BY DEF ArtifactInv
<1>1. world.transcript = << >>
  BY DEF Init, InitialWorld
<1>2. Log.records = << >>
  BY <1>1, LogOfNothing DEF Log, EmptyLog
<1>3. << >> \in Seq({}) /\ Len(<< >>) = 0
  OBVIOUS
<1> QED
  BY <1>1, <1>2, <1>3 DEF AllWritten, Numbered, IsSeq

LEMMA ArtifactStep == QueueInv /\ LogInv /\ ArtifactInv /\ [Next]_vars => ArtifactInv'
<1> SUFFICES ASSUME QueueInv, LogInv, ArtifactInv, [Next]_vars, error' = NoError
             PROVE  (AllWritten(world.transcript) /\ Numbered(Log.records))'
  BY DEF ArtifactInv
<1>1. LogInv'
  BY LogInvStep
<1>2. error = NoError /\ AllWritten(world.transcript) /\ Numbered(Log.records)
  BY LogGrows DEF ArtifactInv
<1>3. CASE UNCHANGED world
  BY <1>2, <1>3 DEF Log
<1>4. ASSUME NEW x, Written(x), Succeeds(x, world, world'), Log' = LogStep(Log, x)
      PROVE  (AllWritten(world.transcript) /\ Numbered(Log.records))'
  <2> PICK t : t = world.transcript
    OBVIOUS
  <2> PICK s : s = Append(t, x)
    OBVIOUS
  <2> PICK n \in Nat : n = Len(t)
    BY <1>2, SeqIsFunction DEF AllWritten
  <2>1. world'.transcript = s
    BY <1>4 DEF Succeeds
  <2>2. IsSeq(s) /\ Len(s) = n + 1 /\ (\A i \in 1 .. n : s[i] = t[i]) /\ s[n + 1] = x
    BY <1>2, AppendIsSeq DEF AllWritten
  <2>3. \A i \in 1 .. n + 1 : i \in 1 .. n \/ i = n + 1
    OBVIOUS
  <2>4. AllWritten(s)
    BY <1>2, <1>4, <2>2, <2>3 DEF AllWritten
  <2> PICK log : log = Log
    OBVIOUS
  <2> PICK more : more = LogStep(log, x)
    OBVIOUS
  <2>5. log.code = "ok" /\ "code" \in DOMAIN log /\ Numbered(log.records)
    BY <1>2 DEF LogInv, LogOK, LogShape
  <2>6. Log' = more
    BY <1>4
  <2>7. more.code = "ok"
    BY <1>1, <2>6 DEF LogInv, LogOK, LogShape
  <2>8. Numbered(more.records)
    BY <2>5, <2>7, RecordsNumbered
  <2> QED
    BY <2>1, <2>4, <2>6, <2>8
<1> QED
  BY <1>3, <1>4, LogGrows

(***************************************************************************)
(* For every handler, route table, hash and order of inputs, a run         *)
(* verifies against its own artifact, and whatever alters its transcript   *)
(* or its artifact is refused with the code and the first position of the  *)
(* alteration, however often an entry occurs; an artifact that claims an   *)
(* input more which the world refuses is refused with the world's code.    *)
(***************************************************************************)
THEOREM AlterationsAreClassified == Spec => []AlterationsClassified
<1>1. QueueInv /\ LogInv /\ ArtifactInv => AlterationsClassified
  <2> SUFFICES ASSUME QueueInv, LogInv, ArtifactInv, error = NoError
               PROVE  LET recorded == Recorded(InitialWorld, world.transcript)
                      IN  /\ \A a \in AlteredTranscripts(world.transcript) :
                               Verify(InitialWorld, a.transcript, recorded) = a.verdict
                          /\ \A a \in AlteredArtifacts(recorded) :
                               Verify(InitialWorld, world.transcript, a.recorded) = a.verdict
                          /\ \A in \in Inputs :
                               LET code == ScheduleError(world, in.at, in.kind, in.payload)
                                   claimed == Append(world.transcript, Submission(in))
                               IN  EntryCode(Submission(in)) = "ok" /\ code # "ok" =>
                                     Verify(InitialWorld, claimed,
                                            [recorded EXCEPT !.entries = EntryDigests(claimed)])
                                       = ClaimVerdict(code)
    BY DEF AlterationsClassified
  <2> PICK t : t = world.transcript
    OBVIOUS
  <2> PICK log : log = Log
    OBVIOUS
  <2> PICK r : r = Recorded(InitialWorld, t)
    OBVIOUS
  <2>1. /\ log = OfRun(InitialWorld, t) /\ LogShape(world, log)
        /\ AllWritten(t) /\ Numbered(log.records)
    BY DEF LogInv, LogOK, ArtifactInv, Log
  <2>2. log.code = "ok" /\ log.world.time \in Nat
    BY <2>1 DEF LogShape, QueueInv, WorldOK
  <2>3. r = RecordedOf(EntryDigests(t), log)
    BY <2>1 DEF Recorded
  <2>4. r.entries = EntryDigests(t) /\ "entries" \in DOMAIN r
    BY <2>3 DEF RecordedOf
  <2>5. ASSUME NEW a, a \in AlteredTranscripts(t)
        PROVE  Verify(InitialWorld, a.transcript, r) = a.verdict
    BY <2>1, <2>4, <2>5, TranscriptsJudged
  <2>6. ASSUME NEW a, a \in AlteredArtifacts(r)
        PROVE  Verify(InitialWorld, t, a.recorded) = a.verdict
    BY <2>1, <2>2, <2>3, <2>6, ArtifactsJudged
  <2>7. ASSUME NEW in \in Inputs, NEW code,
               code = ScheduleError(world, in.at, in.kind, in.payload),
               EntryCode(Submission(in)) = "ok", code # "ok"
        PROVE  Verify(InitialWorld, Append(t, Submission(in)),
                      [r EXCEPT !.entries = EntryDigests(Append(t, Submission(in)))])
                 = ClaimVerdict(code)
    <3> PICK x : x = Submission(in)
      OBVIOUS
    <3> PICK claim : claim = [r EXCEPT !.entries = EntryDigests(Append(t, x))]
      OBVIOUS
    <3>1. in.at \in Int
      <4>1. in.at \in Instants \cup {-1}
        BY InputsAssumption
      <4>2. Instants \subseteq Int /\ -1 \in Int
        BY InstantsAssumption
      <4> QED
        BY <4>1, <4>2, Zenon
    <3>2. x = SubmissionRecord(in.at, in.kind, in.payload) /\ EntryCode(x) = "ok"
      BY <2>7 DEF Submission, SubmissionRecord
    <3>3. claim.entries = EntryDigests(Append(t, x))
      BY <2>4
    <3>4. Verify(InitialWorld, Append(t, x), claim) = ClaimVerdict(code)
      BY ONLY <2>1, <2>7, <3>1, <3>2, <3>3, ClaimsJudged
    <3> QED
      BY <3>4
  <2> QED
    BY <2>5, <2>6, <2>7
<1>2. QueueInv /\ LogInv /\ ArtifactInv /\ [Next]_vars => ArtifactInv'
  BY ArtifactStep
<1> QED
  BY <1>1, <1>2, QueueInvInit, QueueInvStep, LogInit, LogInvStep, ArtifactInit, PTL DEF Spec

-------------------------------------------------------------------------------
(***************************************************************************)
(* Another engine: the kernel and the log are the same, whatever the       *)
(* handlers do; two engines part only where both deliver to a component.   *)
(***************************************************************************)
\* What the result of a handler makes of a world whose event e was popped.
Reacted(w, e, result) ==
  IF result.code # "ok" THEN Refused(w, result.code)
  ELSE ComponentCommit(w, e.id, e.at, e.payload.name, result.step)

OtherResult(w, e) ==
  Checked(OtherHandler(e.payload.name, w.states[e.payload.name],
                       e.payload.value, e.at))

OwnResult(w, e) ==
  Checked(Handler(e.payload.name, w.states[e.payload.name], e.payload.value, e.at))

LEMMA SameContract ==
  ASSUME NEW result  PROVE Other!Checked(result) = Checked(result)
BY Zenon DEF Other!Checked, Checked, Other!CheckStep, CheckStep, Other!FirstError, FirstError,
   Other!CheckValue, CheckValue, Other!CheckFacts, CheckFacts, Other!CheckFact,
   CheckFact, Other!CheckChoices, CheckChoices, Other!CheckChoice, CheckChoice,
   Other!CheckAlternatives, CheckAlternatives, Other!CheckAlternative,
   CheckAlternative, Other!Precedes, Precedes, Other!NamePrecedes, NamePrecedes,
   Other!Fact, Fact, Other!Menu, Menu

LEMMA SameCommit ==
  ASSUME NEW w, NEW id, NEW at, NEW name, NEW step
  PROVE  Other!ComponentCommit(w, id, at, name, step)
           = ComponentCommit(w, id, at, name, step)
BY Zenon DEF Other!ComponentCommit, ComponentCommit, Other!RouteDeliveries,
   RouteDeliveries, Other!InRouteOrder, InRouteOrder, Other!Matches, Matches,
   Other!Earlier, Earlier, Other!ComponentInput, ComponentInput, Other!Refused,
   Refused, Other!Reduced, Reduced, Other!RouteEnqueue, RouteEnqueue, Other!Event,
   Event, Other!Stamp, Stamp, Other!Publish, Publish, Other!NoError, NoError,
   Other!Cardinality, Cardinality

LEMMA SameSchedule ==
  ASSUME NEW w, NEW at, NEW kind, NEW payload
  PROVE  Other!Schedule(w, at, kind, payload) = Schedule(w, at, kind, payload)
<1>1. Other!ScheduleError(w, at, kind, payload) = ScheduleError(w, at, kind, payload)
  BY Zenon DEF Other!ScheduleError, ScheduleError, Other!FirstError, FirstError,
     Other!EventValid, EventValid, Other!EventOrderValid, EventOrderValid,
     Other!EventSelectionValid, EventSelectionValid, Other!CoordinateShape,
     CoordinateShape, Other!Ascending, Ascending, Other!Precedes, Precedes,
     Other!ToSet, ToSet
<1>2. \A e, q : Other!InsertEvent(e, q) = InsertEvent(e, q)
  BY Zenon DEF Other!InsertEvent, InsertEvent, Other!EventBefore, EventBefore
<1> QED
  BY Zenon, <1>1, <1>2 DEF Other!Schedule, Schedule, Other!Refused, Refused, Other!Reduced,
     Reduced, Other!Event, Event, Other!NoError, NoError

LEMMA OtherDelivers ==
  ASSUME NEW w, NEW e, e.kind = "component"
  PROVE  /\ Other!Dispatch(w, e) =
              IF e.payload.name \notin Names THEN Refused(w, "component-unknown")
              ELSE Reacted(w, e, OtherResult(w, e))
         /\ Dispatch(w, e) =
              IF e.payload.name \notin Names THEN Refused(w, "component-unknown")
              ELSE Reacted(w, e, OwnResult(w, e))
<1> PICK result : result = OtherHandler(e.payload.name, w.states[e.payload.name],
                                        e.payload.value, e.at)
  OBVIOUS
<1>1. Other!Dispatch(w, e) = Other!DispatchComponent(w, e.id, e.at, e.payload)
  BY DEF Other!Dispatch
<1>2. \A code : Other!Refused(w, code) = Refused(w, code)
  BY DEF Other!Refused, Refused
<1>3. Other!ComponentStep(e.payload.name, w.states[e.payload.name], e.payload.value,
                          e.at) = Checked(result)
  BY SameContract DEF Other!ComponentStep
<1>4. OtherResult(w, e) = Checked(result)
  BY DEF OtherResult
<1>5. Other!Names = Names
  BY DEF Other!Names, Names, Other!ToSet, ToSet
<1>6. Dispatch(w, e) = DispatchComponent(w, e.id, e.at, e.payload)
  BY DEF Dispatch
<1> QED
  BY Zenon, <1>1, <1>2, <1>3, <1>4, <1>5, <1>6, SameCommit
     DEF Other!DispatchComponent, DispatchComponent, Reacted, ComponentStep, OwnResult

LEMMA OtherDispatches ==
  ASSUME NEW w, NEW e, Dispatchable(e), e.kind # "component"
  PROVE  Other!Dispatch(w, e) = Dispatch(w, e)
<1>1. \A v, commands, choices :
        Other!Reduced(v, commands, choices) = Reduced(v, commands, choices)
  BY Zenon DEF Other!Reduced, Reduced, Other!NoError, NoError
<1>2. Other!PropertyVerdict(w, e.id, e.at, e.payload)
        = PropertyVerdict(w, e.id, e.at, e.payload)
  BY Zenon, <1>1 DEF Other!PropertyVerdict, PropertyVerdict
<1>3. Other!Choose(w, e.id, e.at, e.payload) = Choose(w, e.id, e.at, e.payload)
  BY Zenon, <1>1 DEF Other!Choose, Choose, Other!Sample, Sample,
     Other!AcceptedBlock, AcceptedBlock, Other!Acceptable, Acceptable,
     Other!Coordinates, Coordinates, Other!ChoiceRecord, ChoiceRecord
<1>4. Other!ApplySelected(w, e.id, e.at, e.payload)
        = ApplySelected(w, e.id, e.at, e.payload)
  BY Zenon, <1>1 DEF Other!ApplySelected, ApplySelected, Other!ChoiceRecord, ChoiceRecord
<1>5. CASE e.kind = "command"
  BY <1>1, <1>5 DEF Other!Dispatch, Dispatch
<1>6. CASE e.kind = "property-equals"
  BY <1>2, <1>6 DEF Other!Dispatch, Dispatch
<1>7. CASE e.kind = "choice" /\ e.payload.form = "drawn"
  BY <1>3, <1>7 DEF Other!Dispatch, Dispatch
<1>8. CASE e.kind = "choice" /\ e.payload.form = "selected"
  BY <1>4, <1>8 DEF Other!Dispatch, Dispatch
<1> QED
  BY <1>5, <1>6, <1>7, <1>8 DEF Dispatchable

LEMMA OtherReduces ==
  ASSUME NEW w
  PROVE  /\ \A at, kind, payload :
              Other!Reduce(w, SubmissionRecord(at, kind, payload))
                = Schedule(w, at, kind, payload)
         /\ Other!Reduce(w, Advanced) =
              IF w.pending = << >> THEN Refused(w, "no-pending-event")
              ELSE Other!Dispatch(Popping(w), Head(w.pending))
<1>1. ASSUME NEW at, NEW kind, NEW payload
      PROVE  Other!Reduce(w, SubmissionRecord(at, kind, payload))
                = Schedule(w, at, kind, payload)
  <2> PICK x : x = SubmissionRecord(at, kind, payload)
    OBVIOUS
  <2>1. x.op = "schedule" /\ x.at = at /\ x.kind = kind /\ x.payload = payload
    BY DEF SubmissionRecord
  <2> QED
    BY <2>1, SameSchedule DEF Other!Reduce
<1>2. Other!Reduce(w, Advanced) = Other!Advance(w)
  BY DEF Other!Reduce, Advanced
<1>3. Other!Refused(w, "no-pending-event") = Refused(w, "no-pending-event")
  BY DEF Other!Refused, Refused
<1>4. Other!Advance(w) =
        IF w.pending = << >> THEN Refused(w, "no-pending-event")
        ELSE Other!Dispatch(Popping(w), Head(w.pending))
  BY Zenon, <1>3 DEF Other!Advance, Popping, Other!RoutingAdvanced, RoutingAdvanced
<1> QED
  BY <1>1, <1>2, <1>4

-------------------------------------------------------------------------------
(* The log and the replay of another engine, input by input.               *)

LEMMA SamePlan ==
  ASSUME NEW w, NEW x  PROVE Other!Plan(w, x) = Plan(w, x)
<1>1. \A kind, payload : Other!PayloadCode(kind, payload) = PayloadCode(kind, payload)
  BY Zenon DEF Other!PayloadCode, PayloadCode, Other!Kinds, Kinds, Other!ToSet, ToSet,
     Other!CoordinateShape, CoordinateShape
<1> QED
  BY Zenon, <1>1 DEF Other!Plan, Plan, Other!PlanSchedule, PlanSchedule, Other!PlanEvent,
     PlanEvent, Other!NoPlan, NoPlan, Other!AdvanceActor, AdvanceActor,
     Other!AdvanceSubsystem, AdvanceSubsystem

LEMMA SameCommitToLog ==
  ASSUME NEW log, NEW plan, NEW reduction
  PROVE  Other!LogCommit(log, plan, reduction) = LogCommit(log, plan, reduction)
BY Zenon DEF Other!LogCommit, LogCommit, Other!NoError, NoError, Other!RecordOf,
   RecordOf, Other!StateDigest, StateDigest, Other!Parents, Parents, Other!Linked, Linked

LEMMA OtherLogs ==
  ASSUME NEW log, NEW x
  PROVE  Other!LogStep(log, x) =
           IF log.code # "ok" THEN log
           ELSE LogCommit(log, Plan(log.world, x), Other!Reduce(log.world, x))
BY Zenon, SamePlan, SameCommitToLog DEF Other!LogStep

OtherLogStep(log, x) == Other!LogStep(log, x)
OtherReplayStep(run, x) == Other!ReplayStep(run, x)

OtherLogged == INSTANCE LeftFold WITH Op <- OtherLogStep
OtherRuns   == INSTANCE LeftFold WITH Op <- OtherReplayStep

LEMMA OtherLogIsFold ==
  ASSUME NEW t  PROVE Other!OfRun(InitialWorld, t) = OtherLogged!Folded(EmptyLog, t)
BY DEF Other!OfRun, EmptyLog, OtherLogged!Folded, OtherLogged!FoldLeft, Other!FoldLeft,
       Other!MapThenFoldSet, OtherLogged!MapThenFoldSet, Other!Max, OtherLogged!Max,
       OtherLogStep

LEMMA OtherReplayIsFold ==
  ASSUME NEW t  PROVE Other!Replay(t) = OtherRuns!Folded(Boot, t)
BY DEF Other!Replay, Boot, OtherRuns!Folded, OtherRuns!FoldLeft, Other!FoldLeft,
       Other!MapThenFoldSet, OtherRuns!MapThenFoldSet, Other!Max, OtherRuns!Max,
       OtherReplayStep, Other!InitialWorld, InitialWorld, Other!NoError, NoError

LEMMA OtherOfNothing ==
  Other!OfRun(InitialWorld, << >>) = EmptyLog /\ Other!Replay(<< >>) = Boot
BY OtherLogged!FoldedEmpty, OtherLogIsFold, OtherRuns!FoldedEmpty, OtherReplayIsFold

LEMMA OtherOfAppend ==
  ASSUME NEW s, IsSeq(s), NEW x
  PROVE  /\ Other!OfRun(InitialWorld, Append(s, x))
              = Other!LogStep(Other!OfRun(InitialWorld, s), x)
         /\ Other!Replay(Append(s, x)) = Other!ReplayStep(Other!Replay(s), x)
<1> DEFINE t == Append(s, x)
<1> PICK n : n = Len(s)
  OBVIOUS
<1>1. n \in Nat /\ DOMAIN s = 1 .. n
  BY SeqIsFunction
<1>2. /\ DOMAIN t = 1 .. n + 1 /\ t[n + 1] = x
      /\ \A i \in 1 .. n : t[i] = s[i]
  BY AppendIsSeq, SeqIsFunction
<1> HIDE DEF t
<1>3. OtherLogged!Folded(EmptyLog, t)
        = OtherLogStep(OtherLogged!Folded(EmptyLog, s), t[n + 1])
  BY <1>1, <1>2, OtherLogged!FoldedMore
<1>4. OtherRuns!Folded(Boot, t) = OtherReplayStep(OtherRuns!Folded(Boot, s), t[n + 1])
  BY <1>1, <1>2, OtherRuns!FoldedMore
<1>5. Other!OfRun(InitialWorld, t) = Other!LogStep(Other!OfRun(InitialWorld, s), x)
  BY <1>2, <1>3, OtherLogIsFold DEF OtherLogStep
<1>6. Other!Replay(t) = Other!ReplayStep(Other!Replay(s), x)
  BY <1>2, <1>4, OtherReplayIsFold DEF OtherReplayStep
<1> QED
  BY <1>5, <1>6 DEF t

-------------------------------------------------------------------------------
(* The queue of another engine holds events the log has a plan for.        *)

Arrives(e) == Dispatchable(e) /\ PayloadCode(e.kind, e.payload) = "ok"

Arriving(w) ==
  /\ DOMAIN w = DOMAIN InitialWorld
  /\ IsSeq(w.pending) /\ \A i \in 1 .. Len(w.pending) : Arrives(w.pending[i])

Admitted(x) ==
  \/ x = Advanced
  \/ x = SubmissionRecord(x.at, x.kind, x.payload) /\ EventValid(x.kind, x.payload)

LEMMA ValidArrives ==
  ASSUME NEW id, NEW at, NEW kind, NEW payload, EventValid(kind, payload)
  PROVE  Arrives(Event(id, at, kind, payload))
<1>1. PayloadCode(kind, payload) = "ok"
  BY AcceptedPayload
<1>2. \/ kind \in {"command", "property-equals", "component"}
      \/ kind = "choice" /\ payload.form \in {"drawn", "selected"}
  BY DEF EventValid
<1> QED
  BY <1>1, <1>2 DEF Arrives, Dispatchable, Event

LEMMA RoutedArrives ==
  ASSUME NEW id, NEW at, NEW payload  PROVE Arrives(Event(id, at, "component", payload))
BY DEF Arrives, Dispatchable, Event, PayloadCode, Kinds

LEMMA InsertArrives ==
  ASSUME NEW q, IsSeq(q), \A i \in 1 .. Len(q) : Arrives(q[i]), NEW e, Arrives(e)
  PROVE  LET r == InsertEvent(e, q)
         IN  IsSeq(r) /\ \A i \in 1 .. Len(r) : Arrives(r[i])
<1> PICK r : r = InsertEvent(e, q)
  OBVIOUS
<1> PICK n \in Nat : n = Len(q)
  BY SeqIsFunction
<1>1. IsSeq(r) /\ Len(r) = n + 1
  BY InsertEventLen
<1>2. \A i \in 1 .. n + 1 :
        \/ r[i] = e
        \/ i \in 1 .. n /\ r[i] = q[i]
        \/ i - 1 \in 1 .. n /\ r[i] = q[i - 1]
  BY DEF InsertEvent
<1> QED
  BY <1>1, <1>2

LEMMA DueWithin ==
  ASSUME NEW q, IsSeq(q), NEW at
  PROVE  Cardinality({i \in DOMAIN q : q[i].at <= at}) \in 0 .. Len(q)
<1> DEFINE due == {i \in DOMAIN q : q[i].at <= at}
<1> PICK n \in Nat : n = Len(q) /\ DOMAIN q = 1 .. n
  BY SeqIsFunction
<1>1. due \subseteq 1 .. n
  OBVIOUS
<1> HIDE DEF due
<1>2. IsFiniteSet(1 .. n) /\ Cardinality(1 .. n) = n
  <2>1. 1 \in Int /\ n \in Int
    OBVIOUS
  <2>2. IsFiniteSet(1 .. n) /\ Cardinality(1 .. n) = IF 1 > n THEN 0 ELSE n - 1 + 1
    BY ONLY <2>1, FS_Interval
  <2> QED
    BY <2>2
<1>3. Cardinality(due) <= Cardinality(1 .. n) /\ IsFiniteSet(due)
  BY <1>1, <1>2, FS_Subset
<1>4. Cardinality(due) \in Nat
  BY <1>3, FS_CardinalityType
<1>5. Cardinality(due) \in 0 .. n
  BY <1>2, <1>3, <1>4
<1> QED
  BY <1>5 DEF due

LEMMA RouteArrives ==
  ASSUME NEW q, IsSeq(q), \A i \in 1 .. Len(q) : Arrives(q[i]),
         NEW d, IsSeq(d), NEW at, NEW nextId
  PROVE  LET r == RouteEnqueue(d, at, nextId, q)
         IN  IsSeq(r) /\ \A i \in 1 .. Len(r) : Arrives(r[i])
<1> PICK r : r = RouteEnqueue(d, at, nextId, q)
  OBVIOUS
<1> PICK m \in Nat : m = Len(q)
  BY SeqIsFunction
<1> PICK n \in Nat : n = Len(d)
  BY SeqIsFunction
<1> PICK due \in 0 .. m : due = Cardinality({i \in DOMAIN q : q[i].at <= at})
  BY DueWithin
<1> DEFINE New(i) == Event(nextId + (i - due - 1), at, "component", d[i - due])
<1>1. r = [i \in 1 .. m + n |->
             IF i <= due THEN q[i]
             ELSE IF i <= due + n THEN New(i) ELSE q[i - n]]
  BY DEF RouteEnqueue
<1>2. \A i : Arrives(New(i))
  BY RoutedArrives
<1> HIDE DEF New
<1>3. m + n \in Nat /\ r = [i \in 1 .. m + n |-> r[i]]
  BY <1>1
<1>4. IsSeq(r) /\ Len(r) = m + n
  BY <1>3, FunctionIsSeq
<1>5. \A i \in 1 .. m + n :
        \/ r[i] = New(i)
        \/ i \in 1 .. m /\ r[i] = q[i]
        \/ i - n \in 1 .. m /\ r[i] = q[i - n]
  BY <1>1
<1> QED
  BY <1>2, <1>4, <1>5

-------------------------------------------------------------------------------
(* What a committed step makes of a world depends on its state and facts.  *)
CommitWorld(w, e, state, facts) ==
  LET d == RouteDeliveries(e.payload.name, facts)
  IN  [w EXCEPT !.count   = w.count + Len(d),
                !.nextId  = w.nextId + Len(d),
                !.pending = RouteEnqueue(d, e.at, w.nextId, w.pending),
                !.states  = [w.states EXCEPT ![e.payload.name] = state],
                !.facts   = w.facts \o Stamp(e.id, e.at, e.payload.name, facts)]

Commit(w, e, v) ==
  \E state : \E facts \in Seq(Fact) : v = CommitWorld(w, e, state, facts)

LEMMA CommitMakes ==
  ASSUME NEW w, DOMAIN w = DOMAIN InitialWorld, NEW e, NEW result, NEW checked,
         checked = Checked(result), NEW r, r = Reacted(w, e, checked),
         r.error = NoError
  PROVE  Commit(w, e, r.world)
<1>1. checked.code # NoError
  <2>1. CheckStep(result) # NoError
    BY ContractRefusals DEF ContractCodes, NoError
  <2> QED
    BY <2>1, NoErrorAssumption DEF Checked, NoError
<1>2. checked.code = "ok"
  BY <1>1 DEF Reacted, Refused
<1>3. checked.step = result
  BY DEF Checked
<1>4. CheckStep(result) = "ok"
  BY <1>2, MarkerAssumption DEF Checked
<1>5. result.facts \in Seq(Fact)
  <2> DEFINE codes == << CheckValue(result.state, "component-state-invalid",
                                    "component-state-authority"),
                         CheckFacts(result.facts),
                         CheckChoices(result.choices) >>
  <2>1. DOMAIN codes = 1 .. 3 /\ FirstError(codes) = "ok"
    BY <1>4 DEF CheckStep
  <2>2. codes[2] = CheckFacts(result.facts)
    OBVIOUS
  <2> HIDE DEF codes
  <2>3. \A i \in 1 .. 3 : codes[i] = "ok"
    BY <2>1, FirstErrorOk
  <2> QED
    BY <2>2, <2>3 DEF CheckFacts
<1>6. r = ComponentCommit(w, e.id, e.at, e.payload.name, result)
  BY <1>2, <1>3 DEF Reacted
<1>7. r.world = CommitWorld(w, e, result.state, result.facts)
  <2> PICK name : name = e.payload.name
    OBVIOUS
  <2> PICK d : d = RouteDeliveries(name, result.facts)
    OBVIOUS
  <2>1. Refused(w, "route-cascade-exceeded").error # NoError
    BY DEF Refused, NoError
  <2>2. ~(w.count + Len(d) > RouteLimit)
    BY <1>6, <2>1 DEF ComponentCommit
  <2> PICK base : base = [w EXCEPT !.count   = w.count + Len(d),
                                   !.nextId  = w.nextId + Len(d),
                                   !.pending = RouteEnqueue(d, e.at, w.nextId, w.pending)]
    OBVIOUS
  <2>3. base.states = w.states
    BY WorldFields
  <2>4. r.world = [base EXCEPT
                      !.states[name] = result.state,
                      !.facts        = w.facts \o Stamp(e.id, e.at, name, result.facts)]
    BY <1>6, <2>2 DEF ComponentCommit, Reduced
  <2>5. r.world = [base EXCEPT
                      !.states = [w.states EXCEPT ![name] = result.state],
                      !.facts  = w.facts \o Stamp(e.id, e.at, name, result.facts)]
    BY Zenon, <2>3, <2>4
  <2> QED
    BY Zenon, <2>5 DEF CommitWorld
<1> QED
  BY <1>5, <1>7 DEF Commit

\* A concatenation tells its second part.
Tells(past, stamped, facts) ==
  /\ DOMAIN (past \o stamped) = 1 .. Len(past) + Len(facts)
  /\ \A i \in 1 .. Len(facts) : (past \o stamped)[Len(past) + i] = stamped[i]
  /\ \A i \in 1 .. Len(facts) :
       stamped[i].name = facts[i].name /\ stamped[i].value = facts[i].value

LEMMA StampsTell ==
  ASSUME NEW past, IsSeq(past), NEW facts, IsSeq(facts), NEW id, NEW at, NEW name
  PROVE  Tells(past, Stamp(id, at, name, facts), facts)
BY StampedIsSeq DEF Tells

\* Two steps whose worlds have the same digest are one.
LEMMA CommitsAgree ==
  ASSUME NEW w, DOMAIN w = DOMAIN InitialWorld, IsSeq(w.facts), NEW e,
         NEW s, NEW f, f \in Seq(Fact), NEW t, NEW g, g \in Seq(Fact),
         NEW v, v = CommitWorld(w, e, s, f), NEW u, u = CommitWorld(w, e, t, g),
         StateDigest(v) = StateDigest(u)
  PROVE  v = u
<1> PICK name : name = e.payload.name
  OBVIOUS
<1>1. v.facts = u.facts /\ v.states = u.states
  <2>1. StateDigest(v) = StateDigest(u)
    OBVIOUS
  <2>2. \A x : StateDigest(x).factsRoot = x.facts /\ StateDigest(x).states = x.states
    BY DEF StateDigest
  <2> QED
    BY <2>1, <2>2
<1>2. /\ v.states = [w.states EXCEPT ![name] = s]
      /\ v.facts = w.facts \o Stamp(e.id, e.at, name, f)
  BY WorldFields DEF CommitWorld
<1>3. /\ u.states = [w.states EXCEPT ![name] = t]
      /\ u.facts = w.facts \o Stamp(e.id, e.at, name, g)
  BY WorldFields DEF CommitWorld
<1>4. f = g
  <2> PICK past : past = w.facts /\ IsSeq(past)
    OBVIOUS
  <2> PICK id, at : id = e.id /\ at = e.at
    OBVIOUS
  <2> PICK a : a = Stamp(id, at, name, f)
    OBVIOUS
  <2> PICK b : b = Stamp(id, at, name, g)
    OBVIOUS
  <2>1. past \o a = past \o b
    BY <1>1, <1>2, <1>3
  <2> PICK m \in Nat : m = Len(past)
    BY SeqIsFunction
  <2>2. Len(f) \in Nat /\ Len(g) \in Nat /\ IsSeq(f) /\ IsSeq(g)
    BY DEF IsSeq
  <2>3. /\ DOMAIN (past \o a) = 1 .. m + Len(f)
        /\ \A i \in 1 .. Len(f) : (past \o a)[m + i] = a[i]
        /\ \A i \in 1 .. Len(f) : a[i].name = f[i].name /\ a[i].value = f[i].value
    <3>1. Tells(past, a, f)
      BY <2>2, StampsTell
    <3> QED
      BY <3>1 DEF Tells
  <2>4. /\ DOMAIN (past \o b) = 1 .. m + Len(g)
        /\ \A i \in 1 .. Len(g) : (past \o b)[m + i] = b[i]
        /\ \A i \in 1 .. Len(g) : b[i].name = g[i].name /\ b[i].value = g[i].value
    <3>1. Tells(past, b, g)
      BY <2>2, StampsTell
    <3> QED
      BY <3>1 DEF Tells
  <2>5. Len(f) = Len(g)
    <3>1. 1 .. m + Len(f) = 1 .. m + Len(g)
      BY <2>1, <2>3, <2>4
    <3>2. m + Len(f) \in Nat /\ m + Len(g) \in Nat
      BY <2>2
    <3>3. \A k, l \in Nat : 1 .. k = 1 .. l => k = l
      <4> SUFFICES ASSUME NEW k \in Nat, NEW l \in Nat, 1 .. k = 1 .. l  PROVE k = l
        OBVIOUS
      <4>1. k > 0 => k \in 1 .. k
        OBVIOUS
      <4>2. l > 0 => l \in 1 .. l
        OBVIOUS
      <4> QED
        BY <4>1, <4>2
    <3>4. m + Len(f) = m + Len(g)
      BY <3>1, <3>2, <3>3
    <3> QED
      BY <2>2, <3>4
  <2>6. ASSUME NEW i \in 1 .. Len(f)  PROVE f[i] = g[i]
    <3>1. a[i] = b[i]
      <4>1. (past \o a)[m + i] = a[i]
        BY <2>3
      <4>2. (past \o b)[m + i] = b[i]
        BY <2>4, <2>5
      <4> QED
        BY ONLY <2>1, <4>1, <4>2
    <3>2. f[i].name = g[i].name /\ f[i].value = g[i].value
      BY <2>3, <2>4, <2>5, <3>1
    <3>3. f[i] \in Fact /\ g[i] \in Fact
      BY <2>5
    <3>4. \A fact \in Fact : fact = [name |-> fact.name, value |-> fact.value]
      BY DEF Fact
    <3> QED
      BY ONLY <3>2, <3>3, <3>4
  <2> QED
    BY <2>5, <2>6
<1>5. [w.states EXCEPT ![name] = s] = [w.states EXCEPT ![name] = t]
  BY <1>1, <1>2, <1>3
<1> QED
  BY Zenon, <1>4, <1>5 DEF CommitWorld

-------------------------------------------------------------------------------
(* One input, handled by another engine.                                   *)

LEMMA PoppingArrives ==
  ASSUME NEW w, Arriving(w), w.pending # << >>
  PROVE  Arriving(Popping(w)) /\ Arrives(Head(w.pending)) /\ Popping(w).facts = w.facts
<1> PICK q : q = w.pending /\ IsSeq(q) /\ q # << >> /\ \A i \in 1 .. Len(q) : Arrives(q[i])
  BY DEF Arriving
<1> PICK n \in Nat : n = Len(q)
  BY SeqIsFunction
<1>1. /\ n > 0 /\ Head(q) = q[1] /\ IsSeq(Tail(q)) /\ Len(Tail(q)) = n - 1
      /\ \A i \in 1 .. n - 1 : Tail(q)[i] = q[i + 1]
  BY TailIsSeq
<1>2. Arrives(Head(q))
  BY <1>1
<1>3. \A i \in 1 .. n - 1 : i + 1 \in 1 .. n
  OBVIOUS
<1>4. \A i \in 1 .. Len(Tail(q)) : Arrives(Tail(q)[i])
  BY <1>1, <1>3
<1> PICK v : v = Popping(w)
  OBVIOUS
<1>5. /\ DOMAIN v = DOMAIN InitialWorld
      /\ v.pending = Tail(q) /\ v.facts = w.facts
  BY WorldFields DEF Popping, Arriving
<1> QED
  BY <1>1, <1>2, <1>4, <1>5 DEF Arriving

LEMMA CommitArrives ==
  ASSUME NEW w, Arriving(w), NEW e, NEW state, NEW facts \in Seq(Fact)
  PROVE  Arriving(CommitWorld(w, e, state, facts))
<1> PICK name : name = e.payload.name
  OBVIOUS
<1> PICK d : d = RouteDeliveries(name, facts)
  OBVIOUS
<1> PICK v : v = CommitWorld(w, e, state, facts)
  OBVIOUS
<1>1. IsSeq(facts)
  BY DEF IsSeq
<1>2. IsSeq(d)
  BY <1>1, DeliveriesAreASeq
<1> PICK at, nextId, q : at = e.at /\ nextId = w.nextId /\ q = w.pending
  OBVIOUS
<1> PICK p : p = RouteEnqueue(d, at, nextId, q)
  OBVIOUS
<1>3. DOMAIN v = DOMAIN InitialWorld /\ v.pending = p
  BY WorldFields DEF CommitWorld, Arriving
<1>4. IsSeq(q) /\ \A i \in 1 .. Len(q) : Arrives(q[i])
  BY DEF Arriving
<1>5. IsSeq(p) /\ \A i \in 1 .. Len(p) : Arrives(p[i])
  BY ONLY <1>2, <1>4, p = RouteEnqueue(d, at, nextId, q), RouteArrives
<1> QED
  BY <1>3, <1>5 DEF Arriving

LEMMA KernelKeepsQueue ==
  ASSUME NEW w, DOMAIN w = DOMAIN InitialWorld, NEW e, Dispatchable(e),
         e.kind # "component", NEW v, v = Dispatch(w, e).world
  PROVE  DOMAIN v = DOMAIN InitialWorld /\ v.pending = w.pending
<1>1. CASE e.kind = "command"
  BY <1>1 DEF Dispatch, Reduced
<1>2. CASE e.kind = "property-equals"
  BY <1>2, WorldFields DEF Dispatch, PropertyVerdict, Reduced
<1>3. CASE e.kind = "choice" /\ e.payload.form = "drawn"
  <2>1. \E c : v = [w EXCEPT !.streams[e.payload.path] = c]
    BY <1>3 DEF Dispatch, Choose, Reduced
  <2> QED
    BY <2>1, WorldFields
<1>4. CASE e.kind = "choice" /\ e.payload.form = "selected"
  BY <1>4 DEF Dispatch, ApplySelected, Reduced
<1> QED
  BY <1>1, <1>2, <1>3, <1>4 DEF Dispatchable

\* An advance that succeeds: the popped event was the kernel's to handle, or
\* a step was committed.
LEMMA OtherAdvances ==
  ASSUME NEW w, Arriving(w), NEW o, o = Other!Reduce(w, Advanced), o.error = NoError
  PROVE  /\ w.pending # << >>
         /\ \/ /\ Head(w.pending).kind # "component"
               /\ o = Dispatch(Popping(w), Head(w.pending))
            \/ /\ Head(w.pending).kind = "component"
               /\ Commit(Popping(w), Head(w.pending), o.world)
<1>1. w.pending # << >>
  <2>1. Refused(w, "no-pending-event").error # NoError
    BY DEF Refused, NoError
  <2> QED
    BY <2>1, OtherReduces
<1> PICK v : v = Popping(w)
  OBVIOUS
<1> PICK e : e = Head(w.pending)
  OBVIOUS
<1>2. Arriving(v) /\ Arrives(e)
  BY <1>1, PoppingArrives
<1>3. o = Other!Dispatch(v, e)
  BY <1>1, OtherReduces
<1>4. CASE e.kind # "component"
  <2>1. o = Dispatch(v, e)
    BY <1>2, <1>3, <1>4, OtherDispatches DEF Arrives
  <2> QED
    BY <1>1, <1>4, <2>1
<1>5. CASE e.kind = "component"
  <2> PICK result : result = OtherHandler(e.payload.name, v.states[e.payload.name],
                                          e.payload.value, e.at)
    OBVIOUS
  <2>1. Refused(v, "component-unknown").error # NoError
    BY DEF Refused, NoError
  <2> PICK checked : checked = Checked(result)
    OBVIOUS
  <2>2. o = Reacted(v, e, checked)
    BY <1>3, <1>5, <2>1, OtherDelivers DEF OtherResult
  <2>3. DOMAIN v = DOMAIN InitialWorld
    BY <1>2 DEF Arriving
  <2>4. Commit(v, e, o.world)
    BY ONLY checked = Checked(result), o.error = NoError, <2>2, <2>3, CommitMakes
  <2> QED
    BY <1>1, <1>5, <2>4
<1> QED
  BY <1>4, <1>5

LEMMA OwnAdvances ==
  ASSUME NEW w, Arriving(w), w.pending # << >>, NEW r, r = Reduce(w, Advanced),
         r.error = NoError
  PROVE  /\ r = Dispatch(Popping(w), Head(w.pending))
         /\ Head(w.pending).kind = "component" =>
              Commit(Popping(w), Head(w.pending), r.world)
<1> PICK v : v = Popping(w)
  OBVIOUS
<1> PICK e : e = Head(w.pending)
  OBVIOUS
<1>1. Arriving(v)
  BY PoppingArrives
<1>2. r = Advance(w)
  BY DEF Reduce, Advanced
<1>3. r = Dispatch(v, e)
  BY Zenon, <1>2 DEF Advance, Popping
<1>4. ASSUME e.kind = "component"  PROVE Commit(v, e, r.world)
  <2> PICK result : result = Handler(e.payload.name, v.states[e.payload.name],
                                     e.payload.value, e.at)
    OBVIOUS
  <2> PICK checked : checked = Checked(result)
    OBVIOUS
  <2>1. Refused(v, "component-unknown").error # NoError
    BY DEF Refused, NoError
  <2>2. r = Reacted(v, e, checked)
    BY <1>3, <1>4, <2>1, OtherDelivers DEF OwnResult
  <2>3. DOMAIN v = DOMAIN InitialWorld
    BY <1>1 DEF Arriving
  <2> QED
    BY ONLY checked = Checked(result), r.error = NoError, <2>2, <2>3, CommitMakes
<1> QED
  BY <1>3, <1>4

(***************************************************************************)
(* Worlds of one digest are one world, when two engines came to them from  *)
(* the same world with the same input: the digest leaves the queue out,    *)
(* but it tells the facts, and the queue follows from them.                *)
(***************************************************************************)
LEMMA DigestsSuffice ==
  ASSUME NEW w, Arriving(w), IsSeq(w.facts), NEW x, Admitted(x),
         NEW r, r = Reduce(w, x), r.error = NoError,
         NEW o, o = Other!Reduce(w, x), o.error = NoError,
         StateDigest(o.world) = StateDigest(r.world)
  PROVE  o.world = r.world
<1>1. CASE x # Advanced
  <2> PICK at, kind, payload : x = SubmissionRecord(at, kind, payload)
    BY <1>1 DEF Admitted
  <2>1. o = Schedule(w, at, kind, payload)
    BY OtherReduces
  <2>2. r = Schedule(w, at, kind, payload)
    BY DEF Reduce, SubmissionRecord
  <2> QED
    BY <2>1, <2>2
<1>2. CASE x = Advanced
  <2> PICK v : v = Popping(w)
    OBVIOUS
  <2> PICK e : e = Head(w.pending)
    OBVIOUS
  <2>1. /\ w.pending # << >>
        /\ \/ e.kind # "component" /\ o = Dispatch(v, e)
           \/ e.kind = "component" /\ Commit(v, e, o.world)
    BY <1>2, OtherAdvances
  <2>2. r = Dispatch(v, e) /\ (e.kind = "component" => Commit(v, e, r.world))
    BY <1>2, <2>1, OwnAdvances
  <2>3. DOMAIN v = DOMAIN InitialWorld /\ IsSeq(v.facts)
    BY <2>1, PoppingArrives DEF Arriving
  <2>4. CASE e.kind = "component"
    <3> PICK s : \E f \in Seq(Fact) : o.world = CommitWorld(v, e, s, f)
      BY <2>1, <2>4 DEF Commit
    <3> PICK f \in Seq(Fact) : o.world = CommitWorld(v, e, s, f)
      OBVIOUS
    <3> PICK t : \E g \in Seq(Fact) : r.world = CommitWorld(v, e, t, g)
      BY <2>2, <2>4 DEF Commit
    <3> PICK g \in Seq(Fact) : r.world = CommitWorld(v, e, t, g)
      OBVIOUS
    <3> PICK a, b : a = o.world /\ b = r.world
      OBVIOUS
    <3>1. /\ f \in Seq(Fact) /\ g \in Seq(Fact) /\ StateDigest(a) = StateDigest(b)
          /\ a = CommitWorld(v, e, s, f) /\ b = CommitWorld(v, e, t, g)
      OBVIOUS
    <3>2. a = b
      BY ONLY <2>3, <3>1, CommitsAgree
    <3> QED
      BY <3>2
  <2> QED
    BY <2>1, <2>2, <2>4
<1> QED
  BY <1>1, <1>2

LEMMA OtherArrives ==
  ASSUME NEW w, Arriving(w), NEW x, Admitted(x), NEW o, o = Other!Reduce(w, x),
         o.error = NoError
  PROVE  Arriving(o.world)
<1>1. CASE x # Advanced
  <2> PICK at, kind, payload :
        x = SubmissionRecord(at, kind, payload) /\ EventValid(kind, payload)
    BY <1>1 DEF Admitted
  <2>1. o = Schedule(w, at, kind, payload)
    BY OtherReduces
  <2>2. ScheduleError(w, at, kind, payload) = "ok"
    BY <2>1, ScheduleCodes DEF Schedule, Refused
  <2> PICK q : q = w.pending
    OBVIOUS
  <2> PICK e : e = Event(w.nextId, at, kind, payload)
    OBVIOUS
  <2> PICK v : v = o.world
    OBVIOUS
  <2> PICK p : p = InsertEvent(e, q)
    OBVIOUS
  <2> PICK n, t : n = w.nextId + 1 /\ t = Append(w.transcript, x)
    OBVIOUS
  <2>3. v = [w EXCEPT !.nextId = n, !.pending = p, !.transcript = t]
    BY <2>1, <2>2 DEF Schedule, Reduced, SubmissionRecord
  <2>4. DOMAIN v = DOMAIN InitialWorld /\ v.pending = p
    BY <2>3, WorldFields DEF Arriving
  <2>5. Arrives(e)
    BY ValidArrives
  <2>6. IsSeq(q) /\ \A i \in 1 .. Len(q) : Arrives(q[i])
    BY DEF Arriving
  <2>7. IsSeq(p) /\ \A i \in 1 .. Len(p) : Arrives(p[i])
    BY ONLY <2>5, <2>6, p = InsertEvent(e, q), InsertArrives
  <2> QED
    BY <2>4, <2>7 DEF Arriving
<1>2. CASE x = Advanced
  <2> PICK v : v = Popping(w)
    OBVIOUS
  <2> PICK e : e = Head(w.pending)
    OBVIOUS
  <2>1. /\ w.pending # << >>
        /\ \/ e.kind # "component" /\ o = Dispatch(v, e)
           \/ e.kind = "component" /\ Commit(v, e, o.world)
    BY <1>2, OtherAdvances
  <2>2. Arriving(v) /\ Arrives(e)
    BY <2>1, PoppingArrives
  <2>3. CASE e.kind # "component"
    <3> PICK u : u = o.world
      OBVIOUS
    <3>1. DOMAIN u = DOMAIN InitialWorld /\ u.pending = v.pending
      BY <2>1, <2>2, <2>3, KernelKeepsQueue DEF Arriving, Arrives
    <3> QED
      BY <2>2, <3>1 DEF Arriving
  <2>4. CASE e.kind = "component"
    BY <2>1, <2>2, <2>4, CommitArrives DEF Commit
  <2> QED
    BY <2>3, <2>4
<1> QED
  BY <1>1, <1>2

LEMMA OtherHasPlan ==
  ASSUME NEW w, Arriving(w), NEW x, Admitted(x)
  PROVE  IF x = Advanced /\ w.pending = << >>
         THEN /\ Plan(w, x).code = "eventlog-no-pending-event"
              /\ Other!Reduce(w, x).error = "no-pending-event"
         ELSE Plan(w, x).code = "ok"
<1>1. CASE x # Advanced
  <2> PICK at, kind, payload :
        x = SubmissionRecord(at, kind, payload) /\ EventValid(kind, payload)
    BY <1>1 DEF Admitted
  <2>1. x.op = "schedule" /\ x.kind = kind /\ x.payload = payload
    BY DEF SubmissionRecord
  <2>2. PayloadCode(kind, payload) = "ok"
    BY AcceptedPayload
  <2> QED
    BY <1>1, <2>1, <2>2 DEF Plan, PlanSchedule
<1>2. CASE x = Advanced /\ w.pending = << >>
  <2>1. Plan(w, x).code = "eventlog-no-pending-event"
    BY <1>2 DEF Plan, NoPlan, Advanced
  <2>2. Other!Reduce(w, x) = Refused(w, "no-pending-event")
    BY <1>2, OtherReduces
  <2> QED
    BY <1>2, <2>1, <2>2 DEF Refused
<1>3. CASE x = Advanced /\ w.pending # << >>
  <2>1. Arrives(Head(w.pending))
    BY <1>3, PoppingArrives
  <2> QED
    BY <1>3, <2>1 DEF Plan, PlanEvent, Arrives, Advanced
<1> QED
  BY <1>1, <1>2, <1>3

-------------------------------------------------------------------------------
(***************************************************************************)
(* A transcript, handled by another engine.  Its log tells how its replay  *)
(* ends; and until it fails, the two engines agree in everything or they   *)
(* parted at one input, and the records at that input differ.              *)
(***************************************************************************)
EndTold(log, run, n) ==
  /\ log.code \in {"ok", "eventlog-reduction-error", "eventlog-no-pending-event"}
  /\ log.code = "ok" =>
       /\ DOMAIN log = {"code", "detail", "world", "records", "links"}
       /\ run = [world |-> log.world, error |-> NoError]
       /\ Arriving(log.world) /\ IsSeq(log.records) /\ Len(log.records) = n
  /\ log.code = "eventlog-reduction-error" =>
       run.error # NoError /\ log.detail = << run.error >>
  /\ log.code = "eventlog-no-pending-event" => run.error = "no-pending-event"

PartedAt(t, own, log, d) ==
  /\ \A n \in 0 .. d - 1 : SameAfter(t, n)
  /\ ~SameAfter(t, d)
  /\ \A i \in 1 .. d - 1 : log.records[i] = own.records[i]
  /\ log.records[d] # own.records[d]

Compared(t, own, log) ==
  \/ log = own /\ \A n \in 0 .. Len(t) : SameAfter(t, n)
  \/ \E d \in 1 .. Len(t) : PartedAt(t, own, log, d)

OtherLog == Other!OfRun(InitialWorld, world.transcript)
OtherRun == Other!Replay(world.transcript)

DivergenceInv ==
  error = NoError =>
    /\ EndTold(OtherLog, OtherRun, Len(world.transcript))
    /\ OtherLog.code = "ok" => Compared(world.transcript, Log, OtherLog)

LEMMA PrefixOfAppend ==
  ASSUME NEW t, IsSeq(t), NEW x, NEW s, s = Append(t, x)
  PROVE  /\ \A n \in 0 .. Len(t) : SameAfter(s, n) <=> SameAfter(t, n)
         /\ SameAfter(s, Len(t) + 1) <=> Replay(s).world = Other!Replay(s).world
<1> PICK S : t \in Seq(S)
  BY DEF IsSeq
<1> PICK m \in Nat : m = Len(t)
  OBVIOUS
<1>1. s \in Seq(S \cup {x}) /\ t \in Seq(S \cup {x}) /\ Len(s) = m + 1
  OBVIOUS
<1>2. \A i \in 1 .. m : s[i] = t[i]
  OBVIOUS
<1>3. \A n \in 0 .. m : SubSeq(s, 1, n) = SubSeq(t, 1, n)
  BY <1>1, <1>2
<1>4. SubSeq(s, 1, m + 1) = s
  BY <1>1
<1> QED
  BY <1>3, <1>4 DEF SameAfter

LEMMA EndStaysTold ==
  ASSUME NEW log, NEW run, NEW n \in Nat, EndTold(log, run, n), NEW x, Admitted(x),
         NEW more, more = Other!LogStep(log, x), NEW on, on = Other!ReplayStep(run, x)
  PROVE  EndTold(more, on, n + 1)
<1>1. CASE log.code # "ok"
  <2>1. more = log
    BY <1>1, OtherLogs
  <2>2. run.error # NoError
    BY <1>1 DEF EndTold, NoError
  <2>3. on = run
    BY <2>2 DEF Other!ReplayStep, Other!NoError, NoError
  <2> QED
    BY <1>1, <2>1, <2>3 DEF EndTold
<1>2. CASE log.code = "ok"
  <2> PICK w : w = log.world
    OBVIOUS
  <2> PICK o : o = Other!Reduce(w, x)
    OBVIOUS
  <2> PICK plan : plan = Plan(w, x)
    OBVIOUS
  <2>1. /\ DOMAIN log = {"code", "detail", "world", "records", "links"}
        /\ run.world = w /\ run.error = NoError
        /\ Arriving(w) /\ IsSeq(log.records) /\ Len(log.records) = n
    BY <1>2 DEF EndTold
  <2>2. more = LogCommit(log, plan, o)
    BY <1>2, OtherLogs
  <2>3. on = IF o.error = NoError THEN [world |-> o.world, error |-> NoError]
             ELSE [world |-> w, error |-> o.error]
    BY <2>1 DEF Other!ReplayStep, Other!NoError, NoError
  <2>4. CASE plan.code # "ok"
    <3>1. plan.code = "eventlog-no-pending-event" /\ o.error = "no-pending-event"
      BY <2>1, <2>4, OtherHasPlan
    <3>2. more.code = "eventlog-no-pending-event"
      BY <2>1, <2>2, <3>1 DEF LogCommit
    <3>3. on.error = "no-pending-event"
      BY <2>3, <3>1 DEF NoError
    <3> QED
      BY <3>2, <3>3 DEF EndTold
  <2>5. CASE plan.code = "ok" /\ o.error # NoError
    <3>1. more.code = "eventlog-reduction-error" /\ more.detail = << o.error >>
      BY <2>1, <2>2, <2>5 DEF LogCommit
    <3>2. on.error = o.error
      BY <2>3, <2>5
    <3> QED
      BY <2>5, <3>1, <3>2 DEF EndTold
  <2>6. CASE plan.code = "ok" /\ o.error = NoError
    <3> PICK v : v = o.world
      OBVIOUS
    <3> PICK records : records = log.records
      OBVIOUS
    <3> PICK r : r = RecordOf(plan, Len(records), Parents(plan.stage, plan.origin, log.links),
                              w, v)
      OBVIOUS
    <3> PICK links : links = Linked(plan.stage, plan.origin, Len(records), log.links)
      OBVIOUS
    <3>1. more = [log EXCEPT !.world = v, !.records = Append(records, r), !.links = links]
      BY <2>2, <2>6 DEF LogCommit
    <3> PICK rs : rs = Append(records, r)
      OBVIOUS
    <3>2. /\ DOMAIN more = {"code", "detail", "world", "records", "links"}
          /\ more.code = "ok" /\ more.world = v /\ more.records = rs
      BY <1>2, <2>1, <3>1
    <3>3. IsSeq(rs) /\ Len(rs) = n + 1
      BY <2>1, AppendIsSeq
    <3>4. Arriving(v)
      BY <2>1, <2>6, OtherArrives
    <3>5. on = [world |-> v, error |-> NoError]
      BY <2>3, <2>6
    <3> QED
      BY <3>2, <3>3, <3>4, <3>5 DEF EndTold
  <2> QED
    BY <2>4, <2>5, <2>6
<1> QED
  BY <1>1, <1>2

LEMMA DigestIn ==
  ASSUME NEW plan, NEW id, NEW parents, NEW before, NEW v, NEW u,
         RecordOf(plan, id, parents, before, v) = RecordOf(plan, id, parents, before, u)
  PROVE  StateDigest(v) = StateDigest(u)
<1>1. \A w : RecordOf(plan, id, parents, before, w).outputState = StateDigest(w)
  BY DEF RecordOf
<1> QED
  BY <1>1

\* Two engines that agreed so far log the same record or part with this input.
LEMMA AgreedOrParted ==
  ASSUME NEW log, DOMAIN log = {"code", "detail", "world", "records", "links"},
         log.code = "ok", IsSeq(log.records), Arriving(log.world),
         IsSeq(log.world.facts), NEW x, Admitted(x),
         NEW own, own = LogStep(log, x), own.code = "ok",
         NEW more, more = Other!LogStep(log, x), more.code = "ok",
         NEW n, n = Len(log.records)
  PROVE  \/ more = own
         \/ /\ more.world # own.world
            /\ \A i \in 1 .. n : more.records[i] = own.records[i]
            /\ more.records[n + 1] # own.records[n + 1]
<1> PICK w : w = log.world
  OBVIOUS
<1> PICK plan : plan = Plan(w, x)
  OBVIOUS
<1> PICK r : r = Reduce(w, x)
  OBVIOUS
<1> PICK o : o = Other!Reduce(w, x)
  OBVIOUS
<1>1. own = LogCommit(log, plan, r) /\ more = LogCommit(log, plan, o)
  BY OtherLogs DEF LogStep
<1>2. plan.code = "ok" /\ r.error = NoError /\ o.error = NoError
  BY <1>1 DEF LogCommit
<1> PICK v : v = r.world
  OBVIOUS
<1> PICK u : u = o.world
  OBVIOUS
<1> PICK records : records = log.records
  OBVIOUS
<1> PICK parents : parents = Parents(plan.stage, plan.origin, log.links)
  OBVIOUS
<1> PICK links : links = Linked(plan.stage, plan.origin, Len(records), log.links)
  OBVIOUS
<1> PICK a : a = RecordOf(plan, n, parents, w, v)
  OBVIOUS
<1> PICK b : b = RecordOf(plan, n, parents, w, u)
  OBVIOUS
<1>3. own = [log EXCEPT !.world = v, !.records = Append(records, a), !.links = links]
  BY <1>1, <1>2 DEF LogCommit
<1>4. more = [log EXCEPT !.world = u, !.records = Append(records, b), !.links = links]
  BY <1>1, <1>2 DEF LogCommit
<1>5. CASE v = u
  BY <1>3, <1>4, <1>5
<1>6. CASE v # u
  <2>1. StateDigest(u) # StateDigest(v)
    BY ONLY <1>2, <1>6, Admitted(x), Arriving(log.world), IsSeq(log.world.facts),
            w = log.world, r = Reduce(w, x), o = Other!Reduce(w, x), v = r.world,
            u = o.world, DigestsSuffice
  <2>2. a # b
    BY <2>1, DigestIn
  <2>3. own.world = v /\ own.records = Append(records, a)
    BY <1>3
  <2>4. more.world = u /\ more.records = Append(records, b)
    BY <1>4
  <2>5. /\ \A i \in 1 .. n : Append(records, a)[i] = records[i]
        /\ Append(records, a)[n + 1] = a
    BY AppendIsSeq
  <2>6. /\ \A i \in 1 .. n : Append(records, b)[i] = records[i]
        /\ Append(records, b)[n + 1] = b
    BY AppendIsSeq
  <2>7. \A i \in 1 .. n : more.records[i] = own.records[i]
    BY <2>3, <2>4, <2>5, <2>6
  <2>8. more.records[n + 1] # own.records[n + 1]
    BY <2>2, <2>3, <2>4, <2>5, <2>6
  <2> QED
    BY <1>6, <2>3, <2>4, <2>7, <2>8
<1> QED
  BY <1>5, <1>6

LEMMA RecordsStay ==
  ASSUME NEW log, DOMAIN log = {"code", "detail", "world", "records", "links"},
         IsSeq(log.records), NEW plan, NEW reduction,
         NEW more, more = LogCommit(log, plan, reduction), more.code = "ok",
         NEW n, n = Len(log.records)
  PROVE  \A i \in 1 .. n : more.records[i] = log.records[i]
<1>1. plan.code = "ok" /\ reduction.error = NoError
  BY DEF LogCommit
<1> PICK records : records = log.records
  OBVIOUS
<1> PICK r : r = RecordOf(plan, Len(records), Parents(plan.stage, plan.origin, log.links),
                          log.world, reduction.world)
  OBVIOUS
<1>2. more.records = Append(records, r)
  BY <1>1 DEF LogCommit
<1>3. \A i \in 1 .. n : Append(records, r)[i] = records[i]
  BY AppendIsSeq
<1> QED
  BY <1>2, <1>3

\* A log as it is compared: without an error, one record for every entry.
Complete(log, n) ==
  /\ DOMAIN log = {"code", "detail", "world", "records", "links"}
  /\ log.code = "ok" /\ IsSeq(log.records) /\ Len(log.records) = n

LEMMA ComparedGrows ==
  ASSUME NEW t, IsSeq(t), NEW n \in Nat, n = Len(t),
         NEW x, Admitted(x), NEW s, s = Append(t, x),
         NEW own, Complete(own, n), IsSeq(own.world.facts),
         NEW ownMore, ownMore = LogStep(own, x), ownMore.code = "ok",
         Replay(s).world = ownMore.world,
         NEW log, Complete(log, n), Arriving(log.world), Compared(t, own, log),
         NEW more, more = Other!LogStep(log, x), more.code = "ok",
         Other!Replay(s).world = more.world
  PROVE  Compared(s, ownMore, more)
<1>1. Len(s) = n + 1
  BY AppendIsSeq
<1>2. /\ \A k \in 0 .. n : SameAfter(s, k) <=> SameAfter(t, k)
      /\ SameAfter(s, n + 1) <=> ownMore.world = more.world
  BY PrefixOfAppend
<1>3. CASE log = own /\ \A k \in 0 .. n : SameAfter(t, k)
  <2>1. \/ more = ownMore
        \/ /\ more.world # ownMore.world
           /\ \A i \in 1 .. n : more.records[i] = ownMore.records[i]
           /\ more.records[n + 1] # ownMore.records[n + 1]
    BY <1>3, AgreedOrParted DEF Complete
  <2>2. \A k \in 0 .. n : SameAfter(s, k)
    BY <1>2, <1>3
  <2>3. CASE more = ownMore
    <3>1. \A k \in 0 .. n + 1 : SameAfter(s, k)
      <4> TAKE k \in 0 .. n + 1
      <4>1. k \in 0 .. n \/ k = n + 1
        OBVIOUS
      <4> QED
        BY <1>2, <2>2, <2>3, <4>1
    <3> QED
      BY <1>1, <2>3, <3>1 DEF Compared
  <2>4. CASE more # ownMore
    <3>1. /\ ~SameAfter(s, n + 1)
          /\ \A i \in 1 .. n : more.records[i] = ownMore.records[i]
          /\ more.records[n + 1] # ownMore.records[n + 1]
      BY <1>2, <2>1, <2>4
    <3>2. (n + 1) - 1 = n
      OBVIOUS
    <3>3. PartedAt(s, ownMore, more, n + 1)
      BY <2>2, <3>1, <3>2 DEF PartedAt
    <3>4. n + 1 \in 1 .. Len(s)
      BY <1>1
    <3> QED
      BY <3>3, <3>4 DEF Compared
  <2> QED
    BY <2>3, <2>4
<1>4. ASSUME NEW d \in 1 .. n, PartedAt(t, own, log, d)
      PROVE  Compared(s, ownMore, more)
  <2> PICK plan, r : plan = Plan(own.world, x) /\ r = Reduce(own.world, x)
    OBVIOUS
  <2> PICK other, o : other = Plan(log.world, x) /\ o = Other!Reduce(log.world, x)
    OBVIOUS
  <2>1. ownMore = LogCommit(own, plan, r)
    BY DEF LogStep, Complete
  <2>2. \A i \in 1 .. n : ownMore.records[i] = own.records[i]
    BY <2>1, RecordsStay DEF Complete
  <2>3. more = LogCommit(log, other, o)
    BY OtherLogs DEF Complete
  <2>4. \A i \in 1 .. n : more.records[i] = log.records[i]
    BY <2>3, RecordsStay DEF Complete
  <2>5. \A i \in 1 .. d - 1 : i \in 1 .. n
    OBVIOUS
  <2>6. \A k \in 0 .. d - 1 : k \in 0 .. n
    OBVIOUS
  <2>7. d \in 0 .. n /\ d \in 1 .. n /\ d \in 1 .. n + 1
    OBVIOUS
  <2>8. \A i \in 1 .. d - 1 : more.records[i] = ownMore.records[i]
    BY <1>4, <2>2, <2>4, <2>5 DEF PartedAt
  <2>9. more.records[d] # ownMore.records[d]
    BY <1>4, <2>2, <2>4, <2>7 DEF PartedAt
  <2>10. (\A k \in 0 .. d - 1 : SameAfter(s, k)) /\ ~SameAfter(s, d)
    BY <1>2, <1>4, <2>6, <2>7 DEF PartedAt
  <2>11. PartedAt(s, ownMore, more, d)
    BY <2>8, <2>9, <2>10 DEF PartedAt
  <2> QED
    BY <1>1, <2>7, <2>11 DEF Compared
<1> QED
  BY <1>3, <1>4 DEF Compared

LEMMA DivergenceInit == Init => DivergenceInv
<1> SUFFICES ASSUME Init
             PROVE  /\ EndTold(OtherLog, OtherRun, Len(world.transcript))
                    /\ Compared(world.transcript, Log, OtherLog)
  BY DEF DivergenceInv
<1>1. world.transcript = << >>
  BY DEF Init, InitialWorld
<1>2. OtherLog = EmptyLog /\ OtherRun = Boot /\ Log = EmptyLog
  BY <1>1, OtherOfNothing, LogOfNothing DEF OtherLog, OtherRun, Log
<1>3. << >> \in Seq({}) /\ Len(<< >>) = 0
  OBVIOUS
<1>4. IsSeq(<< >>)
  BY <1>3 DEF IsSeq
<1>5. Arriving(InitialWorld)
  BY <1>3, <1>4 DEF Arriving, InitialWorld
<1>6. EndTold(EmptyLog, Boot, 0)
  BY <1>3, <1>4, <1>5 DEF EndTold, EmptyLog, Boot
<1>7. SameAfter(<< >>, 0)
  <2>1. SubSeq(<< >>, 1, 0) = << >>
    OBVIOUS
  <2> QED
    BY <2>1, OtherOfNothing, ReplayOfNothing DEF SameAfter
<1>8. \A n \in 0 .. 0 : n = 0
  OBVIOUS
<1>9. Compared(<< >>, EmptyLog, EmptyLog)
  BY <1>3, <1>7, <1>8 DEF Compared
<1> QED
  BY <1>1, <1>2, <1>3, <1>6, <1>9

LEMMA SucceedsAdmitted ==
  ASSUME NEW w, WorldOK(w), NEW x, Written(x), NEW v, Succeeds(x, w, v)
  PROVE  Admitted(x)
<1>1. CASE x = Advanced
  BY <1>1 DEF Admitted
<1>2. CASE x # Advanced
  <2> PICK at, kind, payload : at = x.at /\ kind = x.kind /\ payload = x.payload
    OBVIOUS
  <2>1. x = SubmissionRecord(at, kind, payload) /\ at \in Int
    BY <1>2 DEF Written
  <2>2. Reduce(w, x) = Schedule(w, at, kind, payload)
    BY <2>1 DEF Reduce, SubmissionRecord
  <2>3. Schedule(w, at, kind, payload).error = NoError
    BY <2>2 DEF Succeeds
  <2>4. EventValid(kind, payload)
    BY <2>1, <2>3, ScheduleAdds
  <2> QED
    BY <2>1, <2>4 DEF Admitted
<1> QED
  BY <1>1, <1>2

LEMMA LogComplete ==
  ASSUME LogInv, error = NoError
  PROVE  /\ Complete(Log, Len(world.transcript))
         /\ IsSeq(Log.world.facts) /\ IsSeq(world.transcript) /\ Log.world = world
BY DEF LogInv, LogOK, LogShape, Complete

LEMMA DivergenceStep ==
  QueueInv /\ LogInv /\ ReplayInv /\ DivergenceInv /\ [Next]_vars => DivergenceInv'
<1> SUFFICES ASSUME QueueInv, LogInv, ReplayInv, DivergenceInv, [Next]_vars, error' = NoError
             PROVE  (/\ EndTold(OtherLog, OtherRun, Len(world.transcript))
                     /\ OtherLog.code = "ok" =>
                          Compared(world.transcript, Log, OtherLog))'
  BY DEF DivergenceInv
<1>1. LogInv' /\ ReplayInv'
  BY LogInvStep, ReplayInvStep
<1>2. error = NoError
  BY LogGrows
<1>3. CASE UNCHANGED world
  BY <1>2, <1>3 DEF DivergenceInv, OtherLog, OtherRun, Log
<1>4. ASSUME NEW x, Written(x), Succeeds(x, world, world'), Log' = LogStep(Log, x)
      PROVE  (/\ EndTold(OtherLog, OtherRun, Len(world.transcript))
              /\ OtherLog.code = "ok" =>
                   Compared(world.transcript, Log, OtherLog))'
  <2> PICK t : t = world.transcript
    OBVIOUS
  <2> PICK s : s = Append(t, x)
    OBVIOUS
  <2> PICK own : own = Log
    OBVIOUS
  <2> PICK ownMore : ownMore = LogStep(own, x)
    OBVIOUS
  <2> PICK log : log = OtherLog
    OBVIOUS
  <2> PICK run : run = OtherRun
    OBVIOUS
  <2> PICK more : more = Other!LogStep(log, x)
    OBVIOUS
  <2> PICK on : on = Other!ReplayStep(run, x)
    OBVIOUS
  <2>1. IsSeq(t) /\ Complete(own, Len(t)) /\ IsSeq(own.world.facts)
    BY <1>2, LogComplete
  <2> PICK n \in Nat : n = Len(t)
    BY <2>1, SeqIsFunction
  <2>2. Admitted(x)
    BY <1>4, SucceedsAdmitted DEF QueueInv
  <2>3. world'.transcript = s
    BY <1>4 DEF Succeeds
  <2>4. OtherLog' = more /\ OtherRun' = on
    BY <2>1, <2>3, OtherOfAppend DEF OtherLog, OtherRun
  <2>5. /\ more = Other!OfRun(InitialWorld, s) /\ on = Other!Replay(s)
        /\ Log' = ownMore
    BY <1>4, <2>1, OtherOfAppend DEF OtherLog, OtherRun
  <2>6. EndTold(log, run, n) /\ (log.code = "ok" => Compared(t, own, log))
    BY <1>2 DEF DivergenceInv
  <2>7. EndTold(more, on, n + 1)
    BY ONLY <2>2, <2>6, more = Other!LogStep(log, x), on = Other!ReplayStep(run, x),
            EndStaysTold
  <2>8. ASSUME more.code = "ok"  PROVE Compared(s, ownMore, more)
    <3>1. log.code = "ok"
      <4>1. CASE log.code # "ok"
        BY <2>8, <4>1, OtherLogs
      <4> QED
        BY <4>1
    <3>2. Complete(log, n) /\ Arriving(log.world) /\ Compared(t, own, log)
      BY <2>6, <3>1 DEF EndTold, Complete
    <3>3. ownMore.code = "ok" /\ ownMore.world = world'
      BY <1>1, <2>5 DEF LogInv, LogOK, LogShape
    <3>4. Replay(s).world = world'
      BY <1>1, <2>3 DEF ReplayInv
    <3>5. Other!Replay(s).world = more.world
      BY <2>5, <2>7, <2>8 DEF EndTold
    <3>6. Replay(s).world = ownMore.world
      BY <3>3, <3>4
    <3>7. Complete(own, n) /\ n = Len(t)
      BY <2>1
    <3>8. ownMore.code = "ok"
      BY <3>3
    <3> QED
      BY ONLY <2>1, <2>2, <2>8, <3>2, <3>5, <3>6, <3>7, <3>8, s = Append(t, x),
              ownMore = LogStep(own, x), more = Other!LogStep(log, x), ComparedGrows
  <2>9. Len(s) = n + 1
    BY <2>1, AppendIsSeq
  <2> QED
    BY <2>3, <2>4, <2>5, <2>7, <2>8, <2>9
<1> QED
  BY <1>3, <1>4, LogGrows

-------------------------------------------------------------------------------
(* The verdict on another engine.                                          *)

LEMMA OtherVerifies ==
  ASSUME NEW t, AllWritten(t), NEW recorded, recorded.entries = EntryDigests(t),
         NEW log, log = Other!OfRun(InitialWorld, t)
  PROVE  Other!Verify(InitialWorld, t, recorded) = CheckRun(log, recorded)
<1>1. Other!WriteCode(t) = WriteCode(t)
  BY Zenon DEF Other!WriteCode, WriteCode, Other!FirstError, FirstError, Other!EntryCode,
     EntryCode, Other!PayloadCode, PayloadCode, Other!Kinds, Kinds, Other!ToSet, ToSet,
     Other!CoordinateShape, CoordinateShape
<1>2. Other!EntryDigests(t) = EntryDigests(t)
  BY Zenon DEF Other!EntryDigests, EntryDigests, Other!Entry, Entry
<1>3. Other!CheckRun(log, recorded) = CheckRun(log, recorded)
  BY Zenon DEF Other!CheckRun, CheckRun, Other!ClassifyRedrive, ClassifyRedrive,
     Other!Then, Then, Other!CompareEvents, CompareEvents, Other!First, First,
     Other!CompareRoots, CompareRoots, Other!StateDigest, StateDigest, Other!Failed,
     Failed, Other!Verified, Verified
<1> PICK d : d = EntryDigests(t)
  OBVIOUS
<1>4. Other!ClassifyTranscript(d, d) = Other!Verified
  <2>1. Len(d) \in Nat
    BY DigestsOf, SeqIsFunction DEF AllWritten
  <2>2. Other!Differences(d, d) = {}
    BY DEF Other!Differences
  <2> QED
    BY <2>1, <2>2 DEF Other!ClassifyTranscript, Other!ClassifyOrder
<1>5. WriteCode(t) = "ok"
  BY WrittenCode
<1>6. Other!Verify(InitialWorld, t, recorded)
        = Other!Then(Other!Verified, Other!CheckRun(log, recorded))
  BY <1>1, <1>2, <1>4, <1>5 DEF Other!Verify
<1> QED
  BY <1>3, <1>6 DEF Other!Then, Other!Verified, Other!Failed

LEMMA OwnEvents ==
  ASSUME NEW log, log.code = "ok", IsSeq(log.records), NEW recorded,
         recorded.events = log.records, recorded.eventRoot = log.records,
         recorded.stateRoot = StateDigest(log.world)
  PROVE  CheckRun(log, recorded) = Verified
<1> PICK e : e = log.records
  OBVIOUS
<1>1. CompareEvents(e, e) = Verified
  BY DEF CompareEvents
<1>2. CheckRun(log, recorded) = CompareRoots(log, recorded)
  BY <1>1, OwnRecords DEF Verified, Failed
<1> QED
  BY <1>2 DEF CompareRoots

LEMMA PartedEvents ==
  ASSUME NEW log, log.code = "ok", NEW n \in Nat, Len(log.records) = n,
         NEW recorded, NEW events, events = recorded.events, Len(events) = n,
         NEW d \in 1 .. n, log.records[d] # events[d],
         \A i \in 1 .. d - 1 : log.records[i] = events[i]
  PROVE  CheckRun(log, recorded) = Failed("replay-event-divergence", << d - 1 >>)
<1> PICK records : records = log.records
  OBVIOUS
<1> DEFINE T == {i \in 1 .. n : records[i] # events[i]}
<1>1. d \in T /\ T \in SUBSET Int /\ \A i \in T : d <= i
  OBVIOUS
<1>2. First(T) = d /\ T # {}
  BY <1>1, FirstIs
<1> HIDE DEF T
<1>3. CompareEvents(records, events) = Failed("replay-event-divergence", << d - 1 >>)
  BY <1>2 DEF CompareEvents, T
<1> QED
  BY <1>3, OwnRecords DEF Failed

\* What DivergenceLocated says of a verdict.
Located(t, verdict) ==
  CASE verdict.code = "verified" -> \A n \in 0 .. Len(t) : SameAfter(t, n)
    [] verdict.code = "replay-event-divergence" ->
         /\ \A n \in 0 .. verdict.detail[1] : SameAfter(t, n)
         /\ ~SameAfter(t, verdict.detail[1] + 1)
    [] verdict.code \in {"eventlog-reduction-error", "replay-selection-divergence"} ->
         Other!Replay(t).error = verdict.detail[1]
    [] verdict.code = "eventlog-no-pending-event" ->
         Other!Replay(t).error = "no-pending-event"
    [] OTHER -> FALSE

LEMMA VerdictLocates ==
  ASSUME NEW t, NEW own, Complete(own, Len(t)), Len(t) \in Nat,
         NEW log, EndTold(log, Other!Replay(t), Len(t)),
         log.code = "ok" => Compared(t, own, log),
         NEW recorded, recorded.events = own.records, recorded.eventRoot = own.records,
         recorded.stateRoot = StateDigest(own.world),
         NEW verdict, verdict = CheckRun(log, recorded)
  PROVE  Located(t, verdict)
<1>1. CASE log.code # "ok"
  <2>1. verdict = ClassifyRedrive(log)
    BY <1>1 DEF CheckRun
  <2>2. CASE log.code = "eventlog-no-pending-event"
    <3>1. verdict.code = "eventlog-no-pending-event"
      BY <2>1, <2>2 DEF ClassifyRedrive, Failed
    <3>2. Other!Replay(t).error = "no-pending-event"
      BY <2>2 DEF EndTold
    <3> QED
      BY <3>1, <3>2 DEF Located
  <2>3. CASE log.code = "eventlog-reduction-error"
    <3>1. /\ verdict.code \in {"eventlog-reduction-error", "replay-selection-divergence"}
          /\ verdict.detail = log.detail
      BY <2>1, <2>3 DEF ClassifyRedrive, Failed
    <3>2. log.detail[1] = Other!Replay(t).error
      BY <2>3 DEF EndTold
    <3> QED
      BY <3>1, <3>2 DEF Located
  <2> QED
    BY <1>1, <2>2, <2>3 DEF EndTold
<1>2. CASE log.code = "ok" /\ log = own /\ \A n \in 0 .. Len(t) : SameAfter(t, n)
  <2>1. verdict = Verified
    BY <1>2, OwnEvents DEF Complete
  <2> QED
    BY <1>2, <2>1 DEF Located, Verified, Failed
<1>3. ASSUME log.code = "ok", NEW d \in 1 .. Len(t), PartedAt(t, own, log, d)
      PROVE  Located(t, verdict)
  <2> PICK n \in Nat : n = Len(t)
    OBVIOUS
  <2> PICK events : events = own.records
    OBVIOUS
  <2>1. Len(log.records) = n /\ Len(events) = n /\ events = recorded.events
    BY <1>3 DEF EndTold, Complete
  <2>2. d \in 1 .. n /\ log.records[d] # events[d]
        /\ \A i \in 1 .. d - 1 : log.records[i] = events[i]
    BY <1>3 DEF PartedAt
  <2>3. CheckRun(log, recorded) = Failed("replay-event-divergence", << d - 1 >>)
    BY ONLY <1>3, <2>1, <2>2, PartedEvents
  <2>4. verdict.code = "replay-event-divergence" /\ verdict.detail[1] = d - 1
    BY <2>3 DEF Failed
  <2>5. (d - 1) + 1 = d
    OBVIOUS
  <2> QED
    BY <1>3, <2>4, <2>5 DEF Located, PartedAt
<1> QED
  BY <1>1, <1>2, <1>3 DEF Compared

(***************************************************************************)
(* For every kernel run and every other engine, whatever its handlers do:  *)
(* when it verifies, it went through the same worlds, and when it diverges *)
(* at a position, the engines agree up to there and no further; and when   *)
(* it comes to an error, the verdict names the error its replay ends with. *)
(***************************************************************************)
THEOREM DivergencesAreLocated == Spec => []DivergenceLocated
<1>1. LogInv /\ ArtifactInv /\ DivergenceInv => DivergenceLocated
  <2> SUFFICES ASSUME LogInv, ArtifactInv, DivergenceInv, error = NoError
               PROVE  Located(world.transcript, ByOther)
    BY DEF DivergenceLocated, Located
  <2> PICK t : t = world.transcript
    OBVIOUS
  <2> PICK own : own = Log
    OBVIOUS
  <2> PICK log : log = OtherLog
    OBVIOUS
  <2> PICK r : r = Recorded(InitialWorld, t)
    OBVIOUS
  <2>1. Complete(own, Len(t)) /\ Len(t) \in Nat
    BY LogComplete, SeqIsFunction
  <2>2. AllWritten(t) /\ log = Other!OfRun(InitialWorld, t)
    BY DEF ArtifactInv, OtherLog
  <2>3. EndTold(log, Other!Replay(t), Len(t)) /\ (log.code = "ok" => Compared(t, own, log))
    BY DEF DivergenceInv, OtherRun
  <2>4. r = RecordedOf(EntryDigests(t), own)
    BY DEF Recorded, Log
  <2>5. /\ r.entries = EntryDigests(t) /\ r.events = own.records
        /\ r.eventRoot = own.records /\ r.stateRoot = StateDigest(own.world)
    BY <2>4 DEF RecordedOf
  <2>6. Other!Verify(InitialWorld, t, r) = CheckRun(log, r)
    BY ONLY <2>2, <2>5, OtherVerifies
  <2> PICK verdict : verdict = CheckRun(log, r)
    OBVIOUS
  <2>7. ByOther = verdict
    BY <2>6 DEF ByOther
  <2>8. Located(t, verdict)
    BY ONLY <2>1, <2>3, <2>5, verdict = CheckRun(log, r), VerdictLocates
  <2> QED
    BY <2>7, <2>8
<1>2. QueueInv /\ LogInv /\ ReplayInv /\ DivergenceInv /\ [Next]_vars => DivergenceInv'
  BY DivergenceStep
<1>3. QueueInv /\ LogInv /\ ArtifactInv /\ [Next]_vars => ArtifactInv'
  BY ArtifactStep
<1> QED
  BY <1>1, <1>2, <1>3, QueueInvInit, QueueInvStep, LogInit, LogInvStep, ReplayInit,
     ReplayInvStep, ArtifactInit, DivergenceInit, PTL DEF Spec
===============================================================================
