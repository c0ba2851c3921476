----------------------------- MODULE DriverProofs -----------------------------
(***************************************************************************)
(* Theorems about the run driver, for every scenario: any roster, handlers *)
(* and routes, any declared budget, any strategy and any judgement of the  *)
(* traces.                                                                 *)
(***************************************************************************)
EXTENDS Driver, ReducerProofs

-------------------------------------------------------------------------------
(* The invariant, in the parts that the actions disturb apart.             *)

\* The kernel's queue is well formed in every attempt, and the transcript
\* has one record for each step that was charged.
WorldInv ==
  /\ WorldOK(world)
  /\ IsSeq(world.transcript)
  /\ steps = Len(world.transcript)
  /\ steps <= MaxSteps
  /\ world.nextId <= MaxEvents

\* An attempt draws at most once per step.
CounterInv ==
  /\ attempt \in Nat /\ counter \in Nat
  /\ CounterBase(attempt) <= counter
  /\ counter <= CounterBase(attempt) + steps

\* A draw lies in the range of its attempt, and in the current attempt
\* behind the counter.
DrawOK(d, a, c) ==
  /\ d[1] \in Nat /\ d[3] \in Nat
  /\ d[1] <= a
  /\ CounterBase(d[1]) <= d[3] /\ d[3] < CounterBase(d[1] + 1)
  /\ d[1] = a => d[3] < c

DrawInv ==
  /\ \A d \in drawn : DrawOK(d, attempt, counter)
  /\ \A d, e \in drawn : d # e => d[3] # e[3]

\* Every attempt before this one is in the summary.
SummaryInv ==
  /\ DOMAIN summary = {"signatures", "errors", "completed"}
  /\ summary.completed \in Nat
  /\ IsSeq(summary.errors)
  /\ summary.completed + Len(summary.errors) = attempt
  /\ \A i \in 1 .. Len(summary.errors) :
       /\ summary.errors[i].attempt \in Nat
       /\ summary.errors[i].attempt < attempt
  /\ \A i, j \in 1 .. Len(summary.errors) :
       i < j => summary.errors[i].attempt < summary.errors[j].attempt

\* The attempts are numbered below MaxRuns until none is left.
PhaseInv ==
  /\ attempt <= MaxRuns
  /\ phase \notin {"exhausted", "all-failed"} => attempt < MaxRuns
  /\ phase = "exhausted" => attempt = MaxRuns /\ summary.completed > 0

DriverInv == WorldInv /\ CounterInv /\ DrawInv /\ SummaryInv /\ PhaseInv

-------------------------------------------------------------------------------
(***************************************************************************)
(* The counter ranges of the attempts lie one behind the other.            *)
(***************************************************************************)
LEMMA Bases ==
  ASSUME NEW n \in Nat
  PROVE  /\ CounterBase(n) \in Nat
         /\ CounterBase(n + 1) = CounterBase(n) + MaxSteps + 1
         /\ \A m \in Nat : m < n => CounterBase(m + 1) <= CounterBase(n)
<1> DEFINE k == MaxSteps + 1
<1>1. k \in Nat /\ MaxSteps \in Nat
  BY BudgetAssumption
<1>2. \A x \in Nat : CounterBase(x) = x * k
  BY DEF CounterBase
<1> HIDE DEF k
<1>3. n * k \in Nat /\ (n + 1) * k = n * k + k
  BY <1>1
<1>4. ASSUME NEW m \in Nat, m < n  PROVE CounterBase(m + 1) <= CounterBase(n)
  <2> DEFINE gap == n - (m + 1)
             low == m + 1
  <2>1. gap \in Nat /\ low \in Nat /\ n = low + gap
    BY <1>4
  <2> HIDE DEF gap, low
  <2>2. (low + gap) * k = low * k + gap * k /\ gap * k \in Nat /\ low * k \in Nat
    BY <1>1, <2>1
  <2>3. CounterBase(low) <= CounterBase(n)
    BY <1>2, <2>1, <2>2
  <2> QED
    BY <2>3 DEF low
<1>5. CounterBase(n + 1) = CounterBase(n) + MaxSteps + 1
  <2>1. n + 1 \in Nat
    OBVIOUS
  <2>2. CounterBase(n + 1) = CounterBase(n) + k
    BY <1>2, <1>3, <2>1
  <2> QED
    BY <1>1, <1>2, <1>3, <2>2 DEF k
<1> QED
  BY <1>2, <1>3, <1>4, <1>5

(***************************************************************************)
(* Every attempt boots a world that keeps the invariant.                   *)
(***************************************************************************)
LEMMA BootWorld ==
  /\ WorldOK(InitialWorld)
  /\ IsSeq(InitialWorld.transcript) /\ Len(InitialWorld.transcript) = 0
  /\ InitialWorld.nextId <= MaxEvents /\ 0 <= MaxSteps
<1>1. /\ InitialWorld.time = 0 /\ InitialWorld.nextId = 0
      /\ InitialWorld.count = 0 /\ InitialWorld.pending = << >>
      /\ InitialWorld.transcript = << >>
  BY DEF InitialWorld
<1>2. << >> \in Seq({}) /\ Len(<< >>) = 0
  OBVIOUS
<1>3. IsSeq(<< >>)
  BY <1>2 DEF IsSeq
<1>4. Queue(InitialWorld.pending) /\ Ordered(InitialWorld.pending)
  BY <1>1, <1>2, <1>3 DEF Queue, Ordered
<1>5. WorldOK(InitialWorld)
  BY <1>1, <1>2, <1>4 DEF WorldOK
<1> QED
  BY <1>1, <1>2, <1>3, <1>5, BudgetAssumption

-------------------------------------------------------------------------------
(* What an action does to the parts of the invariant.                      *)

\* Nothing the invariant reads has moved, and the run goes on or is found.
Stays ==
  /\ UNCHANGED << attempt, world, steps, counter, summary, drawn >>
  /\ phase' = phase \/ phase' \notin {"exhausted", "all-failed"}
  /\ phase \notin {"exhausted", "all-failed"} \/ phase' = phase

\* One input was reduced within the budgets.
Progresses(input) ==
  /\ Reduce(world, input).error = NoError
  /\ world' = Reduce(world, input).world
  /\ steps' = steps + 1 /\ ~(steps + 1 > MaxSteps)
  /\ ~(world'.nextId > MaxEvents)
  /\ UNCHANGED << attempt, summary >>

Aborts == \E code : Abort(code)

\* The counter of the attempt was drawn, or no draw was made.
Draws == \E path : drawn' = drawn \cup {<< attempt, path, counter >>}
NoDrawMade == drawn' = drawn

LEMMA ProgressKeepsWorld ==
  ASSUME WorldInv, NEW input, Progresses(input),
         \/ input.op = "advance" /\ world.pending # << >>
         \/ input.op = "schedule" /\ input.at = world.time
  PROVE  WorldInv'
<1>1. /\ WorldOK(world')
      /\ \E record : world'.transcript = Append(world.transcript, record)
  <2>1. CASE input.op = "advance" /\ world.pending # << >>
    <3>1. Reduce(world, input) = Advance(world)
      BY <2>1 DEF Reduce
    <3> QED
      BY <2>1, <3>1, AdvanceRecords DEF Progresses, WorldInv
  <2>2. CASE input.op = "schedule" /\ input.at = world.time
    <3>1. Reduce(world, input)
            = Schedule(world, input.at, input.kind, input.payload)
      BY <2>2 DEF Reduce
    <3>2. input.at \in Int
      BY <2>2 DEF WorldInv, WorldOK
    <3>3. Schedule(world, input.at, input.kind, input.payload).error = NoError
      BY <3>1 DEF Progresses
    <3> DEFINE v == Schedule(world, input.at, input.kind, input.payload).world
               record == [op |-> "schedule", at |-> input.at,
                          kind |-> input.kind, payload |-> input.payload]
    <3>4. WorldOK(v) /\ v.transcript = Append(world.transcript, record)
      BY <3>2, <3>3, ScheduleRecords DEF WorldInv
    <3>5. world' = v
      BY <3>1 DEF Progresses
    <3> HIDE DEF v, record
    <3> QED
      BY <3>4, <3>5
  <2> QED
    BY <2>1, <2>2
<1>2. PICK record : world'.transcript = Append(world.transcript, record)
  BY <1>1
<1>3. /\ IsSeq(world'.transcript) /\ Len(world.transcript) \in Nat
      /\ Len(world'.transcript) = Len(world.transcript) + 1
  BY <1>2, AppendIsSeq, SeqIsFunction DEF WorldInv
<1>4. steps' <= MaxSteps /\ world'.nextId <= MaxEvents
  BY <1>1, <1>3, BudgetAssumption DEF Progresses, WorldInv, WorldOK
<1> QED
  BY <1>1, <1>3, <1>4 DEF Progresses, WorldInv

(***************************************************************************)
(* A draw is new: those of earlier attempts lie in earlier ranges.         *)
(***************************************************************************)
LEMMA DrawIsNew ==
  ASSUME WorldInv, CounterInv, DrawInv, NEW path
  PROVE  LET new == << attempt, path, counter >>
         IN  /\ DrawOK(new, attempt, counter + 1)
             /\ DrawOK(new, attempt + 1, CounterBase(attempt + 1))
             /\ \A d \in drawn : d[3] # counter
<1> DEFINE new == << attempt, path, counter >>
<1>1. new[1] = attempt /\ new[3] = counter
  OBVIOUS
<1> HIDE DEF new
<1>2. /\ attempt \in Nat /\ counter \in Nat /\ steps \in Nat
      /\ steps <= MaxSteps /\ MaxSteps \in Nat
      /\ CounterBase(attempt) <= counter
      /\ counter <= CounterBase(attempt) + steps
  BY SeqIsFunction, BudgetAssumption DEF WorldInv, CounterInv
<1>3. /\ CounterBase(attempt) \in Nat
      /\ CounterBase(attempt + 1) = CounterBase(attempt) + MaxSteps + 1
      /\ \A m \in Nat : m < attempt => CounterBase(m + 1) <= CounterBase(attempt)
  BY <1>2, Bases
<1>4. counter < CounterBase(attempt + 1)
  BY <1>2, <1>3
<1>5. ASSUME NEW d \in drawn  PROVE d[3] # counter
  <2>1. DrawOK(d, attempt, counter)
    BY DEF DrawInv
  <2>2. CASE d[1] = attempt
    BY <1>2, <2>1, <2>2 DEF DrawOK
  <2>3. CASE d[1] < attempt
    <3>1. CounterBase(d[1] + 1) <= CounterBase(attempt)
      BY <1>3, <2>1, <2>3 DEF DrawOK
    <3>2. d[1] + 1 \in Nat
      BY <2>1 DEF DrawOK
    <3>3. CounterBase(d[1] + 1) \in Nat
      BY <3>2, Bases
    <3> QED
      BY <1>2, <1>3, <2>1, <3>1, <3>3 DEF DrawOK
  <2> QED
    BY <1>2, <2>1, <2>2, <2>3 DEF DrawOK
<1>6. DrawOK(new, attempt, counter + 1)
  BY <1>1, <1>2, <1>4 DEF DrawOK
<1>7. DrawOK(new, attempt + 1, CounterBase(attempt + 1))
  BY <1>1, <1>2, <1>4 DEF DrawOK
<1> QED
  BY <1>5, <1>6, <1>7 DEF new

\* Draws that were made stay where they are in the rest of the attempt and
\* in the attempts after it.
LEMMA OldDraws ==
  ASSUME CounterInv, NEW d, DrawOK(d, attempt, counter)
  PROVE  /\ DrawOK(d, attempt, counter + 1)
         /\ DrawOK(d, attempt + 1, CounterBase(attempt + 1))
BY DEF DrawOK, CounterInv

LEMMA DrawsKept ==
  ASSUME WorldInv, CounterInv, DrawInv,
         \/ NoDrawMade /\ attempt' = attempt /\ counter' = counter
         \/ Draws /\ attempt' = attempt /\ counter' = counter + 1
         \/ /\ NoDrawMade \/ Draws
            /\ attempt' = attempt + 1 /\ counter' = CounterBase(attempt + 1)
  PROVE  DrawInv'
<1>1. CASE NoDrawMade /\ attempt' = attempt /\ counter' = counter
  BY <1>1 DEF NoDrawMade, DrawInv
<1>2. CASE Draws /\ attempt' = attempt /\ counter' = counter + 1
  <2>1. PICK path : drawn' = drawn \cup {<< attempt, path, counter >>}
    BY <1>2 DEF Draws
  <2> DEFINE new == << attempt, path, counter >>
  <2>2. new[3] = counter
    OBVIOUS
  <2>3. DrawOK(new, attempt, counter + 1) /\ \A d \in drawn : d[3] # counter
    BY DrawIsNew
  <2>4. drawn' = drawn \cup {new}
    BY <2>1
  <2> HIDE DEF new
  <2>5. \A d \in drawn' : DrawOK(d, attempt', counter')
    BY <1>2, <2>3, <2>4, OldDraws DEF DrawInv
  <2>6. \A d, e \in drawn' : d # e => d[3] # e[3]
    BY <2>2, <2>3, <2>4 DEF DrawInv
  <2> QED
    BY <2>5, <2>6 DEF DrawInv
<1>3. CASE /\ NoDrawMade \/ Draws
           /\ attempt' = attempt + 1 /\ counter' = CounterBase(attempt + 1)
  <2>1. CASE NoDrawMade
    <3>1. \A d \in drawn' : DrawOK(d, attempt', counter')
      BY <1>3, <2>1, OldDraws DEF DrawInv, NoDrawMade
    <3> QED
      BY <2>1, <3>1 DEF DrawInv, NoDrawMade
  <2>2. CASE Draws
    <3>1. PICK path : drawn' = drawn \cup {<< attempt, path, counter >>}
      BY <2>2 DEF Draws
    <3> DEFINE new == << attempt, path, counter >>
    <3>2. new[3] = counter
      OBVIOUS
    <3>3. /\ DrawOK(new, attempt + 1, CounterBase(attempt + 1))
          /\ \A d \in drawn : d[3] # counter
      BY DrawIsNew
    <3>4. drawn' = drawn \cup {new}
      BY <3>1
    <3> HIDE DEF new
    <3>5. \A d \in drawn' : DrawOK(d, attempt', counter')
      BY <1>3, <3>3, <3>4, OldDraws DEF DrawInv
    <3>6. \A d, e \in drawn' : d # e => d[3] # e[3]
      BY <3>2, <3>3, <3>4 DEF DrawInv
    <3> QED
      BY <3>5, <3>6 DEF DrawInv
  <2> QED
    BY <1>3, <2>1, <2>2
<1> QED
  BY <1>1, <1>2, <1>3
-------------------------------------------------------------------------------
(***************************************************************************)
(* What an input does that Apply takes: it progresses and goes on, or the  *)
(* attempt is aborted.                                                     *)
(***************************************************************************)
LEMMA StaysKeeps ==
  ASSUME DriverInv, Stays
  PROVE  DriverInv'
BY DEF DriverInv, Stays, WorldInv, CounterInv, DrawInv, SummaryInv, PhaseInv

LEMMA ProgressKeeps ==
  ASSUME DriverInv, NEW input, Progresses(input),
         \/ input.op = "advance" /\ world.pending # << >>
         \/ input.op = "schedule" /\ input.at = world.time,
         phase \notin {"exhausted", "all-failed"},
         phase' \notin {"exhausted", "all-failed"},
         \/ NoDrawMade /\ counter' = counter
         \/ Draws /\ counter' = counter + 1
  PROVE  DriverInv'
<1>1. WorldInv'
  BY ProgressKeepsWorld DEF DriverInv
<1>2. attempt' = attempt /\ summary' = summary /\ steps' = steps + 1
  BY DEF Progresses
<1>3. CounterInv'
  <2>1. steps \in Nat
    BY SeqIsFunction DEF DriverInv, WorldInv
  <2>2. CounterBase(attempt) \in Nat
    BY Bases DEF DriverInv, CounterInv
  <2> QED
    BY <1>2, <2>1, <2>2 DEF DriverInv, CounterInv
<1>4. DrawInv'
  BY <1>2, DrawsKept DEF DriverInv
<1>5. SummaryInv' /\ PhaseInv'
  BY <1>2 DEF DriverInv, SummaryInv, PhaseInv
<1> QED
  BY <1>1, <1>3, <1>4, <1>5 DEF DriverInv

\* The summary with one more attempt in it.
Accounts(s) ==
  /\ DOMAIN s = DOMAIN summary
  /\ \/ /\ s.completed = summary.completed + 1
        /\ s.errors = summary.errors
     \/ /\ s.completed = summary.completed
        /\ \E code : s.errors = Append(summary.errors,
                                       [attempt |-> attempt, code |-> code])

LEMMA AccountKeeps ==
  ASSUME SummaryInv, attempt \in Nat, NEW s, Accounts(s), summary' = s,
         attempt' = attempt + 1
  PROVE  SummaryInv'
<1> DEFINE errors == summary.errors
           n == Len(errors)
<1>1. n \in Nat /\ summary.completed \in Nat /\ summary.completed + n = attempt
  BY SeqIsFunction DEF SummaryInv
<1>2. CASE s.completed = summary.completed + 1 /\ s.errors = summary.errors
  <2>1. /\ DOMAIN s = {"signatures", "errors", "completed"}
        /\ s.completed \in Nat /\ s.completed + n = attempt + 1
    BY <1>1, <1>2 DEF SummaryInv, Accounts
  <2>2. \A i \in 1 .. n : /\ errors[i].attempt \in Nat
                          /\ errors[i].attempt < attempt + 1
    BY DEF SummaryInv
  <2> QED
    BY <1>2, <2>1, <2>2 DEF SummaryInv
<1>3. CASE /\ s.completed = summary.completed
           /\ \E code : s.errors = Append(errors, [attempt |-> attempt, code |-> code])
  <2>1. PICK code : s.errors = Append(errors, [attempt |-> attempt, code |-> code])
    BY <1>3
  <2> DEFINE last == [attempt |-> attempt, code |-> code]
  <2>2. last.attempt = attempt
    OBVIOUS
  <2> HIDE DEF last
  <2>3. /\ IsSeq(s.errors) /\ Len(s.errors) = n + 1
        /\ \A i \in 1 .. n : s.errors[i] = errors[i]
        /\ s.errors[n + 1] = last
    BY <2>1, AppendIsSeq DEF SummaryInv, last
  <2> HIDE DEF n
  <2>4. \A i \in 1 .. n + 1 : i \in 1 .. n \/ i = n + 1
    BY <1>1
  <2>5. \A i \in 1 .. n : errors[i].attempt \in Nat /\ errors[i].attempt < attempt
    BY DEF SummaryInv, n
  <2>6. \A i \in 1 .. n + 1 : /\ s.errors[i].attempt \in Nat
                              /\ s.errors[i].attempt < attempt + 1
    BY <2>2, <2>3, <2>4, <2>5
  <2>7. ASSUME NEW i \in 1 .. n + 1, NEW j \in 1 .. n + 1, i < j
        PROVE  s.errors[i].attempt < s.errors[j].attempt
    <3>1. i \in 1 .. n
      BY <1>1, <2>7
    <3>2. CASE j = n + 1
      BY <2>2, <2>3, <2>5, <3>1, <3>2
    <3>3. CASE j \in 1 .. n
      BY <2>3, <2>7, <3>1, <3>3 DEF SummaryInv, n
    <3> QED
      BY <2>4, <3>2, <3>3
  <2>8. s.completed + Len(s.errors) = attempt + 1
    BY <1>1, <1>3, <2>3 DEF n
  <2>9. DOMAIN s = {"signatures", "errors", "completed"} /\ s.completed \in Nat
    BY <1>1, <1>3 DEF SummaryInv, Accounts
  <2>10. /\ \A i \in 1 .. Len(s.errors) : /\ s.errors[i].attempt \in Nat
                                         /\ s.errors[i].attempt < attempt + 1
         /\ \A i, j \in 1 .. Len(s.errors) :
              i < j => s.errors[i].attempt < s.errors[j].attempt
    BY <2>3, <2>6, <2>7
  <2> QED
    BY <2>3, <2>8, <2>9, <2>10 DEF SummaryInv
<1> QED
  BY <1>2, <1>3 DEF Accounts

LEMMA RestartKeeps ==
  ASSUME DriverInv, NEW s, StartAttempt(attempt + 1, s), Accounts(s),
         phase \notin {"exhausted", "all-failed"}, NoDrawMade \/ Draws
  PROVE  DriverInv'
<1>1. /\ attempt' = attempt + 1 /\ summary' = s /\ world' = InitialWorld
      /\ steps' = 0 /\ counter' = CounterBase(attempt + 1)
      /\ phase' = IF attempt + 1 < MaxRuns THEN "boot"
                  ELSE IF s.completed = 0 THEN "all-failed" ELSE "exhausted"
  BY DEF StartAttempt
<1>2. attempt \in Nat /\ attempt < MaxRuns /\ MaxRuns \in Nat
  BY BudgetAssumption DEF DriverInv, CounterInv, PhaseInv
<1>3. WorldInv'
  BY <1>1, BootWorld DEF WorldInv
<1>4. CounterInv'
  <2>1. CounterBase(attempt + 1) \in Nat
    BY <1>2, Bases
  <2> QED
    BY <1>1, <1>2, <2>1 DEF CounterInv
<1>5. DrawInv'
  BY <1>1, DrawsKept DEF DriverInv
<1>6. SummaryInv'
  BY <1>1, <1>2, AccountKeeps DEF DriverInv
<1>7. PhaseInv'
  <2>1. summary'.completed \in Nat
    BY <1>6 DEF SummaryInv
  <2> QED
    BY <1>1, <1>2, <2>1 DEF PhaseInv
<1> QED
  BY <1>3, <1>4, <1>5, <1>6, <1>7 DEF DriverInv

LEMMA AbortKeeps ==
  ASSUME DriverInv, Aborts, phase \notin {"exhausted", "all-failed"},
         NoDrawMade \/ Draws
  PROVE  DriverInv'
<1>1. PICK code : Abort(code)
  BY DEF Aborts
<1> DEFINE s == [summary EXCEPT !.errors =
                   Append(@, [attempt |-> attempt, code |-> code])]
<1>2. StartAttempt(attempt + 1, s)
  BY <1>1 DEF Abort, NextAttempt
<1>3. Accounts(s)
  BY DEF Accounts, DriverInv, SummaryInv
<1> HIDE DEF s
<1> QED
  BY <1>2, <1>3, RestartKeeps

-------------------------------------------------------------------------------
(***************************************************************************)
(* The invariant holds at the start and is kept by every action.           *)
(***************************************************************************)
LEMMA DriverInit == Init => DriverInv
<1> SUFFICES ASSUME Init  PROVE DriverInv
  OBVIOUS
<1>1. /\ attempt = 0 /\ world = InitialWorld /\ steps = 0 /\ drawn = {}
      /\ counter = CounterBase(0)
      /\ summary = [signatures |-> << >>, errors |-> << >>, completed |-> 0]
      /\ phase = IF MaxRuns = 0 THEN "all-failed" ELSE "boot"
  BY DEF Init
<1>2. WorldInv
  BY <1>1, BootWorld DEF WorldInv
<1>3. CounterInv
  <2>1. CounterBase(0) \in Nat
    BY Bases
  <2> QED
    BY <1>1, <2>1 DEF CounterInv
<1>4. DrawInv
  BY <1>1 DEF DrawInv
<1>5. SummaryInv
  <2>1. << >> \in Seq({}) /\ Len(<< >>) = 0
    OBVIOUS
  <2>2. IsSeq(<< >>)
    BY <2>1 DEF IsSeq
  <2> QED
    BY <1>1, <2>1, <2>2 DEF SummaryInv
<1>6. PhaseInv
  BY <1>1, BudgetAssumption DEF PhaseInv
<1> QED
  BY <1>2, <1>3, <1>4, <1>5, <1>6 DEF DriverInv

LEMMA DriverStep == DriverInv /\ [Next]_vars => DriverInv'
<1> SUFFICES ASSUME DriverInv, [Next]_vars  PROVE DriverInv'
  OBVIOUS
<1>1. CASE BootProcess
  <2> DEFINE input == ScheduleNow("component",
                                  ComponentInput(Head(queue), BootInput))
  <2>1. input.op = "schedule" /\ input.at = world.time
    BY DEF ScheduleNow
  <2>2. phase = "boot" /\ NoDrawMade
    BY <1>1 DEF BootProcess, NoDrawMade
  <2>3. \/ Progresses(input) /\ phase' = phase /\ counter' = counter
        \/ Aborts
    BY <1>1 DEF BootProcess, Apply, Charge, Progresses, Aborts
  <2> HIDE DEF input
  <2> QED
    BY <2>1, <2>2, <2>3, ProgressKeeps, AbortKeeps
<1>2. CASE AdvanceWorld
  <2> DEFINE input == [op |-> "advance"]
  <2>1. input.op = "advance" /\ world.pending # << >>
    BY <1>2 DEF AdvanceWorld
  <2>2. phase = "loop" /\ NoDrawMade
    BY <1>2 DEF AdvanceWorld, NoDrawMade
  <2>3. \/ Progresses(input) /\ phase' = phase /\ counter' = counter
        \/ Aborts
    BY <1>2 DEF AdvanceWorld, Apply, Charge, Progresses, Aborts
  <2> HIDE DEF input
  <2> QED
    BY <2>1, <2>2, <2>3, ProgressKeeps, AbortKeeps
<1>3. CASE SelectAlternative
  <2> DEFINE menu == Head(queue)
             In(x) == ScheduleNow("choice", SelectedChoice(menu, x))
  <2>1. \A x : In(x).op = "schedule" /\ In(x).at = world.time
    BY DEF ScheduleNow
  <2>2. phase = "resolve" /\ Draws
    BY <1>3 DEF SelectAlternative, Draws
  <2>3. \E x : \/ Progresses(In(x)) /\ phase' = "deliver" /\ counter' = counter + 1
               \/ Aborts
    BY <1>3 DEF SelectAlternative, Apply, Charge, Progresses, Aborts
  <2> HIDE DEF In
  <2> QED
    BY <2>1, <2>2, <2>3, ProgressKeeps, AbortKeeps
<1>4. CASE DeliverSelection
  <2> DEFINE input == ScheduleNow("component", Head(queue))
  <2>1. input.op = "schedule" /\ input.at = world.time
    BY DEF ScheduleNow
  <2>2. phase = "deliver" /\ NoDrawMade
    BY <1>4 DEF DeliverSelection, NoDrawMade
  <2>3. \/ Progresses(input) /\ phase' = "resolve" /\ counter' = counter
        \/ Aborts
    BY <1>4 DEF DeliverSelection, Apply, Charge, Progresses, Aborts
  <2> HIDE DEF input
  <2> QED
    BY <2>1, <2>2, <2>3, ProgressKeeps, AbortKeeps
<1>5. CASE EvaluateAttempt
  <2> DEFINE result == Evaluate(world.facts)
  <2>1. phase = "loop" /\ NoDrawMade
    BY <1>5 DEF EvaluateAttempt, Quiescent, NoDrawMade
  <2>2. CASE Abort(result.code)
    BY <2>1, <2>2, AbortKeeps DEF Aborts
  <2>3. CASE StartAttempt(NextAttempt("explored"), Explored(result.signature))
    <3> DEFINE s == Explored(result.signature)
    <3>1. StartAttempt(attempt + 1, s)
      BY <2>3 DEF NextAttempt
    <3>2. Accounts(s)
      BY DEF Accounts, Explored, DriverInv, SummaryInv
    <3> HIDE DEF s
    <3> QED
      BY <2>1, <3>1, <3>2, RestartKeeps
  <2>4. CASE /\ phase' = "discovered"
             /\ UNCHANGED << attempt, world, steps, counter, menus, queue,
                             summary, offered >>
    BY <2>1, <2>4, StaysKeeps DEF Stays, NoDrawMade
  <2> QED
    BY <1>5, <2>2, <2>3, <2>4 DEF EvaluateAttempt
<1>6. CASE Booted \/ ResolveAll \/ Resolved
  BY <1>6, StaysKeeps DEF Booted, ResolveAll, Resolved, Stays
<1>7. CASE Returned \/ UNCHANGED vars
  BY <1>7, StaysKeeps DEF Returned, Stays, vars
<1> QED
  BY <1>1, <1>2, <1>3, <1>4, <1>5, <1>6, <1>7 DEF Next

(***************************************************************************)
(* The invariant of the driver: the kernel's queue, the budgets, the       *)
(* counter of the strategy, its draws and the summary, in every attempt.   *)
(***************************************************************************)
THEOREM DriverInvariant == Spec => []DriverInv
  BY DriverInit, DriverStep, PTL DEF Spec

(***************************************************************************)
(* No attempt takes more steps or holds more events than the scenario      *)
(* declares, and its transcript is exactly what it was charged for (ADR    *)
(* 0007 D5, run.shen:111-121), whatever the processes do.                  *)
(***************************************************************************)
THEOREM BudgetsAreExact == Spec => []BudgetsExact
<1>1. DriverInv => BudgetsExact
  BY DEF DriverInv, WorldInv, BudgetsExact
<1> QED
  BY <1>1, DriverInvariant, PTL

(***************************************************************************)
(* No counter is drawn twice in a run ("distinct attempts' counter ranges  *)
(* cannot overlap", run.shen:139-148), for every budget of steps.          *)
(***************************************************************************)
THEOREM NothingDrawnTwice == Spec => []DrawnOnce
<1>1. DriverInv => DrawnOnce
  <2> SUFFICES ASSUME DriverInv  PROVE DrawnOnce
    OBVIOUS
  <2>1. ASSUME NEW d \in drawn
        PROVE  d[3] \in CounterBase(d[1]) .. CounterBase(d[1] + 1) - 1
    <3>1. DrawOK(d, attempt, counter)
      BY DEF DriverInv, DrawInv
    <3>2. d[1] \in Nat /\ d[1] + 1 \in Nat
      BY <3>1 DEF DrawOK
    <3>3. CounterBase(d[1]) \in Nat /\ CounterBase(d[1] + 1) \in Nat
      BY <3>2, Bases
    <3> QED
      BY <3>1, <3>3 DEF DrawOK
  <2> QED
    BY <2>1 DEF DrawnOnce, DriverInv, DrawInv
<1> QED
  BY <1>1, DriverInvariant, PTL

(***************************************************************************)
(* Every attempt is in the summary once, as completed or with its error,   *)
(* and exhaustion is claimed only after the last attempt and with a trace  *)
(* that was judged (run.shen:123-130).                                     *)
(***************************************************************************)
THEOREM EveryAttemptAccounted == Spec => []AttemptsAccounted
<1>1. DriverInv => AttemptsAccounted
  <2> SUFFICES ASSUME DriverInv  PROVE AttemptsAccounted
    OBVIOUS
  <2>1. DOMAIN summary.errors = 1 .. Len(summary.errors)
    BY SeqIsFunction DEF DriverInv, SummaryInv
  <2> QED
    BY <2>1 DEF AttemptsAccounted, DriverInv, SummaryInv, PhaseInv
<1> QED
  BY <1>1, DriverInvariant, PTL

-------------------------------------------------------------------------------
(***************************************************************************)
(* The world in hand is what its transcript replays to, in every attempt   *)
(* and after every input; the driver drew nothing from the world's own     *)
(* streams, so the replay needs neither the driver nor its strategy.       *)
(***************************************************************************)
RunInv ==
  /\ Replay(world.transcript) = [world |-> world, error |-> NoError]
  /\ Undrawn(world)
  /\ phase = "discovered" => Evaluate(world.facts).signature # EmptySignature

LEMMA BootReplays ==
  /\ Replay(InitialWorld.transcript) = [world |-> InitialWorld, error |-> NoError]
  /\ Undrawn(InitialWorld)
<1>1. InitialWorld.transcript = << >> /\ ToSet(InitialWorld.pending) = {}
  BY DEF InitialWorld, ToSet
<1> QED
  BY <1>1, ReplayOfNothing DEF Boot, Undrawn

\* The inputs the driver submits: an advance, or a submission of a choice
\* that is already selected or of something that is no choice.
Submits(input) ==
  \/ input.op = "advance" /\ world.pending # << >>
  \/ /\ input.op = "schedule" /\ input.at = world.time
     /\ input.kind = "choice" => input.payload.form = "selected"

LEMMA ProgressReplays ==
  ASSUME WorldInv, RunInv, NEW input, Progresses(input), Submits(input),
         phase' # "discovered"
  PROVE  RunInv'
<1> DEFINE v == Reduce(world, input).world
           Taken(record) == /\ v.transcript = Append(world.transcript, record)
                            /\ Reduce(world, record) = Reduce(world, input)
<1>1. world' = v /\ Reduce(world, input).error = NoError
  BY DEF Progresses
<1>2. /\ Undrawn(v)
      /\ \E record : Taken(record)
  <2>1. CASE input.op = "advance" /\ world.pending # << >>
    <3> DEFINE record == [op |-> "advance"]
    <3>1. /\ Reduce(world, input) = Advance(world)
          /\ Reduce(world, record) = Advance(world)
      BY <2>1 DEF Reduce
    <3>2. Advance(world).world.transcript = Append(world.transcript, record)
      BY <2>1, AdvanceRecords DEF WorldInv
    <3>3. Undrawn(Advance(world).world)
      BY <2>1, AdvanceUndrawn DEF WorldInv, RunInv
    <3> QED
      BY <3>1, <3>2, <3>3
  <2>2. CASE /\ input.op = "schedule" /\ input.at = world.time
             /\ input.kind = "choice" => input.payload.form = "selected"
    <3> DEFINE record == [op |-> "schedule", at |-> input.at,
                          kind |-> input.kind, payload |-> input.payload]
               r == Schedule(world, input.at, input.kind, input.payload)
    <3>1. Reduce(world, input) = r /\ Reduce(world, record) = r
      BY <2>2 DEF Reduce
    <3>2. input.at \in Int /\ r.error = NoError
      BY <1>1, <2>2, <3>1 DEF WorldInv, WorldOK
    <3>3. r.world.transcript = Append(world.transcript, record)
      BY <3>2, ScheduleRecords DEF WorldInv
    <3>4. Undrawn(r.world)
      BY <2>2, <3>2, ScheduleUndrawn DEF WorldInv, RunInv
    <3> HIDE DEF r, record
    <3>5. Taken(record)
      BY <3>1, <3>3
    <3> QED
      BY <3>1, <3>4, <3>5
  <2> QED
    BY <2>1, <2>2 DEF Submits
<1>3. PICK record : Taken(record)
  BY <1>2
<1>4. Replay(v.transcript) = ReplayStep(Replay(world.transcript), record)
  BY <1>3, ReplayOfAppend DEF WorldInv
<1>5. Replay(v.transcript) = [world |-> v, error |-> NoError]
  BY <1>1, <1>3, <1>4 DEF RunInv, ReplayStep
<1> HIDE DEF v
<1> QED
  BY <1>1, <1>2, <1>5 DEF RunInv

LEMMA RestartReplays ==
  ASSUME NEW n, NEW s, StartAttempt(n, s)
  PROVE  RunInv'
<1>1. world' = InitialWorld /\ phase' # "discovered"
  BY DEF StartAttempt
<1> QED
  BY <1>1, BootReplays DEF RunInv

LEMMA AbortReplays ==
  ASSUME Aborts  PROVE RunInv'
BY RestartReplays DEF Aborts, Abort

LEMMA RunInvStep == DriverInv /\ RunInv /\ [Next]_vars => RunInv'
<1> SUFFICES ASSUME DriverInv, RunInv, [Next]_vars  PROVE RunInv'
  OBVIOUS
<1>1. CASE BootProcess
  <2> DEFINE input == ScheduleNow("component",
                                  ComponentInput(Head(queue), BootInput))
  <2>1. Submits(input)
    BY DEF ScheduleNow, Submits
  <2>2. \/ Progresses(input) /\ phase' # "discovered"
        \/ Aborts
    BY <1>1 DEF BootProcess, Apply, Charge, Progresses, Aborts
  <2> HIDE DEF input
  <2> QED
    BY <2>1, <2>2, ProgressReplays, AbortReplays DEF DriverInv
<1>2. CASE AdvanceWorld
  <2> DEFINE input == [op |-> "advance"]
  <2>1. Submits(input)
    BY <1>2 DEF AdvanceWorld, Submits
  <2>2. \/ Progresses(input) /\ phase' # "discovered"
        \/ Aborts
    BY <1>2 DEF AdvanceWorld, Apply, Charge, Progresses, Aborts
  <2> HIDE DEF input
  <2> QED
    BY <2>1, <2>2, ProgressReplays, AbortReplays DEF DriverInv
<1>3. CASE SelectAlternative
  <2> DEFINE menu == Head(queue)
             In(x) == ScheduleNow("choice", SelectedChoice(menu, x))
  <2>1. \A x : Submits(In(x))
    BY DEF ScheduleNow, SelectedChoice, Submits
  <2>2. \E x : \/ Progresses(In(x)) /\ phase' # "discovered"
               \/ Aborts
    BY <1>3 DEF SelectAlternative, Apply, Charge, Progresses, Aborts
  <2> HIDE DEF In
  <2> QED
    BY <2>1, <2>2, ProgressReplays, AbortReplays DEF DriverInv
<1>4. CASE DeliverSelection
  <2> DEFINE input == ScheduleNow("component", Head(queue))
  <2>1. Submits(input)
    BY DEF ScheduleNow, Submits
  <2>2. \/ Progresses(input) /\ phase' # "discovered"
        \/ Aborts
    BY <1>4 DEF DeliverSelection, Apply, Charge, Progresses, Aborts
  <2> HIDE DEF input
  <2> QED
    BY <2>1, <2>2, ProgressReplays, AbortReplays DEF DriverInv
<1>5. CASE EvaluateAttempt
  <2> DEFINE result == Evaluate(world.facts)
  <2>1. CASE Abort(result.code)
    BY <2>1, AbortReplays DEF Aborts
  <2>2. CASE StartAttempt(NextAttempt("explored"), Explored(result.signature))
    BY <2>2, RestartReplays
  <2>3. CASE /\ result.signature # EmptySignature
             /\ UNCHANGED << attempt, world, steps, counter, menus, queue,
                             summary, offered >>
    BY <2>3 DEF RunInv
  <2> QED
    BY <1>5, <2>1, <2>2, <2>3 DEF EvaluateAttempt
<1>6. CASE Booted \/ ResolveAll \/ Resolved
  BY <1>6 DEF Booted, ResolveAll, Resolved, RunInv
<1>7. CASE Returned \/ UNCHANGED vars
  BY <1>7 DEF Returned, vars, RunInv
<1> QED
  BY <1>1, <1>2, <1>3, <1>4, <1>5, <1>6, <1>7 DEF Next

(***************************************************************************)
(* "The transcript, not the PRNG, is the authority" (run.shen:101-103):    *)
(* for every scenario, budget, strategy and judgement, the transcript of a *)
(* discovery alone leads back to the same world and the same failure.      *)
(***************************************************************************)
THEOREM DiscoveriesReplay == Spec => []DiscoveryReplays
<1>1. Init => RunInv
  <2>1. Init => world = InitialWorld /\ phase # "discovered"
    BY DEF Init
  <2> QED
    BY <2>1, BootReplays DEF RunInv
<1>2. RunInv => DiscoveryReplays
  BY DEF RunInv, Undrawn, DiscoveryReplays
<1> QED
  BY <1>1, <1>2, RunInvStep, DriverInit, DriverStep, PTL DEF Spec

-------------------------------------------------------------------------------
(* Sequences that are filtered by a fold.                                  *)

Menus  == INSTANCE LeftFold WITH Op <- AddMenu
Chosen == INSTANCE LeftFold WITH Op <- AddSelection

LEMMA MenusAreFold ==
  ASSUME NEW t  PROVE ComponentMenus(t) = Menus!Folded(<< >>, t)
BY DEF ComponentMenus, Menus!Folded, Menus!FoldLeft, FoldLeft, MapThenFoldSet,
       Menus!MapThenFoldSet, Max, Menus!Max

LEMMA SelectionsAreFold ==
  ASSUME NEW t  PROVE SelectionsOf(t) = Chosen!Folded(<< >>, t)
BY DEF SelectionsOf, Chosen!Folded, Chosen!FoldLeft, FoldLeft, MapThenFoldSet,
       Chosen!MapThenFoldSet, Max, Chosen!Max

LEMMA EmptyIsSeq == IsSeq(<< >>) /\ Len(<< >>) = 0
<1>1. << >> \in Seq({}) /\ Len(<< >>) = 0
  OBVIOUS
<1> QED
  BY <1>1 DEF IsSeq

\* The published menus are a sequence of choices of the reduction.
Among(published, choices) ==
  /\ IsSeq(published)
  /\ \A i \in 1 .. Len(published) :
       \E j \in 1 .. Len(choices) : published[i] = choices[j]

LEMMA MenusAmong ==
  ASSUME NEW choices, IsSeq(choices)
  PROVE  Among(ComponentMenus(choices), choices)
<1> DEFINE T == {n \in Nat : \A s : IsSeq(s) /\ Len(s) = n =>
                                      Among(ComponentMenus(s), s)}
<1>1. 0 \in T
  <2> SUFFICES ASSUME NEW s, IsSeq(s), Len(s) = 0
               PROVE  Among(ComponentMenus(s), s)
    OBVIOUS
  <2>1. s = << >>
    BY SeqIsFunction
  <2>2. ComponentMenus(<< >>) = << >>
    BY Menus!FoldedEmpty, MenusAreFold
  <2> QED
    BY <2>1, <2>2, EmptyIsSeq DEF Among
<1>2. ASSUME NEW n \in Nat, n \in T  PROVE n + 1 \in T
  <2> SUFFICES ASSUME NEW t, IsSeq(t), Len(t) = n + 1
               PROVE  Among(ComponentMenus(t), t)
    OBVIOUS
  <2> DEFINE s == [i \in 1 .. n |-> t[i]]
             m == ComponentMenus(s)
             x == t[n + 1]
  <2>1. DOMAIN t = 1 .. n + 1
    BY SeqIsFunction
  <2>2. DOMAIN s = 1 .. n /\ \A i \in 1 .. n : t[i] = s[i]
    OBVIOUS
  <2>3. IsSeq(s) /\ Len(s) = n
    BY FunctionIsSeq
  <2>4. Among(m, s)
    BY <1>2, <2>3
  <2> HIDE DEF s
  <2>5. ComponentMenus(t) = AddMenu(m, x)
    BY <2>1, <2>2, Menus!FoldedMore, MenusAreFold
  <2> HIDE DEF m, x
  <2>6. \A i \in 1 .. Len(m) : \E j \in 1 .. n + 1 : m[i] = t[j]
    BY <2>2, <2>3, <2>4 DEF Among
  <2>7. CASE ComponentMenus(t) = m
    BY <2>4, <2>6, <2>7 DEF Among
  <2>8. CASE ComponentMenus(t) = Append(m, x)
    <3> DEFINE a == Append(m, x)
    <3>1. IsSeq(m) /\ Len(m) \in Nat
      BY <2>4, SeqIsFunction DEF Among
    <3>2. /\ IsSeq(a) /\ Len(a) = Len(m) + 1
          /\ \A i \in 1 .. Len(m) : a[i] = m[i]
          /\ a[Len(m) + 1] = x
      BY <3>1, AppendIsSeq
    <3> HIDE DEF a
    <3>3. x = t[n + 1] /\ n + 1 \in 1 .. n + 1
      BY DEF x
    <3>4. ASSUME NEW i \in 1 .. Len(a)
          PROVE  \E j \in 1 .. n + 1 : a[i] = t[j]
      <4>1. i \in 1 .. Len(m) \/ i = Len(m) + 1
        BY <3>1, <3>2
      <4> QED
        BY <2>6, <3>2, <3>3, <4>1
    <3>5. ComponentMenus(t) = a
      BY <2>8 DEF a
    <3> QED
      BY <3>2, <3>4, <3>5 DEF Among
  <2> QED
    BY <2>5, <2>7, <2>8 DEF AddMenu
<1> HIDE DEF T
<1>3. Len(choices) \in T
  BY <1>1, <1>2, SeqIsFunction, Menus!Inductive
<1> QED
  BY <1>3 DEF T

\* An input more is a selection more, or none.
LEMMA SelectionsOfNothing == SelectionsOf(<< >>) = << >>
BY Chosen!FoldedEmpty, SelectionsAreFold

LEMMA SelectionsOfAppend ==
  ASSUME NEW s, IsSeq(s), NEW x
  PROVE  SelectionsOf(Append(s, x)) = AddSelection(SelectionsOf(s), x)
<1> DEFINE t == Append(s, x)
<1> PICK n : n = Len(s)
  OBVIOUS
<1>1. n \in Nat /\ DOMAIN s = 1 .. n
  BY SeqIsFunction
<1>2. /\ DOMAIN t = 1 .. n + 1 /\ t[n + 1] = x
      /\ \A i \in 1 .. n : t[i] = s[i]
  BY AppendIsSeq, SeqIsFunction
<1> HIDE DEF t
<1>3. SelectionsOf(t) = AddSelection(SelectionsOf(s), t[n + 1])
  BY <1>1, <1>2, Chosen!FoldedMore, SelectionsAreFold
<1> QED
  BY <1>2, <1>3 DEF t

-------------------------------------------------------------------------------
(* What stays open, in its order.                                          *)

\* Open menus are what follows the first k in the list of all of them.
Lines(O, k, W) ==
  /\ Len(O) = k + Len(W)
  /\ \A i \in 1 .. Len(W) : O[k + i] = W[i]

LEMMA LinesGrow ==
  ASSUME NEW O, IsSeq(O), NEW W, IsSeq(W), NEW P, IsSeq(P), NEW k \in Nat,
         Lines(O, k, W)
  PROVE  Lines(O \o P, k, W \o P)
<1> DEFINE A == O \o P
           B == W \o P
<1>1. /\ Len(A) = Len(O) + Len(P)
      /\ \A i \in 1 .. Len(O) : A[i] = O[i]
      /\ \A i \in 1 .. Len(P) : A[Len(O) + i] = P[i]
  BY ConcatIsSeq
<1>2. /\ Len(B) = Len(W) + Len(P)
      /\ \A i \in 1 .. Len(W) : B[i] = W[i]
      /\ \A i \in 1 .. Len(P) : B[Len(W) + i] = P[i]
  BY ConcatIsSeq
<1>3. Len(O) \in Nat /\ Len(W) \in Nat /\ Len(P) \in Nat
  BY SeqIsFunction
<1> HIDE DEF A, B
<1>4. ASSUME NEW i \in 1 .. Len(B)  PROVE A[k + i] = B[i]
  <2>1. CASE i <= Len(W)
    <3>1. i \in 1 .. Len(W) /\ k + i \in 1 .. Len(O)
      BY <1>3, <2>1 DEF Lines
    <3> QED
      BY <1>1, <1>2, <3>1 DEF Lines
  <2>2. CASE i > Len(W)
    <3> DEFINE j == i - Len(W)
    <3>1. j \in 1 .. Len(P) /\ i = Len(W) + j /\ k + i = Len(O) + j
      BY <1>2, <1>3, <2>2 DEF Lines
    <3> HIDE DEF j
    <3> QED
      BY <1>1, <1>2, <3>1
  <2> QED
    BY <1>2, <1>3, <2>1, <2>2
<1>5. Len(A) = k + Len(B)
  BY <1>1, <1>2, <1>3 DEF Lines
<1> QED
  BY <1>4, <1>5 DEF Lines, A, B

LEMMA LinesPop ==
  ASSUME NEW O, NEW W, IsSeq(W), W # << >>, NEW k \in Nat, Lines(O, k, W)
  PROVE  /\ Lines(O, k + 1, Tail(W)) /\ O[k + 1] = Head(W)
         /\ k + 1 \in 1 .. Len(O)
<1>1. /\ Len(W) \in Nat /\ Len(W) > 0 /\ Head(W) = W[1]
      /\ Len(Tail(W)) = Len(W) - 1
      /\ \A i \in 1 .. Len(W) - 1 : Tail(W)[i] = W[i + 1]
  BY TailIsSeq, SeqIsFunction
<1> DEFINE V == Tail(W)
<1>2. /\ Len(V) = Len(W) - 1
      /\ \A i \in 1 .. Len(W) - 1 : V[i] = W[i + 1]
  BY <1>1
<1> HIDE DEF V
<1>3. ASSUME NEW i \in 1 .. Len(V)  PROVE O[(k + 1) + i] = V[i]
  <2>1. i + 1 \in 1 .. Len(W) /\ (k + 1) + i = k + (i + 1) /\ V[i] = W[i + 1]
    BY <1>1, <1>2
  <2> QED
    BY <2>1 DEF Lines
<1>4. Len(O) = (k + 1) + Len(V)
  BY <1>1, <1>2 DEF Lines
<1>5. O[k + 1] = W[1] /\ k + 1 \in 1 .. Len(O)
  BY <1>1 DEF Lines
<1> QED
  BY <1>1, <1>3, <1>4, <1>5 DEF Lines, V

\* Concatenation, as far as the open menus need it.
LEMMA ConcatAssoc ==
  ASSUME NEW a, IsSeq(a), NEW b, IsSeq(b), NEW c, IsSeq(c)
  PROVE  (a \o b) \o c = a \o (b \o c)
<1>1. PICK A : a \in Seq(A)
  BY DEF IsSeq
<1>2. PICK B : b \in Seq(B)
  BY DEF IsSeq
<1>3. PICK C : c \in Seq(C)
  BY DEF IsSeq
<1> DEFINE U == A \cup B \cup C
<1>4. a \in Seq(U) /\ b \in Seq(U) /\ c \in Seq(U)
  BY <1>1, <1>2, <1>3
<1> HIDE DEF U
<1> QED
  BY <1>4

LEMMA ConcatLaws ==
  ASSUME NEW a, IsSeq(a), NEW b, IsSeq(b)
  PROVE  /\ a \o << >> = a /\ << >> \o a = a
         /\ a # << >> => a \o b # << >> /\ Tail(a \o b) = Tail(a) \o b
                         /\ Head(a \o b) = Head(a)
<1>1. PICK A : a \in Seq(A)
  BY DEF IsSeq
<1>2. PICK B : b \in Seq(B)
  BY DEF IsSeq
<1> DEFINE U == A \cup B
<1>3. a \in Seq(U) /\ b \in Seq(U)
  BY <1>1, <1>2
<1> HIDE DEF U
<1>4. Len(a) \in Nat /\ Len(b) \in Nat
  BY <1>3
<1>5. a \o << >> = a /\ << >> \o a = a
  BY <1>3
<1>6. ASSUME a # << >>
      PROVE  a \o b # << >> /\ Tail(a \o b) = Tail(a) \o b
             /\ Head(a \o b) = Head(a)
  BY <1>3, <1>4, <1>6
<1> QED
  BY <1>5, <1>6

-------------------------------------------------------------------------------
(***************************************************************************)
(* What a reduction publishes bears its instant, and time never goes back. *)
(***************************************************************************)
TimedSeq(choices, at) ==
  /\ IsSeq(choices)
  /\ \A i \in 1 .. Len(choices) : choices[i].time = at

LEMMA PublishedSeq ==
  ASSUME NEW id, NEW at, NEW name, NEW choices, IsSeq(choices)
  PROVE  TimedSeq(Publish(id, at, name, choices), at)
<1> DEFINE p == Publish(id, at, name, choices)
           n == Len(choices)
<1>1. n \in Nat /\ DOMAIN choices = 1 .. n
  BY SeqIsFunction
<1> HIDE DEF n
<1>2. p = [i \in 1 .. n |-> p[i]] /\ \A i \in 1 .. n : p[i].time = at
  BY <1>1 DEF Publish
<1> HIDE DEF p
<1>3. IsSeq(p) /\ Len(p) = n
  BY <1>1, <1>2, FunctionIsSeq
<1> QED
  BY <1>2, <1>3 DEF TimedSeq, p

LEMMA DispatchOffers ==
  ASSUME NEW w, NEW e, Dispatchable(e)
  PROVE  TimedSeq(Dispatch(w, e).choices, e.at)
<1> DEFINE r == Dispatch(w, e)
<1>1. TimedSeq(<< >>, e.at)
  BY EmptyIsSeq DEF TimedSeq
<1>2. ASSUME NEW x, x.time = e.at  PROVE TimedSeq(<< x >>, e.at)
  <2> DEFINE s == << x >>
  <2>1. s \in Seq({x}) /\ Len(s) = 1 /\ s[1] = x
    OBVIOUS
  <2> HIDE DEF s
  <2>2. IsSeq(s) /\ \A i \in 1 .. Len(s) : s[i].time = e.at
    BY <1>2, <2>1 DEF IsSeq
  <2> QED
    BY <2>2 DEF TimedSeq, s
<1>3. CASE e.kind = "command" \/ e.kind = "property-equals"
  <2>1. r.choices = << >>
    BY <1>3 DEF Dispatch, PropertyVerdict, Reduced
  <2> QED
    BY <1>1, <2>1
<1>4. CASE e.kind = "choice"
  <2>1. \E selected, coordinates :
          r.choices = << ChoiceRecord(e.id, e.at, e.payload, selected, coordinates) >>
    BY <1>4 DEF Dispatch, Dispatchable, Choose, ApplySelected, Reduced
  <2>2. \A selected, coordinates :
          ChoiceRecord(e.id, e.at, e.payload, selected, coordinates).time = e.at
    BY DEF ChoiceRecord
  <2> HIDE DEF r
  <2>3. TimedSeq(r.choices, e.at)
    BY <1>2, <2>1, <2>2
  <2> QED
    BY <2>3 DEF r
<1>5. CASE e.kind = "component"
  <2> DEFINE name == e.payload.name
             result == ComponentStep(name, w.states[name], e.payload.value, e.at)
             step == result.step
             c == ComponentCommit(w, e.id, e.at, name, step)
  <2>1. r.choices = << >> \/ (result.code = "ok" /\ r = c)
    BY <1>5 DEF Dispatch, DispatchComponent, Refused
  <2>2. c.choices = << >> \/ c.choices = Publish(e.id, e.at, name, step.choices)
    BY DEF ComponentCommit, Reduced, Refused
  <2>3. ASSUME result.code = "ok"  PROVE IsSeq(step.choices)
    <3>1. step.choices \in Seq(Menu)
      BY <2>3, AcceptedMenusAreMenus
    <3> QED
      BY <3>1 DEF IsSeq
  <2> HIDE DEF result, step, c, r
  <2>4. ASSUME IsSeq(step.choices)
        PROVE  TimedSeq(Publish(e.id, e.at, name, step.choices), e.at)
    BY <2>4, PublishedSeq
  <2>5. TimedSeq(r.choices, e.at)
    BY <1>1, <2>1, <2>2, <2>3, <2>4
  <2> QED
    BY <2>5 DEF r
<1> QED
  BY <1>3, <1>4, <1>5 DEF Dispatchable

\* An input of the driver goes on the transcript as it is, moves time at
\* most forward, and publishes menus of the instant it leads to.
Recorded(record, P) ==
  /\ world'.transcript = Append(world.transcript, record)
  /\ world'.time \in Nat /\ world'.time >= world.time
  /\ IsSeq(P)
  /\ \A i \in 1 .. Len(P) : P[i].time = world'.time
  /\ menus' = menus \o P /\ offered' = offered \o P

Publishes(input) ==
  LET P == ComponentMenus(Reduce(world, input).choices)
  IN  menus' = menus \o P /\ offered' = offered \o P

LEMMA MenusTimed ==
  ASSUME NEW choices, NEW at, TimedSeq(choices, at)
  PROVE  TimedSeq(ComponentMenus(choices), at)
BY MenusAmong DEF TimedSeq, Among

LEMMA ProgressRecords ==
  ASSUME WorldInv, NEW input, Progresses(input), Publishes(input),
         \/ input = [op |-> "advance"] /\ world.pending # << >>
         \/ \E kind, payload : input = ScheduleNow(kind, payload)
  PROVE  \E P : Recorded(input, P)
<1> DEFINE r == Reduce(world, input)
<1>1. world' = r.world /\ r.error = NoError
  BY DEF Progresses
<1>2. /\ r.world.transcript = Append(world.transcript, input)
      /\ r.world.time \in Nat /\ r.world.time >= world.time
      /\ TimedSeq(r.choices, r.world.time)
  <2>1. CASE input = [op |-> "advance"] /\ world.pending # << >>
    <3> DEFINE a == Popping(world)
               e == Head(world.pending)
    <3>1. r = Advance(world)
      BY <2>1 DEF Reduce
    <3>2. /\ Advance(world) = Dispatch(a, e) /\ WorldOK(a) /\ a.time = e.at
          /\ e = world.pending[1] /\ Len(world.pending) > 0 /\ Dispatchable(e)
      BY <2>1, AdvanceIsDispatch DEF WorldInv
    <3>3. r.world.transcript = Append(world.transcript, input)
      BY <2>1, <3>1, AdvanceRecords DEF WorldInv
    <3> HIDE DEF r, a, e
    <3>4. r.world.time = e.at
      BY <3>1, <3>2, DispatchExtends
    <3>5. TimedSeq(r.choices, e.at)
      BY <3>1, <3>2, DispatchOffers
    <3>6. Len(world.pending) \in Nat
      BY SeqIsFunction DEF WorldInv, WorldOK, Queue
    <3>7. e.at \in Nat /\ e.at >= world.time
      BY <3>2, <3>6 DEF WorldInv, WorldOK, Queue
    <3>8. /\ r.world.transcript = Append(world.transcript, input)
          /\ r.world.time \in Nat /\ r.world.time >= world.time
          /\ TimedSeq(r.choices, r.world.time)
      BY <3>3, <3>4, <3>5, <3>7
    <3> QED
      BY <3>8 DEF r
  <2>2. ASSUME NEW kind, NEW payload, input = ScheduleNow(kind, payload)
        PROVE  /\ r.world.transcript = Append(world.transcript, input)
               /\ r.world.time \in Nat /\ r.world.time >= world.time
               /\ TimedSeq(r.choices, r.world.time)
    <3> DEFINE s == Schedule(world, world.time, kind, payload)
    <3>1. /\ r = s /\ world.time \in Nat /\ world.time \in Int
          /\ input = [op |-> "schedule", at |-> world.time, kind |-> kind,
                      payload |-> payload]
      BY <2>2 DEF Reduce, ScheduleNow, WorldInv, WorldOK
    <3>2. s.error = NoError
      BY <1>1, <3>1
    <3>3. s.world.time = world.time
          /\ s.world.transcript = Append(world.transcript, input)
      BY <3>1, <3>2, ScheduleRecords DEF WorldInv
    <3>4. s.choices = << >>
      BY DEF Schedule, Refused, Reduced
    <3> HIDE DEF r, s
    <3>5. TimedSeq(s.choices, world.time)
      BY <3>4, EmptyIsSeq DEF TimedSeq
    <3>6. /\ s.world.transcript = Append(world.transcript, input)
          /\ s.world.time \in Nat /\ s.world.time >= world.time
          /\ TimedSeq(s.choices, s.world.time)
      BY <3>1, <3>3, <3>5
    <3> QED
      BY <3>1, <3>6 DEF r
  <2> QED
    BY <2>1, <2>2
<1> DEFINE P == ComponentMenus(r.choices)
<1>3. TimedSeq(P, r.world.time)
  BY <1>2, MenusTimed
<1>4. menus' = menus \o P /\ offered' = offered \o P
  BY DEF Publishes
<1> HIDE DEF r, P
<1>5. Recorded(input, P)
  BY <1>1, <1>2, <1>3, <1>4 DEF Recorded, TimedSeq
<1> QED
  BY <1>5

-------------------------------------------------------------------------------
(***************************************************************************)
(* The menus of an attempt.  Those published fall into the ones answered,  *)
(* one selection each, and behind them the ones still open, which are the  *)
(* rest of the round being resolved and then what arrived since.  Between  *)
(* a selection and its delivery the queue holds the delivery.              *)
(***************************************************************************)
\* The menus that are open, in the order they will be answered.
Waiting ==
  CASE phase = "resolve" -> queue \o menus
    [] phase = "deliver" -> Tail(queue) \o menus
    [] OTHER -> menus

Answers(selection, menu) ==
  /\ selection.payload.path = PathOf(menu)
  /\ selection.payload.alternatives = menu.alternatives
  /\ selection.payload.selected \in ToSet(menu.alternatives)
  /\ selection.at >= menu.time

AnswerOf(selection) ==
  ComponentInput(selection.payload.path[1], selection.payload.selected)

Carries(input, selection) ==
  /\ input.op = "schedule" /\ input.kind = "component"
  /\ input.payload = AnswerOf(selection)

\* A selection among the first n inputs is followed by its delivery.
Carried(T, n) ==
  \A i \in 1 .. n : Selects(T[i]) => i < Len(T) /\ Carries(T[i + 1], T[i])

OpenInv ==
  /\ IsSeq(menus) /\ IsSeq(offered) /\ IsSeq(Selections)
  /\ phase \in {"resolve", "deliver"} => IsSeq(queue)
  /\ Lines(offered, Len(Selections), Waiting)
  /\ \A i \in 1 .. Len(offered) :
       offered[i].time \in Nat /\ offered[i].time <= world.time

AnsweredInv ==
  \A i \in 1 .. Len(Selections) : Answers(Selections[i], offered[i])

CarriedInv ==
  IF phase = "deliver"
  THEN /\ queue # << >> /\ Inputs # << >>
       /\ Carried(Inputs, Len(Inputs) - 1)
       /\ Selects(Inputs[Len(Inputs)])
       /\ Head(queue) = AnswerOf(Inputs[Len(Inputs)])
  ELSE Carried(Inputs, Len(Inputs))

MenuInv == OpenInv /\ AnsweredInv /\ CarriedInv

LEMMA WaitingIsSeq ==
  ASSUME OpenInv, phase = "deliver" => queue # << >>
  PROVE  IsSeq(Waiting)
<1>1. CASE phase = "resolve"
  BY <1>1, ConcatIsSeq DEF OpenInv, Waiting
<1>2. CASE phase = "deliver"
  <2>1. IsSeq(Tail(queue))
    BY <1>2, TailIsSeq DEF OpenInv
  <2> QED
    BY <1>2, <2>1, ConcatIsSeq DEF OpenInv, Waiting
<1>3. CASE phase \notin {"resolve", "deliver"}
  BY <1>3 DEF OpenInv, Waiting
<1> QED
  BY <1>1, <1>2, <1>3

\* An input is taken: it answers the first of the open menus, or none, and
\* what it publishes goes behind the others.
LEMMA OpenKept ==
  ASSUME IsSeq(world.transcript), world.time \in Nat,
         OpenInv, AnsweredInv, IsSeq(Waiting),
         NEW record, NEW P, Recorded(record, P),
         phase' \in {"resolve", "deliver"} => IsSeq(queue'),
         \/ ~Selects(record) /\ Waiting' = Waiting \o P
         \/ /\ Selects(record) /\ Waiting # << >> /\ Answers(record, Head(Waiting))
            /\ Waiting' = Tail(Waiting) \o P
  PROVE  OpenInv' /\ AnsweredInv'
<1> DEFINE k == Len(Selections)
<1> PICK O : O = offered
  OBVIOUS
<1> PICK W : W = Waiting
  OBVIOUS
<1> PICK S : S = Selections
  OBVIOUS
<1>1. IsSeq(O) /\ IsSeq(W) /\ IsSeq(S) /\ IsSeq(P)
  BY DEF OpenInv, Recorded
<1>2. Len(O) \in Nat /\ Len(W) \in Nat /\ Len(S) \in Nat /\ Len(P) \in Nat
  BY <1>1, SeqIsFunction
<1>3. Lines(O, Len(S), W) /\ Len(S) <= Len(O)
  BY <1>2 DEF OpenInv, Lines
<1>4. offered' = O \o P /\ menus' = menus \o P
  BY DEF Recorded
<1>5. IsSeq(menus')
  <2>1. IsSeq(menus)
    BY DEF OpenInv
  <2> QED
    BY <1>1, <1>4, <2>1, ConcatIsSeq
<1>6. /\ IsSeq(offered')
      /\ Len(offered') = Len(O) + Len(P)
      /\ \A i \in 1 .. Len(O) : offered'[i] = O[i]
      /\ \A i \in 1 .. Len(P) : offered'[Len(O) + i] = P[i]
  <2> PICK u : u = O \o P
    OBVIOUS
  <2>1. IsSeq(u)
    BY <1>1, ConcatIsSeq
  <2>2. /\ Len(u) = Len(O) + Len(P)
        /\ \A i \in 1 .. Len(O) : u[i] = O[i]
        /\ \A i \in 1 .. Len(P) : u[Len(O) + i] = P[i]
    BY <1>1, ConcatIsSeq
  <2>3. offered' = u
    BY <1>4
  <2> QED
    BY <2>1, <2>2, <2>3
<1>7. Selections' = AddSelection(S, record)
  BY SelectionsOfAppend DEF Recorded, Selections, Inputs
<1>8. ASSUME NEW i \in 1 .. Len(offered')
      PROVE  offered'[i].time \in Nat /\ offered'[i].time <= world'.time
  <2>1. world'.time \in Nat /\ world'.time >= world.time
    BY DEF Recorded
  <2>2. CASE i <= Len(O)
    <3>1. i \in 1 .. Len(O) /\ offered'[i] = O[i]
      BY <1>2, <1>6, <2>2
    <3>2. O[i].time \in Nat /\ O[i].time <= world.time
      BY <3>1 DEF OpenInv
    <3> PICK x : x = O[i].time
      OBVIOUS
    <3>3. x <= world'.time
      BY <2>1, <3>2
    <3> QED
      BY <3>1, <3>2, <3>3
  <2>3. CASE i > Len(O)
    <3> DEFINE j == i - Len(O)
    <3>1. j \in 1 .. Len(P) /\ i = Len(O) + j
      BY <1>2, <1>6, <2>3
    <3> HIDE DEF j
    <3> QED
      BY <1>6, <2>1, <3>1, SMTT(40) DEF Recorded
  <2> QED
    BY <1>2, <1>6, <2>2, <2>3
<1>9. CASE ~Selects(record) /\ Waiting' = W \o P
  <2>1. Selections' = S
    BY <1>7, <1>9 DEF AddSelection
  <2>2. Lines(offered', Len(S), Waiting')
    BY <1>1, <1>2, <1>3, <1>4, <1>9, LinesGrow
  <2>3. OpenInv'
    BY <1>1, <1>5, <1>6, <1>8, <2>1, <2>2 DEF OpenInv
  <2>4. AnsweredInv'
    <3>1. \A i \in 1 .. Len(S) : i \in 1 .. Len(O) /\ Answers(S[i], O[i])
      BY <1>2, <1>3 DEF AnsweredInv
    <3>2. \A i \in 1 .. Len(S) : Answers(S[i], offered'[i])
      BY <1>6, <3>1
    <3> QED
      BY <2>1, <3>2 DEF AnsweredInv
  <2> QED
    BY <2>3, <2>4
<1>10. CASE /\ Selects(record) /\ W # << >> /\ Answers(record, Head(W))
           /\ Waiting' = Tail(W) \o P
  <2>1. Selections' = Append(S, record)
    BY <1>7, <1>10 DEF AddSelection
  <2> PICK V : V = Append(S, record)
    OBVIOUS
  <2>2. /\ IsSeq(V) /\ Len(V) = Len(S) + 1
        /\ \A i \in 1 .. Len(S) : V[i] = S[i]
        /\ V[Len(S) + 1] = record
    BY <1>1, AppendIsSeq
  <2>3. /\ Lines(O, Len(S) + 1, Tail(W)) /\ O[Len(S) + 1] = Head(W)
        /\ Len(S) + 1 \in 1 .. Len(O)
    BY <1>1, <1>2, <1>3, <1>10, LinesPop
  <2>4. IsSeq(Tail(W)) /\ Len(S) + 1 \in Nat
    BY <1>1, <1>2, <1>10, TailIsSeq
  <2>5. Lines(offered', Len(V), Waiting')
    BY <1>1, <1>4, <1>10, <2>2, <2>3, <2>4, LinesGrow
  <2>6. OpenInv'
    BY <1>5, <1>6, <1>8, <2>1, <2>2, <2>5 DEF OpenInv
  <2>7. ASSUME NEW i \in 1 .. Len(V)  PROVE Answers(V[i], offered'[i])
    <3>1. CASE i <= Len(S)
      <4>1. i \in 1 .. Len(S) /\ i \in 1 .. Len(O)
        BY <1>2, <1>3, <3>1
      <4>2. Answers(S[i], O[i])
        BY <4>1 DEF AnsweredInv
      <4> QED
        BY <1>6, <2>2, <4>1, <4>2
    <3>2. CASE i = Len(S) + 1
      <4>1. offered'[i] = Head(W)
        BY <1>6, <2>3, <3>2
      <4> QED
        BY <1>10, <2>2, <3>2, <4>1
    <3> QED
      BY <1>2, <2>2, <3>1, <3>2
  <2>8. AnsweredInv'
    BY <2>1, <2>7 DEF AnsweredInv
  <2> QED
    BY <2>6, <2>8
<1> QED
  BY <1>9, <1>10

\* The transcript, one record longer.
LEMMA CarriedMore ==
  ASSUME NEW T, IsSeq(T), NEW x
  PROVE  LET U == Append(T, x)
             n == Len(T)
         IN  /\ Carried(T, n) => Carried(U, n)
             /\ Carried(T, n) /\ ~Selects(x) => Carried(U, n + 1)
             /\ n > 0 /\ Carried(T, n - 1) /\ Carries(x, T[n]) => Carried(U, n + 1)
             /\ U # << >> /\ Len(U) = n + 1 /\ U[n + 1] = x
<1> PICK U : U = Append(T, x)
  OBVIOUS
<1> PICK n : n = Len(T)
  OBVIOUS
<1>1. /\ n \in Nat /\ IsSeq(U) /\ Len(U) = n + 1
      /\ \A i \in 1 .. n : U[i] = T[i]
      /\ U[n + 1] = x
  BY AppendIsSeq, SeqIsFunction
<1>2. ASSUME Carried(T, n)  PROVE Carried(U, n)
  BY <1>1, <1>2 DEF Carried
<1>3. ASSUME Carried(T, n), ~Selects(x)  PROVE Carried(U, n + 1)
  BY <1>1, <1>3 DEF Carried
<1>4. ASSUME n > 0, Carried(T, n - 1), Carries(x, T[n])  PROVE Carried(U, n + 1)
  <2>1. ~Selects(x)
    BY <1>4 DEF Carries, Selects
  <2>2. ASSUME NEW i \in 1 .. n + 1, Selects(U[i])
        PROVE  i < Len(U) /\ Carries(U[i + 1], U[i])
    <3>1. CASE i = n + 1
      BY <1>1, <2>1, <2>2, <3>1
    <3>2. CASE i = n
      BY <1>1, <1>4, <3>2
    <3>3. CASE i < n
      <4>1. i \in 1 .. n - 1 /\ i \in 1 .. n /\ i + 1 \in 1 .. n
        BY <1>1, <3>3
      <4> QED
        BY <1>1, <1>4, <2>2, <4>1 DEF Carried
    <3> QED
      BY <1>1, <3>1, <3>2, <3>3
  <2> QED
    BY <2>2 DEF Carried
<1>5. U # << >>
  BY <1>1, EmptyIsSeq
<1> QED
  BY <1>1, <1>2, <1>3, <1>4, <1>5

\* The inputs of the driver, as the menus see them.
Taken(input) ==
  /\ Progresses(input) /\ Publishes(input)
  /\ \/ input = [op |-> "advance"] /\ world.pending # << >>
     \/ \E kind, payload : input = ScheduleNow(kind, payload)

LEMMA TakenRecords ==
  ASSUME WorldInv, NEW input, Taken(input)
  PROVE  /\ \E P : Recorded(input, P)
         /\ IsSeq(world.transcript) /\ world.time \in Nat
BY ProgressRecords DEF Taken, WorldInv, WorldOK

LEMMA PlainInput ==
  ASSUME WorldInv, MenuInv, NEW input, Taken(input), ~Selects(input),
         phase \in {"boot", "loop"}, phase' = phase
  PROVE  MenuInv'
<1>1. PICK P : Recorded(input, P)
  BY TakenRecords
<1>2. IsSeq(world.transcript) /\ world.time \in Nat
  BY TakenRecords
<1>3. OpenInv /\ AnsweredInv /\ CarriedInv
  BY DEF MenuInv
<1>4. Waiting = menus /\ Waiting' = menus' /\ menus' = menus \o P
  BY <1>1 DEF Waiting, Recorded
<1>5. IsSeq(Waiting)
  BY <1>3, <1>4 DEF OpenInv
<1>6. OpenInv' /\ AnsweredInv'
  <2>1. phase' \in {"resolve", "deliver"} => IsSeq(queue')
    OBVIOUS
  <2>2. Waiting' = Waiting \o P
    BY <1>4
  <2> QED
    BY <1>1, <1>2, <1>3, <1>5, <2>1, <2>2, OpenKept
<1>7. CarriedInv'
  <2>1. Carried(Inputs, Len(Inputs)) /\ Inputs' = Append(Inputs, input)
    BY <1>1, <1>3 DEF CarriedInv, Recorded, Inputs
  <2>2. IsSeq(Inputs)
    BY <1>2 DEF Inputs
  <2>3. Carried(Inputs', Len(Inputs) + 1) /\ Len(Inputs') = Len(Inputs) + 1
    BY <2>1, <2>2, CarriedMore
  <2> QED
    BY <2>3 DEF CarriedInv
<1> QED
  BY <1>6, <1>7 DEF MenuInv

LEMMA SelectionTaken ==
  ASSUME WorldInv, MenuInv, phase = "resolve", queue # << >>,
         NEW selected \in ToSet(Head(queue).alternatives), NEW input,
         input = ScheduleNow("choice", SelectedChoice(Head(queue), selected)),
         Taken(input), phase' = "deliver",
         queue' = << ComponentInput(Head(queue).component, selected) >> \o Tail(queue)
  PROVE  MenuInv'
<1>1. PICK P : Recorded(input, P)
  BY TakenRecords
<1>2. IsSeq(world.transcript) /\ world.time \in Nat
  BY TakenRecords
<1>3. OpenInv /\ AnsweredInv /\ CarriedInv
  BY DEF MenuInv
<1>4. IsSeq(queue) /\ IsSeq(menus) /\ IsSeq(P) /\ IsSeq(Tail(queue))
  BY <1>1, <1>3, TailIsSeq DEF OpenInv, Recorded
<1> PICK head : head = ComponentInput(Head(queue).component, selected)
  OBVIOUS
<1>5. IsSeq(queue') /\ queue' # << >> /\ Head(queue') = head
        /\ Tail(queue') = Tail(queue)
  <2>1. PICK A : Tail(queue) \in Seq(A)
    BY <1>4 DEF IsSeq
  <2> PICK t : t = Tail(queue)
    OBVIOUS
  <2> DEFINE q == << head >> \o t
  <2>2. t \in Seq(A \cup {head}) /\ << head >> \in Seq(A \cup {head})
    BY <2>1
  <2>3. q \in Seq(A \cup {head}) /\ q # << >> /\ Head(q) = head /\ Tail(q) = t
    BY <2>2
  <2>4. queue' = q
    OBVIOUS
  <2> HIDE DEF q
  <2> QED
    BY <2>3, <2>4 DEF IsSeq
<1>6. /\ Waiting = queue \o menus /\ Waiting' = Tail(queue) \o (menus \o P)
  BY <1>1, <1>5 DEF Waiting, Recorded
<1>7. /\ Waiting # << >> /\ Tail(Waiting) = Tail(queue) \o menus
      /\ Head(Waiting) = Head(queue)
  BY <1>4, <1>6, ConcatLaws
<1>8. Waiting' = Tail(Waiting) \o P
  <2> PICK t : t = Tail(queue)
    OBVIOUS
  <2> PICK m : m = menus
    OBVIOUS
  <2>1. IsSeq(t) /\ IsSeq(m) /\ IsSeq(P)
    BY <1>4
  <2>2. (t \o m) \o P = t \o (m \o P)
    BY ONLY <2>1, ConcatAssoc
  <2> QED
    BY <1>6, <1>7, <2>2
<1>9. IsSeq(Waiting)
  BY <1>3, WaitingIsSeq
<1>10. /\ Selects(input) /\ input.at = world.time
       /\ input.payload.path = PathOf(Head(queue))
       /\ input.payload.alternatives = Head(queue).alternatives
       /\ input.payload.selected = selected
  BY DEF ScheduleNow, SelectedChoice, Selects
<1>11. Answers(input, Head(Waiting))
  <2>1. Len(Selections) \in Nat /\ Lines(offered, Len(Selections), Waiting)
    BY <1>3, SeqIsFunction DEF OpenInv
  <2>2. /\ offered[Len(Selections) + 1] = Head(Waiting)
        /\ Len(Selections) + 1 \in 1 .. Len(offered)
    BY <1>7, <1>9, <2>1, LinesPop
  <2>3. Head(Waiting).time \in Nat /\ Head(Waiting).time <= world.time
    BY <1>3, <2>2 DEF OpenInv
  <2>4. world.time >= Head(Waiting).time
    BY <1>2, <2>3
  <2> QED
    BY <1>7, <1>10, <2>4 DEF Answers
<1>12. OpenInv' /\ AnsweredInv'
  BY <1>1, <1>2, <1>3, <1>5, <1>7, <1>8, <1>9, <1>10, <1>11, OpenKept
<1>13. CarriedInv'
  <2>1. Carried(Inputs, Len(Inputs)) /\ Inputs' = Append(Inputs, input)
    BY <1>1, <1>3 DEF CarriedInv, Recorded, Inputs
  <2>2. IsSeq(Inputs)
    BY <1>2 DEF Inputs
  <2>3. /\ Carried(Inputs', Len(Inputs)) /\ Inputs' # << >>
        /\ Len(Inputs') = Len(Inputs) + 1 /\ Inputs'[Len(Inputs) + 1] = input
        /\ Len(Inputs) \in Nat
    BY <2>1, <2>2, CarriedMore, SeqIsFunction
  <2>4. Len(Inputs') - 1 = Len(Inputs)
    BY <2>3
  <2>5. AnswerOf(input) = head
    BY <1>10 DEF AnswerOf, PathOf
  <2> QED
    BY <1>5, <1>10, <2>3, <2>4, <2>5 DEF CarriedInv
<1> QED
  BY <1>12, <1>13 DEF MenuInv

LEMMA DeliveryTaken ==
  ASSUME WorldInv, MenuInv, phase = "deliver", NEW input,
         input = ScheduleNow("component", Head(queue)),
         Taken(input), phase' = "resolve", queue' = Tail(queue)
  PROVE  MenuInv'
<1>1. PICK P : Recorded(input, P)
  BY TakenRecords
<1>2. IsSeq(world.transcript) /\ world.time \in Nat
  BY TakenRecords
<1>3. OpenInv /\ AnsweredInv /\ CarriedInv
  BY DEF MenuInv
<1>4. queue # << >>
  BY <1>3 DEF CarriedInv
<1>5. IsSeq(queue) /\ IsSeq(menus) /\ IsSeq(P) /\ IsSeq(Tail(queue))
  BY <1>1, <1>3, <1>4, TailIsSeq DEF OpenInv, Recorded
<1>6. Waiting = Tail(queue) \o menus /\ Waiting' = Tail(queue) \o (menus \o P)
  BY <1>1 DEF Waiting, Recorded
<1>7. Waiting' = Waiting \o P
  <2> PICK t : t = Tail(queue)
    OBVIOUS
  <2> PICK m : m = menus
    OBVIOUS
  <2>1. IsSeq(t) /\ IsSeq(m) /\ IsSeq(P)
    BY <1>5
  <2>2. (t \o m) \o P = t \o (m \o P)
    BY ONLY <2>1, ConcatAssoc
  <2> QED
    BY <1>6, <2>2
<1>8. IsSeq(Waiting)
  BY <1>3, <1>4, WaitingIsSeq
<1>9. input.op = "schedule" /\ input.kind = "component" /\ input.payload = Head(queue)
  BY DEF ScheduleNow
<1>10. ~Selects(input)
  BY <1>9 DEF Selects
<1>11. OpenInv' /\ AnsweredInv'
  BY <1>1, <1>2, <1>3, <1>5, <1>7, <1>8, <1>10, OpenKept
<1>12. CarriedInv'
  <2> PICK T : T = Inputs
    OBVIOUS
  <2>1. IsSeq(T) /\ Len(T) \in Nat
    BY <1>2, SeqIsFunction DEF Inputs
  <2>2. /\ Carried(T, Len(T) - 1) /\ T # << >>
        /\ Head(queue) = AnswerOf(T[Len(T)])
    BY <1>3 DEF CarriedInv
  <2>3. Len(T) > 0
    BY <2>1, <2>2, TailIsSeq
  <2>4. Carries(input, T[Len(T)])
    BY <1>9, <2>2 DEF Carries
  <2>5. Inputs' = Append(T, input)
    BY <1>1 DEF Recorded, Inputs
  <2>6. Carried(Inputs', Len(T) + 1) /\ Len(Inputs') = Len(T) + 1
    BY <2>1, <2>2, <2>3, <2>4, <2>5, CarriedMore
  <2> QED
    BY <2>6 DEF CarriedInv
<1> QED
  BY <1>11, <1>12 DEF MenuInv

\* Nothing has been published yet.
Closed ==
  /\ phase \notin {"resolve", "deliver"}
  /\ menus = << >> /\ offered = << >> /\ world = InitialWorld

LEMMA NothingOpen == Closed => MenuInv
<1> SUFFICES ASSUME Closed  PROVE MenuInv
  OBVIOUS
<1>1. Inputs = << >> /\ Selections = << >>
  BY SelectionsOfNothing DEF Closed, Inputs, Selections, InitialWorld
<1>2. Waiting = << >> /\ offered = << >> /\ menus = << >>
        /\ phase \notin {"resolve", "deliver"}
  BY DEF Closed, Waiting
<1>3. \A i : i \notin 1 .. 0
  OBVIOUS
<1>4. OpenInv
  BY <1>1, <1>2, <1>3, EmptyIsSeq DEF OpenInv, Lines
<1>5. AnsweredInv /\ CarriedInv
  BY <1>1, <1>2, <1>3, EmptyIsSeq DEF AnsweredInv, CarriedInv, Carried
<1> QED
  BY <1>4, <1>5 DEF MenuInv

LEMMA RestartOpensNothing ==
  ASSUME NEW n, NEW s, StartAttempt(n, s)
  PROVE  MenuInv'
<1>1. Closed'
  BY DEF StartAttempt, Closed
<1> QED
  BY <1>1, NothingOpen, PTL

LEMMA AbortOpensNothing ==
  ASSUME Aborts  PROVE MenuInv'
BY RestartOpensNothing DEF Aborts, Abort

-------------------------------------------------------------------------------
LEMMA MenuInvStep == DriverInv /\ MenuInv /\ [Next]_vars => MenuInv'
<1> SUFFICES ASSUME DriverInv, MenuInv, [Next]_vars  PROVE MenuInv'
  OBVIOUS
<1>1. WorldInv
  BY DEF DriverInv
<1>2. CASE BootProcess
  <2> DEFINE payload == ComponentInput(Head(queue), BootInput)
             input == ScheduleNow("component", payload)
  <2>1. ~Selects(input)
    BY DEF ScheduleNow, Selects
  <2>2. \E kind, p : input = ScheduleNow(kind, p)
    OBVIOUS
  <2>3. \/ Progresses(input) /\ Publishes(input) /\ phase' = phase
        \/ Aborts
    BY <1>2 DEF BootProcess, Apply, Charge, Progresses, Publishes, Aborts
  <2>4. phase = "boot"
    BY <1>2 DEF BootProcess
  <2> HIDE DEF input
  <2>5. CASE Progresses(input) /\ Publishes(input) /\ phase' = phase
    BY <1>1, <2>1, <2>2, <2>4, <2>5, PlainInput DEF Taken
  <2> QED
    BY <2>3, <2>5, AbortOpensNothing
<1>3. CASE AdvanceWorld
  <2> DEFINE input == [op |-> "advance"]
  <2>1. ~Selects(input) /\ input = [op |-> "advance"]
    BY DEF Selects
  <2>2. \/ Progresses(input) /\ Publishes(input) /\ phase' = phase
        \/ Aborts
    BY <1>3 DEF AdvanceWorld, Apply, Charge, Progresses, Publishes, Aborts
  <2>3. phase = "loop" /\ world.pending # << >>
    BY <1>3 DEF AdvanceWorld
  <2> HIDE DEF input
  <2>4. CASE Progresses(input) /\ Publishes(input) /\ phase' = phase
    BY <1>1, <2>1, <2>3, <2>4, PlainInput DEF Taken
  <2> QED
    BY <2>2, <2>4, AbortOpensNothing
<1>4. CASE SelectAlternative
  <2> DEFINE In(x) == ScheduleNow("choice", SelectedChoice(Head(queue), x))
             Goes(x) == /\ phase' = "deliver"
                         /\ queue' = << ComponentInput(Head(queue).component, x) >>
                                      \o Tail(queue)
  <2>1. phase = "resolve" /\ queue # << >>
    BY <1>4 DEF SelectAlternative
  <2>2. \E x \in ToSet(Head(queue).alternatives) :
          \/ Progresses(In(x)) /\ Publishes(In(x)) /\ Goes(x)
          \/ Aborts
    BY <1>4 DEF SelectAlternative, Apply, Charge, Progresses, Publishes, Aborts
  <2>3. ASSUME NEW x \in ToSet(Head(queue).alternatives),
               Progresses(In(x)), Publishes(In(x)), Goes(x)
        PROVE  MenuInv'
    <3> DEFINE input == In(x)
    <3>1. /\ input = ScheduleNow("choice", SelectedChoice(Head(queue), x))
          /\ \E kind, p : input = ScheduleNow(kind, p)
      OBVIOUS
    <3>2. Progresses(input) /\ Publishes(input)
      BY <2>3
    <3> HIDE DEF input, In
    <3>3. Taken(input)
      BY <3>1, <3>2 DEF Taken
    <3> QED
      BY <1>1, <2>1, <2>3, <3>1, <3>3, SelectionTaken
  <2> HIDE DEF In, Goes
  <2> QED
    BY <2>2, <2>3, AbortOpensNothing
<1>5. CASE DeliverSelection
  <2> DEFINE input == ScheduleNow("component", Head(queue))
  <2>1. /\ input = ScheduleNow("component", Head(queue))
        /\ \E kind, p : input = ScheduleNow(kind, p)
    OBVIOUS
  <2>2. \/ /\ Progresses(input) /\ Publishes(input)
           /\ phase' = "resolve" /\ queue' = Tail(queue)
        \/ Aborts
    BY <1>5 DEF DeliverSelection, Apply, Charge, Progresses, Publishes, Aborts
  <2>3. phase = "deliver"
    BY <1>5 DEF DeliverSelection
  <2> HIDE DEF input
  <2>4. CASE /\ Progresses(input) /\ Publishes(input)
             /\ phase' = "resolve" /\ queue' = Tail(queue)
    <3>1. Taken(input)
      BY <2>1, <2>4 DEF Taken
    <3> QED
      BY <1>1, <2>1, <2>3, <2>4, <3>1, DeliveryTaken
  <2> QED
    BY <2>2, <2>4, AbortOpensNothing
<1>6. CASE EvaluateAttempt
  <2> DEFINE result == Evaluate(world.facts)
  <2>1. CASE Abort(result.code)
    BY <2>1, AbortOpensNothing DEF Aborts
  <2>2. CASE StartAttempt(NextAttempt("explored"), Explored(result.signature))
    BY <2>2, RestartOpensNothing
  <2>3. CASE /\ phase' = "discovered"
             /\ UNCHANGED << attempt, world, steps, counter, menus, queue,
                             summary, offered >>
    <3>1. phase = "loop"
      BY <1>6 DEF EvaluateAttempt, Quiescent
    <3>2. Waiting' = Waiting
      BY <2>3, <3>1 DEF Waiting
    <3> QED
      BY <2>3, <3>1, <3>2
      DEF MenuInv, OpenInv, AnsweredInv, CarriedInv, Selections, Inputs
  <2> QED
    BY <1>6, <2>1, <2>2, <2>3 DEF EvaluateAttempt
<1>7. CASE Booted
  <2>1. Waiting' = Waiting
    BY <1>7 DEF Booted, Waiting
  <2> QED
    BY <1>7, <2>1
    DEF Booted, MenuInv, OpenInv, AnsweredInv, CarriedInv, Selections, Inputs
<1>8. CASE ResolveAll
  <2>1. IsSeq(menus) /\ menus \o << >> = menus
    BY EmptyIsSeq, ConcatLaws DEF MenuInv, OpenInv
  <2>2. Waiting' = Waiting
    BY <1>8, <2>1 DEF ResolveAll, Waiting
  <2> QED
    BY <1>8, <2>1, <2>2, EmptyIsSeq
    DEF ResolveAll, MenuInv, OpenInv, AnsweredInv, CarriedInv, Selections, Inputs
<1>9. CASE Resolved
  <2>1. IsSeq(menus) /\ << >> \o menus = menus
    BY EmptyIsSeq, ConcatLaws DEF MenuInv, OpenInv
  <2>2. Waiting' = Waiting
    BY <1>9, <2>1 DEF Resolved, Waiting
  <2> QED
    BY <1>9, <2>2
    DEF Resolved, MenuInv, OpenInv, AnsweredInv, CarriedInv, Selections, Inputs
<1>10. CASE Returned \/ UNCHANGED vars
  <2>1. UNCHANGED vars
    BY <1>10 DEF Returned
  <2>2. Waiting' = Waiting
    BY <2>1 DEF vars, Waiting
  <2> QED
    BY <2>1, <2>2
    DEF vars, MenuInv, OpenInv, AnsweredInv, CarriedInv, Selections, Inputs
<1> QED
  BY <1>2, <1>3, <1>4, <1>5, <1>6, <1>7, <1>8, <1>9, <1>10 DEF Next

(***************************************************************************)
(* Menus are answered in the order they arrived, once each and with an     *)
(* alternative of their own, and the answer goes to the component that     *)
(* offered the menu directly after it was recorded; a quiescent attempt    *)
(* leaves none open (run.shen:67-90, 516-600), whatever the components     *)
(* offer, the strategy draws and the budgets cut short.                    *)
(***************************************************************************)
THEOREM MenusAreAnswered == Spec => []MenusAnswered
<1>1. Init => MenuInv
  <2>1. Init => Closed
    BY DEF Init, Closed
  <2> QED
    BY <2>1, NothingOpen
<1>2. DriverInv /\ MenuInv => MenusAnswered
  <2> SUFFICES ASSUME DriverInv, MenuInv  PROVE MenusAnswered
    OBVIOUS
  <2>1. IsSeq(Selections) /\ Len(Selections) \in Nat /\ DOMAIN Selections = 1 .. Len(Selections)
    BY SeqIsFunction DEF MenuInv, OpenInv
  <2>2. Lines(offered, Len(Selections), Waiting) /\ Len(Waiting) \in Nat
    <3>1. OpenInv /\ (phase = "deliver" => queue # << >>)
      BY DEF MenuInv, CarriedInv
    <3> QED
      BY <3>1, WaitingIsSeq, SeqIsFunction DEF OpenInv
  <2>3. Len(Selections) <= Len(offered)
    BY <2>1, <2>2 DEF Lines
  <2>4. Quiescent => Len(Selections) = Len(offered)
    <3>1. Quiescent => Waiting = << >>
      BY DEF Quiescent, Waiting
    <3> QED
      BY <2>1, <2>2, <3>1, EmptyIsSeq DEF Lines
  <2>5. \A i \in DOMAIN Selections : Answers(Selections[i], offered[i])
    BY <2>1 DEF MenuInv, AnsweredInv
  <2>6. Len(Inputs) \in Nat
    BY SeqIsFunction DEF DriverInv, WorldInv, Inputs
  <2>7. \A i \in 1 .. Len(Inputs) - (IF phase = "deliver" THEN 1 ELSE 0) :
          Selects(Inputs[i]) => i < Len(Inputs) /\ Carries(Inputs[i + 1], Inputs[i])
    BY <2>6 DEF MenuInv, CarriedInv, Carried
  <2> QED
    BY <2>3, <2>4, <2>5, <2>7 DEF MenusAnswered, Answers, Carries, AnswerOf
<1> QED
  BY <1>1, <1>2, MenuInvStep, DriverInit, DriverStep, PTL DEF Spec
================================================================================
