-------------------------------- MODULE Driver --------------------------------
(***************************************************************************)
(* The run driver (shen/run/run.shen) over the world kernel: attempts of   *)
(* one scenario, each of them a boot, advances until nothing is pending,   *)
(* and a resolution of every open menu, until the attempt is quiescent and *)
(* its facts are judged.                                                   *)
(*                                                                         *)
(* A strategy draws from a stream of the search subsystem and never        *)
(* reorders or filters a menu (shen/search/search.shen); the model lets    *)
(* every alternative be drawn, and keeps the coordinates of the draw.      *)
(***************************************************************************)
EXTENDS Reducer

CONSTANTS
  BootInput,     \* the input every process starts with
  Processes,     \* the roster's process components, in roster order
  MaxRuns, MaxSteps, MaxEvents, \* the scenario's declared budget
  Evaluate(_),   \* facts -> [code, signature] of the declared properties
  EmptySignature \* the failure signature of a run that fails nothing

ASSUME BudgetAssumption ==
  /\ MaxRuns \in Nat /\ MaxSteps \in Nat /\ MaxEvents \in Nat
  /\ RouteLimit = MaxSteps
  /\ ToSet(Processes) \subseteq Names

VARIABLES
  phase,    \* "boot", "loop", "resolve", "deliver", or how the run ended
  attempt,  \* the current attempt
  world,    \* its world
  steps,    \* reducer inputs it has used
  counter,  \* the counter its next draw reads
  menus,    \* open menus, in arrival order
  queue,    \* what boot, resolve and deliver still have to do
  summary,  \* [signatures, errors, completed] of the attempts so far
  offered,  \* history: every menu published in this attempt
  drawn     \* history: << attempt, path, counter >> of every draw of the run

vars == << phase, attempt, world, steps, counter, menus, queue, summary,
           offered, drawn >>

\* Fault: attempts that lie one counter apart.
CounterBaseByAttempt(n) == n

\* An attempt draws less often than it steps, so its counters end before
\* those of the next attempt begin.
CounterBase(n) == n * (MaxSteps + 1)

Init ==
  /\ phase = IF MaxRuns = 0 THEN "all-failed" ELSE "boot"
  /\ attempt = 0
  /\ world = InitialWorld
  /\ steps = 0
  /\ counter = CounterBase(0)
  /\ menus = << >>
  /\ queue = Processes
  /\ summary = [signatures |-> << >>, errors |-> << >>, completed |-> 0]
  /\ offered = << >>
  /\ drawn = {}

\* Fault: an attempt that was aborted is tried again.
NextAttemptOf(outcome) == IF outcome = "aborted" THEN attempt ELSE attempt + 1

NextAttempt(outcome) == attempt + 1

\* Every attempt starts from the same initial world.
StartAttempt(n, newSummary) ==
  /\ attempt' = n
  /\ summary' = newSummary
  /\ phase' = IF n < MaxRuns THEN "boot"
              ELSE IF newSummary.completed = 0 THEN "all-failed"
              ELSE "exhausted"
  /\ world' = InitialWorld
  /\ steps' = 0
  /\ counter' = CounterBase(n)
  /\ menus' = << >>
  /\ queue' = Processes
  /\ offered' = << >>

Abort(code) ==
  StartAttempt(NextAttempt("aborted"),
               [summary EXCEPT !.errors =
                  Append(@, [attempt |-> attempt, code |-> code])])

\* Fault: scheduling is free, only advances are charged.
ChargeAdvances(input) == IF input.op = "advance" THEN steps + 1 ELSE steps

Charge(input) == steps + 1

\* urdr.run.menus-add: a decision already taken is no menu.
AddMenu(published, choice) ==
  IF choice.type = "component-choice" THEN Append(published, choice)
  ELSE published

ComponentMenus(choices) == FoldLeft(AddMenu, << >>, choices)

\* urdr.run.apply: one reducer input, charged before it is reduced and
\* checked against the event budget after.  Continue says what is next.
Apply(input, Continue) ==
  \E reduction \in {Reduce(world, input)} :
    LET published == ComponentMenus(reduction.choices)
    IN  IF Charge(input) > MaxSteps THEN Abort("run-steps-exceeded")
        ELSE IF reduction.error # NoError THEN Abort(reduction.error)
        ELSE IF reduction.world.nextId > MaxEvents
        THEN Abort("run-events-exceeded")
        ELSE /\ world' = reduction.world
             /\ steps' = Charge(input)
             /\ menus' = menus \o published
             /\ offered' = offered \o published
             /\ Continue
             /\ UNCHANGED << attempt, summary >>

ScheduleNow(kind, payload) ==
  [op |-> "schedule", at |-> world.time, kind |-> kind, payload |-> payload]

\* One boot input per process, in roster order, at time zero.
BootProcess ==
  /\ phase = "boot"
  /\ queue # << >>
  /\ Apply(ScheduleNow("component", ComponentInput(Head(queue), BootInput)),
           /\ queue' = Tail(queue)
           /\ UNCHANGED << phase, counter >>)
  /\ UNCHANGED drawn

Booted ==
  /\ phase = "boot"
  /\ queue = << >>
  /\ phase' = "loop"
  /\ UNCHANGED << attempt, world, steps, counter, menus, queue, summary,
                  offered, drawn >>

AdvanceWorld ==
  /\ phase = "loop"
  /\ world.pending # << >>
  /\ Apply([op |-> "advance"], UNCHANGED << phase, counter, queue >>)
  /\ UNCHANGED drawn

\* Nothing is pending: the open menus are taken, all of them.
ResolveAll ==
  /\ phase = "loop"
  /\ world.pending = << >>
  /\ menus # << >>
  /\ phase' = "resolve"
  /\ queue' = menus
  /\ menus' = << >>
  /\ UNCHANGED << attempt, world, steps, counter, summary, offered, drawn >>

PathOf(menu) == << menu.component, menu.purpose >>

SelectedChoice(menu, selected) ==
  [form |-> "selected", path |-> PathOf(menu),
   alternatives |-> menu.alternatives, selected |-> selected,
   coordinates |-> Coordinates(PathOf(menu), counter, 0)]

\* The strategy draws one counter, and the selection is scheduled now.
SelectAlternative ==
  /\ phase = "resolve"
  /\ queue # << >>
  /\ LET menu == Head(queue)
     IN  /\ drawn' = drawn \cup {<< attempt, PathOf(menu), counter >>}
         /\ \E selected \in ToSet(menu.alternatives) :
              Apply(ScheduleNow("choice", SelectedChoice(menu, selected)),
                    /\ phase' = "deliver"
                    /\ queue' = << ComponentInput(menu.component, selected) >>
                                \o Tail(queue)
                    /\ counter' = counter + 1)

\* Fault: the selection is recorded, and its owner never hears of it.
SkipDelivery ==
  /\ phase = "deliver"
  /\ phase' = "resolve"
  /\ queue' = Tail(queue)
  /\ UNCHANGED << attempt, world, steps, counter, menus, summary, offered, drawn >>

\* The selected alternative goes back to the component that offered it.
DeliverSelection ==
  /\ phase = "deliver"
  /\ Apply(ScheduleNow("component", Head(queue)),
           /\ phase' = "resolve"
           /\ queue' = Tail(queue)
           /\ UNCHANGED counter)
  /\ UNCHANGED drawn

Resolved ==
  /\ phase = "resolve"
  /\ queue = << >>
  /\ phase' = "loop"
  /\ UNCHANGED << attempt, world, steps, counter, menus, queue, summary,
                  offered, drawn >>

Quiescent == phase = "loop" /\ world.pending = << >> /\ menus = << >>

Explored(signature) ==
  [summary EXCEPT
     !.completed = @ + 1,
     !.signatures = IF signature \in ToSet(@) THEN @ ELSE Append(@, signature)]

\* The facts are judged; a signature of any failure ends the run with the
\* attempt's transcript in the certificate.
EvaluateAttempt ==
  /\ Quiescent
  /\ LET result == Evaluate(world.facts)
     IN  \/ /\ result.code # "ok"
            /\ Abort(result.code)
         \/ /\ result.code = "ok"
            /\ result.signature = EmptySignature
            /\ StartAttempt(NextAttempt("explored"), Explored(result.signature))
         \/ /\ result.code = "ok"
            /\ result.signature # EmptySignature
            /\ phase' = "discovered"
            /\ UNCHANGED << attempt, world, steps, counter, menus, queue,
                            summary, offered >>
  /\ UNCHANGED drawn

Ended == phase \in {"discovered", "exhausted", "all-failed"}

\* The driver has returned.
Returned ==
  /\ Ended
  /\ UNCHANGED vars

Next ==
  \/ BootProcess
  \/ Booted
  \/ AdvanceWorld
  \/ ResolveAll
  \/ SelectAlternative
  \/ DeliverSelection
  \/ Resolved
  \/ EvaluateAttempt
  \/ Returned

\* The driver is one sequential loop that keeps going until it returns.
\* This is WF_vars(Next) with ENABLED written out: a step that changes vars
\* is possible exactly while the run has not ended.
Fairness == []<>Ended \/ []<><<Next>>_vars

Spec == Init /\ [][Next]_vars /\ Fairness

-------------------------------------------------------------------------------
(***************************************************************************)
(* Budgets are exact: an attempt's steps are the inputs on its transcript, *)
(* never more than max-steps, and it never holds more event identifiers    *)
(* than max-events (ADR 0007 D5, run.shen:111-121).                        *)
(***************************************************************************)
BudgetsExact ==
  /\ steps = Len(world.transcript)
  /\ steps <= MaxSteps
  /\ world.nextId <= MaxEvents

(***************************************************************************)
(* No counter is drawn twice in a run, whichever menus the attempts meet   *)
(* and wherever they are aborted ("distinct attempts' counter ranges       *)
(* cannot overlap", run.shen:139-148).                                     *)
(***************************************************************************)
DrawnOnce ==
  /\ \A d, e \in drawn : d # e => d[3] # e[3]
  /\ \A d \in drawn : d[3] \in CounterBase(d[1]) .. CounterBase(d[1] + 1) - 1

\* The menus answered so far, and the inputs that carried the answers back.
Inputs == world.transcript
Selects(input) == input.op = "schedule" /\ input.kind = "choice"
AddSelection(chosen, input) ==
  IF Selects(input) THEN Append(chosen, input) ELSE chosen
SelectionsOf(inputs) == FoldLeft(AddSelection, << >>, inputs)
Selections == SelectionsOf(Inputs)

(***************************************************************************)
(* The menus an attempt publishes are answered in the order they arrived,  *)
(* once each, with one of their own alternatives, and not before they were *)
(* published; at the end of a quiescent attempt none is left open.  The    *)
(* answer goes to the component that offered the menu, directly after it   *)
(* is recorded: "a decision that reached no component would decide         *)
(* nothing" (run.shen:67-90).                                              *)
(***************************************************************************)
MenusAnswered ==
  /\ Len(Selections) <= Len(offered)
  /\ \A i \in DOMAIN Selections :
       /\ Selections[i].payload.path = PathOf(offered[i])
       /\ Selections[i].payload.alternatives = offered[i].alternatives
       /\ Selections[i].payload.selected \in ToSet(offered[i].alternatives)
       /\ Selections[i].at >= offered[i].time
  /\ Quiescent => Len(Selections) = Len(offered)
  /\ \A i \in 1 .. Len(Inputs) - (IF phase = "deliver" THEN 1 ELSE 0) :
       Selects(Inputs[i]) =>
         /\ i < Len(Inputs)
         /\ Inputs[i + 1].op = "schedule"
         /\ Inputs[i + 1].kind = "component"
         /\ Inputs[i + 1].payload = ComponentInput(Inputs[i].payload.path[1],
                                                   Inputs[i].payload.selected)

(***************************************************************************)
(* "The transcript, not the PRNG, is the authority" (run.shen:101-103):    *)
(* the discovered transcript alone, without driver, strategy or streams,   *)
(* leads back to the same world and so to the same failure.                *)
(***************************************************************************)
DiscoveryReplays ==
  phase = "discovered" =>
    /\ Replay(world.transcript) = [world |-> world, error |-> NoError]
    /\ world.streams = InitialWorld.streams
    /\ Evaluate(Replay(world.transcript).world.facts).signature # EmptySignature

\* Every attempt so far is accounted for once, as completed or with its error,
\* and a run that claims exhaustion has judged at least one of them.
AttemptsAccounted ==
  /\ summary.completed + Len(summary.errors) = attempt
  /\ \A i, j \in DOMAIN summary.errors :
       i < j => summary.errors[i].attempt < summary.errors[j].attempt
  /\ phase = "exhausted" => attempt = MaxRuns /\ summary.completed > 0

(***************************************************************************)
(* Every run ends, whatever the processes keep offering: the budgets bound *)
(* what no process is obliged to bound.  It ends with each of its attempts *)
(* accounted for, so "no failure found" is only said of attempts that were *)
(* judged (run.shen:126-134).                                              *)
(***************************************************************************)
RunEnds == <>(Ended /\ AttemptsAccounted)
===============================================================================
