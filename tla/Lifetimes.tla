------------------------------- MODULE Lifetimes -------------------------------
(***************************************************************************)
(* Components of declared kinds in one world, and the lives of the two     *)
(* whose states come and go: deadlines that are armed, fired and           *)
(* cancelled, processes that crash, absorb and restart.                    *)
(***************************************************************************)
EXTENDS World, Timer, Crash

CONSTANTS
  KindOf,     \* the declared kind of each component
  InnerInit,  \* the state a process boots with
  InnerHandler(_, _, _, _) \* the handler a process wraps

ASSUME KindAssumption == KindOf \in [Names -> {"fault", "net", "process", "timer"}]

OfKind(kind) == {n \in Names : KindOf[n] = kind}

\* The kind key of an input, as far as the wrapper listens to it.
ControlOf(input) ==
  IF input.kind \in {"crash", "restart"} THEN input.kind ELSE "none"

ProcessStep(name, state, input, time) ==
  CrashAware(InnerInit[name], state, ControlOf(input),
             InnerHandler(name, state.inner, input, time))

-------------------------------------------------------------------------------
(* What the fact log and the dispatches say.                               *)

Facts == world.facts

FactsBy(name, facts) ==
  {i \in DOMAIN Facts : Facts[i].component = name /\ Facts[i].name \in facts}

LastOf(indices) == CHOOSE i \in indices : \A j \in indices : j <= i

\* The menu of this purpose that a component published last, with its time.
MenusOf(name) ==
  {d \in DOMAIN dispatched :
     /\ dispatched[d].error = NoError
     /\ dispatched[d].event.kind = "component"
     /\ dispatched[d].event.payload.name = name}

LatestMenu(name) ==
  LET choices == dispatched[LastOf(MenusOf(name))].choices
  IN  IF choices = << >> THEN {} ELSE ToSet(choices[1].alternatives)

LatestTime(name) == dispatched[LastOf(MenusOf(name))].event.at

Accepted(name, value, time) ==
  Handler(name, world.states[name], value, time).type = "step"

Settled == world.pending = << >> /\ error = NoError

-------------------------------------------------------------------------------
(***************************************************************************)
(* The life of a process, told by its own facts.  A crash is announced     *)
(* with count zero, every input that arrives before the restart is counted *)
(* one by one and nothing else is heard of the process; a restarted        *)
(* process knows nothing of its former life: its inner state is what it    *)
(* did since (absorption is evidence in the fact log, fault.shen:629-635). *)
(***************************************************************************)
ProcessLifetimes ==
  \A p \in OfKind("process") :
    LET all    == {i \in DOMAIN Facts : Facts[i].component = p}
        Before(i) == {j \in all : j < i}
        crashed(i) == Facts[i].name = "crashed"
        since  == LET restarts == FactsBy(p, {"restarted"})
                  IN  IF restarts = {} THEN all
                      ELSE {i \in all : i > LastOf(restarts)}
    IN  /\ \A i \in all :
             /\ crashed(i) /\ Facts[i].value.absorbed > 0 =>
                  /\ Before(i) # {}
                  /\ crashed(LastOf(Before(i)))
                  /\ Facts[LastOf(Before(i))].value.absorbed
                       = Facts[i].value.absorbed - 1
             /\ Before(i) # {} /\ crashed(LastOf(Before(i))) =>
                  Facts[i].name \in {"crashed", "restarted"}
        /\ world.states[p].inner.did
             = Cardinality({i \in since : Facts[i].name = "did"})
        /\ world.states[p].status = "crashed" <=>
             all # {} /\ crashed(LastOf(all))
        /\ world.states[p].status = "crashed" =>
             world.states[p].absorbed = Facts[LastOf(all)].value.absorbed

(***************************************************************************)
(* Every armed deadline ends once, fired or cancelled, or is still armed;  *)
(* it never fires before its instant, and never again ("a mis-scheduled    *)
(* fire is a run error rather than a silent early timeout",                *)
(* timer.shen:270-273).  The last menu the timer published offers the      *)
(* deadlines that it would have fired at that time.                        *)
(***************************************************************************)
TimersConserved ==
  \A n \in OfKind("timer") :
    LET Of(names, id) == {i \in FactsBy(n, names) : Facts[i].value.id = id}
        armed == world.states[n].deadlines
    IN  /\ \A id \in {Facts[i].value.id : i \in FactsBy(n, {"armed"})} :
             Cardinality(Of({"armed"}, id))
               - Cardinality(Of({"fired", "cancelled"}, id))
               = Cardinality(Named(armed, id))
        /\ \A i \in FactsBy(n, {"fired"}) : Facts[i].value.due <= Facts[i].time
        /\ \A id \in {d.id : d \in armed} : Cardinality(Named(armed, id)) = 1
        /\ error = NoError /\ MenusOf(n) # {} =>
             LatestMenu(n) = {d \in armed : Accepted(n, TimerInput("fire", d.id, 0),
                                                     LatestTime(n))}
===============================================================================
