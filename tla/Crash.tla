-------------------------------- MODULE Crash --------------------------------
(***************************************************************************)
(* The crash-aware wrapper every process component runs in                 *)
(* (shen/world/models/fault.shen, urdr.model.fault.process).  A crash      *)
(* latches: from then on inputs are absorbed and counted, until a restart  *)
(* boots the process anew.                                                 *)
(***************************************************************************)
EXTENDS Naturals, Sequences

ProcessState(absorbed, inner, status) ==
  [absorbed |-> absorbed, inner |-> inner, status |-> status]

ProcessInitial(inner) == ProcessState(0, inner, "running")

ProcessSteps(state, name, value) ==
  [type |-> "step", state |-> state,
   facts |-> << [name |-> name, value |-> value] >>, choices |-> << >>]

CrashedValue(absorbed) == [absorbed |-> absorbed, status |-> "crashed"]
RestartedValue         == [status |-> "running"]

\* A second crash starts the count anew; the inner state stays behind.
Crashed(state) ==
  ProcessSteps(ProcessState(0, state.inner, "crashed"), "crashed",
               CrashedValue(0))

Absorb(state) ==
  ProcessSteps(ProcessState(state.absorbed + 1, state.inner, "crashed"),
               "crashed", CrashedValue(state.absorbed + 1))

\* Whatever the status: a running process that is restarted starts over.
Restarted(initial) ==
  ProcessSteps(ProcessInitial(initial), "restarted", RestartedValue)

\* The inner handler's result, its state put back into the wrapper's.
ProcessInner(state, result) ==
  IF result.type # "step" THEN result
  ELSE [result EXCEPT !.state = ProcessState(state.absorbed, @, "running")]

\* Fault: a restart resumes with the state from before the crash.
CrashAwareResuming(initial, state, control, handled) ==
  CASE control = "crash"   -> Crashed(state)
    [] control = "restart" -> Restarted(state.inner)
    [] control = "none" /\ state.status = "crashed" -> Absorb(state)
    [] control = "none" /\ state.status = "running" ->
         ProcessInner(state, handled)

\* control is the kind key of the input; handled is what the inner handler
\* makes of it, and of no consequence unless the process runs.
CrashAware(initial, state, control, handled) ==
  CASE control = "crash"   -> Crashed(state)
    [] control = "restart" -> Restarted(initial)
    [] control = "none" /\ state.status = "crashed" -> Absorb(state)
    [] control = "none" /\ state.status = "running" ->
         ProcessInner(state, handled)
===============================================================================
