------------------------------- MODULE Judgement -------------------------------
(***************************************************************************)
(* The properties of a declaration judged over the worlds of a run.  The   *)
(* evaluator reads the fact log as it is, at whatever moment the driver or *)
(* a replay asks; what it relies on is the order the kernel recorded the   *)
(* facts in.                                                               *)
(***************************************************************************)
EXTENDS World, Verdicts

CONSTANT Declared \* loaded properties, in declaration order

(***************************************************************************)
(* When nothing later can overturn a verdict.  An order or a violation     *)
(* stands once it is seen, a deadline and a window once time is past them, *)
(* an observation point once its instant is over.                          *)
(***************************************************************************)
Settled(p, v, now) ==
  CASE p.form = "never"  -> v.result = "FAIL"
    [] p.form = "before" -> v.witness # NoWitness
    [] p.form = "always-eventually" ->
         v.result = "FAIL" /\ now > v.witness.time + p.window
    [] p.form = "liveness" -> v.witness # NoWitness
    [] p.form = "invariant" ->
         \/ \A k \in DOMAIN p.points : p.points[k].at < now
         \/ v.result = "FAIL" /\ v.witness.time < now

(***************************************************************************)
(* Every world's fact log is a trace the evaluator accepts, and a verdict  *)
(* with its witness is the same however far the run goes on once it is     *)
(* settled, so a run that is cut short, judged late or replayed does not   *)
(* change it; only obligations that time still leaves open can             *)
(* (properties.shen, the trace order of section 1 and the finite-trace     *)
(* semantics of section 5).                                                *)
(***************************************************************************)
VerdictsSettle ==
  [][\A before \in {EvaluateAll(Declared, world.facts)},
        after \in {EvaluateAll(Declared, world'.facts)} :
       /\ after.code = "ok"
       /\ \A k \in DOMAIN Declared :
            Settled(Declared[k], before.verdicts[k], world.time)
              => after.verdicts[k] = before.verdicts[k]]_vars
==============================================================================
