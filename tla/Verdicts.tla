------------------------------- MODULE Verdicts -------------------------------
(***************************************************************************)
(* Verdicts over a recorded trace (shen/properties/properties.shen) and    *)
(* the signature of a failure (shen/world/certificate.shen).  A trace is   *)
(* the fact log of a world, taken unchanged; an evaluation is a function   *)
(* of it and of the declared properties, and of nothing else.              *)
(*                                                                         *)
(* A property here is a loaded one.  Values are opaque, so the terms that  *)
(* look inside a value (project, key) and the integer comparisons are left *)
(* out.  Something optional is a sequence of at most one element.          *)
(***************************************************************************)
EXTENDS Component, Integers, SequencesExt

-------------------------------------------------------------------------------
(* The trace.                                                              *)

FactCode(e) ==
  CASE e.component \notin ValidNames -> "properties-trace-entry-component"
    [] e.component \in ValidNames /\ e.name \notin ValidNames ->
         "properties-trace-entry-name"
    [] {e.component, e.name} \subseteq ValidNames ->
         IF e.value \in Canonical THEN "ok" ELSE "properties-trace-entry-value"

\* Facts of one step share their event, so equal pairs are in order.
EntryAfter(d, e) == d.time < e.time \/ (d.time = e.time /\ d.event <= e.event)

TraceCode(es) ==
  FirstError([i \in DOMAIN es |->
    IF FactCode(es[i]) # "ok" THEN FactCode(es[i])
    ELSE IF i > 1 /\ ~EntryAfter(es[i - 1], es[i]) THEN "properties-trace-order"
    ELSE "ok"])

-------------------------------------------------------------------------------
(* Terms, predicates and patterns.  The environment of an evaluation is the *)
(* first n entries of the trace and the value under test, if there is one.  *)

Undefined == << >>

\* The most recent entry of the prefix, of any source or of the named one.
FindFact(t, es, n) ==
  LET named == {i \in 1 .. n : /\ es[i].name = t.name
                               /\ t.op = "fact-of" => es[i].component = t.source}
  IN  IF named = {} THEN Undefined ELSE << es[Max(named)].value >>

EvalTerm(t, es, n, current) ==
  CASE t.op = "this"  -> current
    [] t.op = "const" -> << t.value >>
    [] t.op \in {"fact", "fact-of"} -> FindFact(t, es, n)

\* A missing value makes no comparison true: "ne" is not the negation of "eq".
CompareVals(op, a, b) ==
  /\ a # Undefined /\ b # Undefined
  /\ CASE op = "eq" -> a = b
       [] op = "ne" -> a # b

RECURSIVE EvalPred(_, _, _, _)
EvalPred(p, es, n, current) ==
  CASE p.op = "true"    -> TRUE
    [] p.op = "false"   -> FALSE
    [] p.op = "defined" -> EvalTerm(p.args[1], es, n, current) # Undefined
    [] p.op = "not"     -> ~EvalPred(p.args[1], es, n, current)
    [] p.op = "and"     -> /\ EvalPred(p.args[1], es, n, current)
                           /\ EvalPred(p.args[2], es, n, current)
    [] p.op = "or"      -> \/ EvalPred(p.args[1], es, n, current)
                           \/ EvalPred(p.args[2], es, n, current)
    [] p.op \in {"eq", "ne"} ->
         CompareVals(p.op, EvalTerm(p.args[1], es, n, current),
                           EvalTerm(p.args[2], es, n, current))

\* A pattern may refer to what came before its entry and to nothing after.
Match(pattern, es, i) ==
  /\ es[i].name = pattern.name
  /\ pattern.source \in {<< >>, << es[i].component >>}
  /\ \A k \in DOMAIN pattern.value :
       EvalPred(pattern.value[k], es, i - 1, << es[i].value >>)

Hits(pattern, es) == {i \in DOMAIN es : Match(pattern, es, i)}

-------------------------------------------------------------------------------
(* Results.                                                                *)

NoWitness == [type |-> "no-witness"]
Vacuous   == [type |-> "vacuous"]

EntryWitness(es, i) ==
  [type |-> "entry", index |-> i - 1, event |-> es[i].event, time |-> es[i].time]

\* The failing point, and the last entry it saw.
PointWitness(point, es, n) ==
  [type  |-> "point", id |-> point.id, time |-> point.at,
   index |-> IF n = 0 THEN << >> ELSE << n - 1 >>,
   event |-> IF n = 0 THEN << >> ELSE << es[n].event >>]

Pass(witness) == [result |-> "PASS", witness |-> witness]
Fail(witness) == [result |-> "FAIL", witness |-> witness]

\* How far a scan gets that stops at the first entry past a time.
UpTo(es, at) ==
  LET past == SelectInSeq(es, LAMBDA e : e.time > at)
  IN  IF past = 0 THEN Len(es) ELSE past - 1

\* Fault: a point sees the trace as it stands when it is judged.
WholeTrace(es, at) == Len(es)

\* What a point saw.
RPrefix(es, at) == UpTo(es, at)

\* Points are sorted when loaded, so the witness is the earliest failure.
RunInvariant(p, es) ==
  LET failing == {k \in DOMAIN p.points :
                    ~EvalPred(p.pred, es, RPrefix(es, p.points[k].at), << >>)}
  IN  IF failing = {} THEN Pass(NoWitness)
      ELSE Fail(PointWitness(p.points[Min(failing)], es,
                             RPrefix(es, p.points[Min(failing)].at)))

\* Strong: without a match of either pattern it fails.
RunBefore(p, es) ==
  LET as == Hits(p.first, es)
      bs == Hits(p.then, es)
  IN  CASE bs = {} -> Fail(NoWitness)
        [] bs # {} /\ as = {} -> Fail(EntryWitness(es, Min(bs)))
        [] bs # {} /\ as # {} ->
             IF Min(as) < Min(bs) THEN Pass(EntryWitness(es, Min(as)))
             ELSE Fail(EntryWitness(es, Min(bs)))

\* The scan for a consequent stops at the first entry past the limit.
AeScan(hits, limit, es, i) == \E j \in i + 1 .. UpTo(es, limit) : j \in hits

RunAe(p, es) ==
  LET as    == Hits(p.first, es)
      bs    == Hits(p.then, es)
      unmet == {i \in as : ~AeScan(bs, es[i].time + p.window, es, i)}
  IN  CASE as = {} -> Pass(Vacuous)
        [] as # {} /\ unmet = {} -> Pass(NoWitness)
        [] unmet # {} -> Fail(EntryWitness(es, Min(unmet)))

RunNever(p, es) ==
  LET as == Hits(p.first, es)
  IN  IF as = {} THEN Pass(NoWitness) ELSE Fail(EntryWitness(es, Min(as)))

RunLiveness(p, es) ==
  LET as   == Hits(p.first, es)
      kept == {i \in as : es[i].time <= p.deadline}
  IN  CASE kept # {} -> Pass(EntryWitness(es, Min(kept)))
        [] kept = {} /\ as # {} -> Fail(EntryWitness(es, Min(as)))
        [] as = {} -> Fail(NoWitness)

RunProperty(p, es) ==
  CASE p.form = "invariant" -> RunInvariant(p, es)
    [] p.form = "before"    -> RunBefore(p, es)
    [] p.form = "always-eventually" -> RunAe(p, es)
    [] p.form = "never"     -> RunNever(p, es)
    [] p.form = "liveness"  -> RunLiveness(p, es)

\* The trace is validated once, then every property gets its verdict.
EvaluateAll(properties, es) ==
  IF TraceCode(es) # "ok" THEN [code |-> TraceCode(es), verdicts |-> << >>]
  ELSE [code |-> "ok", verdicts |-> [k \in DOMAIN properties |->
          [property |-> properties[k].id] @@ RunProperty(properties[k], es)]]

\* The digest of a failure is represented by what it digests: the failing
\* verdicts, witnesses included, in declaration order.
FailureSignature(verdicts) == SelectSeq(verdicts, LAMBDA v : v.result = "FAIL")
==============================================================================
