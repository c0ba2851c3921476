------------------------------ MODULE Component ------------------------------
(***************************************************************************)
(* The contract between the world kernel and a modeled component           *)
(* (shen/world/component.shen).                                            *)
(*                                                                         *)
(* A component's handler is deterministic code: it gets its own state, a   *)
(* value and the logical time, and it returns a step (a new state, facts,  *)
(* menus of alternatives), returns an error of its own, or raises.  The    *)
(* kernel accepts the whole step or none of it.                            *)
(*                                                                         *)
(* A canonical value is an element of a set; of its encoding the model     *)
(* keeps the order the contract reads (Rank) and whether a structural      *)
(* position of the value names an authority of the kernel (Claiming).      *)
(***************************************************************************)
EXTENDS Naturals, Sequences

CONSTANTS
  Values,     \* everything a handler or a caller can hand to the kernel
  Canonical,  \* the values that encode canonically
  Claiming,   \* the canonical values that claim a reserved authority
  ValidNames, \* canonical symbols that are not reserved authorities
  Rank,       \* position of a value in the canonical byte order
  NameRank,   \* position of a name in the canonical byte order
  Instants,   \* the logical times in use
  Handler(_, _, _, _) \* (name, state, value, time): the handler's raw result

ASSUME ValuesAssumption ==
  /\ Claiming \subseteq Canonical
  /\ Canonical \subseteq Values
  /\ Rank \in [Values -> Nat]
  /\ NameRank \in [ValidNames -> Nat]

ASSUME InstantsAssumption == Instants \subseteq Nat

\* "ok" stands for the code's [ok], which is no symbol.
ASSUME MarkerAssumption == "ok" \notin ValidNames

(***************************************************************************)
(* Shapes: a fact, a menu, and the three results a handler can produce.    *)
(***************************************************************************)
Fact == [name : STRING, value : Values]
Menu == [purpose : STRING, alternatives : Seq(Values)]

Raises       == [type |-> "raise"]
Fails(code, detail) == [type |-> "error", code |-> code, detail |-> detail]
Steps(state, facts, choices) ==
  [type |-> "step", state |-> state, facts |-> facts, choices |-> choices]

\* The strict order every list of the contract ascends in: canonical bytes.
Precedes(a, b)     == Rank[a] < Rank[b]
NamePrecedes(a, b) == NameRank[a] < NameRank[b]

\* The code of the first check of a list that is not "ok".
FirstError(codes) ==
  IF \A i \in DOMAIN codes : codes[i] = "ok"
  THEN "ok"
  ELSE codes[CHOOSE i \in DOMAIN codes :
               /\ codes[i] # "ok"
               /\ \A j \in 1 .. i - 1 : codes[j] = "ok"]

\* Fault: the claim scan is skipped.
CheckEncodingOnly(v, invalid, authority) ==
  IF v \notin Canonical THEN invalid ELSE "ok"

CheckValue(v, invalid, authority) ==
  IF v \notin Canonical THEN invalid
  ELSE IF v \in Claiming THEN authority
  ELSE "ok"

CheckFact(fact) ==
  IF fact.name \notin ValidNames THEN "component-fact-name"
  ELSE CheckValue(fact.value, "component-fact-invalid",
                  "component-fact-authority")

\* The code meets a malformed element in list order; here it comes first.
CheckFacts(facts) ==
  IF facts \notin Seq(Fact) THEN "component-facts-shape"
  ELSE FirstError([i \in 1 .. Len(facts) |-> CheckFact(facts[i])])

\* Alternative i of a menu: a value of its own, strictly after its neighbour.
CheckAlternative(alternatives, i) ==
  LET value == CheckValue(alternatives[i], "component-alternative-invalid",
                          "component-alternative-authority")
  IN  IF /\ value = "ok"
         /\ i > 1
         /\ ~Precedes(alternatives[i - 1], alternatives[i])
      THEN "component-alternative-order"
      ELSE value

CheckAlternatives(alternatives) ==
  IF alternatives = << >> THEN "component-choice-empty"
  ELSE FirstError([i \in 1 .. Len(alternatives) |->
                     CheckAlternative(alternatives, i)])

CheckChoice(choices, i) ==
  IF choices[i].purpose \notin ValidNames THEN "component-choice-purpose"
  ELSE IF i > 1 /\ ~NamePrecedes(choices[i - 1].purpose, choices[i].purpose)
  THEN "component-choice-order"
  ELSE CheckAlternatives(choices[i].alternatives)

CheckChoices(choices) ==
  IF choices \notin Seq(Menu) THEN "component-choices-shape"
  ELSE FirstError([i \in 1 .. Len(choices) |-> CheckChoice(choices, i)])

\* The state is judged first, then the facts, then the menus.
CheckStep(step) ==
  FirstError(<< CheckValue(step.state, "component-state-invalid",
                           "component-state-authority"),
                CheckFacts(step.facts),
                CheckChoices(step.choices) >>)

\* urdr.component.check: a raise, an error of the component's own and a step
\* that breaks the contract all become an error of the run.
Checked(result) ==
  CASE result.type = "raise" ->
         [code |-> "component-step-failed", step |-> result]
    [] result.type = "error" ->
         [code |-> IF result.code \notin ValidNames
                   THEN "component-error-code"
                   ELSE IF result.detail \notin Canonical
                   THEN "component-error-detail"
                   ELSE result.code,
          step |-> result]
    [] OTHER -> [code |-> CheckStep(result), step |-> result]

\* The reducer's sole entry point into a component.
ComponentStep(name, state, value, time) ==
  Checked(Handler(name, state, value, time))
==============================================================================
