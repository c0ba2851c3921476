----------------------------- MODULE ModelCommon -----------------------------
(***************************************************************************)
(* What the built-in models share (shen/world/models/common.shen): a menu  *)
(* of a set of alternatives in canonical byte order, an error that carries *)
(* no detail; and the packets that a network and its policy speak of, the  *)
(* assignments of declared values to the declared header fields            *)
(* (shen/world/netkat.shen).                                               *)
(***************************************************************************)
EXTENDS Component, Integers, FiniteSets, SequencesExt

CONSTANTS
  Unspecified, \* the detail of an error that gives none
  Vocabulary   \* the values each header field is declared to take

ASSUME VocabularyAssumption ==
  \A field \in DOMAIN Vocabulary : Vocabulary[field] \subseteq Int

HeaderSpace ==
  {p \in [DOMAIN Vocabulary -> UNION {Vocabulary[f] : f \in DOMAIN Vocabulary}] :
     \A f \in DOMAIN Vocabulary : p[f] \in Vocabulary[f]}

Sorted(values) ==
  LET place == [v \in values |-> Cardinality({u \in values : Precedes(u, v)})]
  IN  [i \in 1 .. Cardinality(values) |-> CHOOSE v \in values : place[v] = i - 1]

\* A purpose is published only when there is something to offer.
Choice(purpose, values) ==
  IF values = {} THEN << >>
  ELSE << [purpose |-> purpose, alternatives |-> Sorted(values)] >>

ModelFails(code) == Fails(code, Unspecified)

FactOf(name, value) == [name |-> name, value |-> value]
==============================================================================
