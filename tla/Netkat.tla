-------------------------------- MODULE Netkat --------------------------------
(***************************************************************************)
(* The history-free NetKAT fragment (shen/world/netkat.shen): the policies *)
(* that packets meet, what they make of a packet, and the two questions    *)
(* that are decided by tabulating the declared header space.  A packet set *)
(* is a set here and a list in canonical order in the code; Sorted and     *)
(* FirstOf name the order where it shows.                                  *)
(***************************************************************************)
EXTENDS ModelCommon

CONSTANT MaxTermNodes \* the nodes a policy may have (1024 in the code)

ASSUME NetkatAssumption == MaxTermNodes \in Nat

NkDrop         == [op |-> "drop"]
NkId           == [op |-> "id"]
NkTest(f, v)   == [op |-> "test", field |-> f, value |-> v]
NkSet(f, v)    == [op |-> "set", field |-> f, value |-> v]
NkUnion(a, b)  == [op |-> "union", left |-> a, right |-> b]
NkSeq(a, b)    == [op |-> "seq", left |-> a, right |-> b]
NkStar(a)      == [op |-> "star", of |-> a]
NkNeg(a)       == [op |-> "neg", of |-> a]

FirstOf(packets) == CHOOSE p \in packets : \A q \in packets : ~Precedes(q, p)

-------------------------------------------------------------------------------
(* Validation: the nodes are counted before each is looked at, left first, *)
(* and only a predicate can be negated.                                    *)

Parts(term) ==
  CASE term.op \in {"union", "seq"} -> << term.left, term.right >>
    [] term.op \in {"star", "neg"} -> << term.of >>
    [] OTHER -> << >>

RECURSIVE IsPredicate(_)
IsPredicate(term) ==
  /\ term.op \notin {"set", "star"}
  /\ \A part \in ToSet(Parts(term)) : IsPredicate(part)

Counted(code, nodes) == [code |-> code, nodes |-> nodes]

OwnCode(term) ==
  CASE term.op \notin {"test", "set"} -> "ok"
    [] term.field \notin DOMAIN Vocabulary -> "term-field-unknown"
    [] term.value \notin Vocabulary[term.field] -> "term-value-unknown"
    [] OTHER -> "ok"

RECURSIVE Check(_, _)
Check(term, nodes) ==
  LET Further(before, part) ==
        IF before.code = "ok" THEN Check(part, before.nodes) ELSE before
      parts == FoldLeft(Further, Counted(OwnCode(term), nodes + 1), Parts(term))
  IN  IF nodes >= MaxTermNodes THEN Counted("term-too-large", nodes)
      ELSE IF parts.code = "ok" /\ term.op = "neg" /\ ~IsPredicate(term.of)
      THEN Counted("term-neg-nonpredicate", parts.nodes)
      ELSE parts

TermCheck(term) == Check(term, 0).code

-------------------------------------------------------------------------------
(* Denotation: the packets a policy makes of one packet.  A star is the    *)
(* least fixpoint, reached from the packets that were new in the last      *)
(* round; each round adds one of the declared packets or is the last.      *)

RECURSIVE Eval(_, _), Star(_, _, _)

EvalSet(term, packets) == UNION {Eval(term, p) : p \in packets}

Star(term, reached, frontier) ==
  IF frontier = {} THEN reached
  ELSE LET fresh == EvalSet(term, frontier) \ reached
       IN  Star(term, reached \cup fresh, fresh)

Eval(term, packet) ==
  CASE term.op = "drop" -> {}
    [] term.op = "id" -> {packet}
    [] term.op = "test" -> IF packet[term.field] = term.value THEN {packet} ELSE {}
    [] term.op = "set" -> {[packet EXCEPT ![term.field] = term.value]}
    [] term.op = "union" -> UNION {EvalSet(part, {packet}) : part \in ToSet(Parts(term))}
    [] term.op = "seq" -> EvalSet(term.right, EvalSet(term.left, {packet}))
    [] term.op = "star" -> Star(term.of, {packet}, {packet})
    [] term.op = "neg" -> IF EvalSet(term.of, {packet}) = {} THEN {packet} ELSE {}

-------------------------------------------------------------------------------
(* The decision procedures: the first packet of the space that answers.    *)

Equivalence(a, b) ==
  LET differing == {p \in HeaderSpace : Eval(a, p) # Eval(b, p)}
  IN  IF differing = {} THEN [verdict |-> "equivalent"]
      ELSE [verdict |-> "differs", packet |-> FirstOf(differing)]

\* Fault: what leaves the policy is not put to the egress predicate.
ReachabilityAnywhere(ingress, policy, egress) ==
  LET through  == NkSeq(ingress, policy)
      reaching == {p \in HeaderSpace : Eval(through, p) # {}}
  IN  IF reaching = {} THEN [verdict |-> "unreachable"]
      ELSE LET in == FirstOf(reaching)
           IN  [verdict |-> "reachable", in |-> in,
                out |-> FirstOf(Eval(through, in))]

Reachability(ingress, policy, egress) ==
  LET through  == NkSeq(ingress, NkSeq(policy, egress))
      reaching == {p \in HeaderSpace : Eval(through, p) # {}}
  IN  IF reaching = {} THEN [verdict |-> "unreachable"]
      ELSE LET in == FirstOf(reaching)
           IN  [verdict |-> "reachable", in |-> in,
                out |-> FirstOf(Eval(through, in))]

(***************************************************************************)
(* The reference for the above: what a policy means as a relation between  *)
(* packets.  It is not code; the properties measure the code by it.        *)
(***************************************************************************)
Diagonal(packets) == {<< p, p >> : p \in packets}

Then(r, s) ==
  UNION {{<< a[1], b[2] >> : b \in {b \in s : b[1] = a[2]}} : a \in r}

\* The least relation that holds reached and can be followed by r.
RECURSIVE Closure(_, _)
Closure(reached, r) ==
  LET further == reached \cup Then(reached, r)
  IN  IF further = reached THEN reached ELSE Closure(further, r)

RECURSIVE Meaning(_)
Meaning(term) ==
  LET parts == [i \in DOMAIN Parts(term) |-> Meaning(Parts(term)[i])]
  IN  CASE term.op = "drop" -> {}
        [] term.op = "id" -> Diagonal(HeaderSpace)
        [] term.op = "test" -> Diagonal({p \in HeaderSpace : p[term.field] = term.value})
        [] term.op = "set" -> {<< p, [p EXCEPT ![term.field] = term.value] >> : p \in HeaderSpace}
        [] term.op = "union" -> parts[1] \cup parts[2]
        [] term.op = "seq" -> Then(parts[1], parts[2])
        [] term.op = "star" -> Closure(Diagonal(HeaderSpace), parts[1])
        [] term.op = "neg" ->
             Diagonal({p \in HeaderSpace : \A r \in parts[1] : r[1] # p})
===============================================================================
