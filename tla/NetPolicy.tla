------------------------------- MODULE NetPolicy -------------------------------
(***************************************************************************)
(* The policy in force at a network (shen/world/models/net.shen): the      *)
(* NetKAT term that it composes of its topology, then every named          *)
(* reachability mask (shen/world/models/mask.shen), then its baseline.     *)
(***************************************************************************)
EXTENDS NetModel, Netkat

CONSTANT Baseline \* the policy that applies below every mask

\* The union of a list of terms, which drops everything when it is empty.
Unite(terms) ==
  IF terms = << >> THEN NkDrop ELSE FoldRight(NkUnion, Front(terms), Last(terms))

\* The predicate that this field holds one of these addresses.
In(field, addresses) ==
  LET ascending == SetToSortSeq(addresses, <)
  IN  Unite([i \in DOMAIN ascending |-> NkTest(field, ascending[i])])

PartitionTerm(members) ==
  LET Denied(inSrc, inDst) ==
        NkNeg(NkUnion(NkSeq(inSrc, NkNeg(inDst)), NkSeq(NkNeg(inSrc), inDst)))
  IN  Denied(In("src", members), In("dst", members))

DropTerm(members) == NkNeg(NkUnion(In("src", members), In("dst", members)))

MaskTerm(mask) ==
  CASE mask.fault = "partition" -> PartitionTerm(mask.members)
    [] mask.fault = "drop"      -> DropTerm(mask.members)
    [] mask.fault = "delay"     -> NkId

LinkTest(via) ==
  NkSeq(NkTest("src", AddressOf[via[1]]), NkTest("dst", AddressOf[via[2]]))

Topology ==
  LET links == SetToSeq(Links)
  IN  Unite([i \in DOMAIN links |-> LinkTest(links[i])])

Chained(mask, rest) == NkSeq(MaskTerm(mask), rest)

\* The masks in the order of their identifiers.
MaskChain(masks) ==
  LET IsSet(mask) == mask \in masks
  IN  FoldRight(Chained, SelectSeq(Masks, IsSet), NkId)

Composed(masks) == NkSeq(Topology, NkSeq(MaskChain(masks), Baseline))

(***************************************************************************)
(* The code composes, validates and evaluates the policy anew in every     *)
(* step, from the masks of the state alone: it is a function of the masks, *)
(* here a table that TLC fills in once.                                    *)
(***************************************************************************)
PolicyOf(masks) ==
  LET Made(term, code) ==
        [code |-> code,
         made |-> IF code # "ok" THEN << >>
                  ELSE [packet \in HeaderSpace |-> Eval(term, packet)]]
      Judged(baseline, term) ==
        Made(term, IF baseline = "ok" THEN TermCheck(term) ELSE baseline)
  IN  Judged(TermCheck(Baseline), Composed(masks))

ASSUME PoliciesAssumption == Policies = [masks \in SUBSET ToSet(Masks) |-> PolicyOf(masks)]

(***************************************************************************)
(* What the baseline relates each packet to, by the reference meaning of   *)
(* terms.  It is not code; NoCrossing measures what is delivered by it.    *)
(***************************************************************************)
BaselineMeaning ==
  LET meaning == Meaning(Baseline)
  IN  [packet \in HeaderSpace |-> {r[2] : r \in {r \in meaning : r[1] = packet}}]
================================================================================
