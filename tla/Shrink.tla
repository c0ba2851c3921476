-------------------------------- MODULE Shrink --------------------------------
(***************************************************************************)
(* Transcript minimization (shen/shrink/shrink.shen, SPEC.md 17.1): class  *)
(* by class in the reduction order, an entry at a time from the right, a   *)
(* scheduled entry together with the advance behind it.  A candidate is    *)
(* kept when the oracle finds the same failure in it.                      *)
(*                                                                         *)
(* The oracle (replay and property evaluation) is any pure function: the   *)
(* model answers as it likes, but the same for the same candidate.         *)
(***************************************************************************)
EXTENDS Naturals, Sequences, FiniteSets

CONSTANTS
  Inputs,    \* the reducer inputs of transcripts
  Originals  \* the failing transcripts that are minimized

ASSUME OriginalsAssumption == Originals \subseteq Seq(Inputs)

-------------------------------------------------------------------------------
(* Classification.  About is a choice's purpose, a component's name, or a  *)
(* command's shrink-class tag.                                             *)

Order == << "fault", "perturbation", "delay", "schedule", "external", "scenario" >>
Classes == {Order[i] : i \in DOMAIN Order}

PurposeClass(purpose) ==
  IF purpose \in {"fault", "perturbation", "delay"} THEN purpose ELSE "schedule"

NameClass(name) ==
  CASE name = "fault" -> "fault"
    [] name = "net"   -> "perturbation"
    [] name = "timer" -> "delay"
    [] OTHER -> "scenario"

RecordClass(tag) ==
  IF tag = "untagged" THEN "external"
  ELSE IF tag \in Classes THEN tag ELSE "other"

ScheduleClass(kind, about) ==
  CASE kind = "choice"          -> PurposeClass(about)
    [] kind = "component"       -> NameClass(about)
    [] kind = "command"         -> RecordClass(about)
    [] kind = "property-equals" -> "scenario"
    [] OTHER -> "other"

ClassOf(input) ==
  CASE input.op = "schedule" -> ScheduleClass(input.kind, input.about)
    [] input.op = "advance"  -> "scenario"
    [] OTHER -> "other"

\* Fault: every entry is tried in every class.
IndicesOfAny(sort, entries) == DOMAIN entries

IndicesOf(sort, entries) ==
  {i \in DOMAIN entries : ClassOf(entries[i]) = sort}

-------------------------------------------------------------------------------
(* Candidates.                                                             *)

\* Fault: whatever follows a scheduled entry goes with it.
PairWithAnything(entries, i) ==
  i < Len(entries) /\ entries[i].op = "schedule"

PairSchedule(entries, i) ==
  /\ i < Len(entries)
  /\ entries[i].op = "schedule"
  /\ entries[i + 1].op = "advance"

Without(s, i, count) == SubSeq(s, 1, i - 1) \o SubSeq(s, i + count, Len(s))

\* How many entries are deleted together at i.
Deleted(entries, i) == IF PairSchedule(entries, i) THEN 2 ELSE 1

Candidate(entries, i) == Without(entries, i, Deleted(entries, i))

-------------------------------------------------------------------------------
VARIABLES
  original,   \* the failing transcript given
  transcript, \* what is left of it
  class,      \* position in the order of the class in work
  left,       \* its indices not tried on this transcript, from the right
  kept,       \* history: the positions of the original that are left
  answers,    \* history: what the oracle said of every transcript it saw
  tried       \* history: how often it was asked

vars == << original, transcript, class, left, kept, answers, tried >>

Answers == {"same", "other", "error"}

Accepts(answer) == answer = "same"

Init ==
  /\ original \in Originals
  /\ transcript = original
  /\ class = 1
  /\ left = IndicesOf(Order[1], original)
  /\ kept = [i \in DOMAIN original |-> i]
  /\ answers = [t \in {original} |-> "same"]
  /\ tried = 0

\* Fault: after an acceptance the class goes on to its next index.
LeftAfterNext(candidate) == {j \in left : \E i \in left : j < i}

\* An accepted candidate restarts the class.
LeftAfter(candidate) == IndicesOf(Order[class], candidate)

Accept(i) ==
  /\ transcript' = Candidate(transcript, i)
  /\ left' = LeftAfter(Candidate(transcript, i))
  /\ kept' = Without(kept, i, Deleted(transcript, i))

Reject(i) ==
  /\ left' = left \ {i}
  /\ UNCHANGED << transcript, kept >>

TryCandidate ==
  \E i \in left, answer \in Answers :
    LET candidate == Candidate(transcript, i)
    IN  /\ \A j \in left : j <= i
        /\ candidate \in DOMAIN answers => answer = answers[candidate]
        /\ answers' = [t \in DOMAIN answers \cup {candidate} |->
                         IF t = candidate THEN answer ELSE answers[t]]
        /\ tried' = tried + 1
        /\ \/ Accepts(answer) /\ Accept(i)
           \/ ~Accepts(answer) /\ Reject(i)
        /\ UNCHANGED << original, class >>

Minimized == class > Len(Order)

\* Fault: the last class is never left.
NextClassButLast ==
  /\ class < Len(Order)
  /\ left = {}
  /\ class' = class + 1
  /\ left' = IndicesOf(Order[class + 1], transcript)
  /\ UNCHANGED << original, transcript, kept, answers, tried >>

NextClass ==
  /\ ~Minimized
  /\ left = {}
  /\ class' = class + 1
  /\ left' = IF class = Len(Order) THEN {}
             ELSE IndicesOf(Order[class + 1], transcript)
  /\ UNCHANGED << original, transcript, kept, answers, tried >>

Next == TryCandidate \/ NextClass

\* One sequential function that is called and runs to its end.
Spec == Init /\ [][Next]_vars /\ WF_vars(Next)

-------------------------------------------------------------------------------
TypeOK ==
  /\ class \in 1 .. Len(Order) + 1
  /\ left \subseteq DOMAIN transcript
  /\ DOMAIN kept = DOMAIN transcript
  /\ \A t \in DOMAIN answers : answers[t] \in Answers

(***************************************************************************)
(* At every moment the transcript in hand fails as the original does       *)
(* (SPEC.md 17.1, "accepted only when the same canonical property failure  *)
(* persists"), and it is the original with entries left out: in the same   *)
(* order, none of them changed, none of them from outside the reduction    *)
(* order (shrink.shen:24-33).                                              *)
(***************************************************************************)
FailurePersists ==
  /\ answers[transcript] = "same"
  /\ \A i \in DOMAIN transcript :
       kept[i] \in DOMAIN original /\ transcript[i] = original[kept[i]]
  /\ \A i, j \in DOMAIN kept : i < j => kept[i] < kept[j]
  /\ \A i \in IndicesOf("other", original) : \E j \in DOMAIN kept : kept[j] = i

(***************************************************************************)
(* A class is left only when no deletion it allows is a failure any more:  *)
(* each was asked for, on the transcript as it is then, and refused        *)
(* ("on accept, restart the class", shrink.shen:299-301).                  *)
(***************************************************************************)
Exhausted(c) ==
  \A i \in IndicesOf(Order[c], transcript) :
    /\ Candidate(transcript, i) \in DOMAIN answers
    /\ answers[Candidate(transcript, i)] # "same"

ClassExhausted == [][class' # class => Exhausted(class)]_vars

(***************************************************************************)
(* The restarts cost no more than a square: a transcript of n entries is   *)
(* minimized with n (n + 1) / 2 evaluations at most.                       *)
(***************************************************************************)
EvaluationsBounded == 2 * tried <= Len(original) * (Len(original) + 1)

\* Minimization ends, whatever the oracle says.
ShrinkEnds == <>Minimized
===============================================================================
