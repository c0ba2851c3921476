----------------------------- MODULE ShrinkProofs -----------------------------
(***************************************************************************)
(* Minimization keeps the failure and exhausts its classes, for every set  *)
(* of transcripts and every oracle.                                        *)
(***************************************************************************)
EXTENDS Shrink, SequenceTheorems, FiniteSetTheorems, TLAPS

-------------------------------------------------------------------------------
(* Deletion.                                                               *)

(***************************************************************************)
(* Without leaves out count entries at i: what stands before keeps its     *)
(* place, what stands behind moves up.                                     *)
(***************************************************************************)
LEMMA WithoutIs ==
  ASSUME NEW S, NEW s \in Seq(S), NEW i \in 1 .. Len(s), NEW count \in Nat,
         i + count - 1 <= Len(s)
  PROVE  /\ Without(s, i, count) \in Seq(S)
         /\ Len(Without(s, i, count)) = Len(s) - count
         /\ \A j \in 1 .. Len(s) - count :
              Without(s, i, count)[j] = s[IF j < i THEN j ELSE j + count]
<1> DEFINE front == SubSeq(s, 1, i - 1)
           back  == SubSeq(s, i + count, Len(s))
<1>1. front \in Seq(S) /\ Len(front) = i - 1 /\ \A j \in 1 .. i - 1 : front[j] = s[j]
  <2>1. 1 \in Nat /\ i - 1 \in Int /\ 1 <= i
    OBVIOUS
  <2> QED
    BY SubSeqProperties
<1>2. /\ back \in Seq(S)
      /\ Len(back) = Len(s) - count - (i - 1)
      /\ \A j \in 1 .. Len(s) - count - (i - 1) : back[j] = s[j + i - 1 + count]
  <2>1. Len(s) \in Nat
    OBVIOUS
  <2> QED
    BY <2>1, SubSeqProperties
<1> HIDE DEF front, back
<1>3. front \o back \in Seq(S) /\ Len(front \o back) = Len(s) - count
  <2>1. front \o back \in Seq(S) /\ Len(front \o back) = Len(front) + Len(back)
    BY <1>1, <1>2, ConcatProperties
  <2>2. (i - 1) + (Len(s) - count - (i - 1)) = Len(s) - count
    OBVIOUS
  <2> QED
    BY <1>1, <1>2, <2>1, <2>2
<1>4. ASSUME NEW j \in 1 .. Len(s) - count
      PROVE  (front \o back)[j] = s[IF j < i THEN j ELSE j + count]
  <2>1. CASE j < i
    BY <1>1, <1>2, <2>1
  <2>2. CASE ~(j < i)
    <3>1. (front \o back)[j] = back[j - (i - 1)]
      BY <1>1, <1>2, <2>2
    <3>2. j - (i - 1) \in 1 .. Len(s) - count - (i - 1)
      BY <2>2
    <3>3. back[j - (i - 1)] = s[(j - (i - 1)) + i - 1 + count]
      BY <3>2, <1>2
    <3>4. (j - (i - 1)) + i - 1 + count = j + count
      OBVIOUS
    <3> QED
      BY <3>1, <3>3, <3>4, <2>2
  <2> QED
    BY <2>1, <2>2
<1> QED
  BY <1>3, <1>4 DEF Without, front, back

\* One entry is deleted, or two of which the second is an advance.
LEMMA DeletedIs ==
  ASSUME NEW t \in Seq(Inputs), NEW i \in 1 .. Len(t)
  PROVE  /\ Deleted(t, i) \in 1 .. 2
         /\ i + Deleted(t, i) - 1 <= Len(t)
         /\ Deleted(t, i) = 2 => t[i + 1].op = "advance"
BY DEF Deleted, PairSchedule

\* The advance deleted with a scheduled entry is of the scenario class.
LEMMA AdvanceIsScenario ==
  ASSUME NEW input, input.op = "advance"
  PROVE  ClassOf(input) # "other"
BY DEF ClassOf

\* No class in the reduction order is the class of what is left alone.
LEMMA OrderIsReducible ==
  ASSUME NEW c \in 1 .. Len(Order)
  PROVE  Order[c] # "other"
BY DEF Order

-------------------------------------------------------------------------------
(* The inductive invariant.                                                *)

Shapes ==
  /\ original \in Seq(Inputs)
  /\ transcript \in Seq(Inputs)
  /\ kept \in Seq(Nat)
  /\ Len(kept) = Len(transcript)
  /\ class \in 1 .. Len(Order) + 1
  /\ transcript \in DOMAIN answers
  /\ \A t \in DOMAIN answers : answers[t] \in Answers

\* The indices left are of the class in work; those that are not left any
\* more were refused on the transcript as it is.
Work ==
  /\ Minimized => left = {}
  /\ ~Minimized =>
       /\ left \subseteq IndicesOf(Order[class], transcript)
       /\ \A i \in IndicesOf(Order[class], transcript) \ left :
            /\ Candidate(transcript, i) \in DOMAIN answers
            /\ answers[Candidate(transcript, i)] # "same"

IInv == Shapes /\ FailurePersists /\ Work

LEMMA Starts == Init => IInv
<1> SUFFICES ASSUME Init PROVE IInv
  OBVIOUS
<1>1. original \in Seq(Inputs)
  BY OriginalsAssumption DEF Init
<1>2. kept \in Seq(Nat) /\ Len(kept) = Len(original) /\ DOMAIN kept = DOMAIN original
  BY <1>1 DEF Init
<1>3. Shapes
  BY <1>1, <1>2 DEF Init, Shapes, Answers, Order
<1>4. FailurePersists
  BY <1>1, <1>2 DEF Init, FailurePersists, IndicesOf
<1>5. Work
  BY DEF Init, Work, Minimized, Order
<1> QED
  BY <1>3, <1>4, <1>5 DEF IInv

(***************************************************************************)
(* An accepted candidate.  Its entries are those of the original that are  *)
(* left, and what was deleted is of a class that may be reduced.           *)
(***************************************************************************)
LEMMA AcceptKeeps ==
  ASSUME IInv, ~Minimized, NEW i \in left, Accept(i),
         UNCHANGED << original, class >>,
         Candidate(transcript, i) \in DOMAIN answers',
         answers'[Candidate(transcript, i)] = "same",
         \A t \in DOMAIN answers' : answers'[t] \in Answers
  PROVE  IInv'
<1> DEFINE d == Deleted(transcript, i)
           n == Len(transcript) - d
           From(j) == IF j < i THEN j ELSE j + d
<1>1. i \in 1 .. Len(transcript) /\ ClassOf(transcript[i]) = Order[class]
  BY DEF IInv, Shapes, Work, IndicesOf
<1>2. /\ d \in 1 .. 2 /\ i + d - 1 <= Len(transcript)
      /\ d = 2 => transcript[i + 1].op = "advance"
  BY <1>1, DeletedIs DEF IInv, Shapes
<1>3. transcript \in Seq(Inputs) /\ kept \in Seq(Nat) /\ Len(kept) = Len(transcript)
  BY DEF IInv, Shapes
<1>4. transcript' = Without(transcript, i, d) /\ kept' = Without(kept, i, d)
  BY DEF Accept, Candidate
<1> HIDE DEF d
<1>5. /\ transcript' \in Seq(Inputs) /\ Len(transcript') = n
      /\ \A j \in 1 .. n : transcript'[j] = transcript[From(j)]
  <2>1. d \in Nat
    BY <1>2
  <2> QED
    BY <1>1, <1>2, <1>3, <1>4, <2>1, WithoutIs
<1>6. /\ kept' \in Seq(Nat) /\ Len(kept') = n
      /\ \A j \in 1 .. n : kept'[j] = kept[From(j)]
  <2>1. d \in Nat /\ i \in 1 .. Len(kept) /\ i + d - 1 <= Len(kept)
    BY <1>1, <1>2, <1>3
  <2> QED
    BY <1>3, <1>4, <2>1, WithoutIs
<1>7. n \in Nat /\ DOMAIN transcript' = 1 .. n /\ DOMAIN kept' = 1 .. n
  BY <1>2, <1>3, <1>5, <1>6, <1>1
<1>8. \A j \in 1 .. n : From(j) \in 1 .. Len(transcript)
  BY <1>1, <1>2, <1>3, SMTT(40)
<1>9. Shapes'
  <2>1. transcript' \in DOMAIN answers'
    BY DEF Accept
  <2> QED
    BY <1>5, <1>6, <2>1 DEF IInv, Shapes
<1>10. FailurePersists'
  <2>1. answers'[transcript'] = "same"
    BY DEF Accept
  <2>2. ASSUME NEW j \in DOMAIN transcript'
        PROVE  kept'[j] \in DOMAIN original' /\ transcript'[j] = original'[kept'[j]]
    <3>1. From(j) \in DOMAIN transcript
      BY <1>7, <1>8, <1>3
    <3>2. kept[From(j)] \in DOMAIN original
          /\ transcript[From(j)] = original[kept[From(j)]]
      BY <3>1 DEF IInv, FailurePersists
    <3>3. transcript'[j] = transcript[From(j)] /\ kept'[j] = kept[From(j)]
      BY <1>5, <1>6, <1>7
    <3> QED
      BY <3>2, <3>3
  <2>3. ASSUME NEW j \in DOMAIN kept', NEW k \in DOMAIN kept', j < k
        PROVE  kept'[j] < kept'[k]
    <3>1. From(j) \in DOMAIN kept /\ From(k) \in DOMAIN kept
      BY <1>7, <1>8, <1>3
    <3>2. From(j) < From(k)
      BY <1>7, <1>1, <1>2, <2>3
    <3>3. kept[From(j)] < kept[From(k)]
      BY <3>1, <3>2 DEF IInv, FailurePersists
    <3> QED
      BY <3>3, <1>6, <1>7
  <2>4. ASSUME NEW o \in IndicesOf("other", original)
        PROVE  \E j \in DOMAIN kept' : kept'[j] = o
    <3>1. PICK j \in DOMAIN kept : kept[j] = o
      BY DEF IInv, FailurePersists
    <3>2. ClassOf(transcript[j]) = "other" /\ j \in 1 .. Len(transcript)
      <4>1. j \in DOMAIN transcript
        BY <1>3, <3>1
      <4>2. transcript[j] = original[o]
        BY <4>1, <3>1 DEF IInv, FailurePersists
      <4> QED
        BY <4>1, <4>2, <1>3 DEF IndicesOf
    <3>3. j # i
      <4>1. class \in 1 .. Len(Order)
        BY DEF IInv, Shapes, Minimized, Order
      <4> QED
        BY <4>1, <3>2, <1>1, OrderIsReducible
    <3>4. d = 2 => j # i + 1
      BY <1>2, <3>2, AdvanceIsScenario
    <3>5. CASE j < i
      <4>1. j \in 1 .. n /\ From(j) = j
        BY <3>2, <3>5, <1>1, <1>2, <1>3
      <4> QED
        BY <4>1, <1>6, <1>7, <3>1
    <3>6. CASE i < j
      <4>0. j \in Nat /\ i \in Nat /\ d \in {1, 2} /\ Len(transcript) \in Nat
            /\ 1 <= i /\ j <= Len(transcript)
        BY <3>2, <1>1, <1>2, <1>3
      <4>1. j - d \in 1 .. n /\ ~(j - d < i) /\ j - d + d = j
        <5>1. j - d >= i
          BY <4>0, <3>4, <3>6
        <5> QED
          BY <4>0, <5>1
      <4>2. From(j - d) = j
        BY <4>1
      <4> QED
        BY <4>1, <4>2, <1>6, <1>7, <3>1
    <3> QED
      BY <3>2, <3>3, <3>5, <3>6, <1>1
  <2> QED
    BY <2>1, <2>2, <2>3, <2>4 DEF FailurePersists
<1>11. Work'
  <2>1. left' = IndicesOf(Order[class], transcript')
    BY DEF Accept, LeftAfter
  <2> QED
    BY <2>1 DEF Work, Minimized
<1> QED
  BY <1>9, <1>10, <1>11 DEF IInv

(***************************************************************************)
(* A refused candidate.  The transcript stays, its answer does not change  *)
(* (the oracle is a function), and one index more is known to be refused.  *)
(***************************************************************************)
LEMMA RejectKeeps ==
  ASSUME IInv, ~Minimized, NEW i \in left, NEW answer \in Answers,
         Reject(i), UNCHANGED << original, class >>, answer # "same",
         Candidate(transcript, i) \in DOMAIN answers =>
           answer = answers[Candidate(transcript, i)],
         answers' = [t \in DOMAIN answers \cup {Candidate(transcript, i)} |->
                       IF t = Candidate(transcript, i) THEN answer ELSE answers[t]]
  PROVE  IInv'
<1> DEFINE candidate == Candidate(transcript, i)
<1>1. \A t \in DOMAIN answers : t \in DOMAIN answers' /\ answers'[t] = answers[t]
  OBVIOUS
<1>2. candidate \in DOMAIN answers' /\ answers'[candidate] = answer
  OBVIOUS
<1>3. \A t \in DOMAIN answers' : answers'[t] \in Answers
  BY DEF IInv, Shapes
<1> HIDE DEF candidate
<1>4. transcript' = transcript /\ kept' = kept /\ left' = left \ {i}
  BY DEF Reject
<1>5. Shapes'
  BY <1>1, <1>3, <1>4 DEF IInv, Shapes
<1>6. FailurePersists'
  <2>1. answers'[transcript] = "same"
    BY <1>1 DEF IInv, Shapes, FailurePersists
  <2> QED
    BY <2>1, <1>4 DEF IInv, FailurePersists
<1>7. Work'
  <2>1. left' \subseteq IndicesOf(Order[class], transcript)
    BY <1>4 DEF IInv, Work
  <2>2. ASSUME NEW j \in IndicesOf(Order[class], transcript) \ left'
        PROVE  /\ Candidate(transcript, j) \in DOMAIN answers'
               /\ answers'[Candidate(transcript, j)] # "same"
    <3>1. CASE j = i
      BY <3>1, <1>2 DEF candidate
    <3>2. CASE j # i
      <4>1. j \in IndicesOf(Order[class], transcript) \ left
        BY <3>2, <1>4
      <4> QED
        BY <4>1, <1>1 DEF IInv, Work
    <3> QED
      BY <3>1, <3>2
  <2>3. ~Minimized' /\ Order[class'] = Order[class]
    BY DEF Minimized
  <2> QED
    BY <2>1, <2>2, <2>3, <1>4 DEF Work
<1> QED
  BY <1>5, <1>6, <1>7 DEF IInv

LEMMA Continues == IInv /\ [Next]_vars => IInv'
<1> SUFFICES ASSUME IInv, [Next]_vars PROVE IInv'
  OBVIOUS
<1>1. CASE TryCandidate
  <2>1. PICK i \in left, answer \in Answers :
          /\ Candidate(transcript, i) \in DOMAIN answers =>
               answer = answers[Candidate(transcript, i)]
          /\ answers' = [t \in DOMAIN answers \cup {Candidate(transcript, i)} |->
                           IF t = Candidate(transcript, i) THEN answer
                           ELSE answers[t]]
          /\ \/ Accepts(answer) /\ Accept(i)
             \/ ~Accepts(answer) /\ Reject(i)
          /\ UNCHANGED << original, class >>
    BY <1>1 DEF TryCandidate
  <2>2. ~Minimized
    BY <2>1 DEF IInv, Work
  <2>3. CASE Accepts(answer) /\ Accept(i)
    <3>1. answer = "same"
      BY <2>3 DEF Accepts
    <3>2. /\ Candidate(transcript, i) \in DOMAIN answers'
          /\ answers'[Candidate(transcript, i)] = "same"
      BY <2>1, <3>1
    <3>3. \A t \in DOMAIN answers' : answers'[t] \in Answers
      BY <2>1 DEF IInv, Shapes
    <3>4. original' = original /\ class' = class
      BY <2>1
    <3> QED
      BY <2>2, <2>3, <3>2, <3>3, <3>4, AcceptKeeps
  <2>4. CASE ~Accepts(answer) /\ Reject(i)
    <3>1. answer # "same"
      BY <2>4 DEF Accepts
    <3>2. original' = original /\ class' = class
      BY <2>1
    <3> QED
      BY <2>1, <2>2, <2>4, <3>1, <3>2, RejectKeeps
  <2> QED
    BY <2>1, <2>3, <2>4
<1>2. CASE NextClass
  <2>1. /\ class \in 1 .. Len(Order) /\ class' = class + 1
        /\ UNCHANGED << original, transcript, kept, answers >>
    BY <1>2 DEF NextClass, IInv, Shapes, Minimized, Order
  <2>2. Shapes' /\ FailurePersists'
    BY <2>1 DEF IInv, Shapes, FailurePersists, Order
  <2>3. Work'
    <3>1. CASE class = Len(Order)
      BY <1>2, <2>1, <3>1 DEF Work, Minimized, NextClass, Order
    <3>2. CASE class # Len(Order)
      <4>1. left' = IndicesOf(Order[class'], transcript')
        BY <1>2, <2>1, <3>2 DEF NextClass
      <4>2. ~Minimized'
        BY <2>1, <3>2 DEF Minimized, Order
      <4> QED
        BY <4>1, <4>2 DEF Work
    <3> QED
      BY <3>1, <3>2
  <2> QED
    BY <2>2, <2>3 DEF IInv
<1>3. CASE UNCHANGED vars
  <2>1. Shapes' /\ FailurePersists'
    BY <1>3 DEF IInv, Shapes, FailurePersists, vars
  <2>2. Work'
    BY <1>3 DEF IInv, Work, Minimized, vars
  <2> QED
    BY <2>1, <2>2 DEF IInv
<1> QED
  BY <1>1, <1>2, <1>3 DEF Next

(***************************************************************************)
(* The invariant of minimization: every index of the class in work that is *)
(* not waiting was refused on the transcript in hand.                      *)
(***************************************************************************)
THEOREM ShrinkInvariant == Spec => []IInv
<1>1. Init => IInv
  BY Starts
<1>2. IInv /\ [Next]_vars => IInv'
  BY Continues
<1> QED
  BY <1>1, <1>2, PTL DEF Spec

(***************************************************************************)
(* Whatever the oracle says, the transcript in hand fails as the original  *)
(* and is the original with reducible entries left out.                    *)
(***************************************************************************)
THEOREM FailureKept == Spec => []FailurePersists
<1>1. IInv => FailurePersists
  BY DEF IInv
<1> QED
  BY <1>1, ShrinkInvariant, PTL

(***************************************************************************)
(* The types of the minimizer's variables: what is left to try are indices *)
(* of the transcript in hand, and every entry of it has its position in    *)
(* the original.                                                           *)
(***************************************************************************)
THEOREM TypesKept == Spec => []TypeOK
<1>1. ASSUME IInv
      PROVE  TypeOK
  <2>1. /\ class \in 1 .. Len(Order) + 1
        /\ \A t \in DOMAIN answers : answers[t] \in Answers
    BY <1>1 DEF IInv, Shapes
  <2>2. DOMAIN kept = DOMAIN transcript
    BY <1>1 DEF IInv, Shapes
  <2>3. left \subseteq DOMAIN transcript
    BY <1>1 DEF IInv, Work, IndicesOf
  <2> QED
    BY <2>1, <2>2, <2>3 DEF TypeOK
<1> QED
  BY <1>1, ShrinkInvariant, PTL

(***************************************************************************)
(* A class is left only when the oracle has refused every deletion of it   *)
(* on the transcript in hand.                                              *)
(***************************************************************************)
THEOREM ClassesExhausted == Spec => ClassExhausted
<1>1. IInv /\ [Next]_vars => [class' # class => Exhausted(class)]_vars
  <2> SUFFICES ASSUME IInv, Next, class' # class PROVE Exhausted(class)
    OBVIOUS
  <2>1. NextClass
    BY DEF Next, TryCandidate
  <2>2. left = {} /\ ~Minimized
    BY <2>1 DEF NextClass
  <2> QED
    BY <2>2 DEF IInv, Work, Exhausted
<1> QED
  BY <1>1, ShrinkInvariant, PTL DEF Spec, ClassExhausted

-------------------------------------------------------------------------------
(* The cost of minimization.                                               *)

\* The entries whose class has not been left yet, from class position c on.
Todo(c, t) == {j \in DOMAIN t : \E k \in c .. Len(Order) : ClassOf(t[j]) = Order[k]}

(***************************************************************************)
(* With K entries to do, of which some await their first trial, the trials *)
(* so far and the trials to come make no more than a triangle over the     *)
(* original's length: an acceptance costs the K - 1 entries a new trial.   *)
(***************************************************************************)
Waiting == Cardinality(left) + Cardinality(Todo(class + 1, transcript))
Triangle(n) == n * (n + 1)

CostInv ==
  /\ tried \in Nat
  /\ LET todo == Cardinality(Todo(class, transcript))
     IN  2 * tried + Triangle(todo - 1) + 2 * Waiting <= Triangle(Len(original))

\* The sets of indices are finite, and each class is counted once.
LEMMA TodoIs ==
  ASSUME NEW t \in Seq(Inputs), NEW c \in 1 .. Len(Order)
  PROVE  /\ IsFiniteSet(Todo(c, t)) /\ Cardinality(Todo(c, t)) \in Nat
         /\ IsFiniteSet(IndicesOf(Order[c], t))
         /\ IsFiniteSet(Todo(c + 1, t)) /\ Cardinality(Todo(c + 1, t)) \in Nat
         /\ Cardinality(Todo(c, t))
              = Cardinality(IndicesOf(Order[c], t)) + Cardinality(Todo(c + 1, t))
         /\ Cardinality(Todo(c + 1, t)) <= Cardinality(Todo(c, t))
<1>1. DOMAIN t = 1 .. Len(t) /\ IsFiniteSet(DOMAIN t)
  BY FS_Interval
<1>2. Todo(c, t) \subseteq DOMAIN t /\ Todo(c + 1, t) \subseteq DOMAIN t
  BY DEF Todo
<1>3. IndicesOf(Order[c], t) \subseteq DOMAIN t
  BY DEF IndicesOf
<1>4. /\ IsFiniteSet(Todo(c, t)) /\ IsFiniteSet(Todo(c + 1, t))
      /\ IsFiniteSet(IndicesOf(Order[c], t))
  BY <1>1, <1>2, <1>3, FS_Subset
<1>5. Todo(c, t) = IndicesOf(Order[c], t) \cup Todo(c + 1, t)
  <2>1. \A k : k \in c .. Len(Order) <=> k = c \/ k \in c + 1 .. Len(Order)
    BY DEF Order
  <2> QED
    BY <2>1 DEF Todo, IndicesOf
<1>6. IndicesOf(Order[c], t) \cap Todo(c + 1, t) = {}
  <2>1. \A k \in c + 1 .. Len(Order) : Order[k] # Order[c]
    BY DEF Order
  <2> QED
    BY <2>1 DEF Todo, IndicesOf
<1>7. Cardinality({}) = 0
  BY FS_EmptySet
<1>8. /\ Cardinality(Todo(c, t)) \in Nat /\ Cardinality(Todo(c + 1, t)) \in Nat
      /\ Cardinality(IndicesOf(Order[c], t)) \in Nat
  BY <1>4, FS_CardinalityType
<1>9. Cardinality(Todo(c, t))
        = Cardinality(IndicesOf(Order[c], t)) + Cardinality(Todo(c + 1, t)) - 0
  BY <1>4, <1>5, <1>6, <1>7, FS_Union
<1> QED
  BY <1>4, <1>8, <1>9

\* After the last class nothing is to do.
LEMMA NothingTodo ==
  ASSUME NEW t, NEW c \in Nat, c > Len(Order)
  PROVE  Todo(c, t) = {} /\ Cardinality(Todo(c, t)) = 0
<1>1. Todo(c, t) = {}
  BY DEF Todo, Order
<1> QED
  BY <1>1, FS_EmptySet

\* A deletion leaves at least one entry less to do.
LEMMA DeletionCounts ==
  ASSUME NEW t \in Seq(Inputs), NEW c \in 1 .. Len(Order),
         NEW i \in IndicesOf(Order[c], t)
  PROVE  Cardinality(Todo(c, Candidate(t, i))) < Cardinality(Todo(c, t))
<1> DEFINE d == Deleted(t, i)
           u == Candidate(t, i)
           From(j) == IF j < i THEN j ELSE j + d
           f == [j \in Todo(c, u) |-> From(j)]
           rest == Todo(c, t) \ {i}
<1>1. i \in 1 .. Len(t) /\ i \in Todo(c, t)
  <2>1. i \in 1 .. Len(t) /\ ClassOf(t[i]) = Order[c]
    BY DEF IndicesOf
  <2>2. c \in c .. Len(Order)
    BY DEF Order
  <2> QED
    BY <2>1, <2>2 DEF Todo
<1>2. d \in 1 .. 2 /\ i + d - 1 <= Len(t)
  BY <1>1, DeletedIs
<1>3. /\ u \in Seq(Inputs) /\ Len(u) = Len(t) - d
      /\ \A j \in 1 .. Len(t) - d : u[j] = t[From(j)]
  <2>1. d \in Nat
    BY <1>2
  <2>2. u = Without(t, i, d)
    BY DEF Candidate
  <2> HIDE DEF d, u
  <2> QED
    BY <1>1, <1>2, <2>1, <2>2, WithoutIs
<1>4. IsFiniteSet(Todo(c, t)) /\ Cardinality(Todo(c, t)) \in Nat
  BY TodoIs
<1>5. IsFiniteSet(rest) /\ Cardinality(rest) = Cardinality(Todo(c, t)) - 1
  BY <1>1, <1>4, FS_RemoveElement
<1> HIDE DEF d, u
<1>6. f \in Injection(Todo(c, u), rest)
  <2>1. ASSUME NEW j \in Todo(c, u)  PROVE From(j) \in rest
    <3>1. j \in 1 .. Len(t) - d
      BY <1>3 DEF Todo
    <3>2. From(j) \in 1 .. Len(t) /\ From(j) # i
      BY <3>1, <1>1, <1>2
    <3>3. u[j] = t[From(j)]
      BY <3>1, <1>3
    <3>4. PICK k \in c .. Len(Order) : ClassOf(u[j]) = Order[k]
      BY DEF Todo
    <3>5. ClassOf(t[From(j)]) = Order[k] /\ From(j) \in DOMAIN t
      BY <3>2, <3>3, <3>4
    <3> QED
      BY <3>2, <3>5 DEF Todo
  <2>2. ASSUME NEW a \in Todo(c, u), NEW b \in Todo(c, u), From(a) = From(b)
        PROVE  a = b
    <3>1. a \in 1 .. Len(t) - d /\ b \in 1 .. Len(t) - d
      BY <1>3 DEF Todo
    <3> QED
      BY <2>2, <3>1, <1>1, <1>2
  <2>3. f \in [Todo(c, u) -> rest]
    BY <2>1
  <2>4. \A a, b \in Todo(c, u) : f[a] = f[b] => a = b
    BY <2>2
  <2> HIDE DEF f
  <2> QED
    BY <2>3, <2>4 DEF Injection, IsInjective
<1>7. IsFiniteSet(Todo(c, u)) /\ Cardinality(Todo(c, u)) <= Cardinality(rest)
  BY <1>5, <1>6, FS_Injection
<1>8. Cardinality(Todo(c, u)) \in Nat
  BY <1>7, FS_CardinalityType
<1> QED
  BY <1>4, <1>5, <1>7, <1>8 DEF u

\* Triangles grow.
LEMMA TrianglesGrow ==
  ASSUME NEW a \in Int, NEW b \in Nat, a <= b, -1 <= a
  PROVE  Triangle(a) <= Triangle(b) /\ Triangle(a) \in Int /\ Triangle(b) \in Int
<1>1. a * (a + 1) \in Int /\ b * (b + 1) \in Int
  OBVIOUS
<1>2. CASE a = -1
  <2>1. a * (a + 1) = 0 /\ b * (b + 1) >= 0
    BY <1>2
  <2> QED
    BY <1>1, <2>1 DEF Triangle
<1>3. CASE a # -1
  <2>1. a \in Nat
    BY <1>3
  <2>2. a * (a + 1) <= b * (b + 1)
    BY <2>1
  <2> QED
    BY <1>1, <2>2 DEF Triangle
<1> QED
  BY <1>2, <1>3

\* One more entry makes the triangle a row larger.
LEMMA TriangleRow ==
  ASSUME NEW k \in Int
  PROVE  Triangle(k) = Triangle(k - 1) + 2 * k /\ Triangle(k - 1) \in Int
BY DEF Triangle

LEMMA CostStarts == Init => CostInv
<1> SUFFICES ASSUME Init PROVE CostInv
  OBVIOUS
<1> DEFINE todo == Cardinality(Todo(1, original))
<1>1. original \in Seq(Inputs) /\ transcript = original /\ class = 1 /\ tried = 0
      /\ left = IndicesOf(Order[1], original)
  BY OriginalsAssumption DEF Init
<1>2. 1 \in 1 .. Len(Order)
  BY DEF Order
<1>3. todo = Cardinality(left) + Cardinality(Todo(1 + 1, original)) /\ todo \in Nat
  BY <1>1, <1>2, TodoIs
<1>4. Waiting = todo
  BY <1>1, <1>3 DEF Waiting
<1>5. todo <= Len(original)
  <2>1. Todo(1, original) \subseteq 1 .. Len(original) /\ Len(original) \in Nat
    BY <1>1 DEF Todo
  <2>2. /\ IsFiniteSet(1 .. Len(original))
        /\ Cardinality(1 .. Len(original)) = Len(original)
    <3>1. 1 \in Int /\ Len(original) \in Int
      BY <2>1
    <3>2. /\ IsFiniteSet(1 .. Len(original))
          /\ Cardinality(1 .. Len(original))
               = IF 1 > Len(original) THEN 0 ELSE Len(original) - 1 + 1
      BY <3>1, FS_Interval
    <3>3. (IF 1 > Len(original) THEN 0 ELSE Len(original) - 1 + 1) = Len(original)
      BY <2>1
    <3> QED
      BY <3>2, <3>3
  <2> QED
    BY <2>1, <2>2, FS_Subset
<1>6. Triangle(todo) <= Triangle(Len(original))
  <2>1. Len(original) \in Nat /\ todo \in Int /\ -1 <= todo
    BY <1>1, <1>3
  <2> QED
    BY <2>1, <1>5, TrianglesGrow
<1>7. Triangle(todo - 1) + 2 * todo = Triangle(todo) /\ Triangle(todo - 1) \in Int
  BY <1>3, TriangleRow
<1>8. 2 * tried + Triangle(todo - 1) + 2 * Waiting <= Triangle(Len(original))
  <2>1. 2 * tried = 0
    BY <1>1
  <2> QED
    BY <2>1, <1>3, <1>4, <1>6, <1>7
<1> QED
  BY <1>1, <1>8 DEF CostInv

(***************************************************************************)
(* An accepted trial: the entries to do get fewer, and all of them wait    *)
(* again; their number is the row that the triangle lost.                  *)
(***************************************************************************)
LEMMA CostOfAcceptance ==
  ASSUME IInv, CostInv, ~Minimized, NEW i \in left, Accept(i),
         UNCHANGED << original, class >>, tried' = tried + 1
  PROVE  CostInv'
<1> DEFINE u    == Candidate(transcript, i)
           K    == Cardinality(Todo(class, transcript))
           M    == Cardinality(Todo(class, u))
           L    == Cardinality(left)
           R    == Cardinality(Todo(class + 1, transcript))
<1>1. class \in 1 .. Len(Order) /\ transcript \in Seq(Inputs)
  BY DEF IInv, Shapes, Minimized, Order
<1>2. i \in IndicesOf(Order[class], transcript)
      /\ left \subseteq IndicesOf(Order[class], transcript)
  BY DEF IInv, Work
<1>3. u \in Seq(Inputs)
  <2>1. i \in 1 .. Len(transcript)
    BY <1>1, <1>2 DEF IndicesOf
  <2>2. Deleted(transcript, i) \in Nat /\ i + Deleted(transcript, i) - 1 <= Len(transcript)
    BY <2>1, <1>1, DeletedIs
  <2> QED
    BY <2>1, <2>2, <1>1, WithoutIs DEF Candidate
<1>4. M < K /\ K \in Nat /\ M \in Nat
  BY <1>1, <1>2, <1>3, DeletionCounts, TodoIs
<1>5. L \in Nat /\ 1 <= L /\ R \in Nat
  <2>1. IsFiniteSet(IndicesOf(Order[class], transcript)) /\ R \in Nat
    BY <1>1, TodoIs
  <2>2. IsFiniteSet(left)
    BY <2>1, <1>2, FS_Subset
  <2>3. L \in Nat /\ L # 0
    BY <2>2, FS_CardinalityType, FS_EmptySet
  <2> QED
    BY <2>1, <2>3
<1>6. transcript' = u /\ left' = IndicesOf(Order[class], u)
  BY DEF Accept, LeftAfter
<1>7. Waiting' = M
  BY <1>1, <1>3, <1>6, TodoIs DEF Waiting
<1> HIDE DEF u, K, M, L, R
<1>8. Triangle(M) <= Triangle(K - 1) /\ Triangle(K - 1) \in Int
  <2>1. K - 1 \in Nat /\ M <= K - 1 /\ M \in Int /\ -1 <= M
    BY <1>4
  <2> QED
    BY <2>1, TrianglesGrow
<1>9. Triangle(M) = Triangle(M - 1) + 2 * M /\ Triangle(M - 1) \in Int
  BY <1>4, TriangleRow
<1>10. 2 * tried + Triangle(K - 1) + 2 * (L + R) <= Triangle(Len(original))
       /\ tried \in Nat
  BY DEF CostInv, Waiting, K, L, R
<1>11. Triangle(Len(original)) \in Int
  <2>1. Len(original) \in Nat
    BY DEF IInv, Shapes
  <2> QED
    BY <2>1 DEF Triangle
<1>12. 2 * (tried + 1) + Triangle(M - 1) + 2 * M <= Triangle(Len(original))
  BY <1>4, <1>5, <1>8, <1>9, <1>10, <1>11
<1>13. Cardinality(Todo(class, transcript))' = M
  BY <1>6 DEF M
<1> QED
  BY <1>7, <1>10, <1>12, <1>13 DEF CostInv

\* A refused trial: one entry less waits.
LEMMA CostOfRefusal ==
  ASSUME IInv, CostInv, ~Minimized, NEW i \in left, Reject(i),
         UNCHANGED << original, class >>, tried' = tried + 1
  PROVE  CostInv'
<1> DEFINE K == Cardinality(Todo(class, transcript))
           L == Cardinality(left)
           R == Cardinality(Todo(class + 1, transcript))
<1>1. class \in 1 .. Len(Order) /\ transcript \in Seq(Inputs)
  BY DEF IInv, Shapes, Minimized, Order
<1>2. left \subseteq IndicesOf(Order[class], transcript)
  BY DEF IInv, Work
<1>3. /\ IsFiniteSet(IndicesOf(Order[class], transcript))
      /\ R \in Nat /\ K \in Nat
  BY <1>1, TodoIs
<1>4. IsFiniteSet(left)
  BY <1>2, <1>3, FS_Subset
<1>5. L \in Nat /\ Cardinality(left') = L - 1
  BY <1>4, FS_CardinalityType, FS_RemoveElement DEF Reject
<1>6. transcript' = transcript
  BY DEF Reject
<1>7. Waiting' = L - 1 + R
  BY <1>5, <1>6 DEF Waiting
<1> HIDE DEF K, L, R
<1>8. 2 * tried + Triangle(K - 1) + 2 * (L + R) <= Triangle(Len(original))
      /\ tried \in Nat
  BY DEF CostInv, Waiting, K, L, R
<1>9. Triangle(K - 1) \in Int /\ Triangle(Len(original)) \in Int
  <2>1. Len(original) \in Nat
    BY DEF IInv, Shapes
  <2> QED
    BY <2>1, <1>3 DEF Triangle
<1>10. 2 * (tried + 1) + Triangle(K - 1) + 2 * (L - 1 + R) <= Triangle(Len(original))
  BY <1>3, <1>5, <1>8, <1>9
<1>11. Cardinality(Todo(class, transcript))' = K
  BY <1>6 DEF K
<1> QED
  BY <1>7, <1>8, <1>10, <1>11 DEF CostInv

\* The next class: what it has to do was waiting behind the last one.
LEMMA CostOfNextClass ==
  ASSUME IInv, CostInv, NextClass
  PROVE  CostInv'
<1> DEFINE K == Cardinality(Todo(class, transcript))
           R == Cardinality(Todo(class + 1, transcript))
<1>1. class \in 1 .. Len(Order) /\ transcript \in Seq(Inputs) /\ left = {}
  BY DEF NextClass, IInv, Shapes, Minimized, Order
<1>2. K \in Nat /\ R \in Nat /\ R <= K
  BY <1>1, TodoIs
<1>3. /\ transcript' = transcript /\ class' = class + 1
      /\ tried' = tried /\ original' = original
  BY DEF NextClass
<1>4. Cardinality({}) = 0
  BY FS_EmptySet
<1>5. Waiting = R
  BY <1>1, <1>2, <1>4 DEF Waiting
<1>6. Waiting' = R
  <2>1. CASE class = Len(Order)
    <3>1. left' = {}
      BY <2>1 DEF NextClass
    <3>2. R = 0 /\ Cardinality(Todo(class + 2, transcript)) = 0
      <4>1. class + 1 \in Nat /\ class + 1 > Len(Order)
            /\ class + 2 \in Nat /\ class + 2 > Len(Order)
        BY <2>1 DEF Order
      <4> QED
        BY <4>1, NothingTodo
    <3>3. class' + 1 = class + 2
      BY <1>1, <1>3
    <3> QED
      BY <3>1, <3>2, <3>3, <1>3, <1>4 DEF Waiting
  <2>2. CASE class # Len(Order)
    <3>1. left' = IndicesOf(Order[class + 1], transcript)
      BY <2>2 DEF NextClass
    <3>2. class + 1 \in 1 .. Len(Order)
      BY <2>2, <1>1 DEF Order
    <3> QED
      BY <3>1, <3>2, <1>1, <1>3, TodoIs DEF Waiting
  <2> QED
    BY <2>1, <2>2
<1>7. Cardinality(Todo(class, transcript))' = R
  BY <1>3
<1> HIDE DEF K, R
<1>8. 2 * tried + Triangle(K - 1) + 2 * R <= Triangle(Len(original)) /\ tried \in Nat
  BY <1>5 DEF CostInv, K
<1>9. Triangle(R - 1) <= Triangle(K - 1)
      /\ Triangle(R - 1) \in Int /\ Triangle(K - 1) \in Int
  <2>1. CASE K = 0
    BY <2>1, <1>2 DEF Triangle
  <2>2. CASE K # 0
    <3>1. K - 1 \in Nat /\ R - 1 \in Int /\ R - 1 <= K - 1 /\ -1 <= R - 1
      BY <2>2, <1>2
    <3> QED
      BY <3>1, TrianglesGrow
  <2> QED
    BY <2>1, <2>2
<1>10. Triangle(Len(original)) \in Int
  <2>1. Len(original) \in Nat
    BY DEF IInv, Shapes
  <2> QED
    BY <2>1 DEF Triangle
<1>11. 2 * tried + Triangle(R - 1) + 2 * R <= Triangle(Len(original))
  BY <1>2, <1>8, <1>9, <1>10
<1> QED
  BY <1>3, <1>6, <1>7, <1>8, <1>11 DEF CostInv

LEMMA CostContinues == IInv /\ CostInv /\ [Next]_vars => CostInv'
<1> SUFFICES ASSUME IInv, CostInv, [Next]_vars PROVE CostInv'
  OBVIOUS
<1>1. CASE TryCandidate
  <2>1. PICK i \in left, answer \in Answers :
          /\ \/ Accepts(answer) /\ Accept(i)
             \/ ~Accepts(answer) /\ Reject(i)
          /\ tried' = tried + 1
          /\ UNCHANGED << original, class >>
    BY <1>1 DEF TryCandidate
  <2>2. ~Minimized /\ original' = original /\ class' = class
    BY <2>1 DEF IInv, Work
  <2>3. CASE Accept(i)
    BY <2>1, <2>2, <2>3, CostOfAcceptance
  <2>4. CASE Reject(i)
    BY <2>1, <2>2, <2>4, CostOfRefusal
  <2> QED
    BY <2>1, <2>3, <2>4
<1>2. CASE NextClass
  BY <1>2, CostOfNextClass
<1>3. CASE UNCHANGED vars
  BY <1>3 DEF CostInv, Waiting, vars
<1> QED
  BY <1>1, <1>2, <1>3 DEF Next

(***************************************************************************)
(* Minimizing n entries takes n (n + 1) / 2 evaluations at most, whatever  *)
(* is accepted: each evaluation is a full replay and property evaluation.  *)
(***************************************************************************)
THEOREM EvaluationsAreBounded == Spec => []EvaluationsBounded
<1>1. Init => CostInv
  BY CostStarts
<1>2. IInv /\ IInv' /\ CostInv /\ [Next]_vars => CostInv'
  BY CostContinues
<1>3. IInv /\ CostInv => EvaluationsBounded
  <2> SUFFICES ASSUME IInv, CostInv PROVE EvaluationsBounded
    OBVIOUS
  <2> DEFINE K == Cardinality(Todo(class, transcript))
  <2>1. class \in 1 .. Len(Order) + 1 /\ transcript \in Seq(Inputs) /\ Len(Order) \in Nat
        /\ Len(original) \in Nat
    BY DEF IInv, Shapes, Order
  <2>2. K \in Nat
    <3>1. CASE class \in 1 .. Len(Order)
      BY <2>1, <3>1, TodoIs
    <3>2. CASE class = Len(Order) + 1
      <4>1. class \in Nat /\ class > Len(Order)
        BY <2>1, <3>2
      <4> QED
        BY <4>1, NothingTodo
    <3> QED
      BY <2>1, <3>1, <3>2
  <2>3. Waiting \in Nat
    <3>1. CASE class \in 1 .. Len(Order)
      <4>1. IsFiniteSet(IndicesOf(Order[class], transcript))
            /\ Cardinality(Todo(class + 1, transcript)) \in Nat
        BY <2>1, <3>1, TodoIs
      <4>2. left \subseteq IndicesOf(Order[class], transcript)
        BY <2>1, <3>1 DEF IInv, Work, Minimized
      <4>3. Cardinality(left) \in Nat
        BY <4>1, <4>2, FS_Subset, FS_CardinalityType
      <4> QED
        BY <4>1, <4>3 DEF Waiting
    <3>2. CASE class = Len(Order) + 1
      <4>1. left = {}
        BY <3>2, <2>1 DEF IInv, Work, Minimized
      <4>2. class + 1 \in Nat /\ class + 1 > Len(Order)
        BY <2>1, <3>2
      <4>3. Cardinality(Todo(class + 1, transcript)) = 0
        BY <4>2, NothingTodo
      <4>4. Cardinality({}) = 0
        BY FS_EmptySet
      <4> QED
        BY <4>1, <4>3, <4>4 DEF Waiting
    <3> QED
      BY <2>1, <3>1, <3>2
  <2>4. 2 * tried + Triangle(K - 1) + 2 * Waiting <= Triangle(Len(original))
        /\ tried \in Nat
    BY DEF CostInv
  <2> HIDE DEF K
  <2>5. 0 <= Triangle(K - 1) /\ Triangle(K - 1) \in Int
    <3>1. (K - 1) * K \in Int /\ 0 <= (K - 1) * K /\ (K - 1) + 1 = K
      BY <2>2
    <3> QED
      BY <3>1 DEF Triangle
  <2>6. Triangle(Len(original)) = Len(original) * (Len(original) + 1)
        /\ Triangle(Len(original)) \in Int
    BY <2>1 DEF Triangle
  <2>7. 2 * tried <= Triangle(Len(original))
    BY <2>3, <2>4, <2>5, <2>6
  <2> QED
    BY <2>6, <2>7 DEF EvaluationsBounded
<1> QED
  BY <1>1, <1>2, <1>3, ShrinkInvariant, PTL DEF Spec
===============================================================================
