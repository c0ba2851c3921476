----------------------------- MODULE ReducerProofs -----------------------------
(***************************************************************************)
(* Lemmas about the kernel as a function: what one reduction does to the   *)
(* queue, the identifiers and the transcript of a world, for every         *)
(* registry, route table, handler and cascade limit.  The theorems about   *)
(* the kernel and about the driver rest on them.                           *)
(***************************************************************************)
EXTENDS Reducer, FiniteSetTheorems, WellFoundedInduction, TLAPS

-------------------------------------------------------------------------------
(* Sets of natural numbers.  They are stated with sets instead of          *)
(* predicates, so that a step can apply them to a set comprehension.       *)

(***************************************************************************)
(* A nonempty set of natural numbers has a least element: the intervals    *)
(* 0 .. x are finite sets, which strict inclusion orders well.             *)
(***************************************************************************)
LEMMA LeastElement ==
  ASSUME NEW T, T \subseteq Nat, T # {}
  PROVE  \E x \in T : \A y \in T : x <= y
<1> DEFINE U == {0 .. x : x \in T}
<1>1. U \subseteq FiniteSubsetsOf(Nat)
  <2>1. ASSUME NEW x \in T  PROVE 0 .. x \in FiniteSubsetsOf(Nat)
    <3>1. x \in Nat
      OBVIOUS
    <3>2. IsFiniteSet(0 .. x)
      BY <3>1, FS_Interval
    <3>3. 0 .. x \subseteq Nat
      BY <3>1
    <3> QED
      BY <3>2, <3>3 DEF FiniteSubsetsOf
  <2> QED
    BY <2>1
<1>2. U # {}
  OBVIOUS
<1> HIDE DEF U
<1>3. PICK u \in U : \A v \in U : << v, u >> \notin StrictSubsetOrdering(Nat)
  BY <1>1, <1>2, WFMin, FS_StrictSubsetOrderingWellFounded
<1>4. PICK x \in T : u = 0 .. x
  BY DEF U
<1>5. ASSUME NEW y \in T, y < x  PROVE FALSE
  <2>1. 0 .. y \in U
    BY DEF U
  <2>2. x \in 0 .. x /\ x \notin 0 .. y
    BY <1>5
  <2>3. 0 .. y \subseteq 0 .. x /\ 0 .. y # 0 .. x
    BY <1>5, <2>2
  <2>4. << 0 .. y, 0 .. x >> \in StrictSubsetOrdering(Nat)
    BY <2>3 DEF StrictSubsetOrdering
  <2> QED
    BY <2>1, <2>4, <1>3, <1>4
<1> QED
  BY <1>5

(***************************************************************************)
(* An initial segment: a set of positions 1 .. n that is closed downwards  *)
(* is the interval up to some k.                                           *)
(***************************************************************************)
LEMMA InitialSegment ==
  ASSUME NEW n \in Nat, NEW S, S \subseteq 1 .. n,
         \A i \in S : \A j \in 1 .. i : j \in S
  PROVE  \E k \in 0 .. n : S = 1 .. k
<1> DEFINE T == (1 .. n + 1) \ S
<1>1. T \subseteq Nat /\ T # {}
  <2>1. n + 1 \in T
    OBVIOUS
  <2> QED
    BY <2>1
<1>2. PICK x \in T : \A y \in T : x <= y
  BY <1>1, LeastElement
<1>3. S \subseteq 1 .. x - 1
  <2>1. ASSUME NEW i \in S, i >= x  PROVE FALSE
    <3>1. x \in 1 .. i
      BY <2>1
    <3> QED
      BY <3>1
  <2> QED
    BY <2>1
<1>4. 1 .. x - 1 \subseteq S
  BY <1>2
<1>5. x - 1 \in 0 .. n
  OBVIOUS
<1> QED
  BY <1>3, <1>4, <1>5

-------------------------------------------------------------------------------
(***************************************************************************)
(* What the proofs need to know about a queue of events: it is a sequence, *)
(* its elements have a time and an identifier, and it ascends strictly.    *)
(***************************************************************************)
IsSeq(s) == \E S : s \in Seq(S)

Queue(q) ==
  /\ IsSeq(q)
  /\ \A i \in 1 .. Len(q) : q[i].id \in Nat /\ q[i].at \in Nat

Ordered(q) == \A i, j \in 1 .. Len(q) : i < j => EventBefore(q[i], q[j])

(***************************************************************************)
(* A function on 1 .. n is a sequence of length n.                         *)
(***************************************************************************)
LEMMA FunctionIsSeq ==
  ASSUME NEW n \in Nat, NEW f, f = [i \in 1 .. n |-> f[i]]
  PROVE  IsSeq(f) /\ Len(f) = n
<1> DEFINE S == {f[i] : i \in 1 .. n}
<1>1. f \in [1 .. n -> S]
  OBVIOUS
<1>2. f \in Seq(S) /\ Len(f) = n
  BY <1>1
<1> QED
  BY <1>2 DEF IsSeq

LEMMA SeqIsFunction ==
  ASSUME NEW s, IsSeq(s)
  PROVE  /\ Len(s) \in Nat
         /\ DOMAIN s = 1 .. Len(s)
         /\ s = [i \in 1 .. Len(s) |-> s[i]]
<1>1. PICK S : s \in Seq(S)
  BY DEF IsSeq
<1> QED
  BY <1>1

LEMMA TailIsSeq ==
  ASSUME NEW s, IsSeq(s), s # << >>
  PROVE  /\ Len(s) > 0
         /\ Head(s) = s[1]
         /\ IsSeq(Tail(s))
         /\ Len(Tail(s)) = Len(s) - 1
         /\ \A i \in 1 .. Len(s) - 1 : Tail(s)[i] = s[i + 1]
<1>1. PICK S : s \in Seq(S)
  BY DEF IsSeq
<1>2. Tail(s) \in Seq(S)
  BY <1>1
<1> QED
  BY <1>1, <1>2 DEF IsSeq

\* An event around the current time with an older identifier comes first.
LEMMA OlderComesFirst ==
  ASSUME NEW d, d.at \in Nat, d.id \in Nat, NEW e, e.at \in Nat, e.id \in Nat,
         NEW t \in Nat, d.at <= t, t <= e.at, NEW n \in Nat, d.id < n, n <= e.id
  PROVE  EventBefore(d, e)
BY DEF EventBefore

LEMMA AppendIsSeq ==
  ASSUME NEW s, IsSeq(s), NEW x
  PROVE  /\ IsSeq(Append(s, x))
         /\ Len(Append(s, x)) = Len(s) + 1
         /\ \A i \in 1 .. Len(s) : Append(s, x)[i] = s[i]
         /\ Append(s, x)[Len(s) + 1] = x
<1>1. PICK S : s \in Seq(S)
  BY DEF IsSeq
<1>2. s \in Seq(S \cup {x}) /\ x \in S \cup {x}
  BY <1>1
<1>3. Append(s, x) \in Seq(S \cup {x})
  BY <1>2
<1> QED
  BY <1>2, <1>3 DEF IsSeq

LEMMA ConcatIsSeq ==
  ASSUME NEW s, IsSeq(s), NEW t, IsSeq(t), NEW u, u = s \o t
  PROVE  /\ IsSeq(u)
         /\ Len(u) = Len(s) + Len(t)
         /\ \A i \in 1 .. Len(s) : u[i] = s[i]
         /\ \A i \in 1 .. Len(t) : u[Len(s) + i] = t[i]
<1>1. PICK S : s \in Seq(S)
  BY DEF IsSeq
<1>2. PICK T : t \in Seq(T)
  BY DEF IsSeq
<1>3. s \in Seq(S \cup T) /\ t \in Seq(S \cup T)
  BY <1>1, <1>2
<1>4. u \in Seq(S \cup T)
  BY <1>3
<1> QED
  BY <1>3, <1>4 DEF IsSeq

(***************************************************************************)
(* A list of codes without an error has no element other than "ok".        *)
(***************************************************************************)
LEMMA FirstErrorOk ==
  ASSUME NEW codes, NEW n \in Nat, DOMAIN codes = 1 .. n,
         FirstError(codes) = "ok"
  PROVE  \A i \in 1 .. n : codes[i] = "ok"
<1> DEFINE T == {i \in 1 .. n : codes[i] # "ok"}
<1>1. ASSUME T # {}  PROVE FALSE
  <2>1. T \subseteq Nat
    OBVIOUS
  <2>2. PICK x \in T : \A y \in T : x <= y
    BY <1>1, <2>1, LeastElement
  <2>3. /\ codes[x] # "ok"
        /\ \A j \in 1 .. x - 1 : codes[j] = "ok"
    <3>1. ASSUME NEW j \in 1 .. x - 1, codes[j] # "ok"  PROVE FALSE
      <4>1. j \in T
        BY <3>1
      <4> QED
        BY <2>2, <4>1
    <3> QED
      BY <3>1
  <2>4. \E i \in DOMAIN codes : /\ codes[i] # "ok"
                                /\ \A j \in 1 .. i - 1 : codes[j] = "ok"
    BY <2>3
  <2> DEFINE first == CHOOSE i \in DOMAIN codes :
                         /\ codes[i] # "ok"
                         /\ \A j \in 1 .. i - 1 : codes[j] = "ok"
  <2>5. codes[first] # "ok"
    BY <2>4
  <2>6. FirstError(codes) = codes[first]
    BY <2>3 DEF FirstError
  <2> QED
    BY <2>5, <2>6
<1> QED
  BY <1>1

(***************************************************************************)
(* Inserting an event whose key no queued event has keeps the queue in     *)
(* order and adds exactly that event.                                      *)
(***************************************************************************)
LEMMA InsertEventLen ==
  ASSUME NEW q, IsSeq(q), NEW e
  PROVE  /\ IsSeq(InsertEvent(e, q))
         /\ Len(InsertEvent(e, q)) = Len(q) + 1
<1> DEFINE r == InsertEvent(e, q)
<1>1. PICK S : q \in Seq(S)
  BY DEF IsSeq
<1>2. Len(q) \in Nat /\ q \in [1 .. Len(q) -> S]
  BY <1>1
<1>3. r \in [1 .. Len(q) + 1 -> S \cup {e}]
  BY <1>2 DEF InsertEvent
<1>4. r \in Seq(S \cup {e}) /\ Len(r) = Len(q) + 1
  BY <1>2, <1>3
<1> QED
  BY <1>4 DEF IsSeq

LEMMA InsertEventOrdered ==
  ASSUME NEW q, Queue(q), Ordered(q), NEW e,
         e.id \in Nat, e.at \in Nat,
         \A i \in 1 .. Len(q) : q[i].id < e.id
  PROVE  /\ Queue(InsertEvent(e, q))
         /\ Ordered(InsertEvent(e, q))
         /\ ToSet(InsertEvent(e, q)) = ToSet(q) \cup {e}
<1> DEFINE r == InsertEvent(e, q)
           n == Len(q)
<1>1. n \in Nat /\ IsSeq(r) /\ Len(r) = n + 1
  <2>1. PICK S : q \in Seq(S)
    BY DEF IsSeq, Queue
  <2> QED
    BY <2>1, InsertEventLen DEF Queue
<1>2. \A i \in 1 .. n + 1 :
        r[i] = IF i <= n /\ ~EventBefore(e, q[i]) THEN q[i]
               ELSE IF i = 1 \/ ~EventBefore(e, q[i - 1]) THEN e
               ELSE q[i - 1]
  BY <1>1 DEF InsertEvent
<1> HIDE DEF r
<1>3. \A i \in 1 .. n + 1 : r[i] = e \/ \E j \in 1 .. n : r[i] = q[j]
  BY <1>1, <1>2
<1>4. Queue(r)
  BY <1>1, <1>3 DEF Queue
<1>5. Ordered(r)
  <2> SUFFICES ASSUME NEW i \in 1 .. n + 1, NEW j \in 1 .. n + 1, i < j
               PROVE  EventBefore(r[i], r[j])
    BY <1>1 DEF Ordered
  <2>1. CASE j <= n /\ ~EventBefore(e, q[j])
    \* everything up to j stands in front of e
    <3>1. r[j] = q[j]
      BY <2>1, <1>2
    <3>2. ~EventBefore(e, q[i])
      <4>1. i \in 1 .. n /\ j \in 1 .. n
        BY <2>1, <1>1
      <4>2. EventBefore(q[i], q[j])
        BY <4>1, <1>1 DEF Ordered
      <4>3. /\ q[i].at \in Nat /\ q[i].id \in Nat
            /\ q[j].at \in Nat /\ q[j].id \in Nat
        BY <4>1, <1>1 DEF Queue
      <4> QED
        BY <2>1, <4>2, <4>3 DEF EventBefore
    <3>3. r[i] = q[i]
      BY <3>2, <2>1, <1>2, <1>1
    <3> QED
      BY <3>1, <3>3, <2>1, <1>1 DEF Ordered
  <2>2. CASE ~(j <= n /\ ~EventBefore(e, q[j])) /\ ~EventBefore(e, q[j - 1])
    \* e itself is at j
    <3>1. r[j] = e
      BY <2>2, <1>2
    <3>2. i <= n /\ ~EventBefore(e, q[i])
      <4>1. i \in 1 .. n /\ j - 1 \in 1 .. n /\ i <= j - 1
        BY <1>1
      <4>2. i = j - 1 \/ EventBefore(q[i], q[j - 1])
        BY <4>1, <1>1 DEF Ordered
      <4> QED
        BY <4>1, <4>2, <2>2, <1>1, SMTT(40) DEF EventBefore, Queue
    <3>3. r[i] = q[i]
      BY <3>2, <1>2
    <3>4. EventBefore(q[i], e)
      BY <3>2, <1>1 DEF EventBefore, Queue
    <3> QED
      BY <3>1, <3>3, <3>4
  <2>3. CASE ~(j <= n /\ ~EventBefore(e, q[j])) /\ EventBefore(e, q[j - 1])
    \* everything from j on stands behind e
    <3>1. r[j] = q[j - 1]
      BY <2>3, <1>2, <1>1
    <3>2. CASE i <= n /\ ~EventBefore(e, q[i])
      <4>1. r[i] = q[i]
        BY <3>2, <1>2
      <4>2. i # j - 1
        BY <3>2, <2>3
      <4> QED
        BY <3>1, <4>1, <4>2, <1>1 DEF Ordered
    <3>3. CASE ~(i <= n /\ ~EventBefore(e, q[i]))
      <4>1. r[i] = e \/ (i > 1 /\ r[i] = q[i - 1])
        BY <3>3, <1>2
      <4> QED
        BY <3>1, <4>1, <2>3, <1>1 DEF Ordered
    <3> QED
      BY <3>2, <3>3
  <2> QED
    BY <2>1, <2>2, <2>3
<1>6. ToSet(r) = ToSet(q) \cup {e}
  <2>1. DOMAIN r = 1 .. n + 1 /\ DOMAIN q = 1 .. n
    BY <1>1, SeqIsFunction DEF Queue
  <2>2. ASSUME NEW j \in 1 .. n  PROVE \E i \in 1 .. n + 1 : r[i] = q[j]
    <3>1. CASE ~EventBefore(e, q[j])
      <4>1. r[j] = q[j]
        BY <3>1, <1>1, <1>2
      <4> QED
        BY <4>1, <1>1
    <3>2. CASE EventBefore(e, q[j])
      <4>1. ~(j + 1 <= n /\ ~EventBefore(e, q[j + 1]))
        <5>1. CASE j + 1 <= n
          <6>1. j + 1 \in 1 .. n /\ j < j + 1
            BY <5>1, <1>1
          <6>2. EventBefore(q[j], q[j + 1])
            BY <6>1, <1>1 DEF Ordered
          <6>3. /\ q[j].id \in Nat /\ q[j].at \in Nat
                /\ q[j + 1].id \in Nat /\ q[j + 1].at \in Nat
            BY <6>1, <1>1 DEF Queue
          <6> QED
            BY <6>2, <6>3, <3>2 DEF EventBefore
        <5> QED
          BY <5>1
      <4>2. j + 1 \in 1 .. n + 1 /\ j + 1 # 1 /\ j + 1 - 1 = j
        BY <1>1
      <4>3. r[j + 1] = q[j]
        BY <3>2, <4>1, <4>2, <1>1, <1>2
      <4> QED
        BY <4>2, <4>3
    <3> QED
      BY <3>1, <3>2
  <2>3. \E i \in 1 .. n + 1 : r[i] = e
    <3>1. CASE \A i \in 1 .. n : ~EventBefore(e, q[i])
      <4>1. n + 1 \in 1 .. n + 1 /\ n + 1 - 1 = n
        BY <1>1
      <4>2. n + 1 = 1 \/ ~EventBefore(e, q[n])
        BY <3>1, <1>1
      <4>3. r[n + 1] = e
        BY <4>1, <4>2, <1>1, <1>2
      <4> QED
        BY <4>1, <4>3
    <3>2. CASE \E i \in 1 .. n : EventBefore(e, q[i])
      <4> DEFINE T == {i \in 1 .. n : EventBefore(e, q[i])}
      <4>1. T \subseteq Nat /\ T # {}
        BY <3>2
      <4>2. PICK x \in T : \A y \in T : x <= y
        BY <4>1, LeastElement
      <4>3. x \in 1 .. n + 1 /\ EventBefore(e, q[x])
        BY <1>1
      <4>4. x = 1 \/ ~EventBefore(e, q[x - 1])
        <5>1. CASE x # 1
          <6>1. x - 1 \in 1 .. n /\ ~(x <= x - 1)
            BY <5>1, <1>1
          <6> QED
            BY <6>1, <4>2
        <5> QED
          BY <5>1
      <4>5. r[x] = e
        BY <4>3, <4>4, <1>2
      <4> QED
        BY <4>3, <4>5
    <3> QED
      BY <3>1, <3>2
  <2>4. ToSet(r) = {r[i] : i \in 1 .. n + 1}
          /\ ToSet(q) = {q[j] : j \in 1 .. n}
    BY <2>1 DEF ToSet
  <2>5. ToSet(r) \subseteq ToSet(q) \cup {e}
    BY <2>4, <1>3
  <2>6. ToSet(q) \cup {e} \subseteq ToSet(r)
    BY <2>4, <2>2, <2>3
  <2> QED
    BY <2>5, <2>6
<1> QED
  BY <1>1, <1>4, <1>5, <1>6 DEF r

(***************************************************************************)
(* A step causes finitely many deliveries.                                 *)
(***************************************************************************)
LEMMA MatchesFinite ==
  ASSUME NEW name, NEW facts, IsSeq(facts)
  PROVE  /\ DOMAIN Routes = 1 .. Len(Routes) /\ Len(Routes) \in Nat
         /\ DOMAIN facts = 1 .. Len(facts) /\ Len(facts) \in Nat
         /\ DOMAIN Registry = 1 .. Len(Registry) /\ Len(Registry) \in Nat
         /\ Matches(name, facts) \in SUBSET (Nat \X Nat \X Nat)
         /\ IsFiniteSet(Matches(name, facts))
<1> DEFINE all == (DOMAIN Routes) \X (DOMAIN facts) \X (DOMAIN Registry)
           matches == Matches(name, facts)
<1>1. /\ DOMAIN Routes = 1 .. Len(Routes) /\ Len(Routes) \in Nat
      /\ DOMAIN facts = 1 .. Len(facts) /\ Len(facts) \in Nat
      /\ DOMAIN Registry = 1 .. Len(Registry) /\ Len(Registry) \in Nat
  <2>1. Routes \in Seq([fact : STRING, from : STRING,
                        to : [type : {"component", "node"}, id : STRING]])
    BY BootAssumption
  <2>2. Registry \in Seq(STRING)
    BY BootAssumption
  <2> QED
    BY <2>1, <2>2, SeqIsFunction DEF IsSeq
<1>2. IsFiniteSet(DOMAIN Routes) /\ IsFiniteSet(DOMAIN facts)
        /\ IsFiniteSet(DOMAIN Registry)
  BY <1>1, FS_Interval
<1>3. IsFiniteSet(all)
  <2> DEFINE P == ((DOMAIN Routes) \X (DOMAIN facts)) \X (DOMAIN Registry)
             K == [m \in P |-> << m[1][1], m[1][2], m[2] >>]
  <2>1. IsFiniteSet(P)
    BY <1>2, FS_Product
  <2>2. K \in [P -> all]
    OBVIOUS
  <2>3. ASSUME NEW m \in all  PROVE \E p \in P : K[p] = m
    <3>1. << << m[1], m[2] >>, m[3] >> \in P
      OBVIOUS
    <3>2. K[<< << m[1], m[2] >>, m[3] >>] = m
      BY <3>1
    <3> QED
      BY <3>1, <3>2
  <2>4. K \in Surjection(P, all)
    BY <2>2, <2>3 DEF Surjection
  <2> QED
    BY <2>1, <2>4, FS_Surjection
<1>4. matches \subseteq all
  BY DEF Matches
<1>5. all \subseteq Nat \X Nat \X Nat
  BY <1>1
<1>6. IsFiniteSet(matches)
  BY <1>3, <1>4, FS_Subset
<1> HIDE DEF all, matches
<1> QED
  BY <1>1, <1>4, <1>5, <1>6 DEF matches

LEMMA DeliveriesAreASeq ==
  ASSUME NEW name, NEW facts, IsSeq(facts)
  PROVE  /\ IsSeq(RouteDeliveries(name, facts))
         /\ Len(RouteDeliveries(name, facts)) \in Nat
<1> DEFINE matches == Matches(name, facts)
           d == RouteDeliveries(name, facts)
<1>1. Cardinality(matches) \in Nat
  BY MatchesFinite, FS_CardinalityType
<1>2. DOMAIN InRouteOrder(matches) = 1 .. Cardinality(matches)
  BY DEF InRouteOrder
<1>3. d = [i \in 1 .. Cardinality(matches) |-> d[i]]
  BY <1>2 DEF RouteDeliveries
<1> HIDE DEF d, matches
<1> QED
  BY <1>1, <1>3, FunctionIsSeq DEF d

(***************************************************************************)
(* What is due at an instant is a prefix of the queue.                     *)
(***************************************************************************)
DueBy(q, at) == Cardinality({i \in DOMAIN q : q[i].at <= at})

LEMMA DuePrefix ==
  ASSUME NEW q, Queue(q), Ordered(q), NEW at \in Nat
  PROVE  /\ DueBy(q, at) \in 0 .. Len(q)
         /\ \A i \in 1 .. Len(q) : q[i].at <= at <=> i <= DueBy(q, at)
<1> DEFINE S == {i \in DOMAIN q : q[i].at <= at}
<1>1. Len(q) \in Nat /\ DOMAIN q = 1 .. Len(q)
  BY SeqIsFunction DEF Queue
<1>2. \A i \in S : \A j \in 1 .. i : j \in S
  <2> SUFFICES ASSUME NEW i \in S, NEW j \in 1 .. i  PROVE j \in S
    OBVIOUS
  <2>1. i \in 1 .. Len(q) /\ j \in 1 .. Len(q) /\ q[i].at <= at
    BY <1>1
  <2>2. j = i \/ q[j].at <= q[i].at
    BY <2>1 DEF Ordered, EventBefore, Queue
  <2> QED
    BY <1>1, <2>1, <2>2 DEF Queue
<1>3. S \subseteq 1 .. Len(q)
  BY <1>1
<1>4. PICK k \in 0 .. Len(q) : S = 1 .. k
  BY <1>1, <1>2, <1>3, InitialSegment
<1>5. Cardinality(1 .. k) = k
  BY <1>4, FS_Interval
<1>6. DueBy(q, at) = k
  BY <1>4, <1>5 DEF DueBy
<1> QED
  BY <1>1, <1>4, <1>6

(***************************************************************************)
(* Routing keeps the queue in order: the deliveries go behind everything   *)
(* due, in front of everything due later, and nothing else moves.          *)
(***************************************************************************)
RoutedEvents(d, at, nextId) ==
  {Event(nextId + k - 1, at, "component", d[k]) : k \in 1 .. Len(d)}

LEMMA RouteEnqueueOrdered ==
  ASSUME NEW d, IsSeq(d), NEW at \in Nat, NEW nextId \in Nat,
         NEW q, Queue(q), Ordered(q),
         \A i \in 1 .. Len(q) : q[i].id < nextId
  PROVE  LET r == RouteEnqueue(d, at, nextId, q)
         IN  /\ Queue(r) /\ Ordered(r)
             /\ Len(r) = Len(q) + Len(d)
             /\ ToSet(r) = ToSet(q) \cup RoutedEvents(d, at, nextId)
<1> DEFINE r == RouteEnqueue(d, at, nextId, q)
           n == Len(d)
           m == Len(q)
           due == DueBy(q, at)
           New(k) == Event(nextId + k - 1, at, "component", d[k])
           routed == {New(k) : k \in 1 .. n}
<1>1. n \in Nat /\ m \in Nat /\ DOMAIN q = 1 .. m
  BY SeqIsFunction DEF Queue
<1>2. due \in 0 .. m
  BY DuePrefix
<1>3. \A i \in 1 .. m : q[i].at <= at <=> i <= due
  BY DuePrefix
<1>4. r = [i \in 1 .. m + n |->
             IF i <= due THEN q[i]
             ELSE IF i <= due + n THEN New(i - due)
             ELSE q[i - n]]
  <2>1. \A i \in 1 .. m + n : nextId + (i - due - 1) = nextId + (i - due) - 1
    BY <1>1, <1>2
  <2> QED
    BY <2>1 DEF RouteEnqueue, DueBy
<1>5. \A k \in 1 .. n : /\ New(k).id = nextId + k - 1
                       /\ New(k).at = at
  BY DEF Event
<1> HIDE DEF r, due, New
<1>6. IsSeq(r) /\ Len(r) = m + n
  <2>1. m + n \in Nat /\ r = [i \in 1 .. m + n |-> r[i]]
    BY <1>1, <1>4
  <2> QED
    BY <2>1, FunctionIsSeq
<1>7. \A i \in 1 .. m + n :
        r[i] = IF i <= due THEN q[i]
               ELSE IF i <= due + n THEN New(i - due) ELSE q[i - n]
  BY <1>4
<1>8. Queue(r)
  <2> SUFFICES ASSUME NEW i \in 1 .. m + n
               PROVE  r[i].id \in Nat /\ r[i].at \in Nat
    BY <1>6 DEF Queue
  <2>1. CASE i <= due
    BY <2>1, <1>1, <1>2, <1>7 DEF Queue
  <2>2. CASE i > due /\ i <= due + n
    BY <2>2, <1>1, <1>2, <1>7, <1>5
  <2>3. CASE i > due + n
    BY <2>3, <1>1, <1>2, <1>7 DEF Queue
  <2> QED
    BY <2>1, <2>2, <2>3, <1>1, <1>2
<1>9. Ordered(r)
  <2> SUFFICES ASSUME NEW i \in 1 .. m + n, NEW j \in 1 .. m + n, i < j
               PROVE  EventBefore(r[i], r[j])
    BY <1>6 DEF Ordered
  <2>1. CASE j <= due
    <3>1. i \in 1 .. m /\ j \in 1 .. m /\ r[i] = q[i] /\ r[j] = q[j]
      BY <2>1, <1>1, <1>2, <1>7
    <3> QED
      BY <3>1 DEF Ordered
  <2>2. CASE i <= due /\ j > due /\ j <= due + n
    <3>1. i \in 1 .. m /\ j - due \in 1 .. n
            /\ r[i] = q[i] /\ r[j] = New(j - due)
      BY <2>2, <1>1, <1>2, <1>7
    <3>2. q[i].at <= at /\ q[i].id < New(j - due).id
            /\ New(j - due).at = at
      BY <2>2, <3>1, <1>3, <1>5, <1>1, <1>2 DEF Queue
    <3> QED
      BY <3>1, <3>2 DEF EventBefore, Queue
  <2>3. CASE i <= due /\ j > due + n
    <3>1. i \in 1 .. m /\ j - n \in 1 .. m /\ i < j - n
            /\ r[i] = q[i] /\ r[j] = q[j - n]
      BY <2>3, <1>1, <1>2, <1>7
    <3> QED
      BY <3>1 DEF Ordered
  <2>4. CASE i > due /\ j <= due + n
    <3>1. i - due \in 1 .. n /\ j - due \in 1 .. n
            /\ r[i] = New(i - due) /\ r[j] = New(j - due)
      BY <2>4, <1>1, <1>2, <1>7
    <3> QED
      BY <3>1, <1>5, <1>2 DEF EventBefore
  <2>5. CASE i > due /\ i <= due + n /\ j > due + n
    <3>1. i - due \in 1 .. n /\ j - n \in 1 .. m /\ j - n > due
            /\ r[i] = New(i - due) /\ r[j] = q[j - n]
      BY <2>5, <1>1, <1>2, <1>7
    <3>2. ~(q[j - n].at <= at) /\ New(i - due).at = at
      BY <3>1, <1>3, <1>5, <1>2
    <3> QED
      BY <3>1, <3>2 DEF EventBefore, Queue
  <2>6. CASE i > due + n
    <3>1. i - n \in 1 .. m /\ j - n \in 1 .. m /\ i - n < j - n
            /\ r[i] = q[i - n] /\ r[j] = q[j - n]
      BY <2>6, <1>1, <1>2, <1>7
    <3> QED
      BY <3>1 DEF Ordered
  <2> QED
    BY <2>1, <2>2, <2>3, <2>4, <2>5, <2>6, <1>1, <1>2
<1>10. ToSet(r) = ToSet(q) \cup routed
  <2>1. DOMAIN r = 1 .. m + n
    BY <1>4
  <2>2. ASSUME NEW i \in 1 .. m + n
        PROVE  (\E j \in 1 .. m : r[i] = q[j]) \/ \E k \in 1 .. n : r[i] = New(k)
    <3>1. CASE i <= due
      BY <3>1, <1>1, <1>2, <1>7
    <3>2. CASE i > due /\ i <= due + n
      <4>1. i - due \in 1 .. n /\ r[i] = New(i - due)
        BY <3>2, <1>1, <1>2, <1>7
      <4> QED
        BY <4>1
    <3>3. CASE i > due + n
      <4>1. i - n \in 1 .. m /\ r[i] = q[i - n]
        BY <3>3, <1>1, <1>2, <1>7
      <4> QED
        BY <4>1
    <3> QED
      BY <3>1, <3>2, <3>3, <1>1, <1>2
  <2>3. ASSUME NEW j \in 1 .. m  PROVE \E i \in 1 .. m + n : r[i] = q[j]
    <3>1. CASE j <= due
      <4>1. j \in 1 .. m + n /\ r[j] = q[j]
        BY <3>1, <1>1, <1>2, <1>7
      <4> QED
        BY <4>1
    <3>2. CASE j > due
      <4>1. j + n \in 1 .. m + n /\ j + n > due /\ j + n > due + n
              /\ j + n - n = j
        BY <3>2, <1>1, <1>2
      <4>2. r[j + n] = q[j + n - n]
        BY <4>1, <1>1, <1>2, <1>7
      <4> QED
        BY <4>1, <4>2
    <3> QED
      BY <3>1, <3>2, <1>1, <1>2
  <2>4. ASSUME NEW k \in 1 .. n  PROVE \E i \in 1 .. m + n : r[i] = New(k)
    <3>1. due + k \in 1 .. m + n /\ due + k > due /\ due + k <= due + n
            /\ due + k - due = k
      BY <1>1, <1>2
    <3>2. r[due + k] = New(due + k - due)
      BY <3>1, <1>1, <1>2, <1>7
    <3> QED
      BY <3>1, <3>2
  <2> QED
    BY <2>1, <2>2, <2>3, <2>4, <1>1, ZenonT(40) DEF ToSet
<1> QED
  BY <1>6, <1>8, <1>9, <1>10 DEF r, New, RoutedEvents

-------------------------------------------------------------------------------
(***************************************************************************)
(* The part of the invariant that only concerns a world.                   *)
(***************************************************************************)
Dispatchable(e) ==
  \/ e.kind \in {"command", "property-equals", "component"}
  \/ e.kind = "choice" /\ e.payload.form \in {"drawn", "selected"}

WorldOK(w) ==
  /\ DOMAIN w = DOMAIN InitialWorld
  /\ w.time \in Nat /\ w.nextId \in Nat /\ w.count \in Nat
  /\ Queue(w.pending) /\ Ordered(w.pending)
  /\ \A i \in 1 .. Len(w.pending) :
       /\ w.pending[i].id < w.nextId
       /\ w.pending[i].at >= w.time
       /\ Dispatchable(w.pending[i])

LEMMA WorldFields ==
  DOMAIN InitialWorld = {"time", "nextId", "pending", "streams", "transcript",
                         "verdicts", "states", "facts", "count"}
BY DEF InitialWorld

(***************************************************************************)
(* A step the contract accepts has a sequence of facts, and its state and  *)
(* its facts claim no authority.                                           *)
(***************************************************************************)
LEMMA AcceptedStep ==
  ASSUME NEW name, NEW state, NEW value, NEW time,
         ComponentStep(name, state, value, time).code = "ok"
  PROVE  LET step == ComponentStep(name, state, value, time).step
         IN  /\ step.state \in Canonical \ Claiming
             /\ step.facts \in Seq(Fact)
             /\ \A i \in 1 .. Len(step.facts) :
                  step.facts[i].value \in Canonical \ Claiming
<1> DEFINE result == Handler(name, state, value, time)
<1>1. ComponentStep(name, state, value, time).step = result
  BY DEF ComponentStep, Checked
<1>2. CheckStep(result) = "ok"
  BY MarkerAssumption DEF ComponentStep, Checked
<1> HIDE DEF result
<1> DEFINE codes == << CheckValue(result.state, "component-state-invalid",
                                  "component-state-authority"),
                       CheckFacts(result.facts),
                       CheckChoices(result.choices) >>
<1>3. codes[1] = "ok" /\ codes[2] = "ok"
  <2>1. DOMAIN codes = 1 .. 3
    OBVIOUS
  <2>2. FirstError(codes) = "ok"
    BY <1>2 DEF CheckStep
  <2> HIDE DEF codes
  <2>3. \A i \in 1 .. 3 : codes[i] = "ok"
    BY <2>1, <2>2, FirstErrorOk
  <2> QED
    BY <2>3
<1>4. result.state \in Canonical \ Claiming
  BY <1>3 DEF CheckValue
<1>5. result.facts \in Seq(Fact)
  BY <1>3 DEF CheckFacts
<1> DEFINE n == Len(result.facts)
           checks == [i \in 1 .. n |-> CheckFact(result.facts[i])]
<1>6. \A i \in 1 .. n : checks[i] = "ok"
  <2>1. n \in Nat /\ DOMAIN checks = 1 .. n
    BY <1>5
  <2>2. FirstError(checks) = "ok"
    BY <1>3, <1>5 DEF CheckFacts
  <2> HIDE DEF checks
  <2> QED
    BY <2>1, <2>2, FirstErrorOk
<1>7. ASSUME NEW i \in 1 .. n
      PROVE  result.facts[i].value \in Canonical \ Claiming
  <2>1. CheckFact(result.facts[i]) = "ok"
    BY <1>6
  <2> QED
    BY <2>1 DEF CheckFact, CheckValue
<1> QED
  BY <1>1, <1>4, <1>5, <1>7

(***************************************************************************)
(* v is w with as many more events pending as identifiers were handed out. *)
(* None of the new ones is due before the current instant.                 *)
(***************************************************************************)
ExtendedBy(w, v, new) ==
  /\ ToSet(v.pending) = ToSet(w.pending) \cup new
  /\ {e.id : e \in new} = w.nextId .. v.nextId - 1
  /\ \A e \in new : e.at >= w.time

Extends(w, v) ==
  /\ v.nextId >= w.nextId
  /\ Len(v.pending) = Len(w.pending) + (v.nextId - w.nextId)
  /\ \E new : ExtendedBy(w, v, new)

LEMMA ElementsOf ==
  ASSUME NEW s, IsSeq(s)
  PROVE  ToSet(s) = {s[i] : i \in 1 .. Len(s)}
BY SeqIsFunction DEF ToSet

LEMMA ExtendsItself ==
  ASSUME NEW w, WorldOK(w), NEW v, DOMAIN v = DOMAIN w,
         v.time = w.time, v.nextId = w.nextId, v.pending = w.pending,
         v.count \in Nat
  PROVE  WorldOK(v) /\ Extends(w, v)
<1>1. WorldOK(v)
  BY DEF WorldOK
<1>2. Len(w.pending) \in Nat
  BY SeqIsFunction DEF WorldOK, Queue
<1>3. ExtendedBy(w, v, {})
  BY DEF ExtendedBy, WorldOK
<1>4. v.nextId >= w.nextId
        /\ Len(v.pending) = Len(w.pending) + (v.nextId - w.nextId)
  BY <1>2 DEF WorldOK
<1> QED
  BY <1>1, <1>3, <1>4 DEF Extends

LEMMA ScheduleExtends ==
  ASSUME NEW w, WorldOK(w), NEW at \in Int, NEW kind, NEW payload
  PROVE  LET v == Schedule(w, at, kind, payload).world
         IN  WorldOK(v) /\ Extends(w, v) /\ v.time = w.time
<1> DEFINE code == ScheduleError(w, at, kind, payload)
           e == Event(w.nextId, at, kind, payload)
           v == Schedule(w, at, kind, payload).world
<1>1. CASE code # "ok"
  <2>1. v = w
    BY <1>1 DEF Schedule, Refused
  <2> QED
    BY <2>1, ExtendsItself DEF WorldOK
<1>2. CASE code = "ok"
  <2> DEFINE codes ==
        << IF at < 0 THEN "invalid-time" ELSE "ok",
           IF at < w.time THEN "stale-event" ELSE "ok",
           IF EventValid(kind, payload) THEN "ok" ELSE "invalid-event",
           IF EventValid(kind, payload) /\ ~EventOrderValid(kind, payload)
             THEN "choice-alternatives-order" ELSE "ok",
           IF EventValid(kind, payload) /\ ~EventSelectionValid(kind, payload)
             THEN "choice-selection-not-member" ELSE "ok" >>
  <2>1. codes[1] = "ok" /\ codes[2] = "ok" /\ codes[3] = "ok"
    <3>1. DOMAIN codes = 1 .. 5 /\ FirstError(codes) = "ok"
      BY <1>2 DEF ScheduleError
    <3> HIDE DEF codes
    <3>2. \A i \in 1 .. 5 : codes[i] = "ok"
      BY <3>1, FirstErrorOk
    <3> QED
      BY <3>2
  <2>2. at \in Nat /\ at >= w.time /\ EventValid(kind, payload)
    BY <2>1 DEF WorldOK
  <2>3. Dispatchable(e)
    BY <2>2 DEF EventValid, Dispatchable, Event
  <2>4. e.id = w.nextId /\ e.at = at
    BY DEF Event
  <2>5. /\ DOMAIN v = DOMAIN w /\ v.time = w.time /\ v.count = w.count
        /\ v.nextId = w.nextId + 1
        /\ v.pending = InsertEvent(e, w.pending)
    BY <1>2, WorldFields DEF Schedule, Reduced, WorldOK
  <2> HIDE DEF e, v
  <2>6. IsSeq(w.pending) /\ Len(w.pending) \in Nat
    BY SeqIsFunction DEF WorldOK, Queue
  <2>7. /\ Queue(v.pending) /\ Ordered(v.pending)
        /\ Len(v.pending) = Len(w.pending) + 1
        /\ ToSet(v.pending) = ToSet(w.pending) \cup {e}
    BY <2>2, <2>4, <2>5, <2>6, InsertEventOrdered, InsertEventLen DEF WorldOK
  <2>8. \A i \in 1 .. Len(v.pending) : v.pending[i] \in ToSet(w.pending) \cup {e}
    BY <2>7, ElementsOf DEF Queue
  <2>9. \A x \in ToSet(w.pending) :
          x.id < w.nextId /\ x.at >= w.time /\ Dispatchable(x)
    BY <2>6, ElementsOf DEF WorldOK
  <2>10. \A i \in 1 .. Len(w.pending) : w.pending[i].id \in Nat
    BY DEF WorldOK, Queue
  <2>11. WorldOK(v)
    <3>1. ASSUME NEW i \in 1 .. Len(v.pending)
          PROVE  /\ v.pending[i].id < v.nextId
                 /\ v.pending[i].at >= v.time
                 /\ Dispatchable(v.pending[i])
      <4>1. CASE v.pending[i] = e
        BY <4>1, <2>2, <2>3, <2>4, <2>5 DEF WorldOK
      <4>2. CASE v.pending[i] \in ToSet(w.pending)
        <5>1. v.pending[i].id \in Nat
          BY <2>7 DEF Queue
        <5> QED
          BY <5>1, <4>2, <2>9, <2>5 DEF WorldOK
      <4> QED
        BY <4>1, <4>2, <2>8
    <3> QED
      BY <3>1, <2>5, <2>7 DEF WorldOK
  <2>12. Extends(w, v)
    <3>1. {x.id : x \in {e}} = w.nextId .. v.nextId - 1
      BY <2>4, <2>5 DEF WorldOK
    <3>2. \A x \in {e} : x.at >= w.time
      BY <2>2, <2>4
    <3>3. ExtendedBy(w, v, {e})
      BY <3>1, <3>2, <2>7 DEF ExtendedBy
    <3>4. v.nextId >= w.nextId
            /\ Len(v.pending) = Len(w.pending) + (v.nextId - w.nextId)
      BY <2>5, <2>6, <2>7 DEF WorldOK
    <3> QED
      BY <3>3, <3>4 DEF Extends
  <2> QED
    BY <2>5, <2>11, <2>12 DEF v
<1> QED
  BY <1>1, <1>2

LEMMA CommitExtends ==
  ASSUME NEW w, WorldOK(w), NEW id, NEW name, NEW step, IsSeq(step.facts)
  PROVE  LET v == ComponentCommit(w, id, w.time, name, step).world
         IN  WorldOK(v) /\ Extends(w, v) /\ v.time = w.time
<1> DEFINE d == RouteDeliveries(name, step.facts)
           n == Len(d)
           v == ComponentCommit(w, id, w.time, name, step).world
           New(k) == Event(w.nextId + k - 1, w.time, "component", d[k])
           routed == RoutedEvents(d, w.time, w.nextId)
<1>1. IsSeq(d) /\ n \in Nat
  BY DeliveriesAreASeq
<1> HIDE DEF d
<1>2. CASE w.count + n > RouteLimit
  <2>1. v = w
    BY <1>2 DEF ComponentCommit, Refused, d
  <2> QED
    BY <2>1, ExtendsItself DEF WorldOK
<1>3. CASE ~(w.count + n > RouteLimit)
  <2>1. /\ DOMAIN v = DOMAIN w /\ v.time = w.time
        /\ v.count = w.count + n /\ v.nextId = w.nextId + n
        /\ v.pending = RouteEnqueue(d, w.time, w.nextId, w.pending)
    BY <1>3, WorldFields DEF ComponentCommit, Reduced, WorldOK, d
  <2> HIDE DEF v
  <2>2. Len(w.pending) \in Nat
    BY SeqIsFunction DEF WorldOK, Queue
  <2>3. /\ Queue(v.pending) /\ Ordered(v.pending)
        /\ Len(v.pending) = Len(w.pending) + n
        /\ ToSet(v.pending) = ToSet(w.pending) \cup routed
    <3>1. /\ w.time \in Nat /\ w.nextId \in Nat
          /\ Queue(w.pending) /\ Ordered(w.pending)
          /\ \A i \in 1 .. Len(w.pending) : w.pending[i].id < w.nextId
      BY DEF WorldOK
    <3> DEFINE r == RouteEnqueue(d, w.time, w.nextId, w.pending)
    <3>2. /\ Queue(r) /\ Ordered(r)
          /\ Len(r) = Len(w.pending) + n
          /\ ToSet(r) = ToSet(w.pending) \cup routed
      BY <1>1, <3>1, RouteEnqueueOrdered
    <3> QED
      BY <2>1, <3>2
  <2>4. \A k \in 1 .. n : /\ New(k).id = w.nextId + k - 1
                         /\ New(k).at = w.time
                         /\ New(k).kind = "component"
    BY DEF Event
  <2>5. routed = {New(k) : k \in 1 .. n}
    BY DEF RoutedEvents
  <2> HIDE DEF New
  <2>6. \A e \in routed : /\ e.id \in w.nextId .. v.nextId - 1
                         /\ e.at = w.time /\ Dispatchable(e)
    BY <1>1, <2>1, <2>4, <2>5 DEF Dispatchable, WorldOK
  <2>7. {e.id : e \in routed} = w.nextId .. v.nextId - 1
    <3>1. {e.id : e \in routed} \subseteq w.nextId .. v.nextId - 1
      BY <2>6
    <3>2. ASSUME NEW i \in w.nextId .. v.nextId - 1
          PROVE  \E e \in routed : e.id = i
      <4> DEFINE k == i - w.nextId + 1
      <4>1. k \in 1 .. n /\ w.nextId + k - 1 = i
        BY <1>1, <2>1 DEF WorldOK
      <4>2. New(k) \in routed
        BY <4>1, <2>5
      <4> QED
        BY <4>1, <4>2, <2>4
    <3> QED
      BY <3>1, <3>2
  <2> HIDE DEF routed
  <2>8. WorldOK(v)
    <3>1. \A i \in 1 .. Len(v.pending) :
            v.pending[i] \in ToSet(w.pending) \cup routed
      BY <2>3, ElementsOf DEF Queue
    <3>2. \A x \in ToSet(w.pending) :
            /\ x.id \in Nat /\ x.id < w.nextId
            /\ x.at >= w.time /\ Dispatchable(x)
      BY ElementsOf DEF WorldOK, Queue
    <3>3. ASSUME NEW x \in ToSet(w.pending) \cup routed
          PROVE  x.id < v.nextId /\ x.at >= w.time /\ Dispatchable(x)
      <4>1. CASE x \in routed
        BY <4>1, <2>6, <2>1, <1>1 DEF WorldOK
      <4>2. CASE x \in ToSet(w.pending)
        BY <4>2, <3>2, <2>1, <1>1 DEF WorldOK
      <4> QED
        BY <4>1, <4>2
    <3> QED
      BY <3>1, <3>3, <2>1, <2>3, <1>1 DEF WorldOK
  <2>9. Extends(w, v)
    <3>1. ExtendedBy(w, v, routed)
      BY <2>3, <2>6, <2>7 DEF ExtendedBy, WorldOK
    <3>2. v.nextId >= w.nextId
            /\ Len(v.pending) = Len(w.pending) + (v.nextId - w.nextId)
      BY <1>1, <2>1, <2>2, <2>3 DEF WorldOK
    <3> QED
      BY <3>1, <3>2 DEF Extends
  <2> QED
    BY <2>1, <2>8, <2>9 DEF v
<1> QED
  BY <1>1, <1>2, <1>3, BootAssumption DEF WorldOK

LEMMA DispatchExtends ==
  ASSUME NEW w, WorldOK(w), NEW e, Dispatchable(e), e.at = w.time
  PROVE  LET v == Dispatch(w, e).world
         IN  WorldOK(v) /\ Extends(w, v) /\ v.time = w.time
<1> DEFINE v == Dispatch(w, e).world
<1>1. CASE e.kind = "command"
  <2>1. v = w
    BY <1>1 DEF Dispatch, Reduced
  <2> QED
    BY <2>1, ExtendsItself DEF WorldOK
<1>2. CASE e.kind = "property-equals"
  <2>1. v = PropertyVerdict(w, e.id, e.at, e.payload).world
    BY <1>2 DEF Dispatch
  <2>2. /\ DOMAIN v = DOMAIN w /\ v.time = w.time /\ v.count = w.count
        /\ v.nextId = w.nextId /\ v.pending = w.pending
    BY <2>1, WorldFields DEF PropertyVerdict, Reduced, WorldOK
  <2> QED
    BY <2>2, ExtendsItself DEF WorldOK
<1>3. CASE e.kind = "choice"
  <2>1. CASE e.payload.form = "drawn"
    <3>1. v = Choose(w, e.id, e.at, e.payload).world
      BY <1>3, <2>1 DEF Dispatch
    <3>2. /\ DOMAIN v = DOMAIN w /\ v.time = w.time /\ v.count = w.count
          /\ v.nextId = w.nextId /\ v.pending = w.pending
      BY <3>1, WorldFields DEF Choose, Reduced, WorldOK
    <3> QED
      BY <3>2, ExtendsItself DEF WorldOK
  <2>2. CASE e.payload.form = "selected"
    <3>1. v = w
      BY <1>3, <2>2 DEF Dispatch, ApplySelected, Reduced
    <3> QED
      BY <3>1, ExtendsItself DEF WorldOK
  <2> QED
    BY <1>3, <2>1, <2>2 DEF Dispatchable
<1>4. CASE e.kind = "component"
  <2> DEFINE result == ComponentStep(e.payload.name, w.states[e.payload.name],
                                     e.payload.value, w.time)
  <2>1. v = DispatchComponent(w, e.id, w.time, e.payload).world
    BY <1>4 DEF Dispatch
  <2>2. CASE e.payload.name \notin Names \/ result.code # "ok"
    <3>1. v = w
      BY <2>1, <2>2 DEF DispatchComponent, Refused
    <3> QED
      BY <3>1, ExtendsItself DEF WorldOK
  <2>3. CASE e.payload.name \in Names /\ result.code = "ok"
    <3>1. v = ComponentCommit(w, e.id, w.time, e.payload.name, result.step).world
      BY <2>1, <2>3 DEF DispatchComponent
    <3>2. result.step.facts \in Seq(Fact)
      BY <2>3, AcceptedStep
    <3> HIDE DEF result
    <3>3. IsSeq(result.step.facts)
      BY <3>2 DEF IsSeq
    <3> QED
      BY <3>1, <3>3, CommitExtends
  <2> QED
    BY <2>2, <2>3
<1> QED
  BY <1>1, <1>2, <1>3, <1>4 DEF Dispatchable

(***************************************************************************)
(* The world an advance hands to the dispatch of the event it popped.      *)
(***************************************************************************)
Popping(w) ==
  [w EXCEPT !.time       = Head(w.pending).at,
            !.pending    = Tail(@),
            !.transcript = Append(@, [op |-> "advance"]),
            !.count      = RoutingAdvanced(@, w.time, Head(w.pending).at)]

LEMMA AdvanceIsDispatch ==
  ASSUME NEW w, WorldOK(w), w.pending # << >>
  PROVE  LET a == Popping(w)
             e == Head(w.pending)
         IN  /\ Advance(w) = Dispatch(a, e)
             /\ WorldOK(a)
             /\ a.time = e.at /\ a.nextId = w.nextId
             /\ a.pending = Tail(w.pending)
             /\ e = w.pending[1] /\ Len(w.pending) > 0
             /\ Dispatchable(e)
<1> DEFINE a == Popping(w)
           e == Head(w.pending)
<1>1. /\ Len(w.pending) \in Nat /\ Len(w.pending) > 0 /\ e = w.pending[1]
      /\ IsSeq(Tail(w.pending)) /\ Len(Tail(w.pending)) = Len(w.pending) - 1
      /\ \A i \in 1 .. Len(w.pending) - 1 : Tail(w.pending)[i] = w.pending[i + 1]
  BY TailIsSeq, SeqIsFunction DEF WorldOK, Queue
<1>2. Advance(w) = Dispatch(a, e)
  BY DEF Advance, Popping
<1>3. /\ DOMAIN a = DOMAIN w /\ a.time = e.at /\ a.nextId = w.nextId
      /\ a.pending = Tail(w.pending)
      /\ a.count = RoutingAdvanced(w.count, w.time, e.at)
  BY WorldFields DEF Popping, WorldOK
<1>4. a.count \in Nat
  BY <1>3 DEF RoutingAdvanced, WorldOK
<1> HIDE DEF a, e
<1>5. e.at \in Nat /\ Dispatchable(e)
  BY <1>1 DEF WorldOK, Queue
<1>6. Queue(a.pending)
  <2>1. ASSUME NEW i \in 1 .. Len(w.pending) - 1
        PROVE  a.pending[i].id \in Nat /\ a.pending[i].at \in Nat
    BY <1>1, <1>3 DEF WorldOK, Queue
  <2> QED
    BY <1>1, <1>3, <2>1 DEF Queue
<1>7. Ordered(a.pending)
  BY <1>1, <1>3 DEF Ordered, WorldOK
<1>8. ASSUME NEW i \in 1 .. Len(a.pending)
      PROVE  /\ a.pending[i].id < a.nextId
             /\ a.pending[i].at >= a.time
             /\ Dispatchable(a.pending[i])
  <2>1. a.pending[i] = w.pending[i + 1] /\ i + 1 \in 1 .. Len(w.pending)
    BY <1>1, <1>3
  <2>2. EventBefore(w.pending[1], w.pending[i + 1])
    BY <2>1, <1>1 DEF WorldOK, Ordered
  <2>3. a.pending[i].at >= a.time
    BY <2>1, <2>2, <1>1, <1>3 DEF EventBefore, WorldOK, Queue
  <2> QED
    BY <2>1, <2>3, <1>3 DEF WorldOK
<1>9. WorldOK(a)
  BY <1>3, <1>4, <1>5, <1>6, <1>7, <1>8 DEF WorldOK
<1> QED
  BY <1>1, <1>2, <1>3, <1>5, <1>9 DEF a, e

(***************************************************************************)
(* Scheduling fails with one of its own codes, and an accepted submission  *)
(* and every dispatch put exactly one record on the transcript.            *)
(***************************************************************************)
LEMMA FirstErrorAmong ==
  ASSUME NEW codes, NEW n \in Nat, DOMAIN codes = 1 .. n, NEW S,
         \A i \in 1 .. n : codes[i] \in S \cup {"ok"}
  PROVE  FirstError(codes) \in S \cup {"ok"}
<1> DEFINE Fails1(i) == codes[i] # "ok" /\ \A j \in 1 .. i - 1 : codes[j] = "ok"
<1>1. CASE \E i \in DOMAIN codes : codes[i] # "ok"
  <2> DEFINE T == {i \in 1 .. n : codes[i] # "ok"}
  <2>1. T \subseteq Nat /\ T # {}
    BY <1>1
  <2>2. PICK x \in T : \A y \in T : x <= y
    BY <2>1, LeastElement
  <2>3. ASSUME NEW j \in 1 .. x - 1  PROVE codes[j] = "ok"
    <3>1. j \in T => x <= j
      BY <2>2
    <3> QED
      BY <3>1
  <2>4. \E i \in DOMAIN codes : Fails1(i)
    BY <2>3
  <2>5. (CHOOSE i \in DOMAIN codes : Fails1(i)) \in DOMAIN codes
    BY <2>4
  <2>6. FirstError(codes) = codes[CHOOSE i \in DOMAIN codes : Fails1(i)]
    BY <1>1 DEF FirstError
  <2> QED
    BY <2>5, <2>6
<1>2. CASE ~\E i \in DOMAIN codes : codes[i] # "ok"
  BY <1>2 DEF FirstError
<1> QED
  BY <1>1, <1>2

LEMMA ScheduleCodes ==
  ASSUME NEW w, NEW at, NEW kind, NEW payload
  PROVE  ScheduleError(w, at, kind, payload) # NoError
<1> DEFINE S == {"invalid-time", "stale-event", "invalid-event",
                 "choice-alternatives-order", "choice-selection-not-member"}
           codes ==
        << IF at < 0 THEN "invalid-time" ELSE "ok",
           IF at < w.time THEN "stale-event" ELSE "ok",
           IF EventValid(kind, payload) THEN "ok" ELSE "invalid-event",
           IF EventValid(kind, payload) /\ ~EventOrderValid(kind, payload)
             THEN "choice-alternatives-order" ELSE "ok",
           IF EventValid(kind, payload) /\ ~EventSelectionValid(kind, payload)
             THEN "choice-selection-not-member" ELSE "ok" >>
<1>1. DOMAIN codes = 1 .. 5
  OBVIOUS
<1>2. \A i \in 1 .. 5 : codes[i] \in S \cup {"ok"}
  OBVIOUS
<1>3. ScheduleError(w, at, kind, payload) = FirstError(codes)
  BY DEF ScheduleError
<1> HIDE DEF codes
<1>4. FirstError(codes) \in S \cup {"ok"}
  <2> HIDE DEF S
  <2> QED
    BY <1>1, <1>2, FirstErrorAmong
<1> QED
  BY <1>3, <1>4 DEF NoError

LEMMA DispatchKeepsTranscript ==
  ASSUME NEW w, WorldOK(w), NEW e, Dispatchable(e)
  PROVE  Dispatch(w, e).world.transcript = w.transcript
<1> DEFINE v == Dispatch(w, e).world
<1>1. CASE e.kind = "command"
  BY <1>1 DEF Dispatch, Reduced
<1>2. CASE e.kind = "property-equals"
  BY <1>2, WorldFields DEF Dispatch, PropertyVerdict, Reduced, WorldOK
<1>3. CASE e.kind = "choice" /\ e.payload.form = "drawn"
  BY <1>3, WorldFields DEF Dispatch, Choose, Reduced, WorldOK
<1>4. CASE e.kind = "choice" /\ e.payload.form = "selected"
  BY <1>4 DEF Dispatch, ApplySelected, Reduced
<1>5. CASE e.kind = "component"
  <2> DEFINE result == ComponentStep(e.payload.name, w.states[e.payload.name],
                                     e.payload.value, e.at)
             c == ComponentCommit(w, e.id, e.at, e.payload.name, result.step).world
  <2>1. v = w \/ v = c
    BY <1>5 DEF Dispatch, DispatchComponent, Refused
  <2>2. c.transcript = w.transcript
    BY WorldFields DEF ComponentCommit, Reduced, Refused, WorldOK
  <2> QED
    BY <2>1, <2>2
<1> QED
  BY <1>1, <1>2, <1>3, <1>4, <1>5 DEF Dispatchable

LEMMA ScheduleRecords ==
  ASSUME NEW w, WorldOK(w), NEW at \in Int, NEW kind, NEW payload,
         Schedule(w, at, kind, payload).error = NoError
  PROVE  LET v == Schedule(w, at, kind, payload).world
             record == [op |-> "schedule", at |-> at, kind |-> kind,
                        payload |-> payload]
         IN  WorldOK(v) /\ v.time = w.time
               /\ v.transcript = Append(w.transcript, record)
<1>1. ScheduleError(w, at, kind, payload) = "ok"
  BY ScheduleCodes DEF Schedule, Refused
<1>2. Schedule(w, at, kind, payload).world.transcript
        = Append(w.transcript, [op |-> "schedule", at |-> at, kind |-> kind,
                                payload |-> payload])
  BY <1>1, WorldFields DEF Schedule, Reduced, WorldOK
<1> QED
  BY <1>2, ScheduleExtends

LEMMA AdvanceRecords ==
  ASSUME NEW w, WorldOK(w), w.pending # << >>
  PROVE  LET v == Advance(w).world
         IN  WorldOK(v) /\ v.transcript = Append(w.transcript, [op |-> "advance"])
<1> DEFINE a == Popping(w)
           e == Head(w.pending)
<1>1. /\ Advance(w) = Dispatch(a, e)
      /\ WorldOK(a) /\ a.time = e.at /\ Dispatchable(e)
  BY AdvanceIsDispatch
<1>2. a.transcript = Append(w.transcript, [op |-> "advance"])
  BY WorldFields DEF Popping, WorldOK
<1> HIDE DEF a, e
<1>3. Dispatch(a, e).world.transcript = a.transcript
  BY <1>1, DispatchKeepsTranscript
<1>4. WorldOK(Dispatch(a, e).world)
  BY <1>1, DispatchExtends
<1> QED
  BY <1>1, <1>2, <1>3, <1>4

(***************************************************************************)
(* What a dispatch routes: as many new events as it adds to the count of   *)
(* the instant, all of them due now, and never beyond the limit.           *)
(***************************************************************************)
LEMMA RoutedCount ==
  ASSUME NEW d, IsSeq(d), NEW at, NEW nextId \in Nat
  PROVE  /\ IsFiniteSet(RoutedEvents(d, at, nextId))
         /\ Cardinality(RoutedEvents(d, at, nextId)) = Len(d)
         /\ \A x \in RoutedEvents(d, at, nextId) :
              x.at = at /\ x.id \in Nat /\ x.id >= nextId
<1> DEFINE n == Len(d)
           New(k) == Event(nextId + k - 1, at, "component", d[k])
           routed == {New(k) : k \in 1 .. n}
           f == [k \in 1 .. n |-> New(k)]
<1>1. n \in Nat
  BY SeqIsFunction
<1>2. \A k \in 1 .. n : New(k).id = nextId + k - 1 /\ New(k).at = at
  BY DEF Event
<1>3. routed = RoutedEvents(d, at, nextId)
  BY DEF RoutedEvents
<1> HIDE DEF n, New
<1>4. \A x \in routed : x.at = at /\ x.id \in Nat /\ x.id >= nextId
  BY <1>1, <1>2
<1>5. f \in Surjection(1 .. n, routed)
  BY DEF Surjection
<1>6. f \in Injection(1 .. n, routed)
  <2>1. ASSUME NEW j \in 1 .. n, NEW k \in 1 .. n, f[j] = f[k]  PROVE j = k
    <3>1. New(j) = New(k)
      BY <2>1
    <3>2. New(j).id = nextId + j - 1 /\ New(k).id = nextId + k - 1
      BY <1>2
    <3>3. nextId + j - 1 = nextId + k - 1
      BY <3>1, <3>2
    <3> QED
      BY <1>1, <3>3
  <2>2. f \in [1 .. n -> routed]
    OBVIOUS
  <2> HIDE DEF f, routed
  <2> QED
    BY <2>1, <2>2 DEF Injection, IsInjective
<1>7. IsFiniteSet(1 .. n) /\ Cardinality(1 .. n) = n
  BY <1>1, FS_Interval
<1> HIDE DEF f, routed
<1>8. IsFiniteSet(routed) /\ Cardinality(routed) = n
  BY <1>5, <1>6, <1>7, FS_Surjection
<1> QED
  BY <1>3, <1>4, <1>8 DEF n

RoutesOn(w, v, new) ==
  /\ IsFiniteSet(new) /\ Cardinality(new) \in Nat
  /\ ToSet(v.pending) = ToSet(w.pending) \cup new
  /\ \A x \in new : x.at = w.time /\ x.id \in Nat /\ x.id >= w.nextId
  /\ v.count = w.count + Cardinality(new)
  /\ Cardinality(new) = 0 \/ v.count <= RouteLimit

LEMMA RoutesNothing ==
  ASSUME NEW w, WorldOK(w), NEW v, v.pending = w.pending, v.count = w.count
  PROVE  RoutesOn(w, v, {})
BY FS_EmptySet DEF RoutesOn, WorldOK

LEMMA DispatchRoutes ==
  ASSUME NEW w, WorldOK(w), NEW e, Dispatchable(e), e.at = w.time
  PROVE  \E new : RoutesOn(w, Dispatch(w, e).world, new)
<1> DEFINE v == Dispatch(w, e).world
<1>1. CASE v.pending = w.pending /\ v.count = w.count
  BY <1>1, RoutesNothing
<1>2. CASE e.kind # "component"
  <2>1. CASE e.kind = "command"
    BY <2>1, <1>1 DEF Dispatch, Reduced
  <2>2. CASE e.kind = "property-equals"
    <3>1. v.pending = w.pending /\ v.count = w.count
      BY <2>2, WorldFields DEF Dispatch, PropertyVerdict, Reduced, WorldOK
    <3> QED
      BY <1>1, <3>1
  <2>3. CASE e.kind = "choice" /\ e.payload.form = "drawn"
    <3>1. v.pending = w.pending /\ v.count = w.count
      BY <2>3, WorldFields DEF Dispatch, Choose, Reduced, WorldOK
    <3> QED
      BY <1>1, <3>1
  <2>4. CASE e.kind = "choice" /\ e.payload.form = "selected"
    BY <2>4, <1>1 DEF Dispatch, ApplySelected, Reduced
  <2> QED
    BY <1>2, <2>1, <2>2, <2>3, <2>4 DEF Dispatchable
<1>3. CASE e.kind = "component"
  <2> DEFINE result == ComponentStep(e.payload.name, w.states[e.payload.name],
                                     e.payload.value, w.time)
             step == result.step
             name == e.payload.name
             c == ComponentCommit(w, e.id, w.time, name, step).world
             d == RouteDeliveries(name, step.facts)
             new == RoutedEvents(d, w.time, w.nextId)
  <2>1. \/ v = w
        \/ result.code = "ok" /\ v = c
    BY <1>3 DEF Dispatch, DispatchComponent, Refused
  <2>2. CASE v = w
    BY <2>2, <1>1
  <2>3. CASE result.code = "ok" /\ v = c
    <3>1. IsSeq(step.facts)
      BY <2>3, AcceptedStep DEF IsSeq
    <3>2. \/ c = w
          \/ /\ ~(w.count + Len(d) > RouteLimit)
             /\ c.count = w.count + Len(d)
             /\ c.pending = RouteEnqueue(d, w.time, w.nextId, w.pending)
      BY WorldFields DEF ComponentCommit, Reduced, Refused, WorldOK
    <3> HIDE DEF step, result, name, c
    <3>3. IsSeq(d) /\ Len(d) \in Nat
      BY <3>1, DeliveriesAreASeq
    <3> HIDE DEF d
    <3>4. CASE c = w
      BY <2>2, <2>3, <3>4
    <3>5. CASE /\ ~(w.count + Len(d) > RouteLimit)
               /\ c.count = w.count + Len(d)
               /\ c.pending = RouteEnqueue(d, w.time, w.nextId, w.pending)
      <4>1. /\ w.time \in Nat /\ w.nextId \in Nat /\ w.count \in Nat
            /\ Queue(w.pending) /\ Ordered(w.pending)
            /\ \A i \in 1 .. Len(w.pending) : w.pending[i].id < w.nextId
        BY DEF WorldOK
      <4>2. ToSet(c.pending) = ToSet(w.pending) \cup new
        <5>1. ToSet(RouteEnqueue(d, w.time, w.nextId, w.pending))
                = ToSet(w.pending) \cup new
          BY <4>1, <3>3, RouteEnqueueOrdered, ZenonT(40)
        <5> QED
          BY <5>1, <3>5
      <4>3. /\ IsFiniteSet(new) /\ Cardinality(new) = Len(d)
            /\ \A x \in new : x.at = w.time /\ x.id \in Nat /\ x.id >= w.nextId
        BY <3>3, <4>1, RoutedCount
      <4> HIDE DEF new
      <4>4. RouteLimit \in Nat
        BY BootAssumption
      <4>5. RoutesOn(w, c, new)
        BY <3>3, <3>5, <4>1, <4>2, <4>3, <4>4 DEF RoutesOn
      <4> QED
        BY <2>3, <4>5
    <3> QED
      BY <3>2, <3>4, <3>5
  <2> QED
    BY <2>1, <2>2, <2>3
<1> QED
  BY <1>2, <1>3

-------------------------------------------------------------------------------
(***************************************************************************)
(* Replay is a fold: the empty transcript gives the world at boot, and one *)
(* record more is one replay step more.                                    *)
(***************************************************************************)
Boot == [world |-> InitialWorld, error |-> NoError]

Runs == INSTANCE LeftFold WITH Op <- ReplayStep

LEMMA ReplayIsFold ==
  ASSUME NEW t  PROVE Replay(t) = Runs!Folded(Boot, t)
BY DEF Replay, Boot, Runs!Folded, Runs!FoldLeft, FoldLeft, MapThenFoldSet,
       Runs!MapThenFoldSet, Max, Runs!Max

LEMMA ReplayOfNothing == Replay(<< >>) = Boot
BY Runs!FoldedEmpty, ReplayIsFold

LEMMA ReplayOfAppend ==
  ASSUME NEW s, IsSeq(s), NEW x
  PROVE  Replay(Append(s, x)) = ReplayStep(Replay(s), x)
<1> DEFINE t == Append(s, x)
<1> PICK n : n = Len(s)
  OBVIOUS
<1>1. n \in Nat /\ DOMAIN s = 1 .. n
  BY SeqIsFunction
<1>2. /\ DOMAIN t = 1 .. n + 1 /\ t[n + 1] = x
      /\ \A i \in 1 .. n : t[i] = s[i]
  BY AppendIsSeq, SeqIsFunction
<1> HIDE DEF t
<1>3. Replay(t) = ReplayStep(Replay(s), t[n + 1])
  BY <1>1, <1>2, Runs!FoldedMore, ReplayIsFold
<1> QED
  BY <1>2, <1>3 DEF t

-------------------------------------------------------------------------------
(***************************************************************************)
(* A dispatch commits a component's step, whole, or leaves the queue and   *)
(* the facts alone and publishes no menu.                                  *)
(***************************************************************************)
Committed(w, e, r, step) ==
  /\ e.kind = "component" /\ e.payload.name \in Names
  /\ step.facts \in Seq(Fact) /\ step.choices \in Seq(Menu)
  /\ r.error = NoError
  /\ r.world.streams = w.streams
  /\ r.world.facts = w.facts \o Stamp(e.id, w.time, e.payload.name, step.facts)
  /\ r.world.pending = RouteEnqueue(RouteDeliveries(e.payload.name, step.facts),
                                    w.time, w.nextId, w.pending)
  /\ r.choices = Publish(e.id, w.time, e.payload.name, step.choices)

Uncommitted(w, r) ==
  /\ r.world.pending = w.pending /\ r.world.facts = w.facts
  /\ \A i \in DOMAIN r.choices : r.choices[i].type = "choice"

LEMMA AcceptedMenusAreMenus ==
  ASSUME NEW name, NEW state, NEW value, NEW time,
         ComponentStep(name, state, value, time).code = "ok"
  PROVE  ComponentStep(name, state, value, time).step.choices \in Seq(Menu)
<1> DEFINE result == Handler(name, state, value, time)
<1>1. ComponentStep(name, state, value, time).step = result
  BY DEF ComponentStep, Checked
<1>2. CheckStep(result) = "ok"
  BY MarkerAssumption DEF ComponentStep, Checked
<1> HIDE DEF result
<1> DEFINE codes == << CheckValue(result.state, "component-state-invalid",
                                  "component-state-authority"),
                       CheckFacts(result.facts),
                       CheckChoices(result.choices) >>
<1>3. DOMAIN codes = 1 .. 3 /\ FirstError(codes) = "ok"
  BY <1>2 DEF CheckStep
<1>4. codes[3] = CheckChoices(result.choices)
  OBVIOUS
<1> HIDE DEF codes
<1>5. \A i \in 1 .. 3 : codes[i] = "ok"
  BY <1>3, FirstErrorOk
<1>6. CheckChoices(result.choices) = "ok"
  BY <1>4, <1>5
<1> QED
  BY <1>1, <1>6 DEF CheckChoices

LEMMA DispatchCommits ==
  ASSUME NEW w, WorldOK(w), NEW e, Dispatchable(e), e.at = w.time
  PROVE  \/ Uncommitted(w, Dispatch(w, e))
         \/ \E step : Committed(w, e, Dispatch(w, e), step)
<1> DEFINE r == Dispatch(w, e)
<1>1. CASE e.kind = "command"
  BY <1>1 DEF Dispatch, Reduced, Uncommitted
<1>2. CASE e.kind = "property-equals"
  <2>1. r.choices = << >> /\ r.world.pending = w.pending /\ r.world.facts = w.facts
    BY <1>2, WorldFields DEF Dispatch, PropertyVerdict, Reduced, WorldOK
  <2> QED
    BY <2>1 DEF Uncommitted
<1>3. CASE e.kind = "choice" /\ e.payload.form = "drawn"
  <2> DEFINE sample == Sample(e.payload.path, w.streams[e.payload.path],
                              Len(e.payload.alternatives))
             choice == ChoiceRecord(e.id, e.at, e.payload,
                                    e.payload.alternatives[sample.index + 1],
                                    sample.coordinates)
  <2>1. r.choices = << choice >> /\ r.world.pending = w.pending /\ r.world.facts = w.facts
    BY <1>3, WorldFields DEF Dispatch, Choose, Reduced, WorldOK
  <2>2. choice.type = "choice"
    BY DEF ChoiceRecord
  <2> HIDE DEF choice, r
  <2> QED
    BY <2>1, <2>2 DEF Uncommitted, r
<1>4. CASE e.kind = "choice" /\ e.payload.form = "selected"
  <2> DEFINE choice == ChoiceRecord(e.id, e.at, e.payload, e.payload.selected,
                                    e.payload.coordinates)
  <2>1. r.choices = << choice >> /\ r.world = w
    BY <1>4 DEF Dispatch, ApplySelected, Reduced
  <2>2. choice.type = "choice"
    BY DEF ChoiceRecord
  <2> HIDE DEF choice, r
  <2> QED
    BY <2>1, <2>2 DEF Uncommitted, r
<1>5. CASE e.kind = "component"
  <2> DEFINE name == e.payload.name
             result == ComponentStep(name, w.states[name], e.payload.value, w.time)
             step == result.step
             c == ComponentCommit(w, e.id, w.time, name, step)
  <2>1. \/ r.world = w /\ r.choices = << >>
        \/ result.code = "ok" /\ name \in Names /\ r = c
    BY <1>5 DEF Dispatch, DispatchComponent, Refused
  <2>2. CASE r.world = w /\ r.choices = << >>
    BY <2>2 DEF Uncommitted
  <2>3. CASE result.code = "ok" /\ name \in Names /\ r = c
    <3>1. step.facts \in Seq(Fact) /\ step.choices \in Seq(Menu)
      BY <2>3, AcceptedStep, AcceptedMenusAreMenus
    <3> HIDE DEF step, result, r
    <3>2. \/ c.world = w /\ c.choices = << >>
          \/ /\ c.error = NoError
             /\ c.world.streams = w.streams
             /\ c.world.facts = w.facts \o Stamp(e.id, w.time, name, step.facts)
             /\ c.world.pending = RouteEnqueue(RouteDeliveries(name, step.facts),
                                               w.time, w.nextId, w.pending)
             /\ c.choices = Publish(e.id, w.time, name, step.choices)
      BY WorldFields DEF ComponentCommit, Reduced, Refused, WorldOK
    <3> HIDE DEF c
    <3>3. CASE c.world = w /\ c.choices = << >>
      BY <2>2, <2>3, <3>3
    <3>4. CASE ~(c.world = w /\ c.choices = << >>)
      <4>1. Committed(w, e, r, step)
        BY <1>5, <2>3, <3>1, <3>2, <3>4 DEF Committed
      <4> HIDE DEF r
      <4> QED
        BY <4>1 DEF r
    <3> QED
      BY <3>3, <3>4
  <2> QED
    BY <2>1, <2>2, <2>3
<1> QED
  BY <1>1, <1>2, <1>3, <1>4, <1>5 DEF Dispatchable

\* The events a committed step routes, and the queue with them.
LEMMA CommitRoutes ==
  ASSUME NEW w, WorldOK(w), NEW e, NEW r, NEW step, Committed(w, e, r, step)
  PROVE  LET d == RouteDeliveries(e.payload.name, step.facts)
         IN  /\ IsSeq(d) /\ Len(d) \in Nat
             /\ ToSet(r.world.pending)
                  = ToSet(w.pending) \cup RoutedEvents(d, w.time, w.nextId)
<1> DEFINE d == RouteDeliveries(e.payload.name, step.facts)
<1>1. IsSeq(step.facts)
  BY DEF Committed, IsSeq
<1>2. IsSeq(d) /\ Len(d) \in Nat
  BY <1>1, DeliveriesAreASeq
<1>3. r.world.pending = RouteEnqueue(d, w.time, w.nextId, w.pending)
  BY DEF Committed
<1> HIDE DEF d
<1>4. /\ w.time \in Nat /\ w.nextId \in Nat
      /\ Queue(w.pending) /\ Ordered(w.pending)
      /\ \A i \in 1 .. Len(w.pending) : w.pending[i].id < w.nextId
  BY DEF WorldOK
<1>5. ToSet(RouteEnqueue(d, w.time, w.nextId, w.pending))
        = ToSet(w.pending) \cup RoutedEvents(d, w.time, w.nextId)
  BY <1>2, <1>4, RouteEnqueueOrdered
<1> QED
  BY <1>2, <1>3, <1>5 DEF d

\* An accepted submission adds exactly its own event.
LEMMA ScheduleAdds ==
  ASSUME NEW w, WorldOK(w), NEW at \in Int, NEW kind, NEW payload,
         Schedule(w, at, kind, payload).error = NoError
  PROVE  LET v == Schedule(w, at, kind, payload).world
             e == Event(w.nextId, at, kind, payload)
         IN  /\ ToSet(v.pending) = ToSet(w.pending) \cup {e}
             /\ v.facts = w.facts /\ v.streams = w.streams
             /\ EventValid(kind, payload) /\ EventOrderValid(kind, payload)
             /\ EventSelectionValid(kind, payload)
             /\ at \in Nat
<1> DEFINE e == Event(w.nextId, at, kind, payload)
           v == Schedule(w, at, kind, payload).world
<1>1. ScheduleError(w, at, kind, payload) = "ok"
  BY ScheduleCodes DEF Schedule, Refused
<1> DEFINE codes ==
        << IF at < 0 THEN "invalid-time" ELSE "ok",
           IF at < w.time THEN "stale-event" ELSE "ok",
           IF EventValid(kind, payload) THEN "ok" ELSE "invalid-event",
           IF EventValid(kind, payload) /\ ~EventOrderValid(kind, payload)
             THEN "choice-alternatives-order" ELSE "ok",
           IF EventValid(kind, payload) /\ ~EventSelectionValid(kind, payload)
             THEN "choice-selection-not-member" ELSE "ok" >>
<1>2. \A i \in 1 .. 5 : codes[i] = "ok"
  <2>1. DOMAIN codes = 1 .. 5 /\ FirstError(codes) = "ok"
    BY <1>1 DEF ScheduleError
  <2> HIDE DEF codes
  <2> QED
    BY <2>1, FirstErrorOk
<1>3. /\ codes[1] = "ok" /\ codes[2] = "ok" /\ codes[3] = "ok"
      /\ codes[4] = "ok" /\ codes[5] = "ok"
  <2> HIDE DEF codes
  <2> QED
    BY <1>2
<1>4. /\ at \in Nat /\ EventValid(kind, payload)
      /\ EventOrderValid(kind, payload) /\ EventSelectionValid(kind, payload)
  BY <1>3
<1> HIDE DEF codes
<1>5. /\ v.pending = InsertEvent(e, w.pending)
      /\ v.facts = w.facts /\ v.streams = w.streams
  BY <1>1, WorldFields DEF Schedule, Reduced, WorldOK
<1>6. e.id = w.nextId /\ e.at = at
  BY DEF Event
<1> HIDE DEF e, v
<1>7. ToSet(InsertEvent(e, w.pending)) = ToSet(w.pending) \cup {e}
  BY <1>4, <1>6, InsertEventOrdered DEF WorldOK
<1> QED
  BY <1>4, <1>5, <1>7 DEF e, v

-------------------------------------------------------------------------------
(***************************************************************************)
(* A world in which nothing was drawn and no drawn choice is pending.      *)
(***************************************************************************)
Undrawn(w) ==
  /\ w.streams = InitialWorld.streams
  /\ \A x \in ToSet(w.pending) : x.kind = "choice" => x.payload.form = "selected"

LEMMA AdvanceUndrawn ==
  ASSUME NEW w, WorldOK(w), Undrawn(w), w.pending # << >>
  PROVE  Undrawn(Advance(w).world)
<1> DEFINE a == Popping(w)
           e == Head(w.pending)
           r == Dispatch(a, e)
<1>1. /\ Advance(w) = r /\ WorldOK(a) /\ a.time = e.at /\ Dispatchable(e)
      /\ a.pending = Tail(w.pending) /\ e = w.pending[1] /\ Len(w.pending) > 0
  BY AdvanceIsDispatch
<1>2. a.streams = w.streams
  BY WorldFields DEF Popping, WorldOK
<1>3. ToSet(a.pending) \subseteq ToSet(w.pending) /\ e \in ToSet(w.pending)
  <2>1. IsSeq(w.pending) /\ Len(w.pending) \in Nat
    BY SeqIsFunction DEF WorldOK, Queue
  <2>2. ToSet(w.pending) = {w.pending[i] : i \in 1 .. Len(w.pending)}
    BY <2>1, ElementsOf
  <2>3. /\ IsSeq(Tail(w.pending)) /\ Len(Tail(w.pending)) = Len(w.pending) - 1
        /\ \A i \in 1 .. Len(w.pending) - 1 : Tail(w.pending)[i] = w.pending[i + 1]
    BY <2>1, TailIsSeq
  <2>4. ToSet(Tail(w.pending)) = {Tail(w.pending)[i] : i \in 1 .. Len(w.pending) - 1}
    BY <2>3, ElementsOf
  <2> HIDE DEF e, a
  <2>5. \A i \in 1 .. Len(w.pending) - 1 : i + 1 \in 1 .. Len(w.pending)
    BY <2>1
  <2> QED
    BY <1>1, <2>1, <2>2, <2>3, <2>4, <2>5
<1> HIDE DEF a, e
<1>4. e.kind = "choice" => e.payload.form = "selected"
  BY <1>3 DEF Undrawn
<1>5. r.world.streams = a.streams
  <2>1. CASE e.kind = "command"
    BY <2>1 DEF Dispatch, Reduced
  <2>2. CASE e.kind = "property-equals"
    BY <1>1, <2>2, WorldFields DEF Dispatch, PropertyVerdict, Reduced, WorldOK
  <2>3. CASE e.kind = "choice" /\ e.payload.form = "selected"
    BY <2>3 DEF Dispatch, ApplySelected, Reduced
  <2>4. CASE e.kind = "component"
    <3> DEFINE result == ComponentStep(e.payload.name, a.states[e.payload.name],
                                       e.payload.value, e.at)
               c == ComponentCommit(a, e.id, e.at, e.payload.name, result.step)
    <3>1. r.world = a \/ r = c
      BY <2>4 DEF Dispatch, DispatchComponent, Refused
    <3>2. c.world.streams = a.streams
      BY <1>1, WorldFields DEF ComponentCommit, Reduced, Refused, WorldOK
    <3> HIDE DEF r, c
    <3> QED
      BY <3>1, <3>2
  <2> QED
    BY <1>1, <1>4, <2>1, <2>2, <2>3, <2>4 DEF Dispatchable
<1>6. \A x \in ToSet(r.world.pending) :
        x \in ToSet(a.pending) \/ x.kind = "component"
  <2>1. CASE Uncommitted(a, r)
    BY <2>1 DEF Uncommitted
  <2>2. ASSUME NEW step, Committed(a, e, r, step)
        PROVE  \A x \in ToSet(r.world.pending) :
                 x \in ToSet(a.pending) \/ x.kind = "component"
    <3> DEFINE d == RouteDeliveries(e.payload.name, step.facts)
    <3>1. ToSet(r.world.pending) = ToSet(a.pending) \cup RoutedEvents(d, a.time, a.nextId)
      BY <1>1, <2>2, CommitRoutes
    <3> HIDE DEF d
    <3>2. \A x \in RoutedEvents(d, a.time, a.nextId) : x.kind = "component"
      BY DEF RoutedEvents, Event
    <3> QED
      BY <3>1, <3>2
  <2> QED
    BY <1>1, <2>1, <2>2, DispatchCommits
<1> QED
  BY <1>1, <1>2, <1>3, <1>5, <1>6 DEF Undrawn

LEMMA ScheduleUndrawn ==
  ASSUME NEW w, WorldOK(w), Undrawn(w), NEW at \in Int, NEW kind, NEW payload,
         Schedule(w, at, kind, payload).error = NoError,
         kind = "choice" => payload.form = "selected"
  PROVE  Undrawn(Schedule(w, at, kind, payload).world)
<1> DEFINE e == Event(w.nextId, at, kind, payload)
           v == Schedule(w, at, kind, payload).world
<1>1. ToSet(v.pending) = ToSet(w.pending) \cup {e} /\ v.streams = w.streams
  BY ScheduleAdds
<1>2. e.kind = kind /\ e.payload = payload
  BY DEF Event
<1> HIDE DEF e, v
<1> QED
  BY <1>1, <1>2 DEF Undrawn, v

-------------------------------------------------------------------------------
(***************************************************************************)
(* The route order lists every match once: a match has as many matches in  *)
(* front of it as its position says, and no two have equally many.         *)
(***************************************************************************)
Ahead(m, matches) == {x \in matches : Earlier(x, m)}

LEMMA RouteOrderIsBijection ==
  ASSUME NEW M \in SUBSET (Nat \X Nat \X Nat), IsFiniteSet(M)
  PROVE  /\ Cardinality(M) \in Nat
         /\ DOMAIN InRouteOrder(M) = 1 .. Cardinality(M)
         /\ \A i \in 1 .. Cardinality(M) : InRouteOrder(M)[i] \in M
         /\ \A i, j \in 1 .. Cardinality(M) :
              InRouteOrder(M)[i] = InRouteOrder(M)[j] => i = j
         /\ \A m \in M : \E i \in 1 .. Cardinality(M) : InRouteOrder(M)[i] = m
<1> DEFINE k == Cardinality(M)
           Place(m) == Cardinality(Ahead(m, M))
           f == [m \in M |-> Place(m) + 1]
<1>1. k \in Nat
  BY FS_CardinalityType
<1>2. ASSUME NEW m \in M
      PROVE  IsFiniteSet(Ahead(m, M)) /\ Place(m) \in Nat /\ Place(m) + 1 <= k
  <2>1. Ahead(m, M) \subseteq M /\ m \notin Ahead(m, M)
    BY DEF Ahead, Earlier
  <2> DEFINE A == Ahead(m, M)
  <2> HIDE DEF A
  <2>2. IsFiniteSet(A) /\ Cardinality(A) \in Nat
    BY <2>1, FS_Subset, FS_CardinalityType DEF A
  <2>3. Cardinality(A \cup {m}) = Cardinality(A) + 1
    BY <2>1, <2>2, FS_AddElement DEF A
  <2>4. Cardinality(A \cup {m}) <= k
    BY <2>1, FS_Subset DEF A
  <2> QED
    BY <2>2, <2>3, <2>4 DEF A
<1>3. ASSUME NEW m \in M, NEW x \in M, Earlier(m, x)
      PROVE  Place(m) < Place(x)
  <2> DEFINE A == Ahead(m, M)
             B == Ahead(x, M)
  <2>1. m \in B /\ m \notin A
    BY <1>3 DEF Ahead, Earlier
  <2>2. ASSUME NEW y \in A  PROVE y \in B
    <3>1. y \in M /\ Earlier(y, m)
      BY DEF Ahead
    <3>2. /\ y[1] \in Nat /\ y[2] \in Nat /\ y[3] \in Nat
          /\ m[1] \in Nat /\ m[2] \in Nat /\ m[3] \in Nat
          /\ x[1] \in Nat /\ x[2] \in Nat /\ x[3] \in Nat
      BY <3>1
    <3>3. Earlier(y, x)
      BY <1>3, <3>1, <3>2 DEF Earlier
    <3> QED
      BY <3>1, <3>3 DEF Ahead
  <2>3. /\ IsFiniteSet(A) /\ Cardinality(A) \in Nat
        /\ IsFiniteSet(B) /\ Cardinality(B) \in Nat
    BY <1>2
  <2> HIDE DEF A, B
  <2>4. Cardinality(A \cup {m}) = Cardinality(A) + 1
    BY <2>1, <2>3, FS_AddElement
  <2>5. A \cup {m} \subseteq B
    BY <2>1, <2>2
  <2>6. Cardinality(A \cup {m}) <= Cardinality(B)
    BY <2>3, <2>5, FS_Subset
  <2> QED
    BY <2>3, <2>4, <2>6 DEF A, B
<1>4. ASSUME NEW m \in M, NEW x \in M, m # x
      PROVE  Earlier(m, x) \/ Earlier(x, m)
  <2>1. m = << m[1], m[2], m[3] >> /\ x = << x[1], x[2], x[3] >>
    OBVIOUS
  <2>2. /\ m[1] \in Nat /\ m[2] \in Nat /\ m[3] \in Nat
        /\ x[1] \in Nat /\ x[2] \in Nat /\ x[3] \in Nat
    OBVIOUS
  <2>3. m[1] # x[1] \/ m[2] # x[2] \/ m[3] # x[3]
    BY <1>4, <2>1
  <2> QED
    BY <2>2, <2>3 DEF Earlier
<1> HIDE DEF Place
<1>5. f \in Injection(M, 1 .. k)
  <2>1. f \in [M -> 1 .. k]
    BY <1>1, <1>2
  <2>2. ASSUME NEW m \in M, NEW x \in M, f[m] = f[x]  PROVE m = x
    <3>1. Place(m) = Place(x) /\ Place(m) \in Nat
      BY <1>2, <2>2
    <3> QED
      BY <1>3, <1>4, <3>1
  <2> HIDE DEF f
  <2> QED
    BY <2>1, <2>2 DEF Injection, IsInjective
<1>6. IsFiniteSet(1 .. k) /\ Cardinality(1 .. k) = k
  BY <1>1, FS_Interval
<1>7. f \in Surjection(M, 1 .. k)
  <2> HIDE DEF f
  <2> QED
    BY <1>5, <1>6, FS_Injection
<1>8. \A i \in 1 .. k : \E m \in M : Place(m) = i - 1
  <2> SUFFICES ASSUME NEW i \in 1 .. k  PROVE \E m \in M : Place(m) = i - 1
    OBVIOUS
  <2>1. PICK m \in M : f[m] = i
    <3> HIDE DEF f
    <3> QED
      BY <1>7 DEF Surjection
  <2>2. Place(m) + 1 = i /\ Place(m) \in Nat
    BY <1>2, <2>1
  <2> QED
    BY <2>2
<1>9. \A i \in 1 .. k :
        InRouteOrder(M)[i] = CHOOSE m \in M : Place(m) = i - 1
  BY DEF InRouteOrder, Place, Ahead
<1>10. \A i \in 1 .. k :
         InRouteOrder(M)[i] \in M /\ Place(InRouteOrder(M)[i]) = i - 1
  BY <1>8, <1>9
<1>11. DOMAIN InRouteOrder(M) = 1 .. k
  BY DEF InRouteOrder
<1>12. ASSUME NEW m \in M  PROVE \E i \in 1 .. k : InRouteOrder(M)[i] = m
  <2> DEFINE i == Place(m) + 1
  <2>1. i \in 1 .. k /\ i - 1 = Place(m)
    BY <1>1, <1>2
  <2> HIDE DEF i
  <2>2. InRouteOrder(M)[i] \in M /\ Place(InRouteOrder(M)[i]) = Place(m)
    BY <1>10, <2>1
  <2>3. Place(m) \in Nat
    BY <1>2
  <2>4. InRouteOrder(M)[i] = m
    BY <1>3, <1>4, <2>2, <2>3
  <2> QED
    BY <2>1, <2>4
<1>13. ASSUME NEW i \in 1 .. k, NEW j \in 1 .. k,
              InRouteOrder(M)[i] = InRouteOrder(M)[j]
       PROVE  i = j
  <2>1. i - 1 = j - 1
    BY <1>10, <1>13
  <2> QED
    BY <2>1
<1> HIDE DEF k
<1> QED
  BY <1>1, <1>10, <1>11, <1>12, <1>13 DEF k

(***************************************************************************)
(* The registry names each component once: its names ascend (registry.shen *)
(* refuses a declaration whose neighbours do not).                         *)
(***************************************************************************)
LEMMA NamesDistinct ==
  ASSUME NEW i \in 1 .. Len(Registry), NEW j \in 1 .. Len(Registry),
         Registry[i] = Registry[j]
  PROVE  i = j
<1> DEFINE n == Len(Registry)
           r(x) == NameRank[Registry[x]]
           T == {k \in Nat : \A x \in 1 .. n : x + k + 1 <= n => r(x) < r(x + k + 1)}
<1>1. n \in Nat /\ \A x \in 1 .. n : r(x) \in Nat
  <2>1. /\ Registry \in Seq(STRING) /\ Names \subseteq ValidNames
        /\ NameRank \in [ValidNames -> Nat]
    BY BootAssumption, ValuesAssumption
  <2>2. n \in Nat /\ DOMAIN Registry = 1 .. n
    BY <2>1
  <2>3. \A x \in 1 .. n : Registry[x] \in ValidNames
    BY <2>1, <2>2 DEF Names, ToSet
  <2> HIDE DEF n
  <2> QED
    BY <2>1, <2>2, <2>3
<1>2. \A x \in 1 .. n - 1 : r(x) < r(x + 1)
  BY BootAssumption DEF NamePrecedes
<1> HIDE DEF n, r
<1>3. 0 \in T
  BY <1>1, <1>2
<1>4. ASSUME NEW k \in Nat, k \in T  PROVE k + 1 \in T
  <2> SUFFICES ASSUME NEW x \in 1 .. n, x + (k + 1) + 1 <= n
               PROVE  r(x) < r(x + (k + 1) + 1)
    OBVIOUS
  <2> DEFINE y == x + k + 1
  <2>1. y \in 1 .. n - 1 /\ y + 1 = x + (k + 1) + 1 /\ x \in 1 .. n
    BY <1>1
  <2>2. r(x) < r(y)
    BY <1>1, <1>4, <2>1
  <2> HIDE DEF y
  <2>3. r(y) < r(y + 1)
    BY <1>2, <2>1
  <2>4. r(x) \in Nat /\ r(y) \in Nat /\ r(y + 1) \in Nat
    BY <1>1, <2>1
  <2> QED
    BY <2>1, <2>2, <2>3, <2>4
<1> HIDE DEF T
<1>5. \A k \in Nat : k \in T
  BY <1>3, <1>4, Runs!Inductive
<1>6. ASSUME NEW x \in 1 .. n, NEW y \in 1 .. n, x < y  PROVE r(x) < r(y)
  <2> DEFINE k == y - x - 1
  <2>1. k \in Nat /\ x + k + 1 = y
    BY <1>1, <1>6
  <2> HIDE DEF k
  <2>2. k \in T
    BY <1>5, <2>1
  <2> QED
    BY <2>1, <2>2 DEF T
<1>7. r(i) = r(j) /\ i \in 1 .. n /\ j \in 1 .. n
  BY DEF r, n
<1>8. r(i) \in Nat /\ i \in Int /\ j \in Int
  BY <1>1, <1>7
<1> QED
  BY <1>6, <1>7, <1>8

(***************************************************************************)
(* A step routes one delivery of a value to a component for each of its    *)
(* facts and routes that bring the one to the other.                       *)
(***************************************************************************)
Reaches(route, n) ==
  route.to = ComponentTarget(n) \/ route.to = NodeTarget(NodeOf[n])

Causes(name, facts, n, v) ==
  {c \in (DOMAIN facts) \X (DOMAIN Routes) :
     /\ facts[c[1]].value = v /\ facts[c[1]].name = Routes[c[2]].fact
     /\ Routes[c[2]].from = name /\ Reaches(Routes[c[2]], n)}

LEMMA DeliveriesCounted ==
  ASSUME NEW name, NEW facts, IsSeq(facts), NEW n \in Names, NEW v
  PROVE  LET d == RouteDeliveries(name, facts)
             K == {k \in 1 .. Len(d) : d[k] = ComponentInput(n, v)}
         IN  /\ IsFiniteSet(K) /\ IsFiniteSet(Causes(name, facts, n, v))
             /\ Cardinality(K) = Cardinality(Causes(name, facts, n, v))
<1> DEFINE M == Matches(name, facts)
           order == InRouteOrder(M)
           d == RouteDeliveries(name, facts)
           K == {k \in 1 .. Len(d) : d[k] = ComponentInput(n, v)}
           C == Causes(name, facts, n, v)
           f == [k \in K |-> << order[k][2], order[k][1] >>]
<1>1. /\ DOMAIN Routes = 1 .. Len(Routes) /\ Len(Routes) \in Nat
      /\ DOMAIN facts = 1 .. Len(facts) /\ Len(facts) \in Nat
      /\ DOMAIN Registry = 1 .. Len(Registry) /\ Len(Registry) \in Nat
      /\ M \in SUBSET (Nat \X Nat \X Nat) /\ IsFiniteSet(M)
  BY MatchesFinite
<1> PICK size : size = Cardinality(M)
  OBVIOUS
<1>2. /\ size \in Nat /\ DOMAIN order = 1 .. size
      /\ \A i \in 1 .. size : order[i] \in M
      /\ \A i, j \in 1 .. size : order[i] = order[j] => i = j
      /\ \A m \in M : \E i \in 1 .. size : order[i] = m
  BY <1>1, RouteOrderIsBijection
<1>3. /\ Len(d) = size
      /\ \A k \in 1 .. size :
           d[k] = ComponentInput(Registry[order[k][3]], facts[order[k][2]].value)
  BY <1>2 DEF RouteDeliveries
<1>4. \A m \in M :
        /\ m[1] \in 1 .. Len(Routes) /\ m[2] \in 1 .. Len(facts)
        /\ m[3] \in 1 .. Len(Registry) /\ m = << m[1], m[2], m[3] >>
        /\ Routes[m[1]].from = name
        /\ Routes[m[1]].fact = facts[m[2]].name
        /\ IF Routes[m[1]].to.type = "component"
           THEN Routes[m[1]].to.id = Registry[m[3]]
           ELSE NodeOf[Registry[m[3]]] = Routes[m[1]].to.id
  BY <1>1, SMTT(60) DEF Matches
<1>5. \A i \in 1 .. Len(Routes) : \A x :
        Reaches(Routes[i], x) <=>
          IF Routes[i].to.type = "component" THEN Routes[i].to.id = x
          ELSE NodeOf[x] = Routes[i].to.id
  <2> SUFFICES ASSUME NEW i \in 1 .. Len(Routes), NEW x
               PROVE  Reaches(Routes[i], x) <=>
                        IF Routes[i].to.type = "component" THEN Routes[i].to.id = x
                        ELSE NodeOf[x] = Routes[i].to.id
    OBVIOUS
  <2> DEFINE To == [type : {"component", "node"}, id : STRING]
             Route == [fact : STRING, from : STRING, to : To]
  <2>1. Routes[i].to \in To
    <3>1. Routes \in Seq(Route)
      BY BootAssumption
    <3> HIDE DEF Route
    <3>2. Routes[i] \in Route
      BY <1>1, <3>1
    <3> QED
      BY <3>2 DEF Route
  <2>2. Routes[i].to = [type |-> Routes[i].to.type, id |-> Routes[i].to.id]
          /\ Routes[i].to.type \in {"component", "node"}
    BY <2>1
  <2> QED
    BY <2>2 DEF Reaches, ComponentTarget, NodeTarget
<1>6. PICK c \in 1 .. Len(Registry) : Registry[c] = n
  BY <1>1 DEF Names, ToSet
<1> HIDE DEF M, order, d
<1>7. ASSUME NEW k \in 1 .. size
      PROVE  k \in K <=> order[k][3] = c /\ facts[order[k][2]].value = v
  <2>1. k \in K <=> Registry[order[k][3]] = n /\ facts[order[k][2]].value = v
    BY <1>3 DEF ComponentInput
  <2>2. order[k][3] \in 1 .. Len(Registry)
    BY <1>2, <1>4
  <2>3. Registry[order[k][3]] = n <=> order[k][3] = c
    BY <1>6, <2>2, NamesDistinct
  <2> QED
    BY <2>1, <2>3
<1>8. \A k \in K : k \in 1 .. size
  BY <1>3
<1>9. f \in Injection(K, C)
  <2>1. ASSUME NEW k \in K  PROVE << order[k][2], order[k][1] >> \in C
    <3>1. /\ order[k] \in M /\ order[k][3] = c
          /\ facts[order[k][2]].value = v
      BY <1>2, <1>7, <1>8
    <3>2. Reaches(Routes[order[k][1]], n)
      BY <1>4, <1>5, <1>6, <3>1
    <3> QED
      BY <1>1, <1>4, <3>1, <3>2 DEF Causes
  <2>2. f \in [K -> C]
    BY <2>1
  <2>3. ASSUME NEW k \in K, NEW l \in K, f[k] = f[l]  PROVE k = l
    <3>1. order[k][2] = order[l][2] /\ order[k][1] = order[l][1]
      BY <2>3
    <3>2. order[k][3] = order[l][3]
      BY <1>7, <1>8
    <3>3. order[k] \in M /\ order[l] \in M
      BY <1>2, <1>8
    <3>4. /\ order[k] = << order[k][1], order[k][2], order[k][3] >>
          /\ order[l] = << order[l][1], order[l][2], order[l][3] >>
      BY <1>4, <3>3
    <3>5. order[k] = order[l]
      BY <3>1, <3>2, <3>4, Zenon
    <3> QED
      BY <1>2, <1>8, <3>5
  <2> HIDE DEF f, K, C
  <2> QED
    BY <2>2, <2>3 DEF Injection, IsInjective
<1>10. ASSUME NEW x \in C  PROVE \E k \in K : f[k] = x
  <2> DEFINE m == << x[2], x[1], c >>
  <2>1. /\ x[1] \in 1 .. Len(facts) /\ x[2] \in 1 .. Len(Routes)
        /\ x = << x[1], x[2] >>
        /\ facts[x[1]].value = v /\ facts[x[1]].name = Routes[x[2]].fact
        /\ Routes[x[2]].from = name /\ Reaches(Routes[x[2]], n)
    BY <1>1 DEF Causes
  <2>2. m \in M
    BY <1>1, <1>5, <1>6, <2>1 DEF M, Matches
  <2>3. PICK k \in 1 .. size : order[k] = m
    BY <1>2, <2>2
  <2>4. k \in K
    BY <1>7, <2>1, <2>3
  <2>5. f[k] = << x[1], x[2] >>
    BY <2>3, <2>4
  <2> QED
    BY <2>1, <2>4, <2>5
<1>11. f \in Surjection(K, C)
  <2>1. f \in [K -> C]
    BY <1>9 DEF Injection
  <2> HIDE DEF f, K, C
  <2> QED
    BY <1>10, <2>1 DEF Surjection
<1>12. IsFiniteSet(K)
  <2>1. IsFiniteSet(1 .. size)
    BY <1>2, FS_Interval
  <2> HIDE DEF K
  <2>2. K \subseteq 1 .. size
    BY <1>8
  <2> QED
    BY <2>1, <2>2, FS_Subset
<1> HIDE DEF K, C, f
<1>13. IsFiniteSet(C) /\ Cardinality(C) = Cardinality(K)
  BY <1>9, <1>11, <1>12, FS_Surjection
<1> QED
  BY <1>12, <1>13 DEF K, C, d

-------------------------------------------------------------------------------
(* Cardinalities of unions and images, and the stamps of a step's facts.   *)

\* Adding a finite set of new elements adds their number.
LEMMA CardinalityOfMore ==
  ASSUME NEW A, IsFiniteSet(A), NEW B, IsFiniteSet(B), A \cap B = {}
  PROVE  /\ Cardinality(A) \in Nat /\ Cardinality(B) \in Nat
         /\ IsFiniteSet(A \cup B)
         /\ Cardinality(A \cup B) = Cardinality(A) + Cardinality(B)
<1>1. /\ IsFiniteSet(A \cup B)
      /\ Cardinality(A \cup B)
           = Cardinality(A) + Cardinality(B) - Cardinality(A \cap B)
  BY FS_Union
<1>2. Cardinality(A) \in Nat /\ Cardinality(B) \in Nat /\ Cardinality(A \cap B) = 0
  BY FS_CardinalityType, FS_EmptySet
<1> QED
  BY <1>1, <1>2

\* A one-to-one image has as many elements.
LEMMA CardinalityOfImage ==
  ASSUME NEW A, IsFiniteSet(A), NEW B, NEW f \in Injection(A, B),
         \A b \in B : \E a \in A : f[a] = b
  PROVE  IsFiniteSet(B) /\ Cardinality(B) = Cardinality(A)
<1>1. f \in [A -> B]
  BY DEF Injection
<1>2. f \in Surjection(A, B)
  BY <1>1 DEF Surjection
<1> QED
  BY <1>2, FS_Surjection

LEMMA StampedIsSeq ==
  ASSUME NEW past, IsSeq(past), NEW facts, IsSeq(facts), NEW id, NEW at, NEW name
  PROVE  LET stamped == Stamp(id, at, name, facts)
             all == past \o stamped
         IN  /\ IsSeq(all) /\ DOMAIN all = 1 .. Len(past) + Len(facts)
             /\ \A i \in 1 .. Len(past) : all[i] = past[i]
             /\ \A i \in 1 .. Len(facts) : all[Len(past) + i] = stamped[i]
             /\ \A i \in 1 .. Len(facts) :
                  /\ stamped[i].component = name
                  /\ stamped[i].event = id /\ stamped[i].time = at
                  /\ stamped[i].name = facts[i].name
                  /\ stamped[i].value = facts[i].value
<1> DEFINE stamped == Stamp(id, at, name, facts)
           all == past \o stamped
           k == Len(past)
<1>1. /\ k \in Nat /\ DOMAIN past = 1 .. k
      /\ Len(facts) \in Nat /\ DOMAIN facts = 1 .. Len(facts)
  BY SeqIsFunction
<1>2. IsSeq(stamped) /\ Len(stamped) = Len(facts)
  <2>1. stamped = [i \in 1 .. Len(facts) |-> stamped[i]]
    BY <1>1 DEF Stamp
  <2> HIDE DEF stamped
  <2> QED
    BY <1>1, <2>1, FunctionIsSeq
<1>3. \A i \in 1 .. Len(facts) :
        /\ stamped[i].component = name
        /\ stamped[i].event = id /\ stamped[i].time = at
        /\ stamped[i].name = facts[i].name /\ stamped[i].value = facts[i].value
  BY <1>1 DEF Stamp
<1> HIDE DEF stamped
<1>4. /\ IsSeq(all) /\ DOMAIN all = 1 .. k + Len(facts)
      /\ \A i \in 1 .. k : all[i] = past[i]
      /\ \A i \in 1 .. Len(facts) : all[k + i] = stamped[i]
  <2>1. /\ IsSeq(all) /\ Len(all) = k + Len(stamped)
        /\ \A i \in 1 .. k : all[i] = past[i]
        /\ \A i \in 1 .. Len(stamped) : all[k + i] = stamped[i]
    <3>1. all = past \o stamped
      OBVIOUS
    <3> HIDE DEF all
    <3>2. IsSeq(all)
      BY <1>2, <3>1, ConcatIsSeq
    <3>3. Len(all) = k + Len(stamped)
      BY <1>2, <3>1, ConcatIsSeq
    <3>4. \A i \in 1 .. k : all[i] = past[i]
      BY <1>2, <3>1, ConcatIsSeq
    <3>5. \A i \in 1 .. Len(stamped) : all[k + i] = stamped[i]
      BY <1>2, <3>1, ConcatIsSeq
    <3> QED
      BY <3>2, <3>3, <3>4, <3>5
  <2> HIDE DEF all
  <2>2. DOMAIN all = 1 .. Len(all)
    BY <2>1, SeqIsFunction
  <2> QED
    BY <1>2, <2>1, <2>2
<1> HIDE DEF all
<1> QED
  BY <1>3, <1>4 DEF all, stamped

-------------------------------------------------------------------------------
(***************************************************************************)
(* A refusal is never mistaken for a success: no code of the contract, and *)
(* no code a component may give, is the marker of success.                 *)
(***************************************************************************)
ContractCodes ==
  {"component-state-invalid", "component-state-authority",
   "component-facts-shape", "component-fact-name", "component-fact-invalid",
   "component-fact-authority", "component-choices-shape",
   "component-choice-purpose", "component-choice-order",
   "component-choice-empty", "component-alternative-invalid",
   "component-alternative-authority", "component-alternative-order"}

LEMMA ContractRefusals ==
  ASSUME NEW step  PROVE CheckStep(step) \in ContractCodes \cup {"ok"}
<1> DEFINE OK == ContractCodes \cup {"ok"}
<1>1. \A v : /\ CheckValue(v, "component-state-invalid",
                           "component-state-authority") \in OK
             /\ CheckValue(v, "component-fact-invalid",
                           "component-fact-authority") \in OK
             /\ CheckValue(v, "component-alternative-invalid",
                           "component-alternative-authority") \in OK
  BY DEF CheckValue, ContractCodes
<1>2. CheckFacts(step.facts) \in OK
  <2>1. CASE step.facts \notin Seq(Fact)
    BY <2>1 DEF CheckFacts, ContractCodes
  <2>2. CASE step.facts \in Seq(Fact)
    <3> DEFINE n == Len(step.facts)
               codes == [i \in 1 .. n |-> CheckFact(step.facts[i])]
    <3>1. n \in Nat
      BY <2>2
    <3>2. \A i \in 1 .. n : codes[i] \in OK
      BY <1>1 DEF CheckFact, ContractCodes
    <3>3. CheckFacts(step.facts) = FirstError(codes) /\ DOMAIN codes = 1 .. n
      BY <2>2 DEF CheckFacts
    <3> HIDE DEF codes, n
    <3> QED
      BY <3>1, <3>2, <3>3, FirstErrorAmong
  <2> QED
    BY <2>1, <2>2
<1>3. ASSUME NEW a, a \in Seq(Values)  PROVE CheckAlternatives(a) \in OK
  <2> DEFINE n == Len(a)
             codes == [i \in 1 .. n |-> CheckAlternative(a, i)]
  <2>1. n \in Nat
    BY <1>3
  <2>2. \A i \in 1 .. n : codes[i] \in OK
    BY <1>1 DEF CheckAlternative, ContractCodes
  <2>3. DOMAIN codes = 1 .. n
    OBVIOUS
  <2>4. CheckAlternatives(a) = "component-choice-empty"
          \/ CheckAlternatives(a) = FirstError(codes)
    BY DEF CheckAlternatives
  <2> HIDE DEF codes, n
  <2>5. FirstError(codes) \in OK
    BY <2>1, <2>2, <2>3, FirstErrorAmong
  <2> QED
    BY <2>4, <2>5 DEF ContractCodes
<1>4. CheckChoices(step.choices) \in OK
  <2>1. CASE step.choices \notin Seq(Menu)
    BY <2>1 DEF CheckChoices, ContractCodes
  <2>2. CASE step.choices \in Seq(Menu)
    <3> DEFINE n == Len(step.choices)
               codes == [i \in 1 .. n |-> CheckChoice(step.choices, i)]
    <3>1. n \in Nat
      BY <2>2
    <3>2. ASSUME NEW i \in 1 .. n  PROVE codes[i] \in OK
      <4>1. step.choices[i].alternatives \in Seq(Values)
        <5>1. step.choices[i] \in Menu
          BY <2>2, <3>1
        <5> QED
          BY <5>1 DEF Menu
      <4>2. CheckAlternatives(step.choices[i].alternatives) \in OK
        BY <1>3, <4>1
      <4> QED
        BY <4>2 DEF CheckChoice, ContractCodes
    <3>3. CheckChoices(step.choices) = FirstError(codes) /\ DOMAIN codes = 1 .. n
      BY <2>2 DEF CheckChoices
    <3> HIDE DEF codes, n
    <3> QED
      BY <3>1, <3>2, <3>3, FirstErrorAmong
  <2> QED
    BY <2>1, <2>2
<1> DEFINE codes == << CheckValue(step.state, "component-state-invalid",
                                  "component-state-authority"),
                       CheckFacts(step.facts), CheckChoices(step.choices) >>
<1>5. DOMAIN codes = 1 .. 3 /\ \A i \in 1 .. 3 : codes[i] \in OK
  BY <1>1, <1>2, <1>4
<1>6. CheckStep(step) = FirstError(codes)
  BY DEF CheckStep
<1> HIDE DEF codes
<1> QED
  BY <1>5, <1>6, FirstErrorAmong

LEMMA RefusalsHaveCodes ==
  ASSUME NEW name, NEW state, NEW value, NEW time
  PROVE  ComponentStep(name, state, value, time).code # NoError
<1> DEFINE result == Handler(name, state, value, time)
<1>1. CheckStep(result) # NoError
  BY ContractRefusals DEF ContractCodes, NoError
<1> HIDE DEF result
<1>2. Checked(result).code # NoError
  BY <1>1, NoErrorAssumption DEF Checked, NoError
<1> QED
  BY <1>2 DEF ComponentStep, result

-------------------------------------------------------------------------------
(***************************************************************************)
(* A dispatch is heard by at most one component: it commits what one       *)
(* handler returned, or it leaves facts, states and the queue as they are. *)
(***************************************************************************)
Commits(w, r, n, value, at, id, step) ==
  /\ n \in Names
  /\ step = Handler(n, w.states[n], value, at)
  /\ step.type \notin {"raise", "error"}
  /\ step.facts \in Seq(Fact) /\ step.choices \in Seq(Menu)
  /\ \A i \in 1 .. Len(step.facts) : step.facts[i].value \in Canonical
  /\ r.world.facts = w.facts \o Stamp(id, at, n, step.facts)
  /\ r.world.states = [w.states EXCEPT ![n] = step.state]
  /\ r.world.pending = RouteEnqueue(RouteDeliveries(n, step.facts), at, w.nextId, w.pending)
  /\ r.error = NoError
  /\ r.choices = Publish(id, at, n, step.choices)

Passes(w, r, kind) ==
  /\ r.world.facts = w.facts /\ r.world.states = w.states
  /\ r.world.pending = w.pending
  /\ kind = "component" => r.error # NoError

LEMMA DispatchIsHeard ==
  ASSUME NEW w, WorldOK(w), NEW e, Dispatchable(e)
  PROVE  \/ Passes(w, Dispatch(w, e), e.kind)
         \/ /\ e.kind = "component"
            /\ \E step : Commits(w, Dispatch(w, e), e.payload.name, e.payload.value,
                                 e.at, e.id, step)
<1> DEFINE r == Dispatch(w, e)
<1>1. CASE e.kind = "command"
  BY <1>1 DEF Dispatch, Reduced, Passes
<1>2. CASE e.kind = "property-equals"
  <2>1. /\ r.world.facts = w.facts /\ r.world.states = w.states
        /\ r.world.pending = w.pending
    BY <1>2, WorldFields DEF Dispatch, PropertyVerdict, Reduced, WorldOK
  <2> QED
    BY <1>2, <2>1 DEF Passes
<1>3. CASE e.kind = "choice"
  <2>1. /\ r.world.facts = w.facts /\ r.world.states = w.states
        /\ r.world.pending = w.pending
    BY <1>3, WorldFields
       DEF Dispatch, Dispatchable, Choose, ApplySelected, Reduced, WorldOK
  <2> QED
    BY <1>3, <2>1 DEF Passes
<1>4. CASE e.kind = "component"
  <2> DEFINE name == e.payload.name
             result == ComponentStep(name, w.states[name], e.payload.value, e.at)
             step == result.step
             c == ComponentCommit(w, e.id, e.at, name, step)
  <2>1. \/ r = Refused(w, "component-unknown")
        \/ result.code # "ok" /\ r = Refused(w, result.code)
        \/ result.code = "ok" /\ name \in Names /\ r = c
    BY <1>4 DEF Dispatch, DispatchComponent
  <2>2. CASE r = Refused(w, "component-unknown")
    BY <2>2 DEF Refused, NoError, Passes
  <2>3. CASE r = Refused(w, result.code)
    <3>1. result.code # NoError
      BY RefusalsHaveCodes
    <3> HIDE DEF result, r
    <3> QED
      BY <2>3, <3>1 DEF Refused, Passes, r
  <2>4. CASE result.code = "ok" /\ name \in Names /\ r = c
    <3>1. step.facts \in Seq(Fact) /\ step.choices \in Seq(Menu)
      BY <2>4, AcceptedStep, AcceptedMenusAreMenus
    <3>2. \A i \in 1 .. Len(step.facts) : step.facts[i].value \in Canonical
      BY <2>4, AcceptedStep
    <3>3. /\ step = Handler(name, w.states[name], e.payload.value, e.at)
          /\ step.type \notin {"raise", "error"}
      BY <2>4, MarkerAssumption DEF ComponentStep, Checked
    <3> HIDE DEF step, result, r
    <3>4. \/ c = Refused(w, "route-cascade-exceeded")
          \/ /\ c.error = NoError
             /\ c.world.facts = w.facts \o Stamp(e.id, e.at, name, step.facts)
             /\ c.world.states = [w.states EXCEPT ![name] = step.state]
             /\ c.world.pending = RouteEnqueue(RouteDeliveries(name, step.facts), e.at,
                                               w.nextId, w.pending)
             /\ c.choices = Publish(e.id, e.at, name, step.choices)
      BY WorldFields DEF ComponentCommit, Reduced, WorldOK
    <3> HIDE DEF c
    <3>5. CASE c = Refused(w, "route-cascade-exceeded")
      <4>1. Passes(w, r, e.kind)
        BY <2>4, <3>5 DEF Refused, NoError, Passes
      <4> QED
        BY <4>1 DEF r
    <3>6. CASE c # Refused(w, "route-cascade-exceeded")
      <4>1. Commits(w, r, name, e.payload.value, e.at, e.id, step)
        BY <2>4, <3>1, <3>2, <3>3, <3>4, <3>6 DEF Commits
      <4> HIDE DEF name
      <4>2. \E s : Commits(w, r, name, e.payload.value, e.at, e.id, s)
        BY <4>1
      <4> QED
        BY <1>4, <4>2 DEF r, name
    <3> QED
      BY <3>5, <3>6
  <2> QED
    BY <2>1, <2>2, <2>3, <2>4
<1> QED
  BY <1>1, <1>2, <1>3, <1>4 DEF Dispatchable
==============================================================================
