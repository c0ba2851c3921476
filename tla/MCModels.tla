------------------------------- MODULE MCModels -------------------------------
(***************************************************************************)
(* Two small worlds of built-in models for TLC: faults that reach a        *)
(* process and the network's masks, or timers whose instants pass; and     *)
(* packets that wait while masks come and go.                              *)
(***************************************************************************)
EXTENDS Witness

CONSTANT MaxQueue \* packets that can wait on one link (bound of the values)

Nodes == {"n1", "n2"}
MCLinks == {<< "n1", "n2" >>, << "n2", "n1" >>}
MCAddressOf == [n1 |-> 1, n2 |-> 2]
There == << "n1", "n2" >>
Back  == << "n2", "n1" >>

\* A body of 3 becomes 4 and 4 becomes 5, as often as it can or not at all, so
\* that 3 comes out as three packets; what is for n1 and has body 4 is withheld.
MCVocabulary == [src |-> {1, 2}, dst |-> {1, 2}, body |-> {3, 4, 5}]
X == Packet(1, 2, 5)
Y == Packet(2, 1, 3)
Step(from, to) == NkSeq(NkTest("body", from), NkSet("body", to))
MCBaseline ==
  NkSeq(NkStar(NkUnion(Step(3, 4), Step(4, 5))),
        NkNeg(NkSeq(NkTest("dst", 1), NkTest("body", 4))))

MCMaskId(domain, kind) == << domain, kind >>
MCMembersOf == [d |-> {"n1"}, e |-> {"n1", "n2"}]
FaultKinds == [d |-> {"crash", "restart"}, e |-> {"crash", "partition"}]
NetKinds   == [d |-> {"partition", "delay"}, e |-> {"drop", "restart"}]

FaultRoster == << "fault-0", "net-0", "p", "timer-0" >>
NetRoster   == << "fault-0", "net-0" >>
KindByName(roster) ==
  [n \in ToSet(roster) |-> CASE n = "fault-0" -> "fault"
                             [] n = "net-0" -> "net"
                             [] n = "p" -> "process"
                             [] OTHER -> "timer"]
FaultKindByName == KindByName(FaultRoster)
NetKindByName   == KindByName(NetRoster)

MCNodeOf == [n \in DOMAIN KindOf |-> IF n = "p" THEN "n1" ELSE "n2"]

Route(fact, to) == [fact |-> fact, from |-> "fault-0", to |-> to]
MaskRoutes == << Route("mask", ComponentTarget("net-0")),
                 Route("unmask", ComponentTarget("net-0")) >>
FaultRoutes == << Route("crash", ComponentTarget("p")),
                  Route("restart", ComponentTarget("p")) >> \o MaskRoutes

PolicyTable == [masks \in SUBSET ToSet(Masks) |-> PolicyOf(masks)]
MCPolicies  == PolicyTable
BaselineTable   == BaselineMeaning
MCBaselineMakes == BaselineTable

-------------------------------------------------------------------------------
Worker(did) == [did |-> did]
MCInnerInit == [n \in {"p"} |-> Worker(0)]
MCInner(name, state, input, time) ==
  IF input.kind = "work"
  THEN Steps(Worker(state.did + 1),
             << FactOf("did", Worker(state.did + 1)) >>, << >>)
  ELSE Steps(state, << >>, << >>)

MCUnspecified == [detail |-> "none"]

To(name, value, at) ==
  [at |-> at, kind |-> "component", payload |-> ComponentInput(name, value)]
Operate(domain, kind, operation) ==
  To("fault-0", FaultAction(domain, kind, operation), 0)
Work == [kind |-> "work"]
Take(action, index, via) ==
  To("net-0", DeliverInput(NetAlternative(action, index, via)), 0)

FaultInputs ==
  {Operate("d", "crash", "activate"), Operate("d", "crash", "deactivate"),
   Operate("d", "restart", "activate"), Operate("e", "crash", "activate"),
   Operate("e", "partition", "activate"), Operate("e", "partition", "deactivate"),
   To("p", Work, 0)}

NetInputs ==
  {To("net-0", SendInput(X, There), 0), To("net-0", SendInput(Y, Back), 0),
   Take("deliver", 0, There), Take("duplicate", 0, Back), Take("drop", 1, There),
   Operate("d", "partition", "activate"), Operate("d", "partition", "deactivate"),
   Operate("d", "delay", "activate"), Operate("e", "drop", "activate")}

TimerInputs ==
  {To("timer-0", TimerInput("set", id, due), at) :
     id \in {"s", "t"}, due \in 0 .. 1, at \in {0}}
  \cup {To("timer-0", TimerInput(kind, "s", 0), at) :
          kind \in {"cancel", "fire"}, at \in 0 .. 1}
  \cup {To("timer-0", [kind |-> "poll"], 2)}

FaultAndTimerInputs == FaultInputs \cup TimerInputs

-------------------------------------------------------------------------------
(* The values in use and the order the menus are sorted in.                *)

MCMasks == {Mask(MaskId(d, k), k, {AddressOf[n] : n \in MembersOf[d]}) :
              d \in Domains, k \in {"delay", "drop", "partition"}}
QueuesOf(via) == BoundedSeq(IF via = There THEN {X} ELSE {Y}, MaxQueue)
PendingQueues ==
  {[via \in Links |-> IF via = There THEN there ELSE back] :
     there \in QueuesOf(There), back \in QueuesOf(Back)}

DeclaredMasks == {m \in MCMasks : \E d \in Domains : m.id[1] = d /\ m.fault \in KindsOf[d]}

FaultStates == {FaultState(a) : a \in [Domains -> SUBSET UNION {KindsOf[d] : d \in Domains}]}
NetStates == {NetState(masks, pending) : masks \in SUBSET DeclaredMasks,
                                         pending \in PendingQueues}
Deadlines == {Deadline(id, due) : id \in {"s", "t"}, due \in 0 .. 1}
TimerStates == {TimerState(ds) : ds \in SUBSET Deadlines}
ProcessStates ==
  {ProcessState(absorbed, Worker(did), status) :
     absorbed \in 0 .. 2 * MaxInputs, did \in 0 .. MaxInputs,
     status \in {"running", "crashed"}}

StatesInUse ==
  UNION {CASE kind = "fault" -> FaultStates [] kind = "net" -> NetStates
           [] kind = "timer" -> TimerStates [] kind = "process" -> ProcessStates :
         kind \in {KindOf[n] : n \in DOMAIN KindOf}}

ValuesInUse ==
  StatesInUse
  \cup {i.payload.value : i \in Inputs}
  \cup AllFaultActions
  \cup {Control(k, d) : k \in {"crash", "restart"}, d \in Domains}
  \cup {MaskInput(m) : m \in MCMasks} \cup {UnmaskInput(m.id) : m \in MCMasks}
  \cup {[id |-> m.id] : m \in MCMasks}
  \cup {NetAlternative(action, index, via) :
           action \in {"deliver", "drop", "duplicate"},
           index \in 0 .. MaxQueue, via \in Links}
  \cup {Transfer(X, There), Transfer(Y, Back)}
  \cup {Delivered(X, X, There), Delivered(Y, Y, Back), Delivered(Packet(2, 1, 5), Y, Back)}
  \cup DeclaredMasks
  \cup HeaderSpace \cup Deadlines \cup {MCUnspecified, RestartedValue}
  \cup {CrashedValue(n) : n \in 0 .. 2 * MaxInputs}
  \cup {Worker(n) : n \in 0 .. MaxInputs}

Place(element, order) == CHOOSE i \in DOMAIN order : order[i] = element
KindOrder == << "crash", "delay", "drop", "partition", "restart" >>

RankOf(v) ==
  IF "operation" \in DOMAIN v /\ "domain" \in DOMAIN v
  THEN 100 * Place(v.domain, << "d", "e", "f" >>) + 10 * Place(v.kind, KindOrder)
       + Place(v.operation, << "activate", "deactivate" >>)
  ELSE IF "action" \in DOMAIN v
  THEN 100 * Place(v.action, << "deliver", "drop", "duplicate" >>)
       + 10 * v.index + Place(v.via, << There, Back >>)
  ELSE IF "due" \in DOMAIN v
  THEN 10 * v.due + Place(v.id, << "s", "t" >>)
  ELSE IF "body" \in DOMAIN v THEN 100 * v.body + 10 * v.dst + v.src
  ELSE IF "fault" \in DOMAIN v /\ "id" \in DOMAIN v
  THEN 10 * Place(v.id[1], << "d", "e" >>) + Place(v.id[2], KindOrder)
  ELSE 0
Ranks == [v \in ValuesInUse |-> RankOf(v)]
MasksById ==
  SetToSortSeq(DeclaredMasks, LAMBDA mask, other : RankOf(mask) < RankOf(other))

NameOrder ==
  << "activated", "armed", "blocked", "cancelled", "crash", "crashed",
     "deactivated", "delivered", "delivery", "did", "dropped",
     "fault-0", "fault-action", "fault-already-active",
     "fault-kind-pulse", "fault-kind-undeclared", "fault-not-active",
     "fault-unknown-domain", "fired", "mask", "masked", "net-0",
     "net-index-range", "net-mask-duplicate", "net-mask-unknown",
     "net-unknown-link", "p", "queued", "restart", "restarted",
     "term-too-large", "timer-0",
     "timer-deadline-stale", "timer-duplicate", "timer-fire", "timer-not-due",
     "timer-unknown", "unmask", "unmasked" >>
NamesInUse == ToSet(NameOrder)
NameRanks  == [n \in NamesInUse |-> Place(n, NameOrder)]

\* TLC keeps the value of a definition, but not that of a constant's: what
\* is given to the constants refers to definitions that it has evaluated.
MCValues   == ValuesInUse
MCRank     == Ranks
MCDeclaredMasks == MasksById
MCNames    == NamesInUse
MCNameRank == NameRanks
FaultKindOf == FaultKindByName
NetKindOf   == NetKindByName

\* A caller submits no more than two inputs ahead of the queue.
FewPending == Len(world.pending) <= 2

\* What is submitted ahead matters behind the fault model only, whose routed
\* masks fall in behind it: the network takes its inputs in their order.
AheadOfFaults ==
  Len(world.pending) = 2 =>
    \/ world.pending[1].payload.name = "fault-0"
    \/ world.pending[2].payload.value.kind \in {"mask", "unmask"}

\* The packets and the timers share no state: a caller uses the one or the
\* other.
OneSubject ==
  LET timed == {i \in Submitted(world) :
                  world.transcript[i].payload.name = "timer-0"}
  IN  timed = {} \/ timed = Submitted(world)

NoDraw(path, number, block) == 0

\* What TimersAreConserved asks of the byte order, of the deadlines in use.
ASSUME DeadlinesApart ==
  \A u, v \in Deadlines : RankOf(u) = RankOf(v) => u = v

\* What MenusAreExact asks of it: of every action, and of what waits together.
ApartIn(V) == \A u, v \in V : RankOf(u) = RankOf(v) => u = v
ASSUME ActionsApart == ApartIn(AllFaultActions)
ASSUME AlternativesApart == \A pending \in PendingQueues : ApartIn(NetAlternatives(pending))

\* What NothingCrosses asks of the policies, of the masks in use; and of the
\* byte order.
ASSUME PoliciesJudge ==
  \A masks \in SUBSET DeclaredMasks :
    PolicyTable[masks].code = "ok" =>
      \A p \in HeaderSpace :
        PolicyTable[masks].made[p] = IF Admits(masks, p) THEN BaselineTable[p] ELSE {}
ASSUME OutputsApart == \A p \in HeaderSpace : ApartIn(BaselineTable[p])

\* What FaultsTakeEffect asks of the routes, the identifiers and the caller.
ASSUME RoutesReach == FaultsAreHeard
ASSUME IdentifiersApart == MasksAreTold
ASSUME WordsAreTheModels == CallersLeaveWords

===============================================================================
