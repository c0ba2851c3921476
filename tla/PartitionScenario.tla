--------------------------- MODULE PartitionScenario ---------------------------
(***************************************************************************)
(* The partition-retry scenario as the driver runs it: the world kernel,   *)
(* the five processes in their crash-aware wrappers, the declared routes   *)
(* and the two declared properties                                         *)
(* (scenarios/abstract/partition-retry.shen).                              *)
(***************************************************************************)
EXTENDS Driver, PartitionRetry, Crash, Verdicts

ScenarioInitial == [name \in ToSet(Roster) |-> ProcessInitial(InitialOf[name])]

\* No fault domain is bound: the wrapper hears neither crash nor restart.
ScenarioHandler(name, state, input, time) ==
  CrashAware(InitialOf[name], state, "none",
             Process(name, state.inner, input, time))

\* Every component is a process, so every menu is answered by its process.
ScenarioNodes ==
  [name \in ToSet(Roster) |-> CASE name = "relay" -> "b"
                                [] name = "server" -> "c"
                                [] OTHER -> "a"]

ScenarioPaths == {<< "fault-0", "fault" >>, << "net-0", "delivery" >>}

ScenarioStates ==
  {ProcessInitial(s) :
     s \in {FaultState, PeerState} \cup {ClientState(n) : n \in 0 .. RetryLimit + 1}
           \cup {NetState(cut, n) : cut \in BOOLEAN, n \in 0 .. RetryLimit + 1}}

ScenarioValues == Messages \cup ScenarioStates

\* Canonical byte order, as far as the menus read it.
ScenarioRank ==
  [v \in ScenarioValues |-> IF v \in {Never, Relayed} THEN 1 ELSE 0]

ScenarioNames ==
  << "ack", "client", "deliver", "delivery", "fault", "fault-0", "gave-up",
     "hop", "masked", "net-0", "partition", "relay", "reply", "request",
     "respond", "server", "timeout" >>
ScenarioNameSet == ToSet(ScenarioNames)
ScenarioNameRank ==
  [n \in ToSet(ScenarioNames) |->
     CHOOSE i \in DOMAIN ScenarioNames : ScenarioNames[i] = n]

-------------------------------------------------------------------------------
(* The declared properties, over facts by name and source, of any value.    *)

PatternValue(name, source) ==
  [name |-> name, source |-> << source >>, value |-> << >>]

ScenarioDeclared ==
  << [id |-> "client-ack", form |-> "liveness", deadline |-> 8,
      first |-> PatternValue("ack", "client")],
     [id |-> "request-served", form |-> "always-eventually",
      first |-> PatternValue("request", "client"),
      then |-> PatternValue("respond", "net-0"), window |-> 8] >>

ScenarioEvaluate(facts) ==
  LET judged == EvaluateAll(ScenarioDeclared, facts)
  IN  [code |-> judged.code, signature |-> FailureSignature(judged.verdicts)]

ScenarioPasses == << >>

NoDraw(path, number, block) == 0

-------------------------------------------------------------------------------
Count(name) ==
  Cardinality({i \in DOMAIN world.facts : world.facts[i].name = name})

FirstRequest == SelectInSeq(world.facts, LAMBDA e : e.name = "request")

Chosen(alternative) ==
  \E i \in DOMAIN Selections : Selections[i].payload.selected = alternative

(***************************************************************************)
(* "The protocol keeps at most one in flight (retries only follow          *)
(* timeouts)" (partition-retry.shen:231-233): the network's one pending    *)
(* slot is never overwritten, and a request waits only in one place.       *)
(***************************************************************************)
OneInFlight ==
  /\ Count("request") <= Count("timeout") + Count("respond") + 1
  /\ Count("ack") + Count("gave-up") <= 1
  /\ world.states["net-0"].inner.pending # 0 =>
       world.states["net-0"].inner.pending = Count("request")

(***************************************************************************)
(* What an attempt ends in is decided by the fault's choice alone: without *)
(* the partition the client is answered, whichever paths are taken; with   *)
(* it the mask lands while the reply is on its way, the retries meet the   *)
(* cut and the client gives up after its last try: "no ack, both           *)
(* properties FAIL ... Discovery is therefore the driver's, not the        *)
(* declaration's" (scenarios/abstract/partition-retry.shen:243-249).  No   *)
(* attempt is aborted, and a run that explores all its attempts saw one    *)
(* signature.  The failure names the first unanswered request, so that a   *)
(* shorter transcript with the same signature must still send that request *)
(* and still leave it unanswered (partition-retry.shen:178-184).           *)
(***************************************************************************)
PartitionDiscovered ==
  /\ summary.errors = << >>
  /\ Quiescent =>
       /\ Chosen(Never) # Chosen(Early)
       /\ Chosen(Never) => Count("ack") = 1 /\ Count("request") = 1
       /\ Chosen(Early) => /\ Count("gave-up") = 1 /\ Count("respond") = 0
                           /\ Count("request") = RetryLimit
       /\ \A judged \in {ScenarioEvaluate(world.facts)} :
            /\ judged.code = "ok"
            /\ judged.signature = ScenarioPasses <=> Chosen(Never)
            /\ Chosen(Early) =>
                 /\ Len(judged.signature) = Len(ScenarioDeclared)
                 /\ judged.signature[1].witness = NoWitness
                 /\ judged.signature[2].witness = EntryWitness(world.facts, FirstRequest)
  /\ phase = "discovered" => Chosen(Early)
  /\ phase = "exhausted" => summary.signatures = << ScenarioPasses >>
===============================================================================
