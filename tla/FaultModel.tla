------------------------------ MODULE FaultModel ------------------------------
(***************************************************************************)
(* The fault model (shen/world/models/fault.shen): named states over the   *)
(* declared fault domains, as a component handler of the world kernel.     *)
(* Reachability faults become masks of the network, crash and restart      *)
(* become control inputs of the processes.                                 *)
(***************************************************************************)
EXTENDS NetModel

CONSTANTS
  Domains,  \* identifiers of the declared fault domains
  KindsOf,  \* the fault kinds each domain declares
  MembersOf, \* the nodes each domain covers
  MaskId(_, _) \* the mask identifier of a domain and a kind

ASSUME DomainsAssumption ==
  IsFiniteSet(Domains) /\ \A d \in Domains : IsFiniteSet(KindsOf[d])

FaultState(active) == [active |-> active]

FaultInitial == FaultState([d \in Domains |-> {}])

FaultAction(domain, kind, operation) ==
  [kind |-> kind, domain |-> domain, operation |-> operation]

Pulse(kind)        == kind = "restart"
ProcessFault(kind) == kind \in {"crash", "restart"}

OperationFor(active, kind) ==
  IF ~Pulse(kind) /\ kind \in active THEN "deactivate" ELSE "activate"

FaultAlternatives(active) ==
  UNION {{FaultAction(d, k, OperationFor(active[d], k)) : k \in KindsOf[d]} :
         d \in Domains}

FaultChoices(active) == Choice("fault-action", FaultAlternatives(active))

FaultResult(active, facts) ==
  Steps(FaultState(active), facts, FaultChoices(active))

Control(kind, domain) == [kind |-> kind, members |-> MembersOf[domain]]

\* The value of a crash, restart or mask fact is its receiver's input.
Onset(domain, kind) ==
  IF ProcessFault(kind) THEN FactOf(kind, Control(kind, domain))
  ELSE FactOf("mask",
               MaskInput(Mask(MaskId(domain, kind), kind,
                              {AddressOf[n] : n \in MembersOf[domain]})))

ReleaseOf(domain, kind) ==
  IF ProcessFault(kind) THEN FactOf("restart", Control("restart", domain))
  ELSE FactOf("unmask", UnmaskInput(MaskId(domain, kind)))

Activate(active, d, kind) ==
  IF kind \notin KindsOf[d] THEN ModelFails("fault-kind-undeclared")
  ELSE IF ~Pulse(kind) /\ kind \in active[d]
  THEN ModelFails("fault-already-active")
  ELSE FaultResult(IF Pulse(kind) THEN active
                   ELSE [active EXCEPT ![d] = @ \cup {kind}],
                   << Onset(d, kind),
                      FactOf("activated", FaultAction(d, kind, "activate")) >>)

\* Fault: the domain stays active.
DeactivateKeeping(active, d, kind) ==
  IF kind \notin KindsOf[d] THEN ModelFails("fault-kind-undeclared")
  ELSE IF Pulse(kind) THEN ModelFails("fault-kind-pulse")
  ELSE IF kind \notin active[d] THEN ModelFails("fault-not-active")
  ELSE FaultResult(active,
                   << ReleaseOf(d, kind),
                      FactOf("deactivated", FaultAction(d, kind, "deactivate")) >>)

Deactivate(active, d, kind) ==
  IF kind \notin KindsOf[d] THEN ModelFails("fault-kind-undeclared")
  ELSE IF Pulse(kind) THEN ModelFails("fault-kind-pulse")
  ELSE IF kind \notin active[d] THEN ModelFails("fault-not-active")
  ELSE FaultResult([active EXCEPT ![d] = @ \ {kind}],
                   << ReleaseOf(d, kind),
                      FactOf("deactivated", FaultAction(d, kind, "deactivate")) >>)

FaultStep(state, input) ==
  IF input.operation = "poll" THEN FaultResult(state.active, << >>)
  ELSE IF input.domain \notin Domains THEN ModelFails("fault-unknown-domain")
  ELSE CASE input.operation = "activate" ->
              Activate(state.active, input.domain, input.kind)
         [] input.operation = "deactivate" ->
              Deactivate(state.active, input.domain, input.kind)
         [] OTHER -> ModelFails("fault-unknown-operation")
===============================================================================
