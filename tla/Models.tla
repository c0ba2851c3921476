-------------------------------- MODULE Models --------------------------------
(***************************************************************************)
(* The built-in models at work in one world: the fault model tells the     *)
(* network and the processes, over declared routes, what it activates; the *)
(* caller sends packets, takes alternatives of the menus, arms timers.     *)
(* Handlers are dispatched by the component's declared kind                *)
(* (shen/world/models/registry.shen).                                      *)
(***************************************************************************)
EXTENDS Lifetimes, FaultModel

CONSTANT BaselineMakes \* what the baseline policy relates each packet to

ModelHandler(name, state, input, time) ==
  CASE KindOf[name] = "fault" -> FaultStep(state, input)
    [] KindOf[name] = "net"   -> NetStep(state, input)
    [] KindOf[name] = "timer" -> TimerStep(state, input, time)
    [] KindOf[name] = "process" -> ProcessStep(name, state, input, time)

ModelInit ==
  [n \in DOMAIN KindOf |->
     CASE KindOf[n] = "fault" -> FaultInitial
       [] KindOf[n] = "net"   -> NetInitial
       [] KindOf[n] = "timer" -> TimerInitial
       [] KindOf[n] = "process" -> ProcessInitial(InnerInit[n])]

-------------------------------------------------------------------------------
(***************************************************************************)
(* The last menu that the fault model or the network published says        *)
(* exactly what it would accept once the caller has the turn, the queue    *)
(* being empty: every alternative can still be taken, and everything that  *)
(* can be taken is offered.  The menu was built from the state the step    *)
(* left, no one else changes that state, so it is never stale however long *)
(* it stays unanswered.                                                    *)
(***************************************************************************)
AllFaultActions ==
  {FaultAction(d, k, operation) :
     d \in Domains, k \in UNION {KindsOf[e] : e \in Domains},
     operation \in {"activate", "deactivate"}}

MenusExact ==
  \A n \in OfKind("fault") \cup OfKind("net") :
    Settled /\ MenusOf(n) # {} =>
      \E menu \in {LatestMenu(n)} :
        IF KindOf[n] = "fault"
        THEN menu = {a \in AllFaultActions : Accepted(n, a, world.time)}
        ELSE \A via \in Links, action \in {"deliver", "drop", "duplicate"} :
               \A index \in 0 .. Len(world.states[n].pending[via]) :
                 LET a == NetAlternative(action, index, via)
                 IN  a \in menu <=> Accepted(n, DeliverInput(a), world.time)

(***************************************************************************)
(* What the fault model has decided arrives: once the queue is empty, the  *)
(* network's masks are the active reachability faults, each with its own   *)
(* members, and a process has crashed exactly when the last control the    *)
(* fault model announced was a crash (fault.shen, the kinds; ADR 0007 D4). *)
(* An active crash fault says less: a restart of another domain, or a      *)
(* pulse, brings the process back while the fault stays active.            *)
(***************************************************************************)
ActiveMasks(active) ==
  UNION {{Mask(MaskId(d, k), k, {AddressOf[n] : n \in MembersOf[d]}) :
            k \in {k \in active[d] : ~ProcessFault(k)}} : d \in Domains}

FaultsLand ==
  Settled =>
    \A f \in OfKind("fault") :
      /\ \A n \in OfKind("net") :
           world.states[n].masks = ActiveMasks(world.states[f].active)
      /\ \A p \in OfKind("process") :
           LET controls == FactsBy(f, {"crash", "restart"})
           IN  world.states[p].status = "crashed" <=>
                 controls # {} /\ Facts[LastOf(controls)].name = "crash"

\* What a roster and its caller must be like for that: one fault model, whose
\* words for networks and processes are routed to each of them and whose other
\* facts to none; different faults have different masks; and no caller gives
\* those words itself.
IsWord(name, value) ==
  \/ KindOf[name] = "net" /\ value.kind \in {"mask", "unmask"}
  \/ KindOf[name] = "process" /\ value.kind \in {"crash", "restart"}

Carries(r, from, fact, name) ==
  LET route == Routes[r]
  IN  /\ route.from = from /\ route.fact = fact
      /\ IF route.to.type = "component" THEN route.to.id = name
         ELSE NodeOf[name] = route.to.id

Routed(from, fact, name) == \E r \in DOMAIN Routes : Carries(r, from, fact, name)

FaultsAreHeard ==
  \A f \in OfKind("fault") :
    /\ \A g \in OfKind("fault") : g = f
    /\ \A n \in OfKind("net") : \A fact \in {"mask", "unmask"} : Routed(f, fact, n)
    /\ \A p \in OfKind("process") : \A fact \in {"crash", "restart"} : Routed(f, fact, p)
    /\ \A t \in OfKind("net") \cup OfKind("process") :
         \A fact \in {"activated", "deactivated"} : ~Routed(f, fact, t)

MasksAreTold ==
  \A d, e \in Domains : \A k \in KindsOf[d], j \in KindsOf[e] :
    MaskId(d, k) = MaskId(e, j) => d = e /\ k = j

CallersLeaveWords ==
  \A in \in Inputs :
    in.kind = "component" /\ in.payload.name \in OfKind("net") \cup OfKind("process") =>
      ~IsWord(in.payload.name, in.payload.value)

(***************************************************************************)
(* No delivery crosses a mask.  Judged by the fact log and the words of    *)
(* the masks alone: between the masked and the unmasked fact of an         *)
(* identifier, every delivered packet was addressed along a declared link  *)
(* and is one the mask admits, whenever it was queued and whichever menu   *)
(* it was taken from, and the step delivered exactly what the baseline     *)
(* relates it to ("delivers exactly the packets the active NetKAT policy   *)
(* admits", net.shen:7-14; what the kinds deny, mask.shen:32-50).  A       *)
(* blocked packet is one that a mask or the baseline withholds.            *)
(***************************************************************************)
TopologyAdmits(packet) ==
  \E via \in Links : /\ packet.src = AddressOf[via[1]]
                     /\ packet.dst = AddressOf[via[2]]

MaskAdmits(mask, packet) ==
  CASE mask.fault = "partition" ->
         packet.src \in mask.members <=> packet.dst \in mask.members
    [] mask.fault = "drop" ->
         packet.src \notin mask.members /\ packet.dst \notin mask.members
    [] mask.fault = "delay" -> TRUE

Admits(masks, packet) ==
  TopologyAdmits(packet) /\ \A mask \in masks : MaskAdmits(mask, packet)

\* No unmasked fact lifts the mask of fact j before fact i.
Unlifted(net, j, i) ==
  /\ j < i
  /\ \A k \in FactsBy(net, {"unmasked"}) :
       j < k /\ k < i => Facts[k].value.id # Facts[j].value.id

\* The descriptors that the network was sent and has not lifted since.
InForce(net, i) ==
  {dispatched[d].event.payload.value.mask :
     d \in {d \in DOMAIN dispatched :
              \E j \in FactsBy(net, {"masked"}) :
                Facts[j].event = dispatched[d].event.id /\ Unlifted(net, j, i)}}

NoCrossing ==
  \A n \in OfKind("net") :
    LET Admitted(i, packet) == Admits(InForce(n, i), packet)
        deliveries == FactsBy(n, {"delivered"})
    IN  /\ \A i \in deliveries :
             LET sent == Facts[i].value.sent
             IN  /\ Admitted(i, sent)
                 /\ {Facts[j].value.packet :
                       j \in {j \in deliveries : Facts[j].event = Facts[i].event}}
                      = BaselineMakes[sent]
        /\ \A i \in FactsBy(n, {"blocked"}) :
             LET packet == Facts[i].value.packet
             IN  ~Admitted(i, packet) \/ BaselineMakes[packet] = {}

(***************************************************************************)
(* Packets are conserved: on every link a packet waits as often as it was  *)
(* queued less as often as it was taken off, by an accepted delivery or    *)
(* drop; duplicates take nothing off, and nothing is delivered, blocked or *)
(* dropped that was not queued ("never invents a packet", net.shen:7-14).  *)
(***************************************************************************)
OutcomeOf(i) == IF Facts[i].name = "delivered" THEN Facts[i].value.sent
                ELSE Facts[i].value.packet

TakenOff(net, packet, via) ==
  {d \in MenusOf(net) :
     LET input == dispatched[d].event.payload.value
     IN  /\ input.kind = "deliver"
         /\ input.selection.action \in {"deliver", "drop"}
         /\ input.selection.via = via
         /\ \E i \in FactsBy(net, {"delivered", "blocked", "dropped"}) :
              /\ Facts[i].event = dispatched[d].event.id
              /\ OutcomeOf(i) = packet}

PacketsConserved ==
  \A n \in OfKind("net") :
    LET packets == {OutcomeOf(i) : i \in FactsBy(n, {"queued", "delivered",
                                                     "blocked", "dropped"})}
    IN  \A via \in Links, packet \in packets :
          LET queue  == world.states[n].pending[via]
              queued == {i \in FactsBy(n, {"queued"}) :
                           /\ Facts[i].value.packet = packet
                           /\ Facts[i].value.via = via}
          IN  Cardinality({i \in DOMAIN queue : queue[i] = packet})
                = Cardinality(queued) - Cardinality(TakenOff(n, packet, via))
===============================================================================
