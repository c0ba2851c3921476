------------------------------- MODULE NetModel -------------------------------
(***************************************************************************)
(* The abstract network (shen/world/models/net.shen) as a component        *)
(* handler of the world kernel.  It judges a packet by the policy that its *)
(* masks make, which is a table here; NetPolicy says what is in it.        *)
(***************************************************************************)
EXTENDS ModelCommon

CONSTANTS
  Links,       \* declared directed links: << from, to >> pairs of nodes
  AddressOf,   \* the address of each node
  Masks,       \* the mask descriptors that senders use, by identifier
  Policies     \* the policy of every set of masks: its code, and what
               \* it makes of every packet

ASSUME LinksAssumption == IsFiniteSet(Links)

Packet(src, dst, body) == [src |-> src, dst |-> dst, body |-> body]

Mask(id, fault, members) == [id |-> id, fault |-> fault, members |-> members]

NetState(masks, pending) == [masks |-> masks, pending |-> pending]

NetInitial == NetState({}, [via \in Links |-> << >>])

SendInput(packet, via) == [kind |-> "send", packet |-> packet, via |-> via]

NetAlternative(action, index, via) ==
  [kind |-> "alternative", action |-> action, index |-> index, via |-> via]

\* The wrapping of a delivery alternative that the model takes as input.
DeliverInput(selection) == [kind |-> "deliver", selection |-> selection]

MaskInput(mask)  == [kind |-> "mask", mask |-> mask]
UnmaskInput(id)  == [kind |-> "unmask", id |-> id]

-------------------------------------------------------------------------------
\* Fault: indices that start at one.
NetAlternativesFromOne(pending) ==
  UNION {{NetAlternative(action, index, via) :
            action \in {"deliver", "drop", "duplicate"},
            index \in 1 .. Len(pending[via])} : via \in Links}

\* Three actions for every packet that waits on every link.
NetAlternatives(pending) ==
  UNION {{NetAlternative(action, index, via) :
            action \in {"deliver", "drop", "duplicate"},
            index \in 0 .. Len(pending[via]) - 1} : via \in Links}

NetChoices(pending) == Choice("delivery", NetAlternatives(pending))

NetResult(masks, pending, facts) ==
  Steps(NetState(masks, pending), facts, NetChoices(pending))

Transfer(packet, via) == [packet |-> packet, via |-> via]

Delivered(out, sent, via) == [packet |-> out, sent |-> sent, via |-> via]

Send(state, input) ==
  IF input.via \notin Links THEN ModelFails("net-unknown-link")
  ELSE IF input.packet \notin HeaderSpace THEN ModelFails("packet-value-unknown")
  ELSE NetResult(state.masks,
                 [state.pending EXCEPT ![input.via] = Append(@, input.packet)],
                 << FactOf("queued", Transfer(input.packet, input.via)) >>)

\* The one producer of delivered facts: what the policy makes of the packet.
Forward(masks, outputs, packet, via, pending) ==
  NetResult(masks, pending,
            IF outputs = << >>
            THEN << FactOf("blocked", Transfer(packet, via)) >>
            ELSE [i \in DOMAIN outputs |->
                    FactOf("delivered", Delivered(outputs[i], packet, via))])

Taken(state, policy, action, packet, via, pending) ==
  IF action = "drop"
  THEN NetResult(state.masks, pending, << FactOf("dropped", Transfer(packet, via)) >>)
  ELSE Forward(state.masks, Sorted(policy.made[packet]), packet, via, pending)

\* Fault: a duplicate is dequeued like a delivery.
DeliverDequeueing(state, policy, selection) ==
  LET via   == selection.via
      queue == state.pending[via]
      at    == selection.index + 1
  IN  IF via \notin Links \/ queue = << >> THEN ModelFails("net-unknown-link")
      ELSE IF selection.index \notin 0 .. Len(queue) - 1
      THEN ModelFails("net-index-range")
      ELSE Taken(state, policy, selection.action, queue[at], via,
                 [state.pending EXCEPT ![via] = RemoveAt(@, at)])

\* The packet is judged by the policy of this moment, not of its sending.
Deliver(state, policy, selection) ==
  LET via   == selection.via
      queue == state.pending[via]
      at    == selection.index + 1
  IN  IF via \notin Links \/ queue = << >> THEN ModelFails("net-unknown-link")
      ELSE IF selection.index \notin 0 .. Len(queue) - 1
      THEN ModelFails("net-index-range")
      ELSE IF selection.action \notin {"deliver", "drop", "duplicate"}
      THEN ModelFails("net-unknown-action")
      ELSE Taken(state, policy, selection.action, queue[at], via,
                 IF selection.action = "duplicate" THEN state.pending
                 ELSE [state.pending EXCEPT ![via] = RemoveAt(@, at)])

\* The composed policy is validated before the masks change.
MaskComposed(code, state, masks, fact, id) ==
  IF code # "ok" THEN ModelFails(code)
  ELSE NetResult(masks, state.pending, << FactOf(fact, [id |-> id]) >>)

InstallMask(state, mask) ==
  LET masks == state.masks \cup {mask}
  IN  IF mask.fault \notin {"delay", "drop", "partition"}
      THEN ModelFails("mask-kind-unknown")
      ELSE IF mask.id \in {m.id : m \in state.masks}
      THEN ModelFails("net-mask-duplicate")
      ELSE MaskComposed(Policies[masks].code, state, masks, "masked", mask.id)

RemoveMask(state, id) ==
  LET masks == {m \in state.masks : m.id # id}
  IN  IF masks = state.masks THEN ModelFails("net-mask-unknown")
      ELSE MaskComposed(Policies[masks].code, state, masks, "unmasked", id)

\* The policy of the state is composed first: without one no step succeeds.
StepUnder(policy, state, input) ==
  IF policy.code # "ok" THEN ModelFails(policy.code)
  ELSE CASE input.kind = "send"    -> Send(state, input)
         [] input.kind = "deliver" -> Deliver(state, policy, input.selection)
         [] input.kind = "mask"    -> InstallMask(state, input.mask)
         [] input.kind = "unmask"  -> RemoveMask(state, input.id)
         [] input.kind = "poll"    -> NetResult(state.masks, state.pending, << >>)
         [] OTHER -> ModelFails("net-unknown-input")

\* Fault: the policy is composed once, before any mask.
NetStepUnmasked(state, input) == StepUnder(Policies[{}], state, input)

NetStep(state, input) == StepUnder(Policies[state.masks], state, input)
===============================================================================
