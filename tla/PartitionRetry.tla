---------------------------- MODULE PartitionRetry ----------------------------
(***************************************************************************)
(* The five processes of the partition-retry scenario                      *)
(* (shen/run/models/partition-retry.shen) and its routes                   *)
(* (scenarios/abstract/partition-retry.shen), as component handlers of the *)
(* world kernel.  A message is a record of a name and a sequence number;   *)
(* the alternatives of the two menus are messages as well.                 *)
(***************************************************************************)
EXTENDS Naturals, Sequences, TLC

CONSTANT RetryLimit \* requests the client sends before it gives up

ASSUME RetryAssumption == RetryLimit \in Nat \ {0}

Seqs == 1 .. RetryLimit + 1

Message(msg, seq) == [msg |-> msg, seq |-> seq]
Boot      == Message("boot", 0)
Early     == Message("early", 0)
Never     == Message("never", 0)
Direct    == Message("direct", 0)
Relayed   == Message("relay", 0)
Partition == Message("partition", 0)
Masked    == Message("masked", 0)

Messages ==
  {Boot, Early, Never, Direct, Relayed, Partition, Masked}
  \cup {Message(msg, seq) :
          msg \in {"request", "timeout", "respond", "ack", "gave-up",
                   "deliver", "hop", "reply"},
          seq \in Seqs}

\* What a handler returns: the new state, the facts, the menus.
Stepped(state, facts, menus) ==
  [type |-> "step", state |-> state, facts |-> facts, choices |-> menus]

Told(state, name, value) ==
  Stepped(state, << [name |-> name, value |-> value] >>, << >>)

Offered(state, purpose, alternatives) ==
  Stepped(state, << >>,
          << [purpose |-> purpose, alternatives |-> alternatives] >>)

Absorbed(state) == Stepped(state, << >>, << >>)

-------------------------------------------------------------------------------
ClientState(tries) == [tries |-> tries]

ClientRequest(tries) ==
  Told(ClientState(tries), "request", Message("request", tries))

ClientRetry(state) ==
  IF state.tries < RetryLimit THEN ClientRequest(state.tries + 1)
  ELSE Told(state, "gave-up", Message("gave-up", state.tries))

Client(state, input) ==
  CASE input = Boot -> ClientRequest(1)
    [] input.msg = "respond" -> Told(state, "ack", Message("ack", input.seq))
    [] input.msg = "timeout" -> ClientRetry(state)
    [] OTHER -> Absorbed(state)

-------------------------------------------------------------------------------
FaultState == [members |-> "c"]

Fault(state, input) ==
  CASE input = Boot -> Offered(state, "fault", << Early, Never >>)
    [] input = Early -> Told(state, "partition", Partition)
    [] OTHER -> Absorbed(state)

-------------------------------------------------------------------------------
(* The network: whether the partition has landed, and the sequence number  *)
(* of the request that waits for its path (0 when none does).              *)

NetState(cut, pending) == [cut |-> cut, pending |-> pending]

Withheld(state, seq) == Told(state, "timeout", Message("timeout", seq))

NetRequest(state, seq) ==
  IF state.cut THEN Withheld(state, seq)
  ELSE Offered(NetState(FALSE, seq), "delivery", << Direct, Relayed >>)

\* Fault: a reply crosses the partition.
NetReplyUngated(state, seq) == Told(state, "respond", Message("respond", seq))

NetReply(state, seq) ==
  IF state.cut THEN Withheld(state, seq)
  ELSE Told(state, "respond", Message("respond", seq))

\* Fault: the pending slot is not cleared.
NetViaKeeping(state, via) ==
  IF state.pending = 0 THEN Absorbed(state)
  ELSE IF state.cut THEN Withheld(state, state.pending)
  ELSE Told(state, IF via = Direct THEN "deliver" ELSE "hop",
            Message(IF via = Direct THEN "deliver" ELSE "hop", state.pending))

\* The partition may have landed while the menu was open.
NetVia(state, via) ==
  LET cleared == NetState(state.cut, 0)
  IN  IF state.pending = 0 THEN Absorbed(state)
      ELSE IF state.cut THEN Withheld(cleared, state.pending)
      ELSE IF via = Direct
      THEN Told(cleared, "deliver", Message("deliver", state.pending))
      ELSE Told(cleared, "hop", Message("hop", state.pending))

Net(state, input) ==
  CASE input.msg = "partition" ->
         Told(NetState(TRUE, state.pending), "masked", Masked)
    [] input.msg = "request" -> NetRequest(state, input.seq)
    [] input.msg = "reply" -> NetReply(state, input.seq)
    [] input \in {Direct, Relayed} -> NetVia(state, input)
    [] OTHER -> Absorbed(state)

-------------------------------------------------------------------------------
PeerState == [role |-> "peer"]

Relay(state, input) ==
  IF input.msg = "hop"
  THEN Told(state, "deliver", Message("deliver", input.seq))
  ELSE Absorbed(state)

Server(state, input) ==
  IF input.msg = "deliver" THEN Told(state, "reply", Message("reply", input.seq))
  ELSE Absorbed(state)

-------------------------------------------------------------------------------
Roster == << "client", "fault-0", "net-0", "relay", "server" >>

InitialOf ==
  ("client" :> ClientState(0)) @@ ("fault-0" :> FaultState)
  @@ ("net-0" :> NetState(FALSE, 0)) @@ ("relay" :> PeerState)
  @@ ("server" :> PeerState)

Process(name, state, input, time) ==
  CASE name = "client"  -> Client(state, input)
    [] name = "fault-0" -> Fault(state, input)
    [] name = "net-0"   -> Net(state, input)
    [] name = "relay"   -> Relay(state, input)
    [] name = "server"  -> Server(state, input)

Route(fact, from, to) ==
  [fact |-> fact, from |-> from, to |-> [type |-> "component", id |-> to]]

ScenarioRoutes ==
  << Route("request", "client", "net-0"), Route("partition", "fault-0", "net-0"),
     Route("deliver", "net-0", "server"), Route("hop", "net-0", "relay"),
     Route("deliver", "relay", "server"), Route("reply", "server", "net-0"),
     Route("respond", "net-0", "client"), Route("timeout", "net-0", "client") >>
===============================================================================
