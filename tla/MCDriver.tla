------------------------------- MODULE MCDriver -------------------------------
(***************************************************************************)
(* A small system for the driver: two processes that the driver boots, and *)
(* a component it does not.  "p" republishes its menu until it is told to  *)
(* stop, so only the budgets end some attempts; a burst of pings costs     *)
(* events rather than steps.  "q" offers a menu of its own at boot, and    *)
(* raises on a ping once it is odd.  An odd trace fails the properties, a  *)
(* trace of pings alone cannot be judged.                                  *)
(***************************************************************************)
EXTENDS Driver, TLC

MCRegistry  == << "n", "p", "q" >>
MCProcesses == << "p", "q" >>
MCNodeOf    == [c \in ToSet(MCRegistry) |-> "n1"]
MCRoutes    == << [fact |-> "ping", from |-> "p", to |-> ComponentTarget("q")],
                  [fact |-> "odd", from |-> "q", to |-> ComponentTarget("n")] >>

ByteOrder  == << "again", "boot", "burst", "calm", "idle", "n", "odd", "p",
                 "pick", "ping", "q", "stop", "turn" >>
MCRank     == [v \in ToSet(ByteOrder) |->
                 CHOOSE i \in DOMAIN ByteOrder : ByteOrder[i] = v]
MCValues   == ToSet(ByteOrder)
MCInitState == [c \in ToSet(MCRegistry) |-> "idle"]
MCPaths    == {<< "p", "turn" >>, << "q", "pick" >>}

Turn == [purpose |-> "turn", alternatives |-> << "again", "burst", "stop" >>]
Pick == [purpose |-> "pick", alternatives |-> << "calm", "odd" >>]
Ping == [name |-> "ping", value |-> "ping"]

MCHandler(name, state, value, time) ==
  CASE name = "p" /\ value \in {"boot", "again"} ->
         Steps(state, << >>, << Turn >>)
    [] name = "p" /\ value = "burst" ->
         Steps(state, << Ping, Ping, Ping >>, << Turn >>)
    [] name = "q" /\ value = "boot" -> Steps(state, << >>, << Pick >>)
    [] name = "q" /\ value = "odd" ->
         Steps("odd", << [name |-> "odd", value |-> "odd"] >>, << >>)
    [] name = "q" /\ value = "ping" /\ state = "odd" -> Raises
    [] OTHER -> Steps(state, << >>, << >>)

Judge(code, signature) == [code |-> code, signature |-> signature]

MCEvaluate(facts) ==
  LET told == {facts[i].name : i \in DOMAIN facts}
  IN  IF told = {"ping"} THEN Judge("query-failed", "none")
      ELSE IF "odd" \in told THEN Judge("ok", "odd")
      ELSE Judge("ok", "empty")

NoDraw(path, number, block) == 0
===============================================================================
