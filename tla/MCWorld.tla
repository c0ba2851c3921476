------------------------------- MODULE MCWorld -------------------------------
(***************************************************************************)
(* Small worlds for TLC.  Three components on two nodes: "a" alone, "b"    *)
(* and "c" together.  "a" routes its fact f to the node of "b" and "c"     *)
(* (fan-out), "b" routes g back to "a" (a cascade that feeds itself) and   *)
(* "c" routes f to "b".  The value tells a handler what to do, so one      *)
(* handler shows every kind of result the contract can meet.               *)
(***************************************************************************)
EXTENDS Recording, Judgement

MCRegistry == << "a", "b", "c" >>
MCNodeOf == [a |-> "n1", b |-> "n2", c |-> "n2"]
MCInitState == [a |-> "idle", b |-> "idle", c |-> "idle"]
MCRoutes == << [fact |-> "f", from |-> "a", to |-> NodeTarget("n2")],
               [fact |-> "g", from |-> "b", to |-> ComponentTarget("a")],
               [fact |-> "f", from |-> "c", to |-> ComponentTarget("b")] >>

NotMember == "choice-selection-not-member"
ByteOrder == << "a", "b", "boom", "busy", "c", NotMember, "claim", "echo", "f",
                "fail", "g", "go", "idle", "menu", "menus", "p", "q", "raw",
                "seed", "unsorted" >>
RankOf(v) == CHOOSE i \in DOMAIN ByteOrder : ByteOrder[i] = v
MCNames == {"a", "b", "c", "f", "g", "p", "q", "fail", NotMember}
MCValues == ToSet(ByteOrder) \ MCNames
MCRank == [v \in MCValues |-> RankOf(v)]
MCNameRank == [n \in MCNames |-> RankOf(n)]
MCCanonical == MCValues \ {"raw"}
MCClaiming == {"seed"}
MCInstants == 0 .. 2

F(value) == [name |-> "f", value |-> value]
G(value) == [name |-> "g", value |-> value]
Flip(state) == IF state = "idle" THEN "busy" ELSE "idle"
MenuOf(purpose, alternatives) ==
  [purpose |-> purpose, alternatives |-> alternatives]

MCHandler(name, state, value, time) ==
  CASE value = "go" /\ name = "a" ->
         Steps(Flip(state), IF state = "idle" THEN << F("go") >>
                            ELSE << F("echo"), G("go"), F("idle") >>, << >>)
    [] value = "go" /\ name = "b" ->
         Steps(Flip(state), IF state = "idle" THEN << G("go") >> ELSE << >>, << >>)
    [] value = "go" /\ name = "c" ->
         Steps(state, IF state = "idle" THEN << >> ELSE << F("echo") >>, << >>)
    [] value = "echo" -> Steps("busy", << G("idle") >>, << >>)
    [] value = "idle" -> Steps("idle", << >>, << >>)
    [] value = "seed" -> Steps("idle", << F("seed") >>, << >>)
    [] value = "claim" -> Steps(state, << >>, << MenuOf("p", << "seed" >>) >>)
    [] value = "menu" -> Steps("busy", << >>, << MenuOf("p", << "echo", "go" >>) >>)
    [] value = "menus" ->
         Steps(state, << F("idle") >>,
               << MenuOf("q", << "go" >>), MenuOf("p", << "go" >>) >>)
    [] value = "unsorted" ->
         Steps(state, << F("idle") >>, << MenuOf("p", << "go", "echo" >>) >>)
    [] value = "raw"  -> Steps("raw", << >>, << >>)
    [] value = "boom" -> Raises
    [] value = "busy" -> Fails("fail", IF name = "a" THEN "idle" ELSE "raw")
    [] OTHER -> Steps(state, << F("raw") >>, << >>)

\* Another engine: one handler keeps a different state, some publish other
\* facts or none, one raises, and one fails with a code the kernel uses too.
MCOtherHandler(name, state, value, time) ==
  CASE value = "go" /\ name = "a" -> Steps(Flip(state), << >>, << >>)
    [] value = "go" /\ name = "b" -> Steps(state, << G("go") >>, << >>)
    [] value = "echo" -> Steps("busy", << G("echo") >>, << >>)
    [] value = "idle" -> Fails(NotMember, "idle")
    [] value = "menu" -> Raises
    [] OTHER -> MCHandler(name, state, value, time)

\* Hashes in 0 .. 6: with two or three alternatives the value 6 is rejected.
MCSpace == 7
MCMaxBlock == 3
MCPaths == {"p1", "p2"}
MCHash(path, counter, block) ==
  ((IF path = "p1" THEN 6 ELSE 3) + 5 * counter + 4 * block) % 7

Input(at, kind, payload) == [at |-> at, kind |-> kind, payload |-> payload]
To(name, value, at) == Input(at, "component", ComponentInput(name, value))

DrawOn(path, alternatives) ==
  [form |-> "drawn", path |-> path, alternatives |-> alternatives]
RecordOn(path, alternatives, selected) ==
  [form |-> "selected", path |-> path, alternatives |-> alternatives,
   selected |-> selected,
   coordinates |-> << [path |-> path, counter |-> 7, block |-> 0] >>]

RoutingInputs ==
  {To("a", "go", at) : at \in 0 .. 1}
  \cup {To("b", "go", 0), To("c", "go", 1), To("c", "echo", 2)}

ContractInputs ==
  {To("a", v, 1) : v \in MCValues \ {"go", "echo"}}
  \cup {To("b", "go", 1), To("b", "busy", 1), To("c", "echo", 0), To("p", "go", 0),
        To("b", "seed", -1), Input(1, "unheard-of", [value |-> "go"])}

ChoiceInputs ==
  {Input(at, "choice", DrawOn(p, << "echo", "go" >>)) :
     at \in 0 .. 1, p \in MCPaths}
  \cup {Input(0, "choice", DrawOn("p1", << "echo", "go", "menu" >>)),
        Input(1, "choice", RecordOn("p1", << "echo", "go" >>, "go")),
        Input(0, "choice", RecordOn("p2", << "echo" >>, "echo")),
        Input(1, "choice", RecordOn("p2", << "echo", "go" >>, "menu")),
        Input(0, "choice", DrawOn("p1", << "go", "echo" >>)),
        Input(0, "choice", DrawOn("p3", << "go" >>)),
        Input(1, "command", [value |-> "go"]),
        Input(2, "property-equals",
              [property |-> "go", actual |-> "go", expected |-> "idle"])}

AnyInputs == ContractInputs \cup ChoiceInputs

\* Properties of every class and form over the facts of the routed runs.
Pattern(name, source, value) == [name |-> name, source |-> source, value |-> value]
Anything == << >>
Compare(op, s, t) == [op |-> op, args |-> << s, t >>]
This == [op |-> "this"]
Is(value) == Compare("eq", This, [op |-> "const", value |-> value])
Latest(name) == [op |-> "fact", name |-> name]
LatestOf(name, source) == [op |-> "fact-of", name |-> name, source |-> source]

MCDeclared ==
  << [id |-> "fed-back", form |-> "always-eventually", window |-> 1,
      first |-> Pattern("g", << "b" >>, << Is("go") >>),
      then  |-> Pattern("f", << "a" >>, Anything)],
     [id |-> "go-first", form |-> "before",
      first |-> Pattern("f", Anything, << Is("go") >>),
      then  |-> Pattern("g", Anything, Anything)],
     [id |-> "heard", form |-> "liveness", deadline |-> 0,
      first |-> Pattern("g", << "b" >>, Anything)],
     [id |-> "same", form |-> "invariant",
      points |-> << [id |-> "p", at |-> 0], [id |-> "q", at |-> 1] >>,
      pred |-> [op |-> "or", args |->
                 << Compare("ne", LatestOf("f", "a"), Latest("f")),
                    [op |-> "not", args |-> << [op |-> "defined",
                                                args |-> << Latest("g") >>] >>] >>]],
     [id |-> "unchanged", form |-> "never",
      first |-> Pattern("f", Anything, << Compare("ne", This, Latest("f")) >>)] >>
==============================================================================
