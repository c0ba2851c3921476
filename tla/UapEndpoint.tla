----------------------------- MODULE UapEndpoint -----------------------------
(***************************************************************************)
(* The adapter's side of the Urdr Adapter Protocol                         *)
(* (adapters/common/uap/protocol.py): sessions, the binding of request     *)
(* identifiers, and the idempotency cache in front of an effect backend.   *)
(*                                                                         *)
(* Handle is the endpoint's handle(): a message and what the backend does  *)
(* while it is handled give the new sessions, the response and whether an  *)
(* effect was started.  A digest is the thing it digests.  What a message  *)
(* gets wrong before the endpoint looks at its state is in its field       *)
(* shape: "ok" or the code of the first failing check.                     *)
(***************************************************************************)
EXTENDS Naturals, Sequences, FiniteSets

CONSTANTS
  Sessions, Requests, Keys, Commands,
  Results,      \* what a backend operation can report
  Encodable,    \* the results that encode canonically
  Supported,    \* protocol versions the endpoint was built with
  Available,    \* capabilities that are exactly true
  Messages,     \* the messages a caller may send
  MaxMessages   \* messages handled in one behaviour (bound of the model)

ASSUME EndpointAssumption ==
  /\ Encodable \subseteq Results
  /\ Supported \subseteq Nat \ {0}
  /\ MaxMessages \in Nat
  /\ \A m \in Messages :
       m.kind \in {"hello", "command", "poll", "collect", "other"}

\* What the schema check of a message establishes.
ASSUME MessagesAssumption ==
  \A m \in Messages :
    m.kind # "other" /\ m.shape = "ok" =>
      /\ m.session \in Sessions
      /\ m.kind = "command" => m.command \in Commands

(***************************************************************************)
(* An option is a sequence of at most one element.                         *)
(***************************************************************************)
None == << >>
Some(x) == << x >>

(***************************************************************************)
(* What the backend does while a message is handled.  It is asked at most  *)
(* once to validate, once to start and once to poll, in this order, and is *)
(* not asked on after it fails; what it is not asked is fixed.             *)
(***************************************************************************)
PollPending     == [type |-> "pending"]
PollRaises      == [type |-> "raises"]
PollTerminal(r) == [type |-> "terminal", result |-> r]

Asked(validate, start, poll) ==
  [validate |-> validate, start |-> start, poll |-> poll]

Backend ==
  {Asked(v, "operation", PollPending) : v \in {"refused", "raises"}}
    \cup {Asked("ok", s, PollPending) : s \in {"raises", "no-operation"}}
    \cup {Asked("ok", "operation", p) :
            p \in {PollPending, PollRaises} \cup {PollTerminal(r) : r \in Results}}

-------------------------------------------------------------------------------
(* Responses.                                                              *)

ErrorRecord(m, code) ==
  [kind |-> "error", request |-> m.request, session |-> m.session,
   code |-> code]

Selection(m, version) ==
  [kind |-> "selection", request |-> m.request, session |-> m.session,
   version |-> version]

Observation(m, version, entry, cached, withResult) ==
  [kind |-> "observation", request |-> m.request, session |-> m.session,
   version |-> version, fingerprint |-> entry.fingerprint, cached |-> cached,
   status |-> IF entry.terminal = None THEN "pending" ELSE "terminal",
   result |-> IF withResult THEN entry.terminal ELSE None]

Answer(table, response) ==
  [sessions |-> table, response |-> response, called |-> FALSE,
   started |-> FALSE]

Error(table, m, code) == Answer(table, ErrorRecord(m, code))

-------------------------------------------------------------------------------
(* Negotiation.                                                            *)

VersionsValid(versions) ==
  /\ versions # << >>
  /\ \A i \in DOMAIN versions : versions[i] > 0
  /\ \A i, j \in DOMAIN versions : i # j => versions[i] # versions[j]

\* The first version of the caller's list that the endpoint supports.
Selected(versions) ==
  LET shared == {i \in DOMAIN versions : versions[i] \in Supported}
  IN  IF shared = {} THEN None
      ELSE Some(versions[CHOOSE i \in shared : \A j \in shared : i <= j])

NewSession(m, version) ==
  [version |-> version, hello |-> m,
   requests |-> [r \in {m.request} |-> m],
   idempotency |-> [k \in {} |-> << >>]]

Hello(table, m) ==
  LET selected == Selected(m.versions)
  IN  IF ~VersionsValid(m.versions) THEN Error(table, m, "invalid-version-list")
      ELSE IF ~(m.required \subseteq Available)
      THEN Error(table, m, "required-capability-unavailable")
      ELSE IF selected = None THEN Error(table, m, "version-mismatch")
      ELSE IF m.session \in DOMAIN table
      THEN IF table[m.session].hello # m
           THEN Error(table, m, "conflicting-session")
           ELSE Answer(table, Selection(m, table[m.session].version))
      ELSE Answer([s \in DOMAIN table \cup {m.session} |->
                     IF s = m.session THEN NewSession(m, selected[1])
                     ELSE table[s]],
                  Selection(m, selected[1]))

-------------------------------------------------------------------------------
(* Requests in a session.                                                  *)

\* Fault: a request identifier can be bound to a second message.
RequestCodeUnbound(table, m) ==
  IF m.session \notin DOMAIN table THEN "unknown-session"
  ELSE IF m.version # table[m.session].version
  THEN "protocol-version-mismatch"
  ELSE "ok"

RequestCode(table, m) ==
  IF m.session \notin DOMAIN table THEN "unknown-session"
  ELSE IF m.version # table[m.session].version
  THEN "protocol-version-mismatch"
  ELSE IF /\ m.request \in DOMAIN table[m.session].requests
          /\ table[m.session].requests[m.request] # m
  THEN "conflicting-request"
  ELSE "ok"

\* The request identifier is bound to the message before the message is
\* looked at any further; it stays bound when the request then fails.
Bind(table, m) ==
  [table EXCEPT ![m.session].requests =
     [r \in DOMAIN @ \cup {m.request} |-> IF r = m.request THEN m ELSE @[r]]]

Store(table, m, entry) ==
  [table EXCEPT ![m.session].idempotency =
     [k \in DOMAIN @ \cup {m.key} |-> IF k = m.key THEN entry ELSE @[k]]]

NewEntry(command) ==
  [fingerprint |-> command, operation |-> "held", terminal |-> None,
   reclaimed |-> FALSE]

\* Fault: a poll that raises loses the operation.
ObserveDropping(entry, poll) ==
  IF entry.terminal # None THEN [code |-> "ok", entry |-> entry]
  ELSE CASE poll.type = "raises" ->
              [code |-> "effect-observation-failed",
               entry |-> [entry EXCEPT !.operation = "dropped"]]
         [] poll.type = "terminal" ->
              [code |-> "ok", entry |-> [entry EXCEPT !.terminal = Some(poll.result)]]
         [] OTHER -> [code |-> "ok", entry |-> entry]

\* _observe: a known terminal fact is never asked for again, and one that
\* does not encode is not kept.
Observe(entry, poll) ==
  IF entry.terminal # None THEN [code |-> "ok", entry |-> entry]
  ELSE IF entry.operation = "dropped"
  THEN [code |-> "idempotency-result-reclaimed", entry |-> entry]
  ELSE CASE poll.type = "raises" ->
              [code |-> "effect-observation-failed", entry |-> entry]
         [] poll.type = "pending" -> [code |-> "ok", entry |-> entry]
         [] poll.type = "terminal" /\ poll.result \notin Encodable ->
              [code |-> "codec-error", entry |-> entry]
         [] poll.type = "terminal" /\ poll.result \in Encodable ->
              [code |-> "ok", entry |-> [entry EXCEPT !.terminal = Some(poll.result)]]

\* An observation of an entry, or the error the observation ended in.  The
\* entry is stored either way.
Report(table, m, version, entry, cached, withResult, poll) ==
  LET seen == Observe(entry, poll)
  IN  IF seen.code # "ok" THEN Error(Store(table, m, seen.entry), m, seen.code)
      ELSE Answer(Store(table, m, seen.entry),
                  Observation(m, version, seen.entry, cached, withResult))

\* Fault: an existing entry is trusted whatever command it was made for.
CachedWhateverCommand(table, m, poll) ==
  LET session == table[m.session]
      entry   == session.idempotency[m.key]
  IN  IF entry.reclaimed
      THEN Error(table, m, "idempotency-result-reclaimed")
      ELSE Report(table, m, session.version, entry, TRUE, TRUE, poll)

CachedCommand(table, m, poll) ==
  LET session == table[m.session]
      entry   == session.idempotency[m.key]
  IN  IF entry.fingerprint # m.command
      THEN Error(table, m, "idempotency-conflict")
      ELSE IF entry.reclaimed
      THEN Error(table, m, "idempotency-result-reclaimed")
      ELSE Report(table, m, session.version, entry, TRUE, TRUE, poll)

\* The entry is stored before the operation is observed for the first time.
Started(table, m, poll) ==
  [Report(table, m, table[m.session].version, NewEntry(m.command), FALSE,
          TRUE, poll)
     EXCEPT !.called = TRUE, !.started = TRUE]

\* A key seen for the first time: validate, start, and only then an entry.
\* A start that raises, or returns no operation, leaves no entry behind.
FirstCommand(table, m, backend) ==
  CASE backend.validate = "refused" -> Error(table, m, "invalid-command")
    [] backend.validate = "raises" ->
         Error(table, m, "backend-validation-failed")
    [] backend.validate = "ok" /\ backend.start = "raises" ->
         [Error(table, m, "effect-start-failed") EXCEPT !.called = TRUE]
    [] backend.validate = "ok" /\ backend.start = "no-operation" ->
         [Error(table, m, "invalid-backend-operation")
            EXCEPT !.called = TRUE]
    [] backend.validate = "ok" /\ backend.start = "operation" ->
         Started(table, m, backend.poll)

CommandRequest(table, m, backend) ==
  IF m.key \notin Keys THEN Error(table, m, "invalid-idempotency-key")
  ELSE IF m.key \in DOMAIN table[m.session].idempotency
  THEN CachedCommand(table, m, backend.poll)
  ELSE FirstCommand(table, m, backend)

\* Fault: a reclaimed key is forgotten instead of kept as a tombstone.
ForgetEntry(table, m) ==
  [table EXCEPT ![m.session].idempotency =
     [k \in DOMAIN @ \ {m.key} |-> @[k]]]

\* The result and the operation go, the fingerprint stays as a tombstone.
ReclaimEntry(table, m) ==
  [table EXCEPT ![m.session].idempotency[m.key] =
     [@ EXCEPT !.operation = "dropped", !.terminal = None, !.reclaimed = TRUE]]

Query(table, m, backend) ==
  LET session == table[m.session]
      entry   == session.idempotency[m.key]
      report  == Report(table, m, session.version, entry, TRUE,
                        m.kind = "collect", backend.poll)
  IN  IF m.key \notin Keys THEN Error(table, m, "invalid-idempotency-key")
      ELSE IF m.kind = "collect" /\ m.reclaim \notin {"true", "false"}
      THEN Error(table, m, "invalid-reclaim")
      ELSE IF m.key \notin DOMAIN session.idempotency
      THEN Error(table, m, "unknown-idempotency-key")
      ELSE IF entry.reclaimed
      THEN Error(table, m, "idempotency-result-reclaimed")
      ELSE IF /\ m.kind = "collect" /\ m.reclaim = "true"
              /\ report.response.kind = "observation"
              /\ report.response.status = "terminal"
      THEN [report EXCEPT !.sessions = ReclaimEntry(@, m)]
      ELSE report

Handle(table, m, backend) ==
  IF m.kind = "other" THEN Error(table, m, "unknown-message-kind")
  ELSE IF m.shape # "ok" THEN Error(table, m, m.shape)
  ELSE IF m.kind = "hello" THEN Hello(table, m)
  ELSE LET code == RequestCode(table, m)
       IN  IF code # "ok" THEN Error(table, m, code)
           ELSE IF m.kind = "command"
           THEN CommandRequest(Bind(table, m), m, backend)
           ELSE Query(Bind(table, m), m, backend)

-------------------------------------------------------------------------------
(***************************************************************************)
(* The endpoint under an arbitrary caller and an arbitrary backend.  A     *)
(* caller that loses a response sends the message again, so every schedule *)
(* of losses and retries is a sequence of messages.                        *)
(***************************************************************************)
VARIABLES
  sessions, \* the endpoint's state
  effects,  \* history: how often an operation was started per session and key
  calls,    \* history: how often start was called per session and key
  answered  \* history: the messages with their responses, in order

vars == << sessions, effects, calls, answered >>

Slots == Sessions \X Keys
Slot(m) == << m.session, m.key >>

Init ==
  /\ sessions = [s \in {} |-> << >>]
  /\ effects = [slot \in Slots |-> 0]
  /\ calls = [slot \in Slots |-> 0]
  /\ answered = << >>

Receive(m, backend) ==
  /\ Len(answered) < MaxMessages
  /\ LET answer == Handle(sessions, m, backend)
     IN  /\ sessions' = answer.sessions
         /\ effects' = IF answer.started THEN [effects EXCEPT ![Slot(m)] = @ + 1]
                       ELSE effects
         /\ calls' = IF answer.called THEN [calls EXCEPT ![Slot(m)] = @ + 1]
                     ELSE calls
         /\ answered' = Append(answered, [message |-> m,
                                          response |-> answer.response])

Next == \E m \in Messages, backend \in Backend : Receive(m, backend)

Spec == Init /\ [][Next]_vars

-------------------------------------------------------------------------------
Used(table, slot) ==
  slot[1] \in DOMAIN table /\ slot[2] \in DOMAIN table[slot[1]].idempotency

Entries == {slot \in Slots : Used(sessions, slot)}
EntryOf(slot) == sessions[slot[1]].idempotency[slot[2]]

Answers(kind) == {i \in DOMAIN answered : answered[i].response.kind = kind}
SlotOf(i) == Slot(answered[i].message)

Reclaims(i) ==
  /\ answered[i].message.kind = "collect"
  /\ answered[i].message.reclaim = "true"
  /\ answered[i].response.status = "terminal"

(***************************************************************************)
(* All observations of one session and key agree: they show one command,   *)
(* one terminal fact, and no way back from terminal to pending.  A caller  *)
(* is never shown the effect of a command it did not send, and a terminal  *)
(* collect with reclaim is the last observation of its key.                *)
(***************************************************************************)
ObservationsAgree ==
  /\ \A i \in Answers("observation") :
       answered[i].message.kind = "command" =>
         answered[i].response.fingerprint = answered[i].message.command
  /\ \A i, j \in Answers("observation") :
       i < j /\ SlotOf(i) = SlotOf(j) =>
         LET earlier == answered[i].response
             later   == answered[j].response
         IN  /\ ~Reclaims(i)
             /\ earlier.fingerprint = later.fingerprint
             /\ earlier.status = "terminal" => later.status = "terminal"
             /\ earlier.result # None /\ later.result # None =>
                  earlier.result = later.result

(***************************************************************************)
(* In one session a request identifier stands for one message: of two that *)
(* carry it with different contents at most one gets an answer other than  *)
(* an error, and a session keeps the version its hello selected.           *)
(***************************************************************************)
RequestsBind ==
  \A i, j \in Answers("observation") \cup Answers("selection") :
    answered[i].message.session = answered[j].message.session =>
      /\ answered[i].response.version = answered[j].response.version
      /\ answered[i].message.request = answered[j].message.request =>
           answered[i].message = answered[j].message

(***************************************************************************)
(* An error is confined to its request: it changes no entry that exists,   *)
(* and touches no other session ("schema and command errors reject only    *)
(* that request", uap.md section 1).                                       *)
(***************************************************************************)
ErrorsConfined ==
  [][LET last == answered'[Len(answered')]
     IN  last.response.kind = "error" =>
           /\ DOMAIN sessions' = DOMAIN sessions
           /\ \A slot \in Entries : sessions'[slot[1]].idempotency[slot[2]]
                                      = EntryOf(slot)
           /\ \A s \in DOMAIN sessions :
                s # last.message.session => sessions'[s] = sessions[s]]_vars

(***************************************************************************)
(* "First use stores the 32-byte request fingerprint before observing      *)
(* completion and calls start once" (uap.md:204-205).                      *)
(***************************************************************************)
StartCalledOnce == \A slot \in Slots : calls[slot] <= 1

\* What an entry shows of its effect, and a table of a slot's.
EntryLife(entry) ==
  CASE entry.reclaimed ->
         [stage |-> "given-up", command |-> entry.fingerprint]
    [] ~entry.reclaimed /\ entry.terminal = None ->
         [stage |-> "running", command |-> entry.fingerprint]
    [] ~entry.reclaimed /\ entry.terminal # None ->
         [stage |-> "done", command |-> entry.fingerprint,
          result |-> entry.terminal[1]]

LifeOf(table, slot) ==
  IF Used(table, slot) THEN EntryLife(table[slot[1]].idempotency[slot[2]])
  ELSE [stage |-> "unused"]

(***************************************************************************)
(* The endpoint implements the abstract effect: what a slot's entry shows, *)
(* together with the starts the backend answered with an operation.  So an *)
(* effect whose operation was handed over happens once per session and     *)
(* key, whatever is repeated, reclaimed or refused afterwards, and the     *)
(* slot stays used (uap.md section 6).                                     *)
(***************************************************************************)
Abstract == INSTANCE EffectOnce
  WITH Slots <- Slots, Commands <- Commands, Results <- Encodable,
       life <- [slot \in Slots |-> LifeOf(sessions, slot)], performed <- effects

ImplementsEffectOnce == Abstract!Spec
==============================================================================
